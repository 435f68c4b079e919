SPECIFICATION QFairSpec
CONSTANTS
  Producers = {p1, p2}
  Batchers = {b1}
  Poppers = {q1}
  Capacity = 2
  MaxItems = 2
  MaxPush = 2
INVARIANTS
  NothingLostOrDoubled
  BatchBounded
  ConsumerNotStranded
  ProducerNotStranded
PROPERTIES
  CloseReleasesAll
  EverythingReturned
CHECK_DEADLOCK FALSE
