SPECIFICATION Spec
CONSTANTS
    Clients = {c1, c2}
    Deaf = {c2}
    Listener = Listener
    File = File
    Free = Free
    LastFd = 6
    MaxFrames = 1
    Backlog = 2
INVARIANTS
    OneOwner
    StopIsClean
PROPERTIES
    StopCompletes
    WaitingServed
CHECK_DEADLOCK FALSE
