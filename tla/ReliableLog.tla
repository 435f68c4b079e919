---------------------------- MODULE ReliableLog ----------------------------
(***************************************************************************)
(* What LogBridge promises of the lines of a log file, with clients,       *)
(* messages, connections and acknowledgements left out: a line is held     *)
(* durably by the collector before it is delivered, and is let go only     *)
(* when it has been delivered or is certain to be read again.              *)
(***************************************************************************)
EXTENDS Integers

CONSTANT Lines  \* positions in the log file

VARIABLES held,       \* lines the collector keeps on its disk
          delivered,  \* lines the server has printed
          upto        \* the collector resumes reading after this line

rvars == <<held, delivered, upto>>

Covered == held \cup delivered

RInit == held = {} /\ delivered = {} /\ upto = 0

Hold == \E l \in Lines : /\ held' = held \cup {l}
                         /\ UNCHANGED <<delivered, upto>>

Deliver == \E l \in held : /\ delivered' = delivered \cup {l}
                           /\ UNCHANGED <<held, upto>>

\* Lines are let go together when the log of held lines is compacted.
LetGo == /\ held' \subseteq held
         /\ \A l \in held \ held' : l \in delivered \/ l > upto
         /\ UNCHANGED <<delivered, upto>>

\* The resume position moves over covered lines only, or is lost.
MoveTo == /\ upto' \in Lines \cup {0}
          /\ 1 .. upto' \subseteq Covered
          /\ UNCHANGED <<held, delivered>>

RNext == Hold \/ Deliver \/ LetGo \/ MoveTo

RSpec == RInit /\ [][RNext]_rvars

\* No line behind the resume position is forgotten.
NothingForgotten == 1 .. upto \subseteq Covered

=============================================================================
