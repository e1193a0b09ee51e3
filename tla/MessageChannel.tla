--------------------------- MODULE MessageChannel ---------------------------
(***************************************************************************)
(* What a delivery path of the bridge promises: a message it has accepted  *)
(* is held until it was handed over at least once, or until one of the     *)
(* path's named exceptions (it grew too old, a failure was swallowed) has  *)
(* excused it.  Hand-overs may repeat; nothing is handed over that was not *)
(* accepted or is no longer held.  The detailed modules implement this     *)
(* specification; which exceptions excuse a message is theirs to say.      *)
(***************************************************************************)
EXTENDS Naturals

CONSTANTS Msgs,   \* the messages
          Most    \* bound: hand-overs of a message are counted up to Most

VARIABLES place,    \* where a message is: "absent", "held" or "out"
          got,      \* how often it was handed over
          excused   \* the messages an exception applies to

vars == <<place, got, excused>>

Init ==
    /\ place = [m \in Msgs |-> "absent"]
    /\ got = [m \in Msgs |-> 0]
    /\ excused = {}

Accept(m) ==
    /\ place[m] = "absent"
    /\ place' = [place EXCEPT ![m] = "held"]
    /\ UNCHANGED <<got, excused>>

HandOver(m) ==
    /\ place[m] = "held"
    /\ got' = [got EXCEPT ![m] = IF @ < Most THEN @ + 1 ELSE @]
    /\ UNCHANGED <<place, excused>>

Excuse(m) ==
    /\ place[m] = "held"
    /\ excused' = excused \cup {m}
    /\ UNCHANGED <<place, got>>

\* The message leaves; at the latest now it is excused.
Retire(m) ==
    /\ place[m] = "held"
    /\ place' = [place EXCEPT ![m] = "out"]
    /\ excused' \in {excused, excused \cup {m}}
    /\ got[m] > 0 \/ m \in excused'
    /\ UNCHANGED got

Next == \E m \in Msgs : Accept(m) \/ HandOver(m) \/ Excuse(m) \/ Retire(m)

Spec == Init /\ [][Next]_vars

\* Every message that was accepted leaves at last.
Settles == \A m \in Msgs : place[m] = "held" ~> place[m] = "out"

=============================================================================
