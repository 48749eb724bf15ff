---------------------------- MODULE PeerRegistry ----------------------------
(***************************************************************************)
(* What the handler promises about its set of peers, with no goroutine in   *)
(* sight: peers join and leave while the registry is open; once it is       *)
(* closing they only leave; it terminates when the last one has left, and   *)
(* stays empty.  PeerLifecycle implements this specification.               *)
(***************************************************************************)
CONSTANT Ids            \* node identifiers

VARIABLES members,      \* the identifiers registered now
          phase         \* "open", "closing" or "terminated"

regVars == <<members, phase>>

Init == members = {} /\ phase = "open"

Join(i) ==
    /\ phase = "open"
    /\ i \notin members
    /\ members' = members \cup {i}
    /\ UNCHANGED phase

Leave(i) ==
    /\ phase # "terminated"
    /\ i \in members
    /\ members' = members \ {i}
    /\ UNCHANGED phase

Shut ==
    /\ phase = "open"
    /\ phase' = "closing"
    /\ UNCHANGED members

Terminate ==
    /\ phase = "closing"
    /\ members = {}
    /\ phase' = "terminated"
    /\ UNCHANGED members

Next ==
    \/ \E i \in Ids : Join(i) \/ Leave(i)
    \/ Shut
    \/ Terminate

Spec == Init /\ [][Next]_regVars
=============================================================================
