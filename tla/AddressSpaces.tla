--------------------------- MODULE AddressSpaces ---------------------------
(***************************************************************************)
(* What paging promises the processes: each has pages of its own, a new    *)
(* address space begins as a copy of the one it is cloned from, and from   *)
(* then on a write is seen in no other.                                    *)
(***************************************************************************)
CONSTANTS Spaces, Pages, Values, Unmapped, Nobody

VARIABLES
  space,   \* space[s][p]: what p holds in s; defined for the spaces there are
  current  \* the space of the running process, or Nobody

Made == DOMAIN space

Init == space = [s \in {} |-> {}] /\ current = Nobody

First ==
  \E s \in Spaces :
    /\ Made = {}
    /\ space' = [t \in {s} |-> [p \in Pages |-> Unmapped]]
    /\ current' = s

Map(p) ==
  /\ current # Nobody
  /\ space[current][p] = Unmapped
  /\ \E v \in Values : space' = [space EXCEPT ![current][p] = v]
  /\ UNCHANGED current

Write(p, v) ==
  /\ current # Nobody
  /\ space[current][p] # Unmapped
  /\ space' = [space EXCEPT ![current][p] = v]
  /\ UNCHANGED current

Clone ==
  /\ current # Nobody
  /\ \E s \in Spaces \ Made :
       space' = [t \in Made \cup {s} |-> IF t = s THEN space[current] ELSE space[t]]
  /\ UNCHANGED current

Switch == current # Nobody /\ current' \in Made /\ UNCHANGED space

Next ==
  \/ First \/ Clone \/ Switch
  \/ \E p \in Pages : Map(p) \/ \E v \in Values : Write(p, v)

Spec == Init /\ [][Next]_<<space, current>>
=============================================================================
