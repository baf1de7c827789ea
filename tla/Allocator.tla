----------------------------- MODULE Allocator -----------------------------
(***************************************************************************)
(* The promise of a memory allocator to the code that calls it.  Its only  *)
(* state is the set of regions the callers hold; where they come from and  *)
(* how they are recycled is the implementation's business.                 *)
(***************************************************************************)
EXTENDS BestFit

CONSTANT Limit    \* no region reaches this address or goes beyond it

VARIABLE live     \* live[a] is the length of the region held at address a

(* The n bytes at a share no byte with the m bytes at b.                   *)
Apart(a, n, b, m) == a + n <= b \/ b + m <= a

(* The n bytes at a are below the limit and disjoint from all of regions.  *)
Fresh(a, n, regions) ==
  /\ a + n <= Limit
  /\ \A b \in DOMAIN regions : Apart(a, n, b, regions[b])

Init == live = [a \in {} |-> 0]

(* A caller receives a region nobody holds.                                *)
Grant ==
  \E a \in DOMAIN live' \ DOMAIN live :
    /\ Fresh(a, live'[a], live)
    /\ live' = With(live, a, live'[a])

(* A caller gives a region back.                                           *)
Release == \E a \in DOMAIN live : live' = Without(live, a)

(* A region is resized, in place or by moving it; the new place never      *)
(* overlaps the old one when it moves, for the bytes are still to be       *)
(* copied.                                                                 *)
Resize ==
  \E a \in DOMAIN live, b \in DOMAIN live' :
    /\ Fresh(b, live'[b], IF a = b THEN Without(live, a) ELSE live)
    /\ live' = With(Without(live, a), b, live'[b])

Next == Grant \/ Release \/ Resize

Spec == Init /\ [][Next]_live
=============================================================================
