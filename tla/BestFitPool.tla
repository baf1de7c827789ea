---------------------------- MODULE BestFitPool ----------------------------
(***************************************************************************)
(* A pool of free blocks as its user sees it: blocks go in, and a request  *)
(* is answered with a best fit, which leaves the pool, or with NULL if no  *)
(* block is large enough.  The specification of the skip list of           *)
(* kernel/heap.c.                                                          *)
(***************************************************************************)
EXTENDS BestFit

CONSTANTS Blocks, Requests, NULL

VARIABLES
  size,    \* size[b], the capacity of b
  pool,    \* the blocks in the pool
  answer   \* the last call, if it was a request, and what it got

Init == size \in [Blocks -> Nat] /\ pool = {} /\ answer = <<>>

Insert(b) ==
  /\ b \notin pool
  /\ pool' = pool \cup {b}
  /\ answer' = <<>>
  /\ UNCHANGED size

Take(n) ==
  \E b \in BestFits(pool, size, n) :
    /\ pool' = pool \ {b}
    /\ answer' = <<n, b>>
    /\ UNCHANGED size

Refuse(n) ==
  /\ BestFits(pool, size, n) = {}
  /\ answer' = <<n, NULL>>
  /\ UNCHANGED <<size, pool>>

Next ==
  \/ \E b \in Blocks : Insert(b)
  \/ \E n \in Requests : Take(n) \/ Refuse(n)

Spec == Init /\ [][Next]_<<size, pool, answer>>
=============================================================================
