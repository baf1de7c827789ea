------------------------------ MODULE BestFit ------------------------------
(***************************************************************************)
(* What the pool of free big blocks promises its caller, without saying    *)
(* how the blocks are kept: the answer of a lookup is a smallest block     *)
(* among those that are large enough.                                      *)
(***************************************************************************)
EXTENDS Integers

(* The blocks of pool that a request for n bytes may be given; size maps   *)
(* each block to its capacity.  Several blocks qualify when they tie.      *)
BestFits(pool, size, n) ==
  {b \in pool : /\ size[b] >= n
                /\ \A c \in pool : size[c] >= n => size[b] <= size[c]}

(* A function like f, also defined at x, with value v there.               *)
With(f, x, v) == [y \in DOMAIN f \cup {x} |-> IF y = x THEN v ELSE f[y]]

(* The function f without x in its domain.                                 *)
Without(f, x) == [y \in DOMAIN f \ {x} |-> f[y]]
=============================================================================
