----------------------------- MODULE MCTasking -----------------------------
(***************************************************************************)
(* Instances of Tasking; TICKS is small, so the tick counter wraps.        *)
(***************************************************************************)
EXTENDS Tasking
=============================================================================
