------------------------------ MODULE MCPaging ------------------------------
(***************************************************************************)
(* Instances of Paging.                                                    *)
(***************************************************************************)
EXTENDS Paging

(* Of the bits beyond the cleared quarter: none, the first, one in the     *)
(* middle, or all of them.                                                 *)
MCStaleBits == {{}, {nframes \div 4}, {40, 41}, Frames \ Cleared}
MCClear == {{}}
(* nframes / 32 is what the end of the loop compares with.                 *)
MCLeftovers == {0, nframes \div 32, nframes - 1}
=============================================================================
