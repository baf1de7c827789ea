--------------------------- MODULE MCKernelPrint ---------------------------
(***************************************************************************)
(* KernelPrint on a screen of three columns and three rows, with texts of   *)
(* one to three short lines, the longest of which just fits the buffer.    *)
(* BYTE is such that a cursor position takes both registers.               *)
(***************************************************************************)
EXTENDS KernelPrint

Letters == {" ", "a", "b", "s"}
Switch == <<"LF", "s", "LF">>
KernelTexts == {<<"a">>, <<"LF", "b">>, <<"a", "b", "LF", "LF", "b">>}
ControlTexts == {<<"a", "HT", "b", "CR", "s", "BS", "BS", "BEL", "a">>}
=============================================================================
