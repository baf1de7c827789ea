------------------------------ MODULE MCLibrary ------------------------------
(***************************************************************************)
(* The kernel's pure computations in one instance: a behaviour runs        *)
(* through all sizes, formats one text, or looks through a section table.  *)
(***************************************************************************)
EXTENDS BinArith, Format, Elf

(* Anything that begins like a directive, and directives of every shape.   *)
Pieces == {"%", "-", "+", " ", "#", "0", "2", "*", ".", "l", "d", "x", "s", "c", "A"}
Begun == {<<"%">> \o rest : rest \in UNION {[1..n -> Pieces] : n \in 0..3}}
Complete ==
  {<<"%">> \o flags \o width \o precision \o <<conversion, "A">> :
     flags \in {<<>>} \cup [1..2 -> {"-", "+", " ", "#", "0"}],
     width \in {<<>>, <<"3">>, <<"1", "2">>},
     precision \in {<<>>, <<".">>, <<".", "1">>, <<".", "4">>},
     conversion \in {"d", "i", "u", "x", "X", "o", "b", "s", "c", "p"}}
AllFormats == Begun \cup Complete

SomeArguments == {<<first, 63, 5, 2>> : first \in {0, 1, 9, 31, 32, 63}}
SomeStrings == [p \in 0..63 |-> SubSeq(<<"A", "B", "C">>, 1, p % 4)]

Symtab == <<".", "s", "y", "m", "t", "a", "b">>
Strtab == <<".", "s", "t", "r", "t", "a", "b">>
Shstrtab == <<".", "s", "h">> \o Tail(Tail(Strtab))
LinkedNames == {<<>>, <<".", "t", "e", "x", "t">>, <<".", "b", "s", "s">>, Symtab, Strtab, Shstrtab}
AlikeNames ==
  {SubSeq(Strtab, 1, n) : n \in 0..7} \cup {Append(Strtab, "x")}
  \cup {[Strtab EXCEPT ![k] = "x"] : k \in 1..7}
SectionTables ==
  [1..4 -> LinkedNames] \cup UNION {[1..n -> LinkedNames \cup AlikeNames] : n \in 1..2}

SizeInit == size = 1
TextInit == format = <<>> /\ fmt = 1 /\ str = <<>> /\ args = <<>> /\ field = NoField
TableInit == sections = <<>> /\ i = 1 /\ elf = [strtab |-> 0, symtab |-> 0]

MCInit ==
  \/ Init /\ TextInit /\ TableInit
  \/ SizeInit /\ FormatInit /\ TableInit
  \/ SizeInit /\ TextInit /\ ElfInit

MCNext ==
  \/ Next /\ format = <<>> /\ sections = <<>> /\ UNCHANGED <<formatting, looking>>
  \/ FormatNext /\ UNCHANGED <<size, looking>>
  \/ elf_from_multiboot /\ UNCHANGED <<size, formatting>>

MCSpec == MCInit /\ [][MCNext]_<<size, formatting, looking>>
=============================================================================
