--------------------------------- MODULE Elf ---------------------------------
(***************************************************************************)
(* strcmp (kernel/libc/utils.c) and the one use the kernel makes of it:    *)
(* elf_from_multiboot (kernel/elf.c) looks for the string and the symbol   *)
(* table among the sections by name, for the names in stack traces.        *)
(* A name is the sequence of its characters; what follows it is zero.      *)
(***************************************************************************)
EXTENDS Integers, Sequences

CONSTANTS
  Sections,       \* section tables: sequences of names
  STRTAB, SYMTAB  \* the names looked for

(* A string ends at its first zero.                                        *)
Name(s) == s \in Seq(STRING) /\ \A k \in 1..Len(s) : s[k] # "NUL"

ASSUME NameAssumption ==
  /\ Name(STRTAB) /\ Name(SYMTAB)
  /\ \A table \in Sections :
       table \in Seq(Seq(STRING)) /\ \A k \in 1..Len(table) : Name(table[k])

VARIABLES
  sections,  \* the table being gone through
  i,         \* the section to look at next
  elf        \* the sections found, 0 for those not found yet
looking == <<sections, i, elf>>

CharAt(s, k) == IF k <= Len(s) THEN s[k] ELSE "NUL"

(* Mutant: the two ends are not compared.                                  *)
strcmp_OneEnd(str1, str2) ==
  LET stop == CHOOSE k \in 1..Len(str1)+1 :
        /\ CharAt(str1, k) = "NUL" \/ CharAt(str1, k) # CharAt(str2, k)
        /\ \A j \in 1..k-1 : CharAt(str1, j) = CharAt(str2, j)
  IN IF CharAt(str1, stop) = "NUL" THEN 0 ELSE 1

(* The loop moves both pointers past the characters it compares, also past *)
(* those that differ; then it is only asked whether both have ended.       *)
strcmp(str1, str2) ==
  LET stop == CHOOSE k \in 1..Len(str1)+1 :
        /\ CharAt(str1, k) = "NUL" \/ CharAt(str1, k) # CharAt(str2, k)
        /\ \A j \in 1..k-1 : CharAt(str1, j) = CharAt(str2, j)
      ended == CharAt(str1, stop) = "NUL" \/ CharAt(str2, stop) = "NUL"
      next == IF ended THEN stop ELSE stop + 1
  IN IF CharAt(str1, next) # "NUL" THEN 1
     ELSE IF CharAt(str2, next) # "NUL" THEN -1
     ELSE 0

ElfInit == sections \in Sections /\ i = 1 /\ elf = [strtab |-> 0, symtab |-> 0]

elf_from_multiboot ==
  /\ i <= Len(sections)
  /\ elf' = [strtab |-> IF strcmp(sections[i], STRTAB) = 0 THEN i ELSE elf.strtab,
             symtab |-> IF strcmp(sections[i], SYMTAB) = 0 THEN i ELSE elf.symtab]
  /\ i' = i + 1
  /\ UNCHANGED sections

ElfSpec == ElfInit /\ [][elf_from_multiboot]_looking

-----------------------------------------------------------------------------
(* Properties.                                                             *)

(* The different names that strcmp takes for equal.                        *)
SameButLast(a, b) ==
  /\ Len(a) = Len(b) /\ Len(a) > 0
  /\ SubSeq(a, 1, Len(a) - 1) = SubSeq(b, 1, Len(b) - 1)

TakenFor(a, b) == a = b \/ SameButLast(a, b)

(* Whatever the table, the sections found are the last ones whose names    *)
(* strcmp takes for those looked for: with these names, or differing from  *)
(* them in the last character and no other.  So where no name is that      *)
(* near, it is the tables themselves that are found, whatever other names  *)
(* begin or end with theirs; and where a later one is, it is found instead.*)
TablesFound ==
  LET Last(name) == CHOOSE n \in 0..i-1 :
        /\ n > 0 => TakenFor(sections[n], name)
        /\ \A k \in n+1 .. i-1 : ~TakenFor(sections[k], name)
  IN elf = [strtab |-> Last(STRTAB), symtab |-> Last(SYMTAB)]
=============================================================================
