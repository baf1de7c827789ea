------------------------------ MODULE BinArith ------------------------------
(***************************************************************************)
(* How klmalloc chooses a bucket by bit tricks, the loop that links a new  *)
(* page's cells, and the page count of a new big block, in words of WIDTH  *)
(* bits and for every size a word can hold.  BinLayout says what the heap  *)
(* takes them to compute.                                                  *)
(***************************************************************************)
EXTENDS BinLayout, Sequences

CONSTANTS
  WIDTH,      \* bits in a uint32_t; scaled down, as TLC counts to 2^31
  WORD_BYTES  \* sizeof(uint32_t *), the stride of the base[] array

(* The smallest bin's logarithm is defined as that of a word.              *)
ASSUME WordAssumption == WIDTH \in Nat \ {0} /\ WORD_BYTES = 2^SMALLEST_BIN_LOG

VARIABLE size  \* the size requested; a behaviour runs through all of them

Word(n) == n % 2^WIDTH

-----------------------------------------------------------------------------
(* Mutant: the last bucket of small bins counts as the big blocks'.        *)
klmalloc_adjust_bin_EarlyBig(bin) ==
  IF bin <= SMALLEST_BIN_LOG THEN 0
  ELSE IF bin - (SMALLEST_BIN_LOG + 1) >= BIG_BIN - 1 THEN BIG_BIN
  ELSE bin - (SMALLEST_BIN_LOG + 1)

(* klmalloc_adjust_bin; the subtraction is unsigned but cannot borrow.     *)
klmalloc_adjust_bin(bin) ==
  IF bin <= SMALLEST_BIN_LOG THEN 0
  ELSE IF bin - (SMALLEST_BIN_LOG + 1) > BIG_BIN THEN BIG_BIN
  ELSE bin - (SMALLEST_BIN_LOG + 1)

(* WIDTH - clz(n): how many bits n takes.                                  *)
BitLength(n) == CHOOSE k \in 1..WIDTH : 2^(k-1) <= n /\ n < 2^k

(* The bits of m & n.                                                      *)
Bit(n, k) == (n \div 2^k) % 2
SharedBits(m, n) == {k \in 0..WIDTH-1 : Bit(m, k) = 1 /\ Bit(n, k) = 1}

BinOf(n) ==
  klmalloc_adjust_bin(BitLength(n) + IF SharedBits(n, n - 1) = {} THEN 0 ELSE 1)

(* Mutant: one cell too many is linked.                                    *)
LinkedCells_OneMore(b) ==
  LET available == (PAGE_SIZE - HDR) \div 2^(SMALLEST_BIN_LOG + b)
  IN [i \in 1..available+1 |-> HDR + WORD_BYTES * ((i - 1) * 2^b)]

(* The loop over base[]: the offsets in the page of the cells it links,    *)
(* in link order; the one with index available ends the stack.             *)
LinkedCells(b) ==
  LET available == ((PAGE_SIZE - HDR) \div 2^(SMALLEST_BIN_LOG + b)) - 1
  IN [i \in 1..available+1 |-> HDR + WORD_BYTES * ((i - 1) * 2^b)]

(* Mutant: the page for the remainder is forgotten.                        *)
GrowPages_NoRemainder(n) == Word(n + BIG_HDR) \div PAGE_SIZE
GrowPages(n) == Word(n + BIG_HDR) \div PAGE_SIZE + 1
GrowBytes(n) == Word(PAGE_SIZE * GrowPages(n))

(* What a new big block asks of sbrk, and the size its header records.     *)
GrowCapacity(n) == Word(GrowPages(n) * PAGE_SIZE - BIG_HDR)

-----------------------------------------------------------------------------
Init == size = 1
Next == size + 1 < 2^WIDTH /\ size' = size + 1
Spec == Init /\ [][Next]_size

-----------------------------------------------------------------------------
(* Whatever the size, the bit tricks choose the smallest bucket that holds *)
(* it, and the big blocks exactly when no bucket does, at both sides of    *)
(* every power of two and of the border to the big blocks; and linking a   *)
(* new page for a bucket threads all of the page's cells, the last of      *)
(* which ends inside the page.                                             *)
NewPageHoldsRequest ==
  LET b == BinOf(size)
      linked == LinkedCells(b)
  IN /\ b = klmalloc_bin_size(size)
     /\ b < BIG_BIN =>
          /\ size <= CellSize(b)
          /\ linked = FullStack(0, b)
          /\ linked[Len(linked)] + CellSize(b) <= PAGE_SIZE

(* A new big block holds the request and its recorded capacity is what     *)
(* sbrk added, and reads as no bucket in klfree and klrealloc: for every   *)
(* size but those within a page and a header of the word's end, where the  *)
(* sum wraps.                                                              *)
GrowHoldsRequest ==
  size + BIG_HDR + PAGE_SIZE < 2^WIDTH =>
    /\ GrowCapacity(size) >= size
    /\ GrowBytes(size) = GrowCapacity(size) + BIG_HDR
    /\ GrowBytes(size) = BigPages(size) * PAGE_SIZE
    /\ GrowCapacity(size) > NUM_BINS
=============================================================================
