----------------------------- MODULE BinLayout -----------------------------
(***************************************************************************)
(* Page arithmetic and the layout of the heap's bins (kernel/heap.c): a    *)
(* small bin is a page with a header and a row of equal cells, a big bin   *)
(* whole pages with a longer header.  Addresses are numbers.               *)
(***************************************************************************)
EXTENDS Integers

CONSTANTS
  PAGE_SIZE,         \* bytes in a page
  SMALLEST_BIN_LOG,  \* log2 of the smallest cell
  NUM_BINS,          \* buckets, the last of which is for big blocks
  HDR,               \* sizeof(klmalloc_bin_header)
  BIG_HDR            \* sizeof(klmalloc_big_bin_header)

BIG_BIN == NUM_BINS - 1
Buckets == 0..BIG_BIN-1
CellSize(b) == 2^(SMALLEST_BIN_LOG + b)

(* What the arithmetic relies on; the kernel's values satisfy it.          *)
ASSUME LayoutAssumption ==
  /\ PAGE_SIZE \in Nat /\ SMALLEST_BIN_LOG \in Nat /\ NUM_BINS \in Nat
  /\ HDR \in Nat \ {0} /\ BIG_HDR \in Nat \ {0}
  /\ NUM_BINS > 1 /\ NUM_BINS + BIG_HDR < PAGE_SIZE
  /\ \A b \in Buckets :
       /\ CellSize(b) \in Nat \ {0}
       /\ CellSize(b) + HDR <= PAGE_SIZE
       /\ CellSize(b) + BIG_HDR < PAGE_SIZE

PageOf(a) == a - (a % PAGE_SIZE)
Aligned(a) == a % PAGE_SIZE = 0

(* klfree's way from a pointer to the header of its block: a page-aligned  *)
(* pointer came from valloc and belongs to the page before it.             *)
HeaderOf(ptr) == PageOf(IF Aligned(ptr) THEN ptr - 1 ELSE ptr)

(* The cells of a page p in bucket b, and the stack a new page starts with. *)
Cells(b) == (PAGE_SIZE - HDR) \div CellSize(b)
Cell(p, b, i) == p + HDR + i * CellSize(b)
FullStack(p, b) == [i \in 1..Cells(b) |-> Cell(p, b, i - 1)]

(* The smallest bucket whose cells hold size bytes, BIG_BIN if none does.  *)
klmalloc_bin_size(size) ==
  IF \E b \in Buckets : size <= CellSize(b)
  THEN CHOOSE b \in Buckets :
         size <= CellSize(b) /\ \A c \in Buckets : size <= CellSize(c) => b <= c
  ELSE BIG_BIN

(* The pages of a big block made for size bytes.                           *)
BigPages(size) == (size + BIG_HDR) \div PAGE_SIZE + 1
=============================================================================
