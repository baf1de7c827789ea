------------------------------- MODULE MCHeap -------------------------------
(***************************************************************************)
(* Heap with the kernel's own layout: 4096-byte pages, 11 buckets, headers *)
(* of 16 and 48 bytes.  The sizes, and pairs of them, reach buckets 8      *)
(* (three cells a page) and 9 (one cell a page) and big blocks of one to   *)
(* three pages; 4000 and 4048 are the two sides of a page border.          *)
(***************************************************************************)
EXTENDS Heap

(* The arena: boot-time allocations end in page 1, the heap has the        *)
(* given number of pages after it.                                         *)
HeapPages(n) == (2 + n) * PAGE_SIZE
Arena3 == HeapPages(3)
Arena4 == HeapPages(4)
=============================================================================
