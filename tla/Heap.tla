-------------------------------- MODULE Heap --------------------------------
(***************************************************************************)
(* The kernel heap (kernel/heap.c) and the two regimes of kmalloc_raw:     *)
(* before init_heap a bump of placement_pointer, after it malloc/valloc.   *)
(*                                                                         *)
(* Addresses are numbers.  The allocator's state is one record h:          *)
(*   end   heap_end, 0 until init_heap                                     *)
(*   size  header->size of every page that carries BIN_MAGIC: the bucket   *)
(*         of a small bin, the capacity in bytes of a big one              *)
(*   head  the stack that starts at header->head, top first                *)
(*   list  klmalloc_bin_head: the linked bins of each bucket, first first  *)
(*   big   the free big blocks, kept by the code in a skip list            *)
(*   chain the big blocks linked by prev/next, klmalloc_newest_big last    *)
(* so that a caller of several of them (realloc) is their composition.     *)
(* SkipList shows that the skip list implements the best-fit pool used     *)
(* here, BinArith that the bit arithmetic computes klmalloc_bin_size.       *)
(***************************************************************************)
EXTENDS BestFit, BinLayout, Sequences, Functions

CONSTANTS
  KHEAP_END,         \* first address that is not mapped
  PLACEMENT_START,   \* placement_pointer when the kernel first allocates
  PLACEMENT_MAX,     \* bound: boot-time allocations keep it at most this
  Sizes,             \* bound: the sizes requested, but of valloc
  AlignedSizes,      \* bound: the sizes requested of valloc
  Counts             \* bound: the element counts requested of calloc

NULL == 0

ASSUME ArenaAssumption ==
  /\ KHEAP_END \in Nat /\ PLACEMENT_START \in Nat \ {0} /\ PLACEMENT_MAX \in Nat
ASSUME RequestAssumption ==
  Sizes \subseteq Nat /\ AlignedSizes \subseteq Nat /\ Counts \subseteq Nat

VARIABLES
  heap,               \* the allocator's state, the record above
  placement_pointer,  \* the bump allocator's next address
  placed,             \* history: placed[a], the size of a boot-time region
  live,               \* history: live[a], the size asked for at a, not freed
  hung                \* the page fault handler's for(;;) has been entered

vars == <<heap, placement_pointer, placed, live, hung>>

-----------------------------------------------------------------------------
(* The bins of a heap.                                                     *)

Bins(h) == DOMAIN h.size
IsBig(h, p) == h.size[p] > NUM_BINS
Extent(h, p) == IF IsBig(h, p) THEN h.size[p] + BIG_HDR ELSE PAGE_SIZE

Result(h, ptr) == [heap |-> h, ptr |-> ptr, hung |-> FALSE]

-----------------------------------------------------------------------------
(* sbrk moves heap_end, then clears the new bytes: beyond the mapped       *)
(* addresses that faults, and page_fault never returns.                    *)

CanGrow(h, n) == h.end + n <= KHEAP_END
Faulted(h, n) ==
  [heap |-> [h EXCEPT !.end = h.end + n], ptr |-> NULL, hung |-> TRUE]

(* Small bins: a fresh page becomes a stack of cells at the front of its   *)
(* bucket's list; a bin whose last cell is taken leaves the list.          *)
NewBin(h, b) ==
  [h EXCEPT !.end = h.end + PAGE_SIZE,
            !.size = With(h.size, h.end, b),
            !.head = With(h.head, h.end, FullStack(h.end, b)),
            !.list = [h.list EXCEPT ![b] = <<h.end>> \o h.list[b]]]

(* Mutant: a bin whose last cell is taken stays on the list.               *)
PopCell_KeepsFullBin(h, b) ==
  LET p == Head(h.list[b])
  IN Result([h EXCEPT !.head = [h.head EXCEPT ![p] = Tail(h.head[p])]],
            Head(h.head[p]))

PopCell(h, b) ==
  LET p == Head(h.list[b])
      rest == Tail(h.head[p])
  IN Result([h EXCEPT !.head = [h.head EXCEPT ![p] = rest],
                      !.list = [h.list EXCEPT ![b] =
                                  IF rest = <<>> THEN Tail(h.list[b]) ELSE h.list[b]]],
            Head(h.head[p]))

MallocSmall(h, b) ==
  IF h.list[b] # <<>> THEN PopCell(h, b)
  ELSE IF CanGrow(h, PAGE_SIZE) THEN PopCell(NewBin(h, b), b)
  ELSE Faulted(h, PAGE_SIZE)

(* Mutant: the block found is neither deleted from the skip list nor       *)
(* popped.                                                                 *)
TakeBig_StaysListed(h, p) == Result(h, Head(h.head[p]))

(* Big blocks: the best fit is taken whole, whatever it leaves unused.     *)
TakeBig(h, p) ==
  Result([h EXCEPT !.head = [h.head EXCEPT ![p] = Tail(h.head[p])],
                   !.big = h.big \ {p}],
         Head(h.head[p]))

(* Mutant: klmalloc_newest_big is set, the blocks before it are not linked. *)
GrowBig_Unlinked(h, size) ==
  Result([h EXCEPT !.end = h.end + BigPages(size) * PAGE_SIZE,
                   !.size = With(h.size, h.end, BigPages(size) * PAGE_SIZE - BIG_HDR),
                   !.head = With(h.head, h.end, <<>>),
                   !.chain = <<h.end>>],
         h.end + BIG_HDR)

GrowBig(h, size) ==
  Result([h EXCEPT !.end = h.end + BigPages(size) * PAGE_SIZE,
                   !.size = With(h.size, h.end, BigPages(size) * PAGE_SIZE - BIG_HDR),
                   !.head = With(h.head, h.end, <<>>),
                   !.chain = Append(h.chain, h.end)],
         h.end + BIG_HDR)

MallocBig(h, size) ==
  LET fits == BestFits(h.big, h.size, size)
  IN IF fits # {} THEN {TakeBig(h, p) : p \in fits}
     ELSE IF CanGrow(h, BigPages(size) * PAGE_SIZE) THEN {GrowBig(h, size)}
     ELSE {Faulted(h, BigPages(size) * PAGE_SIZE)}

-----------------------------------------------------------------------------
(* The entry points: the set of outcomes of a call in state h.             *)

klmalloc(h, size) ==
  IF size = 0 THEN {Result(h, NULL)}
  ELSE IF klmalloc_bin_size(size) < BIG_BIN
       THEN {MallocSmall(h, klmalloc_bin_size(size))}
       ELSE MallocBig(h, size)

(* Mutant: no room is added for the gap before the aligned address.        *)
klvalloc_NoGap(h, size) ==
  {[r EXCEPT !.ptr = r.ptr + (PAGE_SIZE - BIG_HDR)] : r \in klmalloc(h, size + BIG_HDR)}

klvalloc(h, size) ==
  {[r EXCEPT !.ptr = r.ptr + (PAGE_SIZE - BIG_HDR)] :
     r \in klmalloc(h, size + PAGE_SIZE - BIG_HDR)}

klcalloc(h, nmemb, size) == klmalloc(h, nmemb * size)

(* Mutant: the block's cell is pushed, but the block not inserted.         *)
FreeBig_NotListed(h, p) ==
  [h EXCEPT !.head = [h.head EXCEPT ![p] = <<p + BIG_HDR>> \o h.head[p]]]

FreeBig(h, p) ==
  [h EXCEPT !.head = [h.head EXCEPT ![p] = <<p + BIG_HDR>> \o h.head[p]],
            !.big = h.big \cup {p}]

(* Mutant: a bin that was full is not returned to its list.                *)
FreeSmall_NotListed(h, p, ptr) ==
  [h EXCEPT !.head = [h.head EXCEPT ![p] = <<ptr>> \o h.head[p]]]

FreeSmall(h, p, ptr) ==
  [h EXCEPT !.head = [h.head EXCEPT ![p] = <<ptr>> \o h.head[p]],
            !.list = IF h.head[p] = <<>>
                     THEN [h.list EXCEPT ![h.size[p]] = <<p>> \o h.list[h.size[p]]]
                     ELSE h.list]

klfree(h, ptr) ==
  LET p == HeaderOf(ptr)
  IN IF ptr = NULL \/ p \notin Bins(h) THEN h
     ELSE IF IsBig(h, p) THEN FreeBig(h, p)
     ELSE FreeSmall(h, p, ptr)

(* free() leaves alone whatever the bump allocator handed out.             *)
FreeAbove(h, ptr, placement) == IF ptr > placement THEN klfree(h, ptr) ELSE h

Capacity(h, p) == IF h.size[p] < BIG_BIN THEN CellSize(h.size[p]) ELSE h.size[p]

(* Mutant: the old block is not freed after the move.                      *)
klrealloc_KeepsOld(h, ptr, size, placement) ==
  LET p == PageOf(ptr)
  IN IF ptr = NULL THEN klmalloc(h, size)
     ELSE IF size = 0 THEN {Result(FreeAbove(h, ptr, placement), NULL)}
     ELSE IF p \notin Bins(h) THEN {Result(h, NULL)}
     ELSE IF Capacity(h, p) >= size THEN {Result(h, ptr)}
     ELSE klmalloc(h, size)

(* realloc looks for the header in ptr's own page, without klfree's step   *)
(* back for page-aligned pointers: there it reads the caller's bytes,      *)
(* taken to differ from BIN_MAGIC, and answers NULL.                       *)
klrealloc(h, ptr, size, placement) ==
  LET p == PageOf(ptr)
  IN IF ptr = NULL THEN klmalloc(h, size)
     ELSE IF size = 0 THEN {Result(FreeAbove(h, ptr, placement), NULL)}
     ELSE IF p \notin Bins(h) THEN {Result(h, NULL)}
     ELSE IF Capacity(h, p) >= size THEN {Result(h, ptr)}
     ELSE {IF r.hung THEN r ELSE Result(klfree(r.heap, ptr), r.ptr) :
             r \in klmalloc(h, size)}

-----------------------------------------------------------------------------
EmptyHeap ==
  [end |-> 0, size |-> [p \in {} |-> 0], head |-> [p \in {} |-> <<>>],
   list |-> [b \in Buckets |-> <<>>], big |-> {}, chain |-> <<>>]

Init ==
  /\ heap = EmptyHeap
  /\ placement_pointer = PLACEMENT_START
  /\ placed = [a \in {} |-> 0]
  /\ live = [a \in {} |-> 0]
  /\ hung = FALSE

Booting == heap.end = 0 /\ ~hung
Running == heap.end # 0 /\ ~hung

(* kmalloc_raw before init_heap.  The alignment test asks whether the      *)
(* pointer has a page number at all, so it moves even an aligned pointer.  *)
Place(size, align) ==
  LET at == IF align /\ PageOf(placement_pointer) # 0
            THEN PageOf(placement_pointer) + PAGE_SIZE
            ELSE placement_pointer
  IN /\ Booting
     /\ size > 0
     /\ at + size <= PLACEMENT_MAX
     /\ placement_pointer' = at + size
     /\ placed' = With(placed, at, size)
     /\ UNCHANGED <<heap, live, hung>>

(* Mutant: the heap starts at the page of placement_pointer.               *)
init_heap_NotRounded ==
  /\ Booting
  /\ heap' = [heap EXCEPT !.end = PageOf(placement_pointer)]
  /\ UNCHANGED <<placement_pointer, placed, live, hung>>

init_heap ==
  /\ Booting
  /\ heap' = [heap EXCEPT !.end = PageOf(placement_pointer + PAGE_SIZE)]
  /\ UNCHANGED <<placement_pointer, placed, live, hung>>

(* A call returned r: ptr, if any, is now held with the size asked for.    *)
Hand(r, held, size) ==
  /\ heap' = r.heap
  /\ hung' = r.hung
  /\ live' = IF r.hung THEN live
             ELSE IF r.ptr = NULL THEN held
             ELSE With(held, r.ptr, size)
  /\ UNCHANGED <<placement_pointer, placed>>

Malloc(size) == Running /\ \E r \in klmalloc(heap, size) : Hand(r, live, size)

Valloc(size) == Running /\ \E r \in klvalloc(heap, size) : Hand(r, live, size)

Calloc(nmemb, size) ==
  Running /\ \E r \in klcalloc(heap, nmemb, size) : Hand(r, live, nmemb * size)

Held == DOMAIN live \cup DOMAIN placed

(* free of what the caller holds, or of NULL.                              *)
Free(ptr) ==
  /\ Running
  /\ heap' = FreeAbove(heap, ptr, placement_pointer)
  /\ live' = Without(live, ptr)
  /\ UNCHANGED <<placement_pointer, placed, hung>>

(* realloc of what the caller holds, or of NULL.  NULL as the answer means *)
(* the old region stays the caller's, unless the size asked for was 0.     *)
Realloc(ptr, size) ==
  /\ Running
  /\ \E r \in klrealloc(heap, ptr, size, placement_pointer) :
       Hand(r, IF r.ptr # NULL \/ size = 0 THEN Without(live, ptr) ELSE live, size)

Next ==
  \/ \E size \in Sizes, align \in BOOLEAN : Place(size, align)
  \/ init_heap
  \/ \E size \in Sizes : Malloc(size)
  \/ \E size \in AlignedSizes : Valloc(size)
  \/ \E nmemb \in Counts, size \in Sizes : Calloc(nmemb, size)
  \/ \E ptr \in Held \cup {NULL} : Free(ptr)
  \/ \E ptr \in Held \cup {NULL}, size \in Sizes : Realloc(ptr, size)

Spec == Init /\ [][Next]_vars

-----------------------------------------------------------------------------
(* Properties.                                                             *)

SmallBins(h) == {p \in Bins(h) : ~IsBig(h, p)}
BigBins(h) == {p \in Bins(h) : IsBig(h, p)}
CellsOf(h, p) == {Cell(p, h.size[p], i) : i \in 0..Cells(h.size[p])-1}

(* Types of the variables.                                                 *)
HeapType(h) ==
  /\ h \in [end : Nat, size : [Bins(h) -> Nat], head : [Bins(h) -> Seq(Nat)],
            list : [Buckets -> Seq(Bins(h))], big : SUBSET Bins(h), chain : Seq(Bins(h))]
  /\ Bins(h) \subseteq Nat
TypeOK ==
  /\ HeapType(heap)
  /\ placement_pointer \in Nat
  /\ DOMAIN placed \subseteq Nat /\ placed \in [DOMAIN placed -> Nat]
  /\ DOMAIN live \subseteq Nat /\ live \in [DOMAIN live -> Nat]
  /\ hung \in BOOLEAN

(* The pages carved by sbrk: every bin starts on a page, ends below        *)
(* heap_end and overlaps no other; sizes tell small from big (the asserts  *)
(* on % PAGE_SIZE in klmalloc and klfree, compiled out of the kernel).     *)
BinsOK(h) ==
  /\ Aligned(h.end)
  /\ \A p \in Bins(h) :
       /\ p > 0 /\ Aligned(p)
       /\ p + Extent(h, p) <= h.end
       /\ IF IsBig(h, p) THEN Aligned(h.size[p] + BIG_HDR) ELSE h.size[p] \in Buckets
  /\ \A p, q \in Bins(h) : p < q => p + Extent(h, p) <= q

(* The free stacks: a small bin's holds distinct cells of that bin, a big  *)
(* block's holds its one cell exactly while the block is in the pool (the  *)
(* asserts of klmalloc_stack_pop, klmalloc_stack_push and klfree).         *)
StacksOK(h) ==
  /\ \A p \in SmallBins(h) : Range(h.head[p]) \subseteq CellsOf(h, p) /\ IsInjective(h.head[p])
  /\ \A p \in BigBins(h) : h.head[p] = IF p \in h.big THEN <<p + BIG_HDR>> ELSE <<>>
  /\ h.big \subseteq BigBins(h)

(* A bucket's list holds, once each, exactly the bins of that bucket with  *)
(* a free cell: klmalloc decouples a bin when it takes the last cell and   *)
(* klfree links it again when it returns the first.                        *)
ListsOK(h) ==
  \A b \in Buckets :
    /\ Range(h.list[b]) = {p \in SmallBins(h) : h.size[p] = b /\ h.head[p] # <<>>}
    /\ IsInjective(h.list[b])

(* The bytes held at a are inside one block of the heap, the one that      *)
(* klfree computes from a, and that block is not free.                     *)
Owned(h, a, n) ==
  LET p == HeaderOf(a)
  IN /\ p \in Bins(h)
     /\ IF IsBig(h, p)
        THEN /\ a \in {p + BIG_HDR, p + PAGE_SIZE}
             /\ a + n <= p + Extent(h, p)
             /\ p \notin h.big
        ELSE /\ a \in CellsOf(h, p) \ Range(h.head[p])
             /\ n <= CellSize(h.size[p])

(* Every pointer a caller holds is owned, and two of them are never in the *)
(* same big block.                                                         *)
LiveOK(h, held) ==
  /\ \A a \in DOMAIN held : held[a] > 0 /\ Owned(h, a, held[a])
  /\ \A a, c \in DOMAIN held :
       HeaderOf(a) = HeaderOf(c) /\ IsBig(h, HeaderOf(a)) => a = c

(* What boot-time allocations got lies below the heap, where free and      *)
(* realloc never take it for a block.                                      *)
PlacementOK ==
  /\ \A a \in DOMAIN placed : placed[a] > 0 /\ a + placed[a] <= placement_pointer
  /\ \A a, c \in DOMAIN placed : a < c => a + placed[a] <= c
  /\ \A p \in Bins(heap) : placement_pointer < p
  /\ heap.end # 0 => placement_pointer < heap.end
  /\ heap.end = 0 => Bins(heap) = {} /\ DOMAIN live = {}

HeapInv(h, held) == BinsOK(h) /\ StacksOK(h) /\ ListsOK(h) /\ LiveOK(h, held)
HeapOK == HeapInv(heap, live)

(* No byte is held twice: the promise of __attribute__((malloc)) for every *)
(* pair of regions, whether both come from the heap, both from boot-time   *)
(* placement, or one from each.                                            *)
Regions == [a \in Held |-> IF a \in DOMAIN live THEN live[a] ELSE placed[a]]
NoOverlap ==
  \A a, c \in Held : a < c => a + Regions[a] <= c

(* Nothing leaks: every cell of a small bin is on the bin's stack or held, *)
(* and every big block is in the pool or holds exactly one region, so all  *)
(* that was freed can be handed out again.                                 *)
NoLeak ==
  /\ \A p \in SmallBins(heap) : CellsOf(heap, p) \subseteq Range(heap.head[p]) \cup DOMAIN live
  /\ \A p \in BigBins(heap) \ heap.big : \E a \in DOMAIN live : HeaderOf(a) = p

(* The physical chain of big blocks is complete and in address order, so   *)
(* klmalloc_newest_big is the block nearest heap_end.                      *)
ChainOK ==
  /\ Range(heap.chain) = BigBins(heap)
  /\ \A i, j \in DOMAIN heap.chain : i < j => heap.chain[i] < heap.chain[j]

(* The heap grows, or dies growing, only for a request that nothing free   *)
(* could serve: a small one whose bucket has no free cell anywhere, or a   *)
(* big one larger than every free block.  A call whose request something   *)
(* free could serve never gets to sbrk, so it neither moves heap_end nor   *)
(* ends in the page fault's loop.  (valloc also needs the aligning gap.)   *)
CouldServe(h, n) ==
  \/ /\ klmalloc_bin_size(n) < BIG_BIN
     /\ \E p \in SmallBins(h) : h.size[p] = klmalloc_bin_size(n) /\ h.head[p] # <<>>
  \/ /\ klmalloc_bin_size(n) = BIG_BIN
     /\ \E p \in BigBins(h) \ {HeaderOf(a) : a \in DOMAIN live} : h.size[p] >= n
GrowsOnlyWhenNothingFits ==
  [][heap'.end # heap.end \/ hung' =>
       /\ \A n \in Sizes : CouldServe(heap, n) =>
            ~Malloc(n) /\ \A ptr \in Held \cup {NULL} : ~Realloc(ptr, n)
       /\ \A n \in AlignedSizes : CouldServe(heap, n + PAGE_SIZE - BIG_HDR) => ~Valloc(n)
       /\ \A c \in Counts, n \in Sizes : CouldServe(heap, c * n) => ~Calloc(c, n)]_vars

(* The heap implements the allocator its callers are promised.             *)
Promise == INSTANCE Allocator WITH Limit <- KHEAP_END, live <- Regions
PromiseKept == Promise!Spec

(* What kernel/heap.c:1004 asserts: realloc is never asked to move a block *)
(* without finding BIN_MAGIC at the start of the pointer's page.           *)
ReallocFindsMagic ==
  \A a \in DOMAIN live : PageOf(a) \in Bins(heap)

(* What kernel/heap.c:1048-1053 says of a full heap: the allocation comes  *)
(* back to its caller, with NULL.                                          *)
ExhaustionReturns == ~hung
=============================================================================
