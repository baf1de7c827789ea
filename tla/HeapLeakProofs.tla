--------------------------- MODULE HeapLeakProofs ---------------------------
(***************************************************************************)
(* The heap loses nothing, links all its big blocks, grows only when it    *)
(* has to and is an allocator, under the assumptions of HeapProofs.        *)
(***************************************************************************)
EXTENDS HeapProofs

(* NoLeak and ChainOK of a heap whose callers hold the addresses D.        *)
Tight(h, D) ==
  /\ \A p \in SmallBins(h) : CellsOf(h, p) \subseteq Range(h.head[p]) \cup D
  /\ \A p \in BigBins(h) \ h.big : \E a \in D : HeaderOf(a) = p
Chained(h) ==
  /\ Range(h.chain) = BigBins(h)
  /\ \A i, j \in DOMAIN h.chain : i < j => h.chain[i] < h.chain[j]

(* Every block ends where the mapped addresses end, or before.             *)
InArena(h) == \A p \in Bins(h) : p + Extent(h, p) <= KHEAP_END

-----------------------------------------------------------------------------
(* New blocks at the end of the heap. *)

LEMMA NewBinTight ==
  ASSUME NEW h, Sound(h), NEW D, Tight(h, D), Chained(h), InArena(h), NEW b \in Buckets,
         CanGrow(h, PAGE_SIZE)
  PROVE  LET g == NewBin(h, b)
         IN Tight(g, D) /\ Chained(g) /\ InArena(g)
<1> DEFINE g == NewBin(h, b)
           x == h.end
<1>1. /\ HeapType(g) /\ Bins(g) = Bins(h) \cup {x}
      /\ g.end = x + PAGE_SIZE /\ g.size = With(h.size, x, b)
      /\ g.head = With(h.head, x, FullStack(x, b))
      /\ g.big = h.big /\ g.chain = h.chain
  BY NewBinFields DEF Sound
<1> HIDE DEF g
<1>2. HeapType(h) /\ x \in Nat /\ x > 0
  BY HeapFields DEF Sound
<1>3. /\ x \notin Bins(h) /\ g.size[x] = b
      /\ \A p \in Bins(h) : g.size[p] = h.size[p] /\ Extent(g, p) = Extent(h, p)
      /\ SmallBins(g) = SmallBins(h) \cup {x} /\ BigBins(g) = BigBins(h)
  <2>1. b \in Nat /\ 1 \in Nat \ {0} /\ g.end = x + 1 * PAGE_SIZE
    BY <1>1, BucketType, LayoutAssumption
  <2>2. /\ x \notin Bins(h) /\ g.size[x] = b
        /\ \A p \in Bins(h) : g.size[p] = h.size[p] /\ Extent(g, p) = Extent(h, p)
        /\ SmallBins(g) = SmallBins(h) \cup (IF b \in Buckets THEN {x} ELSE {})
        /\ BigBins(g) = BigBins(h) \cup (IF b \in Buckets THEN {} ELSE {x})
    BY <1>1, <1>2, <2>1, AddedBin
  <2> QED BY <2>2
<1>4. g.head[x] = FullStack(x, b) /\ \A p \in Bins(h) : g.head[p] = h.head[p]
  <2>1. DOMAIN h.head = Bins(h)
    BY <1>2, HeapFields
  <2> QED BY <1>1, <1>3, <2>1 DEF With
<1>5. CellsOf(g, x) = Range(g.head[x])
  BY <1>2, <1>3, <1>4, FullStackFacts DEF CellsOf
<1>6. \A p \in SmallBins(h) : CellsOf(g, p) = CellsOf(h, p) /\ g.head[p] = h.head[p]
  BY <1>3, <1>4 DEF SmallBins, CellsOf
<1>7. Tight(g, D)
  BY <1>1, <1>3, <1>5, <1>6 DEF Tight
<1>8. Chained(g)
  BY <1>1, <1>3 DEF Chained
<1>9. Extent(g, x) = PAGE_SIZE
  BY <1>3, BucketType, LayoutAssumption DEF Extent, IsBig
<1>10. InArena(g)
  BY <1>1, <1>3, <1>9 DEF InArena, CanGrow
<1> QED
  BY <1>7, <1>8, <1>10 DEF g

LEMMA AppendLast ==
  ASSUME NEW T, NEW s \in Seq(T), NEW x \in T
  PROVE  /\ Range(Append(s, x)) = Range(s) \cup {x}
         /\ DOMAIN Append(s, x) = DOMAIN s \cup {Len(s) + 1} /\ DOMAIN s = 1..Len(s)
         /\ Append(s, x)[Len(s) + 1] = x /\ Len(s) \in Nat
         /\ \A i \in DOMAIN s : Append(s, x)[i] = s[i] /\ s[i] \in Range(s)
<1>1. /\ s \in Seq(T) /\ Len(s) \in Nat /\ DOMAIN s = 1..Len(s)
      /\ DOMAIN Append(s, x) = 1..Len(s)+1
      /\ \A i \in 1..Len(s) : Append(s, x)[i] = s[i]
      /\ Append(s, x)[Len(s)+1] = x
  OBVIOUS
<1> QED
  BY <1>1 DEF Range

LEMMA GrowBigTight ==
  ASSUME NEW h, Sound(h), NEW D, Tight(h, D), Chained(h), InArena(h), NEW n \in Nat,
         CanGrow(h, BigPages(n) * PAGE_SIZE)
  PROVE  LET g == GrowBig(h, n).heap
         IN /\ \A a : HeaderOf(a) = h.end => Tight(g, D \cup {a})
            /\ Chained(g) /\ InArena(g)
<1> DEFINE g == GrowBig(h, n).heap
           x == h.end
           k == BigPages(n)
           s == k * PAGE_SIZE - BIG_HDR
<1>1. /\ HeapType(g) /\ Bins(g) = Bins(h) \cup {x}
      /\ g.end = x + k * PAGE_SIZE /\ g.size = With(h.size, x, s)
      /\ g.head = With(h.head, x, <<>>) /\ g.big = h.big
      /\ g.chain = Append(h.chain, x)
  BY GrowBigFields DEF Sound
<1> HIDE DEF g
<1>2. HeapType(h) /\ x \in Nat /\ x > 0
  BY HeapFields DEF Sound
<1>3. /\ k \in Nat \ {0} /\ s \in Nat /\ s > NUM_BINS /\ s + BIG_HDR = k * PAGE_SIZE
      /\ s \notin Buckets
  <2>1. k \in Nat \ {0} /\ k * PAGE_SIZE \in Nat /\ k * PAGE_SIZE >= PAGE_SIZE
    BY BigPagesFacts
  <2>2. s \in Nat /\ s > NUM_BINS /\ s + BIG_HDR = k * PAGE_SIZE
    BY <2>1, LayoutAssumption
  <2>3. s \notin Buckets
    BY <2>2, BucketType, LayoutAssumption
  <2> QED BY <2>1, <2>2, <2>3
<1>a. CanGrow(h, k * PAGE_SIZE)
  OBVIOUS
<1> HIDE DEF k, s
<1>4. /\ x \notin Bins(h) /\ g.size[x] = s
      /\ \A p \in Bins(h) : g.size[p] = h.size[p] /\ Extent(g, p) = Extent(h, p)
      /\ SmallBins(g) = SmallBins(h) /\ BigBins(g) = BigBins(h) \cup {x}
  <2>1. /\ x \notin Bins(h) /\ g.size[x] = s
        /\ \A p \in Bins(h) : g.size[p] = h.size[p] /\ Extent(g, p) = Extent(h, p)
        /\ SmallBins(g) = SmallBins(h) \cup (IF s \in Buckets THEN {x} ELSE {})
        /\ BigBins(g) = BigBins(h) \cup (IF s \in Buckets THEN {} ELSE {x})
    BY <1>1, <1>2, <1>3, AddedBin
  <2> QED BY <1>3, <2>1
<1>5. \A p \in Bins(h) : g.head[p] = h.head[p]
  <2>1. DOMAIN h.head = Bins(h)
    BY <1>2, HeapFields
  <2> QED BY <1>1, <1>4, <2>1 DEF With
<1>6. \A p \in SmallBins(h) : CellsOf(g, p) = CellsOf(h, p) /\ g.head[p] = h.head[p]
  BY <1>4, <1>5 DEF SmallBins, CellsOf
<1>7. \A a : HeaderOf(a) = x => Tight(g, D \cup {a})
  BY <1>1, <1>4, <1>6 DEF Tight
<1>8. Chained(g)
  <2> DEFINE c == h.chain
  <2>1. c \in Seq(Nat) /\ x \in Nat /\ g.chain = Append(c, x)
    BY <1>1, <1>2, HeapFields, SeqMono
  <2>2. /\ Range(g.chain) = Range(h.chain) \cup {x}
        /\ DOMAIN g.chain = DOMAIN h.chain \cup {Len(h.chain) + 1}
        /\ DOMAIN h.chain = 1..Len(h.chain)
        /\ g.chain[Len(h.chain) + 1] = x /\ Len(h.chain) \in Nat
        /\ \A i \in DOMAIN h.chain : g.chain[i] = h.chain[i] /\ h.chain[i] \in Range(h.chain)
    <3> HIDE DEF c, x
    <3>1. /\ Range(Append(c, x)) = Range(c) \cup {x}
          /\ DOMAIN Append(c, x) = DOMAIN c \cup {Len(c) + 1} /\ DOMAIN c = 1..Len(c)
          /\ Append(c, x)[Len(c) + 1] = x /\ Len(c) \in Nat
          /\ \A i \in DOMAIN c : Append(c, x)[i] = c[i] /\ c[i] \in Range(c)
      BY ONLY <2>1, AppendLast
    <3> QED BY <2>1, <3>1 DEF c
  <2>3. \A p \in BigBins(h) : p < x
    BY BinFacts DEF BigBins
  <2>4. Range(g.chain) = BigBins(g)
    BY <1>4, <2>2 DEF Chained
  <2>5. ASSUME NEW i \in DOMAIN g.chain, NEW j \in DOMAIN g.chain, i < j
        PROVE  g.chain[i] < g.chain[j]
    <3>1. i \in DOMAIN h.chain
      BY <2>2, <2>5
    <3>2. CASE j \in DOMAIN h.chain
      BY <2>2, <2>5, <3>1, <3>2 DEF Chained
    <3>3. CASE j = Len(h.chain) + 1
      BY <2>2, <2>3, <3>1, <3>3 DEF Chained
    <3> QED BY <2>2, <3>2, <3>3
  <2> QED BY <2>4, <2>5 DEF Chained
<1>9. Extent(g, x) = k * PAGE_SIZE
  BY <1>3, <1>4 DEF Extent, IsBig
<1>10. InArena(g)
  BY <1>1, <1>4, <1>9, <1>a DEF InArena, CanGrow
<1> QED
  BY <1>7, <1>8, <1>10 DEF g

-----------------------------------------------------------------------------
(* Taking what is free. *)

LEMMA PopCellTight ==
  ASSUME NEW h, Sound(h), NEW D, Tight(h, D), Chained(h), InArena(h), NEW b \in Buckets,
         h.list[b] # <<>>
  PROVE  LET r == PopCell(h, b)
             g == r.heap
         IN /\ Tight(g, D \cup {r.ptr}) /\ Chained(g) /\ InArena(g)
            /\ ~Aligned(r.ptr) /\ g.end = h.end
<1> DEFINE r == PopCell(h, b)
           g == r.heap
           p == Head(h.list[b])
           st == h.head[p]
<1>1. /\ HeapType(h) /\ h.list[b] \in Seq(Bins(h)) /\ IsInjective(h.list[b])
      /\ Range(h.list[b]) = {q \in SmallBins(h) : h.size[q] = b /\ h.head[q] # <<>>}
  BY HeapFields DEF Sound, ListsOK
<1>2. p \in SmallBins(h) /\ p \in Bins(h) /\ st # <<>>
  <2>1. p \in Range(h.list[b])
    BY <1>1, PopFacts
  <2> QED BY <1>1, <2>1 DEF SmallBins
<1>3. st \in Seq(Nat) /\ IsInjective(st) /\ Range(st) \subseteq CellsOf(h, p)
  BY <1>1, <1>2, HeapFields DEF Sound, StacksOK
<1>4. Head(st) \in Range(st) /\ Range(Tail(st)) = Range(st) \ {Head(st)}
  BY <1>2, <1>3, PopFacts
<1>5. /\ r.ptr = Head(st)
      /\ HeapType(g) /\ Bins(g) = Bins(h) /\ g.end = h.end /\ g.size = h.size
      /\ g.head[p] = Tail(st) /\ \A q \in Bins(h) : q # p => g.head[q] = h.head[q]
      /\ g.big = h.big /\ g.chain = h.chain
  BY <1>1, <1>2, PopCellFields
<1> HIDE DEF r, g, p
<1>6. /\ SmallBins(g) = SmallBins(h) /\ BigBins(g) = BigBins(h)
      /\ \A q \in Bins(h) : CellsOf(g, q) = CellsOf(h, q) /\ Extent(g, q) = Extent(h, q)
  BY <1>1, <1>5, SameBins
<1>7. Tight(g, D \cup {r.ptr})
  <2>1. ASSUME NEW q \in SmallBins(h)
        PROVE  CellsOf(h, q) \subseteq Range(g.head[q]) \cup (D \cup {r.ptr})
    <3>0. q \in Bins(h) /\ CellsOf(h, q) \subseteq Range(h.head[q]) \cup D
      BY DEF SmallBins, Tight
    <3>1. CASE q = p
      BY <1>4, <1>5, <3>0, <3>1
    <3>2. CASE q # p
      BY <1>5, <3>0, <3>2
    <3> QED BY <3>1, <3>2
  <2>2. \A q \in SmallBins(h) : q \in Bins(h)
    BY DEF SmallBins
  <2> QED BY <1>5, <1>6, <2>1, <2>2 DEF Tight
<1>8. Chained(g)
  BY <1>5, <1>6 DEF Chained
<1>9. InArena(g)
  BY <1>5, <1>6 DEF InArena
<1>10. ~Aligned(r.ptr)
  <2>1. r.ptr \in CellsOf(h, p)
    BY <1>3, <1>4, <1>5
  <2>2. PageOf(r.ptr) = p /\ r.ptr \in Nat /\ r.ptr > p /\ p \in Nat
    BY <1>2, <2>1, CellTraced, BinFacts
  <2> QED BY <2>2 DEF PageOf, Aligned
<1> QED
  BY <1>5, <1>7, <1>8, <1>9, <1>10 DEF r, g

LEMMA TakeBigTight ==
  ASSUME NEW h, Sound(h), NEW D, Tight(h, D), Chained(h), InArena(h), NEW p \in h.big
  PROVE  LET g == TakeBig(h, p).heap
         IN /\ \A a : HeaderOf(a) = p => Tight(g, D \cup {a})
            /\ Chained(g) /\ InArena(g) /\ g.end = h.end
<1> DEFINE g == TakeBig(h, p).heap
<1>1. /\ p \in BigBins(h) /\ p \in Bins(h) /\ p \notin SmallBins(h)
      /\ h.head[p] = <<p + BIG_HDR>> /\ HeapType(h)
  BY DEF Sound, StacksOK, BigBins, SmallBins
<1>2. /\ HeapType(g) /\ Bins(g) = Bins(h) /\ g.end = h.end /\ g.size = h.size
      /\ g.big = h.big \ {p} /\ g.chain = h.chain
  BY <1>1, TakeBigFields
<1>3. \A q \in Bins(h) : q # p => g.head[q] = h.head[q]
  BY <1>1, TakeBigFields, Zenon
<1> HIDE DEF g
<1>4. /\ SmallBins(g) = SmallBins(h) /\ BigBins(g) = BigBins(h)
      /\ \A q \in Bins(h) : CellsOf(g, q) = CellsOf(h, q) /\ Extent(g, q) = Extent(h, q)
  BY <1>1, <1>2, SameBins
<1>5. \A q \in SmallBins(h) : q \in Bins(h) /\ q # p /\ g.head[q] = h.head[q]
  BY <1>1, <1>3 DEF SmallBins
<1>6. ASSUME NEW a, HeaderOf(a) = p PROVE Tight(g, D \cup {a})
  <2>1. \A q \in SmallBins(g) : CellsOf(g, q) \subseteq Range(g.head[q]) \cup (D \cup {a})
    BY <1>4, <1>5 DEF Tight
  <2>2. \A q \in BigBins(g) \ g.big : \E c \in D \cup {a} : HeaderOf(c) = q
    BY <1>2, <1>4, <1>6 DEF Tight
  <2> QED BY <2>1, <2>2 DEF Tight
<1>7. Chained(g) /\ InArena(g)
  BY <1>2, <1>4 DEF Chained, InArena
<1> QED
  BY <1>2, <1>6, <1>7 DEF g

LEMMA FaultedTight ==
  ASSUME NEW h, Sound(h), NEW D, Tight(h, D), Chained(h), InArena(h), NEW n \in Nat
  PROVE  LET g == Faulted(h, n).heap
         IN Tight(g, D) /\ Chained(g) /\ InArena(g)
<1> DEFINE g == Faulted(h, n).heap
<1>1. /\ Bins(g) = Bins(h) /\ g.size = h.size /\ g.head = h.head
      /\ g.big = h.big /\ g.chain = h.chain
  BY FaultedFields DEF Sound
<1> HIDE DEF g
<1>2. \A p \in Bins(h) : /\ IsBig(g, p) = IsBig(h, p) /\ Extent(g, p) = Extent(h, p)
                         /\ CellsOf(g, p) = CellsOf(h, p)
  BY <1>1 DEF IsBig, Extent, CellsOf
<1>3. /\ SmallBins(g) = SmallBins(h) /\ BigBins(g) = BigBins(h)
      /\ \A p \in SmallBins(h) : p \in Bins(h)
  BY <1>1, <1>2 DEF SmallBins, BigBins
<1>4. Tight(g, D)
  BY <1>1, <1>2, <1>3 DEF Tight
<1>5. Chained(g) /\ InArena(g)
  BY <1>1, <1>2, <1>3 DEF Chained, InArena
<1> QED
  BY <1>4, <1>5 DEF g

-----------------------------------------------------------------------------
(* The calls. *)

(* The heap after r is whole if the callers hold D, and before its answer. *)
Whole(h, D) == Tight(h, D) /\ Chained(h) /\ InArena(h)

(* Nothing that is free in h could serve a request for n bytes.            *)
Exhausted(h, n) ==
  /\ klmalloc_bin_size(n) < BIG_BIN =>
       \A p \in SmallBins(h) : h.size[p] = klmalloc_bin_size(n) => h.head[p] = <<>>
  /\ klmalloc_bin_size(n) = BIG_BIN => \A p \in h.big : ~(h.size[p] >= n)

(* Besides what MallocSound says of an answer: nothing is lost, and the    *)
(* heap neither grows nor dies growing but in need.                        *)
Frugal(r, h, D, n) ==
  /\ r.hung \/ r.ptr = NULL => Whole(r.heap, D)
  /\ ~r.hung /\ r.ptr # NULL => Whole(r.heap, D \cup {r.ptr})
  /\ r.hung \/ r.heap.end # h.end => Exhausted(h, n)

LEMMA MallocSmallTight ==
  ASSUME NEW h, Sound(h), NEW D, Whole(h, D), NEW b \in Buckets, NEW n \in Nat,
         b = klmalloc_bin_size(n)
  PROVE  LET r == MallocSmall(h, b)
         IN Frugal(r, h, D, n)
<1> DEFINE r == MallocSmall(h, b)
<1>0. Tight(h, D) /\ Chained(h) /\ InArena(h)
  BY DEF Whole
<1>e. h.list[b] = <<>> => Exhausted(h, n)
  <2>1. h.list[b] = <<>> => Range(h.list[b]) = {}
    BY DEF Range
  <2>2. h.list[b] = <<>> => \A p \in SmallBins(h) : h.size[p] = b => h.head[p] = <<>>
    BY <2>1 DEF Sound, ListsOK
  <2> QED BY <2>2, BucketType DEF Exhausted
<1>1. CASE h.list[b] # <<>>
  <2>1. r = PopCell(h, b)
    BY <1>1 DEF MallocSmall
  <2> HIDE DEF r
  <2>2. r.hung = FALSE /\ r.ptr = Head(h.head[Head(h.list[b])])
    BY <2>1 DEF PopCell, Result
  <2>3. Whole(r.heap, D \cup {r.ptr}) /\ ~Aligned(r.ptr) /\ r.heap.end = h.end
    BY <1>0, <1>1, <2>1, PopCellTight DEF Whole
  <2>4. r.ptr # NULL
    BY <2>3, LayoutAssumption DEF Aligned, NULL
  <2> QED BY <2>2, <2>3, <2>4 DEF Frugal, r
<1>2. CASE h.list[b] = <<>> /\ CanGrow(h, PAGE_SIZE)
  <2> DEFINE g == NewBin(h, b)
  <2>1. r = PopCell(g, b)
    BY <1>2 DEF MallocSmall
  <2>2. Sound(g) /\ g.list[b] # <<>>
    BY NewBinSound
  <2>3. Tight(g, D) /\ Chained(g) /\ InArena(g)
    BY <1>0, <1>2, NewBinTight
  <2> HIDE DEF r, g
  <2>4. r.hung = FALSE
    BY <2>1 DEF PopCell, Result
  <2>5. Whole(r.heap, D \cup {r.ptr}) /\ ~Aligned(r.ptr)
    BY <2>1, <2>2, <2>3, PopCellTight DEF Whole
  <2>6. r.ptr # NULL
    BY <2>5, LayoutAssumption DEF Aligned, NULL
  <2> QED BY <1>2, <1>e, <2>4, <2>5, <2>6 DEF Frugal, r
<1>3. CASE h.list[b] = <<>> /\ ~CanGrow(h, PAGE_SIZE)
  <2>1. r = Faulted(h, PAGE_SIZE)
    BY <1>3 DEF MallocSmall
  <2> HIDE DEF r
  <2>2. r.hung = TRUE /\ r.ptr = NULL
    BY <2>1 DEF Faulted
  <2>3. Whole(r.heap, D)
    BY <1>0, <2>1, FaultedTight, LayoutAssumption DEF Whole
  <2> QED BY <1>3, <1>e, <2>2, <2>3 DEF Frugal, r
<1> QED
  BY <1>1, <1>2, <1>3

(* A pool with a block that is large enough has a best fit. *)
LEMMA BestFitExists ==
  ASSUME NEW pool, NEW size, \A p \in pool : size[p] \in Nat, NEW n,
         NEW q \in pool, size[q] >= n
  PROVE  BestFits(pool, size, n) # {}
<1> DEFINE T == {size[p] : p \in {c \in pool : size[c] >= n}}
<1>1. T \subseteq Nat /\ T # {}
  OBVIOUS
<1>2. PICK m \in T : \A k \in T : m <= k
  BY <1>1, LeastNatural
<1>3. PICK p \in pool : size[p] >= n /\ size[p] = m
  BY <1>2
<1>4. \A c \in pool : size[c] >= n => size[p] <= size[c]
  BY <1>2, <1>3
<1> QED
  BY <1>3, <1>4 DEF BestFits

(* A big block may be given to a caller at any address traced to it. *)
LEMMA MallocBigTight ==
  ASSUME NEW h, Sound(h), NEW D, Whole(h, D), NEW n \in Nat, n > 0,
         klmalloc_bin_size(n) = BIG_BIN, NEW r \in klmalloc(h, n)
  PROVE  /\ r.hung => Whole(r.heap, D)
         /\ ~r.hung => \E p : /\ p \in Nat /\ Aligned(p) /\ r.ptr = p + BIG_HDR
                              /\ \A a : HeaderOf(a) = p => Whole(r.heap, D \cup {a})
         /\ r.hung \/ r.heap.end # h.end => Exhausted(h, n)
<1>0. r \in MallocBig(h, n) /\ Tight(h, D) /\ Chained(h) /\ InArena(h)
  BY LayoutAssumption DEF klmalloc, BIG_BIN, Whole
<1>e. BestFits(h.big, h.size, n) = {} => Exhausted(h, n)
  <2>1. \A p \in h.big : h.size[p] \in Nat
    BY HeapFields DEF Sound, BinsOK
  <2>2. BestFits(h.big, h.size, n) = {} => \A p \in h.big : ~(h.size[p] >= n)
    BY <2>1, BestFitExists
  <2> QED BY <2>2, LayoutAssumption DEF Exhausted, BIG_BIN
<1>1. CASE \E p \in BestFits(h.big, h.size, n) : r = TakeBig(h, p)
  <2>1. PICK p \in h.big : r = TakeBig(h, p)
    BY <1>1 DEF BestFits
  <2>2. p \in BigBins(h) /\ h.head[p] = <<p + BIG_HDR>> /\ p \in Bins(h)
    BY DEF Sound, StacksOK, BigBins
  <2>3. p \in Nat /\ Aligned(p) /\ HeapType(h)
    BY <2>2, BinFacts DEF Sound
  <2>4. r.ptr = p + BIG_HDR /\ r.hung = FALSE
    <3>1. r.ptr = Head(h.head[p]) /\ r.hung = FALSE
      BY <2>1 DEF TakeBig, Result
    <3>2. Head(<<p + BIG_HDR>>) = p + BIG_HDR
      OBVIOUS
    <3> QED BY <2>2, <3>1, <3>2
  <2>5. /\ \A a : HeaderOf(a) = p => Whole(r.heap, D \cup {a})
        /\ r.heap.end = h.end
    BY <1>0, <2>1, TakeBigTight DEF Whole
  <2> QED BY <2>3, <2>4, <2>5
<1>2. CASE /\ BestFits(h.big, h.size, n) = {} /\ CanGrow(h, BigPages(n) * PAGE_SIZE)
           /\ r = GrowBig(h, n)
  <2>1. r.ptr = h.end + BIG_HDR /\ r.hung = FALSE
    BY <1>2 DEF GrowBig, Result
  <2>2. h.end \in Nat /\ Aligned(h.end)
    BY HeapFields DEF Sound, BinsOK
  <2>3. \A a : HeaderOf(a) = h.end => Whole(r.heap, D \cup {a})
    BY <1>0, <1>2, GrowBigTight DEF Whole
  <2> QED BY <1>2, <1>e, <2>1, <2>2, <2>3
<1>3. CASE BestFits(h.big, h.size, n) = {} /\ r = Faulted(h, BigPages(n) * PAGE_SIZE)
  <2>1. r.hung = TRUE
    BY <1>3 DEF Faulted
  <2>2. Whole(r.heap, D)
    BY <1>0, <1>3, FaultedTight, BigPagesFacts DEF Whole
  <2> QED BY <1>3, <1>e, <2>1, <2>2
<1> QED
  BY <1>0, <1>1, <1>2, <1>3 DEF MallocBig

LEMMA MallocTight ==
  ASSUME NEW h, Sound(h), NEW D, Whole(h, D), NEW n \in Nat, NEW r \in klmalloc(h, n)
  PROVE  Frugal(r, h, D, n)
<1>1. CASE n = 0
  <2>1. r.heap = h /\ r.ptr = NULL /\ r.hung = FALSE
    BY <1>1 DEF klmalloc, Result
  <2> QED BY <2>1 DEF Frugal
<1>2. CASE n > 0 /\ klmalloc_bin_size(n) = BIG_BIN
  <2>1. ASSUME ~r.hung
        PROVE  Whole(r.heap, D \cup {r.ptr}) /\ r.ptr # NULL
    <3>1. PICK p : /\ p \in Nat /\ Aligned(p) /\ r.ptr = p + BIG_HDR
                   /\ \A a : HeaderOf(a) = p => Whole(r.heap, D \cup {a})
      BY <1>2, <2>1, MallocBigTight
    <3>2. BIG_HDR \in 1..PAGE_SIZE /\ BIG_HDR \in 0..PAGE_SIZE-1 /\ BIG_HDR # 0
      BY LayoutAssumption
    <3>3. HeaderOf(r.ptr) = p
      BY <3>1, <3>2, HeaderOfInside
    <3> QED BY <3>1, <3>2, <3>3 DEF NULL
  <2> QED BY <1>2, <2>1, MallocBigTight DEF Frugal
<1>3. CASE n > 0 /\ klmalloc_bin_size(n) # BIG_BIN
  <2> DEFINE b == klmalloc_bin_size(n)
  <2>1. b \in Buckets
    BY <1>3, BinSizeFacts
  <2>2. r = MallocSmall(h, b)
    BY <1>3, <2>1, BucketType DEF klmalloc
  <2> QED BY <2>1, <2>2, MallocSmallTight
<1> QED
  BY <1>1, <1>2, <1>3

(* valloc asks klmalloc for a gap more, and moves the answer behind it.    *)
LEMMA VallocTight ==
  ASSUME NEW h, Sound(h), NEW D, Whole(h, D), NEW n \in Nat, n > 0, NEW r \in klvalloc(h, n)
  PROVE  Frugal(r, h, D, n + PAGE_SIZE - BIG_HDR)
<1> DEFINE m == n + PAGE_SIZE - BIG_HDR
<1>1. PICK q \in klmalloc(h, m) : r = [q EXCEPT !.ptr = q.ptr + (PAGE_SIZE - BIG_HDR)]
  BY DEF klvalloc
<1>2. m \in Nat /\ m > 0 /\ \A b \in Buckets : m > CellSize(b)
  BY LayoutAssumption
<1> HIDE DEF m
<1>3. klmalloc_bin_size(m) = BIG_BIN
  BY <1>2, BigSize
<1>4. r.heap = q.heap /\ r.hung = q.hung /\ r.ptr = q.ptr + (PAGE_SIZE - BIG_HDR)
  <2>1. q = [heap |-> q.heap, ptr |-> q.ptr, hung |-> q.hung]
    BY <1>1, MallocRecord DEF IsRecord
  <2> QED BY <1>1, <2>1
<1>5. ASSUME ~r.hung
      PROVE  Whole(r.heap, D \cup {r.ptr}) /\ r.ptr # NULL
  <2>1. PICK p : /\ p \in Nat /\ Aligned(p) /\ q.ptr = p + BIG_HDR
                 /\ \A a : HeaderOf(a) = p => Whole(r.heap, D \cup {a})
    BY <1>2, <1>3, <1>4, <1>5, MallocBigTight
  <2>2. r.ptr = p + PAGE_SIZE /\ PAGE_SIZE \in 1..PAGE_SIZE
    BY <1>4, <2>1, LayoutAssumption
  <2>3. HeaderOf(r.ptr) = p
    BY <2>1, <2>2, HeaderOfInside
  <2> QED BY <2>1, <2>2, <2>3, LayoutAssumption DEF NULL
<1>6. /\ r.hung => Whole(r.heap, D)
      /\ r.hung \/ r.heap.end # h.end => Exhausted(h, m)
  BY <1>2, <1>3, <1>4, MallocBigTight
<1> QED
  BY <1>5, <1>6 DEF Frugal, m

LEMMA FreeTight ==
  ASSUME NEW h, Sound(h), NEW held, LiveOK(h, held), held \in [DOMAIN held -> Nat],
         NEW a \in DOMAIN held, Whole(h, DOMAIN held)
  PROVE  Whole(klfree(h, a), DOMAIN Without(held, a))
<1> DEFINE g == klfree(h, a)
           p == HeaderOf(a)
           D == DOMAIN held \ {a}
<1>0. DOMAIN Without(held, a) = D
  BY DEF Without
<1>1. /\ p \in Bins(h) /\ a # NULL /\ a \in Nat /\ HeapType(h)
      /\ Owned(h, a, held[a])
  BY LiveFacts DEF NULL, LiveOK, Sound
<1>2. ASSUME NEW q \in SmallBins(h), a \in CellsOf(h, q) PROVE q = p
  BY <1>2, CellTraced
<1>3. CASE IsBig(h, p)
  <2>1. g = FreeBig(h, p)
    BY <1>1, <1>3 DEF klfree
  <2>f. HeapType(h) /\ p \in Bins(h)
    BY <1>1
  <2> HIDE DEF g, p
  <2>2. /\ HeapType(g) /\ Bins(g) = Bins(h) /\ g.end = h.end /\ g.size = h.size
        /\ g.big = h.big \cup {p} /\ g.chain = h.chain
    BY ONLY <2>f, <2>1, FreeBigFields
  <2>3. \A q \in Bins(h) : q # p => g.head[q] = h.head[q]
    <3>1. \A q \in Bins(h) : q # p => FreeBig(h, p).head[q] = h.head[q]
      BY ONLY <2>f, FreeBigFields
    <3> QED BY ONLY <2>1, <3>1
  <2>4. /\ SmallBins(g) = SmallBins(h) /\ BigBins(g) = BigBins(h)
        /\ \A q \in Bins(h) : CellsOf(g, q) = CellsOf(h, q) /\ Extent(g, q) = Extent(h, q)
    BY <2>2, SameBins
  <2>5. \A q \in SmallBins(h) : q \in Bins(h) /\ q # p
    BY <1>3 DEF SmallBins
  <2>6. \A q \in SmallBins(g) : CellsOf(g, q) \subseteq Range(g.head[q]) \cup D
    BY <1>2, <2>3, <2>4, <2>5 DEF Whole, Tight
  <2>7. \A q \in BigBins(g) \ g.big : \E c \in D : HeaderOf(c) = q
    BY <2>2, <2>4 DEF Whole, Tight, p
  <2>8. Chained(g) /\ InArena(g)
    BY <2>2, <2>4 DEF Whole, Chained, InArena
  <2> QED BY <1>0, <2>6, <2>7, <2>8 DEF Whole, Tight, g
<1>4. CASE ~IsBig(h, p)
  <2> DEFINE b == h.size[p]
             st == h.head[p]
  <2>1. g = FreeSmall(h, p, a)
    BY <1>1, <1>4 DEF klfree
  <2>2. p \in SmallBins(h) /\ b \in Buckets /\ st \in Seq(Nat) /\ b = h.size[p]
    BY <1>1, <1>4, BinFacts, HeapFields DEF SmallBins
  <2> HIDE DEF g, p, b
  <2>3. /\ HeapType(g) /\ Bins(g) = Bins(h) /\ g.end = h.end /\ g.size = h.size
        /\ g.big = h.big /\ g.chain = h.chain
    BY <1>1, <2>1, <2>2, FreeSmallFields
  <2>4. g.head[p] = <<a>> \o st
    BY ONLY <1>1, <2>1, <2>2, FreeSmallFields
  <2>5. \A q \in Bins(h) : q # p => g.head[q] = h.head[q]
    BY ONLY <1>1, <2>1, <2>2, FreeSmallFields
  <2>6. Range(g.head[p]) = {a} \cup Range(st)
    BY <1>1, <2>2, <2>4, PushFacts
  <2>7. /\ SmallBins(g) = SmallBins(h) /\ BigBins(g) = BigBins(h)
        /\ \A q \in Bins(h) : CellsOf(g, q) = CellsOf(h, q) /\ Extent(g, q) = Extent(h, q)
    BY <2>3, SameBins
  <2>8. ASSUME NEW q \in SmallBins(g)
        PROVE  CellsOf(g, q) \subseteq Range(g.head[q]) \cup D
    <3>1. q \in SmallBins(h) /\ q \in Bins(h) /\ CellsOf(g, q) = CellsOf(h, q)
      BY <2>7 DEF SmallBins
    <3>2. CellsOf(h, q) \subseteq Range(h.head[q]) \cup DOMAIN held
      BY <3>1 DEF Whole, Tight
    <3>3. CASE q = p
      BY <2>6, <3>1, <3>2, <3>3
    <3>4. CASE q # p
      BY <1>2, <2>5, <3>1, <3>2, <3>4
    <3> QED BY <3>3, <3>4
  <2>9. \A q \in BigBins(g) \ g.big : \E c \in D : HeaderOf(c) = q
    <3>1. p \notin BigBins(h)
      BY <1>4 DEF BigBins
    <3> QED BY <2>3, <2>7, <3>1 DEF Whole, Tight, p
  <2>10. Chained(g) /\ InArena(g)
    BY <2>3, <2>7 DEF Whole, Chained, InArena
  <2> QED BY <1>0, <2>8, <2>9, <2>10 DEF Whole, Tight, g
<1> QED
  BY <1>3, <1>4

(* r leaves the heap whole, for callers that hold before if the call never *)
(* returns and after, with its answer, if it does.                         *)
Balances(r, before, after) ==
  /\ r.hung => Whole(r.heap, before)
  /\ ~r.hung => Whole(r.heap, IF r.ptr = NULL THEN after ELSE after \cup {r.ptr})

LEMMA FrugalBalances ==
  ASSUME NEW r, NEW h, NEW D, NEW n, Frugal(r, h, D, n)
  PROVE  Balances(r, D, D)
BY DEF Frugal, Balances

(* If r answers with another address than a, its n bytes were found while  *)
(* the callers still held everything.                                      *)
FoundApart(r, h, held, a, n) ==
  ~r.hung /\ r.ptr # NULL /\ r.ptr # a =>
    /\ r.ptr \notin DOMAIN held
    /\ \E g : GrownOnly(g, h) /\ LiveOK(g, With(held, r.ptr, n))

LEMMA ReallocTight ==
  ASSUME NEW h, Sound(h), NEW held, LiveOK(h, held), held \in [DOMAIN held -> Nat],
         Whole(h, DOMAIN held),
         NEW top \in Nat, \A p \in Bins(h) : top < p,
         NEW a \in Nat, a = NULL \/ a <= top \/ a \in DOMAIN held,
         NEW n \in Nat, NEW r \in klrealloc(h, a, n, top)
  PROVE  /\ Balances(r, DOMAIN held, DOMAIN AfterRealloc(r, held, a, n))
         /\ FoundApart(r, h, held, a, n)
         /\ ~r.hung /\ r.ptr = a => r.ptr = NULL \/ r.ptr \in DOMAIN held
         /\ r.hung \/ r.heap.end # h.end => Exhausted(h, n)
<1>0. /\ GrownOnly(h, h) /\ NULL \notin DOMAIN held
      /\ \A c \in DOMAIN held : c \in Nat /\ c > top
  <2>1. h.end \in Nat /\ \A p \in Bins(h) : p \in Nat
    BY HeapFields DEF Sound
  <2>2. ASSUME NEW c \in DOMAIN held PROVE c \in Nat /\ c > top
    <3>1. HeaderOf(c) \in Bins(h) /\ HeaderOf(c) \in Nat /\ c \in Nat /\ c > HeaderOf(c)
      BY LiveFacts
    <3> QED BY <3>1
  <2> QED BY <2>1, <2>2 DEF GrownOnly, NULL
<1> DEFINE after == AfterRealloc(r, held, a, n)
<1>1. CASE a = NULL
  <2>1. r \in klmalloc(h, n)
    BY <1>1 DEF klrealloc
  <2>2. after = held
    BY <1>0, <1>1, NotHeld DEF AfterRealloc
  <2>3. Frugal(r, h, DOMAIN held, n)
    BY <2>1, MallocTight
  <2>4. Answers(r, h, held, n)
    BY <2>1, MallocSound
  <2>5. FoundApart(r, h, held, a, n)
    BY <2>4 DEF Answers, FoundApart
  <2> QED BY <1>1, <2>2, <2>3, <2>5, FrugalBalances DEF Frugal
<1>2. CASE a # NULL /\ n = 0
  <2>1. r.heap = FreeAbove(h, a, top) /\ r.ptr = NULL /\ r.hung = FALSE
    BY <1>2 DEF klrealloc, Result
  <2>2. after = Without(held, a)
    BY <1>2 DEF AfterRealloc
  <2>3. CASE a > top
    <3>1. a \in DOMAIN held /\ r.heap = klfree(h, a)
      BY <1>2, <2>1, <2>3 DEF FreeAbove
    <3>2. Whole(r.heap, DOMAIN after) /\ r.heap.end = h.end
      BY <2>2, <3>1, FreeTight, FreeSound
    <3> QED BY <2>1, <3>2 DEF Balances, FoundApart
  <2>4. CASE ~(a > top)
    <3>1. r.heap = h /\ Without(held, a) = held
      BY <1>0, <2>1, <2>4, NotHeld DEF FreeAbove
    <3> QED BY <2>1, <2>2, <3>1 DEF Balances, FoundApart
  <2> QED BY <2>3, <2>4
<1>3. CASE a # NULL /\ n # 0 /\ PageOf(a) \notin Bins(h)
  <2>1. r.heap = h /\ r.ptr = NULL /\ r.hung = FALSE
    BY <1>3 DEF klrealloc, Result
  <2>2. after = held
    BY <1>3, <2>1 DEF AfterRealloc
  <2> QED BY <2>1, <2>2 DEF Balances, FoundApart
<1>4. CASE a # NULL /\ n # 0 /\ PageOf(a) \in Bins(h)
  <2> DEFINE p == PageOf(a)
  <2>1. a \in DOMAIN held
    <3>1. PageOf(a) <= a /\ top < PageOf(a) /\ PageOf(a) \in Nat
      BY <1>4, PageOfType
    <3> QED BY <1>4, <3>1
  <2>2. CASE Capacity(h, p) >= n
    <3>1. r.heap = h /\ r.ptr = a /\ r.hung = FALSE
      BY <1>4, <2>2 DEF klrealloc, Result
    <3>2. after = Without(held, a)
      BY <1>4, <3>1 DEF AfterRealloc
    <3>3. DOMAIN after \cup {a} = DOMAIN held
      BY <2>1, <3>2 DEF Without
    <3> QED BY <1>4, <2>1, <3>1, <3>3 DEF Balances, FoundApart
  <2>3. CASE ~(Capacity(h, p) >= n)
    <3>1. PICK q \in klmalloc(h, n) :
            r = IF q.hung THEN q ELSE Result(klfree(q.heap, a), q.ptr)
      BY <1>4, <2>3 DEF klrealloc
    <3>2. Answers(q, h, held, n) /\ Frugal(q, h, DOMAIN held, n)
      BY <3>1, MallocSound, MallocTight
    <3>3. CASE q.hung
      <4>1. r = q
        BY <3>1, <3>3
      <4> QED BY <3>2, <3>3, <4>1 DEF Frugal, Balances, FoundApart
    <3>4. CASE ~q.hung
      <4> DEFINE more == With(held, q.ptr, n)
      <4>1. r.heap = klfree(q.heap, a) /\ r.ptr = q.ptr /\ r.hung = FALSE
        BY <3>1, <3>4 DEF Result
      <4>2. /\ q.ptr # NULL /\ q.ptr \in Nat /\ q.ptr \notin DOMAIN held
            /\ Sound(q.heap) /\ GrownOnly(q.heap, h) /\ LiveOK(q.heap, more)
        BY <1>4, <3>2, <3>4 DEF Answers, GrownOnly
      <4>3. more \in [DOMAIN more -> Nat] /\ a \in DOMAIN more
            /\ DOMAIN more = DOMAIN held \cup {q.ptr}
        BY <2>1, <4>2 DEF With
      <4>4. after = Without(held, a)
        BY <4>1, <4>2 DEF AfterRealloc
      <4>5. DOMAIN Without(more, a) = DOMAIN after \cup {q.ptr}
        BY <2>1, <4>2, <4>3, <4>4 DEF Without
      <4>6. Whole(q.heap, DOMAIN more)
        BY <3>2, <3>4, <4>2, <4>3 DEF Frugal
      <4> HIDE DEF more, after
      <4>7. Whole(r.heap, DOMAIN Without(more, a)) /\ r.heap.end = q.heap.end
        BY <4>1, <4>2, <4>3, <4>6, FreeTight, FreeSound
      <4>8. Balances(r, DOMAIN held, DOMAIN after)
        BY <4>1, <4>2, <4>5, <4>7 DEF Balances
      <4>9. FoundApart(r, h, held, a, n)
        BY <4>1, <4>2 DEF FoundApart, more
      <4> QED BY <2>1, <3>2, <3>4, <4>1, <4>2, <4>7, <4>8, <4>9 DEF Frugal, after
    <3> QED BY <3>3, <3>4
  <2> QED BY <2>2, <2>3
<1> QED
  BY <1>1, <1>2, <1>3, <1>4

-----------------------------------------------------------------------------
(* The invariant: HeapIInv, and the heap is whole. *)

LeakIInv == HeapIInv /\ Whole(heap, DOMAIN live)

(* What a call of the running heap gives rise to, in both steps' terms.    *)
LEMMA HandBalances ==
  ASSUME NEW r, NEW after, NEW n, Hand(r, after, n), Balances(r, DOMAIN live, DOMAIN after),
         r.hung \in BOOLEAN
  PROVE  Whole(heap', DOMAIN live')
<1>1. heap' = r.heap
  BY DEF Hand
<1>2. CASE r.hung
  <2>1. live' = live
    BY <1>2 DEF Hand
  <2> QED BY <1>1, <1>2, <2>1 DEF Balances
<1>3. CASE ~r.hung /\ r.ptr = NULL
  <2>1. live' = after
    BY <1>3 DEF Hand
  <2> QED BY <1>1, <1>3, <2>1 DEF Balances
<1>4. CASE ~r.hung /\ r.ptr # NULL
  <2>1. live' = With(after, r.ptr, n)
    BY <1>4 DEF Hand
  <2>2. DOMAIN live' = DOMAIN after \cup {r.ptr}
    BY <2>1 DEF With
  <2> QED BY <1>1, <1>4, <2>2 DEF Balances
<1> QED
  BY <1>2, <1>3, <1>4

(* A request that Exhausted speaks of could not have been served.          *)
LEMMA ExhaustedRefuses ==
  ASSUME LeakIInv, heap.end # 0, NEW n, Exhausted(heap, n)
  PROVE  ~CouldServe(heap, n)
<1>1. ASSUME NEW p \in BigBins(heap) \ {HeaderOf(a) : a \in DOMAIN live}
      PROVE  p \in heap.big
  BY <1>1 DEF LeakIInv, Whole, Tight
<1> QED
  BY <1>1 DEF Exhausted, CouldServe

-----------------------------------------------------------------------------
(* Every operation. *)

(* A call of malloc or calloc. *)
LEMMA PlainCall ==
  ASSUME LeakIInv, Running, NEW n \in Nat, NEW r \in klmalloc(heap, n), Hand(r, live, n)
  PROVE  Whole(heap', DOMAIN live')
<1>1. Sound(heap) /\ LiveOK(heap, live) /\ Whole(heap, DOMAIN live)
  BY InvFacts DEF Running, LeakIInv
<1>2. Frugal(r, heap, DOMAIN live, n) /\ r.hung \in BOOLEAN
  BY <1>1, MallocTight, MallocSound DEF Answers
<1> QED
  BY <1>2, FrugalBalances, HandBalances

LEMMA VallocCall ==
  ASSUME LeakIInv, Running, NEW n \in Nat, n > 0, NEW r \in klvalloc(heap, n), Hand(r, live, n)
  PROVE  Whole(heap', DOMAIN live')
<1> DEFINE m == n + PAGE_SIZE - BIG_HDR
<1>1. Sound(heap) /\ LiveOK(heap, live) /\ Whole(heap, DOMAIN live)
  BY InvFacts DEF Running, LeakIInv
<1>2. Frugal(r, heap, DOMAIN live, m) /\ r.hung \in BOOLEAN
  BY <1>1, VallocTight, VallocSound DEF Answers
<1> QED
  BY <1>2, FrugalBalances, HandBalances

LEMMA FreeCall ==
  ASSUME LeakIInv, NEW ptr \in Held \cup {NULL}, Free(ptr)
  PROVE  Whole(heap', DOMAIN live')
<1>1. /\ Running /\ heap' = FreeAbove(heap, ptr, placement_pointer)
      /\ live' = Without(live, ptr)
  BY DEF Free
<1>2. /\ Sound(heap) /\ LiveOK(heap, live) /\ live \in [DOMAIN live -> Nat]
      /\ placement_pointer \in Nat /\ Whole(heap, DOMAIN live)
      /\ \A p \in Bins(heap) : placement_pointer < p
  BY <1>1, InvFacts DEF Running, LeakIInv
<1>4. CASE ptr \in DOMAIN live
  <2>1. HeaderOf(ptr) \in Bins(heap) /\ HeaderOf(ptr) \in Nat /\ ptr \in Nat /\ ptr > HeaderOf(ptr)
    BY <1>2, <1>4, LiveFacts
  <2>2. heap' = klfree(heap, ptr)
    BY <1>1, <1>2, <2>1 DEF FreeAbove
  <2> QED BY <1>1, <1>2, <1>4, <2>2, FreeTight
<1>5. CASE ptr \notin DOMAIN live
  <2>1. ~(ptr > placement_pointer)
    BY <1>2, <1>5, InvFacts DEF Held, NULL, LeakIInv
  <2>2. heap' = heap /\ live' = live
    BY <1>1, <1>2, <1>5, <2>1, NotHeld DEF FreeAbove
  <2> QED BY <1>2, <2>2
<1> QED
  BY <1>4, <1>5

(* What realloc's pointer may be, and what is known of its answer.         *)
LEMMA ReallocFacts ==
  ASSUME LeakIInv, NEW ptr \in Held \cup {NULL}, NEW size \in Nat, Realloc(ptr, size)
  PROVE  /\ Running
         /\ \E r, after :
              /\ Hand(r, after, size)
              /\ r.hung \in BOOLEAN /\ after = AfterRealloc(r, live, ptr, size)
              /\ Balances(r, DOMAIN live, DOMAIN after)
              /\ FoundApart(r, heap, live, ptr, size)
              /\ ~r.hung /\ r.ptr = ptr => r.ptr = NULL \/ r.ptr \in DOMAIN live
              /\ r.hung \/ r.heap.end # heap.end => Exhausted(heap, size)
<1>1. /\ Running
      /\ \E r \in klrealloc(heap, ptr, size, placement_pointer) :
           Hand(r, AfterRealloc(r, live, ptr, size), size)
  BY DEF Realloc, AfterRealloc
<1>2. PICK r \in klrealloc(heap, ptr, size, placement_pointer) :
        Hand(r, AfterRealloc(r, live, ptr, size), size)
  BY <1>1
<1> DEFINE after == AfterRealloc(r, live, ptr, size)
<1>3. /\ Sound(heap) /\ LiveOK(heap, live) /\ live \in [DOMAIN live -> Nat]
      /\ DOMAIN live \subseteq Nat /\ Whole(heap, DOMAIN live)
      /\ placement_pointer \in Nat /\ \A p \in Bins(heap) : placement_pointer < p
  BY <1>1, InvFacts DEF Running, LeakIInv
<1>4. ptr \in Nat /\ (ptr = NULL \/ ptr <= placement_pointer \/ ptr \in DOMAIN live)
  BY <1>3, InvFacts DEF Held, NULL, LeakIInv
<1>5. Settles(r, heap, live, after, size)
  BY <1>3, <1>4, ReallocSound
<1>6. /\ Balances(r, DOMAIN live, DOMAIN after)
      /\ FoundApart(r, heap, live, ptr, size)
      /\ ~r.hung /\ r.ptr = ptr => r.ptr = NULL \/ r.ptr \in DOMAIN live
      /\ r.hung \/ r.heap.end # heap.end => Exhausted(heap, size)
  BY <1>3, <1>4, ReallocTight
<1>7. Hand(r, after, size) /\ after = AfterRealloc(r, live, ptr, size) /\ r.hung \in BOOLEAN
  BY <1>2, <1>5 DEF Settles
<1> HIDE DEF after
<1> QED
  BY <1>1, <1>6, <1>7

LEMMA ReallocCall ==
  ASSUME LeakIInv, NEW ptr \in Held \cup {NULL}, NEW size \in Nat, Realloc(ptr, size)
  PROVE  Whole(heap', DOMAIN live')
<1>1. PICK r, after :
        /\ Hand(r, after, size)
        /\ r.hung \in BOOLEAN /\ Balances(r, DOMAIN live, DOMAIN after)
  BY ReallocFacts
<1> QED
  BY <1>1, HandBalances

LEMMA InitHeapWhole ==
  ASSUME LeakIInv, init_heap
  PROVE  Whole(heap', DOMAIN live')
<1> DEFINE e == PageOf(placement_pointer + PAGE_SIZE)
<1>1. HeapType(heap) /\ heap' = [heap EXCEPT !.end = e] /\ live' = live
  BY InvFacts DEF LeakIInv, init_heap
<1> HIDE DEF e
<1>2. /\ heap'.size = heap.size /\ heap'.head = heap.head
      /\ heap'.big = heap.big /\ heap'.chain = heap.chain
  BY <1>1, HeapFields DEF HeapSet
<1>3. /\ Bins(heap') = Bins(heap) /\ SmallBins(heap') = SmallBins(heap)
      /\ BigBins(heap') = BigBins(heap)
      /\ \A p : CellsOf(heap', p) = CellsOf(heap, p) /\ Extent(heap', p) = Extent(heap, p)
  BY <1>2 DEF Bins, SmallBins, BigBins, IsBig, CellsOf, Extent
<1> QED
  BY <1>1, <1>2, <1>3 DEF LeakIInv, Whole, Tight, Chained, InArena

LEMMA StepWhole ==
  ASSUME 0 \notin AlignedSizes, LeakIInv, [Next]_vars
  PROVE  LeakIInv'
<1>0. Sizes \subseteq Nat /\ AlignedSizes \subseteq Nat /\ Counts \subseteq Nat
  BY RequestAssumption
<1>1. HeapIInv'
  BY StepInv DEF LeakIInv
<1>2. CASE \E size \in Sizes, align \in BOOLEAN : Place(size, align)
  <2>1. heap' = heap /\ live' = live
    BY <1>2 DEF Place
  <2> QED BY <1>1, <2>1 DEF LeakIInv
<1>3. CASE init_heap
  BY <1>1, <1>3, InitHeapWhole DEF LeakIInv
<1>4. CASE \E size \in Sizes : Malloc(size)
  <2>1. PICK size \in Sizes :
          Running /\ \E r \in klmalloc(heap, size) : Hand(r, live, size)
    BY <1>4 DEF Malloc
  <2> QED BY <1>0, <1>1, <2>1, PlainCall DEF LeakIInv
<1>5. CASE \E size \in AlignedSizes : Valloc(size)
  <2>1. PICK size \in AlignedSizes :
          Running /\ \E r \in klvalloc(heap, size) : Hand(r, live, size)
    BY <1>5 DEF Valloc
  <2>2. size \in Nat /\ size > 0
    BY <1>0
  <2> QED BY <1>1, <2>1, <2>2, VallocCall DEF LeakIInv
<1>6. CASE \E nmemb \in Counts, size \in Sizes : Calloc(nmemb, size)
  <2>1. PICK nmemb \in Counts, size \in Sizes :
          /\ Running
          /\ \E r \in klmalloc(heap, nmemb * size) : Hand(r, live, nmemb * size)
    BY <1>6 DEF Calloc, klcalloc
  <2>2. nmemb * size \in Nat
    BY <1>0
  <2> QED BY <1>1, <2>1, <2>2, PlainCall DEF LeakIInv
<1>7. CASE \E ptr \in Held \cup {NULL} : Free(ptr)
  BY <1>1, <1>7, FreeCall DEF LeakIInv
<1>8. CASE \E ptr \in Held \cup {NULL}, size \in Sizes : Realloc(ptr, size)
  BY <1>0, <1>1, <1>8, ReallocCall DEF LeakIInv
<1>9. CASE UNCHANGED vars
  BY <1>1, <1>9 DEF LeakIInv, vars
<1> QED
  BY <1>2, <1>3, <1>4, <1>5, <1>6, <1>7, <1>8, <1>9 DEF Next

(* A call that grows the heap, or dies growing it, is for a request that   *)
(* nothing free could have served.                                         *)
LEMMA CallFrugal ==
  ASSUME 0 \notin AlignedSizes, LeakIInv, heap'.end # heap.end \/ hung'
  PROVE  /\ \A n \in Sizes : Malloc(n) => ~CouldServe(heap, n)
         /\ \A n \in AlignedSizes : Valloc(n) => ~CouldServe(heap, n + PAGE_SIZE - BIG_HDR)
         /\ \A c \in Counts, n \in Sizes : Calloc(c, n) => ~CouldServe(heap, c * n)
         /\ \A n \in Sizes, ptr \in Held \cup {NULL} : Realloc(ptr, n) => ~CouldServe(heap, n)
<1>0. Sizes \subseteq Nat /\ AlignedSizes \subseteq Nat /\ Counts \subseteq Nat
  BY RequestAssumption
<1>1. Running => heap.end # 0 /\ Sound(heap) /\ LiveOK(heap, live) /\ Whole(heap, DOMAIN live)
  BY InvFacts DEF Running, LeakIInv
<1>2. ASSUME NEW n \in Nat, Running,
             \E r \in klmalloc(heap, n) : Hand(r, live, n)
      PROVE  ~CouldServe(heap, n)
  <2>1. PICK r \in klmalloc(heap, n) : Hand(r, live, n)
    BY <1>2
  <2>2. r.hung \/ r.heap.end # heap.end
    BY <2>1 DEF Hand
  <2> QED BY <1>1, <1>2, <2>2, MallocTight, ExhaustedRefuses DEF Frugal
<1>3. ASSUME NEW n \in AlignedSizes, Valloc(n)
      PROVE  ~CouldServe(heap, n + PAGE_SIZE - BIG_HDR)
  <2>1. Running /\ \E r \in klvalloc(heap, n) : Hand(r, live, n)
    BY <1>3 DEF Valloc
  <2>2. PICK r \in klvalloc(heap, n) : Hand(r, live, n)
    BY <2>1
  <2>3. r.hung \/ r.heap.end # heap.end
    BY <2>2 DEF Hand
  <2>4. n \in Nat /\ n > 0
    BY <1>0
  <2> QED BY <1>1, <2>1, <2>3, <2>4, VallocTight, ExhaustedRefuses DEF Frugal
<1>4. ASSUME NEW n \in Nat, NEW ptr \in Held \cup {NULL}, Realloc(ptr, n)
      PROVE  ~CouldServe(heap, n)
  <2>1. Running
    BY <1>4 DEF Realloc
  <2>2. PICK r, after : Hand(r, after, n) /\ (r.hung \/ r.heap.end # heap.end => Exhausted(heap, n))
    BY <1>4, ReallocFacts
  <2>3. Exhausted(heap, n)
    BY <2>2 DEF Hand
  <2> QED BY <1>1, <2>1, <2>3, ExhaustedRefuses
<1>5. \A n \in Sizes : Malloc(n) => ~CouldServe(heap, n)
  BY <1>0, <1>2 DEF Malloc
<1>6. ASSUME NEW c \in Counts, NEW n \in Sizes, Calloc(c, n) PROVE ~CouldServe(heap, c * n)
  <2>1. c * n \in Nat
    BY <1>0
  <2> QED BY <1>2, <1>6, <2>1 DEF Calloc, klcalloc
<1> QED
  BY <1>0, <1>3, <1>4, <1>5, <1>6

LEMMA InitWhole ==
  ASSUME Init
  PROVE  LeakIInv
<1>1. heap = EmptyHeap
  BY DEF Init
<1>2. heap.size = [p \in {} |-> 0] /\ heap.chain = <<>> /\ heap.big = {}
  BY <1>1 DEF EmptyHeap
<1>3. Bins(heap) = {} /\ SmallBins(heap) = {} /\ BigBins(heap) = {}
  BY <1>2 DEF Bins, SmallBins, BigBins
<1>4. DOMAIN heap.chain = {} /\ Range(heap.chain) = {}
  BY <1>2 DEF Range
<1> QED
  BY <1>2, <1>3, <1>4, InitInv DEF LeakIInv, Whole, Tight, Chained, InArena

(* Nothing that was freed is lost. *)
THEOREM NothingLeaks ==
  ASSUME 0 \notin AlignedSizes
  PROVE  Spec => []NoLeak
<1>1. Init => LeakIInv
  BY InitWhole
<1>2. LeakIInv /\ [Next]_vars => LeakIInv'
  BY StepWhole
<1>3. LeakIInv => NoLeak
  BY DEF LeakIInv, Whole, Tight, NoLeak
<1> QED
  BY <1>1, <1>2, <1>3, PTL DEF Spec

(* All big blocks stay linked, in the order of their addresses. *)
THEOREM BigBlocksChained ==
  ASSUME 0 \notin AlignedSizes
  PROVE  Spec => []ChainOK
<1>1. Init => LeakIInv
  BY InitWhole
<1>2. LeakIInv /\ [Next]_vars => LeakIInv'
  BY StepWhole
<1>3. LeakIInv => ChainOK
  BY DEF LeakIInv, Whole, Chained, ChainOK
<1> QED
  BY <1>1, <1>2, <1>3, PTL DEF Spec

(* The heap takes new pages, or dies taking them, only for a request that  *)
(* nothing free, on any stack or in the pool, could have served.           *)
THEOREM GrowsInNeed ==
  ASSUME 0 \notin AlignedSizes
  PROVE  Spec => GrowsOnlyWhenNothingFits
<1> DEFINE Frugally ==
      heap'.end # heap.end \/ hung' =>
        /\ \A n \in Sizes : CouldServe(heap, n) =>
             ~Malloc(n) /\ \A ptr \in Held \cup {NULL} : ~Realloc(ptr, n)
        /\ \A n \in AlignedSizes : CouldServe(heap, n + PAGE_SIZE - BIG_HDR) => ~Valloc(n)
        /\ \A c \in Counts, n \in Sizes : CouldServe(heap, c * n) => ~Calloc(c, n)
<1>1. Init => LeakIInv
  BY InitWhole
<1>2. LeakIInv /\ [Next]_vars => LeakIInv'
  BY StepWhole
<1>3. LeakIInv => Frugally
  BY CallFrugal
<1> QED
  BY <1>1, <1>2, <1>3, PTL DEF Spec, GrowsOnlyWhenNothingFits

-----------------------------------------------------------------------------
(* The heap implements the allocator. *)

(* The regions of two disjoint sets of callers, those of the heap and      *)
(* those that boot-time allocations got.                                   *)
Merged(l, p) == [a \in DOMAIN l \cup DOMAIN p |-> IF a \in DOMAIN l THEN l[a] ELSE p[a]]

LEMMA MergedRegions ==
  Regions = Merged(live, placed)
BY DEF Regions, Held, Merged

LEMMA MergedWith ==
  ASSUME NEW l, NEW p, NEW a, NEW n, a \notin DOMAIN p
  PROVE  Merged(With(l, a, n), p) = With(Merged(l, p), a, n)
BY DEF Merged, With

LEMMA MergedPlaced ==
  ASSUME NEW l, NEW p, NEW a, NEW n, a \notin DOMAIN l
  PROVE  Merged(l, With(p, a, n)) = With(Merged(l, p), a, n)
BY DEF Merged, With

LEMMA MergedWithout ==
  ASSUME NEW l, NEW p, NEW a, a \notin DOMAIN p
  PROVE  Merged(Without(l, a), p) = Without(Merged(l, p), a)
BY DEF Merged, Without

(* What the invariant says of the regions, to be had of the next state too. *)
HeldWell ==
  /\ \A a \in DOMAIN live : a \notin DOMAIN placed /\ a # NULL
  /\ \A a \in Held : a \in Nat /\ Regions[a] \in Nat
  /\ \A a \in DOMAIN live : a + live[a] <= KHEAP_END
  /\ NoOverlap

LEMMA RegionFacts ==
  LeakIInv => HeldWell
<1> SUFFICES ASSUME LeakIInv PROVE HeldWell
  OBVIOUS
<1>1. placement_pointer \in Nat /\ \A c \in DOMAIN placed : c < placement_pointer
  BY InvFacts DEF LeakIInv
<1>2. ASSUME NEW a \in DOMAIN live
      PROVE  /\ a > placement_pointer /\ a \in Nat /\ live[a] \in Nat /\ live[a] > 0
             /\ a + live[a] <= KHEAP_END
  <2>1. heap.end # 0
    BY <1>2 DEF LeakIInv, HeapIInv, PlacementOK
  <2>2. /\ Sound(heap) /\ LiveOK(heap, live) /\ live \in [DOMAIN live -> Nat]
        /\ \A p \in Bins(heap) : placement_pointer < p
    BY <2>1, InvFacts DEF LeakIInv
  <2> DEFINE p == HeaderOf(a)
  <2>3. /\ p \in Bins(heap) /\ p \in Nat /\ a \in Nat /\ a > p /\ live[a] > 0
        /\ a + live[a] <= p + Extent(heap, p)
    BY <2>2, LiveFacts
  <2>4. p + Extent(heap, p) <= KHEAP_END
    BY <2>3 DEF LeakIInv, Whole, InArena
  <2>5. Extent(heap, p) \in Nat
    BY <2>2, <2>3, BinFacts, LayoutAssumption DEF Extent
  <2> HIDE DEF p
  <2> QED BY <1>1, <2>2, <2>3, <2>4, <2>5, ArenaAssumption
<1>3. ASSUME NEW a \in DOMAIN placed
      PROVE  a \in Nat /\ placed[a] \in Nat
  BY InvFacts DEF LeakIInv
<1>4. NoOverlap
  BY InvApart DEF LeakIInv
<1> QED
  BY <1>1, <1>2, <1>3, <1>4 DEF HeldWell, Regions, Held, NULL

LEMMA RegionFactsNext ==
  LeakIInv' => HeldWell'
BY RegionFacts, PTL

(* A region of the heap in the next state is below the limit and apart     *)
(* from every other region of that state.                                  *)
LEMMA FreshNext ==
  ASSUME HeldWell', NEW a \in DOMAIN live', NEW S, DOMAIN S \subseteq Held' \ {a},
         \A b \in DOMAIN S : S[b] = Regions'[b]
  PROVE  Promise!Fresh(a, Regions'[a], S)
<1>1. /\ a \in Held' /\ a \in Nat /\ Regions'[a] \in Nat
      /\ Regions'[a] = live'[a] /\ a + live'[a] <= KHEAP_END
  BY DEF HeldWell, Held, Regions
<1>2. ASSUME NEW b \in DOMAIN S
      PROVE  Promise!Apart(a, Regions'[a], b, S[b])
  <2>1. b \in Held' /\ b # a /\ b \in Nat /\ Regions'[b] \in Nat /\ S[b] = Regions'[b]
    BY <1>2 DEF HeldWell
  <2>2. /\ a < b => a + Regions'[a] <= b
        /\ b < a => b + Regions'[b] <= a
    BY <1>1, <2>1 DEF HeldWell, NoOverlap
  <2> QED BY <1>1, <2>1, <2>2 DEF Promise!Apart
<1> QED
  BY <1>1, <1>2 DEF Promise!Fresh

LEMMA Granted ==
  ASSUME HeldWell, HeldWell', NEW a, NEW n, a \notin DOMAIN live,
         live' = With(live, a, n), placed' = placed
  PROVE  Promise!Next
<1>1. a \in DOMAIN live' /\ a \notin DOMAIN placed
  BY DEF HeldWell, With
<1>2. /\ Regions' = With(Regions, a, n) /\ DOMAIN Regions' = DOMAIN Regions \cup {a}
      /\ Regions'[a] = n /\ a \notin DOMAIN Regions
      /\ Regions' = Merged(live', placed') /\ Regions = Merged(live, placed)
  <2>1. Regions' = Merged(live', placed') /\ Regions = Merged(live, placed)
    BY DEF Regions, Held, Merged
  <2>2. Merged(With(live, a, n), placed) = With(Merged(live, placed), a, n)
    BY ONLY <1>1, MergedWith
  <2>3. a \notin DOMAIN Merged(live, placed)
    BY <1>1 DEF Merged
  <2>4. Regions' = With(Merged(live, placed), a, n)
    BY <2>1, <2>2
  <2> QED BY <2>1, <2>3, <2>4 DEF With
<1>3. DOMAIN Regions' = Held' /\ \A b \in DOMAIN Regions : Regions[b] = Regions'[b]
  BY <1>2 DEF Regions, With
<1>4. Promise!Fresh(a, Regions'[a], Regions)
  BY <1>1, <1>2, <1>3, FreshNext
<1> QED
  BY <1>2, <1>4 DEF Promise!Next, Promise!Grant, Promise!With, With

LEMMA Released ==
  ASSUME HeldWell, NEW a, live' = Without(live, a), placed' = placed
  PROVE  Promise!Next \/ UNCHANGED Regions
<1>1. Regions' = Merged(live', placed') /\ Regions = Merged(live, placed)
  BY DEF Regions, Held, Merged
<1>2. CASE a \in DOMAIN live
  <2>1. a \notin DOMAIN placed
    BY <1>2 DEF HeldWell
  <2>2. Regions' = Without(Regions, a) /\ a \in DOMAIN Regions
    <3>1. Merged(Without(live, a), placed) = Without(Merged(live, placed), a)
      BY ONLY <2>1, MergedWithout
    <3>2. a \in DOMAIN Merged(live, placed)
      BY <1>2 DEF Merged
    <3> QED BY <1>1, <3>1, <3>2
  <2> QED BY <2>2 DEF Promise!Next, Promise!Release, Promise!Without, Without
<1>3. CASE a \notin DOMAIN live
  <2>1. DOMAIN live' = DOMAIN live /\ \A c \in DOMAIN live : live'[c] = live[c]
    BY <1>3 DEF Without
  <2>2. Regions' = Regions
    BY <1>1, <2>1 DEF Merged
  <2> QED BY <2>2
<1> QED
  BY <1>2, <1>3

LEMMA Resized ==
  ASSUME HeldWell, HeldWell', NEW a \in DOMAIN live, NEW b, NEW n,
         live' = With(Without(live, a), b, n), placed' = placed,
         b = a \/ (b \notin DOMAIN live /\ Promise!Apart(b, n, a, live[a]))
  PROVE  Promise!Next
<1>1. a \notin DOMAIN placed /\ b \in DOMAIN live' /\ b \notin DOMAIN placed
  BY DEF HeldWell, With
<1>2. Regions' = Merged(live', placed') /\ Regions = Merged(live, placed)
  BY DEF Regions, Held, Merged
<1> DEFINE S == Without(Regions, a)
<1>3. S = Merged(Without(live, a), placed)
  BY <1>1, <1>2, MergedWithout
<1>4. Regions' = With(S, b, n) /\ DOMAIN Regions' = DOMAIN S \cup {b} /\ Regions'[b] = n
  <2> DEFINE l == Without(live, a)
  <2>1. Merged(With(l, b, n), placed) = With(Merged(l, placed), b, n)
    BY ONLY <1>1, MergedWith
  <2>2. Regions' = Merged(With(l, b, n), placed) /\ S = Merged(l, placed)
    BY <1>2, <1>3
  <2> HIDE DEF l, S
  <2>3. Regions' = With(S, b, n)
    BY <2>1, <2>2
  <2> QED BY <2>3 DEF With
<1>5. /\ DOMAIN S = DOMAIN Regions \ {a} /\ \A c \in DOMAIN S : S[c] = Regions[c]
      /\ a \in DOMAIN Regions /\ Regions[a] = live[a]
      /\ DOMAIN Regions = DOMAIN live \cup DOMAIN placed
  BY <1>2 DEF Without, Merged
<1>6. DOMAIN S \subseteq Held' \ {b} /\ \A c \in DOMAIN S : S[c] = Regions'[c]
  <2>1. DOMAIN Regions' = Held'
    BY DEF Regions
  <2>2. b \notin DOMAIN S
    BY <1>1, <1>5
  <2> HIDE DEF S
  <2> QED BY <1>4, <2>1, <2>2 DEF With
<1>7. Promise!Fresh(b, Regions'[b], S)
  BY <1>1, <1>6, FreshNext
<1>8. Promise!Fresh(b, Regions'[b], IF a = b THEN S ELSE Regions)
  <2>1. CASE a = b
    BY <1>7, <2>1
  <2>2. CASE a # b
    <3>1. Promise!Apart(b, Regions'[b], a, Regions[a])
      BY <1>4, <1>5, <2>2
    <3>2. \A c \in DOMAIN Regions : Promise!Apart(b, Regions'[b], c, Regions[c])
      BY <1>5, <1>7, <3>1 DEF Promise!Fresh
    <3> QED BY <1>7, <2>2, <3>2 DEF Promise!Fresh
  <2> QED BY <2>1, <2>2
<1>9. S = Promise!Without(Regions, a) /\ Regions' = Promise!With(S, b, Regions'[b])
  BY <1>4 DEF Promise!Without, Promise!With, Without, With
<1> QED
  BY <1>4, <1>5, <1>8, <1>9 DEF Promise!Next, Promise!Resize

-----------------------------------------------------------------------------
(* Step by step. *)

LEMMA PlaceGrants ==
  ASSUME PLACEMENT_MAX <= KHEAP_END, LeakIInv,
         NEW size \in Nat, NEW align \in BOOLEAN, Place(size, align)
  PROVE  Promise!Next
<1> DEFINE at == IF align /\ PageOf(placement_pointer) # 0
                 THEN PageOf(placement_pointer) + PAGE_SIZE
                 ELSE placement_pointer
<1>1. at \in Nat /\ at >= placement_pointer /\ placement_pointer \in Nat
  BY InvFacts, PageOfType, LayoutAssumption DEF LeakIInv
<1>2. /\ heap.end = 0 /\ at + size <= PLACEMENT_MAX
      /\ placed' = With(placed, at, size) /\ live' = live
  BY DEF Place, Booting
<1> HIDE DEF at
<1>3. DOMAIN live = {}
  BY <1>2 DEF LeakIInv, HeapIInv, PlacementOK
<1>4. ASSUME NEW c \in DOMAIN placed
      PROVE  c \in Nat /\ placed[c] \in Nat /\ c # at /\ c + placed[c] <= at
  BY <1>1, <1>4, InvFacts DEF LeakIInv, HeapIInv, PlacementOK
<1>5. Regions = Merged(live, placed) /\ Regions' = Merged(live', placed')
  BY DEF Regions, Held, Merged
<1>6. Regions' = With(Regions, at, size)
  BY <1>2, <1>3, <1>5, MergedPlaced
<1>7. DOMAIN Regions = DOMAIN placed /\ \A c \in DOMAIN Regions : Regions[c] = placed[c]
  BY <1>3, <1>5 DEF Merged
<1>8. at + size <= KHEAP_END
  BY <1>1, <1>2, ArenaAssumption
<1>9. Promise!Fresh(at, size, Regions)
  BY <1>4, <1>7, <1>8 DEF Promise!Fresh, Promise!Apart
<1>10. at \notin DOMAIN Regions /\ at \in DOMAIN Regions' /\ Regions'[at] = size
  BY <1>4, <1>6, <1>7 DEF With
<1> QED
  BY <1>6, <1>9, <1>10 DEF Promise!Next, Promise!Grant, Promise!With, With

(* A call answered for callers that keep all they held.                    *)
LEMMA AnswerGrants ==
  ASSUME LeakIInv, LeakIInv', NEW n, NEW r, Answers(r, heap, live, n), Hand(r, live, n)
  PROVE  Promise!Next \/ UNCHANGED Regions
<1>1. HeldWell /\ HeldWell' /\ placed' = placed
  BY RegionFacts, RegionFactsNext DEF Hand
<1>2. CASE r.hung \/ r.ptr = NULL
  <2>1. live' = live
    BY <1>2 DEF Hand
  <2> QED BY <1>1, <2>1 DEF Regions, Held
<1>3. CASE ~r.hung /\ r.ptr # NULL
  <2>1. live' = With(live, r.ptr, n) /\ r.ptr \notin DOMAIN live
    BY <1>3 DEF Hand, Answers
  <2> QED BY <1>1, <2>1, Granted
<1> QED
  BY <1>2, <1>3

LEMMA ReallocRefines ==
  ASSUME LeakIInv, LeakIInv', NEW ptr \in Held \cup {NULL}, NEW size \in Nat,
         Realloc(ptr, size)
  PROVE  Promise!Next \/ UNCHANGED Regions
<1>1. PICK r, after :
        /\ Hand(r, after, size)
        /\ r.hung \in BOOLEAN /\ after = AfterRealloc(r, live, ptr, size)
        /\ FoundApart(r, heap, live, ptr, size)
        /\ ~r.hung /\ r.ptr = ptr => r.ptr = NULL \/ r.ptr \in DOMAIN live
  BY ReallocFacts
<1>2. HeldWell /\ HeldWell' /\ placed' = placed
  BY <1>1, RegionFacts, RegionFactsNext DEF Hand
<1>3. CASE r.hung
  <2>1. live' = live
    BY <1>1, <1>3 DEF Hand
  <2> QED BY <1>2, <2>1 DEF Regions, Held
<1>4. CASE ~r.hung /\ r.ptr = NULL
  <2>1. live' = after /\ (after = live \/ after = Without(live, ptr))
    BY <1>1, <1>4 DEF Hand, AfterRealloc
  <2>2. CASE after = live
    BY <1>2, <2>1, <2>2 DEF Regions, Held
  <2>3. CASE after = Without(live, ptr)
    BY <1>2, <2>1, <2>3, Released
  <2> QED BY <2>1, <2>2, <2>3
<1>5. CASE ~r.hung /\ r.ptr # NULL
  <2>1. live' = With(Without(live, ptr), r.ptr, size)
    BY <1>1, <1>5 DEF Hand, AfterRealloc
  <2>2. live \in [DOMAIN live -> Nat]
    BY InvFacts DEF LeakIInv
  <2>3. CASE ptr \notin DOMAIN live
    <3>1. live' = With(live, r.ptr, size)
      BY <2>1, <2>2, <2>3, NotHeld
    <3>2. r.ptr \notin DOMAIN live
      BY <1>1, <1>5, <2>3 DEF FoundApart
    <3> QED BY <1>2, <3>1, <3>2, Granted
  <2>4. CASE ptr \in DOMAIN live /\ r.ptr = ptr
    BY <1>2, <2>1, <2>4, Resized
  <2>5. CASE ptr \in DOMAIN live /\ r.ptr # ptr
    <3> DEFINE more == With(live, r.ptr, size)
    <3>1. PICK g : GrownOnly(g, heap) /\ LiveOK(g, more)
      BY <1>1, <1>5, <2>5 DEF FoundApart
    <3>2. /\ r.ptr \notin DOMAIN live /\ ptr \in DOMAIN more /\ r.ptr \in DOMAIN more
          /\ more[ptr] = live[ptr] /\ more[r.ptr] = size
      BY <1>1, <1>5, <2>5 DEF FoundApart, With
    <3>3. more \in [DOMAIN more -> Nat]
      BY <2>2 DEF With
    <3>4. Sound(g)
      BY <3>1 DEF GrownOnly
    <3> HIDE DEF more
    <3>5. ptr \in Nat /\ r.ptr \in Nat
      BY <3>1, <3>2, <3>3, <3>4, LiveFacts
    <3>6. /\ ptr < r.ptr => ptr + more[ptr] <= r.ptr
          /\ r.ptr < ptr => r.ptr + more[r.ptr] <= ptr
      BY <3>1, <3>2, <3>3, <3>4, LiveApart
    <3>7. Promise!Apart(r.ptr, size, ptr, live[ptr])
      BY <2>5, <3>2, <3>5, <3>6 DEF Promise!Apart
    <3> QED BY <1>2, <2>1, <2>5, <3>2, <3>7, Resized
  <2> QED BY <2>3, <2>4, <2>5
<1> QED
  BY <1>1, <1>3, <1>4, <1>5

LEMMA StepRefines ==
  ASSUME 0 \notin AlignedSizes, PLACEMENT_MAX <= KHEAP_END,
         LeakIInv, LeakIInv', [Next]_vars
  PROVE  [Promise!Next]_Regions
<1>0. Sizes \subseteq Nat /\ AlignedSizes \subseteq Nat /\ Counts \subseteq Nat
  BY RequestAssumption
<1>1. Running => Sound(heap) /\ LiveOK(heap, live)
  BY InvFacts DEF Running, LeakIInv
<1>2. CASE \E size \in Sizes, align \in BOOLEAN : Place(size, align)
  BY <1>0, <1>2, PlaceGrants
<1>3. CASE init_heap
  BY <1>3 DEF init_heap, Regions, Held
<1>4. CASE \E size \in Sizes : Malloc(size)
  <2>1. PICK size \in Sizes :
          Running /\ \E r \in klmalloc(heap, size) : Hand(r, live, size)
    BY <1>4 DEF Malloc
  <2> QED BY <1>0, <1>1, <2>1, MallocSound, AnswerGrants
<1>5. CASE \E size \in AlignedSizes : Valloc(size)
  <2>1. PICK size \in AlignedSizes :
          Running /\ \E r \in klvalloc(heap, size) : Hand(r, live, size)
    BY <1>5 DEF Valloc
  <2>2. size \in Nat /\ size > 0
    BY <1>0
  <2> QED BY <1>1, <2>1, <2>2, VallocSound, AnswerGrants
<1>6. CASE \E nmemb \in Counts, size \in Sizes : Calloc(nmemb, size)
  <2>1. PICK nmemb \in Counts, size \in Sizes :
          /\ Running
          /\ \E r \in klmalloc(heap, nmemb * size) : Hand(r, live, nmemb * size)
    BY <1>6 DEF Calloc, klcalloc
  <2>2. nmemb * size \in Nat
    BY <1>0
  <2> QED BY <1>1, <2>1, <2>2, MallocSound, AnswerGrants
<1>7. CASE \E ptr \in Held \cup {NULL} : Free(ptr)
  <2>1. PICK ptr \in Held \cup {NULL} : live' = Without(live, ptr) /\ placed' = placed
    BY <1>7 DEF Free
  <2> QED BY <2>1, RegionFacts, Released
<1>8. CASE \E ptr \in Held \cup {NULL}, size \in Sizes : Realloc(ptr, size)
  BY <1>0, <1>8, ReallocRefines
<1>9. CASE UNCHANGED vars
  BY <1>9 DEF vars, Regions, Held
<1> QED
  BY <1>2, <1>3, <1>4, <1>5, <1>6, <1>7, <1>8, <1>9 DEF Next

(* The kernel's heap and its boot-time placement together are an           *)
(* allocator: each call grants a fresh region, takes one back, resizes one *)
(* (moved, never onto itself), or leaves the callers' regions alone.       *)
THEOREM HeapIsAllocator ==
  ASSUME 0 \notin AlignedSizes, PLACEMENT_MAX <= KHEAP_END
  PROVE  Spec => PromiseKept
<1>1. Init => LeakIInv
  BY InitWhole
<1>2. LeakIInv /\ [Next]_vars => LeakIInv'
  BY StepWhole
<1>3. Init => Promise!Init
  BY DEF Init, Promise!Init, Regions, Held
<1>4. LeakIInv /\ LeakIInv' /\ [Next]_vars => [Promise!Next]_Regions
  BY StepRefines
<1> QED
  BY <1>1, <1>2, <1>3, <1>4, PTL DEF Spec, PromiseKept, Promise!Spec
=============================================================================
