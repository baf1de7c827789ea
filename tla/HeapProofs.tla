----------------------------- MODULE HeapProofs -----------------------------
(***************************************************************************)
(* The heap is sound for every arena, every layout that LayoutAssumption   *)
(* admits and every set of sizes, provided valloc is not asked for 0.      *)
(***************************************************************************)
EXTENDS Heap, SequenceTheorems, WellFoundedInduction, TLAPS

-----------------------------------------------------------------------------
(* Pages. *)

LEMMA PageSum ==
  ASSUME NEW p \in Nat, NEW k \in Nat, Aligned(p)
  PROVE  Aligned(p + k * PAGE_SIZE)
<1>0. PAGE_SIZE \in Nat \ {0}
  BY LayoutAssumption
<1>1. p = (p \div PAGE_SIZE) * PAGE_SIZE /\ p \div PAGE_SIZE \in Nat
  BY <1>0 DEF Aligned
<1>2. PICK m \in Nat : p + k * PAGE_SIZE = m * PAGE_SIZE
  <2>1. p + k * PAGE_SIZE = ((p \div PAGE_SIZE) + k) * PAGE_SIZE
    BY <1>0, <1>1
  <2>2. (p \div PAGE_SIZE) + k \in Nat
    BY <1>1
  <2> QED BY <2>1, <2>2
<1>3. (m * PAGE_SIZE) % PAGE_SIZE = 0
  BY <1>0
<1> QED
  BY <1>2, <1>3 DEF Aligned

(* An address inside the page p is traced to p, and so is the one right    *)
(* behind it, as klfree steps back from a page border.                     *)
LEMMA PageOfInside ==
  ASSUME NEW p \in Nat, Aligned(p), NEW o \in 0..PAGE_SIZE-1
  PROVE  PageOf(p + o) = p /\ (o # 0 => ~Aligned(p + o))
<1>0. PAGE_SIZE \in Nat \ {0}
  BY LayoutAssumption
<1>1. (p + o) % PAGE_SIZE = o
  BY <1>0 DEF Aligned
<1> QED
  BY <1>0, <1>1 DEF PageOf, Aligned

LEMMA HeaderOfInside ==
  ASSUME NEW p \in Nat, Aligned(p), NEW o \in 1..PAGE_SIZE
  PROVE  HeaderOf(p + o) = p
<1>0. PAGE_SIZE \in Nat \ {0}
  BY LayoutAssumption
<1>1. CASE o = PAGE_SIZE
  <2>1. Aligned(p + o)
    BY <1>0, <1>1, PageSum
  <2>2. HeaderOf(p + o) = PageOf(p + (PAGE_SIZE - 1))
    BY <1>0, <1>1, <2>1 DEF HeaderOf
  <2> QED BY <1>0, <2>2, PageOfInside
<1>2. CASE o # PAGE_SIZE
  BY <1>0, <1>2, PageOfInside DEF HeaderOf
<1> QED
  BY <1>1, <1>2

LEMMA PageOfType ==
  ASSUME NEW a \in Nat
  PROVE  /\ PageOf(a) \in Nat /\ Aligned(PageOf(a))
         /\ PageOf(a) <= a /\ a < PageOf(a) + PAGE_SIZE
<1>0. PAGE_SIZE \in Nat \ {0}
  BY LayoutAssumption
<1>1. PageOf(a) = (a \div PAGE_SIZE) * PAGE_SIZE /\ a \div PAGE_SIZE \in Nat
  BY <1>0 DEF PageOf
<1>2. \A m \in Nat : (m * PAGE_SIZE) % PAGE_SIZE = 0
  BY <1>0
<1> QED
  BY <1>0, <1>1, <1>2 DEF PageOf, Aligned

-----------------------------------------------------------------------------
(* Cells. *)

LEMMA BucketType ==
  ASSUME NEW b \in Buckets
  PROVE  /\ b \in Nat /\ b < BIG_BIN /\ b <= NUM_BINS
         /\ CellSize(b) \in Nat \ {0} /\ Cells(b) \in Nat \ {0}
         /\ Cells(b) * CellSize(b) + HDR <= PAGE_SIZE
<1>1. b \in Nat /\ b < BIG_BIN /\ b <= NUM_BINS /\ CellSize(b) \in Nat \ {0}
  BY LayoutAssumption DEF Buckets, BIG_BIN
<1>2. PAGE_SIZE - HDR \in Nat /\ CellSize(b) <= PAGE_SIZE - HDR
  BY <1>1, LayoutAssumption
<1> DEFINE c == CellSize(b)
           n == PAGE_SIZE - HDR
<1> HIDE DEF c, n
<1>3. ASSUME c \in Nat \ {0}, n \in Nat, c <= n
      PROVE  n \div c \in Nat \ {0} /\ (n \div c) * c <= n
  BY <1>3
<1>4. Cells(b) \in Nat \ {0} /\ Cells(b) * CellSize(b) <= PAGE_SIZE - HDR
  BY <1>1, <1>2, <1>3 DEF Cells, c, n
<1>5. Cells(b) * CellSize(b) \in Nat
  BY <1>1, <1>4
<1> QED
  BY <1>1, <1>4, <1>5, LayoutAssumption

(* A cell lies behind the header and ends inside the page; distinct cells  *)
(* do not overlap.                                                         *)
LEMMA CellInside ==
  ASSUME NEW p \in Nat, NEW b \in Buckets, NEW i \in 0..Cells(b)-1
  PROVE  /\ Cell(p, b, i) \in Nat
         /\ p + HDR <= Cell(p, b, i)
         /\ Cell(p, b, i) + CellSize(b) <= p + PAGE_SIZE
<1> DEFINE c == CellSize(b)
<1>1. /\ c \in Nat \ {0} /\ Cells(b) \in Nat \ {0} /\ Cells(b) * c + HDR <= PAGE_SIZE
      /\ HDR \in Nat /\ PAGE_SIZE \in Nat /\ i \in Nat
  BY BucketType, LayoutAssumption
<1> HIDE DEF c
<1>2. i * c \in Nat /\ i * c + c <= Cells(b) * c
  BY <1>1
<1>3. Cell(p, b, i) = p + HDR + i * c
  BY DEF Cell, c
<1>4. Cell(p, b, i) + c <= p + PAGE_SIZE
  BY <1>1, <1>2, <1>3
<1> QED
  BY <1>1, <1>2, <1>3, <1>4 DEF c

LEMMA CellsApart ==
  ASSUME NEW p \in Nat, NEW b \in Buckets,
         NEW i \in 0..Cells(b)-1, NEW j \in 0..Cells(b)-1, i < j
  PROVE  Cell(p, b, i) + CellSize(b) <= Cell(p, b, j)
<1> DEFINE c == CellSize(b)
<1>1. c \in Nat /\ HDR \in Nat /\ i \in Nat /\ j \in Nat
  BY BucketType, LayoutAssumption
<1> HIDE DEF c
<1>2. i * c + c <= j * c /\ i * c \in Nat /\ j * c \in Nat
  BY <1>1
<1> QED
  BY <1>1, <1>2 DEF Cell, c

LEMMA CellHeader ==
  ASSUME NEW p \in Nat, Aligned(p), NEW b \in Buckets, NEW i \in 0..Cells(b)-1
  PROVE  HeaderOf(Cell(p, b, i)) = p /\ PageOf(Cell(p, b, i)) = p
<1>1. /\ Cell(p, b, i) \in Nat /\ p + HDR <= Cell(p, b, i)
      /\ Cell(p, b, i) + CellSize(b) <= p + PAGE_SIZE /\ CellSize(b) \in Nat \ {0}
  BY CellInside, BucketType
<1>2. PICK o \in 1..PAGE_SIZE-1 : Cell(p, b, i) = p + o
  <2>1. Cell(p, b, i) - p \in 1..PAGE_SIZE-1
    BY <1>1, LayoutAssumption
  <2> QED BY <2>1, <1>1
<1> QED
  BY <1>2, HeaderOfInside, PageOfInside, LayoutAssumption

(* A new page's stack: all of its cells, once each.                        *)
LEMMA FullStackFacts ==
  ASSUME NEW p \in Nat, NEW b \in Buckets
  PROVE  /\ FullStack(p, b) \in Seq(Nat)
         /\ FullStack(p, b) # <<>>
         /\ Range(FullStack(p, b)) = {Cell(p, b, i) : i \in 0..Cells(b)-1}
         /\ IsInjective(FullStack(p, b))
<1> DEFINE n == Cells(b)
           s == FullStack(p, b)
<1>0. n \in Nat \ {0} /\ CellSize(b) \in Nat \ {0}
  BY BucketType
<1>1. \A i \in 1..n : i - 1 \in 0..n-1 /\ Cell(p, b, i - 1) \in Nat
  BY <1>0, CellInside
<1>2. s \in [1..n -> Nat] /\ DOMAIN s = 1..n
  BY <1>1 DEF FullStack
<1>3. s \in Seq(Nat) /\ Len(s) = n
  BY <1>0, <1>2, SeqDef
<1>4. s # <<>>
  BY <1>0, <1>3
<1>5. Range(s) = {Cell(p, b, i) : i \in 0..n-1}
  <2>1. \A i \in 1..n : s[i] = Cell(p, b, i - 1)
    BY DEF FullStack
  <2>2. \A j \in 0..n-1 : j + 1 \in 1..n /\ (j + 1) - 1 = j
    BY <1>0
  <2> QED BY <1>1, <1>2, <2>1, <2>2 DEF Range
<1>6. ASSUME NEW i \in 1..n, NEW j \in 1..n, s[i] = s[j], i < j
      PROVE  FALSE
  <2>1. Cell(p, b, i - 1) + CellSize(b) <= Cell(p, b, j - 1)
    BY <1>0, <1>1, <1>6, CellsApart
  <2>2. Cell(p, b, i - 1) = Cell(p, b, j - 1)
    BY <1>6 DEF FullStack
  <2> QED BY <1>0, <1>1, <2>1, <2>2
<1>7. IsInjective(s)
  BY <1>2, <1>6, <1>0 DEF IsInjective
<1> QED
  BY <1>3, <1>4, <1>5, <1>7

-----------------------------------------------------------------------------
(* Pushing on and popping off a stack. *)

LEMMA PushFacts ==
  ASSUME NEW S, NEW s \in Seq(S), NEW x \in S
  PROVE  /\ <<x>> \o s \in Seq(S) /\ <<x>> \o s # <<>>
         /\ Range(<<x>> \o s) = {x} \cup Range(s)
         /\ x \notin Range(s) /\ IsInjective(s) => IsInjective(<<x>> \o s)
<1> DEFINE t == <<x>> \o s
<1>1. <<x>> \in Seq(S) /\ Len(<<x>>) = 1 /\ <<x>>[1] = x
  OBVIOUS
<1>2. Len(s) \in Nat /\ DOMAIN s = 1..Len(s)
  BY LenProperties
<1>3. /\ t \in Seq(S) /\ Len(t) = 1 + Len(s)
      /\ \A i \in 1..1+Len(s) : t[i] = IF i <= 1 THEN x ELSE s[i-1]
  BY <1>1, ConcatProperties
<1> HIDE DEF t
<1>4. DOMAIN t = 1..1+Len(s)
  BY <1>2, <1>3, LenProperties
<1>5. t # <<>>
  BY <1>2, <1>3
<1>6. Range(t) = {x} \cup Range(s)
  <2>1. ASSUME NEW i \in DOMAIN t PROVE t[i] \in {x} \cup Range(s)
    BY <1>2, <1>3, <1>4, <2>1 DEF Range
  <2>2. t[1] = x /\ 1 \in DOMAIN t
    BY <1>2, <1>3, <1>4
  <2>3. ASSUME NEW i \in DOMAIN s PROVE s[i] \in Range(t)
    <3>1. i + 1 \in DOMAIN t /\ t[i + 1] = s[i]
      BY <1>2, <1>3, <1>4, <2>3
    <3> QED BY <3>1 DEF Range
  <2> QED BY <2>1, <2>2, <2>3 DEF Range
<1>7. ASSUME x \notin Range(s), IsInjective(s) PROVE IsInjective(t)
  <2>1. \A i \in DOMAIN s : s[i] # x
    BY <1>7 DEF Range
  <2> QED BY <1>2, <1>3, <1>4, <1>7, <2>1 DEF IsInjective
<1> QED
  BY <1>3, <1>5, <1>6, <1>7 DEF t

LEMMA PopFacts ==
  ASSUME NEW S, NEW s \in Seq(S), s # <<>>
  PROVE  /\ Head(s) \in S /\ Tail(s) \in Seq(S)
         /\ Head(s) \in Range(s)
         /\ IsInjective(s) => /\ Range(Tail(s)) = Range(s) \ {Head(s)}
                              /\ IsInjective(Tail(s))
<1> DEFINE t == Tail(s)
<1>1. Len(s) \in Nat /\ DOMAIN s = 1..Len(s) /\ Len(s) # 0
  BY LenProperties, EmptySeq
<1>2. /\ Head(s) \in S /\ t \in Seq(S) /\ Len(t) = Len(s) - 1
      /\ \A i \in 1..Len(t) : t[i] = s[i+1]
  BY HeadTailProperties
<1>3. Head(s) = s[1]
  OBVIOUS
<1> HIDE DEF t
<1>4. DOMAIN t = 1..Len(s)-1
  BY <1>2, LenProperties
<1>5. Head(s) \in Range(s)
  BY <1>1, <1>3 DEF Range
<1>6. ASSUME IsInjective(s) PROVE Range(t) = Range(s) \ {Head(s)} /\ IsInjective(t)
  <2>1. ASSUME NEW i \in DOMAIN t PROVE t[i] \in Range(s) /\ t[i] # Head(s)
    <3>1. i + 1 \in DOMAIN s /\ t[i] = s[i+1] /\ 1 \in DOMAIN s /\ i + 1 # 1
      BY <1>1, <1>2, <1>4, <2>1
    <3>2. s[i+1] # s[1]
      BY <1>6, <3>1 DEF IsInjective
    <3> QED BY <3>1, <3>2, <1>3 DEF Range
  <2>2. ASSUME NEW i \in DOMAIN s, s[i] # Head(s) PROVE s[i] \in Range(t)
    <3>1. i - 1 \in DOMAIN t /\ t[i - 1] = s[i]
      BY <1>1, <1>2, <1>3, <1>4, <2>2
    <3> QED BY <3>1 DEF Range
  <2>3. IsInjective(t)
    <3>1. ASSUME NEW i \in DOMAIN t, NEW j \in DOMAIN t, t[i] = t[j] PROVE i = j
      <4>1. i + 1 \in DOMAIN s /\ j + 1 \in DOMAIN s /\ s[i+1] = s[j+1]
        BY <1>1, <1>2, <1>4, <3>1
      <4>2. i + 1 = j + 1
        BY <1>6, <4>1 DEF IsInjective
      <4> QED BY <1>1, <1>4, <4>2
    <3> QED BY <3>1 DEF IsInjective
  <2> QED BY <2>1, <2>2, <2>3 DEF Range
<1> QED
  BY <1>2, <1>5, <1>6 DEF t

-----------------------------------------------------------------------------
(* The bucket chosen for a size. *)

LEMMA LessIsWellFounded ==
  IsWellFoundedOn({ss \in Nat \X Nat : ss[1] < ss[2]}, Nat)
BY NatLessThanWellFounded DEF OpToRel

LEMMA LeastNatural ==
  ASSUME NEW T, T \subseteq Nat, T # {}
  PROVE  \E m \in T : \A k \in T : m <= k
<1> DEFINE R == {ss \in Nat \X Nat : ss[1] < ss[2]}
<1>0. IsWellFoundedOn(R, Nat)
  BY LessIsWellFounded
<1> HIDE DEF R
<1>1. PICK m \in T : \A y \in T : ~ (<<y, m>> \in R)
  BY WFMin, <1>0
<1>2. \A y \in T : ~ (y < m)
  BY <1>1 DEF R
<1> QED
  BY <1>1, <1>2

LEMMA BinSizeFacts ==
  ASSUME NEW n \in Nat
  PROVE  \/ klmalloc_bin_size(n) \in Buckets /\ n <= CellSize(klmalloc_bin_size(n))
         \/ klmalloc_bin_size(n) = BIG_BIN
<1>1. CASE \E b \in Buckets : n <= CellSize(b)
  <2> DEFINE T == {b \in Buckets : n <= CellSize(b)}
  <2>1. T \subseteq Nat /\ T # {}
    BY <1>1, BucketType
  <2>2. \E b \in T : \A c \in T : b <= c
    BY <2>1, LeastNatural
  <2>3. \E b \in Buckets :
          n <= CellSize(b) /\ \A c \in Buckets : n <= CellSize(c) => b <= c
    BY <2>2
  <2> QED BY <1>1, <2>3 DEF klmalloc_bin_size
<1>2. CASE ~ \E b \in Buckets : n <= CellSize(b)
  BY <1>2 DEF klmalloc_bin_size
<1> QED
  BY <1>1, <1>2

(* A size no bucket holds, in particular every size valloc asks for.       *)
LEMMA BigSize ==
  ASSUME NEW n \in Nat, \A b \in Buckets : n > CellSize(b)
  PROVE  klmalloc_bin_size(n) = BIG_BIN
<1>1. ~ \E b \in Buckets : n <= CellSize(b)
  BY BucketType
<1> QED
  BY <1>1 DEF klmalloc_bin_size

LEMMA DivFacts ==
  ASSUME NEW a \in Nat, NEW d \in Nat \ {0}
  PROVE  a \div d \in Nat /\ a < (a \div d) * d + d
OBVIOUS

LEMMA BigPagesFacts ==
  ASSUME NEW n \in Nat
  PROVE  /\ BigPages(n) \in Nat \ {0}
         /\ BigPages(n) * PAGE_SIZE \in Nat
         /\ BigPages(n) * PAGE_SIZE >= PAGE_SIZE
         /\ n + BIG_HDR < BigPages(n) * PAGE_SIZE
<1> DEFINE k == (n + BIG_HDR) \div PAGE_SIZE
<1>0. PAGE_SIZE \in Nat \ {0} /\ n + BIG_HDR \in Nat
  BY LayoutAssumption
<1>1. k \in Nat /\ n + BIG_HDR < k * PAGE_SIZE + PAGE_SIZE
  BY <1>0, DivFacts
<1> HIDE DEF k
<1>2. (k + 1) * PAGE_SIZE = k * PAGE_SIZE + PAGE_SIZE /\ k * PAGE_SIZE \in Nat
  BY <1>0, <1>1
<1> QED
  BY <1>0, <1>1, <1>2 DEF BigPages, k

-----------------------------------------------------------------------------
(* Fields. *)

HeapSet(S) ==
  [end : Nat, size : [S -> Nat], head : [S -> Seq(Nat)], list : [Buckets -> Seq(S)],
   big : SUBSET S, chain : Seq(S)]

LEMMA HeapFields ==
  ASSUME NEW h, HeapType(h)
  PROVE  /\ h \in HeapSet(Bins(h)) /\ Bins(h) \subseteq Nat
         /\ h.end \in Nat /\ h.size \in [Bins(h) -> Nat] /\ h.head \in [Bins(h) -> Seq(Nat)]
         /\ h.list \in [Buckets -> Seq(Bins(h))] /\ h.big \in SUBSET Bins(h)
         /\ h.chain \in Seq(Bins(h))
BY DEF HeapType, HeapSet

LEMMA HeapSetType ==
  ASSUME NEW S, S \subseteq Nat, NEW h \in HeapSet(S)
  PROVE  HeapType(h) /\ Bins(h) = S
BY DEF HeapType, HeapSet, Bins

LEMMA SeqMono ==
  ASSUME NEW S, NEW T, S \subseteq T, NEW s \in Seq(S)
  PROVE  s \in Seq(T)
OBVIOUS

LEMMA WithType ==
  ASSUME NEW S, NEW T, NEW f \in [S -> T], NEW x, NEW v \in T
  PROVE  With(f, x, v) \in [S \cup {x} -> T]
BY DEF With

(* The parts of the invariant that do not mention the callers.             *)
Sound(h) == HeapType(h) /\ h.end > 0 /\ BinsOK(h) /\ StacksOK(h) /\ ListsOK(h)

LEMMA BinFacts ==
  ASSUME NEW h, Sound(h), NEW p \in Bins(h)
  PROVE  /\ p \in Nat /\ p > 0 /\ Aligned(p) /\ h.size[p] \in Nat
         /\ p + Extent(h, p) <= h.end /\ p < h.end
         /\ p \in SmallBins(h) => /\ h.size[p] \in Buckets /\ ~IsBig(h, p)
                                 /\ Extent(h, p) = PAGE_SIZE
         /\ p \in BigBins(h) => /\ IsBig(h, p) /\ Extent(h, p) = h.size[p] + BIG_HDR
                               /\ h.size[p] > NUM_BINS
         /\ p \in SmallBins(h) \/ p \in BigBins(h)
         /\ IsBig(h, p) \/ h.size[p] \in Buckets
<1>1. /\ p \in Nat /\ h.size[p] \in Nat /\ p > 0 /\ Aligned(p)
      /\ p + Extent(h, p) <= h.end
      /\ IsBig(h, p) \/ h.size[p] \in Buckets
  BY HeapFields DEF Sound, BinsOK
<1>2. Extent(h, p) \in Nat /\ Extent(h, p) > 0
  BY <1>1, LayoutAssumption DEF Extent
<1>3. h.end \in Nat
  BY HeapFields DEF Sound
<1>4. p < h.end
  BY <1>1, <1>2, <1>3
<1> QED
  BY <1>1, <1>4 DEF SmallBins, BigBins, IsBig, Extent

-----------------------------------------------------------------------------
(* Fields of the heaps the operations make. *)

LEMMA NewBinFields ==
  ASSUME NEW h, HeapType(h), NEW b \in Buckets
  PROVE  LET g == NewBin(h, b)
         IN /\ HeapType(g) /\ Bins(g) = Bins(h) \cup {h.end}
            /\ g.end = h.end + PAGE_SIZE /\ g.size = With(h.size, h.end, b)
            /\ g.head = With(h.head, h.end, FullStack(h.end, b))
            /\ g.list = [h.list EXCEPT ![b] = <<h.end>> \o h.list[b]]
            /\ g.big = h.big /\ g.chain = h.chain
<1> DEFINE e == h.end + PAGE_SIZE
           s == With(h.size, h.end, b)
           d == With(h.head, h.end, FullStack(h.end, b))
           l == [h.list EXCEPT ![b] = <<h.end>> \o h.list[b]]
           T == Bins(h) \cup {h.end}
           g == [h EXCEPT !.end = e, !.size = s, !.head = d, !.list = l]
<1>1. e \in Nat
  BY HeapFields, LayoutAssumption
<1>2. s \in [T -> Nat]
  BY HeapFields, WithType, BucketType
<1>3. d \in [T -> Seq(Nat)]
  BY HeapFields, WithType, FullStackFacts
<1>4. l \in [Buckets -> Seq(T)]
  <2>1. \A c \in Buckets : h.list[c] \in Seq(T)
    BY HeapFields, SeqMono
  <2>2. <<h.end>> \o h.list[b] \in Seq(T)
    BY <2>1, PushFacts
  <2> QED BY <2>1, <2>2, HeapFields
<1>5. h.big \in SUBSET T /\ h.chain \in Seq(T) /\ T \subseteq Nat
  BY HeapFields, SeqMono
<1> HIDE DEF e, s, d, l, T
<1>6. h \in HeapSet(Bins(h))
  BY HeapFields
<1>7. /\ g.end = e /\ g.size = s /\ g.head = d /\ g.list = l
      /\ g.big = h.big /\ g.chain = h.chain /\ g \in HeapSet(T)
  BY <1>1, <1>2, <1>3, <1>4, <1>5, <1>6 DEF HeapSet
<1>8. HeapType(g) /\ Bins(g) = T
  BY <1>5, <1>7, HeapSetType
<1> QED
  BY <1>7, <1>8 DEF NewBin, e, s, d, l, T

LEMMA PopCellFields ==
  ASSUME NEW h, HeapType(h), NEW b \in Buckets, h.list[b] # <<>>,
         h.head[Head(h.list[b])] # <<>>
  PROVE  LET r == PopCell(h, b)
             g == r.heap
             p == Head(h.list[b])
             rest == Tail(h.head[p])
         IN /\ p \in Bins(h) /\ r.ptr = Head(h.head[p]) /\ r.hung = FALSE
            /\ HeapType(g) /\ Bins(g) = Bins(h) /\ g.end = h.end /\ g.size = h.size
            /\ g.head[p] = rest /\ \A q \in Bins(h) : q # p => g.head[q] = h.head[q]
            /\ g.list[b] = IF rest = <<>> THEN Tail(h.list[b]) ELSE h.list[b]
            /\ \A c \in Buckets : c # b => g.list[c] = h.list[c]
            /\ g.big = h.big /\ g.chain = h.chain
<1> DEFINE p == Head(h.list[b])
           rest == Tail(h.head[p])
           d == [h.head EXCEPT ![p] = rest]
           l == [h.list EXCEPT ![b] = IF rest = <<>> THEN Tail(h.list[b]) ELSE h.list[b]]
           g == [h EXCEPT !.head = d, !.list = l]
<1>1. p \in Bins(h) /\ Tail(h.list[b]) \in Seq(Bins(h)) /\ h.list[b] \in Seq(Bins(h))
  BY HeapFields, PopFacts
<1>2. rest \in Seq(Nat)
  BY <1>1, HeapFields, PopFacts
<1>3. l \in [Buckets -> Seq(Bins(h))]
  BY <1>1, HeapFields
<1>4. h \in HeapSet(Bins(h)) /\ d \in [Bins(h) -> Seq(Nat)] /\ Bins(h) \subseteq Nat
  BY <1>1, <1>2, HeapFields
<1> HIDE DEF d, l
<1>5. /\ g.end = h.end /\ g.size = h.size /\ g.head = d /\ g.list = l
      /\ g.big = h.big /\ g.chain = h.chain /\ g \in HeapSet(Bins(h))
  BY <1>3, <1>4 DEF HeapSet
<1>6. HeapType(g) /\ Bins(g) = Bins(h)
  BY <1>4, <1>5, HeapSetType
<1>7. PopCell(h, b) = Result(g, Head(h.head[p]))
  BY DEF PopCell, d, l
<1>8. /\ PopCell(h, b).heap = g /\ PopCell(h, b).ptr = Head(h.head[p])
      /\ PopCell(h, b).hung = FALSE
  BY <1>7 DEF Result
<1>9. /\ l[b] = IF rest = <<>> THEN Tail(h.list[b]) ELSE h.list[b]
      /\ \A c \in Buckets : c # b => l[c] = h.list[c]
      /\ d[p] = rest /\ \A q \in Bins(h) : q # p => d[q] = h.head[q]
  BY <1>1, HeapFields DEF l, d
<1> HIDE DEF g
<1> QED
  BY <1>1, <1>5, <1>6, <1>8, <1>9

LEMMA TakeBigFields ==
  ASSUME NEW h, HeapType(h), NEW p \in Bins(h), h.head[p] = <<p + BIG_HDR>>
  PROVE  LET r == TakeBig(h, p)
             g == r.heap
         IN /\ r.ptr = p + BIG_HDR /\ r.hung = FALSE
            /\ HeapType(g) /\ Bins(g) = Bins(h) /\ g.end = h.end /\ g.size = h.size
            /\ g.head[p] = <<>>
            /\ \A q \in Bins(h) : q # p => g.head[q] = h.head[q]
            /\ g.list = h.list /\ g.big = h.big \ {p} /\ g.chain = h.chain
<1> DEFINE d == [h.head EXCEPT ![p] = Tail(h.head[p])]
           k == h.big \ {p}
           g == [h EXCEPT !.head = d, !.big = k]
<1>0. /\ p + BIG_HDR \in Nat /\ Head(h.head[p]) = p + BIG_HDR /\ Tail(h.head[p]) = <<>>
      /\ h.head[p] # <<>>
  BY HeapFields, LayoutAssumption
<1>1. /\ h \in HeapSet(Bins(h)) /\ d \in [Bins(h) -> Seq(Nat)]
      /\ k \in SUBSET Bins(h) /\ Bins(h) \subseteq Nat
      /\ d[p] = Tail(h.head[p]) /\ \A q \in Bins(h) : q # p => d[q] = h.head[q]
  BY HeapFields, PopFacts
<1> HIDE DEF d, k
<1>2. /\ g.end = h.end /\ g.size = h.size /\ g.head = d /\ g.list = h.list
      /\ g.big = k /\ g.chain = h.chain /\ g \in HeapSet(Bins(h))
  BY <1>1 DEF HeapSet
<1>3. HeapType(g) /\ Bins(g) = Bins(h)
  BY <1>1, <1>2, HeapSetType
<1>4. TakeBig(h, p) = Result(g, Head(h.head[p]))
  BY DEF TakeBig, d, k
<1>5. TakeBig(h, p).heap = g /\ TakeBig(h, p).ptr = Head(h.head[p]) /\ TakeBig(h, p).hung = FALSE
  BY <1>4 DEF Result
<1> HIDE DEF g
<1> QED
  BY <1>0, <1>1, <1>2, <1>3, <1>5 DEF k

LEMMA GrowBigFields ==
  ASSUME NEW h, HeapType(h), NEW n \in Nat
  PROVE  LET r == GrowBig(h, n)
             g == r.heap
         IN /\ r.ptr = h.end + BIG_HDR /\ r.hung = FALSE
            /\ HeapType(g) /\ Bins(g) = Bins(h) \cup {h.end}
            /\ g.end = h.end + BigPages(n) * PAGE_SIZE
            /\ g.size = With(h.size, h.end, BigPages(n) * PAGE_SIZE - BIG_HDR)
            /\ g.head = With(h.head, h.end, <<>>)
            /\ g.list = h.list /\ g.big = h.big /\ g.chain = Append(h.chain, h.end)
<1> DEFINE e == h.end + BigPages(n) * PAGE_SIZE
           s == With(h.size, h.end, BigPages(n) * PAGE_SIZE - BIG_HDR)
           d == With(h.head, h.end, <<>>)
           c == Append(h.chain, h.end)
           T == Bins(h) \cup {h.end}
           g == [h EXCEPT !.end = e, !.size = s, !.head = d, !.chain = c]
<1>0. BigPages(n) * PAGE_SIZE \in Nat /\ BigPages(n) * PAGE_SIZE >= PAGE_SIZE
  BY BigPagesFacts
<1>1. e \in Nat
  BY <1>0, HeapFields
<1>2. s \in [T -> Nat]
  <2>1. BigPages(n) * PAGE_SIZE - BIG_HDR \in Nat
    BY <1>0, LayoutAssumption
  <2> QED BY <2>1, HeapFields, WithType
<1>3. d \in [T -> Seq(Nat)]
  <2>1. <<>> \in Seq(Nat)
    OBVIOUS
  <2> QED BY <2>1, HeapFields, WithType
<1>4. h.list \in [Buckets -> Seq(T)]
  <2>1. \A b \in Buckets : h.list[b] \in Seq(T)
    BY HeapFields, SeqMono
  <2> QED BY <2>1, HeapFields
<1>5. h.big \in SUBSET T /\ T \subseteq Nat
  BY HeapFields
<1>6. c \in Seq(T)
  <2>1. h.chain \in Seq(T)
    BY HeapFields, SeqMono
  <2> QED BY <2>1
<1> HIDE DEF e, s, d, c, T
<1>7. h \in HeapSet(Bins(h))
  BY HeapFields
<1>8. /\ g.end = e /\ g.size = s /\ g.head = d /\ g.list = h.list
      /\ g.big = h.big /\ g.chain = c /\ g \in HeapSet(T)
  BY <1>1, <1>2, <1>3, <1>4, <1>5, <1>6, <1>7 DEF HeapSet
<1>9. HeapType(g) /\ Bins(g) = T
  BY <1>5, <1>8, HeapSetType
<1>10. GrowBig(h, n) = Result(g, h.end + BIG_HDR)
  BY DEF GrowBig, e, s, d, c
<1>11. /\ GrowBig(h, n).heap = g /\ GrowBig(h, n).ptr = h.end + BIG_HDR
       /\ GrowBig(h, n).hung = FALSE
  BY <1>10 DEF Result
<1> HIDE DEF g
<1> QED
  BY <1>8, <1>9, <1>11 DEF e, s, d, c, T

LEMMA FreeBigFields ==
  ASSUME NEW h, HeapType(h), NEW p \in Bins(h)
  PROVE  LET g == FreeBig(h, p)
         IN /\ HeapType(g) /\ Bins(g) = Bins(h) /\ g.end = h.end /\ g.size = h.size
            /\ g.head[p] = <<p + BIG_HDR>> \o h.head[p]
            /\ \A q \in Bins(h) : q # p => g.head[q] = h.head[q]
            /\ g.list = h.list /\ g.big = h.big \cup {p} /\ g.chain = h.chain
<1> DEFINE d == [h.head EXCEPT ![p] = <<p + BIG_HDR>> \o h.head[p]]
           k == h.big \cup {p}
           g == [h EXCEPT !.head = d, !.big = k]
<1>1. d \in [Bins(h) -> Seq(Nat)]
  <2>1. h.head \in [Bins(h) -> Seq(Nat)] /\ p + BIG_HDR \in Nat
    BY HeapFields, LayoutAssumption
  <2> QED BY <2>1, PushFacts
<1>2. /\ h \in HeapSet(Bins(h)) /\ k \in SUBSET Bins(h) /\ Bins(h) \subseteq Nat
      /\ d[p] = <<p + BIG_HDR>> \o h.head[p] /\ \A q \in Bins(h) : q # p => d[q] = h.head[q]
  BY HeapFields
<1> HIDE DEF d, k
<1>3. /\ g.end = h.end /\ g.size = h.size /\ g.head = d /\ g.list = h.list
      /\ g.big = k /\ g.chain = h.chain /\ g \in HeapSet(Bins(h))
  BY <1>1, <1>2 DEF HeapSet
<1>4. HeapType(g) /\ Bins(g) = Bins(h)
  BY <1>2, <1>3, HeapSetType
<1>5. FreeBig(h, p) = g
  BY DEF FreeBig, d, k
<1> HIDE DEF g
<1> QED
  BY <1>2, <1>3, <1>4, <1>5 DEF k

LEMMA FreeSmallFields ==
  ASSUME NEW h, HeapType(h), NEW p \in Bins(h), NEW b \in Buckets, b = h.size[p],
         NEW a \in Nat
  PROVE  LET g == FreeSmall(h, p, a)
         IN /\ HeapType(g) /\ Bins(g) = Bins(h) /\ g.end = h.end /\ g.size = h.size
            /\ g.head[p] = <<a>> \o h.head[p]
            /\ \A q \in Bins(h) : q # p => g.head[q] = h.head[q]
            /\ g.big = h.big /\ g.chain = h.chain
<1> DEFINE d == [h.head EXCEPT ![p] = <<a>> \o h.head[p]]
           l == IF h.head[p] = <<>> THEN [h.list EXCEPT ![b] = <<p>> \o h.list[b]] ELSE h.list
           g == [h EXCEPT !.head = d, !.list = l]
<1>1. d \in [Bins(h) -> Seq(Nat)]
  BY HeapFields, PushFacts
<1>2. l \in [Buckets -> Seq(Bins(h))]
  <2>1. <<p>> \o h.list[b] \in Seq(Bins(h))
    BY HeapFields, PushFacts
  <2> QED BY <2>1, HeapFields
<1>3. /\ h \in HeapSet(Bins(h)) /\ Bins(h) \subseteq Nat
      /\ d[p] = <<a>> \o h.head[p] /\ \A q \in Bins(h) : q # p => d[q] = h.head[q]
  BY HeapFields
<1> HIDE DEF d, l
<1>4. /\ g.end = h.end /\ g.size = h.size /\ g.head = d /\ g.list = l
      /\ g.big = h.big /\ g.chain = h.chain /\ g \in HeapSet(Bins(h))
  BY <1>1, <1>2, <1>3 DEF HeapSet
<1>5. HeapType(g) /\ Bins(g) = Bins(h)
  BY <1>3, <1>4, HeapSetType
<1>6. FreeSmall(h, p, a) = g
  BY DEF FreeSmall, d, l
<1> HIDE DEF g
<1> QED
  BY <1>3, <1>4, <1>5, <1>6

(* A bucket's list with the bin p linked in front. *)
Linked(list, b, p) == [list EXCEPT ![b] = <<p>> \o list[b]]

LEMMA FreeSmallLists ==
  ASSUME NEW h, HeapType(h), NEW p \in Bins(h), NEW a
  PROVE  /\ h.head[p] # <<>> => FreeSmall(h, p, a).list = h.list
         /\ h.head[p] = <<>> =>
              FreeSmall(h, p, a).list = Linked(h.list, h.size[p], p)
<1> DEFINE l == IF h.head[p] = <<>>
                THEN Linked(h.list, h.size[p], p)
                ELSE h.list
           d == [h.head EXCEPT ![p] = <<a>> \o h.head[p]]
<1>1. h \in HeapSet(Bins(h))
  BY HeapFields
<1>2. FreeSmall(h, p, a) = [h EXCEPT !.head = d, !.list = l]
  BY DEF FreeSmall, Linked
<1> HIDE DEF l, d
<1>3. FreeSmall(h, p, a).list = l
  BY <1>1, <1>2 DEF HeapSet
<1> QED
  BY <1>3 DEF l

LEMMA FaultedFields ==
  ASSUME NEW h, HeapType(h), NEW n \in Nat
  PROVE  LET r == Faulted(h, n)
             g == r.heap
         IN /\ r.ptr = NULL /\ r.hung = TRUE
            /\ HeapType(g) /\ Bins(g) = Bins(h) /\ g.end = h.end + n /\ g.size = h.size
            /\ g.head = h.head /\ g.list = h.list /\ g.big = h.big /\ g.chain = h.chain
<1> DEFINE e == h.end + n
           g == [h EXCEPT !.end = e]
<1>1. h \in HeapSet(Bins(h)) /\ e \in Nat /\ Bins(h) \subseteq Nat
  BY HeapFields
<1> HIDE DEF e
<1>2. /\ g.end = e /\ g.size = h.size /\ g.head = h.head /\ g.list = h.list
      /\ g.big = h.big /\ g.chain = h.chain /\ g \in HeapSet(Bins(h))
  BY <1>1 DEF HeapSet
<1>3. HeapType(g) /\ Bins(g) = Bins(h)
  BY <1>1, <1>2, HeapSetType
<1>4. Faulted(h, n).heap = g /\ Faulted(h, n).ptr = NULL /\ Faulted(h, n).hung = TRUE
  BY DEF Faulted, e
<1> HIDE DEF g
<1> QED
  BY <1>2, <1>3, <1>4 DEF e

-----------------------------------------------------------------------------
(* A new bin at the end of the heap, small or big. *)

LEMMA AddedBin ==
  ASSUME NEW h, NEW g, Sound(h), HeapType(g),
         NEW s \in Nat, NEW k \in Nat \ {0},
         Bins(g) = Bins(h) \cup {h.end}, g.size = With(h.size, h.end, s),
         g.end = h.end + k * PAGE_SIZE,
         \/ s \in Buckets /\ k = 1
         \/ s > NUM_BINS /\ s + BIG_HDR = k * PAGE_SIZE
  PROVE  /\ BinsOK(g) /\ h.end \notin Bins(h) /\ g.end > h.end
         /\ g.size[h.end] = s
         /\ \A p \in Bins(h) : /\ g.size[p] = h.size[p] /\ IsBig(g, p) = IsBig(h, p)
                                /\ Extent(g, p) = Extent(h, p)
         /\ SmallBins(g) = SmallBins(h) \cup (IF s \in Buckets THEN {h.end} ELSE {})
         /\ BigBins(g) = BigBins(h) \cup (IF s \in Buckets THEN {} ELSE {h.end})
<1> DEFINE x == h.end
<1>1. x \in Nat /\ x > 0 /\ Aligned(x) /\ Bins(h) \subseteq Nat
  BY HeapFields DEF Sound, BinsOK
<1>2. k * PAGE_SIZE \in Nat /\ k * PAGE_SIZE > 0
  BY LayoutAssumption
<1>3. \A p \in Bins(h) : p < x /\ p # x
  BY <1>1, BinFacts
<1>4. g.size[x] = s /\ \A p \in Bins(h) : g.size[p] = h.size[p]
  BY <1>3 DEF With, Bins
<1>5. \A p \in Bins(h) : IsBig(g, p) = IsBig(h, p) /\ Extent(g, p) = Extent(h, p)
  BY <1>4 DEF IsBig, Extent
<1>6. Aligned(g.end) /\ Aligned(k * PAGE_SIZE)
  <2>1. Aligned(0) /\ 0 + k * PAGE_SIZE = k * PAGE_SIZE
    BY LayoutAssumption, <1>2 DEF Aligned
  <2>2. Aligned(0 + k * PAGE_SIZE)
    BY <2>1, PageSum
  <2> QED BY <1>1, <2>1, <2>2, PageSum
<1>7. /\ Extent(g, x) = k * PAGE_SIZE
      /\ IF IsBig(g, x) THEN Aligned(g.size[x] + BIG_HDR) ELSE g.size[x] \in Buckets
      /\ IsBig(g, x) = (s \notin Buckets)
  <2>1. CASE s \in Buckets /\ k = 1
    <3>1. IsBig(g, x) = FALSE
      BY <1>4, <2>1, BucketType, LayoutAssumption DEF IsBig
    <3>2. k * PAGE_SIZE = PAGE_SIZE
      BY <2>1, LayoutAssumption
    <3> QED BY <1>4, <2>1, <3>1, <3>2 DEF Extent
  <2>2. CASE s > NUM_BINS /\ s + BIG_HDR = k * PAGE_SIZE
    <3>1. IsBig(g, x) /\ s \notin Buckets
      BY <1>4, <2>2, BucketType, LayoutAssumption DEF IsBig
    <3> QED BY <1>4, <1>6, <2>2, <3>1 DEF Extent
  <2> QED BY <2>1, <2>2
<1>8. x \notin Bins(h) /\ g.end > x
  BY <1>1, <1>2, <1>3
<1>9. BinsOK(g)
  <2>1. ASSUME NEW p \in Bins(h)
        PROVE  /\ p > 0 /\ Aligned(p) /\ p + Extent(g, p) <= x /\ p + Extent(g, p) <= g.end
               /\ IF IsBig(g, p) THEN Aligned(g.size[p] + BIG_HDR) ELSE g.size[p] \in Buckets
    <3>1. /\ p > 0 /\ Aligned(p) /\ p + Extent(h, p) <= x
          /\ IF IsBig(h, p) THEN Aligned(h.size[p] + BIG_HDR) ELSE h.size[p] \in Buckets
      BY DEF Sound, BinsOK
    <3>2. Extent(h, p) \in Nat /\ p \in Nat
      BY HeapFields, LayoutAssumption DEF Extent, Sound
    <3> QED BY <1>1, <1>2, <1>4, <1>5, <3>1, <3>2
  <2>2. \A p, q \in Bins(h) : p < q => p + Extent(h, p) <= q
    BY DEF Sound, BinsOK
  <2>3. ASSUME NEW p \in Bins(g), NEW q \in Bins(g), p < q
        PROVE  p + Extent(g, p) <= q
    BY <1>1, <1>3, <1>5, <2>1, <2>2, <2>3
  <2>4. \A p \in Bins(g) :
          /\ p > 0 /\ Aligned(p) /\ p + Extent(g, p) <= g.end
          /\ IF IsBig(g, p) THEN Aligned(g.size[p] + BIG_HDR) ELSE g.size[p] \in Buckets
    BY <1>1, <1>2, <1>7, <2>1
  <2> QED BY <1>6, <2>3, <2>4 DEF BinsOK
<1>10. /\ SmallBins(g) = SmallBins(h) \cup (IF s \in Buckets THEN {x} ELSE {})
       /\ BigBins(g) = BigBins(h) \cup (IF s \in Buckets THEN {} ELSE {x})
  BY <1>5, <1>7 DEF SmallBins, BigBins
<1> QED
  BY <1>4, <1>5, <1>8, <1>9, <1>10

(* From h to g no block has lost its header, and nothing handed out has    *)
(* become free: the callers keep what they hold.                           *)
Keeps(g, h) ==
  \A p \in Bins(h) :
    /\ p \in Bins(g) /\ g.size[p] = h.size[p]
    /\ Range(g.head[p]) \subseteq Range(h.head[p])
    /\ p \notin h.big => p \notin g.big

LEMMA LiveKept ==
  ASSUME NEW h, NEW g, NEW held, LiveOK(h, held), Keeps(g, h)
  PROVE  LiveOK(g, held)
<1>1. ASSUME NEW p \in Bins(h)
      PROVE  /\ p \in Bins(g) /\ IsBig(g, p) = IsBig(h, p) /\ Extent(g, p) = Extent(h, p)
             /\ CellsOf(g, p) = CellsOf(h, p) /\ g.size[p] = h.size[p]
  BY DEF Keeps, IsBig, Extent, CellsOf
<1>2. ASSUME NEW a \in DOMAIN held
      PROVE  held[a] > 0 /\ Owned(g, a, held[a]) /\ HeaderOf(a) \in Bins(h)
  <2>1. held[a] > 0 /\ Owned(h, a, held[a])
    BY DEF LiveOK
  <2>2. HeaderOf(a) \in Bins(h)
    BY <2>1 DEF Owned
  <2> QED BY <1>1, <2>1, <2>2 DEF Owned, Keeps
<1>3. ASSUME NEW a \in DOMAIN held, NEW c \in DOMAIN held,
             HeaderOf(a) = HeaderOf(c), IsBig(g, HeaderOf(a))
      PROVE  a = c
  BY <1>1, <1>2, <1>3 DEF LiveOK
<1> QED
  BY <1>2, <1>3 DEF LiveOK

LEMMA NewBinSound ==
  ASSUME NEW h, Sound(h), NEW b \in Buckets
  PROVE  LET g == NewBin(h, b)
         IN /\ Sound(g) /\ Keeps(g, h) /\ g.list[b] # <<>>
            /\ Bins(g) = Bins(h) \cup {h.end} /\ g.end > h.end
<1> DEFINE g == NewBin(h, b)
           x == h.end
<1>1. /\ HeapType(g) /\ Bins(g) = Bins(h) \cup {x}
      /\ g.end = x + PAGE_SIZE /\ g.size = With(h.size, x, b)
      /\ g.head = With(h.head, x, FullStack(x, b))
      /\ g.list = [h.list EXCEPT ![b] = <<x>> \o h.list[b]]
      /\ g.big = h.big
  BY NewBinFields DEF Sound
<1> HIDE DEF g
<1>2. HeapType(h) /\ x \in Nat /\ x > 0
  BY HeapFields DEF Sound
<1>3. /\ BinsOK(g) /\ x \notin Bins(h) /\ g.end > x /\ g.size[x] = b
      /\ \A p \in Bins(h) : /\ g.size[p] = h.size[p] /\ IsBig(g, p) = IsBig(h, p)
                             /\ Extent(g, p) = Extent(h, p)
      /\ SmallBins(g) = SmallBins(h) \cup {x} /\ BigBins(g) = BigBins(h)
  <2>1. b \in Nat /\ 1 \in Nat \ {0} /\ g.end = x + 1 * PAGE_SIZE
    BY <1>1, BucketType, LayoutAssumption
  <2>2. /\ BinsOK(g) /\ x \notin Bins(h) /\ g.end > x /\ g.size[x] = b
        /\ \A p \in Bins(h) : /\ g.size[p] = h.size[p] /\ IsBig(g, p) = IsBig(h, p)
                               /\ Extent(g, p) = Extent(h, p)
        /\ SmallBins(g) = SmallBins(h) \cup (IF b \in Buckets THEN {x} ELSE {})
        /\ BigBins(g) = BigBins(h) \cup (IF b \in Buckets THEN {} ELSE {x})
    BY <1>1, <1>2, <2>1, AddedBin
  <2> QED BY <2>2
<1>4. g.head[x] = FullStack(x, b) /\ \A p \in Bins(h) : g.head[p] = h.head[p]
  <2>1. DOMAIN h.head = Bins(h)
    BY <1>2, HeapFields
  <2> QED BY <1>1, <1>3, <2>1 DEF With
<1>5. StacksOK(g)
  <2>1. Range(g.head[x]) \subseteq CellsOf(g, x) /\ IsInjective(g.head[x])
    BY <1>2, <1>3, <1>4, FullStackFacts DEF CellsOf
  <2>2. ASSUME NEW p \in SmallBins(h)
        PROVE  Range(g.head[p]) \subseteq CellsOf(g, p) /\ IsInjective(g.head[p])
    BY <1>3, <1>4 DEF Sound, StacksOK, CellsOf, SmallBins
  <2>3. \A p \in BigBins(g) : g.head[p] = IF p \in g.big THEN <<p + BIG_HDR>> ELSE <<>>
    BY <1>1, <1>3, <1>4 DEF Sound, StacksOK, BigBins
  <2>4. g.big \subseteq BigBins(g)
    BY <1>1, <1>3 DEF Sound, StacksOK
  <2> QED BY <1>3, <2>1, <2>2, <2>3, <2>4 DEF StacksOK
<1>6. ListsOK(g)
  <2> SUFFICES ASSUME NEW c \in Buckets
               PROVE  /\ Range(g.list[c]) =
                            {p \in SmallBins(g) : g.size[p] = c /\ g.head[p] # <<>>}
                      /\ IsInjective(g.list[c])
    BY DEF ListsOK
  <2>1. /\ Range(h.list[c]) = {p \in SmallBins(h) : h.size[p] = c /\ h.head[p] # <<>>}
        /\ IsInjective(h.list[c]) /\ h.list[c] \in Seq(Bins(h))
    BY HeapFields DEF Sound, ListsOK
  <2>2. \A p \in SmallBins(h) : g.size[p] = h.size[p] /\ g.head[p] = h.head[p]
    BY <1>3, <1>4 DEF SmallBins
  <2>3. DOMAIN h.list = Buckets
    BY <1>2, HeapFields
  <2>4. CASE c = b
    <3>1. g.list[c] = <<x>> \o h.list[c]
      BY <1>1, <2>3, <2>4
    <3>2. x \notin Range(h.list[c])
      BY <1>3, <2>1 DEF SmallBins
    <3>3. h.list[c] \in Seq(Nat) /\ x \in Nat
      BY <2>1, <1>2, HeapFields, SeqMono
    <3>4. Range(g.list[c]) = {x} \cup Range(h.list[c]) /\ IsInjective(g.list[c])
      BY <2>1, <3>1, <3>2, <3>3, PushFacts
    <3>5. g.head[x] # <<>> /\ g.size[x] = c
      BY <1>2, <1>3, <1>4, <2>4, FullStackFacts
    <3> QED BY <1>3, <2>1, <2>2, <3>4, <3>5
  <2>5. CASE c # b
    <3>1. g.list[c] = h.list[c] /\ g.size[x] # c
      BY <1>1, <1>3, <2>3, <2>5
    <3> QED BY <1>3, <2>1, <2>2, <3>1
  <2> QED BY <2>4, <2>5
<1>7. Keeps(g, h)
  BY <1>1, <1>3, <1>4 DEF Keeps
<1>8. g.list[b] # <<>>
  <2>1. g.list[b] = <<x>> \o h.list[b] /\ h.list[b] \in Seq(Nat)
    BY <1>1, <1>2, HeapFields, SeqMono
  <2> QED BY <1>2, <2>1, PushFacts
<1>9. Sound(g)
  <2>1. g.end \in Nat /\ g.end > 0
    BY <1>1, <1>2, LayoutAssumption
  <2> QED BY <1>1, <1>3, <1>5, <1>6, <2>1 DEF Sound
<1> QED
  BY <1>1, <1>3, <1>7, <1>8, <1>9 DEF g

LEMMA GrowBigSound ==
  ASSUME NEW h, Sound(h), NEW n \in Nat
  PROVE  LET r == GrowBig(h, n)
             g == r.heap
             x == h.end
         IN /\ r.ptr = x + BIG_HDR /\ r.hung = FALSE
            /\ Sound(g) /\ Keeps(g, h)
            /\ x \notin Bins(h) /\ Bins(g) = Bins(h) \cup {x} /\ g.end > x
            /\ x \in BigBins(g) /\ x \notin g.big /\ n <= g.size[x]
<1> DEFINE r == GrowBig(h, n)
           g == r.heap
           x == h.end
           k == BigPages(n)
           s == k * PAGE_SIZE - BIG_HDR
<1>1. /\ HeapType(g) /\ Bins(g) = Bins(h) \cup {x}
      /\ r.ptr = x + BIG_HDR /\ r.hung = FALSE
      /\ g.end = x + k * PAGE_SIZE /\ g.size = With(h.size, x, s)
      /\ g.head = With(h.head, x, <<>>) /\ g.list = h.list /\ g.big = h.big
  BY GrowBigFields DEF Sound
<1> HIDE DEF g, r
<1>2. HeapType(h) /\ x \in Nat /\ x > 0
  BY HeapFields DEF Sound
<1>3. /\ k \in Nat \ {0} /\ s \in Nat /\ s > NUM_BINS /\ s + BIG_HDR = k * PAGE_SIZE
      /\ n <= s /\ s \notin Buckets
  <2>1. /\ k \in Nat \ {0} /\ k * PAGE_SIZE \in Nat /\ k * PAGE_SIZE >= PAGE_SIZE
        /\ n + BIG_HDR < k * PAGE_SIZE
    BY BigPagesFacts
  <2>2. s \in Nat /\ s > NUM_BINS /\ s + BIG_HDR = k * PAGE_SIZE /\ n <= s
    BY <2>1, LayoutAssumption
  <2>3. s \notin Buckets
    BY <2>2, BucketType, LayoutAssumption
  <2> QED BY <2>1, <2>2, <2>3
<1> HIDE DEF k, s
<1>4. /\ BinsOK(g) /\ x \notin Bins(h) /\ g.end > x /\ g.size[x] = s
      /\ \A p \in Bins(h) : /\ g.size[p] = h.size[p] /\ IsBig(g, p) = IsBig(h, p)
                             /\ Extent(g, p) = Extent(h, p)
      /\ SmallBins(g) = SmallBins(h) /\ BigBins(g) = BigBins(h) \cup {x}
  <2>1. /\ BinsOK(g) /\ x \notin Bins(h) /\ g.end > x /\ g.size[x] = s
        /\ \A p \in Bins(h) : /\ g.size[p] = h.size[p] /\ IsBig(g, p) = IsBig(h, p)
                               /\ Extent(g, p) = Extent(h, p)
        /\ SmallBins(g) = SmallBins(h) \cup (IF s \in Buckets THEN {x} ELSE {})
        /\ BigBins(g) = BigBins(h) \cup (IF s \in Buckets THEN {} ELSE {x})
    BY <1>1, <1>2, <1>3, AddedBin
  <2> QED BY <1>3, <2>1
<1>5. g.head[x] = <<>> /\ \A p \in Bins(h) : g.head[p] = h.head[p]
  <2>1. DOMAIN h.head = Bins(h)
    BY <1>2, HeapFields
  <2> QED BY <1>1, <1>4, <2>1 DEF With
<1>6. x \notin g.big
  BY <1>1, <1>2, <1>4, HeapFields
<1>7. StacksOK(g)
  <2>1. \A p \in SmallBins(g) : Range(g.head[p]) \subseteq CellsOf(g, p) /\ IsInjective(g.head[p])
    BY <1>4, <1>5 DEF Sound, StacksOK, CellsOf, SmallBins
  <2>2. \A p \in BigBins(g) : g.head[p] = IF p \in g.big THEN <<p + BIG_HDR>> ELSE <<>>
    BY <1>1, <1>4, <1>5, <1>6 DEF Sound, StacksOK, BigBins
  <2>3. g.big \subseteq BigBins(g)
    BY <1>1, <1>4 DEF Sound, StacksOK
  <2> QED BY <2>1, <2>2, <2>3 DEF StacksOK
<1>8. ListsOK(g)
  <2>1. \A p \in SmallBins(h) : g.size[p] = h.size[p] /\ g.head[p] = h.head[p]
    BY <1>4, <1>5 DEF SmallBins
  <2> QED BY <1>1, <1>4, <2>1 DEF Sound, ListsOK
<1>9. Keeps(g, h)
  BY <1>1, <1>4, <1>5 DEF Keeps
<1>10. Sound(g)
  BY <1>1, <1>2, <1>4, <1>7, <1>8, HeapFields DEF Sound
<1> QED
  BY <1>1, <1>3, <1>4, <1>6, <1>9, <1>10 DEF g, r

LEMMA FaultedSound ==
  ASSUME NEW h, Sound(h), NEW k \in Nat
  PROVE  LET r == Faulted(h, k * PAGE_SIZE)
             g == r.heap
         IN /\ r.ptr = NULL /\ r.hung = TRUE
            /\ Sound(g) /\ Keeps(g, h) /\ Bins(g) = Bins(h) /\ g.end >= h.end
<1> DEFINE r == Faulted(h, k * PAGE_SIZE)
           g == r.heap
<1>0. k * PAGE_SIZE \in Nat
  BY LayoutAssumption
<1>1. /\ r.ptr = NULL /\ r.hung = TRUE
      /\ HeapType(g) /\ Bins(g) = Bins(h) /\ g.end = h.end + k * PAGE_SIZE /\ g.size = h.size
      /\ g.head = h.head /\ g.list = h.list /\ g.big = h.big
  BY <1>0, FaultedFields DEF Sound
<1> HIDE DEF g, r
<1>2. HeapType(h) /\ h.end \in Nat /\ h.end > 0 /\ Aligned(h.end) /\ Bins(h) \subseteq Nat
  BY HeapFields DEF Sound, BinsOK
<1>3. g.end >= h.end /\ g.end > 0 /\ Aligned(g.end)
  BY <1>0, <1>1, <1>2, PageSum
<1>4. \A p \in Bins(h) : IsBig(g, p) = IsBig(h, p) /\ Extent(g, p) = Extent(h, p)
  BY <1>1 DEF IsBig, Extent
<1>5. /\ SmallBins(g) = SmallBins(h) /\ BigBins(g) = BigBins(h)
      /\ \A p \in Bins(h) : CellsOf(g, p) = CellsOf(h, p)
  BY <1>1, <1>4 DEF SmallBins, BigBins, CellsOf
<1>6. BinsOK(g)
  <2>1. ASSUME NEW p \in Bins(h)
        PROVE  p + Extent(h, p) <= g.end
    <3>1. p + Extent(h, p) <= h.end /\ Extent(h, p) \in Nat /\ p \in Nat
      BY <1>2, HeapFields, LayoutAssumption DEF Sound, BinsOK, Extent
    <3> QED BY <1>0, <1>1, <1>2, <3>1
  <2> QED BY <1>1, <1>3, <1>4, <2>1 DEF Sound, BinsOK
<1>7. StacksOK(g)
  BY <1>1, <1>5 DEF Sound, StacksOK, SmallBins
<1>8. ListsOK(g)
  BY <1>1, <1>5 DEF Sound, ListsOK
<1>9. Keeps(g, h)
  BY <1>1 DEF Keeps
<1> QED
  BY <1>1, <1>3, <1>6, <1>7, <1>8, <1>9 DEF Sound, g, r

-----------------------------------------------------------------------------
(* Taking a cell, and taking a big block. *)

LEMMA SameBins ==
  ASSUME NEW h, NEW g, Sound(h), HeapType(g),
         Bins(g) = Bins(h), g.end = h.end, g.size = h.size
  PROVE  /\ BinsOK(g) /\ SmallBins(g) = SmallBins(h) /\ BigBins(g) = BigBins(h)
         /\ \A p \in Bins(h) : /\ IsBig(g, p) = IsBig(h, p) /\ Extent(g, p) = Extent(h, p)
                                /\ CellsOf(g, p) = CellsOf(h, p)
<1>1. \A p \in Bins(h) : /\ IsBig(g, p) = IsBig(h, p) /\ Extent(g, p) = Extent(h, p)
                         /\ CellsOf(g, p) = CellsOf(h, p)
  BY DEF IsBig, Extent, CellsOf
<1>2. SmallBins(g) = SmallBins(h) /\ BigBins(g) = BigBins(h)
  BY <1>1 DEF SmallBins, BigBins
<1>3. BinsOK(g)
  BY <1>1 DEF Sound, BinsOK
<1> QED
  BY <1>1, <1>2, <1>3

(* What is in a small bin is traced back to it. *)
LEMMA CellTraced ==
  ASSUME NEW h, Sound(h), NEW p \in SmallBins(h), NEW a \in CellsOf(h, p)
  PROVE  HeaderOf(a) = p /\ PageOf(a) = p /\ a \in Nat /\ a > p
<1>1. p \in Nat /\ Aligned(p) /\ h.size[p] \in Buckets
  BY BinFacts DEF SmallBins
<1>2. PICK i \in 0..Cells(h.size[p])-1 : a = Cell(p, h.size[p], i)
  BY DEF CellsOf
<1>3. a \in Nat /\ p + HDR <= a
  BY <1>1, <1>2, CellInside
<1> QED
  BY <1>1, <1>2, <1>3, CellHeader, LayoutAssumption

LEMMA PopCellSound ==
  ASSUME NEW h, Sound(h), NEW b \in Buckets, h.list[b] # <<>>,
         NEW held, LiveOK(h, held), NEW n \in Nat, 0 < n, n <= CellSize(b)
  PROVE  LET r == PopCell(h, b)
             g == r.heap
         IN /\ Sound(g) /\ Bins(g) = Bins(h) /\ g.end = h.end
            /\ r.hung = FALSE /\ r.ptr \in Nat /\ r.ptr > 0 /\ r.ptr \notin DOMAIN held
            /\ LiveOK(g, With(held, r.ptr, n))
<1> DEFINE r == PopCell(h, b)
           g == r.heap
           p == Head(h.list[b])
           st == h.head[p]
<1>1. /\ HeapType(h) /\ h.list[b] \in Seq(Bins(h)) /\ IsInjective(h.list[b])
      /\ Range(h.list[b]) = {q \in SmallBins(h) : h.size[q] = b /\ h.head[q] # <<>>}
  BY HeapFields DEF Sound, ListsOK
<1>2. /\ p \in SmallBins(h) /\ p \in Bins(h) /\ p \notin BigBins(h)
      /\ h.size[p] = b /\ st # <<>>
  <2>1. p \in Range(h.list[b])
    BY <1>1, PopFacts
  <2> QED BY <1>1, <2>1 DEF SmallBins, BigBins
<1>3. /\ st \in Seq(Nat) /\ IsInjective(st) /\ Range(st) \subseteq CellsOf(h, p)
  BY <1>1, <1>2, HeapFields DEF Sound, StacksOK
<1>4. /\ Head(st) \in Range(st) /\ Range(Tail(st)) = Range(st) \ {Head(st)}
      /\ IsInjective(Tail(st)) /\ Tail(st) \in Seq(Nat)
  BY <1>2, <1>3, PopFacts
<1>5. /\ r.ptr = Head(st) /\ r.hung = FALSE
      /\ HeapType(g) /\ Bins(g) = Bins(h) /\ g.end = h.end /\ g.size = h.size
      /\ g.head[p] = Tail(st) /\ \A q \in Bins(h) : q # p => g.head[q] = h.head[q]
      /\ g.list[b] = IF Tail(st) = <<>> THEN Tail(h.list[b]) ELSE h.list[b]
      /\ \A c \in Buckets : c # b => g.list[c] = h.list[c]
      /\ g.big = h.big
  BY <1>1, <1>2, PopCellFields, ZenonT(40)
<1> HIDE DEF r, g, p
<1>6. g.head[p] = Tail(st) /\ \A q \in Bins(h) : q # p => g.head[q] = h.head[q]
  BY <1>1, <1>2, <1>5, HeapFields
<1>7. /\ BinsOK(g) /\ SmallBins(g) = SmallBins(h) /\ BigBins(g) = BigBins(h)
      /\ \A q \in Bins(h) : CellsOf(g, q) = CellsOf(h, q) /\ IsBig(g, q) = IsBig(h, q)
  BY <1>1, <1>5, SameBins
<1>8. StacksOK(g)
  <2>1. \A q \in SmallBins(g) : Range(g.head[q]) \subseteq CellsOf(g, q) /\ IsInjective(g.head[q])
    BY <1>2, <1>3, <1>4, <1>6, <1>7 DEF Sound, StacksOK, SmallBins
  <2>2. \A q \in BigBins(g) : g.head[q] = IF q \in g.big THEN <<q + BIG_HDR>> ELSE <<>>
    BY <1>2, <1>5, <1>6, <1>7 DEF Sound, StacksOK, BigBins
  <2>3. g.big \subseteq BigBins(g)
    BY <1>5, <1>7 DEF Sound, StacksOK
  <2> QED BY <2>1, <2>2, <2>3 DEF StacksOK
<1>9. ListsOK(g)
  <2> SUFFICES ASSUME NEW c \in Buckets
               PROVE  /\ Range(g.list[c]) =
                            {q \in SmallBins(g) : g.size[q] = c /\ g.head[q] # <<>>}
                      /\ IsInjective(g.list[c])
    BY DEF ListsOK
  <2>1. /\ Range(h.list[c]) = {q \in SmallBins(h) : h.size[q] = c /\ h.head[q] # <<>>}
        /\ IsInjective(h.list[c]) /\ DOMAIN h.list = Buckets
    BY <1>1, HeapFields DEF Sound, ListsOK
  <2>2. CASE c = b /\ Tail(st) = <<>>
    <3>1. g.list[c] = Tail(h.list[b])
      BY <1>5, <2>1, <2>2
    <3>2. Range(g.list[c]) = Range(h.list[b]) \ {p} /\ IsInjective(g.list[c])
      BY <1>1, <3>1, PopFacts DEF p
    <3>3. {q \in SmallBins(g) : g.size[q] = c /\ g.head[q] # <<>>} =
            {q \in SmallBins(h) : h.size[q] = c /\ h.head[q] # <<>>} \ {p}
      BY <1>2, <1>5, <1>6, <1>7, <2>2 DEF SmallBins
    <3> QED BY <1>1, <2>2, <3>2, <3>3
  <2>3. CASE ~(c = b /\ Tail(st) = <<>>)
    <3>1. g.list[c] = h.list[c]
      BY <1>5, <2>1, <2>3
    <3>2. {q \in SmallBins(g) : g.size[q] = c /\ g.head[q] # <<>>} =
            {q \in SmallBins(h) : h.size[q] = c /\ h.head[q] # <<>>}
      BY <1>2, <1>5, <1>6, <1>7, <2>3 DEF SmallBins
    <3> QED BY <2>1, <3>1, <3>2
  <2> QED BY <2>2, <2>3
<1>10. Sound(g)
  BY <1>5, <1>7, <1>8, <1>9 DEF Sound
<1>11. Keeps(g, h)
  BY <1>2, <1>4, <1>5, <1>6 DEF Keeps
<1>12. LiveOK(g, held)
  BY <1>11, LiveKept
<1>13. /\ r.ptr \in CellsOf(g, p) \ Range(g.head[p]) /\ HeaderOf(r.ptr) = p
       /\ r.ptr \in Nat /\ r.ptr > 0
  <2>1. r.ptr \in CellsOf(h, p)
    BY <1>3, <1>4, <1>5
  <2>2. HeaderOf(r.ptr) = p /\ r.ptr \in Nat /\ r.ptr > p /\ p \in Nat
    BY <1>2, <2>1, CellTraced, BinFacts
  <2> QED BY <1>2, <1>4, <1>5, <1>6, <1>7, <2>1, <2>2
<1>14. r.ptr \notin DOMAIN held
  <2> SUFFICES ASSUME r.ptr \in DOMAIN held PROVE FALSE
    OBVIOUS
  <2>1. Owned(h, r.ptr, held[r.ptr])
    BY DEF LiveOK
  <2>2. r.ptr \notin Range(h.head[p])
    BY <1>2, <1>13, <2>1 DEF Owned, SmallBins
  <2> QED BY <1>4, <1>5, <2>2
<1>15. Owned(g, r.ptr, n) /\ ~IsBig(g, p)
  BY <1>2, <1>5, <1>7, <1>13 DEF Owned, SmallBins
<1>16. LiveOK(g, With(held, r.ptr, n))
  BY <1>12, <1>13, <1>14, <1>15 DEF LiveOK, With
<1> QED
  BY <1>5, <1>10, <1>13, <1>14, <1>16 DEF r, g

(* The big block p is not in the pool and nobody holds it. *)
Detached(h, held, p) ==
  /\ p \in BigBins(h) /\ p \notin h.big
  /\ \A a \in DOMAIN held : HeaderOf(a) # p

LEMMA TakeBigSound ==
  ASSUME NEW h, Sound(h), NEW held, LiveOK(h, held), NEW p \in h.big
  PROVE  LET r == TakeBig(h, p)
             g == r.heap
         IN /\ r.ptr = p + BIG_HDR /\ r.hung = FALSE
            /\ Sound(g) /\ Bins(g) = Bins(h) /\ g.end = h.end /\ g.size = h.size
            /\ LiveOK(g, held) /\ Detached(g, held, p)
<1> DEFINE r == TakeBig(h, p)
           g == r.heap
<1>1. /\ p \in BigBins(h) /\ p \in Bins(h) /\ p \notin SmallBins(h)
      /\ h.head[p] = <<p + BIG_HDR>> /\ HeapType(h) /\ p \in Nat
  BY BinFacts DEF Sound, StacksOK, BigBins, SmallBins
<1>2. r.ptr = p + BIG_HDR
  BY <1>1, TakeBigFields, ZenonT(40)
<1>3. r.hung = FALSE
  BY <1>1, TakeBigFields, ZenonT(40)
<1>4. /\ HeapType(g) /\ Bins(g) = Bins(h) /\ g.end = h.end /\ g.size = h.size
      /\ g.list = h.list /\ g.big = h.big \ {p}
  BY <1>1, TakeBigFields
<1>5. g.head[p] = <<>> /\ \A q \in Bins(h) : q # p => g.head[q] = h.head[q]
  <2>1. g.head[p] = <<>>
    BY <1>1, TakeBigFields
  <2>2. \A q \in Bins(h) : q # p => g.head[q] = h.head[q]
    BY <1>1, TakeBigFields, Zenon
  <2> QED BY <2>1, <2>2
<1> HIDE DEF r, g
<1>6. /\ BinsOK(g) /\ SmallBins(g) = SmallBins(h) /\ BigBins(g) = BigBins(h)
      /\ \A q \in Bins(h) : CellsOf(g, q) = CellsOf(h, q) /\ IsBig(g, q) = IsBig(h, q)
  BY <1>1, <1>4, SameBins
<1>7. StacksOK(g)
  <2>1. \A q \in SmallBins(g) : Range(g.head[q]) \subseteq CellsOf(g, q) /\ IsInjective(g.head[q])
    BY <1>1, <1>5, <1>6 DEF Sound, StacksOK, SmallBins
  <2>2. \A q \in BigBins(g) : g.head[q] = IF q \in g.big THEN <<q + BIG_HDR>> ELSE <<>>
    BY <1>4, <1>5, <1>6 DEF Sound, StacksOK, BigBins
  <2>3. g.big \subseteq BigBins(g)
    BY <1>4, <1>6 DEF Sound, StacksOK
  <2> QED BY <2>1, <2>2, <2>3 DEF StacksOK
<1>8. ListsOK(g)
  <2>1. \A q \in SmallBins(h) : g.size[q] = h.size[q] /\ g.head[q] = h.head[q]
    BY <1>1, <1>4, <1>5 DEF SmallBins
  <2> QED BY <1>4, <1>6, <2>1 DEF Sound, ListsOK
<1>9. Keeps(g, h)
  <2>1. Range(<<>>) = {}
    BY DEF Range
  <2> QED BY <1>4, <1>5, <2>1 DEF Keeps
<1>10. \A a \in DOMAIN held : HeaderOf(a) # p
  BY <1>1 DEF LiveOK, Owned, BigBins
<1>11. Sound(g)
  BY <1>4, <1>6, <1>7, <1>8 DEF Sound
<1>12. LiveOK(g, held) /\ Detached(g, held, p)
  BY <1>1, <1>4, <1>6, <1>9, <1>10, LiveKept DEF Detached
<1> QED
  BY <1>2, <1>3, <1>4, <1>11, <1>12 DEF r, g

(* A detached block may be given to a caller, at either of the addresses   *)
(* that malloc and valloc return, if what was asked for fits behind it.    *)
LEMMA HoldBig ==
  ASSUME NEW g, Sound(g), NEW held, LiveOK(g, held), NEW p, Detached(g, held, p),
         NEW x \in {p + BIG_HDR, p + PAGE_SIZE}, NEW n \in Nat, n > 0,
         x + n <= p + Extent(g, p)
  PROVE  /\ x \in Nat /\ x > 0 /\ x \notin DOMAIN held
         /\ LiveOK(g, With(held, x, n))
<1>1. p \in Bins(g) /\ p \in Nat /\ Aligned(p) /\ IsBig(g, p) /\ p \notin g.big
  BY BinFacts DEF Detached, BigBins
<1>2. PICK o \in 1..PAGE_SIZE : x = p + o
  <2>1. BIG_HDR \in 1..PAGE_SIZE /\ PAGE_SIZE \in 1..PAGE_SIZE
    BY LayoutAssumption
  <2> QED BY <2>1
<1>3. HeaderOf(x) = p /\ x \in Nat /\ x > 0
  BY <1>1, <1>2, HeaderOfInside, LayoutAssumption
<1>4. x \notin DOMAIN held
  BY <1>3 DEF Detached
<1>5. Owned(g, x, n)
  BY <1>1, <1>3 DEF Owned
<1>6. LiveOK(g, With(held, x, n))
  BY <1>3, <1>4, <1>5 DEF LiveOK, With, Detached
<1> QED
  BY <1>3, <1>4, <1>6

-----------------------------------------------------------------------------
(* klmalloc. *)

(* From h to g the heap has grown at its end, if at all. *)
GrownOnly(g, h) ==
  /\ Sound(g) /\ g.end >= h.end
  /\ \A p \in Bins(g) : p \in Bins(h) \/ p >= h.end

LEMMA MallocBigSound ==
  ASSUME NEW h, Sound(h), NEW held, LiveOK(h, held), NEW n \in Nat,
         NEW r \in MallocBig(h, n)
  PROVE  /\ r.hung \in BOOLEAN /\ GrownOnly(r.heap, h) /\ LiveOK(r.heap, held)
         /\ r.hung => r.ptr = NULL
         /\ ~r.hung => \E p : /\ Detached(r.heap, held, p) /\ n <= r.heap.size[p]
                              /\ r.ptr = p + BIG_HDR
<1> DEFINE g == r.heap
<1>0. h.end \in Nat /\ Bins(h) \subseteq Nat /\ HeapType(h)
  BY HeapFields DEF Sound
<1>1. CASE \E p \in BestFits(h.big, h.size, n) : r = TakeBig(h, p)
  <2>1. PICK p \in h.big : r = TakeBig(h, p) /\ h.size[p] >= n
    BY <1>1 DEF BestFits
  <2>2. /\ r.ptr = p + BIG_HDR /\ r.hung = FALSE
        /\ Sound(g) /\ Bins(g) = Bins(h) /\ g.end = h.end /\ g.size = h.size
        /\ LiveOK(g, held) /\ Detached(g, held, p)
    BY <2>1, TakeBigSound
  <2>3. n <= g.size[p]
    <3>1. h.size[p] \in Nat
      BY <1>0, HeapFields
    <3> QED BY <2>1, <2>2, <3>1
  <2>4. GrownOnly(g, h)
    BY <1>0, <2>2 DEF GrownOnly
  <2> QED BY <2>2, <2>3, <2>4
<1>2. CASE r = GrowBig(h, n)
  <2>1. /\ r.ptr = h.end + BIG_HDR /\ r.hung = FALSE
        /\ Sound(g) /\ Keeps(g, h) /\ h.end \notin Bins(h)
        /\ Bins(g) = Bins(h) \cup {h.end} /\ g.end > h.end
        /\ h.end \in BigBins(g) /\ h.end \notin g.big /\ n <= g.size[h.end]
    BY <1>2, GrowBigSound
  <2>2. g.end \in Nat
    BY <2>1, HeapFields DEF Sound
  <2>3. GrownOnly(g, h)
    BY <1>0, <2>1, <2>2 DEF GrownOnly
  <2>4. LiveOK(g, held)
    BY <2>1, LiveKept
  <2>5. Detached(g, held, h.end)
    BY <2>1 DEF Detached, LiveOK, Owned
  <2> QED BY <2>1, <2>3, <2>4, <2>5
<1>3. CASE r = Faulted(h, BigPages(n) * PAGE_SIZE)
  <2>1. /\ r.ptr = NULL /\ r.hung = TRUE
        /\ Sound(g) /\ Keeps(g, h) /\ Bins(g) = Bins(h) /\ g.end >= h.end
    BY <1>3, BigPagesFacts, FaultedSound
  <2>2. GrownOnly(g, h) /\ LiveOK(g, held)
    BY <2>1, LiveKept DEF GrownOnly
  <2> QED BY <2>1, <2>2
<1> QED
  BY <1>1, <1>2, <1>3 DEF MallocBig

LEMMA MallocSmallSound ==
  ASSUME NEW h, Sound(h), NEW held, LiveOK(h, held), NEW b \in Buckets,
         NEW n \in Nat, 0 < n, n <= CellSize(b)
  PROVE  LET r == MallocSmall(h, b)
         IN /\ r.hung \in BOOLEAN /\ GrownOnly(r.heap, h)
            /\ r.hung => r.ptr = NULL /\ LiveOK(r.heap, held)
            /\ ~r.hung => /\ r.ptr \in Nat /\ r.ptr > 0 /\ r.ptr \notin DOMAIN held
                          /\ LiveOK(r.heap, With(held, r.ptr, n))
<1> DEFINE r == MallocSmall(h, b)
<1>0. h.end \in Nat
  BY HeapFields DEF Sound
<1>1. CASE h.list[b] # <<>>
  <2>1. r = PopCell(h, b)
    BY <1>1 DEF MallocSmall
  <2> HIDE DEF r
  <2>2. /\ Sound(r.heap) /\ Bins(r.heap) = Bins(h) /\ r.heap.end = h.end
        /\ r.hung = FALSE /\ r.ptr \in Nat /\ r.ptr > 0 /\ r.ptr \notin DOMAIN held
        /\ LiveOK(r.heap, With(held, r.ptr, n))
    BY <1>1, <2>1, PopCellSound
  <2>3. GrownOnly(r.heap, h)
    BY <1>0, <2>2 DEF GrownOnly
  <2> QED BY <2>2, <2>3 DEF r
<1>2. CASE h.list[b] = <<>> /\ CanGrow(h, PAGE_SIZE)
  <2> DEFINE g == NewBin(h, b)
  <2>1. r = PopCell(g, b)
    BY <1>2 DEF MallocSmall
  <2>2. /\ Sound(g) /\ Keeps(g, h) /\ g.list[b] # <<>>
        /\ Bins(g) = Bins(h) \cup {h.end} /\ g.end > h.end
    BY NewBinSound
  <2> HIDE DEF r, g
  <2>3. LiveOK(g, held)
    BY <2>2, LiveKept
  <2>4. /\ Sound(r.heap) /\ Bins(r.heap) = Bins(g) /\ r.heap.end = g.end
        /\ r.hung = FALSE /\ r.ptr \in Nat /\ r.ptr > 0 /\ r.ptr \notin DOMAIN held
        /\ LiveOK(r.heap, With(held, r.ptr, n))
    BY <2>1, <2>2, <2>3, PopCellSound
  <2>5. GrownOnly(r.heap, h)
    <3>1. g.end \in Nat
      BY <2>2, HeapFields DEF Sound
    <3> QED BY <1>0, <2>2, <2>4, <3>1 DEF GrownOnly
  <2> QED BY <2>4, <2>5 DEF r
<1>3. CASE h.list[b] = <<>> /\ ~CanGrow(h, PAGE_SIZE)
  <2>1. r = Faulted(h, 1 * PAGE_SIZE)
    <3>1. 1 * PAGE_SIZE = PAGE_SIZE
      BY LayoutAssumption
    <3> QED BY <1>3, <3>1 DEF MallocSmall
  <2> HIDE DEF r
  <2>2. /\ r.ptr = NULL /\ r.hung = TRUE
        /\ Sound(r.heap) /\ Keeps(r.heap, h) /\ Bins(r.heap) = Bins(h) /\ r.heap.end >= h.end
    BY <2>1, FaultedSound
  <2>3. GrownOnly(r.heap, h) /\ LiveOK(r.heap, held)
    BY <2>2, LiveKept DEF GrownOnly
  <2> QED BY <2>2, <2>3 DEF r
<1> QED
  BY <1>1, <1>2, <1>3

-----------------------------------------------------------------------------
(* klfree. *)

LEMMA FreeBigSound ==
  ASSUME NEW h, Sound(h), NEW held, LiveOK(h, held), NEW a \in DOMAIN held,
         NEW p, p = HeaderOf(a), IsBig(h, p) = TRUE
  PROVE  LET g == FreeBig(h, p)
         IN /\ Sound(g) /\ Bins(g) = Bins(h) /\ g.end = h.end
            /\ LiveOK(g, Without(held, a))
<1> DEFINE g == FreeBig(h, p)
<1>1. /\ p \in BigBins(h) /\ p \in Bins(h) /\ p \notin SmallBins(h) /\ p \notin h.big
      /\ HeapType(h) /\ h.head[p] = <<>>
  <2>1. Owned(h, a, held[a])
    BY DEF LiveOK
  <2>2. p \in Bins(h) /\ p \notin h.big
    BY <2>1 DEF Owned
  <2> QED BY <2>2 DEF Sound, StacksOK, SmallBins, BigBins
<1>2. <<p + BIG_HDR>> \o h.head[p] = <<p + BIG_HDR>>
  BY <1>1
<1>3. /\ HeapType(g) /\ Bins(g) = Bins(h) /\ g.end = h.end /\ g.size = h.size
      /\ g.list = h.list /\ g.big = h.big \cup {p}
  BY <1>1, FreeBigFields
<1>4. /\ g.head[p] = <<p + BIG_HDR>>
      /\ \A q \in Bins(h) : q # p => g.head[q] = h.head[q]
  <2>1. g.head[p] = <<p + BIG_HDR>> \o h.head[p]
    BY <1>1, FreeBigFields, ZenonT(40)
  <2>2. \A q \in Bins(h) : q # p => g.head[q] = h.head[q]
    BY <1>1, FreeBigFields
  <2> QED BY <1>2, <2>1, <2>2
<1> HIDE DEF g
<1>5. /\ BinsOK(g) /\ SmallBins(g) = SmallBins(h) /\ BigBins(g) = BigBins(h)
      /\ \A q \in Bins(h) : /\ CellsOf(g, q) = CellsOf(h, q) /\ IsBig(g, q) = IsBig(h, q)
                             /\ Extent(g, q) = Extent(h, q)
  BY <1>1, <1>3, SameBins
<1>6. StacksOK(g)
  <2>1. \A q \in SmallBins(g) : Range(g.head[q]) \subseteq CellsOf(g, q) /\ IsInjective(g.head[q])
    BY <1>1, <1>4, <1>5 DEF Sound, StacksOK, SmallBins
  <2>2. \A q \in BigBins(g) : g.head[q] = IF q \in g.big THEN <<q + BIG_HDR>> ELSE <<>>
    BY <1>3, <1>4, <1>5 DEF Sound, StacksOK, BigBins
  <2>3. g.big \subseteq BigBins(g)
    BY <1>1, <1>3, <1>5 DEF Sound, StacksOK
  <2> QED BY <2>1, <2>2, <2>3 DEF StacksOK
<1>7. ListsOK(g)
  <2>1. \A q \in SmallBins(h) : g.size[q] = h.size[q] /\ g.head[q] = h.head[q]
    BY <1>1, <1>3, <1>4 DEF SmallBins
  <2> QED BY <1>3, <1>5, <2>1 DEF Sound, ListsOK
<1>8. Sound(g)
  BY <1>3, <1>5, <1>6, <1>7 DEF Sound
<1>9. ASSUME NEW c \in DOMAIN held, c # a
      PROVE  held[c] > 0 /\ Owned(g, c, held[c]) /\ HeaderOf(c) \in Bins(h)
  <2>1. held[c] > 0 /\ Owned(h, c, held[c]) /\ HeaderOf(c) # p
    BY <1>9 DEF LiveOK
  <2> QED BY <1>3, <1>4, <1>5, <2>1 DEF Owned
<1>10. LiveOK(g, Without(held, a))
  BY <1>5, <1>9 DEF LiveOK, Without
<1> QED
  BY <1>3, <1>8, <1>10 DEF g

LEMMA FreeSmallSound ==
  ASSUME NEW h, Sound(h), NEW held, LiveOK(h, held), NEW a \in DOMAIN held,
         NEW p, p = HeaderOf(a), IsBig(h, p) = FALSE
  PROVE  LET g == FreeSmall(h, p, a)
         IN /\ Sound(g) /\ Bins(g) = Bins(h) /\ g.end = h.end
            /\ LiveOK(g, Without(held, a))
<1> DEFINE g == FreeSmall(h, p, a)
           b == h.size[p]
           st == h.head[p]
<1>1. /\ p \in SmallBins(h) /\ p \in Bins(h) /\ p \notin BigBins(h)
      /\ a \in CellsOf(h, p) /\ a \notin Range(st)
  <2>1. Owned(h, a, held[a])
    BY DEF LiveOK
  <2> QED BY <2>1 DEF Owned, SmallBins, BigBins
<1>2. /\ HeapType(h) /\ b \in Buckets /\ a \in Nat /\ p \in Nat
      /\ st \in Seq(Nat) /\ Range(st) \subseteq CellsOf(h, p) /\ IsInjective(st)
  BY <1>1, BinFacts, CellTraced, HeapFields DEF Sound, StacksOK
<1>3. /\ <<a>> \o st \in Seq(Nat) /\ <<a>> \o st # <<>>
      /\ Range(<<a>> \o st) = {a} \cup Range(st) /\ IsInjective(<<a>> \o st)
  BY <1>1, <1>2, PushFacts
<1>args. HeapType(h) /\ p \in Bins(h) /\ b \in Buckets /\ b = h.size[p] /\ a \in Nat
  BY <1>1, <1>2
<1>4. /\ HeapType(g) /\ Bins(g) = Bins(h) /\ g.end = h.end /\ g.size = h.size
      /\ g.big = h.big
  BY ONLY <1>args, FreeSmallFields
<1>5. /\ g.head[p] = <<a>> \o st
      /\ \A q \in Bins(h) : q # p => g.head[q] = h.head[q]
  <2>1. g.head[p] = <<a>> \o st
    BY ONLY <1>args, FreeSmallFields
  <2>2. \A q \in Bins(h) : q # p => g.head[q] = h.head[q]
    BY ONLY <1>args, FreeSmallFields
  <2> QED BY <2>1, <2>2
<1>6. /\ st = <<>> => g.list[b] = <<p>> \o h.list[b]
      /\ st # <<>> => g.list[b] = h.list[b]
      /\ \A c \in Buckets : c # b => g.list[c] = h.list[c]
  <2>1. /\ st # <<>> => g.list = h.list
        /\ st = <<>> => g.list = Linked(h.list, b, p)
    BY ONLY <1>args, FreeSmallLists
  <2>2. DOMAIN h.list = Buckets
    BY <1>2, HeapFields
  <2> HIDE DEF g
  <2> QED BY <1>args, <2>1, <2>2 DEF Linked
<1> DEFINE push == <<a>> \o st
<1> HIDE DEF g, push
<1>7. /\ BinsOK(g) /\ SmallBins(g) = SmallBins(h) /\ BigBins(g) = BigBins(h)
      /\ \A q \in Bins(h) : /\ CellsOf(g, q) = CellsOf(h, q) /\ IsBig(g, q) = IsBig(h, q)
                             /\ Extent(g, q) = Extent(h, q)
  BY <1>2, <1>4, SameBins
<1>8. StacksOK(g)
  <2>1. \A q \in SmallBins(g) : Range(g.head[q]) \subseteq CellsOf(g, q) /\ IsInjective(g.head[q])
    BY <1>1, <1>2, <1>3, <1>5, <1>7 DEF Sound, StacksOK, SmallBins
  <2>2. \A q \in BigBins(g) : g.head[q] = IF q \in g.big THEN <<q + BIG_HDR>> ELSE <<>>
    BY <1>1, <1>4, <1>5, <1>7 DEF Sound, StacksOK, BigBins
  <2>3. g.big \subseteq BigBins(g)
    BY <1>4, <1>7 DEF Sound, StacksOK
  <2> QED BY <2>1, <2>2, <2>3 DEF StacksOK
<1>9. ListsOK(g)
  <2> SUFFICES ASSUME NEW c \in Buckets
               PROVE  /\ Range(g.list[c]) =
                            {q \in SmallBins(g) : g.size[q] = c /\ g.head[q] # <<>>}
                      /\ IsInjective(g.list[c])
    BY DEF ListsOK
  <2>1. /\ Range(h.list[c]) = {q \in SmallBins(h) : h.size[q] = c /\ h.head[q] # <<>>}
        /\ IsInjective(h.list[c]) /\ h.list[c] \in Seq(Bins(h))
    BY <1>2, HeapFields DEF Sound, ListsOK
  <2>2. g.head[p] # <<>> /\ g.size[p] = b
    BY <1>3, <1>4, <1>5
  <2>3. CASE c = b /\ st = <<>>
    <3>1. g.list[c] = <<p>> \o h.list[c]
      BY <1>6, <2>3
    <3>2. p \notin Range(h.list[c])
      BY <2>1, <2>3
    <3>3. Range(g.list[c]) = {p} \cup Range(h.list[c]) /\ IsInjective(g.list[c])
      BY <1>1, <2>1, <3>1, <3>2, PushFacts
    <3>4. {q \in SmallBins(g) : g.size[q] = c /\ g.head[q] # <<>>} =
            {p} \cup {q \in SmallBins(h) : h.size[q] = c /\ h.head[q] # <<>>}
      BY <1>1, <1>4, <1>5, <1>7, <2>2, <2>3 DEF SmallBins
    <3> QED BY <2>1, <3>3, <3>4
  <2>4. CASE ~(c = b /\ st = <<>>)
    <3>1. g.list[c] = h.list[c]
      BY <1>6, <2>4
    <3>2. {q \in SmallBins(g) : g.size[q] = c /\ g.head[q] # <<>>} =
            {q \in SmallBins(h) : h.size[q] = c /\ h.head[q] # <<>>}
      BY <1>1, <1>4, <1>5, <1>7, <2>2, <2>4 DEF SmallBins
    <3> QED BY <2>1, <3>1, <3>2
  <2> QED BY <2>3, <2>4
<1>10. Sound(g)
  BY <1>4, <1>7, <1>8, <1>9 DEF Sound
<1>11. ASSUME NEW c \in DOMAIN held, c # a
       PROVE  held[c] > 0 /\ Owned(g, c, held[c]) /\ HeaderOf(c) \in Bins(h)
  <2>1. held[c] > 0 /\ Owned(h, c, held[c])
    BY <1>11 DEF LiveOK
  <2>2. HeaderOf(c) \in Bins(h)
    BY <2>1 DEF Owned
  <2>3. CASE HeaderOf(c) = p
    <3>1. c \notin Range(g.head[p])
      BY <1>1, <1>3, <1>5, <1>11, <2>1, <2>3 DEF Owned, SmallBins
    <3> QED BY <1>4, <1>7, <2>1, <2>2, <2>3, <3>1 DEF Owned, SmallBins
  <2>4. CASE HeaderOf(c) # p
    BY <1>4, <1>5, <1>7, <2>1, <2>2, <2>4 DEF Owned
  <2> QED BY <2>3, <2>4
<1>12. LiveOK(g, Without(held, a))
  BY <1>7, <1>11 DEF LiveOK, Without
<1> QED
  BY <1>4, <1>10, <1>12 DEF g

(* What is held lies behind the header it is traced to, inside the block. *)
LEMMA LiveFacts ==
  ASSUME NEW h, Sound(h), NEW held, LiveOK(h, held), held \in [DOMAIN held -> Nat],
         NEW a \in DOMAIN held, NEW p, p = HeaderOf(a)
  PROVE  /\ p \in Bins(h) /\ p \in Nat /\ a \in Nat /\ a > p /\ held[a] > 0
         /\ a + held[a] <= p + Extent(h, p) /\ a + held[a] <= h.end
<1>1. Owned(h, a, held[a]) /\ held[a] > 0 /\ held[a] \in Nat
  BY DEF LiveOK
<1>2. p \in Bins(h)
  BY <1>1 DEF Owned
<1>3. /\ p \in Nat /\ p + Extent(h, p) <= h.end /\ h.end \in Nat /\ h.size[p] \in Nat
      /\ p \in SmallBins(h) => h.size[p] \in Buckets /\ Extent(h, p) = PAGE_SIZE
  BY <1>2, BinFacts, HeapFields DEF Sound
<1>4. Extent(h, p) \in Nat
  BY <1>3, LayoutAssumption DEF Extent
<1>5. a \in Nat /\ a > p /\ a + held[a] <= p + Extent(h, p)
  <2>1. CASE IsBig(h, p)
    <3>1. a \in {p + BIG_HDR, p + PAGE_SIZE} /\ a + held[a] <= p + Extent(h, p)
      BY <1>1, <2>1 DEF Owned
    <3> QED BY <1>3, <3>1, LayoutAssumption
  <2>2. CASE ~IsBig(h, p)
    <3>1. p \in SmallBins(h) /\ a \in CellsOf(h, p) /\ held[a] <= CellSize(h.size[p])
      BY <1>1, <1>2, <2>2 DEF Owned, SmallBins
    <3>2. PICK i \in 0..Cells(h.size[p])-1 : a = Cell(p, h.size[p], i)
      BY <3>1 DEF CellsOf
    <3>3. /\ a \in Nat /\ p + HDR <= a /\ a + CellSize(h.size[p]) <= p + PAGE_SIZE
          /\ CellSize(h.size[p]) \in Nat
      BY <1>3, <3>1, <3>2, CellInside, BucketType
    <3> QED BY <1>1, <1>3, <3>1, <3>3, LayoutAssumption
  <2> QED BY <2>1, <2>2
<1> QED
  BY <1>1, <1>2, <1>3, <1>4, <1>5

LEMMA FreeSound ==
  ASSUME NEW h, Sound(h), NEW held, LiveOK(h, held), held \in [DOMAIN held -> Nat],
         NEW a \in DOMAIN held
  PROVE  LET g == klfree(h, a)
         IN /\ Sound(g) /\ Bins(g) = Bins(h) /\ g.end = h.end
            /\ LiveOK(g, Without(held, a))
<1> DEFINE p == HeaderOf(a)
           g == klfree(h, a)
<1>1. p \in Bins(h) /\ a # NULL
  BY LiveFacts DEF NULL
<1>2. CASE IsBig(h, p)
  <2>1. g = FreeBig(h, p)
    BY <1>1, <1>2 DEF klfree
  <2>2. IsBig(h, p) = TRUE
    BY <1>2 DEF IsBig
  <2> HIDE DEF p, g
  <2>3. p = HeaderOf(a)
    BY DEF p
  <2> QED BY <2>1, <2>2, <2>3, FreeBigSound DEF g
<1>3. CASE ~IsBig(h, p)
  <2>1. g = FreeSmall(h, p, a)
    BY <1>1, <1>3 DEF klfree
  <2>2. IsBig(h, p) = FALSE
    BY <1>3 DEF IsBig
  <2> HIDE DEF p, g
  <2>3. p = HeaderOf(a)
    BY DEF p
  <2> QED BY <2>1, <2>2, <2>3, FreeSmallSound DEF g
<1> QED
  BY <1>2, <1>3

-----------------------------------------------------------------------------
(* klmalloc and klvalloc. *)

(* What a call may answer: r grows the heap h at its end only and leaves   *)
(* the callers what they hold, with n more bytes at r.ptr if it answers.   *)
Answers(r, h, held, n) ==
  /\ r.hung \in BOOLEAN /\ GrownOnly(r.heap, h)
  /\ r.hung \/ r.ptr = NULL => LiveOK(r.heap, held)
  /\ ~r.hung => (r.ptr = NULL <=> n = 0)
  /\ ~r.hung /\ r.ptr # NULL =>
       /\ r.ptr \in Nat /\ r.ptr \notin DOMAIN held
       /\ LiveOK(r.heap, With(held, r.ptr, n))

IsRecord(r) == r = [heap |-> r.heap, ptr |-> r.ptr, hung |-> r.hung]

LEMMA ResultRecord ==
  ASSUME NEW g, NEW x
  PROVE  IsRecord(Result(g, x))
BY DEF IsRecord, Result

LEMMA FaultedRecord ==
  ASSUME NEW h, NEW n
  PROVE  IsRecord(Faulted(h, n))
BY DEF IsRecord, Faulted

LEMMA SmallRecord ==
  ASSUME NEW h, NEW b
  PROVE  IsRecord(MallocSmall(h, b))
<1>1. \A g : \E e, x : PopCell(g, b) = Result(e, x)
  BY DEF PopCell
<1>2. \/ \E g : MallocSmall(h, b) = PopCell(g, b)
      \/ MallocSmall(h, b) = Faulted(h, PAGE_SIZE)
  BY DEF MallocSmall
<1> QED
  BY <1>1, <1>2, ResultRecord, FaultedRecord

LEMMA MallocRecord ==
  ASSUME NEW h, NEW n, NEW r \in klmalloc(h, n)
  PROVE  IsRecord(r)
<1>1. CASE n = 0
  BY <1>1, ResultRecord DEF klmalloc
<1>2. CASE n # 0 /\ klmalloc_bin_size(n) < BIG_BIN
  BY <1>2, SmallRecord DEF klmalloc
<1>3. CASE n # 0 /\ ~(klmalloc_bin_size(n) < BIG_BIN)
  <2>1. \/ \E p : r = TakeBig(h, p)
        \/ r = GrowBig(h, n)
        \/ r = Faulted(h, BigPages(n) * PAGE_SIZE)
    BY <1>3 DEF klmalloc, MallocBig
  <2>2. \A p : \E e, x : TakeBig(h, p) = Result(e, x)
    BY DEF TakeBig
  <2>3. \E e, x : GrowBig(h, n) = Result(e, x)
    BY DEF GrowBig
  <2> QED BY <2>1, <2>2, <2>3, ResultRecord, FaultedRecord
<1> QED
  BY <1>1, <1>2, <1>3

(* A request for 0 bytes is answered NULL, a big one by a detached block.  *)
LEMMA BigAnswer ==
  ASSUME NEW h, Sound(h), NEW held, LiveOK(h, held), NEW n \in Nat, n > 0,
         klmalloc_bin_size(n) = BIG_BIN, NEW r \in klmalloc(h, n)
  PROVE  /\ r.hung \in BOOLEAN /\ GrownOnly(r.heap, h) /\ LiveOK(r.heap, held)
         /\ ~r.hung => \E p : /\ Detached(r.heap, held, p) /\ n <= r.heap.size[p]
                              /\ r.ptr = p + BIG_HDR
<1>1. r \in MallocBig(h, n)
  BY LayoutAssumption DEF klmalloc, BIG_BIN
<1> QED
  BY <1>1, MallocBigSound

LEMMA MallocSound ==
  ASSUME NEW h, Sound(h), NEW held, LiveOK(h, held), NEW n \in Nat,
         NEW r \in klmalloc(h, n)
  PROVE  Answers(r, h, held, n)
<1>0. h.end \in Nat
  BY HeapFields DEF Sound
<1>1. CASE n = 0
  <2>1. r = Result(h, NULL)
    BY <1>1 DEF klmalloc
  <2>2. r.heap = h /\ r.ptr = NULL /\ r.hung = FALSE
    BY <2>1 DEF Result
  <2>3. GrownOnly(r.heap, h)
    BY <1>0, <2>2 DEF GrownOnly
  <2> QED BY <1>1, <2>2, <2>3 DEF Answers
<1>2. CASE n > 0 /\ klmalloc_bin_size(n) = BIG_BIN
  <2>1. r.hung \in BOOLEAN /\ GrownOnly(r.heap, h) /\ LiveOK(r.heap, held)
    BY <1>2, BigAnswer
  <2>2. ASSUME ~r.hung
        PROVE  r.ptr \in Nat /\ r.ptr > 0 /\ r.ptr \notin DOMAIN held
               /\ LiveOK(r.heap, With(held, r.ptr, n))
    <3>1. PICK p : Detached(r.heap, held, p) /\ n <= r.heap.size[p] /\ r.ptr = p + BIG_HDR
      BY <1>2, <2>2, BigAnswer
    <3>2. /\ Sound(r.heap) /\ p \in Nat /\ r.heap.size[p] \in Nat
          /\ Extent(r.heap, p) = r.heap.size[p] + BIG_HDR
      BY <2>1, <3>1, BinFacts DEF Detached, BigBins, GrownOnly
    <3>3. r.ptr + n <= p + Extent(r.heap, p)
      BY <3>1, <3>2, LayoutAssumption
    <3>4. r.ptr \in {p + BIG_HDR, p + PAGE_SIZE}
      BY <3>1
    <3> QED BY <1>2, <2>1, <3>1, <3>2, <3>3, <3>4, HoldBig
  <2>3. n # 0 /\ (~r.hung => r.ptr # NULL)
    BY <1>2, <2>2 DEF NULL
  <2> QED BY <2>1, <2>2, <2>3 DEF Answers
<1>3. CASE n > 0 /\ klmalloc_bin_size(n) # BIG_BIN
  <2> DEFINE b == klmalloc_bin_size(n)
  <2>1. b \in Buckets /\ n <= CellSize(b)
    BY <1>3, BinSizeFacts
  <2>2. r = MallocSmall(h, b)
    BY <1>3, <2>1, BucketType DEF klmalloc
  <2> HIDE DEF b
  <2>3. /\ r.hung \in BOOLEAN /\ GrownOnly(r.heap, h)
        /\ r.hung => r.ptr = NULL /\ LiveOK(r.heap, held)
        /\ ~r.hung => /\ r.ptr \in Nat /\ r.ptr > 0 /\ r.ptr \notin DOMAIN held
                      /\ LiveOK(r.heap, With(held, r.ptr, n))
    BY <1>3, <2>1, <2>2, MallocSmallSound
  <2> QED BY <1>3, <2>3 DEF Answers, NULL
<1> QED
  BY <1>1, <1>2, <1>3

(* valloc's request exceeds every bucket, so its block is big, and the     *)
(* address right behind its first page leaves room for what was asked.     *)
LEMMA VallocSound ==
  ASSUME NEW h, Sound(h), NEW held, LiveOK(h, held), NEW n \in Nat, n > 0,
         NEW r \in klvalloc(h, n)
  PROVE  Answers(r, h, held, n)
<1> DEFINE m == n + PAGE_SIZE - BIG_HDR
<1>1. PICK q \in klmalloc(h, m) : r = [q EXCEPT !.ptr = q.ptr + (PAGE_SIZE - BIG_HDR)]
  BY DEF klvalloc
<1>2. m \in Nat /\ m > 0 /\ \A b \in Buckets : m > CellSize(b)
  BY LayoutAssumption
<1> HIDE DEF m
<1>3. klmalloc_bin_size(m) = BIG_BIN
  BY <1>2, BigSize
<1>4. r.heap = q.heap /\ r.hung = q.hung /\ r.ptr = q.ptr + (PAGE_SIZE - BIG_HDR)
  <2>1. q = [heap |-> q.heap, ptr |-> q.ptr, hung |-> q.hung]
    BY <1>1, MallocRecord DEF IsRecord
  <2> QED BY <1>1, <2>1
<1>5. r.hung \in BOOLEAN /\ GrownOnly(r.heap, h) /\ LiveOK(r.heap, held)
  BY <1>2, <1>3, <1>4, BigAnswer
<1>6. ASSUME ~r.hung
      PROVE  r.ptr \in Nat /\ r.ptr > 0 /\ r.ptr \notin DOMAIN held
             /\ LiveOK(r.heap, With(held, r.ptr, n))
  <2>1. PICK p : Detached(r.heap, held, p) /\ m <= r.heap.size[p] /\ q.ptr = p + BIG_HDR
    BY <1>2, <1>3, <1>4, <1>6, BigAnswer
  <2>2. /\ Sound(r.heap) /\ p \in Nat /\ r.heap.size[p] \in Nat
        /\ Extent(r.heap, p) = r.heap.size[p] + BIG_HDR
    BY <1>5, <2>1, BinFacts DEF Detached, BigBins, GrownOnly
  <2>3. r.ptr = p + PAGE_SIZE /\ r.ptr + n <= p + Extent(r.heap, p)
    BY <1>4, <2>1, <2>2, LayoutAssumption DEF m
  <2>4. r.ptr \in {p + BIG_HDR, p + PAGE_SIZE}
    BY <2>3
  <2> QED BY <1>5, <2>1, <2>2, <2>3, <2>4, HoldBig
<1> QED
  BY <1>5, <1>6 DEF Answers, NULL

-----------------------------------------------------------------------------
(* klrealloc. *)

(* After r the callers hold after, and r.ptr with n bytes if r answers; a  *)
(* caller whose request never returns is left with before.                 *)
Settles(r, h, before, after, n) ==
  /\ r.hung \in BOOLEAN /\ GrownOnly(r.heap, h)
  /\ r.hung => LiveOK(r.heap, before)
  /\ ~r.hung /\ r.ptr = NULL => LiveOK(r.heap, after)
  /\ ~r.hung /\ r.ptr # NULL => r.ptr \in Nat /\ LiveOK(r.heap, With(after, r.ptr, n))

LEMMA AnswerSettles ==
  ASSUME NEW r, NEW h, NEW held, NEW n, Answers(r, h, held, n)
  PROVE  Settles(r, h, held, held, n)
BY DEF Answers, Settles

LEMMA NotHeld ==
  ASSUME NEW held, held \in [DOMAIN held -> Nat], NEW a, a \notin DOMAIN held
  PROVE  Without(held, a) = held
BY DEF Without

(* A pointer whose own page carries a header is not one of valloc's: its   *)
(* block starts at that page.                                              *)
LEMMA OwnPage ==
  ASSUME NEW h, Sound(h), NEW held, LiveOK(h, held), held \in [DOMAIN held -> Nat],
         NEW a \in DOMAIN held, NEW p \in Bins(h), p = PageOf(a)
  PROVE  HeaderOf(a) = p /\ (IsBig(h, p) => a = p + BIG_HDR)
<1> DEFINE q == HeaderOf(a)
<1>0. q = HeaderOf(a)
  OBVIOUS
<1>1. /\ q \in Bins(h) /\ q \in Nat /\ a \in Nat /\ a > q /\ held[a] > 0
      /\ a + held[a] <= q + Extent(h, q) /\ held[a] \in Nat
  BY <1>0, LiveFacts
<1>2. Extent(h, q) \in Nat /\ p \in Nat /\ Aligned(p)
  BY <1>1, BinFacts, LayoutAssumption DEF Extent
<1>3. ~Aligned(a)
  <2> SUFFICES ASSUME Aligned(a) PROVE FALSE
    OBVIOUS
  <2>1. p = a
    BY <1>1 DEF PageOf, Aligned
  <2>2. q + Extent(h, q) <= p
    BY <1>1, <2>1 DEF Sound, BinsOK
  <2> QED BY <1>1, <1>2, <2>1, <2>2
<1>4. q = p
  BY <1>3 DEF HeaderOf
<1>5. ASSUME IsBig(h, p) PROVE a = p + BIG_HDR
  <2>1. Owned(h, a, held[a])
    BY DEF LiveOK
  <2>2. a \in {p + BIG_HDR, p + PAGE_SIZE}
    BY <1>4, <1>5, <2>1 DEF Owned
  <2>3. Aligned(p + 1 * PAGE_SIZE) /\ p + 1 * PAGE_SIZE = p + PAGE_SIZE
    BY <1>2, PageSum, LayoutAssumption
  <2> QED BY <1>3, <2>2, <2>3
<1> QED
  BY <1>4, <1>5

LEMMA ResizedInPlace ==
  ASSUME NEW h, NEW held, LiveOK(h, held), NEW a \in DOMAIN held, NEW n, n > 0,
         Owned(h, a, n)
  PROVE  LiveOK(h, With(Without(held, a), a, n))
<1> DEFINE new == With(Without(held, a), a, n)
<1>1. /\ DOMAIN new = DOMAIN held /\ new[a] = n
      /\ \A c \in DOMAIN held : c # a => new[c] = held[c]
  BY DEF With, Without
<1> HIDE DEF new
<1>2. \A c \in DOMAIN new : new[c] > 0 /\ Owned(h, c, new[c])
  BY <1>1 DEF LiveOK
<1>3. LiveOK(h, new)
  BY <1>1, <1>2 DEF LiveOK
<1> QED
  BY <1>3 DEF new

(* A move: the new region is held before the old one is given back. *)
LEMMA MoveSound ==
  ASSUME NEW h, Sound(h), NEW held, LiveOK(h, held), held \in [DOMAIN held -> Nat],
         NEW a \in DOMAIN held, NEW n \in Nat, n > 0, NEW q, Answers(q, h, held, n),
         q.hung = FALSE
  PROVE  LET g == klfree(q.heap, a)
         IN /\ GrownOnly(g, h) /\ q.ptr # NULL /\ q.ptr \in Nat
            /\ LiveOK(g, With(Without(held, a), q.ptr, n))
<1> DEFINE g == klfree(q.heap, a)
           more == With(held, q.ptr, n)
<1>1. /\ Sound(q.heap) /\ GrownOnly(q.heap, h) /\ q.ptr # NULL
      /\ q.ptr \in Nat /\ q.ptr \notin DOMAIN held /\ LiveOK(q.heap, more)
  BY DEF Answers, GrownOnly
<1>2. more \in [DOMAIN more -> Nat] /\ a \in DOMAIN more
  BY DEF With
<1>3. Without(more, a) = With(Without(held, a), q.ptr, n)
  BY <1>1 DEF With, Without
<1> HIDE DEF more, g
<1>4. /\ Sound(g) /\ Bins(g) = Bins(q.heap) /\ g.end = q.heap.end
      /\ LiveOK(g, Without(more, a))
  BY <1>1, <1>2, FreeSound DEF g
<1>5. GrownOnly(g, h)
  BY <1>1, <1>4 DEF GrownOnly
<1> QED
  BY <1>1, <1>3, <1>4, <1>5 DEF g

(* What the callers hold of the heap, if realloc of a pointer answers r.   *)
AfterRealloc(r, held, a, n) == IF r.ptr # NULL \/ n = 0 THEN Without(held, a) ELSE held

LEMMA ReallocSound ==
  ASSUME NEW h, Sound(h), NEW held, LiveOK(h, held), held \in [DOMAIN held -> Nat],
         NEW top \in Nat, \A p \in Bins(h) : top < p,
         NEW a \in Nat, a = NULL \/ a <= top \/ a \in DOMAIN held,
         NEW n \in Nat, NEW r \in klrealloc(h, a, n, top)
  PROVE  Settles(r, h, held, AfterRealloc(r, held, a, n), n)
<1>0. /\ h.end \in Nat /\ GrownOnly(h, h)
      /\ \A c \in DOMAIN held : c \in Nat /\ c > top
      /\ \A p \in Bins(h) : p \in Nat
  <2>1. h.end \in Nat /\ \A p \in Bins(h) : p \in Nat
    BY HeapFields DEF Sound
  <2>2. ASSUME NEW c \in DOMAIN held PROVE c \in Nat /\ c > top
    <3>1. HeaderOf(c) \in Bins(h) /\ HeaderOf(c) \in Nat /\ c \in Nat /\ c > HeaderOf(c)
      BY LiveFacts
    <3> QED BY <3>1
  <2> QED BY <2>1, <2>2 DEF GrownOnly
<1> DEFINE after == AfterRealloc(r, held, a, n)
<1>1. CASE a = NULL
  <2>1. r \in klmalloc(h, n)
    BY <1>1 DEF klrealloc
  <2>2. after = held
    <3>1. a \notin DOMAIN held
      BY <1>0, <1>1 DEF NULL
    <3> QED BY <3>1, NotHeld DEF AfterRealloc
  <2> QED BY <2>1, <2>2, MallocSound, AnswerSettles
<1>2. CASE a # NULL /\ n = 0
  <2>1. r.heap = FreeAbove(h, a, top) /\ r.ptr = NULL /\ r.hung = FALSE
    BY <1>2 DEF klrealloc, Result
  <2>2. after = Without(held, a)
    BY <1>2 DEF AfterRealloc
  <2>3. CASE a > top
    <3>1. a \in DOMAIN held /\ r.heap = klfree(h, a)
      BY <1>2, <2>1, <2>3 DEF FreeAbove
    <3>2. /\ Sound(r.heap) /\ Bins(r.heap) = Bins(h) /\ r.heap.end = h.end
          /\ LiveOK(r.heap, Without(held, a))
      BY <3>1, FreeSound
    <3>3. GrownOnly(r.heap, h)
      BY <1>0, <3>2 DEF GrownOnly
    <3> QED BY <2>1, <2>2, <3>2, <3>3 DEF Settles
  <2>4. CASE ~(a > top)
    <3>1. r.heap = h /\ Without(held, a) = held
      BY <1>0, <2>1, <2>4, NotHeld DEF FreeAbove
    <3> QED BY <1>0, <2>1, <2>2, <3>1 DEF Settles
  <2> QED BY <2>3, <2>4
<1>3. CASE a # NULL /\ n # 0 /\ PageOf(a) \notin Bins(h)
  <2>1. r.heap = h /\ r.ptr = NULL /\ r.hung = FALSE
    BY <1>3 DEF klrealloc, Result
  <2>2. after = held
    BY <1>3, <2>1 DEF AfterRealloc
  <2> QED BY <1>0, <2>1, <2>2 DEF Settles
<1>4. CASE a # NULL /\ n # 0 /\ PageOf(a) \in Bins(h)
  <2> DEFINE p == PageOf(a)
  <2>1. a \in DOMAIN held
    <3>1. PageOf(a) <= a /\ top < PageOf(a) /\ PageOf(a) \in Nat
      BY <1>4, PageOfType
    <3> QED BY <1>4, <3>1
  <2>2. HeaderOf(a) = p /\ (IsBig(h, p) => a = p + BIG_HDR)
    BY <1>4, <2>1, OwnPage
  <2>3. CASE Capacity(h, p) >= n
    <3>1. r.heap = h /\ r.ptr = a /\ r.hung = FALSE
      BY <1>4, <2>3 DEF klrealloc, Result
    <3>2. after = Without(held, a)
      BY <1>4, <3>1 DEF AfterRealloc
    <3>3. Owned(h, a, held[a])
      BY <2>1 DEF LiveOK
    <3>4. p \in Nat /\ h.size[p] \in Nat
      BY <1>4, BinFacts
    <3>5. Owned(h, a, n)
      <4>1. CASE IsBig(h, p)
        <5>1. Capacity(h, p) = h.size[p] /\ Extent(h, p) = h.size[p] + BIG_HDR
          BY <3>4, <4>1, LayoutAssumption DEF Capacity, Extent, IsBig, BIG_BIN
        <5>2. a + n <= p + Extent(h, p)
          BY <2>2, <2>3, <3>4, <4>1, <5>1, LayoutAssumption
        <5> QED BY <2>2, <3>3, <4>1, <5>2 DEF Owned
      <4>2. CASE ~IsBig(h, p)
        <5>1. h.size[p] \in Buckets
          BY <1>4, <4>2, BinFacts
        <5>2. Capacity(h, p) = CellSize(h.size[p]) /\ CellSize(h.size[p]) \in Nat
          BY <5>1, BucketType DEF Capacity
        <5> QED BY <2>2, <2>3, <3>3, <4>2, <5>2 DEF Owned
      <4> QED BY <4>1, <4>2
    <3>6. LiveOK(h, With(Without(held, a), a, n))
      BY <1>4, <2>1, <3>5, ResizedInPlace
    <3> QED BY <1>0, <1>4, <3>1, <3>2, <3>6 DEF Settles
  <2>4. CASE ~(Capacity(h, p) >= n)
    <3>1. PICK q \in klmalloc(h, n) :
            r = IF q.hung THEN q ELSE Result(klfree(q.heap, a), q.ptr)
      BY <1>4, <2>4 DEF klrealloc
    <3>2. Answers(q, h, held, n)
      BY MallocSound
    <3>3. CASE q.hung
      <4>1. r = q
        BY <3>1, <3>3
      <4> QED BY <3>2, <3>3, <4>1 DEF Answers, Settles
    <3>4. CASE ~q.hung
      <4>1. r.heap = klfree(q.heap, a) /\ r.ptr = q.ptr /\ r.hung = FALSE
        BY <3>1, <3>4 DEF Result
      <4>2. q.hung = FALSE /\ n > 0
        BY <1>4, <3>2, <3>4 DEF Answers
      <4>3. /\ GrownOnly(r.heap, h) /\ q.ptr # NULL /\ q.ptr \in Nat
            /\ LiveOK(r.heap, With(Without(held, a), q.ptr, n))
        BY <2>1, <3>2, <4>1, <4>2, MoveSound
      <4>4. after = Without(held, a)
        BY <4>1, <4>3 DEF AfterRealloc
      <4> QED BY <4>1, <4>3, <4>4 DEF Settles
    <3> QED BY <3>3, <3>4
  <2> QED BY <2>3, <2>4
<1> QED
  BY <1>1, <1>2, <1>3, <1>4

-----------------------------------------------------------------------------
(* The invariant.  TypeOK, HeapOK and PlacementOK are inductive together:  *)
(* that the heap starts above placement_pointer is what tells a pointer of *)
(* the heap from one of boot time.                                         *)
HeapIInv == TypeOK /\ HeapOK /\ PlacementOK

LEMMA InvFacts ==
  ASSUME HeapIInv
  PROVE  /\ HeapType(heap) /\ heap.end \in Nat /\ placement_pointer \in Nat
         /\ live \in [DOMAIN live -> Nat] /\ placed \in [DOMAIN placed -> Nat]
         /\ DOMAIN live \subseteq Nat /\ DOMAIN placed \subseteq Nat
         /\ LiveOK(heap, live) /\ hung \in BOOLEAN
         /\ heap.end # 0 => /\ Sound(heap) /\ placement_pointer < heap.end
                            /\ \A p \in Bins(heap) : placement_pointer < p
         /\ \A c \in DOMAIN placed : c < placement_pointer
<1>1. /\ HeapType(heap) /\ placement_pointer \in Nat
      /\ live \in [DOMAIN live -> Nat] /\ placed \in [DOMAIN placed -> Nat]
      /\ DOMAIN live \subseteq Nat /\ DOMAIN placed \subseteq Nat
      /\ LiveOK(heap, live) /\ hung \in BOOLEAN
  BY DEF HeapIInv, TypeOK, HeapOK, HeapInv
<1>2. heap.end \in Nat
  BY <1>1, HeapFields
<1>3. heap.end # 0 => Sound(heap)
  BY <1>1, <1>2 DEF HeapIInv, HeapOK, HeapInv, Sound
<1>4. heap.end # 0 => placement_pointer < heap.end
  BY DEF HeapIInv, PlacementOK
<1>5. \A p \in Bins(heap) : placement_pointer < p
  BY DEF HeapIInv, PlacementOK
<1>6. \A c \in DOMAIN placed : c < placement_pointer
  BY <1>1 DEF HeapIInv, PlacementOK
<1> QED
  BY <1>1, <1>2, <1>3, <1>4, <1>5, <1>6

LEMMA InitInv ==
  ASSUME Init
  PROVE  HeapIInv
<1>1. /\ heap.end = 0 /\ heap.size = [p \in {} |-> 0] /\ heap.head = [p \in {} |-> <<>>]
      /\ heap.list = [b \in Buckets |-> <<>>] /\ heap.big = {} /\ heap.chain = <<>>
      /\ heap \in HeapSet({})
  BY DEF Init, EmptyHeap, HeapSet
<1>2. HeapType(heap) /\ Bins(heap) = {}
  BY <1>1, HeapSetType
<1>3. TypeOK
  BY <1>2, ArenaAssumption DEF Init, TypeOK
<1>4. BinsOK(heap)
  BY <1>1, <1>2, LayoutAssumption DEF BinsOK, Aligned
<1>5. StacksOK(heap)
  BY <1>1, <1>2 DEF StacksOK, SmallBins, BigBins
<1>6. ListsOK(heap)
  <2>1. Range(<<>>) = {} /\ IsInjective(<<>>)
    BY DEF Range, IsInjective
  <2> QED BY <1>1, <1>2, <2>1 DEF ListsOK, SmallBins
<1>7. LiveOK(heap, live)
  BY DEF Init, LiveOK
<1>8. PlacementOK
  BY <1>1, <1>2 DEF Init, PlacementOK
<1> QED
  BY <1>3, <1>4, <1>5, <1>6, <1>7, <1>8 DEF HeapIInv, HeapOK, HeapInv

LEMMA PlaceStep ==
  ASSUME HeapIInv, NEW size \in Nat, NEW align \in BOOLEAN, Place(size, align)
  PROVE  HeapIInv'
<1> DEFINE at == IF align /\ PageOf(placement_pointer) # 0
                 THEN PageOf(placement_pointer) + PAGE_SIZE
                 ELSE placement_pointer
<1>1. at \in Nat /\ at >= placement_pointer
  BY InvFacts, PageOfType, LayoutAssumption
<1>2. /\ Booting /\ size > 0 /\ placement_pointer' = at + size
      /\ placed' = With(placed, at, size)
      /\ heap' = heap /\ live' = live /\ hung' = hung
  BY DEF Place
<1> HIDE DEF at
<1>3. /\ DOMAIN placed' = DOMAIN placed \cup {at} /\ placed'[at] = size
      /\ \A c \in DOMAIN placed : placed'[c] = placed[c]
      /\ placed' \in [DOMAIN placed \cup {at} -> Nat]
  <2>1. at \notin DOMAIN placed
    BY <1>1, InvFacts
  <2> QED BY <1>2, <2>1, InvFacts DEF With
<1>4. heap.end = 0 /\ Bins(heap) = {} /\ DOMAIN live = {}
  BY <1>2 DEF Booting, HeapIInv, PlacementOK
<1>5. TypeOK'
  <2>1. placement_pointer' \in Nat
    BY <1>1, <1>2
  <2>2. DOMAIN placed' \subseteq Nat /\ placed' \in [DOMAIN placed' -> Nat]
    BY <1>1, <1>3, InvFacts
  <2> QED BY <1>2, <2>1, <2>2 DEF HeapIInv, TypeOK
<1>6. HeapOK'
  BY <1>2 DEF HeapIInv, HeapOK
<1>7. PlacementOK'
  <2>1. ASSUME NEW c \in DOMAIN placed
        PROVE  placed[c] \in Nat /\ placed[c] > 0 /\ c \in Nat /\ c + placed[c] <= placement_pointer
    BY InvFacts DEF HeapIInv, PlacementOK
  <2>2. \A c \in DOMAIN placed' : placed'[c] > 0 /\ c + placed'[c] <= placement_pointer'
    BY <1>1, <1>2, <1>3, <2>1, InvFacts
  <2>3. \A c, d \in DOMAIN placed : c < d => c + placed[c] <= d
    BY DEF HeapIInv, PlacementOK
  <2>4. \A c, d \in DOMAIN placed' : c < d => c + placed'[c] <= d
    BY <1>1, <1>3, <2>1, <2>3, InvFacts
  <2> QED BY <1>2, <1>4, <2>2, <2>4 DEF PlacementOK
<1> QED
  BY <1>5, <1>6, <1>7 DEF HeapIInv

LEMMA InitHeapStep ==
  ASSUME HeapIInv, init_heap
  PROVE  HeapIInv'
<1> DEFINE e == PageOf(placement_pointer + PAGE_SIZE)
<1>1. e \in Nat /\ Aligned(e) /\ e > placement_pointer
  <2>1. placement_pointer + PAGE_SIZE \in Nat /\ placement_pointer \in Nat
    BY InvFacts, LayoutAssumption
  <2> QED BY <2>1, PageOfType, LayoutAssumption
<1>2. /\ heap' = [heap EXCEPT !.end = e] /\ placement_pointer' = placement_pointer
      /\ placed' = placed /\ live' = live /\ hung' = hung /\ heap.end = 0
  BY DEF init_heap, Booting
<1> HIDE DEF e
<1>3. heap \in HeapSet(Bins(heap)) /\ Bins(heap) \subseteq Nat
  BY InvFacts, HeapFields
<1>4. /\ heap'.end = e /\ heap'.size = heap.size /\ heap'.head = heap.head
      /\ heap'.list = heap.list /\ heap'.big = heap.big /\ heap'.chain = heap.chain
      /\ heap' \in HeapSet(Bins(heap))
  BY <1>1, <1>2, <1>3 DEF HeapSet
<1>5. HeapType(heap') /\ Bins(heap') = Bins(heap)
  BY <1>3, <1>4, HeapSetType
<1>6. Bins(heap) = {} /\ DOMAIN live = {}
  BY <1>2 DEF HeapIInv, PlacementOK
<1>7. TypeOK'
  BY <1>2, <1>5 DEF HeapIInv, TypeOK
<1>8. BinsOK(heap')
  BY <1>1, <1>4, <1>5, <1>6 DEF BinsOK
<1>9. /\ SmallBins(heap') = {} /\ BigBins(heap') = {}
      /\ SmallBins(heap) = {} /\ BigBins(heap) = {}
  BY <1>5, <1>6 DEF SmallBins, BigBins
<1>10. StacksOK(heap')
  BY <1>4, <1>9 DEF HeapIInv, HeapOK, HeapInv, StacksOK
<1>11. ListsOK(heap')
  BY <1>4, <1>9 DEF HeapIInv, HeapOK, HeapInv, ListsOK
<1>12. LiveOK(heap', live')
  BY <1>2, <1>6 DEF LiveOK
<1>13. HeapOK'
  BY <1>8, <1>10, <1>11, <1>12 DEF HeapOK, HeapInv
<1>14. PlacementOK'
  <2>1. heap'.end # 0 /\ placement_pointer' < heap'.end
    BY <1>1, <1>2, <1>4, InvFacts
  <2> QED BY <1>2, <1>5, <1>6, <2>1 DEF HeapIInv, PlacementOK
<1> QED
  BY <1>7, <1>13, <1>14 DEF HeapIInv

(* After boot, a step that keeps the heap sound, at its end or above, and  *)
(* every caller supplied, keeps the invariant.                             *)
LEMMA RunningStep ==
  ASSUME HeapIInv, Running, GrownOnly(heap', heap), LiveOK(heap', live'),
         live' \in [DOMAIN live' -> Nat], DOMAIN live' \subseteq Nat, hung' \in BOOLEAN,
         UNCHANGED <<placement_pointer, placed>>
  PROVE  HeapIInv'
<1>1. /\ heap.end # 0 /\ heap.end \in Nat /\ placement_pointer \in Nat
      /\ placement_pointer < heap.end /\ \A p \in Bins(heap) : placement_pointer < p
  BY InvFacts DEF Running
<1>2. /\ Sound(heap') /\ HeapType(heap') /\ heap'.end \in Nat /\ heap'.end >= heap.end
      /\ \A p \in Bins(heap') : p \in Nat /\ (p \in Bins(heap) \/ p >= heap.end)
  BY HeapFields DEF GrownOnly, Sound
<1>3. TypeOK'
  BY <1>2 DEF HeapIInv, TypeOK
<1>4. HeapOK'
  BY <1>2 DEF HeapOK, HeapInv, Sound
<1>5. PlacementOK'
  <2>1. \A p \in Bins(heap') : placement_pointer < p
    BY <1>1, <1>2
  <2>2. heap'.end # 0 /\ placement_pointer < heap'.end
    BY <1>1, <1>2
  <2> QED BY <2>1, <2>2 DEF HeapIInv, PlacementOK
<1> QED
  BY <1>3, <1>4, <1>5 DEF HeapIInv

LEMMA HandStep ==
  ASSUME HeapIInv, Running, NEW r, NEW after, NEW n \in Nat,
         after \in [DOMAIN after -> Nat], DOMAIN after \subseteq Nat,
         Settles(r, heap, live, after, n), Hand(r, after, n)
  PROVE  HeapIInv'
<1>1. /\ heap' = r.heap /\ hung' = r.hung /\ UNCHANGED <<placement_pointer, placed>>
      /\ hung' \in BOOLEAN /\ GrownOnly(heap', heap)
  BY DEF Hand, Settles
<1>2. LiveOK(heap', live') /\ live' \in [DOMAIN live' -> Nat] /\ DOMAIN live' \subseteq Nat
  <2>1. CASE r.hung
    <3>1. live' = live /\ LiveOK(heap', live)
      BY <1>1, <2>1 DEF Hand, Settles
    <3> QED BY <3>1, InvFacts
  <2>2. CASE ~r.hung /\ r.ptr = NULL
    <3>1. live' = after /\ LiveOK(heap', after)
      BY <1>1, <2>2 DEF Hand, Settles
    <3> QED BY <3>1
  <2>3. CASE ~r.hung /\ r.ptr # NULL
    <3>1. live' = With(after, r.ptr, n) /\ LiveOK(heap', With(after, r.ptr, n)) /\ r.ptr \in Nat
      BY <1>1, <2>3 DEF Hand, Settles
    <3> DEFINE S == DOMAIN after
    <3>2. With(after, r.ptr, n) \in [S \cup {r.ptr} -> Nat]
      BY WithType
    <3> QED BY <3>1, <3>2
  <2> QED BY <2>1, <2>2, <2>3
<1> QED
  BY <1>1, <1>2, RunningStep

LEMMA MallocStep ==
  ASSUME HeapIInv, NEW size \in Nat, Malloc(size)
  PROVE  HeapIInv'
<1>1. PICK r \in klmalloc(heap, size) : Hand(r, live, size)
  BY DEF Malloc
<1>2. Sound(heap) /\ LiveOK(heap, live) /\ Running
  BY InvFacts DEF Malloc, Running
<1>3. Settles(r, heap, live, live, size)
  BY <1>2, MallocSound, AnswerSettles
<1> QED
  BY <1>1, <1>2, <1>3, InvFacts, HandStep

LEMMA CallocStep ==
  ASSUME HeapIInv, NEW nmemb \in Nat, NEW size \in Nat, Calloc(nmemb, size)
  PROVE  HeapIInv'
<1>1. PICK r \in klmalloc(heap, nmemb * size) : Hand(r, live, nmemb * size)
  BY DEF Calloc, klcalloc
<1>2. Sound(heap) /\ LiveOK(heap, live) /\ Running /\ nmemb * size \in Nat
  BY InvFacts DEF Calloc, Running
<1>3. Settles(r, heap, live, live, nmemb * size)
  BY <1>2, MallocSound, AnswerSettles
<1> QED
  BY <1>1, <1>2, <1>3, InvFacts, HandStep

LEMMA VallocStep ==
  ASSUME HeapIInv, NEW size \in Nat, size > 0, Valloc(size)
  PROVE  HeapIInv'
<1>1. PICK r \in klvalloc(heap, size) : Hand(r, live, size)
  BY DEF Valloc
<1>2. Sound(heap) /\ LiveOK(heap, live) /\ Running
  BY InvFacts DEF Valloc, Running
<1>3. Settles(r, heap, live, live, size)
  BY <1>2, VallocSound, AnswerSettles
<1> QED
  BY <1>1, <1>2, <1>3, InvFacts, HandStep

LEMMA FreeStep ==
  ASSUME HeapIInv, NEW ptr \in Held \cup {NULL}, Free(ptr)
  PROVE  HeapIInv'
<1>1. /\ Running /\ heap' = FreeAbove(heap, ptr, placement_pointer)
      /\ live' = Without(live, ptr) /\ UNCHANGED <<placement_pointer, placed, hung>>
  BY DEF Free
<1>2. /\ Sound(heap) /\ LiveOK(heap, live) /\ live \in [DOMAIN live -> Nat]
      /\ placement_pointer \in Nat /\ heap.end \in Nat
      /\ \A p \in Bins(heap) : placement_pointer < p
  BY <1>1, InvFacts DEF Running
<1>3. live' \in [DOMAIN live' -> Nat] /\ DOMAIN live' \subseteq Nat /\ hung' \in BOOLEAN
  <2>1. DOMAIN live' \subseteq DOMAIN live /\ \A c \in DOMAIN live' : live'[c] = live[c]
    BY <1>1 DEF Without
  <2>2. live' \in [DOMAIN live' -> Nat]
    BY <1>1, InvFacts DEF Without
  <2> QED BY <1>1, <2>1, <2>2, InvFacts
<1>4. \A c \in DOMAIN live : c > placement_pointer
  <2> SUFFICES ASSUME NEW c \in DOMAIN live PROVE c > placement_pointer
    OBVIOUS
  <2>1. HeaderOf(c) \in Bins(heap) /\ HeaderOf(c) \in Nat /\ c \in Nat /\ c > HeaderOf(c)
    BY <1>2, LiveFacts
  <2> QED BY <1>2, <2>1
<1>5. GrownOnly(heap', heap) /\ LiveOK(heap', live')
  <2>1. CASE ptr \in DOMAIN live
    <3>1. heap' = klfree(heap, ptr)
      BY <1>1, <1>4, <2>1 DEF FreeAbove
    <3>2. /\ Sound(heap') /\ Bins(heap') = Bins(heap) /\ heap'.end = heap.end
          /\ LiveOK(heap', Without(live, ptr))
      BY <1>2, <2>1, <3>1, FreeSound
    <3> QED BY <1>1, <1>2, <3>2 DEF GrownOnly
  <2>2. CASE ptr \notin DOMAIN live
    <3>1. ~(ptr > placement_pointer)
      BY <1>2, <2>2, InvFacts DEF Held, NULL
    <3>2. heap' = heap /\ live' = live
      BY <1>1, <1>2, <2>2, <3>1, NotHeld DEF FreeAbove
    <3> QED BY <1>2, <3>2 DEF GrownOnly
  <2> QED BY <2>1, <2>2
<1> QED
  BY <1>1, <1>3, <1>5, RunningStep

LEMMA ReallocStep ==
  ASSUME HeapIInv, NEW ptr \in Held \cup {NULL}, NEW size \in Nat, Realloc(ptr, size)
  PROVE  HeapIInv'
<1>1. /\ Running
      /\ \E r \in klrealloc(heap, ptr, size, placement_pointer) :
           Hand(r, AfterRealloc(r, live, ptr, size), size)
  BY DEF Realloc, AfterRealloc
<1>2. PICK r \in klrealloc(heap, ptr, size, placement_pointer) :
        Hand(r, AfterRealloc(r, live, ptr, size), size)
  BY <1>1
<1> DEFINE after == AfterRealloc(r, live, ptr, size)
<1>3. /\ Sound(heap) /\ LiveOK(heap, live) /\ live \in [DOMAIN live -> Nat]
      /\ DOMAIN live \subseteq Nat
      /\ placement_pointer \in Nat /\ \A p \in Bins(heap) : placement_pointer < p
  BY <1>1, InvFacts DEF Running
<1>4. ptr \in Nat /\ (ptr = NULL \/ ptr <= placement_pointer \/ ptr \in DOMAIN live)
  BY <1>3, InvFacts DEF Held, NULL
<1>5. Settles(r, heap, live, after, size)
  BY <1>3, <1>4, ReallocSound
<1>6. after \in [DOMAIN after -> Nat] /\ DOMAIN after \subseteq Nat
  <2>1. CASE after = live
    BY <1>3, <2>1
  <2>2. CASE after = Without(live, ptr)
    BY <1>3, <2>2 DEF Without
  <2> QED BY <2>1, <2>2 DEF AfterRealloc
<1> HIDE DEF after
<1>7. Hand(r, after, size)
  BY <1>2 DEF after
<1> QED
  BY <1>1, <1>5, <1>6, <1>7, HandStep

LEMMA StepInv ==
  ASSUME 0 \notin AlignedSizes, HeapIInv, [Next]_vars
  PROVE  HeapIInv'
<1>1. Sizes \subseteq Nat /\ AlignedSizes \subseteq Nat /\ Counts \subseteq Nat
  BY RequestAssumption
<1>2. CASE \E size \in Sizes, align \in BOOLEAN : Place(size, align)
  BY <1>1, <1>2, PlaceStep
<1>3. CASE init_heap
  BY <1>3, InitHeapStep
<1>4. CASE \E size \in Sizes : Malloc(size)
  BY <1>1, <1>4, MallocStep
<1>5. CASE \E size \in AlignedSizes : Valloc(size)
  <2>1. PICK size \in AlignedSizes : Valloc(size)
    BY <1>5
  <2>2. size \in Nat /\ size > 0
    BY <1>1
  <2> QED BY <2>1, <2>2, VallocStep
<1>6. CASE \E nmemb \in Counts, size \in Sizes : Calloc(nmemb, size)
  BY <1>1, <1>6, CallocStep
<1>7. CASE \E ptr \in Held \cup {NULL} : Free(ptr)
  BY <1>7, FreeStep
<1>8. CASE \E ptr \in Held \cup {NULL}, size \in Sizes : Realloc(ptr, size)
  BY <1>1, <1>8, ReallocStep
<1>9. CASE UNCHANGED vars
  BY <1>9 DEF vars, HeapIInv, TypeOK, HeapOK, PlacementOK
<1> QED
  BY <1>2, <1>3, <1>4, <1>5, <1>6, <1>7, <1>8, <1>9 DEF Next

(* From boot to the last call, the variables have their types. *)
THEOREM HeapTypeCorrect ==
  ASSUME 0 \notin AlignedSizes
  PROVE  Spec => []TypeOK
<1>1. Init => HeapIInv
  BY InitInv
<1>2. HeapIInv /\ [Next]_vars => HeapIInv'
  BY StepInv
<1>3. HeapIInv => TypeOK
  BY DEF HeapIInv
<1> QED
  BY <1>1, <1>2, <1>3, PTL DEF Spec

(* Whatever is asked for and given back, in any order: the pages stay      *)
(* carved into bins, stacks and lists hold exactly what is free, and every *)
(* pointer a caller holds is inside a block that is not.                   *)
THEOREM HeapCorrect ==
  ASSUME 0 \notin AlignedSizes
  PROVE  Spec => []HeapOK
<1>1. Init => HeapIInv
  BY InitInv
<1>2. HeapIInv /\ [Next]_vars => HeapIInv'
  BY StepInv
<1>3. HeapIInv => HeapOK
  BY DEF HeapIInv
<1> QED
  BY <1>1, <1>2, <1>3, PTL DEF Spec

(* Boot-time regions stay below the heap. *)
THEOREM PlacementCorrect ==
  ASSUME 0 \notin AlignedSizes
  PROVE  Spec => []PlacementOK
<1>1. Init => HeapIInv
  BY InitInv
<1>2. HeapIInv /\ [Next]_vars => HeapIInv'
  BY StepInv
<1>3. HeapIInv => PlacementOK
  BY DEF HeapIInv
<1> QED
  BY <1>1, <1>2, <1>3, PTL DEF Spec

(* Two regions of the heap are apart. *)
LEMMA LiveApart ==
  ASSUME NEW h, Sound(h), NEW held, LiveOK(h, held), held \in [DOMAIN held -> Nat],
         NEW a \in DOMAIN held, NEW c \in DOMAIN held, a < c
  PROVE  a + held[a] <= c
<1> DEFINE p == HeaderOf(a)
           q == HeaderOf(c)
<1>0. p = HeaderOf(a) /\ q = HeaderOf(c)
  OBVIOUS
<1>1. /\ p \in Bins(h) /\ p \in Nat /\ a \in Nat /\ a > p /\ held[a] \in Nat
      /\ a + held[a] <= p + Extent(h, p)
  BY <1>0, LiveFacts
<1>2. /\ q \in Bins(h) /\ q \in Nat /\ c \in Nat /\ c > q /\ held[c] \in Nat
      /\ c + held[c] <= q + Extent(h, q)
  BY <1>0, LiveFacts
<1>3. /\ Extent(h, p) \in Nat /\ Extent(h, q) \in Nat
      /\ p < q => p + Extent(h, p) <= q
      /\ q < p => q + Extent(h, q) <= p
  BY <1>1, <1>2, BinFacts, LayoutAssumption DEF Sound, BinsOK, Extent
<1>4. CASE p = q
  <2>1. Owned(h, a, held[a]) /\ Owned(h, c, held[c])
    BY DEF LiveOK
  <2>2. ~IsBig(h, p)
    BY <1>1, <1>2, <1>4 DEF LiveOK
  <2>3. /\ a \in CellsOf(h, p) /\ c \in CellsOf(h, p)
        /\ held[a] <= CellSize(h.size[p]) /\ h.size[p] \in Buckets
    BY <1>1, <1>4, <2>1, <2>2, BinFacts DEF Owned
  <2> DEFINE b == h.size[p]
  <2>4. PICK i \in 0..Cells(b)-1 : a = Cell(p, b, i)
    BY <2>3 DEF CellsOf
  <2>5. PICK j \in 0..Cells(b)-1 : c = Cell(p, b, j)
    BY <2>3 DEF CellsOf
  <2>6. i \in Nat /\ j \in Nat /\ CellSize(b) \in Nat \ {0} /\ Cells(b) \in Nat
    BY <2>3, BucketType
  <2>7. i < j
    <3>1. i # j
      BY <1>1, <1>2, <2>4, <2>5
    <3>2. ~(j < i)
      <4> SUFFICES ASSUME j < i PROVE FALSE
        OBVIOUS
      <4>1. Cell(p, b, j) + CellSize(b) <= Cell(p, b, i)
        BY <1>1, <2>3, CellsApart
      <4> QED BY <1>1, <1>2, <2>4, <2>5, <2>6, <4>1
    <3> QED BY <2>6, <3>1, <3>2
  <2>8. Cell(p, b, i) + CellSize(b) <= Cell(p, b, j)
    BY <1>1, <2>3, <2>7, CellsApart
  <2> QED BY <1>1, <1>2, <2>3, <2>4, <2>5, <2>6, <2>8
<1>5. CASE p < q
  BY <1>1, <1>2, <1>3, <1>5
<1>6. CASE q < p
  BY <1>1, <1>2, <1>3, <1>6
<1> QED
  BY <1>1, <1>2, <1>4, <1>5, <1>6

LEMMA InvApart ==
  ASSUME HeapIInv
  PROVE  NoOverlap
<1> SUFFICES ASSUME NEW a \in Held, NEW c \in Held, a < c
             PROVE  a + Regions[a] <= c
  BY DEF NoOverlap
<1>1. ASSUME NEW x \in DOMAIN live
      PROVE  x \in Nat /\ x > placement_pointer /\ heap.end # 0
  <2>1. heap.end # 0
    BY <1>1 DEF HeapIInv, PlacementOK
  <2>2. HeaderOf(x) \in Bins(heap) /\ HeaderOf(x) \in Nat /\ x \in Nat /\ x > HeaderOf(x)
    BY <1>1, <2>1, InvFacts, LiveFacts
  <2> QED BY <2>1, <2>2, InvFacts
<1>2. ASSUME NEW x \in DOMAIN placed
      PROVE  /\ x \in Nat /\ x < placement_pointer /\ placed[x] \in Nat
             /\ x + placed[x] <= placement_pointer
  BY <1>2, InvFacts DEF HeapIInv, PlacementOK
<1>3. placement_pointer \in Nat
  BY InvFacts
<1>4. /\ \A x \in DOMAIN live : Regions[x] = live[x]
      /\ \A x \in DOMAIN placed : Regions[x] = placed[x]
  BY <1>1, <1>2, <1>3 DEF Regions, Held
<1>5. CASE a \in DOMAIN live /\ c \in DOMAIN live
  <2>1. Sound(heap) /\ LiveOK(heap, live) /\ live \in [DOMAIN live -> Nat]
    BY <1>1, <1>5, InvFacts
  <2>2. a + live[a] <= c
    BY <1>5, <2>1, LiveApart
  <2> QED BY <1>4, <1>5, <2>2
<1>6. CASE a \in DOMAIN placed /\ c \in DOMAIN placed
  BY <1>4, <1>6 DEF HeapIInv, PlacementOK
<1>7. CASE a \in DOMAIN placed /\ c \in DOMAIN live
  BY <1>1, <1>2, <1>3, <1>4, <1>7
<1>8. CASE a \in DOMAIN live /\ c \in DOMAIN placed
  BY <1>1, <1>2, <1>3, <1>8
<1> QED
  BY <1>5, <1>6, <1>7, <1>8 DEF Held

(* No byte is handed out twice. *)
THEOREM NoOverlapEver ==
  ASSUME 0 \notin AlignedSizes
  PROVE  Spec => []NoOverlap
<1>1. Init => HeapIInv
  BY InitInv
<1>2. HeapIInv /\ [Next]_vars => HeapIInv'
  BY StepInv
<1>3. HeapIInv => NoOverlap
  BY InvApart
<1> QED
  BY <1>1, <1>2, <1>3, PTL DEF Spec
=============================================================================
