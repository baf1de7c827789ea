---------------------------- MODULE PagingProofs ----------------------------
(***************************************************************************)
(* For any memory, table and address space size, whatever lies in the      *)
(* uncleared part of the bitmap: frames are given once while there are     *)
(* any, the bitmap tells which are given, and all address spaces share the *)
(* kernel's tables and no other.  What is placed at boot stays at its      *)
(* address when paging is switched on, recorded physical addresses are     *)
(* those the mapping gives, and every process has memory of its own.       *)
(***************************************************************************)
EXTENDS Paging, TLAPS, FiniteSetTheorems

KT == directory[kernel_directory].tables
Made == {x \in Indexes : KT[x] # 0}
KernelIndexes == 0..((HEAP_END-1) \div PER_TABLE) \cup {HEAP_TABLE}

(* Where the next free page of either allocator is at the earliest.        *)
Top == IF heap_end = 0 THEN placement_pointer + 1 ELSE heap_end

(* How far the kernel's start has come.                                    *)
Stages ==
  /\ placement_pointer >= START + 3
  /\ pc \in {"heap_table", "identity", "rest", "enabled"} => DOMAIN directory = {kernel_directory}
  /\ pc \in {"heap_table", "identity", "rest"} =>
       Made \subseteq KernelIndexes /\ placement_pointer <= START + 3 + 2 * Cardinality(Made)
  /\ pc = "run" <=> heap_end # 0
  /\ pc = "run" => heap_end > placement_pointer
  /\ pc \in {"init_heap", "run"} => current_directory \in DOMAIN directory \ {kernel_directory}
  /\ pc = "heap_table" => i = 0 /\ DOMAIN pages = {}
  /\ i = 0 => pc \in {"heap_table", "identity"} /\ Mapped = {}
  /\ pc = "identity" => i <= placement_pointer + 1

(* Tables and directories lie below what is allocated next, and a table    *)
(* stands at the same place of every directory it is in.                   *)
Places ==
  /\ \A t \in DOMAIN pages : t < Top
  /\ \A d \in DOMAIN directory : d < Top
  /\ \A d, e \in DOMAIN directory, x, y \in Indexes :
       directory[d].tables[x] = directory[e].tables[y] /\ directory[d].tables[x] # 0 => x = y

(* Frame 0, which alloc_frame does not tell from no frame at all, is page  *)
(* 0's, unless it is the leftover of failed searches.                      *)
FrameZero ==
  /\ i > 0 => 0 \in frames
  /\ \A t \in DOMAIN pages, s \in Slots : pages[t][s] = 0 =>
       \/ t = KT[0] /\ s = 0
       \/ leftover = 0 /\ Free = {}

(* FrameGivenOnce, entry by entry.                                         *)
Once ==
  \A t, u \in DOMAIN pages, s, v \in Slots :
    pages[t][s] = pages[u][v] /\ pages[t][s] # Absent /\ (t # u \/ s # v) =>
      pages[t][s] = leftover /\ Free = {}

(* KernelShared, before paging is on as well.                              *)
Sharing ==
  \A d \in DOMAIN directory : \A x \in Indexes :
    IF KT[x] # 0 THEN directory[d].tables[x] = KT[x]
    ELSE directory[d].tables[x] # 0 => \A e \in DOMAIN directory \ {d} :
           directory[e].tables[x] # directory[d].tables[x]

PagingInv == TypeOK /\ Stages /\ Places /\ FrameZero /\ Once /\ BitmapTruth /\ Sharing

-----------------------------------------------------------------------------
(* Arithmetic.                                                             *)

LEMMA Parameters ==
  /\ nframes \in Nat \ {0} /\ PER_TABLE \in Nat \ {0} /\ HEAP_END \in Nat \ {0}
  /\ START \in Nat \ {0} /\ HEAP_TABLE \in Nat /\ BRK_MAX \in Nat /\ BRK_MAX <= HEAP_END
  /\ kernel_directory \in Nat /\ kernel_directory = START + 1
  /\ Leftovers \subseteq Frames
BY PagingAssumption, LeftoverAssumption DEF kernel_directory, Frames

(* A page number is an index of a table and an entry of it.                *)
LEMMA Split ==
  ASSUME NEW p \in Nat
  PROVE  /\ p \div PER_TABLE \in Nat /\ p % PER_TABLE \in Slots
         /\ p = (p \div PER_TABLE) * PER_TABLE + (p % PER_TABLE)
BY Parameters DEF Slots

LEMMA Product ==
  ASSUME NEW n \in Nat, NEW m \in Nat, n < m
  PROVE  n * PER_TABLE + PER_TABLE <= m * PER_TABLE /\ n * PER_TABLE \in Nat
<1>. DEFINE k == PER_TABLE
<1>1. k \in Nat /\ m - n - 1 \in Nat
  BY Parameters
<1>. HIDE DEF k
<1>2. m * k = n * k + k + (m - n - 1) * k
  BY <1>1
<1>3. (m - n - 1) * k >= 0 /\ n * k \in Nat
  BY <1>1
<1>. QED BY <1>1, <1>2, <1>3 DEF k

LEMMA Join ==
  ASSUME NEW x \in Nat, NEW s \in Slots, NEW y \in Nat, NEW v \in Slots,
         x * PER_TABLE + s = y * PER_TABLE + v
  PROVE  x = y /\ s = v
<1>. DEFINE a == x * PER_TABLE
            b == y * PER_TABLE
<1>1. /\ PER_TABLE \in Nat /\ s \in Nat /\ v \in Nat /\ s < PER_TABLE /\ v < PER_TABLE
      /\ a \in Nat /\ b \in Nat /\ a + s = b + v
  BY Parameters DEF Slots
<1>2. x < y => a + PER_TABLE <= b
  BY Product
<1>3. y < x => b + PER_TABLE <= a
  BY Product
<1>4. x = y => a = b
  OBVIOUS
<1>. HIDE DEF a, b
<1>. QED BY <1>1, <1>2, <1>3, <1>4

LEMMA IndexFacts ==
  /\ Indexes \subseteq Nat /\ 0 \in Indexes /\ HEAP_TABLE \in Indexes
  /\ KernelIndexes \subseteq Indexes
  /\ \A p \in Nat : p < HEAP_END => p \div PER_TABLE \in KernelIndexes
  /\ \A p \in UserPages : p \in Nat /\ p >= 1 /\ p \div PER_TABLE \in Indexes
<1>. DEFINE last == (HEAP_END - 1) \div PER_TABLE
<1>1. last \in Nat /\ Indexes = 0..last \cup {HEAP_TABLE} \cup {p \div PER_TABLE : p \in UserPages}
  BY Parameters DEF Indexes
<1>5. KernelIndexes = 0..last \cup {HEAP_TABLE}
  BY DEF KernelIndexes
<1>2. \A p \in UserPages : p \in Nat /\ p >= 1 /\ p \div PER_TABLE \in Nat
  BY PagingAssumption, Split
<1>3. ASSUME NEW p \in Nat, p < HEAP_END PROVE p \div PER_TABLE \in 0..last
  <2>1. /\ p \div PER_TABLE \in Nat /\ p % PER_TABLE \in Slots
        /\ p = (p \div PER_TABLE) * PER_TABLE + (p % PER_TABLE)
    BY Split
  <2>2. /\ HEAP_END - 1 \in Nat /\ last \in Nat
        /\ (HEAP_END - 1) % PER_TABLE \in Slots
        /\ HEAP_END - 1 = last * PER_TABLE + ((HEAP_END - 1) % PER_TABLE)
    BY Parameters, Split
  <2>3. CASE last < p \div PER_TABLE
    <3>. DEFINE a == last * PER_TABLE
                b == (p \div PER_TABLE) * PER_TABLE
    <3>1. a + PER_TABLE <= b /\ a \in Nat
      BY <2>1, <2>2, <2>3, Product
    <3>2. b \in Nat
      BY <2>1, Parameters
    <3>. HIDE DEF a, b, last
    <3>3. p = b + (p % PER_TABLE) /\ HEAP_END - 1 = a + ((HEAP_END - 1) % PER_TABLE)
      BY <2>1, <2>2 DEF a, b
    <3>4. FALSE
      BY <1>3, <2>1, <2>2, <3>1, <3>2, <3>3, Parameters DEF Slots
    <3>. QED BY <3>4
  <2>. QED BY <2>1, <2>2, <2>3
<1>. HIDE DEF last
<1>4. 0 \in 0..last
  BY <1>1
<1>. QED BY <1>1, <1>2, <1>3, <1>4, <1>5, Parameters

-----------------------------------------------------------------------------
(* What first_frame finds.                                                 *)

LEMMA Lower ==
  ASSUME NEW S \in SUBSET Nat, IsFiniteSet(S), NEW f \in S, NEW g \in S, f < g
  PROVE  Cardinality({h \in S : h < f}) < Cardinality({h \in S : h < g})
<1>. DEFINE A == {h \in S : h < f}
            B == {h \in S : h < g}
<1>1. A \in SUBSET S /\ B \in SUBSET S /\ f \notin A
  OBVIOUS
<1>2. A \cup {f} \in SUBSET B
  <2>1. \A h \in A : h < g
    <3>1. f \in Nat /\ g \in Nat /\ \A h \in S : h \in Nat
      OBVIOUS
    <3>. QED BY <3>1
  <2>. QED BY <1>1, <2>1
<1>3. IsFiniteSet(A) /\ IsFiniteSet(B)
  BY <1>1, FS_Subset
<1>. HIDE DEF A, B
<1>4. Cardinality(A \cup {f}) = Cardinality(A) + 1 /\ Cardinality(A) \in Nat
  BY <1>1, <1>3, FS_AddElement, FS_CardinalityType
<1>5. Cardinality(A \cup {f}) <= Cardinality(B) /\ Cardinality(B) \in Nat
  BY <1>2, <1>3, FS_Subset, FS_CardinalityType
<1>6. Cardinality(A) < Cardinality(B)
  BY <1>4, <1>5
<1>. QED BY <1>6 DEF A, B

(* The number of elements below is a bijection from a set onto the numbers *)
(* less than its size.                                                     *)
LEMMA Nth ==
  ASSUME NEW S \in SUBSET Nat, IsFiniteSet(S), NEW n \in 1..Cardinality(S)
  PROVE  \E f \in S : Cardinality({g \in S : g < f}) = n - 1
<1>. DEFINE k == Cardinality(S)
            T == 0..k-1
            rank == [f \in S |-> Cardinality({g \in S : g < f})]
<1>1. k \in Nat /\ n \in 1..k
  BY FS_CardinalityType
<1>2. ASSUME NEW f \in S PROVE rank[f] \in T
  <2>. DEFINE A == {g \in S : g < f}
  <2>1. A \in SUBSET S /\ A # S
    OBVIOUS
  <2>2. IsFiniteSet(A) /\ Cardinality(A) <= k /\ Cardinality(A) # k /\ Cardinality(A) \in Nat
    <3>. HIDE DEF A
    <3>. QED BY <2>1, FS_Subset, FS_CardinalityType
  <2>. QED BY <1>1, <2>2
<1>3. ASSUME NEW f \in S, NEW g \in S, f # g PROVE rank[f] # rank[g]
  <2>1. CASE f < g
    BY <1>2, <2>1, Lower
  <2>2. CASE g < f
    BY <1>2, <2>2, Lower
  <2>. QED BY <1>3, <2>1, <2>2
<1>4. rank \in [S -> T]
  BY <1>2
<1>. HIDE DEF rank
<1>5. rank \in Injection(S, T)
  BY <1>3, <1>4 DEF Injection, IsInjective
<1>6. IsFiniteSet(T) /\ Cardinality(T) = k
  <2>. HIDE DEF k
  <2>1. 0 \in Int /\ k-1 \in Int /\ (IF 0 > k-1 THEN 0 ELSE (k-1)-0+1) = k
    BY <1>1
  <2>. QED BY <2>1, FS_Interval
<1>7. rank \in Surjection(S, T)
  <2>. HIDE DEF T
  <2>. QED BY <1>5, <1>6, FS_Injection
<1>8. PICK f \in S : rank[f] = n - 1
  BY <1>1, <1>7 DEF Surjection
<1>. QED BY <1>8 DEF rank

LEMMA FreeFinite ==
  ASSUME TypeOK
  PROVE  /\ Free \in SUBSET Frames /\ Frames \in SUBSET Nat /\ leftover \in Frames
         /\ IsFiniteSet(Free) /\ Cardinality(Free) \in Nat
         /\ Cardinality(Free) = 0 <=> Free = {}
<1>1. Free \in SUBSET Frames /\ Frames \in SUBSET Nat /\ leftover \in Frames
  BY Parameters DEF TypeOK, Free, Frames
<1>2. IsFiniteSet(Frames)
  BY Parameters, FS_Interval DEF Frames
<1>. QED BY <1>1, <1>2, FS_Subset, FS_CardinalityType, FS_EmptySet

LEMMA NthFound ==
  ASSUME TypeOK, NEW n \in Nat \ {0}, n <= Cardinality(Free)
  PROVE  NthFree(n) \in Free /\ Cardinality({g \in Free : g < NthFree(n)}) = n - 1
<1>1. n \in 1..Cardinality(Free) /\ Free \in SUBSET Nat /\ IsFiniteSet(Free) /\ ~(Cardinality(Free) < n)
  BY FreeFinite
<1>2. \E f \in Free : Cardinality({g \in Free : g < f}) = n - 1
  BY <1>1, Nth
<1>. QED BY <1>1, <1>2 DEF NthFree

(* The first one is the least, or the leftover if there is none.           *)
LEMMA FirstFound ==
  ASSUME TypeOK
  PROVE  /\ NthFree(1) \in Frames
         /\ Free # {} => NthFree(1) \in Free /\ \A g \in Free : ~(g < NthFree(1))
         /\ Free = {} => NthFree(1) = leftover
<1>1. CASE Free = {}
  BY <1>1, FreeFinite DEF NthFree
<1>2. CASE Free # {}
  <2>. DEFINE f == NthFree(1)
              A == {g \in Free : g < f}
  <2>1. f \in Free /\ Cardinality(A) = 0
    <3>1. 1 <= Cardinality(Free)
      BY <1>2, FreeFinite
    <3>2. f \in Free /\ Cardinality(A) = 1 - 1
      BY <3>1, NthFound
    <3>. QED BY <3>2
  <2>2. A \in SUBSET Free /\ IsFiniteSet(Free)
    BY FreeFinite
  <2>3. A = {}
    <3>. HIDE DEF A
    <3>. QED BY <2>1, <2>2, FS_Subset, FS_EmptySet
  <2>. HIDE DEF f
  <2>4. f \in Frames
    BY <2>1, FreeFinite
  <2>. QED BY <1>2, <2>1, <2>3, <2>4 DEF f
<1>. QED BY <1>1, <1>2

-----------------------------------------------------------------------------
(* Giving a page a frame.                                                  *)

LEMMA PageType ==
  ASSUME TypeOK, NEW t \in DOMAIN pages, NEW s \in Slots
  PROVE  pages[t][s] \in Frames \cup {Absent} /\ (pages[t][s] # Absent => pages[t][s] \in Mapped)
BY DEF TypeOK, Mapped

LEMMA Stored ==
  ASSUME TypeOK, Once, BitmapTruth, NEW t, NEW s \in Slots,
         DOMAIN pages' = DOMAIN pages \cup {t},
         \A u \in DOMAIN pages', v \in Slots : pages'[u][v] =
           IF u = t /\ v = s THEN NthFree(1)
           ELSE IF u \in DOMAIN pages THEN pages[u][v] ELSE Absent,
         t \in DOMAIN pages => pages[t][s] \in {Absent, NthFree(1)},
         frames' = set_frame({NthFree(1)}), UNCHANGED choices
  PROVE  Once' /\ BitmapTruth' /\ frames' \in SUBSET Frames /\ Free' \in SUBSET Free
<1>. DEFINE f == NthFree(1)
<1>1. /\ f \in Frames /\ leftover' = leftover /\ stale' = stale
      /\ Free # {} => f \in Free
      /\ Free = {} => f = leftover
  BY FirstFound DEF choices
<1>2. f # Absent
  BY <1>1, Parameters DEF Frames, Absent
<1>3. frames' = frames \cup {f}
  BY DEF set_frame
<1>. HIDE DEF f
<1>4. Mapped' = Mapped \cup {f}
  <2>1. ASSUME NEW u \in DOMAIN pages', NEW v \in Slots, pages'[u][v] # Absent
        PROVE  pages'[u][v] \in Mapped \cup {f}
    BY <2>1, PageType DEF f
  <2>2. f \in Mapped'
    <3>1. t \in DOMAIN pages' /\ pages'[t][s] = f
      BY DEF f
    <3>. QED BY <3>1, <1>2 DEF Mapped
  <2>3. ASSUME NEW u \in DOMAIN pages, NEW v \in Slots, pages[u][v] # Absent
        PROVE  pages[u][v] \in Mapped'
    <3>1. CASE u = t /\ v = s
      BY <2>3, <3>1, <2>2 DEF f
    <3>2. CASE ~(u = t /\ v = s)
      <4>1. u \in DOMAIN pages' /\ pages'[u][v] = pages[u][v]
        BY <3>2
      <4>. QED BY <2>3, <4>1 DEF Mapped
    <3>. QED BY <3>1, <3>2
  <2>. QED BY <2>1, <2>2, <2>3 DEF Mapped
<1>5. BitmapTruth'
  BY <1>1, <1>3, <1>4 DEF BitmapTruth
<1>6. frames' \in SUBSET Frames /\ Free' \in SUBSET Free
  BY <1>1, <1>3 DEF TypeOK, Free
<1>7. Once'
  <2>. SUFFICES ASSUME NEW u \in DOMAIN pages', NEW w \in DOMAIN pages',
                       NEW v \in Slots, NEW z \in Slots,
                       pages'[u][v] = pages'[w][z], pages'[u][v] # Absent, u # w \/ v # z
                PROVE  pages'[u][v] = leftover /\ Free = {}
    BY <1>1, <1>6 DEF Once
  <2>1. ASSUME f \in Mapped PROVE f = leftover /\ Free = {}
    BY <1>1, <2>1 DEF BitmapTruth, Free
  <2>2. CASE u = t /\ v = s
    <3>1. pages'[u][v] = f /\ w \in DOMAIN pages /\ pages[w][z] = f
      BY <2>2 DEF f
    <3>. QED BY <1>2, <2>1, <3>1, PageType
  <2>3. CASE w = t /\ z = s
    <3>1. pages'[u][v] = f /\ u \in DOMAIN pages /\ pages[u][v] = f
      BY <2>3 DEF f
    <3>. QED BY <1>2, <2>1, <3>1, PageType
  <2>4. CASE ~(u = t /\ v = s) /\ ~(w = t /\ z = s)
    <3>1. /\ u \in DOMAIN pages /\ pages'[u][v] = pages[u][v]
          /\ w \in DOMAIN pages /\ pages'[w][z] = pages[w][z]
          /\ pages[u][v] = pages[w][z] /\ pages[u][v] # Absent
      BY <2>4
    <3>. QED BY <3>1 DEF Once
  <2>. QED BY <2>2, <2>3, <2>4
<1>. QED BY <1>5, <1>6, <1>7

-----------------------------------------------------------------------------
(* The kernel's start.                                                     *)

LEMMA Begins == Init => PagingInv
<1>. SUFFICES ASSUME Init PROVE PagingInv
  OBVIOUS
<1>1. DOMAIN directory = {kernel_directory} /\ directory[kernel_directory] = EmptyDirectory
  BY DEF Init
<1>2. KT = [x \in Indexes |-> 0]
  BY <1>1 DEF KT, EmptyDirectory
<1>3. DOMAIN pages = {} /\ Mapped = {}
  BY DEF Init, Mapped
<1>4. Made = {} /\ Cardinality(Made) = 0
  <2>1. Made = {}
    BY <1>2 DEF Made
  <2>. QED BY <2>1, FS_EmptySet
<1>5. TypeOK
  <2>1. EmptyDirectory \in [tables : [Indexes -> DOMAIN pages \cup {0}],
                            tablesPhysical : [Indexes -> Int], physicalAddr : Int]
    BY DEF EmptyDirectory
  <2>2. directory \in [DOMAIN directory ->
          [tables : [Indexes -> DOMAIN pages \cup {0}], tablesPhysical : [Indexes -> Int],
           physicalAddr : Int]]
    BY <2>1 DEF Init
  <2>3. pages \in [DOMAIN pages -> [Slots -> Frames \cup {Absent}]]
    BY <1>3 DEF Init
  <2>4. memory \in [Frames -> Values]
    BY DEF Init
  <2>5. kernel_directory \in Nat \ {0}
    BY Parameters
  <2>. QED BY <1>1, <1>3, <2>2, <2>3, <2>4, <2>5, Parameters DEF TypeOK, Init
<1>6. Stages
  BY <1>1, <1>3, <1>4, Parameters DEF Stages, Init
<1>7. Places
  <2>1. \A d \in DOMAIN directory : \A x \in Indexes : directory[d].tables[x] = 0
    BY <1>1, <1>2 DEF KT
  <2>2. \A d \in DOMAIN directory : d < Top
    BY <1>1, Parameters DEF Top, Init
  <2>. QED BY <1>3, <2>1, <2>2 DEF Places
<1>8. FrameZero /\ Once
  BY <1>3 DEF FrameZero, Once, Init
<1>9. BitmapTruth
  BY <1>3 DEF BitmapTruth, Init
<1>10. Sharing
  BY <1>1, <1>2 DEF Sharing, KT
<1>. QED BY <1>5, <1>6, <1>7, <1>8, <1>9, <1>10 DEF PagingInv

LEMMA KernelEntry ==
  ASSUME TypeOK
  PROVE  /\ KT \in [Indexes -> DOMAIN pages \cup {0}]
         /\ directory[kernel_directory] \in
              [tables : [Indexes -> DOMAIN pages \cup {0}], tablesPhysical : [Indexes -> Int],
               physicalAddr : Int]
BY DEF TypeOK, KT

LEMMA FewIndexes ==
  /\ IsFiniteSet(KernelIndexes)
  /\ Cardinality(KernelIndexes) \in Nat
  /\ START + 3 + 2 * Cardinality(KernelIndexes) < HEAP_END
<1>. DEFINE last == (HEAP_END-1) \div PER_TABLE
            S == 0..last
<1>1. last \in Nat
  BY Parameters
<1>2. START + 3 + 2 * (last + 2) < HEAP_END
  BY BootFits
<1>. HIDE DEF last
<1>4. IsFiniteSet(S) /\ Cardinality(S) = last + 1
  <2>1. 0 \in Int /\ last \in Int /\ (IF 0 > last THEN 0 ELSE last - 0 + 1) = last + 1
    BY <1>1
  <2>. QED BY <2>1, FS_Interval
<1>. HIDE DEF S
<1>5. /\ IsFiniteSet(S \cup {HEAP_TABLE})
      /\ Cardinality(S \cup {HEAP_TABLE}) = IF HEAP_TABLE \in S THEN Cardinality(S) ELSE Cardinality(S)+1
  BY <1>4, FS_AddElement
<1>6. KernelIndexes = S \cup {HEAP_TABLE}
  BY DEF KernelIndexes, S, last
<1>7. Cardinality(KernelIndexes) \in Nat /\ Cardinality(KernelIndexes) <= last + 2
  BY <1>1, <1>4, <1>5, <1>6
<1>. QED BY <1>1, <1>2, <1>5, <1>6, <1>7, Parameters

(* All that is placed before the heap stays below KHEAP_END.               *)
LEMMA PlacedBelow ==
  ASSUME PagingInv, pc \in {"heap_table", "identity", "rest"}
  PROVE  placement_pointer + 1 <= HEAP_END
<1>6. Made \in SUBSET KernelIndexes /\ placement_pointer <= START + 3 + 2 * Cardinality(Made)
  BY DEF PagingInv, Stages
<1>7. /\ Cardinality(Made) <= Cardinality(KernelIndexes)
      /\ Cardinality(Made) \in Nat /\ Cardinality(KernelIndexes) \in Nat
  BY <1>6, FewIndexes, FS_Subset, FS_CardinalityType
<1>8. placement_pointer \in Nat
  BY DEF PagingInv, TypeOK
<1>. QED BY <1>6, <1>7, <1>8, FewIndexes, Parameters

(* A directory with an entry changed.                                      *)
LEMMA DirectoryUpdate ==
  ASSUME NEW I, NEW S, NEW T, S \subseteq T, NEW x \in I, NEW v \in T, NEW w \in Int,
         NEW D \in [tables : [I -> S], tablesPhysical : [I -> Int], physicalAddr : Int],
         NEW E, E = [D EXCEPT !.tables = [D.tables EXCEPT ![x] = v],
                              !.tablesPhysical = [D.tablesPhysical EXCEPT ![x] = w]]
  PROVE  /\ E \in [tables : [I -> T], tablesPhysical : [I -> Int], physicalAddr : Int]
         /\ E.tables = [D.tables EXCEPT ![x] = v]
<1>. DEFINE f == D.tables
            g == D.tablesPhysical
            a == D.physicalAddr
<1>1. D = [tables |-> f, tablesPhysical |-> g, physicalAddr |-> a]
  OBVIOUS
<1>2. f \in [I -> S] /\ g \in [I -> Int] /\ a \in Int
  OBVIOUS
<1>. HIDE DEF f, g, a
<1>3. E = [tables |-> [f EXCEPT ![x] = v], tablesPhysical |-> [g EXCEPT ![x] = w],
           physicalAddr |-> a]
  BY <1>1
<1>4. [f EXCEPT ![x] = v] \in [I -> T] /\ [g EXCEPT ![x] = w] \in [I -> Int]
  BY <1>2
<1>. QED BY <1>1, <1>2, <1>3, <1>4

LEMMA TableMade ==
  ASSUME PagingInv, pc \in {"heap_table", "identity", "rest"}, NEW x \in KernelIndexes, KT[x] = 0,
         MakeTable(x), heap_end' = heap_end, DOMAIN pages' = DOMAIN pages \cup {Placed}
  PROVE  /\ Placed = placement_pointer + 1 /\ placement_pointer' = placement_pointer + 2
         /\ Placed \in Nat \ {0} /\ Placed \notin DOMAIN pages
         /\ DOMAIN directory' = {kernel_directory}
         /\ directory' \in [DOMAIN directory' ->
              [tables : [Indexes -> DOMAIN pages' \cup {0}], tablesPhysical : [Indexes -> Int],
               physicalAddr : Int]]
         /\ KT' = [KT EXCEPT ![x] = Placed]
         /\ Made' \subseteq KernelIndexes
         /\ placement_pointer' <= START + 3 + 2 * Cardinality(Made')
         /\ Places' /\ Sharing'
<1>. USE DEF PagingInv
<1>1. /\ placement_pointer \in Nat /\ heap_end = 0 /\ DOMAIN directory = {kernel_directory}
      /\ Placed = placement_pointer + 1 /\ placement_pointer' = placement_pointer + 2
      /\ placement_pointer >= START + 3 /\ DOMAIN pages \subseteq Nat \ {0}
  BY DEF TypeOK, Stages, MakeTable, Placed
<1>2. Top = Placed /\ Top' = placement_pointer + 3
  BY <1>1 DEF Top
<1>3. Placed \in Nat \ {0} /\ Placed \notin DOMAIN pages
  BY <1>1, <1>2 DEF Places
<1>4. x \in Indexes
  BY IndexFacts
<1>. DEFINE K == kernel_directory
            D == directory[K]
            E == [D EXCEPT !.tables = [KT EXCEPT ![x] = Placed],
                           !.tablesPhysical = [D.tablesPhysical EXCEPT ![x] = Placed]]
<1>5. DOMAIN directory' = {K} /\ directory'[K] = E
  BY <1>1 DEF MakeTable, KT
<1>6. D \in [tables : [Indexes -> DOMAIN pages \cup {0}], tablesPhysical : [Indexes -> Int],
             physicalAddr : Int] /\ KT \in [Indexes -> DOMAIN pages \cup {0}]
  BY KernelEntry
<1>7. E \in [tables : [Indexes -> DOMAIN pages' \cup {0}], tablesPhysical : [Indexes -> Int],
             physicalAddr : Int] /\ E.tables = [KT EXCEPT ![x] = Placed]
  <2>. DEFINE S == DOMAIN pages \cup {0}
              T == DOMAIN pages' \cup {0}
  <2>1. /\ S \subseteq T /\ Placed \in T /\ Placed \in Int
        /\ D \in [tables : [Indexes -> S], tablesPhysical : [Indexes -> Int], physicalAddr : Int]
    BY <1>3, <1>6
  <2>2. E = [D EXCEPT !.tables = [D.tables EXCEPT ![x] = Placed],
                      !.tablesPhysical = [D.tablesPhysical EXCEPT ![x] = Placed]]
    BY DEF KT
  <2>3. KT = D.tables
    BY DEF KT
  <2>. HIDE DEF S, T, D, E
  <2>4. /\ E \in [tables : [Indexes -> T], tablesPhysical : [Indexes -> Int], physicalAddr : Int]
        /\ E.tables = [D.tables EXCEPT ![x] = Placed]
    BY <1>4, <2>1, <2>2, DirectoryUpdate
  <2>. QED BY <2>3, <2>4 DEF T
<1>8. KT' = [KT EXCEPT ![x] = Placed]
  BY <1>5, <1>7 DEF KT
<1>9. directory' \in [DOMAIN directory' ->
        [tables : [Indexes -> DOMAIN pages' \cup {0}], tablesPhysical : [Indexes -> Int],
         physicalAddr : Int]]
  <2>1. directory' = [d \in DOMAIN directory' |-> directory'[d]]
    <3>1. directory = [d \in DOMAIN directory |-> directory[d]]
      BY DEF TypeOK
    <3>. QED BY <3>1 DEF MakeTable
  <2>. HIDE DEF E
  <2>. QED BY <1>5, <1>7, <2>1
<1>. HIDE DEF E, D
<1>10. Made' = Made \cup {x} /\ x \notin Made
  BY <1>3, <1>4, <1>6, <1>8 DEF Made
<1>11. Made \subseteq KernelIndexes /\ placement_pointer <= START + 3 + 2 * Cardinality(Made)
  BY DEF Stages
<1>12. IsFiniteSet(Made)
  BY <1>11, FewIndexes, FS_Subset
<1>13. Cardinality(Made') = Cardinality(Made) + 1 /\ Cardinality(Made) \in Nat
  BY <1>10, <1>12, FS_AddElement, FS_CardinalityType
<1>14. placement_pointer' <= START + 3 + 2 * Cardinality(Made')
  BY <1>1, <1>11, <1>13, Parameters
<1>15. Places'
  <2>1. \A t \in DOMAIN pages' : t < Top'
    BY <1>1, <1>2 DEF Places
  <2>2. \A d \in DOMAIN directory' : d < Top'
    BY <1>1, <1>2, <1>5, Parameters
  <2>3. \A y, z \in Indexes : KT'[y] = KT'[z] /\ KT'[y] # 0 => y = z
    <3>1. \A y, z \in Indexes : KT[y] = KT[z] /\ KT[y] # 0 => y = z
      BY <1>1 DEF Places, KT
    <3>. QED BY <1>3, <1>6, <1>8, <3>1
  <2>. QED BY <1>5, <2>1, <2>2, <2>3 DEF Places, KT
<1>16. Sharing'
  BY <1>5 DEF Sharing, KT
<1>. QED BY <1>1, <1>3, <1>5, <1>8, <1>9, <1>10, <1>11, <1>14, <1>15, <1>16

LEMMA HeapTableStep == PagingInv /\ HeapTable => PagingInv'
<1>. SUFFICES ASSUME PagingInv, HeapTable PROVE PagingInv'
  OBVIOUS
<1>1. /\ pc = "heap_table" /\ pc' = "identity" /\ i = 0 /\ i' = 0 /\ DOMAIN pages = {}
      /\ heap_end' = heap_end /\ heap_end = 0
  BY DEF PagingInv, Stages, HeapTable
<1>2. HEAP_TABLE \in KernelIndexes /\ HEAP_TABLE \in Indexes
  BY IndexFacts DEF KernelIndexes
<1>3. KT[HEAP_TABLE] = 0
  BY <1>1, <1>2, KernelEntry DEF PagingInv
<1>4. /\ DOMAIN pages' = {Placed} /\ DOMAIN pages' = DOMAIN pages \cup {Placed}
      /\ pages' = [t \in {Placed} |-> EmptyTable]
  BY <1>1 DEF HeapTable, With
<1>5. MakeTable(HEAP_TABLE)
  BY DEF HeapTable
<1>6. /\ Placed \in Nat \ {0} /\ placement_pointer' = placement_pointer + 2
      /\ DOMAIN directory' = {kernel_directory}
      /\ directory' \in [DOMAIN directory' ->
           [tables : [Indexes -> DOMAIN pages' \cup {0}], tablesPhysical : [Indexes -> Int],
            physicalAddr : Int]]
      /\ Made' \subseteq KernelIndexes
      /\ placement_pointer' <= START + 3 + 2 * Cardinality(Made')
      /\ Places' /\ Sharing'
  BY <1>1, <1>2, <1>3, <1>4, <1>5, TableMade
<1>7. pages' \in [DOMAIN pages' -> [Slots -> Frames \cup {Absent}]]
  BY <1>4 DEF EmptyTable
<1>8. TypeOK'
  <2>1. TypeOK /\ placement_pointer \in Nat /\ placement_pointer >= START + 3
    BY DEF PagingInv, TypeOK, Stages
  <2>2. /\ frames' = frames /\ stale' = stale /\ leftover' = leftover /\ memory' = memory
        /\ current_directory' = current_directory
    BY DEF HeapTable, choices
  <2>3. DOMAIN directory = {kernel_directory} /\ kernel_directory \in Nat \ {0}
    BY <1>1, Parameters DEF PagingInv, Stages
  <2>4. placement_pointer' \in Nat /\ kernel_directory' = kernel_directory
    BY <1>6, <2>1 DEF kernel_directory
  <2>. QED BY <1>1, <1>4, <1>6, <1>7, <2>1, <2>2, <2>3, <2>4 DEF TypeOK
<1>9. Mapped' = {}
  BY <1>4 DEF Mapped, EmptyTable
<1>10. Mapped = {}
  BY <1>1 DEF Mapped
<1>11. Stages'
  <2>1. placement_pointer \in Nat /\ placement_pointer >= START + 3
    BY DEF PagingInv, TypeOK, Stages
  <2>2. placement_pointer' >= START + 3 /\ i' <= placement_pointer' + 1
    BY <1>1, <1>6, <2>1, Parameters
  <2>. QED BY <1>1, <1>6, <1>9, <2>2 DEF Stages
<1>12. FrameZero' /\ Once'
  <2>1. \A t \in DOMAIN pages', s \in Slots : pages'[t][s] = Absent
    BY <1>4 DEF EmptyTable
  <2>2. Absent # 0
    BY DEF Absent
  <2>. QED BY <1>1, <2>1, <2>2 DEF FrameZero, Once
<1>13. BitmapTruth'
  BY <1>9, <1>10 DEF BitmapTruth, HeapTable, PagingInv, choices
<1>. QED BY <1>6, <1>8, <1>11, <1>12, <1>13 DEF PagingInv

(* An entry of a table of the kernel's: page i is not mapped yet, or was   *)
(* given frame 0 when nothing else was left.                               *)
LEMMA BootPageStep ==
  ASSUME PagingInv, pc \in {"identity", "rest"}, i < HEAP_END, BootPage(i),
         pc = "identity" => i < placement_pointer + 1,
         i' = i + 1, UNCHANGED <<choices, heap_end, current_directory, memory, pc>>
  PROVE  PagingInv'
<1>. DEFINE x == i \div PER_TABLE
            s == i % PER_TABLE
            f == NthFree(1)
<1>. USE DEF PagingInv
<1>1. /\ i \in Nat /\ x \in Nat /\ s \in Slots /\ x \in KernelIndexes /\ x \in Indexes
      /\ i = x * PER_TABLE + s
  BY Split, IndexFacts DEF TypeOK
<1>2. /\ f \in Frames /\ f # Absent /\ f \in Nat
      /\ Free # {} => f \in Free /\ \A g \in Free : ~(g < f)
      /\ Free = {} => f = leftover
  BY FirstFound, FreeFinite DEF Frames, Absent
<1>3. /\ heap_end = 0 /\ DOMAIN directory = {kernel_directory}
      /\ pc' = pc /\ stale' = stale /\ leftover' = leftover /\ heap_end' = heap_end
      /\ current_directory' = current_directory /\ memory' = memory
  BY DEF Stages, choices
<1>4. i = 0 => 0 \in Frames
  BY Parameters DEF Frames
(* Frame 0 is given by the first step at the latest. *)
<1>5. i > 0 => f # 0 \/ (leftover = 0 /\ Free = {})
  BY <1>2 DEF FrameZero, Free
<1>6. frames' = set_frame({f}) => 0 \in frames'
  <2>1. CASE i > 0
    BY <2>1 DEF FrameZero, set_frame
  <2>2. CASE ~(i > 0)
    <3>1. i = 0
      BY <1>1, <2>2
    <3>2. CASE 0 \in frames
      BY <3>2 DEF set_frame
    <3>3. CASE 0 \notin frames
      <4>1. 0 \in Free
        BY <1>4, <3>1, <3>3 DEF Free
      <4>2. f = 0
        BY <1>2, <4>1
      <4>. QED BY <4>2 DEF set_frame
    <3>. QED BY <3>2, <3>3
  <2>. QED BY <2>1, <2>2
<1>. HIDE DEF x, s, f
<1>7. CASE KT[x] = 0
  <2>1. /\ MakeTable(x) /\ frames' = set_frame({f})
        /\ pages' = With(pages, Placed, [EmptyTable EXCEPT ![s] = f])
    BY <1>7 DEF BootPage, KT, x, s, f
  <2>2. DOMAIN pages' = DOMAIN pages \cup {Placed}
    BY <2>1 DEF With
  <2>3. /\ placement_pointer' = placement_pointer + 2 /\ placement_pointer \in Nat
        /\ Placed \in Nat \ {0} /\ Placed \notin DOMAIN pages
        /\ DOMAIN directory' = {kernel_directory}
        /\ directory' \in [DOMAIN directory' ->
             [tables : [Indexes -> DOMAIN pages' \cup {0}], tablesPhysical : [Indexes -> Int],
              physicalAddr : Int]]
        /\ KT' = [KT EXCEPT ![x] = Placed]
        /\ Made' \subseteq KernelIndexes
        /\ placement_pointer' <= START + 3 + 2 * Cardinality(Made')
        /\ Places' /\ Sharing'
    <3>1. placement_pointer \in Nat
      BY DEF TypeOK
    <3>. QED BY <1>1, <1>3, <1>7, <2>1, <2>2, <3>1, TableMade
  <2>4. \A u \in DOMAIN pages', v \in Slots : pages'[u][v] =
          IF u = Placed /\ v = s THEN f
          ELSE IF u \in DOMAIN pages THEN pages[u][v] ELSE Absent
    <3>1. [EmptyTable EXCEPT ![s] = f] = [v \in Slots |-> IF v = s THEN f ELSE Absent]
      BY DEF EmptyTable
    <3>. QED BY <2>1, <2>2, <2>3, <3>1 DEF With
  <2>5. Once' /\ BitmapTruth' /\ frames' \in SUBSET Frames /\ Free' \in SUBSET Free
    <3>1. UNCHANGED choices
      BY <1>3 DEF choices
    <3>2. frames' = set_frame({NthFree(1)})
      BY <2>1 DEF f
    <3>3. \A u \in DOMAIN pages', v \in Slots : pages'[u][v] =
            IF u = Placed /\ v = s THEN NthFree(1)
            ELSE IF u \in DOMAIN pages THEN pages[u][v] ELSE Absent
      BY <2>4 DEF f
    <3>4. Placed \in DOMAIN pages => pages[Placed][s] \in {Absent, NthFree(1)}
      BY <2>3
    <3>5. TypeOK /\ Once /\ BitmapTruth
      OBVIOUS
    <3>. QED BY ONLY <1>1, <2>2, <3>1, <3>2, <3>3, <3>4, <3>5, Stored
  <2>6. pages' \in [DOMAIN pages' -> [Slots -> Frames \cup {Absent}]]
    <3>1. [EmptyTable EXCEPT ![s] = f] \in [Slots -> Frames \cup {Absent}]
      BY <1>2 DEF EmptyTable
    <3>2. pages \in [DOMAIN pages -> [Slots -> Frames \cup {Absent}]]
      BY DEF TypeOK
    <3>. QED BY <2>1, <3>1, <3>2 DEF With
  <2>7. TypeOK'
    BY <1>1, <1>3, <2>2, <2>3, <2>5, <2>6, Parameters DEF TypeOK
  <2>8. Stages'
    <3>1. placement_pointer' >= START + 3
      BY <2>3, Parameters DEF Stages
    <3>2. i' # 0 /\ (pc = "identity" => i' <= placement_pointer' + 1)
      BY <1>1, <2>3
    <3>3. /\ pc' \in {"identity", "rest"} /\ heap_end' = 0
      BY <1>3
    <3>. QED BY <2>3, <3>1, <3>2, <3>3 DEF Stages
  <2>9. FrameZero'
    <3>1. \A u \in DOMAIN pages', v \in Slots : pages'[u][v] = 0 =>
            (u = KT'[0] /\ v = 0) \/ (leftover = 0 /\ Free = {})
      <4>. SUFFICES ASSUME NEW u \in DOMAIN pages', NEW v \in Slots, pages'[u][v] = 0,
                           ~(leftover = 0 /\ Free = {})
                    PROVE  u = KT'[0] /\ v = 0
        OBVIOUS
      <4>1. CASE u = Placed /\ v = s
        <5>1. f = 0
          BY <2>4, <4>1
        <5>2. i = 0
          BY <1>1, <1>5, <5>1
        <5>3. x = 0 /\ s = 0
          <6>1. 0 * PER_TABLE + 0 = x * PER_TABLE + s /\ 0 \in Slots
            BY <1>1, <5>2, Parameters DEF Slots
          <6>. QED BY <1>1, <6>1, Join
        <5>4. KT'[0] = Placed
          BY <1>1, <2>3, <5>3, KernelEntry
        <5>. QED BY <4>1, <5>3, <5>4
      <4>2. CASE ~(u = Placed /\ v = s)
        <5>1. Absent # 0
          BY DEF Absent
        <5>2. u \in DOMAIN pages /\ pages[u][v] = 0
          BY <2>4, <4>2, <5>1
        <5>3. u = KT[0] /\ v = 0
          BY <5>2 DEF FrameZero
        <5>4. KT[0] # 0 /\ x # 0
          BY <1>7, <5>2, <5>3 DEF TypeOK
        <5>5. KT'[0] = KT[0]
          BY <2>3, <5>4, IndexFacts, KernelEntry
        <5>. QED BY <5>3, <5>5
      <4>. QED BY <4>1, <4>2
    <3>. QED BY <1>1, <1>3, <1>6, <2>1, <2>5, <3>1 DEF FrameZero
  <2>. QED BY <2>3, <2>5, <2>7, <2>8, <2>9
<1>8. CASE KT[x] # 0
  <2>. DEFINE t == KT[x]
  <2>1. /\ IF HasFrame(pages[t][s])
           THEN UNCHANGED <<pages, frames>>
           ELSE pages' = [pages EXCEPT ![t][s] = f] /\ frames' = set_frame({f})
        /\ directory' = directory /\ placement_pointer' = placement_pointer
    BY <1>8 DEF BootPage, KT, x, s, f
  <2>2. t \in DOMAIN pages
    BY <1>1, <1>8, KernelEntry
  <2>3. KT' = KT /\ Made' = Made /\ Top' = Top
    BY <1>3, <2>1 DEF KT, Made, Top
  <2>. HIDE DEF t
  <2>4. CASE HasFrame(pages[t][s])
    <3>1. pages' = pages /\ frames' = frames
      BY <2>1, <2>4
    <3>2. pages[t][s] # Absent /\ Mapped # {}
      BY <1>1, <2>2, <2>4, PageType DEF HasFrame, Absent
    <3>3. i > 0
      BY <1>1, <3>2 DEF Stages
    <3>4. TypeOK'
      BY <1>1, <1>3, <2>1, <3>1 DEF TypeOK
    <3>5. Stages'
      BY <1>1, <1>3, <2>1, <2>3, <3>1 DEF Stages, TypeOK
    <3>6. Places'
      BY <2>1, <2>3, <3>1 DEF Places
    <3>7. FrameZero' /\ Once' /\ BitmapTruth'
      <4>1. Free' = Free /\ Mapped' = Mapped
        BY <3>1 DEF Free, Mapped
      <4>. QED BY <1>1, <1>3, <2>3, <3>1, <3>3, <4>1 DEF FrameZero, Once, BitmapTruth
    <3>8. Sharing'
      BY <2>1, <2>3 DEF Sharing
    <3>. QED BY <3>4, <3>5, <3>6, <3>7, <3>8
  <2>5. CASE ~HasFrame(pages[t][s])
    <3>1. pages' = [pages EXCEPT ![t][s] = f] /\ frames' = set_frame({f})
      BY <2>1, <2>5
    <3>2. DOMAIN pages' = DOMAIN pages /\ DOMAIN pages' = DOMAIN pages \cup {t}
      BY <2>2, <3>1
    <3>3. pages \in [DOMAIN pages -> [Slots -> Frames \cup {Absent}]]
      BY DEF TypeOK
    <3>4. pages' \in [DOMAIN pages' -> [Slots -> Frames \cup {Absent}]]
      BY <1>2, <3>1, <3>2, <3>3
    <3>5. \A u \in DOMAIN pages', v \in Slots : pages'[u][v] =
            IF u = t /\ v = s THEN f
            ELSE IF u \in DOMAIN pages THEN pages[u][v] ELSE Absent
      BY <1>1, <2>2, <3>1, <3>2, <3>3
    <3>6. pages[t][s] \in {Absent, f}
      <4>1. pages[t][s] \in {Absent, 0}
        BY <1>1, <2>2, <2>5, PageType, FreeFinite DEF HasFrame, Absent
      <4>2. ASSUME pages[t][s] = 0 PROVE f = 0
        <5>1. pages[t][s] \in Mapped
          BY <1>1, <2>2, <4>2, PageType DEF Absent
        <5>2. i > 0
          BY <1>1, <5>1 DEF Stages
        <5>3. CASE leftover = 0 /\ Free = {}
          BY <1>2, <5>3
        <5>4. CASE ~(leftover = 0 /\ Free = {})
          <6>1. KT[x] = KT[0] /\ s = 0
            BY <1>1, <2>2, <4>2, <5>4 DEF FrameZero, t
          <6>2. x = 0
            BY <1>1, <1>3, <1>8, <6>1, IndexFacts DEF Places, KT
          <6>3. i = 0
            BY <1>1, <6>1, <6>2, Parameters
          <6>. QED BY <5>2, <6>3
        <5>. QED BY <5>3, <5>4
      <4>. QED BY <4>1, <4>2
    <3>7. Once' /\ BitmapTruth' /\ frames' \in SUBSET Frames /\ Free' \in SUBSET Free
      <4>1. UNCHANGED choices
        BY <1>3 DEF choices
      <4>2. frames' = set_frame({NthFree(1)})
        BY <3>1 DEF f
      <4>3. \A u \in DOMAIN pages', v \in Slots : pages'[u][v] =
              IF u = t /\ v = s THEN NthFree(1)
              ELSE IF u \in DOMAIN pages THEN pages[u][v] ELSE Absent
        BY <3>5 DEF f
      <4>4. t \in DOMAIN pages => pages[t][s] \in {Absent, NthFree(1)}
        BY <3>6 DEF f
      <4>5. TypeOK /\ Once /\ BitmapTruth
        OBVIOUS
      <4>6. s \in Slots /\ DOMAIN pages' = DOMAIN pages \cup {t}
        BY <1>1, <3>2
      <4>. QED BY ONLY <4>1, <4>2, <4>3, <4>4, <4>5, <4>6, Stored
    <3>8. TypeOK'
      BY <1>1, <1>3, <2>1, <3>2, <3>4, <3>7 DEF TypeOK
    <3>9. Stages'
      BY <1>1, <1>3, <2>1, <2>3 DEF Stages, TypeOK
    <3>10. Places'
      BY <2>1, <2>3, <3>2 DEF Places
    <3>11. FrameZero'
      <4>1. \A u \in DOMAIN pages', v \in Slots : pages'[u][v] = 0 =>
              (u = KT'[0] /\ v = 0) \/ (leftover = 0 /\ Free = {})
        <5>. SUFFICES ASSUME NEW u \in DOMAIN pages', NEW v \in Slots, pages'[u][v] = 0,
                             ~(leftover = 0 /\ Free = {})
                      PROVE  u = KT[0] /\ v = 0
          BY <2>3
        <5>1. CASE u = t /\ v = s
          <6>1. f = 0
            BY <3>5, <5>1
          <6>2. i = 0
            BY <1>1, <1>5, <6>1
          <6>3. x = 0 /\ s = 0
            <7>1. 0 * PER_TABLE + 0 = x * PER_TABLE + s /\ 0 \in Slots
              BY <1>1, <6>2, Parameters DEF Slots
            <7>. QED BY <1>1, <7>1, Join
          <6>. QED BY <5>1, <6>3 DEF t
        <5>2. CASE ~(u = t /\ v = s)
          <6>1. u \in DOMAIN pages /\ pages[u][v] = 0
            BY <3>2, <3>5, <5>2
          <6>. QED BY <6>1 DEF FrameZero
        <5>. QED BY <5>1, <5>2
      <4>. QED BY <1>1, <1>3, <1>6, <3>1, <3>7, <4>1 DEF FrameZero
    <3>12. Sharing'
      BY <2>1, <2>3 DEF Sharing
    <3>. QED BY <3>7, <3>8, <3>9, <3>10, <3>11, <3>12
  <2>. QED BY <2>4, <2>5
<1>. QED BY <1>7, <1>8

LEMMA BootIdentityStep == PagingInv /\ BootIdentity => PagingInv'
<1>. SUFFICES ASSUME PagingInv, BootIdentity PROVE PagingInv'
  OBVIOUS
<1>1. pc = "identity" /\ i < placement_pointer + 1 /\ i \in Nat /\ placement_pointer \in Nat
  BY DEF BootIdentity, PagingInv, TypeOK
<1>2. i < HEAP_END
  BY <1>1, PlacedBelow, Parameters
<1>. QED BY <1>1, <1>2, BootPageStep DEF BootIdentity

LEMMA BootRestStep == PagingInv /\ BootRest => PagingInv'
BY BootPageStep DEF BootRest

-----------------------------------------------------------------------------
(* The steps that give no frame.                                           *)

LEMMA Untouched ==
  ASSUME PagingInv, i > 0, pages' = pages, frames' = frames, UNCHANGED choices,
         DOMAIN directory' = DOMAIN directory,
         \A d \in DOMAIN directory : directory'[d].tables = directory[d].tables,
         Top' \in Nat, Top <= Top'
  PROVE  /\ Places' /\ FrameZero' /\ Once' /\ BitmapTruth' /\ Sharing'
         /\ Made' = Made /\ Mapped' = Mapped
<1>. USE DEF PagingInv
<1>1. KT' = KT /\ Free' = Free /\ Mapped' = Mapped /\ leftover' = leftover /\ stale' = stale
  BY DEF KT, Free, Mapped, choices, TypeOK
<1>2. Made' = Made
  BY <1>1 DEF Made
<1>3. Places'
  <2>1. Top \in Nat /\ DOMAIN pages \subseteq Nat /\ DOMAIN directory \subseteq Nat
    BY DEF Top, TypeOK
  <2>2. \A t \in DOMAIN pages' : t < Top'
    BY <2>1 DEF Places
  <2>3. \A d \in DOMAIN directory' : d < Top'
    BY <2>1 DEF Places
  <2>4. \A d, e \in DOMAIN directory', x, y \in Indexes :
          directory'[d].tables[x] = directory'[e].tables[y] /\ directory'[d].tables[x] # 0 => x = y
    BY DEF Places
  <2>. QED BY <2>2, <2>3, <2>4 DEF Places
<1>4. FrameZero' /\ Once' /\ BitmapTruth'
  BY <1>1 DEF FrameZero, Once, BitmapTruth
<1>5. Sharing'
  BY <1>1 DEF Sharing
<1>. QED BY <1>1, <1>2, <1>3, <1>4, <1>5

LEMMA BootNextLoopStep == PagingInv /\ BootNextLoop => PagingInv'
<1>. SUFFICES ASSUME PagingInv, BootNextLoop PROVE PagingInv'
  OBVIOUS
<1>. USE DEF PagingInv
<1>. DEFINE K == kernel_directory
            D == directory[K]
            E == [D EXCEPT !.physicalAddr = K + 1]
<1>1. /\ pc = "identity" /\ pc' = "rest" /\ i \in Nat /\ i > 0
      /\ i' = placement_pointer /\ placement_pointer \in Nat /\ placement_pointer > 0
      /\ heap_end = 0 /\ DOMAIN directory = {K}
  BY Parameters DEF BootNextLoop, TypeOK, Stages
<1>2. /\ frames' = frames /\ stale' = stale /\ leftover' = leftover /\ pages' = pages
      /\ placement_pointer' = placement_pointer /\ heap_end' = heap_end
      /\ current_directory' = current_directory /\ memory' = memory
      /\ directory' = [directory EXCEPT ![K] = E]
  BY DEF BootNextLoop, choices
<1>3. E.tables = D.tables /\ E \in
        [tables : [Indexes -> DOMAIN pages \cup {0}], tablesPhysical : [Indexes -> Int],
         physicalAddr : Int]
  BY KernelEntry, Parameters
<1>. HIDE DEF E
<1>4. DOMAIN directory' = DOMAIN directory /\ directory'[K] = E
  BY <1>1, <1>2
<1>5. \A d \in DOMAIN directory : directory'[d].tables = directory[d].tables
  BY <1>1, <1>3, <1>4
<1>6. Top' = Top /\ Top \in Nat
  BY <1>1, <1>2 DEF Top
<1>7. /\ Places' /\ FrameZero' /\ Once' /\ BitmapTruth' /\ Sharing'
      /\ Made' = Made /\ Mapped' = Mapped
  BY <1>1, <1>2, <1>4, <1>5, <1>6, Untouched DEF choices
<1>8. TypeOK'
  <2>1. directory' \in [DOMAIN directory' ->
          [tables : [Indexes -> DOMAIN pages \cup {0}], tablesPhysical : [Indexes -> Int],
           physicalAddr : Int]]
    BY <1>1, <1>2, <1>3, <1>4 DEF TypeOK
  <2>. QED BY <1>1, <1>2, <1>4, <2>1 DEF TypeOK
<1>9. Stages'
  BY <1>1, <1>2, <1>4, <1>7 DEF Stages
<1>. QED BY <1>7, <1>8, <1>9

LEMMA EnablePagingStep == PagingInv /\ EnablePaging => PagingInv'
<1>. SUFFICES ASSUME PagingInv, EnablePaging PROVE PagingInv'
  OBVIOUS
<1>. USE DEF PagingInv
<1>1. /\ pc = "rest" /\ pc' = "enabled" /\ i \in Nat /\ i > 0 /\ i' = i
      /\ frames' = frames /\ stale' = stale /\ leftover' = leftover /\ pages' = pages
      /\ placement_pointer' = placement_pointer /\ heap_end' = heap_end /\ heap_end = 0
      /\ current_directory' = kernel_directory /\ memory' = memory /\ directory' = directory
      /\ placement_pointer \in Nat
  BY Parameters DEF EnablePaging, TypeOK, Stages, choices
<1>2. Top' = Top /\ Top \in Nat
  BY <1>1 DEF Top
<1>3. Places' /\ FrameZero' /\ Once' /\ BitmapTruth' /\ Sharing'
  BY <1>1, <1>2, Untouched DEF choices
<1>4. TypeOK'
  BY <1>1 DEF TypeOK
<1>5. Stages'
  BY <1>1 DEF Stages
<1>. QED BY <1>3, <1>4, <1>5

LEMMA InitHeapStep == PagingInv /\ InitHeap => PagingInv'
<1>. SUFFICES ASSUME PagingInv, InitHeap PROVE PagingInv'
  OBVIOUS
<1>. USE DEF PagingInv
<1>1. /\ pc = "init_heap" /\ pc' = "run" /\ i \in Nat /\ i > 0 /\ i' = i
      /\ frames' = frames /\ stale' = stale /\ leftover' = leftover /\ pages' = pages
      /\ placement_pointer' = placement_pointer /\ heap_end' = placement_pointer + 1 /\ heap_end = 0
      /\ current_directory' = current_directory /\ memory' = memory /\ directory' = directory
      /\ placement_pointer \in Nat /\ current_directory \in DOMAIN directory \ {kernel_directory}
  BY DEF InitHeap, TypeOK, Stages, choices
<1>2. Top' = Top /\ Top \in Nat
  BY <1>1 DEF Top
<1>3. Places' /\ FrameZero' /\ Once' /\ BitmapTruth' /\ Sharing'
  BY <1>1, <1>2, Untouched DEF choices
<1>4. TypeOK'
  BY <1>1 DEF TypeOK
<1>5. Stages'
  BY <1>1 DEF Stages
<1>. QED BY <1>3, <1>4, <1>5

(* The invariant once the heap is there.                                   *)
LEMMA Runs ==
  ASSUME PagingInv, pc = "run"
  PROVE  /\ i \in Nat /\ i > 0 /\ 0 \in frames /\ heap_end \in Nat /\ Top = heap_end
         /\ placement_pointer \in Nat /\ placement_pointer >= START + 3
         /\ heap_end > placement_pointer
         /\ current_directory \in DOMAIN directory \ {kernel_directory}
BY DEF PagingInv, TypeOK, Stages, FrameZero, Top

LEMMA HeapGrowsStep == PagingInv /\ HeapGrows => PagingInv'
<1>. SUFFICES ASSUME PagingInv, HeapGrows PROVE PagingInv'
  OBVIOUS
<1>. USE DEF PagingInv
<1>1. /\ pc = "run" /\ pc' = pc /\ i' = i
      /\ frames' = frames /\ stale' = stale /\ leftover' = leftover /\ pages' = pages
      /\ placement_pointer' = placement_pointer /\ heap_end' = heap_end + 1
      /\ current_directory' = current_directory /\ memory' = memory /\ directory' = directory
  BY DEF HeapGrows, choices
<1>2. Top' \in Nat /\ Top <= Top'
  BY <1>1, Runs DEF Top
<1>3. Places' /\ FrameZero' /\ Once' /\ BitmapTruth' /\ Sharing'
  BY <1>1, <1>2, Runs, Untouched DEF choices
<1>4. TypeOK'
  BY <1>1 DEF TypeOK
<1>5. Stages'
  BY <1>1, Runs DEF Stages
<1>. QED BY <1>3, <1>4, <1>5

LEMMA SwitchStep == PagingInv /\ SwitchDirectory => PagingInv'
<1>. SUFFICES ASSUME PagingInv, SwitchDirectory PROVE PagingInv'
  OBVIOUS
<1>. USE DEF PagingInv
<1>1. /\ pc = "run" /\ pc' = pc /\ i' = i
      /\ frames' = frames /\ stale' = stale /\ leftover' = leftover /\ pages' = pages
      /\ placement_pointer' = placement_pointer /\ heap_end' = heap_end
      /\ current_directory' \in DOMAIN directory \ {kernel_directory}
      /\ memory' = memory /\ directory' = directory
  BY DEF SwitchDirectory, choices
<1>2. Top' \in Nat /\ Top <= Top'
  BY <1>1, Runs DEF Top
<1>3. Places' /\ FrameZero' /\ Once' /\ BitmapTruth' /\ Sharing'
  BY <1>1, <1>2, Runs, Untouched DEF choices
<1>4. TypeOK'
  BY <1>1 DEF TypeOK
<1>5. Stages'
  BY <1>1, Runs DEF Stages
<1>. QED BY <1>3, <1>4, <1>5

LEMMA WriteStep ==
  ASSUME PagingInv, NEW p \in UserPages, NEW v \in Values, Write(p, v)
  PROVE  PagingInv'
<1>. USE DEF PagingInv
<1>1. /\ pc = "run" /\ pc' = pc /\ i' = i
      /\ frames' = frames /\ stale' = stale /\ leftover' = leftover /\ pages' = pages
      /\ placement_pointer' = placement_pointer /\ heap_end' = heap_end
      /\ current_directory' = current_directory /\ directory' = directory
  BY DEF Write, choices
<1>2. Top' \in Nat /\ Top <= Top'
  BY <1>1, Runs DEF Top
<1>3. Places' /\ FrameZero' /\ Once' /\ BitmapTruth' /\ Sharing'
  BY <1>1, <1>2, Runs, Untouched DEF choices
<1>4. memory' \in [Frames -> Values]
  BY DEF Write, TypeOK
<1>5. TypeOK'
  BY <1>1, <1>4 DEF TypeOK
<1>6. Stages'
  BY <1>1, Runs DEF Stages
<1>. QED BY <1>3, <1>5, <1>6

-----------------------------------------------------------------------------
(* Pages of a process's own.                                               *)

LEMMA EntryType ==
  ASSUME TypeOK, NEW d \in DOMAIN directory, NEW p \in Nat, p \div PER_TABLE \in Indexes
  PROVE  /\ Entry(d, p) \in Frames \cup {Absent}
         /\ LET t == directory[d].tables[p \div PER_TABLE]
            IN t # 0 => t \in DOMAIN pages /\ Entry(d, p) = pages[t][p % PER_TABLE]
<1>1. p % PER_TABLE \in Slots
  BY Split
<1>2. directory[d].tables[p \div PER_TABLE] \in DOMAIN pages \cup {0}
  BY DEF TypeOK
<1>. QED BY <1>1, <1>2, PageType DEF Entry

(* A page below the end of the heap has a place in the kernel's directory. *)
LEMMA HeapEntry ==
  ASSUME TypeOK, NEW t \in Nat, t < HEAP_END
  PROVE  Entry(kernel_directory, t) \in Int
<1>1. t \div PER_TABLE \in Indexes /\ kernel_directory \in DOMAIN directory
  BY IndexFacts DEF TypeOK
<1>. QED BY <1>1, EntryType DEF Frames, Absent

LEMMA MapPageStep ==
  ASSUME PagingInv, NEW p \in UserPages, MapPage(p)
  PROVE  PagingInv'
<1>. DEFINE d == current_directory
            x == p \div PER_TABLE
            s == p % PER_TABLE
            f == NthFree(1)
            o == directory[d].tables[x]
            K == kernel_directory
<1>. USE DEF PagingInv
<1>1. /\ pc = "run" /\ pc' = pc /\ i' = i /\ i \in Nat /\ i > 0 /\ 0 \in frames
      /\ stale' = stale /\ leftover' = leftover /\ placement_pointer' = placement_pointer
      /\ current_directory' = current_directory /\ memory' = memory
      /\ d \in DOMAIN directory /\ d # K
      /\ heap_end \in Nat /\ Top = heap_end /\ heap_end > placement_pointer
      /\ placement_pointer \in Nat /\ K \in DOMAIN directory
  BY Runs DEF MapPage, choices, TypeOK
<1>2. p \in Nat /\ p >= 1 /\ x \in Indexes /\ x \in Nat /\ s \in Slots /\ p = x * PER_TABLE + s
  BY IndexFacts, Split
<1>3. Free # {} /\ f \in Frames /\ f \in Free /\ f # 0 /\ f # Absent
  <2>1. Free # {}
    BY DEF MapPage
  <2>2. f \in Free /\ f \in Frames
    BY <2>1, FirstFound
  <2>. QED BY <1>1, <2>1, <2>2 DEF Free, Frames, Absent
<1>4. frames' = set_frame({f}) /\ ~HasFrame(Entry(d, p))
  BY DEF MapPage
<1>. HIDE DEF f
<1>5. TypeOK /\ Once /\ BitmapTruth /\ UNCHANGED choices
  BY <1>1 DEF choices
(* Whichever table it is: *)
<1>6. ASSUME NEW t \in Nat \ {0}, DOMAIN pages' = DOMAIN pages \cup {t},
             \A u \in DOMAIN pages', v \in Slots : pages'[u][v] =
               IF u = t /\ v = s THEN f
               ELSE IF u \in DOMAIN pages THEN pages[u][v] ELSE Absent,
             t \in DOMAIN pages => pages[t][s] = Absent,
             KT' = KT
      PROVE  Once' /\ BitmapTruth' /\ frames' \in SUBSET Frames /\ FrameZero'
  <2>1. frames' = set_frame({NthFree(1)})
    BY <1>4 DEF f
  <2>2. \A u \in DOMAIN pages', v \in Slots : pages'[u][v] =
          IF u = t /\ v = s THEN NthFree(1)
          ELSE IF u \in DOMAIN pages THEN pages[u][v] ELSE Absent
    BY <1>6 DEF f
  <2>3. s \in Slots /\ DOMAIN pages' = DOMAIN pages \cup {t}
    BY <1>2, <1>6
  <2>4. t \in DOMAIN pages => pages[t][s] \in {Absent, NthFree(1)}
    BY <1>6
  <2>5. Once' /\ BitmapTruth' /\ frames' \in SUBSET Frames /\ Free' \in SUBSET Free
    <3>1. TypeOK /\ Once /\ BitmapTruth
      BY <1>5
    <3>2. UNCHANGED choices
      BY <1>5
    <3>. HIDE DEF s, x, d, o, K, PagingInv
    <3>. QED BY ONLY <3>1, <3>2, <2>1, <2>2, <2>3, <2>4, Stored, ZenonT(60)
  <2>6. 0 \in frames'
    BY <1>1, <1>4 DEF set_frame
  <2>7. ASSUME NEW u \in DOMAIN pages', NEW v \in Slots, pages'[u][v] = 0
        PROVE  u = KT[0] /\ v = 0
    <3>1. Absent # 0
      BY DEF Absent
    <3>2. u \in DOMAIN pages /\ pages[u][v] = 0
      BY <1>3, <1>6, <2>7, <3>1
    <3>. QED BY <1>3, <3>2 DEF FrameZero
  <2>. QED BY <1>6, <2>5, <2>6, <2>7 DEF FrameZero
<1>7. CASE o = 0
  <2>. DEFINE t == heap_end + 1
              D == directory[d]
              E == [D EXCEPT !.tables = [D.tables EXCEPT ![x] = t],
                             !.tablesPhysical = [D.tablesPhysical EXCEPT
                                                   ![x] = Entry(kernel_directory, t)]]
  <2>1. /\ heap_end + TABLE_BLOCK <= BRK_MAX /\ heap_end' = heap_end + TABLE_BLOCK
        /\ pages' = With(pages, t, [EmptyTable EXCEPT ![s] = f])
        /\ directory' = [directory EXCEPT ![d].tables[x] = t,
                                          ![d].tablesPhysical[x] = Entry(kernel_directory, t)]
    BY <1>7 DEF MapPage, f
  <2>2. /\ t \in Nat \ {0} /\ t < HEAP_END /\ heap_end' = heap_end + 3 /\ Top' = heap_end + 3
    BY <1>1, <2>1, Parameters DEF TABLE_BLOCK, Top
  <2>3. t \notin DOMAIN pages
    BY <1>1, <2>2 DEF Places, TypeOK
  <2>4. DOMAIN pages' = DOMAIN pages \cup {t}
    BY <2>1 DEF With
  <2>5. \A u \in DOMAIN pages', v \in Slots : pages'[u][v] =
          IF u = t /\ v = s THEN f
          ELSE IF u \in DOMAIN pages THEN pages[u][v] ELSE Absent
    <3>1. [EmptyTable EXCEPT ![s] = f] = [v \in Slots |-> IF v = s THEN f ELSE Absent]
      BY DEF EmptyTable
    <3>. QED BY <2>1, <2>3, <2>4, <3>1 DEF With
  <2>6. pages' \in [DOMAIN pages' -> [Slots -> Frames \cup {Absent}]]
    <3>1. [EmptyTable EXCEPT ![s] = f] \in [Slots -> Frames \cup {Absent}]
      BY <1>3 DEF EmptyTable
    <3>2. pages \in [DOMAIN pages -> [Slots -> Frames \cup {Absent}]]
      BY DEF TypeOK
    <3>. QED BY <2>1, <3>1, <3>2 DEF With
  <2>7. E \in [tables : [Indexes -> DOMAIN pages' \cup {0}], tablesPhysical : [Indexes -> Int],
               physicalAddr : Int] /\ E.tables = [D.tables EXCEPT ![x] = t]
    <3>. DEFINE S == DOMAIN pages \cup {0}
                T == DOMAIN pages' \cup {0}
                w == Entry(kernel_directory, t)
    <3>1. /\ S \subseteq T /\ t \in T /\ w \in Int /\ x \in Indexes
      BY <1>2, <2>2, <2>4, HeapEntry
    <3>2. D \in [tables : [Indexes -> S], tablesPhysical : [Indexes -> Int], physicalAddr : Int]
      BY <1>1 DEF TypeOK
    <3>3. E = [D EXCEPT !.tables = [D.tables EXCEPT ![x] = t],
                        !.tablesPhysical = [D.tablesPhysical EXCEPT ![x] = w]]
      OBVIOUS
    <3>. HIDE DEF S, T, w, D, E, t, x
    <3>4. /\ E \in [tables : [Indexes -> T], tablesPhysical : [Indexes -> Int], physicalAddr : Int]
          /\ E.tables = [D.tables EXCEPT ![x] = t]
      BY ONLY <3>1, <3>2, <3>3, DirectoryUpdate
    <3>. QED BY <3>4 DEF T
  <2>8. /\ DOMAIN directory' = DOMAIN directory /\ directory'[d] = E
        /\ \A e \in DOMAIN directory \ {d} : directory'[e] = directory[e]
    BY <1>1, <2>1
  <2>. HIDE DEF E
  <2>9. KT' = KT
    BY <1>1, <2>8 DEF KT
  <2>10. directory' \in [DOMAIN directory' ->
          [tables : [Indexes -> DOMAIN pages' \cup {0}], tablesPhysical : [Indexes -> Int],
           physicalAddr : Int]]
    <3>1. \A e \in DOMAIN directory : directory[e] \in
            [tables : [Indexes -> DOMAIN pages' \cup {0}], tablesPhysical : [Indexes -> Int],
             physicalAddr : Int]
      BY <2>4 DEF TypeOK
    <3>2. directory' = [e \in DOMAIN directory' |-> directory'[e]]
      <4>1. directory = [e \in DOMAIN directory |-> directory[e]]
        BY DEF TypeOK
      <4>. QED BY <2>1, <4>1
    <3>. QED BY <2>7, <2>8, <3>1, <3>2
  <2>11. Once' /\ BitmapTruth' /\ frames' \in SUBSET Frames /\ FrameZero'
    BY <1>6, <2>2, <2>3, <2>4, <2>5, <2>9
  <2>12. TypeOK'
    <3>1. /\ heap_end' \in Nat /\ DOMAIN pages' \subseteq Nat \ {0}
      BY <1>1, <2>2, <2>4 DEF TypeOK
    <3>. QED BY <1>1, <2>6, <2>8, <2>10, <2>11, <3>1 DEF TypeOK
  <2>13. Stages'
    BY <1>1, <2>2, <2>8 DEF Stages
  <2>14. \A e \in DOMAIN directory, y \in Indexes :
           directory'[e].tables[y] = IF e = d /\ y = x THEN t ELSE directory[e].tables[y]
    <3>1. D.tables = [y \in Indexes |-> D.tables[y]]
      BY <1>1 DEF TypeOK
    <3>. QED BY <1>1, <2>7, <2>8, <3>1
  <2>15. \A e \in DOMAIN directory, y \in Indexes : directory[e].tables[y] # t
    BY <2>2, <2>3 DEF TypeOK
  <2>16. Places'
    <3>1. \A u \in DOMAIN pages' : u < Top'
      BY <1>1, <2>2, <2>4 DEF Places, TypeOK
    <3>2. \A e \in DOMAIN directory' : e < Top'
      BY <1>1, <2>2, <2>8 DEF Places, TypeOK
    <3>. QED BY <2>8, <2>14, <2>15, <3>1, <3>2 DEF Places
  <2>17. Sharing'
    <3>1. KT[x] = 0
      BY <1>1, <1>2, <1>7 DEF Sharing
    <3>. QED BY <1>1, <2>2, <2>8, <2>9, <2>14, <2>15, <3>1 DEF Sharing
  <2>. QED BY <2>11, <2>12, <2>13, <2>16, <2>17
<1>8. CASE o # 0
  <2>1. /\ pages' = [pages EXCEPT ![o][s] = f] /\ directory' = directory /\ heap_end' = heap_end
    BY <1>8 DEF MapPage, f
  <2>2. o \in DOMAIN pages /\ Entry(d, p) = pages[o][s]
    BY <1>1, <1>2, <1>8, EntryType
  <2>. HIDE DEF o
  <2>3. DOMAIN pages' = DOMAIN pages /\ DOMAIN pages' = DOMAIN pages \cup {o} /\ o \in Nat \ {0}
    BY <2>1, <2>2 DEF TypeOK
  <2>4. pages \in [DOMAIN pages -> [Slots -> Frames \cup {Absent}]]
    BY DEF TypeOK
  <2>5. pages' \in [DOMAIN pages' -> [Slots -> Frames \cup {Absent}]]
    BY <1>3, <2>1, <2>3, <2>4
  <2>6. \A u \in DOMAIN pages', v \in Slots : pages'[u][v] =
          IF u = o /\ v = s THEN f
          ELSE IF u \in DOMAIN pages THEN pages[u][v] ELSE Absent
    BY <1>2, <2>1, <2>2, <2>3, <2>4
  <2>7. pages[o][s] = Absent
    <3>1. pages[o][s] \in {Absent, 0}
      BY <1>2, <1>4, <2>2, PageType, FreeFinite DEF HasFrame, Absent
    <3>2. ASSUME pages[o][s] = 0 PROVE FALSE
      <4>1. o = KT[0] /\ s = 0
        BY <1>2, <1>3, <2>2, <3>2 DEF FrameZero
      <4>2. x = 0
        BY <1>1, <1>2, <1>8, <4>1, IndexFacts DEF Places, KT, o
      <4>. QED BY <1>2, <4>1, <4>2, Parameters
    <3>. QED BY <3>1, <3>2
  <2>8. KT' = KT /\ Top' = Top
    BY <1>1, <2>1 DEF KT, Top
  <2>9. Once' /\ BitmapTruth' /\ frames' \in SUBSET Frames /\ FrameZero'
    BY <1>6, <2>3, <2>6, <2>7, <2>8
  <2>10. TypeOK'
    BY <1>1, <2>1, <2>3, <2>5, <2>9 DEF TypeOK
  <2>11. Stages'
    BY <1>1, <2>1 DEF Stages
  <2>12. Places'
    BY <2>1, <2>3, <2>8 DEF Places
  <2>13. Sharing'
    BY <2>1, <2>8 DEF Sharing
  <2>. QED BY <2>9, <2>10, <2>11, <2>12, <2>13
<1>. QED BY <1>7, <1>8

-----------------------------------------------------------------------------
(* A new address space.                                                    *)

LEMMA FiniteIndexes == IsFiniteSet(Indexes)
<1>. DEFINE S == {p \div PER_TABLE : p \in UserPages}
            g == [p \in UserPages |-> p \div PER_TABLE]
<1>1. IsFiniteSet(UserPages)
  BY PagingAssumption
<1>2. g \in Surjection(UserPages, S)
  BY DEF Surjection
<1>3. IsFiniteSet(S)
  <2>. HIDE DEF g, S
  <2>. QED BY <1>1, <1>2, FS_Surjection
<1>4. Indexes = KernelIndexes \cup S
  BY DEF Indexes, KernelIndexes
<1>. HIDE DEF S
<1>. QED BY <1>3, <1>4, FewIndexes, FS_Union

LEMMA CopiedFacts ==
  ASSUME TypeOK, NEW src \in DOMAIN directory
  PROVE  /\ Owned(src) \in SUBSET Indexes /\ IsFiniteSet(Owned(src))
         /\ CopiedPages(src) \in SUBSET Nat /\ IsFiniteSet(CopiedPages(src))
         /\ \A p \in CopiedPages(src) : Entry(src, p) \in Frames
         /\ \A p \in CopiedPages(src) :
              \E x \in Owned(src), s \in Slots : p = x * PER_TABLE + s
<1>. DEFINE O == Owned(src)
            C == Copied(src)
            P == CopiedPages(src)
            g == [q \in O \X Slots |-> q[1] * PER_TABLE + q[2]]
<1>1. O \in SUBSET Indexes /\ IsFiniteSet(O)
  <2>1. O \in SUBSET Indexes
    BY DEF Owned
  <2>. HIDE DEF O
  <2>. QED BY <2>1, FiniteIndexes, FS_Subset
<1>2. IsFiniteSet(Slots) /\ Slots \in SUBSET Nat
  BY Parameters, FS_Interval DEF Slots
<1>3. C = {x * PER_TABLE + s : x \in O, s \in Slots}
  BY DEF Copied
<1>. HIDE DEF O, C
<1>4. g \in Surjection(O \X Slots, C)
  <2>1. \A q \in O \X Slots : q[1] \in O /\ q[2] \in Slots /\ g[q] = q[1] * PER_TABLE + q[2]
    OBVIOUS
  <2>2. g \in [O \X Slots -> C]
    <3>1. \A q \in O \X Slots : g[q] \in C
      BY <1>3, <2>1
    <3>. QED BY <3>1
  <2>3. ASSUME NEW c \in C PROVE \E q \in O \X Slots : g[q] = c
    <3>1. PICK x \in O, s \in Slots : c = x * PER_TABLE + s
      BY <1>3
    <3>2. <<x, s>> \in O \X Slots /\ g[<<x, s>>] = c
      BY <3>1
    <3>. QED BY <3>2
  <2>. HIDE DEF g
  <2>. QED BY <2>2, <2>3 DEF Surjection
<1>5. IsFiniteSet(O \X Slots)
  BY <1>1, <1>2, FS_Product
<1>6. IsFiniteSet(C)
  <2>. HIDE DEF g
  <2>. QED BY <1>4, <1>5, FS_Surjection
<1>7. P \in SUBSET C /\ \A p \in P : HasFrame(Entry(src, p))
  BY DEF CopiedPages, C
<1>. HIDE DEF P
<1>8. IsFiniteSet(P)
  BY <1>6, <1>7, FS_Subset
<1>9. ASSUME NEW p \in P
      PROVE  p \in Nat /\ Entry(src, p) \in Frames
             /\ \E x \in O, s \in Slots : p = x * PER_TABLE + s
  <2>1. PICK x \in O, s \in Slots : p = x * PER_TABLE + s
    BY <1>3, <1>7
  <2>2. x \in Nat /\ x \in Indexes /\ s \in Nat
    BY <1>1, <1>2, IndexFacts
  <2>3. p \in Nat
    BY <2>1, <2>2, Parameters
  <2>4. p \div PER_TABLE = x
    <3>1. /\ p \div PER_TABLE \in Nat /\ p % PER_TABLE \in Slots
          /\ p = (p \div PER_TABLE) * PER_TABLE + (p % PER_TABLE)
      BY <2>3, Split
    <3>. DEFINE y == p \div PER_TABLE
                v == p % PER_TABLE
    <3>2. y \in Nat /\ v \in Slots /\ x * PER_TABLE + s = y * PER_TABLE + v
      BY <2>1, <3>1
    <3>. HIDE DEF y, v
    <3>3. x = y
      BY <2>2, <3>2, Join
    <3>. QED BY <3>3 DEF y
  <2>5. Entry(src, p) \in Frames
    <3>1. Entry(src, p) \in Frames \cup {Absent}
      BY <2>2, <2>3, <2>4, EntryType
    <3>. QED BY <1>7, <3>1 DEF HasFrame, Absent
  <2>. QED BY <2>1, <2>3, <2>5
<1>. QED BY <1>1, <1>8, <1>9 DEF O, P

LEMMA NewFrames ==
  ASSUME TypeOK, NEW src \in DOMAIN directory,
         Cardinality(CopiedPages(src)) <= Cardinality(Free)
  PROVE  /\ \A p \in CopiedPages(src) : NewFrame(src, p) \in Free
         /\ \A p, q \in CopiedPages(src) : NewFrame(src, p) = NewFrame(src, q) => p = q
<1>. DEFINE P == CopiedPages(src)
            L(p) == {q \in P : q < p}
<1>1. P \in SUBSET Nat /\ IsFiniteSet(P) /\ Cardinality(P) \in Nat
  BY CopiedFacts, FS_CardinalityType
<1>2. Cardinality(P) <= Cardinality(Free) /\ Cardinality(Free) \in Nat
  BY FreeFinite
<1>3. \A p : NewFrame(src, p) = NthFree(1 + Cardinality(L(p)))
  BY DEF NewFrame
<1>. HIDE DEF P
<1>4. ASSUME NEW p \in P
      PROVE  /\ Cardinality(L(p)) \in Nat /\ NewFrame(src, p) \in Free
             /\ Cardinality({g \in Free : g < NewFrame(src, p)}) = Cardinality(L(p))
  <2>1. L(p) \in SUBSET P /\ L(p) # P
    <3>1. p \notin L(p)
      BY <1>1
    <3>. QED BY <3>1
  <2>2. Cardinality(L(p)) \in Nat /\ Cardinality(L(p)) < Cardinality(P)
    <3>. HIDE DEF L
    <3>1. IsFiniteSet(L(p)) /\ Cardinality(L(p)) <= Cardinality(P) /\ Cardinality(L(p)) \in Nat
      BY <1>1, <2>1, FS_Subset, FS_CardinalityType
    <3>2. Cardinality(L(p)) # Cardinality(P)
      BY <1>1, <2>1, FS_Subset
    <3>. QED BY <1>1, <3>1, <3>2
  <2>. HIDE DEF L
  <2>. DEFINE n == 1 + Cardinality(L(p))
  <2>3. n \in Nat \ {0} /\ n <= Cardinality(Free) /\ n - 1 = Cardinality(L(p))
    BY <1>1, <1>2, <2>2
  <2>. HIDE DEF n
  <2>4. NthFree(n) \in Free /\ Cardinality({g \in Free : g < NthFree(n)}) = n - 1
    BY <2>3, NthFound
  <2>5. NewFrame(src, p) = NthFree(n)
    BY <1>3 DEF n
  <2>. QED BY <2>2, <2>3, <2>4, <2>5
<1>5. ASSUME NEW p \in P, NEW q \in P, p < q
      PROVE  NewFrame(src, p) # NewFrame(src, q)
  <2>1. Cardinality(L(p)) < Cardinality(L(q))
    BY <1>1, <1>5, Lower
  <2>2. /\ Cardinality(L(p)) \in Nat /\ Cardinality(L(q)) \in Nat
        /\ Cardinality({g \in Free : g < NewFrame(src, p)}) = Cardinality(L(p))
        /\ Cardinality({g \in Free : g < NewFrame(src, q)}) = Cardinality(L(q))
    BY <1>4
  <2>. HIDE DEF L
  <2>. QED BY <2>1, <2>2
<1>. HIDE DEF L
<1>6. ASSUME NEW p \in P, NEW q \in P, NewFrame(src, p) = NewFrame(src, q)
      PROVE  p = q
  <2>1. p \in Nat /\ q \in Nat
    BY <1>1
  <2>2. p < q \/ q < p \/ p = q
    BY <2>1
  <2>. QED BY <1>5, <1>6, <2>2
<1>. QED BY <1>4, <1>6 DEF P

(* The new directory and its tables, wherever they are placed.             *)
LEMMA Cloned ==
  ASSUME PagingInv, i > 0, i' = i, NEW src \in DOMAIN directory, NEW dir \in Nat \ {0},
         dir \notin DOMAIN directory, NEW phys \in Int, NEW table,
         \A x \in Owned(src) : /\ table[x] \in Nat \ {0} /\ table[x] \notin DOMAIN pages
                               /\ Entry(kernel_directory, table[x]) \in Int,
         \A x, y \in Owned(src) : table[x] = table[y] => x = y,
         Cardinality(CopiedPages(src)) <= Cardinality(Free),
         clone_directory(src, dir, phys, table), UNCHANGED choices
  PROVE  /\ DOMAIN directory' = DOMAIN directory \cup {dir}
         /\ directory' \in [DOMAIN directory' ->
              [tables : [Indexes -> DOMAIN pages' \cup {0}], tablesPhysical : [Indexes -> Int],
               physicalAddr : Int]]
         /\ \A d \in DOMAIN directory : directory'[d] = directory[d]
         /\ DOMAIN pages' = DOMAIN pages \cup {table[x] : x \in Owned(src)}
         /\ pages' \in [DOMAIN pages' -> [Slots -> Frames \cup {Absent}]]
         /\ memory' \in [Frames -> Values] /\ frames' \in SUBSET Frames
         /\ \A d, e \in DOMAIN directory', x, y \in Indexes :
              directory'[d].tables[x] = directory'[e].tables[y] /\ directory'[d].tables[x] # 0
                => x = y
         /\ FrameZero' /\ Once' /\ BitmapTruth' /\ Sharing'
<1>. DEFINE own == Owned(src)
            copy == CopiedPages(src)
            N(p) == NewFrame(src, p)
            K == kernel_directory
            Typed == [tables : [Indexes -> DOMAIN pages' \cup {0}],
                      tablesPhysical : [Indexes -> Int], physicalAddr : Int]
            E == [tables |-> [x \in Indexes |->
                    IF x \in own THEN table[x] ELSE directory[src].tables[x]],
                  tablesPhysical |-> [x \in Indexes |->
                    IF x \in own THEN Entry(kernel_directory, table[x])
                                 ELSE directory[src].tablesPhysical[x]],
                  physicalAddr |-> DirectoryAt(phys)]
<1>. USE DEF PagingInv
<1>1. /\ stale' = stale /\ leftover' = leftover /\ K \in DOMAIN directory
      /\ DOMAIN pages \subseteq Nat \ {0} /\ 0 \in frames /\ frames \subseteq Frames
  BY DEF choices, TypeOK, FrameZero
<1>2. /\ own \in SUBSET Indexes /\ copy \in SUBSET Nat
      /\ \A p \in copy : Entry(src, p) \in Frames
      /\ \A p \in copy : \E x \in own, s \in Slots : p = x * PER_TABLE + s
  BY CopiedFacts
<1>3. /\ \A p \in copy : N(p) \in Free
      /\ \A p, q \in copy : N(p) = N(q) => p = q
  BY NewFrames
<1>4. \A p \in copy : N(p) \in Frames /\ N(p) \notin frames /\ N(p) # 0 /\ N(p) # Absent
  BY <1>1, <1>3 DEF Free, Frames, Absent
<1>5. /\ directory' = With(directory, dir, E)
      /\ frames' = frames \cup {N(p) : p \in copy}
      /\ memory' = copy_page_physical(src)
      /\ pages' = [t \in DOMAIN pages \cup {table[x] : x \in own} |->
           IF t \in DOMAIN pages THEN pages[t]
           ELSE LET x == CHOOSE y \in own : table[y] = t
                IN [s \in Slots |-> IF x * PER_TABLE + s \in copy
                                    THEN N(x * PER_TABLE + s) ELSE Absent]]
  BY DEF clone_directory, set_frame
<1>6. \A x \in own : x \in Indexes /\ x \in Nat /\ directory[src].tables[x] # 0
                     /\ directory[src].tables[x] # KT[x]
  BY <1>2, IndexFacts DEF Owned, Shared, KT
<1>7. \A x \in Indexes \ own : directory[src].tables[x] \in {0, KT[x]}
  BY DEF Owned, Shared, KT
<1>8. \A x \in own : /\ table[x] \in Nat \ {0} /\ table[x] \notin DOMAIN pages
                     /\ Entry(kernel_directory, table[x]) \in Int
                     /\ \A y \in own : table[x] = table[y] => x = y
  OBVIOUS
<1>9. memory' \in [Frames -> Values]
  <2>1. ASSUME NEW f \in Frames PROVE copy_page_physical(src)[f] \in Values
    <3>. DEFINE from == {p \in copy : N(p) = f}
    <3>1. copy_page_physical(src)[f] =
            IF from = {} THEN memory[f] ELSE memory[Entry(src, CHOOSE p \in from : TRUE)]
      BY DEF copy_page_physical
    <3>2. CASE from = {}
      BY <3>1, <3>2 DEF TypeOK
    <3>3. CASE from # {}
      <4>1. (CHOOSE p \in from : TRUE) \in copy
        BY <3>3
      <4>. HIDE DEF from
      <4>2. Entry(src, CHOOSE p \in from : TRUE) \in Frames
        BY <1>2, <4>1
      <4>. QED BY <3>1, <3>3, <4>2 DEF TypeOK
    <3>. QED BY <3>2, <3>3
  <2>. QED BY <1>5, <2>1 DEF copy_page_physical
<1>. HIDE DEF own, copy, N
(* The tables. *)
<1>10. DOMAIN pages' = DOMAIN pages \cup {table[x] : x \in own}
  BY <1>5
<1>11. \A t \in DOMAIN pages : t \in DOMAIN pages' /\ pages'[t] = pages[t]
  BY <1>5
<1>12. ASSUME NEW x \in own
       PROVE  /\ table[x] \in DOMAIN pages'
              /\ pages'[table[x]] = [s \in Slots |-> IF x * PER_TABLE + s \in copy
                                                     THEN N(x * PER_TABLE + s) ELSE Absent]
  <2>. DEFINE t == table[x]
              y == CHOOSE z \in own : table[z] = t
  <2>1. y \in own /\ table[y] = t
    OBVIOUS
  <2>2. y = x
    BY <1>8, <2>1
  <2>3. t \in DOMAIN pages' /\ t \notin DOMAIN pages
    BY <1>8, <1>10
  <2>4. pages'[t] = [s \in Slots |-> IF y * PER_TABLE + s \in copy
                                     THEN N(y * PER_TABLE + s) ELSE Absent]
    BY <1>5, <1>10, <2>3
  <2>. HIDE DEF y
  <2>. QED BY <2>2, <2>3, <2>4
<1>13. pages' \in [DOMAIN pages' -> [Slots -> Frames \cup {Absent}]]
  <2>1. ASSUME NEW t \in DOMAIN pages' PROVE pages'[t] \in [Slots -> Frames \cup {Absent}]
    <3>1. CASE t \in DOMAIN pages
      BY <1>11, <3>1 DEF TypeOK
    <3>2. CASE t \notin DOMAIN pages
      <4>1. PICK x \in own : t = table[x]
        BY <1>10, <3>2
      <4>2. pages'[t] = [s \in Slots |-> IF x * PER_TABLE + s \in copy
                                         THEN N(x * PER_TABLE + s) ELSE Absent]
        BY <1>12, <4>1
      <4>3. \A s \in Slots : (IF x * PER_TABLE + s \in copy
                               THEN N(x * PER_TABLE + s) ELSE Absent) \in Frames \cup {Absent}
        BY <1>4
      <4>. QED BY <4>2, <4>3
    <3>. QED BY <3>1, <3>2
  <2>. QED BY <1>5, <1>10, <2>1
(* What an entry holds that was not there before. *)
<1>14. ASSUME NEW t \in DOMAIN pages', t \notin DOMAIN pages, NEW s \in Slots
       PROVE  /\ \E x \in own : t = table[x]
              /\ \A x \in own : t = table[x] =>
                   IF x * PER_TABLE + s \in copy THEN pages'[t][s] = N(x * PER_TABLE + s)
                   ELSE pages'[t][s] = Absent
  <2>1. \E x \in own : t = table[x]
    BY <1>10, <1>14
  <2>2. ASSUME NEW x \in own, t = table[x]
        PROVE  pages'[t][s] = IF x * PER_TABLE + s \in copy
                              THEN N(x * PER_TABLE + s) ELSE Absent
    <3>1. pages'[t] = [v \in Slots |-> IF x * PER_TABLE + v \in copy
                                       THEN N(x * PER_TABLE + v) ELSE Absent]
      BY <1>12, <2>2
    <3>. QED BY <3>1
  <2>. QED BY <2>1, <2>2
<1>15. ASSUME NEW t \in DOMAIN pages', t \notin DOMAIN pages, NEW s \in Slots,
              pages'[t][s] # Absent
       PROVE  \E x \in own : /\ t = table[x] /\ x * PER_TABLE + s \in copy
                             /\ pages'[t][s] = N(x * PER_TABLE + s)
  BY <1>14, <1>15
(* The frames. *)
<1>16. frames' \in SUBSET Frames /\ Free' \in SUBSET Free
  BY <1>1, <1>4, <1>5 DEF Free
<1>17. \A t \in DOMAIN pages, s \in Slots : pages[t][s] # Absent => pages[t][s] \in frames
  BY PageType DEF BitmapTruth
<1>18. Mapped' = Mapped \cup {N(p) : p \in copy}
  <2>1. ASSUME NEW t \in DOMAIN pages', NEW s \in Slots, pages'[t][s] # Absent
        PROVE  pages'[t][s] \in Mapped \cup {N(p) : p \in copy}
    <3>1. CASE t \in DOMAIN pages
      BY <1>11, <2>1, <3>1, PageType
    <3>2. CASE t \notin DOMAIN pages
      BY <1>15, <2>1, <3>2
    <3>. QED BY <3>1, <3>2
  <2>2. ASSUME NEW t \in DOMAIN pages, NEW s \in Slots, pages[t][s] # Absent
        PROVE  pages[t][s] \in Mapped'
    BY <1>11, <2>2 DEF Mapped
  <2>3. ASSUME NEW p \in copy PROVE N(p) \in Mapped'
    <3>1. PICK x \in own, s \in Slots : p = x * PER_TABLE + s
      BY <1>2
    <3>2. table[x] \in DOMAIN pages' /\ pages'[table[x]][s] = N(p)
      BY <1>12, <3>1
    <3>3. N(p) # Absent
      BY <1>4
    <3>. QED BY <3>2, <3>3 DEF Mapped
  <2>. QED BY <2>1, <2>2, <2>3 DEF Mapped
<1>19. BitmapTruth'
  BY <1>1, <1>5, <1>18 DEF BitmapTruth
<1>20. Once'
  <2>. SUFFICES ASSUME NEW t \in DOMAIN pages', NEW u \in DOMAIN pages',
                       NEW s \in Slots, NEW v \in Slots,
                       pages'[t][s] = pages'[u][v], pages'[t][s] # Absent, t # u \/ s # v
                PROVE  pages'[t][s] = leftover /\ Free = {}
    BY <1>1, <1>16 DEF Once
  <2>1. CASE t \in DOMAIN pages /\ u \in DOMAIN pages
    BY <1>11, <2>1 DEF Once
  <2>2. CASE t \in DOMAIN pages /\ u \notin DOMAIN pages
    <3>1. pages'[t][s] \in frames
      BY <1>11, <1>17, <2>2
    <3>2. PICK y \in own : y * PER_TABLE + v \in copy /\ pages'[u][v] = N(y * PER_TABLE + v)
      BY <1>15, <2>2
    <3>. QED BY <1>4, <3>1, <3>2
  <2>3. CASE t \notin DOMAIN pages /\ u \in DOMAIN pages
    <3>1. pages'[u][v] \in frames
      BY <1>11, <1>17, <2>3
    <3>2. PICK x \in own : x * PER_TABLE + s \in copy /\ pages'[t][s] = N(x * PER_TABLE + s)
      BY <1>15, <2>3
    <3>. QED BY <1>4, <3>1, <3>2
  <2>4. CASE t \notin DOMAIN pages /\ u \notin DOMAIN pages
    <3>1. PICK x \in own : /\ t = table[x] /\ x * PER_TABLE + s \in copy
                           /\ pages'[t][s] = N(x * PER_TABLE + s)
      BY <1>15, <2>4
    <3>2. PICK y \in own : /\ u = table[y] /\ y * PER_TABLE + v \in copy
                           /\ pages'[u][v] = N(y * PER_TABLE + v)
      BY <1>15, <2>4
    <3>3. x * PER_TABLE + s = y * PER_TABLE + v
      BY <1>3, <3>1, <3>2
    <3>4. x \in Nat /\ y \in Nat
      BY <1>6
    <3>5. x = y /\ s = v
      BY <3>3, <3>4, Join
    <3>. QED BY <3>1, <3>2, <3>5
  <2>. QED BY <2>1, <2>2, <2>3, <2>4
(* The directories. *)
<1>21. E \in Typed /\ E.tables = [x \in Indexes |->
                        IF x \in own THEN table[x] ELSE directory[src].tables[x]]
  <2>. DEFINE f == [x \in Indexes |-> IF x \in own THEN table[x] ELSE directory[src].tables[x]]
              g == [x \in Indexes |-> IF x \in own THEN Entry(kernel_directory, table[x])
                                      ELSE directory[src].tablesPhysical[x]]
  <2>1. \A x \in own : table[x] \in DOMAIN pages' \cup {0}
    BY <1>10
  <2>2. \A x \in Indexes : directory[src].tables[x] \in DOMAIN pages' \cup {0}
                           /\ directory[src].tablesPhysical[x] \in Int
    BY <1>10 DEF TypeOK
  <2>3. f \in [Indexes -> DOMAIN pages' \cup {0}]
    BY <2>1, <2>2
  <2>4. g \in [Indexes -> Int]
    BY <1>8, <2>2
  <2>5. DirectoryAt(phys) \in Int
    BY DEF DirectoryAt
  <2>6. E = [tables |-> f, tablesPhysical |-> g, physicalAddr |-> DirectoryAt(phys)]
    OBVIOUS
  <2>. HIDE DEF f, g, E
  <2>7. E \in Typed /\ E.tables = f
    BY <2>3, <2>4, <2>5, <2>6
  <2>. QED BY <2>7 DEF f
<1>. HIDE DEF E
<1>22. /\ DOMAIN directory' = DOMAIN directory \cup {dir} /\ directory'[dir] = E
       /\ \A d \in DOMAIN directory : d # dir /\ directory'[d] = directory[d]
  BY <1>5 DEF With
<1>23. directory' \in [DOMAIN directory' -> Typed]
  <2>1. ASSUME NEW d \in DOMAIN directory' PROVE directory'[d] \in Typed
    <3>1. CASE d = dir
      BY <1>21, <1>22, <3>1
    <3>2. CASE d # dir
      <4>1. d \in DOMAIN directory /\ directory'[d] = directory[d]
        BY <1>22, <3>2
      <4>2. directory[d] \in [tables : [Indexes -> DOMAIN pages \cup {0}],
                              tablesPhysical : [Indexes -> Int], physicalAddr : Int]
        BY <4>1 DEF TypeOK
      <4>. QED BY <1>10, <4>1, <4>2
    <3>. QED BY <3>1, <3>2
  <2>. HIDE DEF Typed
  <2>. QED BY <1>5, <2>1 DEF With
<1>24. KT' = KT
  BY <1>1, <1>22 DEF KT
<1>25. FrameZero'
  <2>1. i' > 0 => 0 \in frames'
    BY <1>1, <1>5
  <2>2. ASSUME NEW t \in DOMAIN pages', NEW s \in Slots, pages'[t][s] = 0
        PROVE  (t = KT[0] /\ s = 0) \/ (leftover = 0 /\ Free = {})
    <3>1. CASE t \in DOMAIN pages
      BY <1>11, <2>2, <3>1 DEF FrameZero
    <3>2. CASE t \notin DOMAIN pages
      <4>1. pages'[t][s] # Absent
        BY <2>2 DEF Absent
      <4>. QED BY <1>4, <1>15, <2>2, <3>2, <4>1
    <3>. QED BY <3>1, <3>2
  <2>3. Free = {} => Free' = {}
    BY <1>16
  <2>. QED BY <1>1, <1>24, <2>1, <2>2, <2>3 DEF FrameZero
(* The new directory's tables are new ones or the kernel's. *)
<1>26. \A x \in Indexes : directory'[dir].tables[x] =
         IF x \in own THEN table[x] ELSE directory[src].tables[x]
  BY <1>21, <1>22
<1>27. \A d \in DOMAIN directory, x \in Indexes, y \in own : directory[d].tables[x] # table[y]
  BY <1>8 DEF TypeOK
<1>28. \A d, e \in DOMAIN directory', x, y \in Indexes :
         directory'[d].tables[x] = directory'[e].tables[y] /\ directory'[d].tables[x] # 0 => x = y
  <2>. SUFFICES ASSUME NEW d \in DOMAIN directory', NEW e \in DOMAIN directory',
                       NEW x \in Indexes, NEW y \in Indexes,
                       directory'[d].tables[x] = directory'[e].tables[y],
                       directory'[d].tables[x] # 0
                PROVE  x = y
    OBVIOUS
  <2>1. \A a \in DOMAIN directory', z \in Indexes :
          \/ z \in own /\ a = dir /\ directory'[a].tables[z] = table[z]
          \/ \E c \in DOMAIN directory : directory'[a].tables[z] = directory[c].tables[z]
    BY <1>22, <1>26
  <2>2. CASE x \in own /\ d = dir /\ directory'[d].tables[x] = table[x]
    BY <1>8, <1>27, <2>1, <2>2
  <2>3. CASE y \in own /\ e = dir /\ directory'[e].tables[y] = table[y]
    BY <1>8, <1>27, <2>1, <2>3
  <2>4. CASE /\ \E c \in DOMAIN directory : directory'[d].tables[x] = directory[c].tables[x]
             /\ \E c \in DOMAIN directory : directory'[e].tables[y] = directory[c].tables[y]
    <3>1. PICK b, c \in DOMAIN directory : /\ directory'[d].tables[x] = directory[b].tables[x]
                                           /\ directory'[e].tables[y] = directory[c].tables[y]
      BY <2>4
    <3>2. directory[b].tables[x] = directory[c].tables[y] /\ directory[b].tables[x] # 0
      BY <3>1
    <3>. QED BY <3>2 DEF Places
  <2>. QED BY <2>1, <2>2, <2>3, <2>4
<1>29. Sharing'
  <2>. SUFFICES ASSUME NEW d \in DOMAIN directory', NEW x \in Indexes
                PROVE  IF KT[x] # 0 THEN directory'[d].tables[x] = KT[x]
                       ELSE directory'[d].tables[x] # 0 => \A e \in DOMAIN directory' \ {d} :
                              directory'[e].tables[x] # directory'[d].tables[x]
    BY <1>24 DEF Sharing
  <2>1. CASE KT[x] # 0
    <3>1. \A c \in DOMAIN directory : directory[c].tables[x] = KT[x]
      BY <2>1 DEF Sharing
    <3>2. x \notin own
      BY <1>6, <3>1
    <3>. QED BY <1>22, <1>26, <2>1, <3>1, <3>2
  <2>2. CASE KT[x] = 0
    <3>1. directory'[dir].tables[x] = IF x \in own THEN table[x] ELSE 0
      BY <1>7, <1>26, <2>2
    <3>2. \A c \in DOMAIN directory : directory'[c].tables[x] = directory[c].tables[x]
      BY <1>22
    <3>3. \A c \in DOMAIN directory : directory[c].tables[x] # 0 =>
            \A e \in DOMAIN directory \ {c} : directory[e].tables[x] # directory[c].tables[x]
      BY <2>2 DEF Sharing
    <3>. QED BY <1>22, <1>27, <2>2, <3>1, <3>2, <3>3
  <2>. QED BY <2>1, <2>2
<1>. QED BY <1>9, <1>10, <1>13, <1>16, <1>19, <1>20, <1>22, <1>23, <1>25, <1>28, <1>29 DEF own, Typed

(* The kernel's directory has no table but the shared ones.                *)
LEMMA CloneKernelStep == PagingInv /\ CloneKernel => PagingInv'
<1>. SUFFICES ASSUME PagingInv, CloneKernel PROVE PagingInv'
  OBVIOUS
<1>. USE DEF PagingInv
<1>. DEFINE K == kernel_directory
<1>1. /\ pc = "enabled" /\ pc' = "init_heap" /\ i \in Nat /\ i > 0 /\ i' = i
      /\ stale' = stale /\ leftover' = leftover
      /\ placement_pointer' = placement_pointer + 3 /\ Placed = placement_pointer + 1
      /\ heap_end' = heap_end /\ heap_end = 0 /\ placement_pointer \in Nat
      /\ placement_pointer >= START + 3 /\ current_directory' = Placed
      /\ DOMAIN directory = {K} /\ K = START + 1 /\ START \in Nat
      /\ clone_directory(K, Placed, Placed, <<>>)
  BY Parameters DEF CloneKernel, TypeOK, Stages, choices, Placed
<1>2. Owned(K) = {} /\ CopiedPages(K) = {}
  BY DEF Owned, Shared, CopiedPages, Copied
<1>3. Cardinality(CopiedPages(K)) <= Cardinality(Free)
  <2>1. Cardinality(CopiedPages(K)) = 0
    BY <1>2, FS_EmptySet
  <2>. QED BY <2>1, FreeFinite
<1>4. /\ K \in DOMAIN directory /\ Placed \in Nat \ {0} /\ Placed \in Int
      /\ Placed \notin DOMAIN directory
  BY <1>1
<1>5. /\ \A x \in Owned(K) : /\ <<>>[x] \in Nat \ {0} /\ <<>>[x] \notin DOMAIN pages
                             /\ Entry(kernel_directory, <<>>[x]) \in Int
      /\ \A x, y \in Owned(K) : <<>>[x] = <<>>[y] => x = y
  BY <1>2
<1>. DEFINE none == <<>>
<1>6. /\ \A x \in Owned(K) : /\ none[x] \in Nat \ {0} /\ none[x] \notin DOMAIN pages
                             /\ Entry(kernel_directory, none[x]) \in Int
      /\ \A x, y \in Owned(K) : none[x] = none[y] => x = y
      /\ clone_directory(K, Placed, Placed, none)
  BY <1>1, <1>5
<1>7. PagingInv /\ i > 0 /\ i' = i /\ UNCHANGED choices
  BY <1>1 DEF choices
<1>. HIDE DEF none, PagingInv
<1>8. /\ DOMAIN directory' = DOMAIN directory \cup {Placed}
      /\ directory' \in [DOMAIN directory' ->
           [tables : [Indexes -> DOMAIN pages' \cup {0}], tablesPhysical : [Indexes -> Int],
            physicalAddr : Int]]
      /\ \A d \in DOMAIN directory : directory'[d] = directory[d]
      /\ DOMAIN pages' = DOMAIN pages \cup {none[x] : x \in Owned(K)}
      /\ pages' \in [DOMAIN pages' -> [Slots -> Frames \cup {Absent}]]
      /\ memory' \in [Frames -> Values] /\ frames' \in SUBSET Frames
      /\ \A d, e \in DOMAIN directory', x, y \in Indexes :
           directory'[d].tables[x] = directory'[e].tables[y] /\ directory'[d].tables[x] # 0
             => x = y
      /\ FrameZero' /\ Once' /\ BitmapTruth' /\ Sharing'
  BY ONLY <1>3, <1>4, <1>6, <1>7, Cloned
<1>. USE DEF PagingInv
<1>9. DOMAIN pages' = DOMAIN pages
  BY <1>2, <1>8
<1>10. Top = Placed /\ Top' = placement_pointer + 4
  BY <1>1 DEF Top
<1>11. TypeOK'
  <2>1. DOMAIN directory' \subseteq Nat \ {0} /\ placement_pointer' \in Nat
    BY <1>1, <1>4, <1>8
  <2>2. current_directory' \in DOMAIN directory' /\ kernel_directory \in DOMAIN directory'
    BY <1>1, <1>8
  <2>. QED BY <1>1, <1>8, <1>9, <2>1, <2>2 DEF TypeOK
<1>12. Stages'
  BY <1>1, <1>4, <1>8 DEF Stages
<1>13. Places'
  <2>1. \A t \in DOMAIN pages' : t < Top'
    BY <1>1, <1>9, <1>10 DEF Places, TypeOK
  <2>2. \A d \in DOMAIN directory' : d < Top'
    BY <1>1, <1>8, <1>10
  <2>. QED BY <1>8, <2>1, <2>2 DEF Places
<1>. QED BY <1>8, <1>11, <1>12, <1>13

LEMMA CloneDirectoryStep == PagingInv /\ CloneDirectory => PagingInv'
<1>. SUFFICES ASSUME PagingInv, CloneDirectory PROVE PagingInv'
  OBVIOUS
<1>. USE DEF PagingInv
<1>. DEFINE src == current_directory
            own == Owned(src)
            dir == heap_end + 1
            brk == heap_end + DIRECTORY_BLOCK + TABLE_BLOCK * Cardinality(own)
            Below(x) == {y \in own : y < x}
            table == [x \in own |-> heap_end + DIRECTORY_BLOCK + 1
                                    + TABLE_BLOCK * Cardinality(Below(x))]
            phys == Entry(kernel_directory, dir)
<1>1. /\ pc = "run" /\ pc' = pc /\ i \in Nat /\ i > 0 /\ i' = i
      /\ stale' = stale /\ leftover' = leftover /\ placement_pointer' = placement_pointer
      /\ current_directory' = current_directory
      /\ heap_end \in Nat /\ Top = heap_end /\ heap_end > placement_pointer
      /\ placement_pointer \in Nat /\ src \in DOMAIN directory \ {kernel_directory}
      /\ heap_end' = brk /\ brk <= BRK_MAX
      /\ Cardinality(CopiedPages(src)) <= Cardinality(Free)
      /\ clone_directory(src, dir, phys, table)
  BY Runs DEF CloneDirectory, choices
<1>2. own \in SUBSET Nat /\ IsFiniteSet(own) /\ Cardinality(own) \in Nat
  BY <1>1, CopiedFacts, IndexFacts, FS_CardinalityType
<1>3. ASSUME NEW x \in own
      PROVE  Cardinality(Below(x)) \in Nat /\ Cardinality(Below(x)) < Cardinality(own)
  <2>1. Below(x) \in SUBSET own /\ x \notin Below(x)
    BY <1>2
  <2>. HIDE DEF Below, own
  <2>2. IsFiniteSet(Below(x)) /\ Cardinality(Below(x)) <= Cardinality(own)
        /\ Cardinality(Below(x)) # Cardinality(own) /\ Cardinality(Below(x)) \in Nat
    BY <1>2, <1>3, <2>1, FS_Subset, FS_CardinalityType
  <2>. QED BY <1>2, <2>2
<1>4. ASSUME NEW x \in own, NEW y \in own, Cardinality(Below(x)) = Cardinality(Below(y))
      PROVE  x = y
  <2>. DEFINE a == Cardinality(Below(x))
              b == Cardinality(Below(y))
  <2>1. x \in Nat /\ y \in Nat
    BY <1>2
  <2>2. x < y => a < b
    BY <1>2, Lower
  <2>3. y < x => b < a
    BY <1>2, Lower
  <2>4. a \in Nat /\ b \in Nat /\ a = b
    BY <1>3, <1>4
  <2>. HIDE DEF a, b
  <2>. QED BY <2>1, <2>2, <2>3, <2>4
<1>5. \A x \in own : table[x] = heap_end + 5 + 3 * Cardinality(Below(x))
  BY <1>1, <1>3 DEF DIRECTORY_BLOCK, TABLE_BLOCK
<1>6. brk = heap_end + 4 + 3 * Cardinality(own) /\ brk \in Nat /\ dir \in Nat \ {0} /\ dir < brk
  BY <1>1, <1>2 DEF DIRECTORY_BLOCK, TABLE_BLOCK
<1>. HIDE DEF own, Below, table
<1>7. ASSUME NEW x \in own
      PROVE  /\ table[x] \in Nat \ {0} /\ table[x] > heap_end /\ table[x] < brk
             /\ table[x] \notin DOMAIN pages /\ Entry(kernel_directory, table[x]) \in Int
  <2>1. table[x] \in Nat /\ table[x] > heap_end /\ table[x] < brk
    BY <1>1, <1>2, <1>3, <1>5, <1>6
  <2>. HIDE DEF brk
  <2>2. table[x] < HEAP_END
    BY <1>1, <1>6, <2>1, Parameters
  <2>3. table[x] \notin DOMAIN pages
    BY <1>1, <2>1 DEF Places, TypeOK
  <2>. QED BY <1>1, <2>1, <2>2, <2>3, HeapEntry
<1>8. \A x, y \in own : table[x] = table[y] => x = y
  <2>. SUFFICES ASSUME NEW x \in own, NEW y \in own, table[x] = table[y]
                PROVE  x = y
    OBVIOUS
  <2>1. Cardinality(Below(x)) = Cardinality(Below(y))
    BY <1>1, <1>3, <1>5
  <2>. QED BY <1>4, <2>1
<1>9. /\ phys \in Int /\ dir \notin DOMAIN directory
  <2>. HIDE DEF brk
  <2>1. dir < HEAP_END
    BY <1>1, <1>6, Parameters
  <2>2. dir \notin DOMAIN directory
    BY <1>1, <1>6 DEF Places, TypeOK
  <2>. QED BY <1>6, <2>1, <2>2, HeapEntry
<1>10. PagingInv /\ i > 0 /\ i' = i /\ UNCHANGED choices /\ src \in DOMAIN directory
  BY <1>1 DEF choices
<1>11. /\ \A x \in Owned(src) : /\ table[x] \in Nat \ {0} /\ table[x] \notin DOMAIN pages
                                /\ Entry(kernel_directory, table[x]) \in Int
       /\ \A x, y \in Owned(src) : table[x] = table[y] => x = y
       /\ Cardinality(CopiedPages(src)) <= Cardinality(Free)
       /\ clone_directory(src, dir, phys, table)
  BY <1>1, <1>7, <1>8 DEF own
<1>12. dir \in Nat \ {0}
  BY <1>6
<1>. HIDE DEF PagingInv, phys, dir, src
<1>13. /\ DOMAIN directory' = DOMAIN directory \cup {dir}
       /\ directory' \in [DOMAIN directory' ->
            [tables : [Indexes -> DOMAIN pages' \cup {0}], tablesPhysical : [Indexes -> Int],
             physicalAddr : Int]]
       /\ \A d \in DOMAIN directory : directory'[d] = directory[d]
       /\ DOMAIN pages' = DOMAIN pages \cup {table[x] : x \in Owned(src)}
       /\ pages' \in [DOMAIN pages' -> [Slots -> Frames \cup {Absent}]]
       /\ memory' \in [Frames -> Values] /\ frames' \in SUBSET Frames
       /\ \A d, e \in DOMAIN directory', x, y \in Indexes :
            directory'[d].tables[x] = directory'[e].tables[y] /\ directory'[d].tables[x] # 0
              => x = y
       /\ FrameZero' /\ Once' /\ BitmapTruth' /\ Sharing'
  BY ONLY <1>9, <1>10, <1>11, <1>12, Cloned
<1>. USE DEF PagingInv, src
<1>14. DOMAIN pages' = DOMAIN pages \cup {table[x] : x \in own}
  BY <1>13 DEF own
<1>. HIDE DEF brk
<1>15. Top' = brk /\ heap_end < brk
  BY <1>1, <1>6 DEF Top, dir
<1>16. TypeOK'
  <2>1. DOMAIN pages' \subseteq Nat \ {0}
    BY <1>7, <1>14 DEF TypeOK
  <2>2. DOMAIN directory' \subseteq Nat \ {0}
    BY <1>12, <1>13 DEF TypeOK
  <2>3. current_directory' \in DOMAIN directory' /\ kernel_directory \in DOMAIN directory'
    BY <1>1, <1>13 DEF TypeOK
  <2>. QED BY <1>1, <1>6, <1>13, <2>1, <2>2, <2>3 DEF TypeOK
<1>17. Stages'
  BY <1>1, <1>6, <1>13, <1>15 DEF Stages
<1>18. Places'
  <2>1. \A t \in DOMAIN pages' : t < Top'
    <3>1. \A t \in DOMAIN pages : t \in Nat /\ t < heap_end
      BY <1>1 DEF Places, TypeOK
    <3>2. \A t \in DOMAIN pages : t < Top'
      BY <1>1, <1>6, <1>15, <3>1
    <3>. QED BY <1>7, <1>14, <1>15, <3>2
  <2>2. \A d \in DOMAIN directory' : d < Top'
    <3>1. \A d \in DOMAIN directory : d \in Nat /\ d < heap_end
      BY <1>1 DEF Places, TypeOK
    <3>2. \A d \in DOMAIN directory : d < Top'
      BY <1>1, <1>6, <1>15, <3>1
    <3>. QED BY <1>6, <1>13, <1>15, <3>2
  <2>. QED BY <1>13, <2>1, <2>2 DEF Places
<1>. QED BY <1>13, <1>16, <1>17, <1>18

-----------------------------------------------------------------------------
(* The theorems.                                                           *)

LEMMA PagingStep == PagingInv /\ [Next]_vars => PagingInv'
<1>. SUFFICES ASSUME PagingInv, [Next]_vars PROVE PagingInv'
  OBVIOUS
<1>1. CASE HeapTable
  BY <1>1, HeapTableStep
<1>2. CASE BootIdentity
  BY <1>2, BootIdentityStep
<1>3. CASE BootNextLoop
  BY <1>3, BootNextLoopStep
<1>4. CASE BootRest
  BY <1>4, BootRestStep
<1>5. CASE EnablePaging
  BY <1>5, EnablePagingStep
<1>6. CASE CloneKernel
  BY <1>6, CloneKernelStep
<1>7. CASE InitHeap
  BY <1>7, InitHeapStep
<1>8. CASE HeapGrows
  BY <1>8, HeapGrowsStep
<1>9. CASE CloneDirectory
  BY <1>9, CloneDirectoryStep
<1>10. CASE SwitchDirectory
  BY <1>10, SwitchStep
<1>11. CASE \E p \in UserPages : MapPage(p)
  BY <1>11, MapPageStep
<1>12. CASE \E p \in UserPages : \E v \in Values : Write(p, v)
  BY <1>12, WriteStep
<1>13. CASE UNCHANGED vars
  <2>1. /\ TypeOK' = TypeOK /\ Stages' = Stages /\ Places' = Places /\ FrameZero' = FrameZero
        /\ Once' = Once /\ BitmapTruth' = BitmapTruth /\ Sharing' = Sharing
    BY <1>13 DEF vars, TypeOK, Stages, Places, FrameZero, Once, BitmapTruth, Sharing, KT, Made,
                 Mapped, Free, Top
  <2>. QED BY <2>1 DEF PagingInv
<1>. QED BY <1>1, <1>2, <1>3, <1>4, <1>5, <1>6, <1>7, <1>8, <1>9, <1>10, <1>11, <1>12, <1>13
         DEF Next

LEMMA PagingHolds == Spec => []PagingInv
<1>1. Init => PagingInv
  BY Begins
<1>2. PagingInv /\ [Next]_vars => PagingInv'
  BY PagingStep
<1>. QED BY <1>1, <1>2, PTL DEF Spec

(* Every variable keeps its type: no table entry, at boot, in a clone or   *)
(* later, ever names what is not a frame, and no directory what is not a   *)
(* table.                                                                  *)
THEOREM PagingTypes == Spec => []TypeOK
<1>1. PagingInv => TypeOK
  BY DEF PagingInv
<1>. QED BY <1>1, PagingHolds, PTL

(* While a frame is free none is in two entries, of any tables of any      *)
(* address spaces: alloc_frame gives only frames whose bit is clear, and   *)
(* clone_table never copies a page into the frame of another.              *)
THEOREM FramesGivenOnce == Spec => []FrameGivenOnce
<1>1. PagingInv => FrameGivenOnce
  <2>. SUFFICES ASSUME PagingInv, NEW f \in Mapped, Cardinality(MappedTo(f)) > 1
                PROVE  f = leftover /\ Free = {}
    BY DEF FrameGivenOnce
  <2>1. PICK t \in DOMAIN pages, s \in Slots : pages[t][s] = f
    BY DEF Mapped
  <2>2. f # Absent
    BY DEF Mapped
  <2>3. <<t, s>> \in MappedTo(f)
    BY <2>1 DEF MappedTo
  <2>4. CASE \E q \in MappedTo(f) : q # <<t, s>>
    <3>1. PICK q \in MappedTo(f) : q # <<t, s>>
      BY <2>4
    <3>2. /\ q[1] \in DOMAIN pages /\ q[2] \in Slots /\ pages[q[1]][q[2]] = f
          /\ q = <<q[1], q[2]>>
      BY DEF MappedTo
    <3>3. q[1] # t \/ q[2] # s
      BY <3>1, <3>2
    <3>. QED BY <2>1, <2>2, <3>2, <3>3 DEF PagingInv, Once
  <2>5. CASE ~ \E q \in MappedTo(f) : q # <<t, s>>
    <3>1. MappedTo(f) = {<<t, s>>}
      BY <2>3, <2>5
    <3>2. Cardinality(MappedTo(f)) = 1
      BY <3>1, FS_Singleton
    <3>. QED BY <3>2
  <2>. QED BY <2>4, <2>5
<1>. QED BY <1>1, PagingHolds, PTL

(* The bitmap has the bits of the frames that are mapped, and of no other  *)
(* but those that were set before.                                         *)
THEOREM BitmapHolds == Spec => []BitmapTruth
<1>1. PagingInv => BitmapTruth
  BY DEF PagingInv
<1>. QED BY <1>1, PagingHolds, PTL

(* Every address space has the kernel's tables, and shares no other.       *)
THEOREM KernelTablesShared == Spec => []KernelShared
<1>1. PagingInv => KernelShared
  BY DEF PagingInv, Sharing, KernelShared, KT
<1>. QED BY <1>1, PagingHolds, PTL

-----------------------------------------------------------------------------
(* What is placed at boot, and the walk of the tables.                     *)

(* A bound on what is placed at boot, the clone of the kernel's directory  *)
(* included.                                                               *)
PlacedEnd == START + 6 + 2 * ((HEAP_END-1) \div PER_TABLE + 2)

(* Memory up to page M is there, mapped at boot, and holds what is placed; *)
(* the bitmap has no stale bits for it.                                    *)
PlainUpTo(M) ==
  /\ M \in Nat /\ PlacedEnd <= M /\ M < HEAP_END /\ M < nframes
  /\ \A S \in StaleBits : S \cap Cleared = {} => S \cap 0..M = {}

(* The kernel's pages below n, and no others up to M, are mapped to the    *)
(* frames of the same number.                                              *)
IdentityTo(M, n) ==
  /\ \A f \in 0..M : f \in frames <=> f < n
  /\ \A p \in 0..M : Entry(kernel_directory, p) = IF p < n THEN p ELSE Absent

(* The page where the first loop of init_paging stops is the one the       *)
(* second begins with.                                                     *)
Identity(M) ==
  /\ pc \in {"heap_table", "identity"} => IdentityTo(M, i)
  /\ pc = "rest" => IdentityTo(M, i) \/ IdentityTo(M, i + 1)
  /\ Paged => \A p \in 0..M : Entry(kernel_directory, p) = p

PlacedBound ==
  IF pc \in {"init_heap", "run"} THEN placement_pointer <= PlacedEnd
                                 ELSE placement_pointer + 3 <= PlacedEnd

(* What the processor and what the kernel follow, where they are equal.    *)
SameAddresses(M) ==
  /\ Paged => Top <= M + 1
  /\ \A d \in DOMAIN directory, x \in Indexes : directory[d].tables[x] # 0 =>
       directory[d].tablesPhysical[x] = directory[d].tables[x]
  /\ pc \notin {"heap_table", "identity"} =>
       \A d \in DOMAIN directory : directory[d].physicalAddr = d + 1 /\ d + 1 <= M

(* A frame in a table that is not the kernel's is in no other entry and is *)
(* not frame 0.                                                            *)
Private ==
  \A d \in DOMAIN directory, x \in Indexes \ KernelIndexes, s \in Slots :
    LET t == directory[d].tables[x]
    IN t # 0 /\ pages[t][s] # Absent =>
         /\ pages[t][s] # 0
         /\ \A u \in DOMAIN pages, v \in Slots :
              pages[u][v] = pages[t][s] => u = t /\ v = s

MadeInside == Made \subseteq KernelIndexes

PlacedInv(M) == PagingInv /\ PlacedBound /\ Identity(M)
WalkInv(M) == PlacedInv(M) /\ SameAddresses(M)
SpacesInv == PagingInv /\ PlacedBound /\ MadeInside /\ Private

-----------------------------------------------------------------------------
(* What is placed at boot.                                                 *)

LEMMA FewTables ==
  /\ Cardinality(KernelIndexes) <= (HEAP_END-1) \div PER_TABLE + 2
  /\ (HEAP_END-1) \div PER_TABLE \in Nat
<1>. DEFINE last == (HEAP_END-1) \div PER_TABLE
            S == 0..last
<1>1. last \in Nat
  BY Parameters
<1>2. KernelIndexes = S \cup {HEAP_TABLE}
  BY DEF KernelIndexes
<1>. HIDE DEF last
<1>3. IsFiniteSet(S) /\ Cardinality(S) = last + 1
  <2>1. 0 \in Int /\ last \in Int /\ (IF 0 > last THEN 0 ELSE last - 0 + 1) = last + 1
    BY <1>1
  <2>. QED BY <2>1, FS_Interval
<1>. HIDE DEF S
<1>4. Cardinality(S \cup {HEAP_TABLE}) = IF HEAP_TABLE \in S THEN Cardinality(S) ELSE Cardinality(S)+1
  BY <1>3, FS_AddElement
<1>5. Cardinality(KernelIndexes) <= last + 2
  BY <1>1, <1>2, <1>3, <1>4
<1>. QED BY <1>1, <1>5 DEF last

LEMMA PlainFacts ==
  ASSUME NEW M, PlainUpTo(M)
  PROVE  /\ M \in Nat /\ PlacedEnd \in Nat /\ PlacedEnd <= M /\ M < HEAP_END /\ M < nframes
         /\ START \in Nat /\ START + 6 <= M
BY Parameters, FewTables DEF PlainUpTo, PlacedEnd

Early == pc \in {"heap_table", "identity", "rest"} => placement_pointer + 3 <= PlacedEnd

LEMMA PlacedEarly == PagingInv => Early
<1>. SUFFICES ASSUME PagingInv, pc \in {"heap_table", "identity", "rest"}
              PROVE  placement_pointer + 3 <= PlacedEnd
  BY DEF Early
<1>1. Made \in SUBSET KernelIndexes /\ placement_pointer <= START + 3 + 2 * Cardinality(Made)
  BY DEF PagingInv, Stages
<1>2. /\ Cardinality(Made) <= Cardinality(KernelIndexes)
      /\ Cardinality(Made) \in Nat /\ Cardinality(KernelIndexes) \in Nat
  BY <1>1, FewIndexes, FS_Subset, FS_CardinalityType
<1>3. placement_pointer \in Nat
  BY DEF PagingInv, TypeOK
<1>. QED BY <1>1, <1>2, <1>3, FewTables, Parameters DEF PlacedEnd

LEMMA PlacedEarlyNext == PagingInv' => Early'
BY PlacedEarly, PTL

LEMMA PlacedBoundStep == PagingInv /\ PlacedBound /\ [Next]_vars => PlacedBound'
<1>. SUFFICES ASSUME PagingInv, PlacedBound, [Next]_vars PROVE PlacedBound'
  OBVIOUS
<1>1. PagingInv'
  BY PagingStep
<1>2. placement_pointer \in Nat
  BY DEF PagingInv, TypeOK
<1>3. CASE HeapTable \/ BootIdentity \/ BootNextLoop \/ BootRest
  <2>1. pc' \in {"identity", "rest"}
    BY <1>3 DEF HeapTable, BootIdentity, BootNextLoop, BootRest
  <2>. QED BY <1>1, <2>1, PlacedEarlyNext DEF Early, PlacedBound
<1>4. CASE EnablePaging
  BY <1>4 DEF EnablePaging, PlacedBound
<1>5. CASE CloneKernel
  BY <1>2, <1>5 DEF CloneKernel, Placed, PlacedBound
<1>6. CASE InitHeap
  BY <1>6 DEF InitHeap, PlacedBound
<1>7. CASE HeapGrows \/ CloneDirectory \/ SwitchDirectory
  BY <1>7 DEF HeapGrows, CloneDirectory, SwitchDirectory, PlacedBound
<1>8. CASE \E p \in UserPages : MapPage(p) \/ \E v \in Values : Write(p, v)
  BY <1>8 DEF MapPage, Write, PlacedBound
<1>9. CASE UNCHANGED vars
  BY <1>9 DEF vars, PlacedBound
<1>. QED BY <1>3, <1>4, <1>5, <1>6, <1>7, <1>8, <1>9 DEF Next

LEMMA PlacedBegins == Init => PlacedBound
<1>. SUFFICES ASSUME Init PROVE PlacedBound
  OBVIOUS
<1>1. PagingInv /\ pc = "heap_table"
  BY Begins DEF Init
<1>. QED BY <1>1, PlacedEarly DEF Early, PlacedBound

(* What a step of the loops does to the kernel's entries.                  *)
LEMMA BootEntries ==
  ASSUME PagingInv, pc \in {"identity", "rest"}, i < HEAP_END, NEW j \in Nat, j = i, BootPage(i),
         heap_end' = heap_end
  PROVE  /\ HasFrame(Entry(kernel_directory, j)) =>
              frames' = frames /\ Entry(kernel_directory, j)' = Entry(kernel_directory, j)
         /\ ~HasFrame(Entry(kernel_directory, j)) =>
              frames' = frames \cup {NthFree(1)} /\ Entry(kernel_directory, j)' = NthFree(1)
         /\ \A p \in Nat : p < HEAP_END /\ p # j =>
              Entry(kernel_directory, p)' = Entry(kernel_directory, p)
<1>. DEFINE x == j \div PER_TABLE
            s == j % PER_TABLE
            f == NthFree(1)
            K == kernel_directory
<1>. USE DEF PagingInv
<1>1. /\ x \in Indexes /\ x \in KernelIndexes /\ x \in Nat /\ s \in Slots /\ j = x * PER_TABLE + s
      /\ DOMAIN directory = {K}
  BY Split, IndexFacts DEF Stages
<1>2. /\ \A p \in Nat : /\ Entry(K, p) = IF KT[p \div PER_TABLE] = 0 THEN Absent
                                         ELSE pages[KT[p \div PER_TABLE]][p % PER_TABLE]
                        /\ Entry(K, p)' = IF KT'[p \div PER_TABLE] = 0 THEN Absent
                                          ELSE pages'[KT'[p \div PER_TABLE]][p % PER_TABLE]
  BY DEF Entry, KT
(* Other pages are at other places. *)
<1>3. ASSUME NEW p \in Nat, p < HEAP_END, p # j
      PROVE  /\ p \div PER_TABLE \in Indexes /\ p % PER_TABLE \in Slots
             /\ p \div PER_TABLE = x => p % PER_TABLE # s
  <2>1. /\ p \div PER_TABLE \in Nat /\ p % PER_TABLE \in Slots
        /\ p = (p \div PER_TABLE) * PER_TABLE + (p % PER_TABLE)
    BY Split
  <2>2. p \div PER_TABLE \in Indexes
    BY <1>3, IndexFacts
  <2>. QED BY <1>1, <1>3, <2>1, <2>2
<1>4. KT \in [Indexes -> DOMAIN pages \cup {0}]
  BY KernelEntry
<1>5. \A y, z \in Indexes : KT[y] = KT[z] /\ KT[y] # 0 => y = z
  <2>1. K \in DOMAIN directory
    BY <1>1
  <2>. QED BY <2>1 DEF Places, KT
<1>6. ~HasFrame(Absent)
  BY DEF HasFrame, Absent
<1>7. CASE KT[x] = 0
  <2>1. /\ MakeTable(x) /\ frames' = frames \cup {f}
        /\ pages' = With(pages, Placed, [EmptyTable EXCEPT ![s] = f])
    BY <1>7 DEF BootPage, KT, set_frame
  <2>. HIDE DEF x, s, f
  <2>2. KT' = [KT EXCEPT ![x] = Placed]
    <3>1. DOMAIN pages' = DOMAIN pages \cup {Placed}
      BY <2>1 DEF With
    <3>. QED BY <1>1, <1>7, <2>1, <3>1, TableMade
  <2>3. Placed \notin DOMAIN pages /\ Placed # 0
    BY DEF Places, Top, Stages, Placed, TypeOK
  <2>4. KT'[x] = Placed /\ \A y \in Indexes : y # x => KT'[y] = KT[y]
    BY <1>1, <1>4, <2>2
  <2>5. /\ pages'[Placed] = [v \in Slots |-> IF v = s THEN f ELSE Absent]
        /\ \A t \in DOMAIN pages : pages'[t] = pages[t]
    BY <2>1, <2>3 DEF With, EmptyTable
  <2>6. Entry(K, j) = Absent /\ Entry(K, j)' = f
    <3>1. pages'[Placed][s] = f
      BY <1>1, <2>5
    <3>. QED BY <1>2, <1>7, <2>3, <2>4, <3>1 DEF x, s
  <2>7. ASSUME NEW p \in Nat, p < HEAP_END, p # j
        PROVE  Entry(K, p)' = Entry(K, p)
    <3>. DEFINE y == p \div PER_TABLE
                v == p % PER_TABLE
    <3>1. y \in Indexes /\ v \in Slots /\ (y = x => v # s)
      BY <1>3, <2>7
    <3>2. /\ Entry(K, p) = IF KT[y] = 0 THEN Absent ELSE pages[KT[y]][v]
          /\ Entry(K, p)' = IF KT'[y] = 0 THEN Absent ELSE pages'[KT'[y]][v]
      BY <1>2
    <3>. HIDE DEF y, v
    <3>3. CASE y = x
      <4>1. Entry(K, p) = Absent /\ Entry(K, p)' = pages'[Placed][v]
        BY <1>7, <2>3, <2>4, <3>2, <3>3
      <4>. QED BY <2>5, <3>1, <3>3, <4>1
    <3>4. CASE y # x
      <4>1. KT'[y] = KT[y] /\ KT[y] \in DOMAIN pages \cup {0}
        BY <1>4, <2>4, <3>1, <3>4
      <4>. QED BY <2>5, <3>2, <4>1
    <3>. QED BY <3>3, <3>4
  <2>. QED BY <1>6, <2>1, <2>6, <2>7 DEF f
<1>8. CASE KT[x] # 0
  <2>. DEFINE t == KT[x]
  <2>1. /\ IF HasFrame(pages[t][s])
           THEN UNCHANGED <<pages, frames>>
           ELSE pages' = [pages EXCEPT ![t][s] = f] /\ frames' = frames \cup {f}
        /\ directory' = directory
    BY <1>8 DEF BootPage, KT, set_frame
  <2>2. KT' = KT /\ Entry(K, j) = pages[t][s] /\ t \in DOMAIN pages
    BY <1>1, <1>2, <1>4, <1>8, <2>1 DEF KT
  <2>. HIDE DEF x, s, f
  <2>3. CASE HasFrame(pages[t][s])
    BY <1>2, <2>1, <2>2, <2>3
  <2>4. CASE ~HasFrame(pages[t][s])
    <3>1. pages' = [pages EXCEPT ![t][s] = f] /\ frames' = frames \cup {f}
      BY <2>1, <2>4
    <3>2. pages \in [DOMAIN pages -> [Slots -> Frames \cup {Absent}]]
      BY DEF TypeOK
    <3>3. \A u \in DOMAIN pages, v \in Slots :
            pages'[u][v] = IF u = t /\ v = s THEN f ELSE pages[u][v]
      BY <1>1, <2>2, <3>1, <3>2
    <3>4. Entry(K, j)' = f
      <4>1. pages'[t][s] = f
        BY <1>1, <2>2, <3>3
      <4>2. Entry(K, j)' = pages'[t][s]
        BY <1>2, <1>8, <2>2 DEF x, s
      <4>. QED BY <4>1, <4>2
    <3>5. ASSUME NEW p \in Nat, p < HEAP_END, p # j
          PROVE  Entry(K, p)' = Entry(K, p)
      <4>. DEFINE y == p \div PER_TABLE
                  v == p % PER_TABLE
      <4>1. y \in Indexes /\ v \in Slots /\ (y = x => v # s)
        BY <1>3, <3>5
      <4>2. /\ Entry(K, p) = IF KT[y] = 0 THEN Absent ELSE pages[KT[y]][v]
            /\ Entry(K, p)' = IF KT[y] = 0 THEN Absent ELSE pages'[KT[y]][v]
        BY <1>2, <2>2
      <4>. HIDE DEF y, v
      <4>3. KT[y] = KT[x] /\ KT[y] # 0 => y = x
        BY <1>1, <1>5, <4>1
      <4>4. KT[y] # 0 => KT[y] \in DOMAIN pages
        BY <1>4, <4>1
      <4>. QED BY <3>3, <4>1, <4>2, <4>3, <4>4
    <3>. QED BY <2>2, <2>4, <3>1, <3>4, <3>5 DEF f
  <2>. QED BY <2>3, <2>4
<1>. QED BY <1>7, <1>8

(* While page j, below M, is mapped first_frame finds frame j.             *)
LEMMA BootIdentityPage ==
  ASSUME PagingInv, NEW M, PlainUpTo(M), pc \in {"identity", "rest"}, i < HEAP_END,
         NEW j \in Nat, j = i, BootPage(i), heap_end' = heap_end,
         IdentityTo(M, j) \/ (IdentityTo(M, j + 1) /\ j > 0)
  PROVE  IdentityTo(M, j + 1)'
<1>. DEFINE K == kernel_directory
            f == NthFree(1)
<1>1. M \in Nat /\ M < HEAP_END /\ M < nframes /\ nframes \in Nat
      /\ HEAP_END \in Nat
  BY PlainFacts, Parameters
<1>2. /\ f \in Frames
      /\ Free # {} => f \in Free /\ \A g \in Free : ~(g < f)
  BY FirstFound DEF PagingInv
<1>3. /\ HasFrame(Entry(K, j)) => frames' = frames /\ Entry(K, j)' = Entry(K, j)
      /\ ~HasFrame(Entry(K, j)) => frames' = frames \cup {f} /\ Entry(K, j)' = f
      /\ \A p \in Nat : p < HEAP_END /\ p # j => Entry(K, p)' = Entry(K, p)
  BY BootEntries
<1>4. \A p \in 0..M : p \in Nat /\ p < HEAP_END
  BY <1>1
<1>. HIDE DEF f, K
<1>. SUFFICES /\ \A g \in 0..M : g \in frames' <=> g < j + 1
              /\ \A p \in 0..M : Entry(K, p)' = IF p < j + 1 THEN p ELSE Absent
  BY DEF IdentityTo, K
<1>5. CASE M < j
  <2>1. /\ \A g \in 0..M : g \in frames
        /\ \A p \in 0..M : Entry(K, p) = p /\ p # j /\ p < j + 1
    <3>1. \A p \in 0..M : p < j /\ p < j + 1 /\ p # j
      BY <1>1, <1>5
    <3>. QED BY <3>1 DEF IdentityTo, K
  <2>. QED BY <1>3, <1>4, <2>1
<1>6. CASE ~(M < j) /\ IdentityTo(M, j + 1) /\ j > 0
  <2>1. j \in 0..M /\ j < j + 1
    BY <1>1, <1>6
  <2>2. Entry(K, j) = j /\ HasFrame(Entry(K, j))
    BY <1>6, <2>1 DEF IdentityTo, K, HasFrame
  <2>3. /\ \A g \in 0..M : g \in frames <=> g < j + 1
        /\ \A p \in 0..M : Entry(K, p) = IF p < j + 1 THEN p ELSE Absent
    BY <1>6 DEF IdentityTo, K
  <2>4. \A p \in 0..M : Entry(K, p)' = Entry(K, p)
    BY <1>3, <1>4, <2>2
  <2>. QED BY <1>3, <2>2, <2>3, <2>4
<1>7. CASE ~(M < j) /\ IdentityTo(M, j)
  <2>1. j \in 0..M /\ j \in Frames
    BY <1>1, <1>7 DEF Frames
  <2>2. /\ \A g \in 0..M : g \in frames <=> g < j
        /\ \A p \in 0..M : Entry(K, p) = IF p < j THEN p ELSE Absent
    BY <1>7 DEF IdentityTo, K
  <2>3. j \in Free /\ ~HasFrame(Entry(K, j))
    BY <2>1, <2>2 DEF Free, HasFrame, Absent
  <2>4. f = j
    <3>1. f \in Free /\ ~(j < f) /\ f \in Nat
      BY <1>2, <2>3 DEF Frames
    <3>2. ASSUME f < j PROVE FALSE
      <4>1. f \in 0..M
        BY <1>1, <2>1, <3>1, <3>2
      <4>2. f \in frames
        BY <2>2, <3>2, <4>1
      <4>. QED BY <3>1, <4>2 DEF Free
    <3>. QED BY <3>1, <3>2
  <2>5. frames' = frames \cup {j} /\ Entry(K, j)' = j
    BY <1>3, <2>3, <2>4
  <2>6. \A p \in 0..M : p < j + 1 <=> p < j \/ p = j
    BY <1>1
  <2>7. \A g \in 0..M : g \in frames' <=> g < j + 1
    BY <2>2, <2>5, <2>6
  <2>8. ASSUME NEW p \in 0..M PROVE Entry(K, p)' = IF p < j + 1 THEN p ELSE Absent
    <3>1. CASE p = j
      BY <2>5, <2>6, <3>1
    <3>2. CASE p # j
      BY <1>3, <1>4, <2>2, <2>6, <3>2
    <3>. QED BY <3>1, <3>2
  <2>. QED BY <2>7, <2>8
<1>. QED BY <1>5, <1>6, <1>7

(* Steps that leave a table and the kernel's directory alone leave its     *)
(* entries alone.                                                          *)
LEMMA EntriesKept ==
  ASSUME TypeOK, NEW d \in DOMAIN directory, NEW p \in Nat, p \div PER_TABLE \in Indexes,
         directory'[d].tables = directory[d].tables,
         \A t \in DOMAIN pages : pages'[t] = pages[t]
  PROVE  Entry(d, p)' = Entry(d, p)
<1>1. directory[d].tables[p \div PER_TABLE] \in DOMAIN pages \cup {0}
  BY DEF TypeOK
<1>. QED BY <1>1 DEF Entry

(* What clone_directory makes and what it leaves alone.                    *)
NewSpace(src, dir, phys, table) ==
  /\ DOMAIN directory' = DOMAIN directory \cup {dir}
  /\ \A d \in DOMAIN directory : directory'[d] = directory[d]
  /\ directory'[dir].physicalAddr = DirectoryAt(phys)
  /\ \A x \in Indexes :
       IF x \in Owned(src)
       THEN /\ directory'[dir].tables[x] = table[x]
            /\ directory'[dir].tablesPhysical[x] = Entry(kernel_directory, table[x])
       ELSE /\ directory'[dir].tables[x] = directory[src].tables[x]
            /\ directory'[dir].tablesPhysical[x] = directory[src].tablesPhysical[x]
  /\ \A t \in DOMAIN pages : pages'[t] = pages[t]
  /\ DOMAIN pages' = DOMAIN pages \cup {table[x] : x \in Owned(src)}
  /\ \A x \in Owned(src) : pages'[table[x]] =
       [s \in Slots |-> IF x * PER_TABLE + s \in CopiedPages(src)
                        THEN NewFrame(src, x * PER_TABLE + s) ELSE Absent]
  /\ frames' = frames \cup {NewFrame(src, p) : p \in CopiedPages(src)}
  /\ memory' = copy_page_physical(src)

LEMMA ClonedTables ==
  ASSUME TypeOK, NEW src \in DOMAIN directory, NEW dir, dir \notin DOMAIN directory,
         NEW phys, NEW table,
         \A x \in Owned(src) : table[x] \notin DOMAIN pages,
         \A x, y \in Owned(src) : table[x] = table[y] => x = y,
         clone_directory(src, dir, phys, table)
  PROVE  NewSpace(src, dir, phys, table)
<1>. DEFINE own == Owned(src)
            copy == CopiedPages(src)
            N(p) == NewFrame(src, p)
            f == [x \in Indexes |-> IF x \in own THEN table[x] ELSE directory[src].tables[x]]
            g == [x \in Indexes |-> IF x \in own THEN Entry(kernel_directory, table[x])
                                    ELSE directory[src].tablesPhysical[x]]
            E == [tables |-> f, tablesPhysical |-> g, physicalAddr |-> DirectoryAt(phys)]
<1>1. /\ directory' = With(directory, dir, E)
      /\ frames' = frames \cup {N(p) : p \in copy}
      /\ memory' = copy_page_physical(src)
      /\ pages' = [t \in DOMAIN pages \cup {table[x] : x \in own} |->
           IF t \in DOMAIN pages THEN pages[t]
           ELSE LET x == CHOOSE y \in own : table[y] = t
                IN [s \in Slots |-> IF x * PER_TABLE + s \in copy
                                    THEN N(x * PER_TABLE + s) ELSE Absent]]
  BY DEF clone_directory, set_frame
<1>2. E.tables = f /\ E.tablesPhysical = g /\ E.physicalAddr = DirectoryAt(phys)
  OBVIOUS
<1>. HIDE DEF E
<1>3. /\ DOMAIN directory' = DOMAIN directory \cup {dir} /\ directory'[dir] = E
      /\ \A d \in DOMAIN directory : directory'[d] = directory[d]
  BY <1>1 DEF With
<1>4. \A x \in Indexes : E.tables[x] = (IF x \in own THEN table[x] ELSE directory[src].tables[x])
                         /\ E.tablesPhysical[x] = IF x \in own THEN Entry(kernel_directory, table[x])
                                                  ELSE directory[src].tablesPhysical[x]
  BY <1>2
<1>. HIDE DEF own, copy, N
<1>5. /\ DOMAIN pages' = DOMAIN pages \cup {table[x] : x \in own}
      /\ \A t \in DOMAIN pages : pages'[t] = pages[t]
  BY <1>1
<1>6. ASSUME NEW x \in own
      PROVE  pages'[table[x]] = [s \in Slots |-> IF x * PER_TABLE + s \in copy
                                                 THEN N(x * PER_TABLE + s) ELSE Absent]
  <2>. DEFINE t == table[x]
              y == CHOOSE z \in own : table[z] = t
  <2>1. y \in own /\ table[y] = t
    OBVIOUS
  <2>2. y = x
    BY <2>1 DEF own
  <2>3. t \in DOMAIN pages' /\ t \notin DOMAIN pages
    BY <1>5 DEF own
  <2>4. pages'[t] = [s \in Slots |-> IF y * PER_TABLE + s \in copy
                                     THEN N(y * PER_TABLE + s) ELSE Absent]
    BY <1>1, <1>5, <2>3
  <2>. HIDE DEF y
  <2>. QED BY <2>2, <2>4
<1>. QED BY <1>1, <1>2, <1>3, <1>4, <1>5, <1>6 DEF own, copy, N, NewSpace

(* fork's directory and tables are new pages of the heap.                  *)
ForksAt(src, dir, table) ==
  /\ src = current_directory /\ src \in DOMAIN directory \ {kernel_directory}
  /\ dir = heap_end + 1 /\ dir \in Nat \ {0} /\ dir \notin DOMAIN directory
  /\ heap_end' \in Nat /\ heap_end + 4 <= heap_end' /\ heap_end' <= BRK_MAX
  /\ Cardinality(CopiedPages(src)) <= Cardinality(Free)
  /\ \A x \in Owned(src) : /\ table[x] \in Nat \ {0} /\ table[x] \notin DOMAIN pages
                            /\ heap_end < table[x] /\ table[x] < heap_end'
  /\ \A x, y \in Owned(src) : table[x] = table[y] => x = y
  /\ NewSpace(src, dir, Entry(kernel_directory, dir), table)

LEMMA ForkTables ==
  ASSUME PagingInv, CloneDirectory
  PROVE  \E table : ForksAt(current_directory, heap_end + 1, table)
<1>. USE DEF PagingInv
<1>. DEFINE src == current_directory
            own == Owned(src)
            dir == heap_end + 1
            brk == heap_end + DIRECTORY_BLOCK + TABLE_BLOCK * Cardinality(own)
            Below(x) == {y \in own : y < x}
            table == [x \in own |-> heap_end + DIRECTORY_BLOCK + 1
                                    + TABLE_BLOCK * Cardinality(Below(x))]
<1>1. /\ heap_end \in Nat /\ Top = heap_end /\ src \in DOMAIN directory \ {kernel_directory}
      /\ heap_end' = brk /\ brk <= BRK_MAX
      /\ Cardinality(CopiedPages(src)) <= Cardinality(Free)
      /\ clone_directory(src, dir, Entry(kernel_directory, dir), table)
  BY Runs DEF CloneDirectory, choices
<1>2. own \in SUBSET Nat /\ IsFiniteSet(own) /\ Cardinality(own) \in Nat
  BY <1>1, CopiedFacts, IndexFacts, FS_CardinalityType
<1>3. ASSUME NEW x \in own
      PROVE  Cardinality(Below(x)) \in Nat /\ Cardinality(Below(x)) < Cardinality(own)
  <2>1. Below(x) \in SUBSET own /\ x \notin Below(x)
    BY <1>2
  <2>. HIDE DEF Below, own
  <2>2. IsFiniteSet(Below(x)) /\ Cardinality(Below(x)) <= Cardinality(own)
        /\ Cardinality(Below(x)) # Cardinality(own) /\ Cardinality(Below(x)) \in Nat
    BY <1>2, <1>3, <2>1, FS_Subset, FS_CardinalityType
  <2>. QED BY <1>2, <2>2
<1>4. ASSUME NEW x \in own, NEW y \in own, Cardinality(Below(x)) = Cardinality(Below(y))
      PROVE  x = y
  <2>. DEFINE a == Cardinality(Below(x))
              b == Cardinality(Below(y))
  <2>1. x \in Nat /\ y \in Nat
    BY <1>2
  <2>2. x < y => a < b
    BY <1>2, Lower
  <2>3. y < x => b < a
    BY <1>2, Lower
  <2>4. a \in Nat /\ b \in Nat /\ a = b
    BY <1>3, <1>4
  <2>. HIDE DEF a, b
  <2>. QED BY <2>1, <2>2, <2>3, <2>4
<1>5. \A x \in own : table[x] = heap_end + 5 + 3 * Cardinality(Below(x))
  BY <1>1, <1>3 DEF DIRECTORY_BLOCK, TABLE_BLOCK
<1>6. brk = heap_end + 4 + 3 * Cardinality(own) /\ brk \in Nat /\ dir \in Nat \ {0}
      /\ heap_end + 4 <= brk
  BY <1>1, <1>2 DEF DIRECTORY_BLOCK, TABLE_BLOCK
<1>. HIDE DEF own, Below, table, brk
<1>7. ASSUME NEW x \in own
      PROVE  /\ table[x] \in Nat \ {0} /\ heap_end < table[x] /\ table[x] < brk
             /\ table[x] \notin DOMAIN pages
  <2>1. table[x] \in Nat /\ heap_end < table[x] /\ table[x] < brk
    BY <1>1, <1>2, <1>3, <1>5, <1>6
  <2>2. table[x] \notin DOMAIN pages
    BY <1>1, <2>1 DEF Places, TypeOK
  <2>. QED BY <1>1, <2>1, <2>2
<1>8. \A x, y \in own : table[x] = table[y] => x = y
  <2>. SUFFICES ASSUME NEW x \in own, NEW y \in own, table[x] = table[y]
                PROVE  x = y
    OBVIOUS
  <2>1. Cardinality(Below(x)) = Cardinality(Below(y))
    BY <1>1, <1>3, <1>5
  <2>. QED BY <1>4, <2>1
<1>9. dir \notin DOMAIN directory
  BY <1>1, <1>6 DEF Places, TypeOK
<1>10. NewSpace(src, dir, Entry(kernel_directory, dir), table)
  <2>. DEFINE phys == Entry(kernel_directory, dir)
  <2>1. /\ TypeOK /\ src \in DOMAIN directory /\ dir \notin DOMAIN directory
        /\ clone_directory(src, dir, phys, table)
        /\ \A x \in Owned(src) : table[x] \notin DOMAIN pages
        /\ \A x, y \in Owned(src) : table[x] = table[y] => x = y
    BY <1>1, <1>7, <1>8, <1>9 DEF own
  <2>. HIDE DEF phys, src, dir
  <2>2. NewSpace(src, dir, phys, table)
    BY ONLY <2>1, ClonedTables
  <2>. QED BY <2>2 DEF phys
<1>11. ForksAt(src, dir, table)
  BY <1>1, <1>6, <1>7, <1>8, <1>9, <1>10 DEF own, ForksAt
<1>. QED BY <1>11

(* The clone that the kernel's start ends with shares all its tables.      *)
LEMMA KernelClone ==
  ASSUME PagingInv, CloneKernel, NEW none, none = <<>>
  PROVE  /\ NewSpace(kernel_directory, Placed, Placed, none) /\ Owned(kernel_directory) = {}
         /\ DOMAIN directory = {kernel_directory} /\ Placed \notin DOMAIN directory
         /\ Placed = placement_pointer + 1 /\ heap_end = 0
<1>. DEFINE K == kernel_directory
<1>1. /\ DOMAIN directory = {K} /\ K = START + 1 /\ placement_pointer \in Nat /\ START \in Nat
      /\ placement_pointer >= START + 3 /\ heap_end = 0
  BY Parameters DEF CloneKernel, PagingInv, Stages, TypeOK
<1>2. Owned(K) = {}
  BY DEF Owned, Shared
<1>3. Placed = placement_pointer + 1 /\ Placed \notin DOMAIN directory
  BY <1>1 DEF Placed
<1>4. clone_directory(K, Placed, Placed, none) /\ TypeOK /\ K \in DOMAIN directory
  BY <1>1 DEF CloneKernel, PagingInv
<1>5. /\ \A x \in Owned(K) : none[x] \notin DOMAIN pages
      /\ \A x, y \in Owned(K) : none[x] = none[y] => x = y
  BY <1>2
<1>6. NewSpace(K, Placed, Placed, none)
  BY ONLY <1>3, <1>4, <1>5, ClonedTables
<1>. QED BY <1>1, <1>2, <1>3, <1>6

LEMMA IdentityBegins ==
  ASSUME NEW M, PlainUpTo(M), Init
  PROVE  Identity(M)
<1>3. M \in Nat /\ M < HEAP_END /\ HEAP_END \in Nat
  BY PlainFacts, Parameters
<1>1. pc = "heap_table" /\ i = 0 /\ frames \cap 0..M = {}
  BY DEF Init, PlainUpTo
<1>2. ASSUME NEW p \in 0..M PROVE Entry(kernel_directory, p) = Absent
  <2>1. p \in Nat /\ p < HEAP_END
    BY <1>3
  <2>2. directory[kernel_directory].tables = [x \in Indexes |-> 0] /\ p \div PER_TABLE \in Indexes
    BY <2>1, IndexFacts DEF Init, EmptyDirectory
  <2>. QED BY <2>2 DEF Entry
<1>4. IdentityTo(M, 0)
  <2>1. \A p \in 0..M : ~(p < 0)
    BY <1>3
  <2>. QED BY <1>1, <1>2, <2>1 DEF IdentityTo
<1>. QED BY <1>1, <1>4 DEF Identity, Paged

(* Once paging is on no step changes where the kernel's pages are.         *)
LEMMA MappingFixed ==
  ASSUME PagingInv, pc \notin {"heap_table", "identity", "rest"}, [Next]_vars,
         NEW p \in Nat, p < HEAP_END
  PROVE  Entry(kernel_directory, p)' = Entry(kernel_directory, p)
<1>. DEFINE K == kernel_directory
<1>1. /\ TypeOK /\ K \in DOMAIN directory /\ DOMAIN directory \subseteq Nat \ {0}
      /\ p \div PER_TABLE \in Indexes
  BY IndexFacts DEF PagingInv, TypeOK
<1>2. CASE UNCHANGED <<pages, directory>>
  BY <1>2 DEF Entry
<1>3. CASE CloneKernel
  <2>1. PICK none : none = <<>>
    OBVIOUS
  <2>2. NewSpace(K, Placed, Placed, none)
    BY <1>3, <2>1, KernelClone
  <2>3. /\ directory'[K].tables = directory[K].tables
        /\ \A t \in DOMAIN pages : pages'[t] = pages[t]
    BY <1>1, <2>2 DEF NewSpace
  <2>. QED BY <1>1, <2>3, EntriesKept
<1>4. CASE CloneDirectory
  <2>1. PICK table : ForksAt(current_directory, heap_end + 1, table)
    BY <1>4, ForkTables
  <2>2. /\ directory'[K].tables = directory[K].tables
        /\ \A t \in DOMAIN pages : pages'[t] = pages[t]
    BY <1>1, <2>1 DEF ForksAt, NewSpace
  <2>. QED BY <1>1, <2>2, EntriesKept
<1>5. ASSUME NEW q \in UserPages, MapPage(q)
      PROVE  Entry(K, p)' = Entry(K, p)
  <2>. DEFINE d == current_directory
              x == q \div PER_TABLE
              s == q % PER_TABLE
              o == directory[d].tables[x]
  <2>1. /\ q \in Nat /\ p # q /\ x \in Indexes /\ x \in Nat /\ s \in Slots
        /\ q = x * PER_TABLE + s /\ pc = "run"
    <3>1. q \in Nat /\ q >= HEAP_END /\ HEAP_END \in Nat
      BY PagingAssumption, Parameters
    <3>2. p # q
      BY <1>1, <3>1
    <3>. QED BY <1>5, <3>1, <3>2, IndexFacts, Split DEF MapPage
  <2>2. d \in DOMAIN directory /\ d # K /\ heap_end \in Nat /\ Top = heap_end
    BY <2>1, Runs
  <2>. DEFINE y == p \div PER_TABLE
              v == p % PER_TABLE
  <2>3. y \in Nat /\ v \in Slots /\ p = y * PER_TABLE + v
    BY Split
  <2>4. ~(y = x /\ v = s)
    BY <2>1, <2>3
  <2>5. KT \in [Indexes -> DOMAIN pages \cup {0}]
    BY <1>1, KernelEntry
  <2>6. /\ Entry(K, p) = IF KT[y] = 0 THEN Absent ELSE pages[KT[y]][v]
        /\ Entry(K, p)' = IF KT'[y] = 0 THEN Absent ELSE pages'[KT'[y]][v]
    BY DEF Entry, KT
  <2>7. CASE o = 0
    <3>1. /\ pages' = With(pages, heap_end + 1, [EmptyTable EXCEPT ![s] = NthFree(1)])
          /\ directory' = [directory EXCEPT
                ![d].tables[x] = heap_end + 1,
                ![d].tablesPhysical[x] = Entry(kernel_directory, heap_end + 1)]
      BY <1>5, <2>7 DEF MapPage
    <3>2. heap_end + 1 \notin DOMAIN pages
      BY <1>1, <2>2 DEF PagingInv, Places, TypeOK
    <3>3. \A t \in DOMAIN pages : pages'[t] = pages[t]
      BY <3>1, <3>2 DEF With
    <3>4. directory'[K] = directory[K]
      BY <1>1, <2>2, <3>1
    <3>. QED BY <1>1, <3>3, <3>4, EntriesKept
  <2>8. CASE o # 0
    <3>1. /\ pages' = [pages EXCEPT ![o][s] = NthFree(1)] /\ directory' = directory
      BY <1>5, <2>8 DEF MapPage
    <3>2. pages \in [DOMAIN pages -> [Slots -> Frames \cup {Absent}]]
      BY <1>1 DEF TypeOK
    <3>3. KT[y] = o /\ o # 0 => y = x
      BY <1>1, <2>1, <2>2 DEF PagingInv, Places, KT
    <3>4. KT' = KT
      BY <3>1 DEF KT
    <3>. HIDE DEF x, s, y, v, o, d
    <3>5. KT[y] # 0 => pages'[KT[y]][v] = pages[KT[y]][v]
      BY <1>1, <2>3, <2>4, <2>5, <2>8, <3>1, <3>2, <3>3 DEF y
    <3>. QED BY <2>6, <3>4, <3>5
  <2>. QED BY <2>7, <2>8
<1>6. CASE EnablePaging \/ InitHeap \/ HeapGrows \/ SwitchDirectory
  BY <1>2, <1>6 DEF EnablePaging, InitHeap, HeapGrows, SwitchDirectory
<1>7. CASE \E q \in UserPages : \E v \in Values : Write(q, v)
  BY <1>2, <1>7 DEF Write
<1>8. CASE UNCHANGED vars
  BY <1>2, <1>8 DEF vars
<1>. QED BY <1>3, <1>4, <1>5, <1>6, <1>7, <1>8
         DEF Next, HeapTable, BootIdentity, BootNextLoop, BootRest

LEMMA IdentityStep ==
  ASSUME NEW M, PlainUpTo(M), PlacedInv(M), [Next]_vars
  PROVE  Identity(M)'
<1>. USE DEF PlacedInv
<1>0. /\ M \in Nat /\ M < HEAP_END /\ HEAP_END \in Nat /\ PlacedEnd <= M /\ PlacedEnd \in Nat
      /\ i \in Nat /\ placement_pointer \in Nat /\ START \in Nat
  BY PlainFacts, Parameters DEF PagingInv, TypeOK
<1>1. CASE HeapTable
  <2>1. /\ pc = "heap_table" /\ pc' = "identity" /\ i = 0 /\ i' = 0 /\ frames' = frames
        /\ DOMAIN pages = {} /\ MakeTable(HEAP_TABLE) /\ heap_end' = heap_end
        /\ pages' = With(pages, Placed, EmptyTable) /\ DOMAIN directory = {kernel_directory}
    BY <1>1 DEF HeapTable, PagingInv, Stages
  <2>2. IdentityTo(M, 0)
    BY <2>1 DEF Identity
  <2>3. DOMAIN pages' = DOMAIN pages \cup {Placed} /\ pages'[Placed] = EmptyTable
    BY <2>1 DEF With
  <2>4. KT \in [Indexes -> {0}]
    BY <2>1, KernelEntry DEF PagingInv
  <2>5. KT' = [KT EXCEPT ![HEAP_TABLE] = Placed]
    <3>1. HEAP_TABLE \in KernelIndexes /\ KT[HEAP_TABLE] = 0
      BY <2>4, IndexFacts DEF KernelIndexes
    <3>. QED BY <2>1, <2>3, <3>1, TableMade
  <2>6. ASSUME NEW p \in 0..M PROVE Entry(kernel_directory, p)' = Absent
    <3>1. p \in Nat /\ p < HEAP_END
      BY <1>0
    <3>2. p \div PER_TABLE \in Indexes /\ p % PER_TABLE \in Slots
      BY <3>1, Split, IndexFacts
    <3>3. KT'[p \div PER_TABLE] \in {0, Placed}
      BY <2>4, <2>5, <3>2
    <3>4. Entry(kernel_directory, p)' = IF KT'[p \div PER_TABLE] = 0 THEN Absent
                                        ELSE pages'[KT'[p \div PER_TABLE]][p % PER_TABLE]
      BY DEF Entry, KT
    <3>. QED BY <2>3, <3>2, <3>3, <3>4 DEF EmptyTable
  <2>7. \A p \in 0..M : ~(p < 0)
    BY <1>0
  <2>8. IdentityTo(M, 0)'
    BY <2>1, <2>2, <2>6, <2>7 DEF IdentityTo
  <2>9. IdentityTo(M, i)'
    BY <2>1, <2>8 DEF IdentityTo
  <2>. QED BY <2>1, <2>9 DEF Identity, Paged
<1>2. CASE BootIdentity
  <2>1. /\ pc = "identity" /\ pc' = "identity" /\ i' = i + 1 /\ heap_end' = heap_end
        /\ i < placement_pointer + 1 /\ BootPage(i)
    BY <1>2 DEF BootIdentity
  <2>2. IdentityTo(M, i) /\ i < HEAP_END
    BY <1>0, <2>1, PlacedBelow DEF Identity
  <2>3. PICK j \in Nat : j = i
    BY <1>0
  <2>4. IdentityTo(M, j) /\ BootPage(i)
    BY <2>1, <2>2, <2>3
  <2>5. IdentityTo(M, j + 1)'
    BY <2>1, <2>2, <2>3, <2>4, BootIdentityPage
  <2>6. IdentityTo(M, i)'
    BY <2>1, <2>3, <2>5 DEF IdentityTo
  <2>. QED BY <2>1, <2>6 DEF Identity, Paged
<1>3. CASE BootNextLoop
  <2>1. /\ pc = "identity" /\ pc' = "rest" /\ i' = placement_pointer
        /\ i >= placement_pointer + 1 /\ frames' = frames /\ pages' = pages
        /\ directory' = [directory EXCEPT ![kernel_directory].physicalAddr = kernel_directory + 1]
        /\ i <= placement_pointer + 1
    BY <1>3 DEF BootNextLoop, PagingInv, Stages
  <2>2. IdentityTo(M, i) /\ i' + 1 = i
    BY <1>0, <2>1 DEF Identity
  <2>3. directory'[kernel_directory].tables = directory[kernel_directory].tables
    BY <2>1, KernelEntry DEF PagingInv, TypeOK
  <2>4. IdentityTo(M, i + 1)'
    BY <2>1, <2>2, <2>3 DEF IdentityTo, Entry
  <2>. QED BY <2>1, <2>4 DEF Identity, Paged
<1>4. CASE BootRest
  <2>1. /\ pc = "rest" /\ pc' = "rest" /\ i' = i + 1 /\ heap_end' = heap_end
        /\ i < HEAP_END /\ BootPage(i) /\ i > 0
    BY <1>0, <1>4 DEF BootRest, PagingInv, Stages
  <2>2. PICK j \in Nat : j = i
    BY <1>0
  <2>3. IdentityTo(M, j) \/ (IdentityTo(M, j + 1) /\ j > 0)
    BY <2>1, <2>2 DEF Identity
  <2>4. IdentityTo(M, j + 1)'
    BY <2>1, <2>2, <2>3, BootIdentityPage
  <2>5. IdentityTo(M, i)'
    BY <2>1, <2>2, <2>4 DEF IdentityTo
  <2>. QED BY <2>1, <2>5 DEF Identity, Paged
<1>5. CASE EnablePaging
  <2>1. /\ pc = "rest" /\ pc' = "enabled" /\ i >= HEAP_END /\ pages' = pages
        /\ directory' = directory
    BY <1>5 DEF EnablePaging
  <2>2. \A p \in 0..M : p < i /\ p < i + 1
    BY <1>0, <2>1
  <2>3. \A p \in 0..M : Entry(kernel_directory, p) = p
    BY <2>1, <2>2 DEF Identity, IdentityTo
  <2>. QED BY <2>1, <2>3 DEF Identity, Entry
<1>6. CASE pc \notin {"heap_table", "identity", "rest"}
  <2>1. \A p \in 0..M : p \in Nat /\ p < HEAP_END
    BY <1>0
  <2>2. \A p \in 0..M : Entry(kernel_directory, p)' = Entry(kernel_directory, p)
    BY <1>6, <2>1, MappingFixed
  <2>3. \A p \in 0..M : Entry(kernel_directory, p) = p
    BY <1>6 DEF Identity, Paged, PagingInv, TypeOK
  <2>4. pc' \notin {"heap_table", "identity", "rest"}
    BY <1>6 DEF Next, HeapTable, BootIdentity, BootNextLoop, BootRest, EnablePaging, CloneKernel,
         InitHeap, HeapGrows, CloneDirectory, SwitchDirectory, MapPage, Write, vars
  <2>. QED BY <2>2, <2>3, <2>4 DEF Identity
<1>7. CASE UNCHANGED vars
  <2>1. IdentityTo(M, i)' = IdentityTo(M, i) /\ IdentityTo(M, i + 1)' = IdentityTo(M, i + 1)
    BY <1>7 DEF vars, IdentityTo, Entry
  <2>2. pc' = pc /\ \A p \in 0..M : Entry(kernel_directory, p)' = Entry(kernel_directory, p)
    BY <1>7 DEF vars, Entry
  <2>. QED BY <2>1, <2>2 DEF Identity, Paged
<1>. QED
  BY <1>1, <1>2, <1>3, <1>4, <1>5, <1>6, <1>7
  DEF Next, CloneKernel, InitHeap, HeapGrows, CloneDirectory, SwitchDirectory, MapPage, Write

LEMMA PlacedHolds ==
  ASSUME NEW M, PlainUpTo(M)
  PROVE  Spec => []PlacedInv(M)
<1>1. Init => PlacedInv(M)
  BY Begins, PlacedBegins, IdentityBegins DEF PlacedInv
<1>2. PlacedInv(M) /\ [Next]_vars => PlacedInv(M)'
  BY PagingStep, PlacedBoundStep, IdentityStep DEF PlacedInv
<1>. QED BY <1>1, <1>2, PTL DEF Spec

(* When paging is switched on, and from then on, what the boot has placed  *)
(* is at the address it was placed at, tables made while mapping included. *)
THEOREM PlacedKept ==
  ASSUME NEW M, PlainUpTo(M)
  PROVE  Spec => []PlacedStays
<1>1. PlacedInv(M) => PlacedStays
  <2>. SUFFICES ASSUME PlacedInv(M), Paged, NEW p \in 0..placement_pointer
                PROVE  Entry(kernel_directory, p) = p
    BY DEF PlacedStays
  <2>1. placement_pointer \in Nat /\ placement_pointer <= PlacedEnd
    BY PlainFacts DEF PlacedInv, PlacedBound, PagingInv, TypeOK
  <2>2. p \in 0..M
    BY <2>1, PlainFacts
  <2>. QED BY <2>2 DEF PlacedInv, Identity
<1>. QED BY <1>1, PlacedHolds, PTL

-----------------------------------------------------------------------------
(* Physical addresses.                                                     *)

LEMMA WalkBegins ==
  ASSUME NEW M, Init
  PROVE  SameAddresses(M)
<1>1. pc = "heap_table" /\ DOMAIN directory = {kernel_directory}
      /\ directory[kernel_directory].tables = [x \in Indexes |-> 0]
  BY DEF Init, EmptyDirectory
<1>. QED BY <1>1 DEF SameAddresses, Paged

(* A table made at boot is at its physical address.                        *)
LEMMA TablePlaced ==
  ASSUME PagingInv, DOMAIN directory = {kernel_directory}, NEW x \in Indexes, MakeTable(x),
         NEW M, SameAddresses(M)
  PROVE  \A d \in DOMAIN directory', y \in Indexes :
           /\ directory'[d].tables[y] # 0 =>
                directory'[d].tablesPhysical[y] = directory'[d].tables[y]
           /\ directory'[d].physicalAddr = directory[d].physicalAddr
           /\ DOMAIN directory' = DOMAIN directory
<1>. DEFINE K == kernel_directory
            D == directory[K]
            E == [D EXCEPT !.tables = [D.tables EXCEPT ![x] = Placed],
                           !.tablesPhysical = [D.tablesPhysical EXCEPT ![x] = Placed]]
<1>1. DOMAIN directory' = {K} /\ directory'[K] = E
  BY DEF MakeTable
<1>2. D \in [tables : [Indexes -> DOMAIN pages \cup {0}], tablesPhysical : [Indexes -> Int],
             physicalAddr : Int]
  BY KernelEntry DEF PagingInv
<1>3. \A y \in Indexes : D.tables[y] # 0 => D.tablesPhysical[y] = D.tables[y]
  BY DEF SameAddresses
<1>4. /\ E.physicalAddr = D.physicalAddr
      /\ \A y \in Indexes : /\ E.tables[y] = IF y = x THEN Placed ELSE D.tables[y]
                            /\ E.tablesPhysical[y] = IF y = x THEN Placed ELSE D.tablesPhysical[y]
  BY <1>2
<1>. HIDE DEF E, D
<1>5. directory[K].physicalAddr = D.physicalAddr
  BY DEF D
<1>. QED BY <1>1, <1>3, <1>4, <1>5

LEMMA WalkStep ==
  ASSUME NEW M, PlainUpTo(M), BRK_MAX <= M, WalkInv(M), [Next]_vars
  PROVE  SameAddresses(M)'
<1>. USE DEF WalkInv, PlacedInv
<1>. DEFINE K == kernel_directory
<1>0. /\ M \in Nat /\ M < HEAP_END /\ HEAP_END \in Nat /\ PlacedEnd <= M /\ PlacedEnd \in Nat
      /\ placement_pointer \in Nat /\ START \in Nat /\ START + 6 <= M /\ K = START + 1
      /\ BRK_MAX \in Nat /\ heap_end \in Nat
  BY PlainFacts, Parameters DEF PagingInv, TypeOK
<1>1. CASE HeapTable \/ BootIdentity \/ BootRest
  <2>1. /\ pc \in {"heap_table", "identity", "rest"} /\ DOMAIN directory = {K}
        /\ pc' \in {"identity", "rest"} /\ (pc' = "rest" => pc = "rest")
    BY <1>1 DEF HeapTable, BootIdentity, BootRest, PagingInv, Stages
  <2>2. CASE directory' = directory
    BY <2>1, <2>2 DEF SameAddresses, Paged
  <2>3. CASE \E x \in Indexes : MakeTable(x)
    <3>1. \A d \in DOMAIN directory', y \in Indexes :
            /\ directory'[d].tables[y] # 0 =>
                 directory'[d].tablesPhysical[y] = directory'[d].tables[y]
            /\ directory'[d].physicalAddr = directory[d].physicalAddr
            /\ DOMAIN directory' = DOMAIN directory
      BY <2>1, <2>3, TablePlaced
    <3>2. 0 \in Indexes
      BY IndexFacts
    <3>3. DOMAIN directory' = {K}
      BY <2>1, <2>3 DEF MakeTable
    <3>4. \A d \in DOMAIN directory' : directory'[d].physicalAddr = directory[d].physicalAddr
      BY <3>1, <3>2
    <3>. QED BY <2>1, <3>1, <3>3, <3>4 DEF SameAddresses, Paged
  <2>4. (\E x \in Indexes : MakeTable(x)) \/ directory' = directory
    <3>1. CASE HeapTable
      BY <3>1, IndexFacts DEF HeapTable
    <3>2. CASE BootIdentity \/ BootRest
      <4>1. i \in Nat /\ i < HEAP_END /\ BootPage(i)
        <5>1. CASE BootIdentity
          BY <1>0, <5>1, PlacedBelow DEF BootIdentity, PagingInv, TypeOK
        <5>2. CASE BootRest
          BY <5>2 DEF BootRest, PagingInv, TypeOK
        <5>. QED BY <3>2, <5>1, <5>2
      <4>2. i \div PER_TABLE \in Indexes
        BY <4>1, IndexFacts
      <4>. QED BY <4>1, <4>2 DEF BootPage
    <3>. QED BY <1>1, <3>1, <3>2
  <2>. QED BY <2>2, <2>3, <2>4
<1>2. CASE BootNextLoop
  <2>. DEFINE D == directory[K]
              E == [D EXCEPT !.physicalAddr = K + 1]
  <2>1. /\ pc = "identity" /\ pc' = "rest" /\ DOMAIN directory = {K}
        /\ directory' = [directory EXCEPT ![K] = E]
    BY <1>2 DEF BootNextLoop, PagingInv, Stages
  <2>2. E.tables = D.tables /\ E.tablesPhysical = D.tablesPhysical /\ E.physicalAddr = K + 1
    BY KernelEntry DEF PagingInv
  <2>. HIDE DEF E
  <2>3. DOMAIN directory' = {K} /\ directory'[K] = E
    BY <2>1
  <2>4. \A y \in Indexes : D.tables[y] # 0 => D.tablesPhysical[y] = D.tables[y]
    BY <2>1 DEF SameAddresses
  <2>5. K + 1 <= M
    BY <1>0
  <2>. QED BY <2>1, <2>2, <2>3, <2>4, <2>5 DEF SameAddresses, Paged
<1>3. CASE EnablePaging
  <2>1. /\ pc = "rest" /\ pc' = "enabled" /\ directory' = directory /\ heap_end' = heap_end
        /\ placement_pointer' = placement_pointer /\ heap_end = 0
        /\ placement_pointer + 3 <= PlacedEnd
    BY <1>3 DEF EnablePaging, PlacedBound, PagingInv, Stages
  <2>2. Top' <= M + 1
    BY <1>0, <2>1 DEF Top
  <2>. QED BY <2>1, <2>2 DEF SameAddresses
<1>4. CASE CloneKernel
  <2>1. /\ pc = "enabled" /\ pc' = "init_heap" /\ heap_end' = heap_end
        /\ placement_pointer + 3 <= PlacedEnd /\ placement_pointer' = Placed + 2
    BY <1>4 DEF CloneKernel, PlacedBound
  <2>2. PICK none : none = <<>>
    OBVIOUS
  <2>3. /\ NewSpace(K, Placed, Placed, none) /\ Owned(K) = {}
        /\ DOMAIN directory = {K} /\ Placed \notin DOMAIN directory
        /\ Placed = placement_pointer + 1 /\ heap_end = 0
    BY <1>4, <2>2, KernelClone
  <2>4. /\ DOMAIN directory' = {K, Placed} /\ directory'[K] = directory[K]
        /\ directory'[Placed].physicalAddr = DirectoryAt(Placed)
        /\ \A x \in Indexes :
             /\ directory'[Placed].tables[x] = directory[K].tables[x]
             /\ directory'[Placed].tablesPhysical[x] = directory[K].tablesPhysical[x]
    BY <2>3 DEF NewSpace
  <2>5. DirectoryAt(Placed) = Placed + 1 /\ Placed + 1 <= M
    BY <1>0, <2>1, <2>3 DEF DirectoryAt
  <2>6. Top' <= M + 1
    BY <1>0, <2>1, <2>3 DEF Top
  <2>7. \A y \in Indexes : directory[K].tables[y] # 0 =>
          directory[K].tablesPhysical[y] = directory[K].tables[y]
    BY <2>1, <2>3 DEF SameAddresses
  <2>8. directory[K].physicalAddr = K + 1 /\ K + 1 <= M
    BY <2>1, <2>3 DEF SameAddresses
  <2>. QED BY <2>1, <2>4, <2>5, <2>6, <2>7, <2>8 DEF SameAddresses
<1>5. CASE InitHeap
  <2>1. /\ pc = "init_heap" /\ pc' = "run" /\ directory' = directory
        /\ heap_end' = placement_pointer + 1 /\ placement_pointer <= PlacedEnd
    BY <1>5 DEF InitHeap, PlacedBound
  <2>2. Top' <= M + 1
    BY <1>0, <2>1 DEF Top
  <2>. QED BY <2>1, <2>2 DEF SameAddresses
<1>6. CASE HeapGrows
  <2>1. /\ pc = "run" /\ pc' = "run" /\ directory' = directory /\ heap_end' = heap_end + 1
        /\ heap_end < BRK_MAX
    BY <1>6 DEF HeapGrows
  <2>2. Top' <= M + 1
    BY <1>0, <2>1 DEF Top
  <2>. QED BY <2>1, <2>2 DEF SameAddresses
<1>7. CASE CloneDirectory
  <2>. DEFINE src == current_directory
              dir == heap_end + 1
              phys == Entry(K, dir)
  <2>1. pc = "run" /\ pc' = "run"
    BY <1>7 DEF CloneDirectory
  <2>2. PICK table : ForksAt(src, dir, table)
    BY <1>7, ForkTables
  <2>3. /\ src \in DOMAIN directory
        /\ heap_end' \in Nat /\ heap_end + 4 <= heap_end' /\ heap_end' <= BRK_MAX
        /\ \A x \in Owned(src) : /\ table[x] \in Nat \ {0} /\ heap_end < table[x]
                                  /\ table[x] < heap_end'
    BY <2>2 DEF ForksAt
  <2>4. \A p \in 0..M : Entry(K, p) = p
    BY <2>1 DEF Identity, Paged
  <2>5. phys = dir /\ dir + 1 <= M
    BY <1>0, <2>3, <2>4
  <2>6. \A x \in Owned(src) : Entry(K, table[x]) = table[x]
    BY <1>0, <2>3, <2>4
  <2>7. NewSpace(src, dir, phys, table)
    BY <2>2 DEF ForksAt
  <2>. HIDE DEF src, dir, phys
  <2>8. /\ DOMAIN directory' = DOMAIN directory \cup {dir}
        /\ \A d \in DOMAIN directory : directory'[d] = directory[d]
        /\ directory'[dir].physicalAddr = DirectoryAt(phys)
        /\ \A x \in Indexes :
             IF x \in Owned(src)
             THEN /\ directory'[dir].tables[x] = table[x]
                  /\ directory'[dir].tablesPhysical[x] = Entry(kernel_directory, table[x])
             ELSE /\ directory'[dir].tables[x] = directory[src].tables[x]
                  /\ directory'[dir].tablesPhysical[x] = directory[src].tablesPhysical[x]
    BY <2>7 DEF NewSpace
  <2>9. DirectoryAt(phys) = dir + 1
    BY <2>5 DEF DirectoryAt
  <2>10. Top' <= M + 1
    BY <1>0, <2>3 DEF Top
  <2>11. \A d \in DOMAIN directory, y \in Indexes : directory[d].tables[y] # 0 =>
           directory[d].tablesPhysical[y] = directory[d].tables[y]
    BY DEF SameAddresses
  <2>12. \A d \in DOMAIN directory : directory[d].physicalAddr = d + 1 /\ d + 1 <= M
    BY <2>1 DEF SameAddresses
  <2>. QED BY <2>1, <2>3, <2>5, <2>6, <2>8, <2>9, <2>10, <2>11, <2>12 DEF SameAddresses
<1>8. ASSUME NEW q \in UserPages, MapPage(q)
      PROVE  SameAddresses(M)'
  <2>. DEFINE d == current_directory
              x == q \div PER_TABLE
              t == heap_end + 1
              D == directory[d]
              E == [D EXCEPT !.tables = [D.tables EXCEPT ![x] = t],
                             !.tablesPhysical = [D.tablesPhysical EXCEPT ![x] = Entry(K, t)]]
  <2>1. pc = "run" /\ pc' = "run" /\ x \in Indexes
    BY <1>8, IndexFacts DEF MapPage
  <2>2. d \in DOMAIN directory /\ Top = heap_end
    BY <2>1, Runs
  <2>3. CASE D.tables[x] = 0
    <3>1. /\ heap_end' = heap_end + 3 /\ heap_end + 3 <= BRK_MAX
          /\ directory' = [directory EXCEPT ![d].tables[x] = t,
                                            ![d].tablesPhysical[x] = Entry(kernel_directory, t)]
      BY <1>8, <2>3 DEF MapPage, TABLE_BLOCK
    <3>2. /\ DOMAIN directory' = DOMAIN directory /\ directory'[d] = E
          /\ \A e \in DOMAIN directory \ {d} : directory'[e] = directory[e]
      BY <2>2, <3>1
    <3>3. D \in [tables : [Indexes -> DOMAIN pages \cup {0}], tablesPhysical : [Indexes -> Int],
                 physicalAddr : Int]
      BY <2>2 DEF PagingInv, TypeOK
    <3>4. /\ E.physicalAddr = D.physicalAddr
          /\ \A y \in Indexes : /\ E.tables[y] = IF y = x THEN t ELSE D.tables[y]
                                /\ E.tablesPhysical[y] =
                                     IF y = x THEN Entry(K, t) ELSE D.tablesPhysical[y]
      BY <3>3
    <3>5. Entry(K, t) = t
      <4>1. t \in 0..M
        BY <1>0, <3>1
      <4>. QED BY <2>1, <4>1 DEF Identity, Paged
    <3>. HIDE DEF E
    <3>6. Top' <= M + 1
      BY <1>0, <3>1 DEF Top
    <3>7. \A e \in DOMAIN directory : directory'[e].physicalAddr = directory[e].physicalAddr
      BY <3>2, <3>4
    <3>8. \A e \in DOMAIN directory, y \in Indexes : directory'[e].tables[y] # 0 =>
            directory'[e].tablesPhysical[y] = directory'[e].tables[y]
      <4>1. \A e \in DOMAIN directory, y \in Indexes : directory[e].tables[y] # 0 =>
              directory[e].tablesPhysical[y] = directory[e].tables[y]
        BY DEF SameAddresses
      <4>2. \A y \in Indexes : E.tables[y] # 0 => E.tablesPhysical[y] = E.tables[y]
        BY <2>2, <3>4, <3>5, <4>1
      <4>. QED BY <3>2, <4>1, <4>2
    <3>. QED BY <2>1, <3>2, <3>6, <3>7, <3>8 DEF SameAddresses
  <2>4. CASE D.tables[x] # 0
    <3>1. heap_end' = heap_end /\ placement_pointer' = placement_pointer /\ directory' = directory
      BY <1>8, <2>4 DEF MapPage
    <3>2. Top' = Top
      BY <3>1 DEF Top
    <3>. QED BY <2>1, <3>1, <3>2 DEF SameAddresses, Paged
  <2>. QED BY <2>3, <2>4
<1>9. CASE \/ SwitchDirectory \/ UNCHANGED vars
           \/ \E q \in UserPages : \E v \in Values : Write(q, v)
  <2>1. /\ heap_end' = heap_end /\ placement_pointer' = placement_pointer
        /\ directory' = directory /\ pc' = pc
    BY <1>9 DEF SwitchDirectory, Write, vars
  <2>2. Top' = Top
    BY <2>1 DEF Top
  <2>. QED BY <2>1, <2>2 DEF SameAddresses, Paged
<1>. QED BY <1>1, <1>2, <1>3, <1>4, <1>5, <1>6, <1>7, <1>8, <1>9 DEF Next

(* The processor, which follows physical addresses, and the kernel, which  *)
(* follows pointers, find the same tables in every directory: those placed *)
(* before paging was on and those of the heap.                             *)
THEOREM WalkAgrees ==
  ASSUME NEW M, PlainUpTo(M), BRK_MAX <= M
  PROVE  Spec => []WalkRight
<1>1. Init => WalkInv(M)
  BY Begins, PlacedBegins, IdentityBegins, WalkBegins DEF WalkInv, PlacedInv
<1>2. WalkInv(M) /\ [Next]_vars => WalkInv(M)'
  BY PagingStep, PlacedBoundStep, IdentityStep, WalkStep DEF WalkInv, PlacedInv
<1>3. WalkInv(M) => WalkRight
  <2>. SUFFICES ASSUME WalkInv(M), Paged, NEW d \in DOMAIN directory
                PROVE  /\ directory[d].physicalAddr = Entry(kernel_directory, d + 1)
                       /\ \A x \in Indexes : directory[d].tables[x] # 0 =>
                            directory[d].tablesPhysical[x] =
                              Entry(kernel_directory, directory[d].tables[x])
    BY DEF WalkRight
  <2>. USE DEF WalkInv, PlacedInv
  <2>1. \A p \in 0..M : Entry(kernel_directory, p) = p
    BY DEF Identity
  <2>2. M \in Nat /\ d \in Nat /\ Top \in Nat /\ Top <= M + 1
    BY PlainFacts DEF PagingInv, TypeOK, SameAddresses, Top
  <2>3. directory[d].physicalAddr = d + 1 /\ d + 1 <= M
    BY DEF SameAddresses, Paged
  <2>4. ASSUME NEW x \in Indexes, directory[d].tables[x] # 0
        PROVE  directory[d].tablesPhysical[x] = Entry(kernel_directory, directory[d].tables[x])
    <3>1. directory[d].tables[x] \in DOMAIN pages /\ DOMAIN pages \subseteq Nat
      BY <2>4 DEF PagingInv, TypeOK
    <3>2. directory[d].tables[x] < Top
      BY <3>1 DEF PagingInv, Places
    <3>3. directory[d].tables[x] \in 0..M
      BY <2>2, <3>1, <3>2
    <3>. QED BY <2>1, <2>4, <3>3 DEF SameAddresses
  <2>5. d + 1 \in 0..M
    BY <2>2, <2>3
  <2>. QED BY <2>1, <2>3, <2>4, <2>5
<1>. QED BY <1>1, <1>2, <1>3, PTL DEF Spec

-----------------------------------------------------------------------------
(* Address spaces.                                                         *)

(* A process's own pages have no table in common with the kernel's.        *)
LEMMA UserTables ==
  ASSUME HEAP_END % PER_TABLE = 0, NEW p \in UserPages
  PROVE  p \in Nat /\ p \div PER_TABLE \in Indexes \ KernelIndexes /\ p % PER_TABLE \in Slots
<1>. DEFINE last == (HEAP_END - 1) \div PER_TABLE
            h == HEAP_END \div PER_TABLE
            x == p \div PER_TABLE
<1>1. /\ p \in Nat /\ p >= HEAP_END /\ x # HEAP_TABLE /\ HEAP_END \in Nat /\ HEAP_END - 1 \in Nat
      /\ PER_TABLE \in Nat \ {0}
  BY PagingAssumption, Parameters
<1>2. x \in Nat /\ p % PER_TABLE \in Slots /\ p = x * PER_TABLE + (p % PER_TABLE)
  BY <1>1, Split
<1>3. h \in Nat /\ HEAP_END = h * PER_TABLE
  <2>1. h \in Nat /\ HEAP_END = h * PER_TABLE + (HEAP_END % PER_TABLE)
    BY <1>1, Split
  <2>2. h * PER_TABLE \in Nat
    BY <1>1, <2>1
  <2>. HIDE DEF h
  <2>. QED BY <2>1, <2>2
<1>4. /\ last \in Nat /\ (HEAP_END - 1) % PER_TABLE \in Slots
      /\ HEAP_END - 1 = last * PER_TABLE + ((HEAP_END - 1) % PER_TABLE)
  BY <1>1, Split
<1>5. x \in Indexes
  BY IndexFacts
<1>6. ~(x < h)
  <2>. SUFFICES ASSUME x < h PROVE FALSE
    OBVIOUS
  <2>. DEFINE a == x * PER_TABLE
              b == h * PER_TABLE
              v == p % PER_TABLE
  <2>1. a + PER_TABLE <= b /\ a \in Nat
    BY <1>2, <1>3, Product
  <2>2. p = a + v /\ HEAP_END = b /\ v \in Nat /\ v < PER_TABLE /\ b \in Nat
    BY <1>1, <1>2, <1>3 DEF Slots
  <2>. HIDE DEF a, b, v
  <2>. QED BY <1>1, <2>1, <2>2
<1>7. last < h
  <2>. SUFFICES ASSUME ~(last < h) PROVE FALSE
    OBVIOUS
  <2>. DEFINE a == last * PER_TABLE
              b == h * PER_TABLE
              v == (HEAP_END - 1) % PER_TABLE
  <2>1. b <= a /\ a \in Nat /\ b \in Nat
    <3>1. CASE last = h
      <4>1. a = b
        BY <3>1
      <4>2. a \in Nat
        BY <1>1, <1>4
      <4>. HIDE DEF a, b
      <4>. QED BY <4>1, <4>2
    <3>2. CASE h < last
      <4>1. b + PER_TABLE <= a /\ b \in Nat
        BY <1>3, <1>4, <3>2, Product
      <4>2. a \in Nat
        BY <1>1, <1>4
      <4>. HIDE DEF a, b
      <4>. QED BY <1>1, <4>1, <4>2
    <3>. HIDE DEF last, h
    <3>. QED BY <1>3, <1>4, <3>1, <3>2
  <2>2. HEAP_END - 1 = a + v /\ HEAP_END = b /\ v \in Nat
    BY <1>3, <1>4 DEF Slots
  <2>. HIDE DEF a, b, v
  <2>. QED BY <1>1, <2>1, <2>2
<1>. HIDE DEF last, h, x
<1>8. x \notin KernelIndexes
  BY <1>1, <1>2, <1>3, <1>4, <1>6, <1>7 DEF KernelIndexes, last
<1>. QED BY <1>1, <1>2, <1>5, <1>8 DEF x

LEMMA PrivateBegins == Init => MadeInside /\ Private
<1>. SUFFICES ASSUME Init PROVE MadeInside /\ Private
  OBVIOUS
<1>1. DOMAIN directory = {kernel_directory} /\ KT = [x \in Indexes |-> 0]
  BY DEF Init, EmptyDirectory, KT
<1>. QED BY <1>1 DEF MadeInside, Private, Made, KT

(* Until paging is on there is one directory, with the kernel's tables.    *)
StagesMade == pc \in {"heap_table", "identity", "rest"} => MadeInside /\ Private

LEMMA StagesMadeHolds == PagingInv => StagesMade
<1>. SUFFICES ASSUME PagingInv, pc \in {"heap_table", "identity", "rest"}
              PROVE  MadeInside /\ Private
  BY DEF StagesMade
<1>1. MadeInside /\ DOMAIN directory = {kernel_directory}
  BY DEF PagingInv, Stages, MadeInside
<1>. QED BY <1>1 DEF MadeInside, Private, Made, KT

LEMMA StagesMadeNext == PagingInv' => StagesMade'
BY StagesMadeHolds, PTL

(* Frames that were free go to one entry each.                             *)
LEMMA GivenFresh ==
  ASSUME PagingInv, i > 0, Private,
         \A t \in DOMAIN pages', s \in Slots :
           \/ pages'[t][s] = Absent
           \/ t \in DOMAIN pages /\ pages'[t][s] = pages[t][s]
           \/ pages'[t][s] \in Free,
         \A t, u \in DOMAIN pages', s, v \in Slots :
           pages'[t][s] = pages'[u][v] /\ pages'[t][s] \in Free => t = u /\ s = v,
         \A d \in DOMAIN directory', x \in Indexes \ KernelIndexes :
           /\ directory'[d].tables[x] \in DOMAIN pages' \cup {0}
           /\ directory'[d].tables[x] \in DOMAIN pages =>
                \E e \in DOMAIN directory : directory[e].tables[x] = directory'[d].tables[x]
  PROVE  Private'
<1>1. 0 \in frames /\ 0 \notin DOMAIN pages
  BY DEF PagingInv, FrameZero, TypeOK
<1>2. \A t \in DOMAIN pages, s \in Slots : pages[t][s] # Absent => pages[t][s] \in frames
  BY PageType DEF PagingInv, BitmapTruth
<1>3. 0 \notin Free /\ \A f \in frames : f \notin Free
  BY <1>1 DEF Free
<1>. SUFFICES ASSUME NEW d \in DOMAIN directory', NEW x \in Indexes \ KernelIndexes, NEW s \in Slots,
                     NEW t, t = directory'[d].tables[x], t # 0, pages'[t][s] # Absent
              PROVE  /\ pages'[t][s] # 0
                     /\ \A u \in DOMAIN pages', v \in Slots :
                          pages'[u][v] = pages'[t][s] => u = t /\ v = s
  BY DEF Private
<1>4. t \in DOMAIN pages'
  OBVIOUS
<1>5. CASE pages'[t][s] \in Free
  BY <1>3, <1>4, <1>5
<1>6. CASE t \in DOMAIN pages /\ pages'[t][s] = pages[t][s] /\ pages'[t][s] \notin Free
  <2>1. PICK e \in DOMAIN directory : directory[e].tables[x] = t
    <3>1. directory'[d].tables[x] \in DOMAIN pages
      BY <1>6
    <3>2. \E e \in DOMAIN directory : directory[e].tables[x] = directory'[d].tables[x]
      BY <3>1
    <3>. QED BY <3>2
  <2>2. /\ pages[t][s] # 0
        /\ \A u \in DOMAIN pages, v \in Slots : pages[u][v] = pages[t][s] => u = t /\ v = s
    BY <1>6, <2>1 DEF Private
  <2>3. ASSUME NEW u \in DOMAIN pages', NEW v \in Slots, pages'[u][v] = pages'[t][s]
        PROVE  u = t /\ v = s
    <3>1. u \in DOMAIN pages /\ pages'[u][v] = pages[u][v]
      BY <1>6, <2>3
    <3>. QED BY <1>6, <2>2, <2>3, <3>1
  <2>. QED BY <1>6, <2>2, <2>3
<1>. QED BY <1>4, <1>5, <1>6

(* clone_table's new frames.                                               *)
LEMMA ClonePrivate ==
  ASSUME PagingInv, i > 0, Private, NEW src \in DOMAIN directory, NEW dir,
         dir \notin DOMAIN directory, NEW phys, NEW table, NewSpace(src, dir, phys, table),
         \A x \in Owned(src) : table[x] \notin DOMAIN pages,
         \A x, y \in Owned(src) : table[x] = table[y] => x = y,
         Cardinality(CopiedPages(src)) <= Cardinality(Free)
  PROVE  Private'
<1>. DEFINE own == Owned(src)
            copy == CopiedPages(src)
            N(p) == NewFrame(src, p)
<1>1. TypeOK
  BY DEF PagingInv
<1>2. /\ \A p \in copy : N(p) \in Free
      /\ \A p, q \in copy : N(p) = N(q) => p = q
  BY <1>1, NewFrames
<1>3. own \in SUBSET Indexes /\ Indexes \subseteq Nat
  BY <1>1, CopiedFacts, IndexFacts
<1>4. /\ DOMAIN directory' = DOMAIN directory \cup {dir}
      /\ \A d \in DOMAIN directory : directory'[d] = directory[d]
      /\ \A x \in Indexes : directory'[dir].tables[x] =
           IF x \in own THEN table[x] ELSE directory[src].tables[x]
      /\ \A t \in DOMAIN pages : pages'[t] = pages[t]
      /\ DOMAIN pages' = DOMAIN pages \cup {table[x] : x \in own}
      /\ \A x \in own : pages'[table[x]] =
           [s \in Slots |-> IF x * PER_TABLE + s \in copy THEN N(x * PER_TABLE + s) ELSE Absent]
  BY DEF NewSpace
<1>. HIDE DEF copy, N, own
<1>5. ASSUME NEW t \in DOMAIN pages', t \notin DOMAIN pages, NEW s \in Slots
      PROVE  \E x \in own : /\ t = table[x]
                            /\ pages'[t][s] = IF x * PER_TABLE + s \in copy
                                              THEN N(x * PER_TABLE + s) ELSE Absent
  <2>1. PICK x \in own : t = table[x]
    BY <1>4, <1>5
  <2>2. pages'[table[x]] = [v \in Slots |-> IF x * PER_TABLE + v \in copy
                                             THEN N(x * PER_TABLE + v) ELSE Absent]
    BY <1>4
  <2>3. pages'[table[x]][s] = IF x * PER_TABLE + s \in copy
                              THEN N(x * PER_TABLE + s) ELSE Absent
    BY <2>2
  <2>. QED BY <2>1, <2>3
<1>6. \A t \in DOMAIN pages, s \in Slots : pages'[t][s] = Absent \/ pages'[t][s] \notin Free
  <2>1. \A t \in DOMAIN pages, s \in Slots : pages[t][s] # Absent => pages[t][s] \in frames
    BY PageType DEF PagingInv, BitmapTruth
  <2>. QED BY <1>4, <2>1 DEF Free
<1>7. Absent \notin Free
  BY <1>1, FreeFinite DEF Frames, Absent
<1>8. \A t \in DOMAIN pages', s \in Slots :
        \/ pages'[t][s] = Absent
        \/ t \in DOMAIN pages /\ pages'[t][s] = pages[t][s]
        \/ pages'[t][s] \in Free
  BY <1>2, <1>4, <1>5
<1>9. ASSUME NEW t \in DOMAIN pages', NEW u \in DOMAIN pages', NEW s \in Slots, NEW v \in Slots,
             pages'[t][s] = pages'[u][v], pages'[t][s] \in Free
      PROVE  t = u /\ s = v
  <2>1. t \notin DOMAIN pages /\ u \notin DOMAIN pages
    BY <1>6, <1>7, <1>9
  <2>2. PICK x \in own : /\ t = table[x] /\ x * PER_TABLE + s \in copy
                         /\ pages'[t][s] = N(x * PER_TABLE + s)
    BY <1>5, <1>7, <1>9, <2>1
  <2>3. PICK y \in own : /\ u = table[y] /\ y * PER_TABLE + v \in copy
                         /\ pages'[u][v] = N(y * PER_TABLE + v)
    BY <1>5, <1>7, <1>9, <2>1
  <2>4. x * PER_TABLE + s = y * PER_TABLE + v
    BY <1>2, <1>9, <2>2, <2>3
  <2>5. x \in Nat /\ y \in Nat
    BY <1>3
  <2>6. x = y /\ s = v
    BY <2>4, <2>5, Join
  <2>. QED BY <2>2, <2>3, <2>6
<1>10. ASSUME NEW d \in DOMAIN directory', NEW x \in Indexes \ KernelIndexes
       PROVE  /\ directory'[d].tables[x] \in DOMAIN pages' \cup {0}
              /\ directory'[d].tables[x] \in DOMAIN pages =>
                   \E e \in DOMAIN directory : directory[e].tables[x] = directory'[d].tables[x]
  <2>1. \A e \in DOMAIN directory : directory[e].tables[x] \in DOMAIN pages \cup {0}
    BY <1>1 DEF TypeOK
  <2>2. CASE d \in DOMAIN directory
    BY <1>4, <2>1, <2>2
  <2>3. CASE d = dir /\ x \in own
    <3>1. directory'[d].tables[x] = table[x]
      BY <1>4, <2>3
    <3>. QED BY <1>4, <2>3, <3>1 DEF own
  <2>4. CASE d = dir /\ x \notin own
    <3>1. directory'[d].tables[x] = directory[src].tables[x]
      BY <1>4, <2>4
    <3>. QED BY <1>4, <2>1, <3>1
  <2>. QED BY <1>4, <2>2, <2>3, <2>4
<1>. HIDE DEF NewSpace
<1>. QED BY ONLY PagingInv, i > 0, Private, <1>8, <1>9, <1>10, GivenFresh

LEMMA PrivateStep ==
  ASSUME SpacesInv, [Next]_vars
  PROVE  MadeInside' /\ Private'
<1>. USE DEF SpacesInv
<1>. DEFINE K == kernel_directory
<1>0. PagingInv' /\ TypeOK /\ K \in DOMAIN directory
  BY PagingStep DEF PagingInv, TypeOK
<1>1. CASE HeapTable \/ BootIdentity \/ BootNextLoop \/ BootRest
  <2>1. pc' \in {"identity", "rest"}
    BY <1>1 DEF HeapTable, BootIdentity, BootNextLoop, BootRest
  <2>. QED BY <1>0, <2>1, StagesMadeNext DEF StagesMade
<1>2. CASE UNCHANGED <<pages, directory>>
  BY <1>2 DEF MadeInside, Made, KT, Private
<1>3. CASE CloneKernel
  <2>1. PICK none : none = <<>>
    OBVIOUS
  <2>2. /\ NewSpace(K, Placed, Placed, none) /\ Owned(K) = {} /\ Placed \notin DOMAIN directory
    BY <1>3, <2>1, KernelClone
  <2>3. i > 0 /\ CopiedPages(K) = {}
    BY <1>3, <2>2 DEF CloneKernel, PagingInv, Stages, TypeOK, CopiedPages, Copied
  <2>4. Cardinality(CopiedPages(K)) <= Cardinality(Free)
    <3>1. Cardinality(CopiedPages(K)) = 0
      BY <2>3, FS_EmptySet
    <3>. QED BY <1>0, <3>1, FreeFinite
  <2>5. /\ \A x \in Owned(K) : none[x] \notin DOMAIN pages
        /\ \A x, y \in Owned(K) : none[x] = none[y] => x = y
    BY <2>2
  <2>6. Private'
    BY ONLY PagingInv, Private, <1>0, <2>2, <2>3, <2>4, <2>5, ClonePrivate
  <2>7. KT' = KT
    BY <1>0, <2>2 DEF NewSpace, KT
  <2>. QED BY <2>6, <2>7 DEF MadeInside, Made
<1>4. CASE CloneDirectory
  <2>. DEFINE src == current_directory
              dir == heap_end + 1
              phys == Entry(K, dir)
  <2>1. PICK table : ForksAt(src, dir, table)
    BY <1>4, ForkTables
  <2>2. /\ src \in DOMAIN directory /\ dir \notin DOMAIN directory
        /\ NewSpace(src, dir, phys, table)
        /\ \A x \in Owned(src) : table[x] \notin DOMAIN pages
        /\ \A x, y \in Owned(src) : table[x] = table[y] => x = y
        /\ Cardinality(CopiedPages(src)) <= Cardinality(Free)
    BY <2>1 DEF ForksAt
  <2>3. i > 0
    BY <1>4, Runs DEF CloneDirectory
  <2>. HIDE DEF src, dir, phys
  <2>4. Private'
    BY ONLY PagingInv, Private, <2>2, <2>3, ClonePrivate
  <2>5. KT' = KT
    BY <1>0, <2>2 DEF NewSpace, KT
  <2>. QED BY <2>4, <2>5 DEF MadeInside, Made
<1>5. ASSUME NEW p \in UserPages, MapPage(p)
      PROVE  MadeInside' /\ Private'
  <2>. DEFINE d == current_directory
              x == p \div PER_TABLE
              s == p % PER_TABLE
              f == NthFree(1)
              o == directory[d].tables[x]
  <2>1. /\ p \in Nat /\ x \in Indexes /\ s \in Slots /\ pc = "run" /\ f \in Free
    <3>1. Free # {} /\ pc = "run"
      BY <1>5 DEF MapPage
    <3>. QED BY <1>0, <3>1, FirstFound, IndexFacts, Split
  <2>2. /\ d \in DOMAIN directory /\ d # K /\ heap_end \in Nat /\ Top = heap_end /\ i > 0
    BY <2>1, Runs
  <2>3. \A t \in DOMAIN pages, v \in Slots : pages[t][v] = Absent \/ pages[t][v] \notin Free
    BY PageType, <1>0 DEF PagingInv, BitmapTruth, Free
  <2>4. ASSUME NEW t, t # 0, DOMAIN pages' = DOMAIN pages \cup {t},
               \A u \in DOMAIN pages', v \in Slots : pages'[u][v] =
                 IF u = t /\ v = s THEN f
                 ELSE IF u \in DOMAIN pages THEN pages[u][v] ELSE Absent,
               DOMAIN directory' = DOMAIN directory,
               \A e \in DOMAIN directory, y \in Indexes :
                 directory'[e].tables[y] = directory[e].tables[y]
                   \/ (directory'[e].tables[y] = t /\ t \notin DOMAIN pages)
        PROVE  Private'
    <3>1. Absent \notin Free
      BY <1>0, FreeFinite DEF Frames, Absent
    <3>2. \A u \in DOMAIN pages', v \in Slots :
            \/ pages'[u][v] = Absent
            \/ u \in DOMAIN pages /\ pages'[u][v] = pages[u][v]
            \/ pages'[u][v] \in Free
      BY <2>1, <2>4
    <3>3. \A u, w \in DOMAIN pages', v, z \in Slots :
            pages'[u][v] = pages'[w][z] /\ pages'[u][v] \in Free => u = w /\ v = z
      <4>1. \A u \in DOMAIN pages', v \in Slots : pages'[u][v] \in Free => u = t /\ v = s
        BY <2>3, <2>4, <3>1
      <4>. QED BY <4>1
    <3>4. \A e \in DOMAIN directory', y \in Indexes \ KernelIndexes :
            /\ directory'[e].tables[y] \in DOMAIN pages' \cup {0}
            /\ directory'[e].tables[y] \in DOMAIN pages =>
                 \E c \in DOMAIN directory : directory[c].tables[y] = directory'[e].tables[y]
      <4>1. \A e \in DOMAIN directory, y \in Indexes :
              directory[e].tables[y] \in DOMAIN pages \cup {0}
        BY <1>0 DEF TypeOK
      <4>. QED BY <2>4, <4>1
    <3>. QED BY ONLY PagingInv, Private, <2>2, <3>2, <3>3, <3>4, GivenFresh
  <2>5. CASE o = 0
    <3>. DEFINE t == heap_end + 1
                D == directory[d]
                E == [D EXCEPT !.tables = [D.tables EXCEPT ![x] = t],
                               !.tablesPhysical = [D.tablesPhysical EXCEPT ![x] = Entry(K, t)]]
    <3>1. /\ pages' = With(pages, t, [EmptyTable EXCEPT ![s] = f])
          /\ directory' = [directory EXCEPT ![d].tables[x] = t,
                                            ![d].tablesPhysical[x] = Entry(kernel_directory, t)]
      BY <1>5, <2>5 DEF MapPage
    <3>2. t \notin DOMAIN pages /\ t # 0
      BY <1>0, <2>2 DEF PagingInv, Places, TypeOK
    <3>3. DOMAIN pages' = DOMAIN pages \cup {t}
      BY <3>1 DEF With
    <3>4. \A u \in DOMAIN pages', v \in Slots : pages'[u][v] =
            IF u = t /\ v = s THEN f
            ELSE IF u \in DOMAIN pages THEN pages[u][v] ELSE Absent
      <4>1. [EmptyTable EXCEPT ![s] = f] = [v \in Slots |-> IF v = s THEN f ELSE Absent]
        BY DEF EmptyTable
      <4>. QED BY <3>1, <3>2, <3>3, <4>1 DEF With
    <3>5. /\ DOMAIN directory' = DOMAIN directory /\ directory'[d] = E
          /\ \A e \in DOMAIN directory \ {d} : directory'[e] = directory[e]
      BY <2>2, <3>1
    <3>6. D \in [tables : [Indexes -> DOMAIN pages \cup {0}], tablesPhysical : [Indexes -> Int],
                 physicalAddr : Int]
      BY <1>0, <2>2 DEF TypeOK
    <3>7. \A y \in Indexes : E.tables[y] = IF y = x THEN t ELSE D.tables[y]
      BY <3>6
    <3>. HIDE DEF E
    <3>8. \A e \in DOMAIN directory, y \in Indexes :
            directory'[e].tables[y] = directory[e].tables[y]
              \/ (directory'[e].tables[y] = t /\ t \notin DOMAIN pages)
      BY <3>2, <3>5, <3>7
    <3>9. KT' = KT
      BY <1>0, <2>2, <3>5 DEF KT
    <3>10. Private'
      BY <2>4, <3>2, <3>3, <3>4, <3>5, <3>8
    <3>. QED BY <3>9, <3>10 DEF MadeInside, Made
  <2>6. CASE o # 0
    <3>1. /\ pages' = [pages EXCEPT ![o][s] = f] /\ directory' = directory
      BY <1>5, <2>6 DEF MapPage
    <3>2. o \in DOMAIN pages /\ pages \in [DOMAIN pages -> [Slots -> Frames \cup {Absent}]]
      BY <1>0, <2>1, <2>2, <2>6 DEF TypeOK
    <3>. HIDE DEF o, x, d, s, f
    <3>3. DOMAIN pages' = DOMAIN pages \cup {o}
      BY <3>1, <3>2
    <3>4. \A u \in DOMAIN pages', v \in Slots : pages'[u][v] =
            IF u = o /\ v = s THEN f
            ELSE IF u \in DOMAIN pages THEN pages[u][v] ELSE Absent
      BY <2>1, <3>1, <3>2, <3>3
    <3>5. Private'
      BY <2>4, <2>6, <3>1, <3>3, <3>4
    <3>6. KT' = KT
      BY <3>1 DEF KT
    <3>. QED BY <3>5, <3>6 DEF MadeInside, Made
  <2>. QED BY <2>5, <2>6
<1>6. CASE EnablePaging \/ InitHeap \/ HeapGrows \/ SwitchDirectory
  BY <1>2, <1>6 DEF EnablePaging, InitHeap, HeapGrows, SwitchDirectory
<1>7. CASE \E q \in UserPages : \E v \in Values : Write(q, v)
  BY <1>2, <1>7 DEF Write
<1>8. CASE UNCHANGED vars
  BY <1>2, <1>8 DEF vars
<1>. QED BY <1>1, <1>3, <1>4, <1>5, <1>6, <1>7, <1>8 DEF Next

-----------------------------------------------------------------------------
(* Memory's variables, which the steps of paging map to steps of.          *)

Cell(d, p) == IF Entry(d, p) = Absent THEN Absent ELSE memory[Entry(d, p)]
Space == [d \in Processes |-> [p \in UserPages |-> Cell(d, p)]]
Running == IF current_directory \in Processes THEN current_directory ELSE 0

LEMMA Started ==
  ASSUME PagingInv, pc = "run"
  PROVE  /\ current_directory \in Processes /\ Running = current_directory /\ Running # 0
         /\ DOMAIN Space = Processes
BY Runs DEF PagingInv, TypeOK, Processes, Running, Space

(* The frame that a process's own page has is in no other page.            *)
LEMMA UserEntry ==
  ASSUME HEAP_END % PER_TABLE = 0, SpacesInv, NEW d \in Processes, NEW p \in UserPages
  PROVE  /\ KT[p \div PER_TABLE] = 0
         /\ Entry(d, p) # Absent =>
              /\ Entry(d, p) \in frames /\ HasFrame(Entry(d, p))
              /\ \A e \in Processes, q \in UserPages :
                   Entry(e, q) = Entry(d, p) => e = d /\ q = p
<1>. USE DEF SpacesInv, PagingInv
<1>. DEFINE x == p \div PER_TABLE
            s == p % PER_TABLE
            t == directory[d].tables[x]
<1>1. p \in Nat /\ x \in Indexes \ KernelIndexes /\ s \in Slots
  BY UserTables
<1>2. KT[x] = 0
  BY <1>1 DEF MadeInside, Made
<1>. SUFFICES ASSUME Entry(d, p) # Absent
              PROVE  /\ Entry(d, p) \in frames /\ HasFrame(Entry(d, p))
                     /\ \A e \in Processes, q \in UserPages :
                          Entry(e, q) = Entry(d, p) => e = d /\ q = p
  BY <1>2
<1>3. t # 0 /\ Entry(d, p) = pages[t][s]
  BY DEF Entry
<1>4. d \in DOMAIN directory /\ \A e \in DOMAIN directory, y \in Indexes :
        directory[e].tables[y] \in DOMAIN pages \cup {0}
  BY DEF Processes, TypeOK
<1>5. t \in DOMAIN pages
  BY <1>1, <1>3, <1>4
<1>6. /\ pages[t][s] # 0
      /\ \A u \in DOMAIN pages, v \in Slots : pages[u][v] = pages[t][s] => u = t /\ v = s
  BY <1>1, <1>3, <1>4 DEF Private
<1>7. pages[t][s] \in frames /\ pages[t][s] \in Nat
  BY <1>1, <1>3, <1>5, PageType, Parameters DEF BitmapTruth, Frames
<1>8. ASSUME NEW e \in Processes, NEW q \in UserPages, Entry(e, q) = Entry(d, p)
      PROVE  e = d /\ q = p
  <2>. DEFINE y == q \div PER_TABLE
              v == q % PER_TABLE
              u == directory[e].tables[y]
  <2>1. q \in Nat /\ y \in Indexes /\ v \in Slots
    BY UserTables
  <2>2. u # 0 /\ pages[u][v] = pages[t][s]
    BY <1>3, <1>8 DEF Entry
  <2>3. e \in DOMAIN directory /\ u \in DOMAIN pages
    BY <1>4, <2>1, <2>2 DEF Processes
  <2>4. u = t /\ v = s
    BY <1>6, <2>1, <2>2, <2>3
  <2>5. x = y
    BY <1>1, <1>3, <1>4, <2>1, <2>3, <2>4 DEF Places
  <2>6. q = p
    <3>1. q = y * PER_TABLE + v /\ p = x * PER_TABLE + s
      BY <1>1, <2>1, Split
    <3>. HIDE DEF x, y, s, v
    <3>. QED BY <2>4, <2>5, <3>1
  <2>7. e = d
    <3>1. t # 0 => \A c \in DOMAIN directory \ {d} : directory[c].tables[x] # t
      BY <1>1, <1>2, <1>4 DEF Sharing
    <3>. QED BY <1>3, <2>3, <2>4, <2>5, <3>1
  <2>. QED BY <2>6, <2>7
<1>9. HasFrame(Entry(d, p))
  BY <1>3, <1>6, <1>7, SMTT(30) DEF HasFrame
<1>. HIDE DEF x, s, t
<1>. QED BY <1>3, <1>7, <1>8, <1>9

(* The steps that change no process's pages.                               *)
LEMMA SpacesIdle ==
  ASSUME SpacesInv,
         HeapTable \/ BootIdentity \/ BootNextLoop \/ BootRest \/ EnablePaging
           \/ InitHeap \/ HeapGrows \/ UNCHANGED vars
  PROVE  Space' = Space /\ Running' = Running
<1>1. CASE HeapTable \/ BootIdentity \/ BootNextLoop \/ BootRest
  <2>1. PagingInv /\ PagingInv'
    BY <1>1, PagingStep DEF SpacesInv, Next
  <2>2. pc \in {"heap_table", "identity", "rest"} /\ pc' \in {"identity", "rest"}
    BY <1>1 DEF HeapTable, BootIdentity, BootNextLoop, BootRest
  <2>3. Processes = {} /\ Processes' = {}
    BY <2>1, <2>2 DEF PagingInv, Stages, Processes
  <2>. QED BY <2>3 DEF Space, Running
<1>2. CASE EnablePaging
  <2>1. /\ current_directory' = kernel_directory
        /\ UNCHANGED <<pages, directory, memory>> /\ Processes = {}
    BY <1>2 DEF EnablePaging, SpacesInv, PagingInv, Stages, Processes
  <2>. QED BY <2>1 DEF Space, Running, Cell, Entry, Processes
<1>3. CASE InitHeap \/ HeapGrows \/ UNCHANGED vars
  <2>1. UNCHANGED <<pages, directory, memory, current_directory>>
    BY <1>3 DEF InitHeap, HeapGrows, vars
  <2>. QED BY <2>1 DEF Space, Running, Cell, Entry, Processes
<1>. QED BY <1>1, <1>2, <1>3

LEMMA FirstSpace ==
  ASSUME HEAP_END % PER_TABLE = 0, SpacesInv, CloneKernel
  PROVE  Memory!First
<1>. USE DEF SpacesInv, PagingInv
<1>. DEFINE K == kernel_directory
<1>1. PICK none, s : none = <<>> /\ s = Placed
  OBVIOUS
<1>2. /\ NewSpace(K, s, s, none) /\ Owned(K) = {} /\ s \notin DOMAIN directory
  BY <1>1, KernelClone
<1>3. /\ DOMAIN directory = {K} /\ current_directory' = s /\ K \in DOMAIN directory
  BY <1>1 DEF CloneKernel, Stages
<1>4. Processes = {} /\ Processes' = {s}
  BY <1>2, <1>3 DEF NewSpace, Processes
<1>5. s \in 1..HEAP_END
  <2>1. placement_pointer \in Nat /\ placement_pointer + 3 <= PlacedEnd
    BY DEF TypeOK, PlacedBound, CloneKernel
  <2>2. PlacedEnd < HEAP_END + 3
    BY BootFits, Parameters, FewTables DEF PlacedEnd
  <2>. QED BY <1>1, <2>1, <2>2, FewTables, Parameters DEF Placed, PlacedEnd
<1>6. ASSUME NEW p \in UserPages PROVE Cell(s, p)' = Absent
  <2>1. p \div PER_TABLE \in Indexes \ KernelIndexes
    BY UserTables
  <2>2. directory[K].tables[p \div PER_TABLE] = 0
    BY <2>1 DEF MadeInside, Made, KT
  <2>3. directory'[s].tables[p \div PER_TABLE] = 0
    BY <1>2, <2>1, <2>2 DEF NewSpace
  <2>. QED BY <2>3 DEF Cell, Entry
<1>7. Space = [d \in {} |-> {}] /\ DOMAIN Space = {}
  BY <1>4 DEF Space
<1>8. Space' = [t \in {s} |-> [p \in UserPages |-> Absent]] /\ Running' = s
  BY <1>3, <1>4, <1>6 DEF Space, Running
<1>. QED BY <1>5, <1>7, <1>8 DEF Memory!First, Memory!Made, Space, Cell, Running

LEMMA SwitchSpace ==
  ASSUME PagingInv, SwitchDirectory
  PROVE  Memory!Switch
<1>1. pc = "run" /\ current_directory' \in Processes /\ UNCHANGED <<pages, directory, memory>>
  BY DEF SwitchDirectory, Processes
<1>2. Running # 0 /\ Running' = current_directory' /\ DOMAIN Space = Processes
  BY <1>1, Started DEF Running, Processes
<1>3. Space' = Space
  BY <1>1 DEF Space, Cell, Entry, Processes
<1>. QED BY <1>1, <1>2, <1>3 DEF Memory!Switch, Memory!Made, Space, Cell, Running

LEMMA WriteSpace ==
  ASSUME HEAP_END % PER_TABLE = 0, Absent \notin Values, SpacesInv,
         NEW p \in UserPages, NEW v \in Values, Write(p, v)
  PROVE  Memory!Write(p, v)
<1>. USE DEF SpacesInv, PagingInv
<1>. PICK c, f : c = current_directory /\ f = Entry(c, p)
  OBVIOUS
<1>1. /\ pc = "run" /\ f # Absent /\ memory' = [memory EXCEPT ![f] = v]
      /\ UNCHANGED <<pages, directory, current_directory>>
  BY DEF Write
<1>2. c \in Processes /\ Running = c /\ Running # 0 /\ DOMAIN Space = Processes
  BY <1>1, Started
<1>3. f \in Frames /\ memory \in [Frames -> Values]
  BY <1>1, <1>2, UserEntry DEF TypeOK
<1>4. /\ \A e, q : Entry(e, q)' = Entry(e, q)
      /\ Processes' = Processes /\ Running' = Running
  BY <1>1 DEF Entry, Processes, Running
<1>5. ASSUME NEW e \in Processes, NEW q \in UserPages
      PROVE  Cell(e, q)' = IF e = c /\ q = p THEN v ELSE Cell(e, q)
  <2>1. Entry(e, q) = f <=> e = c /\ q = p
    BY <1>1, <1>2, UserEntry
  <2>2. Entry(e, q) # Absent => Entry(e, q) \in Frames
    BY UserEntry DEF TypeOK
  <2>. QED BY <1>1, <1>3, <1>4, <2>1, <2>2 DEF Cell
<1>6. Cell(c, p) # Absent
  BY <1>1, <1>3 DEF Cell
<1>7. Space' = [Space EXCEPT ![c][p] = v]
  BY <1>2, <1>4, <1>5, ZenonT(60) DEF Space
<1>8. Space[c][p] # Absent
  BY <1>2, <1>6 DEF Space
<1>. QED BY <1>2, <1>4, <1>7, <1>8 DEF Memory!Write, Space, Cell, Running

LEMMA MapSpace ==
  ASSUME HEAP_END % PER_TABLE = 0, SpacesInv, NEW p \in UserPages, MapPage(p)
  PROVE  Memory!Map(p)
<1>. USE DEF SpacesInv, PagingInv
<1>. PICK c, f, w : c = current_directory /\ f = NthFree(1) /\ w = memory[f]
  OBVIOUS
<1>. DEFINE x == p \div PER_TABLE
            s == p % PER_TABLE
            o == directory[c].tables[x]
<1>1. /\ pc = "run" /\ Free # {} /\ ~HasFrame(Entry(c, p))
      /\ current_directory' = c /\ memory' = memory
  BY DEF MapPage
<1>2. /\ c \in Processes /\ Running = c /\ Running # 0 /\ DOMAIN Space = Processes
      /\ c \in DOMAIN directory /\ heap_end \in Nat /\ Top = heap_end
  BY <1>1, Runs, Started DEF Processes
<1>3. /\ p \in Nat /\ x \in Indexes /\ s \in Slots /\ f \in Frames
      /\ f # Absent /\ w \in Values
  <2>1. f \in Frames /\ memory \in [Frames -> Values]
    BY FirstFound DEF TypeOK
  <2>2. Absent \notin Frames
    BY Parameters DEF Frames, Absent
  <2>. QED BY <2>1, <2>2, UserTables
<1>4. Entry(c, p) = Absent
  BY <1>1, <1>2, UserEntry
<1>5. ASSUME NEW q \in UserPages
      PROVE  /\ q \div PER_TABLE \in Indexes /\ q % PER_TABLE \in Slots /\ q \in Nat
             /\ q \div PER_TABLE = x /\ q % PER_TABLE = s => q = p
  <2>1. /\ q \div PER_TABLE \in Indexes /\ q % PER_TABLE \in Slots /\ q \in Nat
        /\ q = (q \div PER_TABLE) * PER_TABLE + (q % PER_TABLE) /\ p = x * PER_TABLE + s
    BY <1>3, UserTables, Split
  <2>. QED BY <2>1
<1>6. \A e \in DOMAIN directory, y \in Indexes : directory[e].tables[y] \in DOMAIN pages \cup {0}
  BY DEF TypeOK
(* Only the entry of p changes. *)
<1>7. /\ DOMAIN directory' = DOMAIN directory
      /\ \A e \in Processes, q \in UserPages :
           Entry(e, q)' = IF e = c /\ q = p THEN f ELSE Entry(e, q)
  <2>1. CASE o = 0
    <3>. DEFINE t == heap_end + 1
                D == directory[c]
                E == [D EXCEPT !.tables = [D.tables EXCEPT ![x] = t],
                        !.tablesPhysical = [D.tablesPhysical EXCEPT
                                              ![x] = Entry(kernel_directory, t)]]
    <3>1. /\ pages' = With(pages, t, [EmptyTable EXCEPT ![s] = f])
          /\ directory' = [directory EXCEPT ![c].tables[x] = t,
                                            ![c].tablesPhysical[x] = Entry(kernel_directory, t)]
      BY <2>1 DEF MapPage
    <3>2. t \notin DOMAIN pages /\ t # 0
      BY <1>2 DEF Places, TypeOK
    <3>3. /\ \A u \in DOMAIN pages : pages'[u] = pages[u]
          /\ \A v \in Slots : pages'[t][v] = IF v = s THEN f ELSE Absent
      BY <3>1, <3>2 DEF With, EmptyTable
    <3>4. /\ DOMAIN directory' = DOMAIN directory /\ directory'[c] = E
          /\ \A e \in DOMAIN directory \ {c} : directory'[e] = directory[e]
      BY <1>2, <3>1
    <3>5. D \in [tables : [Indexes -> DOMAIN pages \cup {0}], tablesPhysical : [Indexes -> Int],
                 physicalAddr : Int]
      BY <1>2 DEF TypeOK
    <3>6. \A y \in Indexes : E.tables[y] = IF y = x THEN t ELSE D.tables[y]
      BY <3>5
    <3>. HIDE DEF E
    <3>7. ASSUME NEW e \in Processes, NEW q \in UserPages
          PROVE  Entry(e, q)' = IF e = c /\ q = p THEN f ELSE Entry(e, q)
      <4>. DEFINE y == q \div PER_TABLE
                  v == q % PER_TABLE
      <4>1. /\ Entry(e, q)' = IF directory'[e].tables[y] = 0 THEN Absent
                              ELSE pages'[directory'[e].tables[y]][v]
            /\ Entry(e, q) = IF directory[e].tables[y] = 0 THEN Absent
                             ELSE pages[directory[e].tables[y]][v]
        BY DEF Entry
      <4>2. y \in Indexes /\ v \in Slots /\ (y = x /\ v = s => q = p) /\ e \in DOMAIN directory
        BY <1>5 DEF Processes
      <4>3. directory[e].tables[y] \in DOMAIN pages \cup {0}
        BY <1>6, <4>2
      <4>4. CASE e = c /\ y = x
        <5>1. directory'[e].tables[y] = t
          BY <3>4, <3>6, <4>2, <4>4
        <5>2. Entry(e, q) = Absent
          BY <2>1, <4>1, <4>4
        <5>3. q = p => v = s
          OBVIOUS
        <5>. HIDE DEF y, v, s, x, t
        <5>. QED BY <3>2, <3>3, <4>1, <4>2, <4>4, <5>1, <5>2, <5>3
      <4>5. CASE ~(e = c /\ y = x)
        <5>1. directory'[e].tables[y] = directory[e].tables[y]
          BY <3>4, <3>6, <4>2, <4>5
        <5>2. q = p => y = x
          OBVIOUS
        <5>. HIDE DEF y, v, s, x, t
        <5>. QED BY <3>3, <4>1, <4>3, <4>5, <5>1, <5>2
      <4>. QED BY <4>4, <4>5
    <3>. QED BY <3>4, <3>7
  <2>2. CASE o # 0
    <3>1. /\ pages' = [pages EXCEPT ![o][s] = f] /\ directory' = directory
      BY <2>2 DEF MapPage
    <3>2. o \in DOMAIN pages /\ pages \in [DOMAIN pages -> [Slots -> Frames \cup {Absent}]]
      BY <1>2, <1>3, <1>6, <2>2 DEF TypeOK
    <3>3. \A u \in DOMAIN pages, v \in Slots :
            pages'[u][v] = IF u = o /\ v = s THEN f ELSE pages[u][v]
      BY <1>3, <3>1, <3>2
    <3>4. ASSUME NEW e \in Processes, NEW q \in UserPages
          PROVE  Entry(e, q)' = IF e = c /\ q = p THEN f ELSE Entry(e, q)
      <4>. DEFINE y == q \div PER_TABLE
                  v == q % PER_TABLE
                  u == directory[e].tables[y]
      <4>1. /\ Entry(e, q)' = IF u = 0 THEN Absent ELSE pages'[u][v]
            /\ Entry(e, q) = IF u = 0 THEN Absent ELSE pages[u][v]
        BY <3>1 DEF Entry
      <4>2. y \in Indexes /\ v \in Slots /\ (y = x /\ v = s => q = p) /\ e \in DOMAIN directory
        BY <1>5 DEF Processes
      <4>3. u \in DOMAIN pages \cup {0}
        BY <1>6, <4>2
      <4>4. u = o => y = x /\ e = c
        <5>1. u = o => y = x
          BY <1>2, <1>3, <2>2, <4>2 DEF Places
        <5>2. KT[x] = 0
          BY <1>2, UserEntry
        <5>3. \A d \in DOMAIN directory \ {c} : directory[d].tables[x] # o
          BY <1>2, <1>3, <2>2, <5>2 DEF Sharing
        <5>. QED BY <4>2, <5>1, <5>3
      <4>5. e = c /\ q = p => u = o /\ v = s
        OBVIOUS
      <4>. HIDE DEF y, v, u, s, x, o
      <4>. QED BY <2>2, <3>2, <3>3, <4>1, <4>2, <4>3, <4>4, <4>5
    <3>. QED BY <3>1, <3>4
  <2>. QED BY <2>1, <2>2
<1>8. /\ Processes' = Processes /\ Running' = Running
  BY <1>1, <1>7 DEF Processes, Running
<1>9. ASSUME NEW e \in Processes, NEW q \in UserPages
      PROVE  Cell(e, q)' = IF e = c /\ q = p THEN w ELSE Cell(e, q)
  BY <1>1, <1>3, <1>7 DEF Cell
<1>10. Space' = [Space EXCEPT ![c][p] = w]
  <2>1. c \in Processes /\ Processes' = Processes
    BY <1>2, <1>8
  <2>. QED BY ONLY <2>1, <1>9 DEF Space
<1>11. Space[c][p] = Absent
  BY <1>2, <1>4 DEF Space, Cell
<1>. QED BY <1>2, <1>3, <1>8, <1>10, <1>11 DEF Memory!Map, Space, Cell, Running

LEMMA CloneSpace ==
  ASSUME HEAP_END % PER_TABLE = 0, SpacesInv, CloneDirectory
  PROVE  Memory!Clone
<1>. USE DEF SpacesInv, PagingInv
<1>. PICK src, dir, phys : /\ src = current_directory /\ dir = heap_end + 1
                           /\ phys = Entry(kernel_directory, dir)
  OBVIOUS
<1>. DEFINE K == kernel_directory
            own == Owned(src)
            copy == CopiedPages(src)
            N(p) == NewFrame(src, p)
<1>1. pc = "run" /\ current_directory' = src
  BY DEF CloneDirectory
<1>2. PICK table : ForksAt(src, dir, table)
  BY ForkTables
<1>3. /\ src \in DOMAIN directory /\ dir \notin DOMAIN directory /\ dir \in Nat \ {0}
      /\ NewSpace(src, dir, phys, table) /\ heap_end + 4 <= heap_end' /\ heap_end' <= BRK_MAX
      /\ heap_end' \in Nat
      /\ Cardinality(copy) <= Cardinality(Free)
      /\ \A x \in own : table[x] \in Nat \ {0} /\ table[x] \notin DOMAIN pages
  BY <1>2 DEF ForksAt
<1>4. /\ src \in Processes /\ Running = src /\ Running # 0 /\ DOMAIN Space = Processes
      /\ heap_end \in Nat /\ K \in DOMAIN directory
  BY <1>1, Runs, Started DEF TypeOK
<1>5. dir \in 1..HEAP_END /\ dir \notin Processes /\ dir # K
  BY <1>3, <1>4, Parameters DEF Processes
<1>6. /\ DOMAIN directory' = DOMAIN directory \cup {dir}
      /\ \A d \in DOMAIN directory : directory'[d] = directory[d]
      /\ \A x \in Indexes : directory'[dir].tables[x] =
           IF x \in own THEN table[x] ELSE directory[src].tables[x]
      /\ \A t \in DOMAIN pages : pages'[t] = pages[t]
      /\ \A x \in own : pages'[table[x]] =
           [s \in Slots |-> IF x * PER_TABLE + s \in copy THEN N(x * PER_TABLE + s) ELSE Absent]
      /\ memory' = copy_page_physical(src)
  BY <1>3 DEF NewSpace
<1>7. /\ \A p \in copy : N(p) \in Free /\ N(p) \in Frames
      /\ \A p, q \in copy : N(p) = N(q) => p = q
  BY <1>3, NewFrames DEF Free
<1>8. Processes' = Processes \cup {dir}
  BY <1>5, <1>6 DEF Processes
(* What the frames hold afterwards. *)
<1>9. /\ \A f \in frames : memory'[f] = memory[f]
      /\ \A p \in copy : memory'[N(p)] = memory[Entry(src, p)]
  <2>. DEFINE from(f) == {p \in copy : N(p) = f}
  <2>1. \A f \in Frames : memory'[f] =
          IF from(f) = {} THEN memory[f] ELSE memory[Entry(src, CHOOSE p \in from(f) : TRUE)]
    BY <1>6 DEF copy_page_physical
  <2>. HIDE DEF N, copy
  <2>2. ASSUME NEW f \in frames PROVE memory'[f] = memory[f]
    <3>1. f \in Frames /\ from(f) = {}
      BY <1>7 DEF TypeOK, Free
    <3>. QED BY <2>1, <3>1
  <2>3. ASSUME NEW p \in copy PROVE memory'[N(p)] = memory[Entry(src, p)]
    <3>1. N(p) \in Frames /\ from(N(p)) = {p}
      BY <1>7
    <3>2. (CHOOSE q \in from(N(p)) : TRUE) = p
      BY <3>1
    <3>. HIDE DEF from
    <3>. QED BY <2>1, <3>1, <3>2
  <2>. QED BY <2>2, <2>3
(* The processes there are keep their pages. *)
<1>10. ASSUME NEW d \in Processes, NEW p \in UserPages
       PROVE  Cell(d, p)' = Cell(d, p)
  <2>1. Entry(d, p)' = Entry(d, p)
    <3>1. d \in DOMAIN directory /\ p \in Nat /\ p \div PER_TABLE \in Indexes
      BY UserTables DEF Processes
    <3>2. directory'[d].tables = directory[d].tables
      BY <1>6, <3>1
    <3>. QED BY ONLY SpacesInv, <1>6, <3>1, <3>2, EntriesKept DEF SpacesInv, PagingInv
  <2>2. Entry(d, p) # Absent => Entry(d, p) \in frames
    BY UserEntry
  <2>. HIDE DEF copy, N
  <2>. QED BY <1>9, <2>1, <2>2 DEF Cell
(* The new one begins with the same contents. *)
<1>11. ASSUME NEW p \in UserPages PROVE Cell(dir, p)' = Cell(src, p)
  <2>. DEFINE x == p \div PER_TABLE
              s == p % PER_TABLE
              t == directory[src].tables[x]
  <2>1. p \in Nat /\ x \in Indexes /\ s \in Slots /\ p = x * PER_TABLE + s
    BY UserTables, Split
  <2>2. KT[x] = 0 /\ (Entry(src, p) # Absent => HasFrame(Entry(src, p)))
    BY <1>4, UserEntry
  <2>3. x \in own <=> t # 0
    BY <2>1, <2>2 DEF Owned, Shared, KT
  <2>4. /\ Entry(src, p) = IF t = 0 THEN Absent ELSE pages[t][s]
        /\ Entry(dir, p)' = IF directory'[dir].tables[x] = 0 THEN Absent
                            ELSE pages'[directory'[dir].tables[x]][s]
    BY DEF Entry
  <2>5. CASE t = 0
    <3>1. Entry(dir, p)' = Absent /\ Entry(src, p) = Absent
      BY <1>6, <2>1, <2>3, <2>4, <2>5
    <3>. QED BY <3>1 DEF Cell
  <2>6. CASE t # 0
    <3>1. Entry(dir, p)' = IF p \in copy THEN N(p) ELSE Absent
      <4>1. directory'[dir].tables[x] = table[x] /\ table[x] # 0
        BY <1>3, <1>6, <2>1, <2>3, <2>6
      <4>. HIDE DEF N, copy, own, x, s, t
      <4>2. pages'[table[x]][s] = IF x * PER_TABLE + s \in copy
                                  THEN N(x * PER_TABLE + s) ELSE Absent
        BY <1>6, <2>1, <2>3, <2>6, ZenonT(60)
      <4>. QED BY <2>1, <2>4, <4>1, <4>2
    <3>2. p \in copy <=> Entry(src, p) # Absent
      <4>1. p \in Copied(src)
        <5>. HIDE DEF x, s, t
        <5>. QED BY <2>1, <2>3, <2>6 DEF Copied
      <4>2. ~HasFrame(Absent)
        BY DEF HasFrame, Absent
      <4>. QED BY <2>2, <4>1, <4>2 DEF CopiedPages
    <3>3. p \in copy => N(p) # Absent
      BY <1>7 DEF Frames, Absent
    <3>. HIDE DEF N, copy, own, x, s, t
    <3>. QED BY <1>9, <3>1, <3>2, <3>3 DEF Cell
  <2>. QED BY <2>5, <2>6
<1>12. Running' = Running
  BY <1>1, <1>4, <1>8 DEF Running
<1>. HIDE DEF N, copy, own
<1>13. Space' = [d \in DOMAIN Space \cup {dir} |-> IF d = dir THEN Space[src] ELSE Space[d]]
  <2>1. \A d \in Processes : Space[d] = [p \in UserPages |-> Cell(d, p)]
    BY DEF Space
  <2>2. Space' = [d \in Processes \cup {dir} |-> [p \in UserPages |-> Cell(d, p)']]
    BY <1>8 DEF Space
  <2>3. ASSUME NEW d \in Processes \cup {dir}
        PROVE  [p \in UserPages |-> Cell(d, p)'] = IF d = dir THEN Space[src] ELSE Space[d]
    BY <1>4, <1>5, <1>10, <1>11, <2>1
  <2>. QED BY <1>4, <2>2, <2>3
<1>14. dir \in (1..HEAP_END) \ DOMAIN Space
  BY <1>4, <1>5
<1>15. Space' = [d \in DOMAIN Space \cup {dir} |-> IF d = dir THEN Space[Running] ELSE Space[d]]
  BY <1>4, <1>13
<1>. QED BY ONLY <1>4, <1>12, <1>14, <1>15 DEF Memory!Clone, Memory!Made, Space, Cell, Running

LEMMA SpacesStep ==
  ASSUME HEAP_END % PER_TABLE = 0, Absent \notin Values, SpacesInv, [Next]_vars
  PROVE  [Memory!Next]_<<Space, Running>>
<1>1. CASE HeapTable \/ BootIdentity \/ BootNextLoop \/ BootRest \/ EnablePaging
             \/ InitHeap \/ HeapGrows \/ UNCHANGED vars
  BY <1>1, SpacesIdle
<1>2. CASE CloneKernel
  BY <1>2, FirstSpace DEF Memory!Next
<1>3. CASE CloneDirectory
  BY <1>3, CloneSpace DEF Memory!Next
<1>4. CASE SwitchDirectory
  BY <1>4, SwitchSpace DEF Memory!Next, SpacesInv
<1>5. ASSUME NEW p \in UserPages, MapPage(p) PROVE Memory!Next
  BY <1>5, MapSpace DEF Memory!Next
<1>6. ASSUME NEW p \in UserPages, NEW v \in Values, Write(p, v) PROVE Memory!Next
  BY <1>6, WriteSpace DEF Memory!Next
<1>. QED BY <1>1, <1>2, <1>3, <1>4, <1>5, <1>6 DEF Next

(* AddressSpaces: a new address space is a copy of the one it is cloned    *)
(* from, a page mapped or written is so in one space alone, and nothing    *)
(* else the kernel does changes what a process finds in its pages.  The    *)
(* heap ends where a table does, so that a process's own pages are in      *)
(* tables of its own.                                                      *)
THEOREM ProcessesHaveMemory ==
  ASSUME HEAP_END % PER_TABLE = 0, Absent \notin Values
  PROVE  Spec => SpacesKept
<1>1. Init => SpacesInv
  BY Begins, PlacedBegins, PrivateBegins DEF SpacesInv
<1>2. SpacesInv /\ [Next]_vars => SpacesInv'
  BY PagingStep, PlacedBoundStep, PrivateStep DEF SpacesInv
<1>3. Init => Memory!Init
  <2>. SUFFICES ASSUME Init PROVE Space = [s \in {} |-> {}] /\ Running = 0
    BY DEF Memory!Init, Space, Cell, Running
  <2>1. Processes = {}
    BY DEF Init, Processes
  <2>. QED BY <2>1 DEF Space, Running
<1>4. SpacesInv /\ [Next]_vars => [Memory!Next]_<<Space, Running>>
  BY SpacesStep
<1>. QED
  BY <1>1, <1>2, <1>3, <1>4, PTL DEF Spec, SpacesKept, Memory!Spec, Space, Cell, Running
=============================================================================
