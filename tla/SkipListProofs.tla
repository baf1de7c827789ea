--------------------------- MODULE SkipListProofs ---------------------------
(***************************************************************************)
(* For any number of blocks, any sizes and any levels drawn: the skip list *)
(* loses no block, stays sorted on every level, and implements the         *)
(* best-fit pool.                                                          *)
(***************************************************************************)
EXTENDS SkipList, FiniteSetTheorems, WellFoundedInduction, TLAPS

-----------------------------------------------------------------------------
(* Searches along the pointers.  A function that follows them is defined   *)
(* by recursion; that there is one, whatever the pointers left in memory,  *)
(* follows from what is reached from a node: the least set with the node   *)
(* that is closed under g.                                                 *)

Closed(g, S) == \A z \in S : g[z] \in S
Closure(g, x) ==
  {y \in DOMAIN g : \A S \in SUBSET DOMAIN g : x \in S /\ Closed(g, S) => y \in S}

LEMMA ClosureStep ==
  ASSUME NEW A, NEW g \in [A -> A], NEW x \in A
  PROVE  /\ Closure(g, x) = {x} \cup Closure(g, g[x])
         /\ g[x] = x => Closure(g, x) = {x}
<1>. DEFINE S == {x} \cup Closure(g, g[x])
<1>1. \A w \in A : w \in Closure(g, w) /\ Closed(g, Closure(g, w)) /\ Closure(g, w) \in SUBSET A
  BY DEF Closure, Closed
<1>2. S \in SUBSET A /\ x \in S /\ Closed(g, S)
  <2>1. g[x] \in A
    OBVIOUS
  <2>2. g[x] \in Closure(g, g[x]) /\ Closed(g, Closure(g, g[x]))
        /\ Closure(g, g[x]) \in SUBSET A
    BY <1>1, <2>1
  <2>. QED BY <2>2 DEF Closed
<1>3. Closure(g, x) \in SUBSET S
  BY <1>2 DEF Closure
<1>4. S \in SUBSET Closure(g, x)
  BY DEF Closure, Closed
<1>5. ASSUME g[x] = x PROVE Closure(g, x) = {x}
  <2>1. {x} \in SUBSET A /\ Closed(g, {x})
    BY <1>5 DEF Closed
  <2>2. Closure(g, x) \in SUBSET {x}
    BY <2>1 DEF Closure
  <2>. QED BY <1>1, <2>2
<1>. QED BY <1>3, <1>4, <1>5

Stops(i, n, x) == ~(forward[x][i] # NULL /\ size[forward[x][i]] < n)

LEMMA SlideStep ==
  ASSUME TypeOK, NEW i \in Levels, NEW n, NEW x \in Nodes
  PROVE  Slide(i, n, x) = IF Stops(i, n, x) THEN x ELSE Slide(i, n, forward[x][i])
<1>. DEFINE Sliding(f) == f = [y \in Nodes |-> LET z == forward[y][i]
                                               IN IF z # NULL /\ size[z] < n THEN f[z] ELSE y]
            g == [y \in Nodes |-> IF Stops(i, n, y) THEN y ELSE forward[y][i]]
            Ends(y) == {z \in Closure(g, y) : Stops(i, n, z)}
            f == [y \in Nodes |-> IF Ends(y) = {} THEN HEAD ELSE CHOOSE z \in Ends(y) : TRUE]
            slide == CHOOSE h : Sliding(h)
<1>1. \A y \in Nodes : forward[y][i] \in Nodes \cup {NULL} /\ (forward[y][i] = NULL => Stops(i, n, y))
  BY DEF TypeOK, Nodes, Stops
<1>2. g \in [Nodes -> Nodes]
  BY <1>1 DEF Stops
<1>3. ASSUME NEW y \in Nodes
      PROVE  f[y] = IF Stops(i, n, y) THEN y ELSE f[forward[y][i]]
  <2>1. CASE Stops(i, n, y)
    <3>1. g[y] = y
      BY <2>1
    <3>. HIDE DEF g
    <3>2. Closure(g, y) = {y}
      BY <1>2, <3>1, ClosureStep
    <3>3. Ends(y) = {y}
      BY <2>1, <3>2
    <3>. HIDE DEF Ends
    <3>. QED BY <2>1, <3>3
  <2>2. CASE ~Stops(i, n, y)
    <3>1. g[y] = forward[y][i] /\ forward[y][i] \in Nodes
      BY <1>1, <2>2
    <3>. HIDE DEF g
    <3>2. Closure(g, y) = {y} \cup Closure(g, forward[y][i])
      BY <1>2, <3>1, ClosureStep
    <3>3. Ends(y) = Ends(forward[y][i])
      BY <2>2, <3>2
    <3>. HIDE DEF Ends
    <3>. QED BY <2>2, <3>1, <3>3
  <2>. QED BY <2>1, <2>2
<1>. HIDE DEF g, Ends
<1>4. Sliding(f)
  <2>1. DOMAIN f = Nodes /\ f = [y \in Nodes |-> f[y]]
    OBVIOUS
  <2>. HIDE DEF f
  <2>. QED BY <1>3, <2>1 DEF Stops
<1>. HIDE DEF f
<1>5. Sliding(slide)
  <2>. HIDE DEF Sliding
  <2>. QED BY <1>4
<1>6. \A y : Slide(i, n, y) = slide[y]
  BY DEF Slide
<1>. HIDE DEF slide
<1>. QED BY <1>5, <1>6 DEF Stops

LEMMA LessIsWellFounded == IsWellFoundedOn({q \in Nat \X Nat : q[1] < q[2]}, Nat)
BY NatLessThanWellFounded DEF OpToRel

LEMMA Smallest ==
  ASSUME NEW T, T \subseteq Nat, T # {}
  PROVE  \E m \in T : \A k \in T : ~(k < m)
<1>. DEFINE R == {q \in Nat \X Nat : q[1] < q[2]}
<1>1. IsWellFoundedOn(R, Nat)
  BY LessIsWellFounded
<1>. HIDE DEF R
<1>2. PICK m \in T : \A k \in T : ~(<<k, m>> \in R)
  BY <1>1, WFMin
<1>. QED BY <1>2 DEF R

-----------------------------------------------------------------------------
(* The invariant: the blocks in the list are in one order, on all levels.  *)

Listed == (Blocks \ inuse) \cup {HEAD}

(* The head comes first, then the blocks by size.                          *)
Sorts(ord) ==
  /\ \A x \in Listed : <<x, x>> \notin ord
  /\ \A x, y, z \in Listed : <<x, y>> \in ord /\ <<y, z>> \in ord => <<x, z>> \in ord
  /\ \A x, y \in Listed : x = y \/ <<x, y>> \in ord \/ <<y, x>> \in ord
  /\ \A x \in Listed \ {HEAD} : <<HEAD, x>> \in ord
  /\ \A x, y \in Listed \ {HEAD} : <<x, y>> \in ord => size[x] <= size[y]

(* y is the first of S behind x, or NULL if there is none.                 *)
Follows(ord, S, x, y) ==
  IF y = NULL THEN \A z \in S : <<x, z>> \notin ord
  ELSE /\ y \in S /\ <<x, y>> \in ord
       /\ \A z \in S : <<x, z>> \in ord => z = y \/ <<y, z>> \in ord

(* on[i] are the blocks on level i.                                        *)
Links(ord, on) ==
  /\ on[0] = Blocks \ inuse
  /\ \A i \in 1..SKIP_MAX_LEVEL : on[i] \subseteq on[i - 1]
  /\ \A i \in Levels : i > level => on[i] = {}
  /\ level > 0 => on[level] # {}
  /\ \A i \in Levels : \A x \in on[i] \cup {HEAD} : Follows(ord, on[i], x, forward[x][i])

SkipInv ==
  /\ TypeOK
  /\ IsFiniteSet(Blocks \ inuse)
  /\ \E ord \in SUBSET (Listed \X Listed), on \in [Levels -> SUBSET (Blocks \ inuse)] :
       Sorts(ord) /\ Links(ord, on)

Shape(ord, on) ==
  /\ TypeOK /\ IsFiniteSet(Blocks \ inuse)
  /\ ord \in SUBSET (Listed \X Listed) /\ on \in [Levels -> SUBSET (Blocks \ inuse)]
  /\ Sorts(ord) /\ Links(ord, on)

(* What the descent looks for on a level with the blocks S.                *)
Last(ord, S, n, x) ==
  /\ x \in S \cup {HEAD} /\ (x = HEAD \/ size[x] < n)
  /\ \A y \in S : size[y] < n => y = x \/ <<y, x>> \in ord

LEMMA ShapeFacts ==
  ASSUME NEW ord, NEW on, Shape(ord, on)
  PROVE  /\ level \in Nat /\ SKIP_MAX_LEVEL \in Nat /\ level \in Levels /\ 0 \in Levels
         /\ Levels \subseteq Nat /\ 0..level \subseteq Levels /\ 0 \in 0..level
         /\ Sorts(ord) /\ on[0] = Blocks \ inuse /\ Blocks \ inuse = Listed \ {HEAD}
         /\ HEAD \notin Blocks /\ NULL \notin Blocks \cup {HEAD} /\ HEAD \in Listed
         /\ \A i \in Levels : on[i] \subseteq Listed /\ on[i] \subseteq Blocks \ inuse
                              /\ IsFiniteSet(on[i]) /\ HEAD \notin on[i]
         /\ \A x \in Blocks : size[x] \in Nat
         /\ \A i \in Levels : \A x \in on[i] \cup {HEAD} :
              /\ x \in Nodes /\ x \in Listed /\ Follows(ord, on[i], x, forward[x][i])
              /\ forward[x][i] \in on[i] \cup {NULL}
<1>1. /\ level \in Nat /\ SKIP_MAX_LEVEL \in Nat /\ level \in Levels /\ 0 \in Levels
      /\ Levels \subseteq Nat /\ 0..level \subseteq Levels /\ 0 \in 0..level
  BY LevelAssumption DEF Shape, TypeOK, Levels
<1>2. /\ HEAD \notin Blocks /\ NULL \notin Blocks \cup {HEAD} /\ HEAD \in Listed
      /\ Sorts(ord) /\ on[0] = Blocks \ inuse /\ Blocks \ inuse = Listed \ {HEAD}
  BY NodeAssumption DEF Listed, Shape, Links
<1>3. ASSUME NEW i \in Levels
      PROVE  on[i] \subseteq Listed /\ on[i] \subseteq Blocks \ inuse
             /\ IsFiniteSet(on[i]) /\ HEAD \notin on[i]
  <2>1. on[i] \in SUBSET (Blocks \ inuse) /\ IsFiniteSet(Blocks \ inuse)
    BY DEF Shape
  <2>. QED BY <1>2, <2>1, FS_Subset DEF Listed
<1>4. \A x \in Blocks : size[x] \in Nat
  BY SizeAssumption DEF Shape, TypeOK
<1>5. ASSUME NEW i \in Levels, NEW x \in on[i] \cup {HEAD}
      PROVE  /\ x \in Nodes /\ x \in Listed /\ Follows(ord, on[i], x, forward[x][i])
             /\ forward[x][i] \in on[i] \cup {NULL}
  <2>1. Follows(ord, on[i], x, forward[x][i])
    BY DEF Shape, Links
  <2>. QED BY <1>2, <1>3, <2>1 DEF Nodes, Follows
<1>. QED BY <1>1, <1>2, <1>3, <1>4, <1>5

LEMMA SlideEnds ==
  ASSUME NEW ord, NEW on, Shape(ord, on), NEW i \in Levels, NEW n \in Int,
         NEW x \in on[i] \cup {HEAD}, x = HEAD \/ size[x] < n
  PROVE  Last(ord, on[i], n, Slide(i, n, x))
<1>. DEFINE S == on[i]
            Behind(w) == {y \in S : <<w, y>> \in ord}
            Bad == {w \in S \cup {HEAD} : /\ w = HEAD \/ size[w] < n
                                          /\ ~Last(ord, S, n, Slide(i, n, w))}
            T == {Cardinality(Behind(w)) : w \in Bad}
<1>1. /\ S \subseteq Listed /\ S \subseteq Blocks \ inuse /\ IsFiniteSet(S) /\ HEAD \notin S
      /\ HEAD \in Listed /\ \A y \in S : size[y] \in Nat
      /\ \A w \in S \cup {HEAD} : /\ w \in Nodes /\ w \in Listed
                                  /\ Follows(ord, S, w, forward[w][i])
                                  /\ forward[w][i] \in S \cup {NULL}
  BY ShapeFacts
<1>2. Sorts(ord) /\ TypeOK /\ NULL \notin S
  BY <1>1, ShapeFacts DEF Shape
<1>. HIDE DEF S
<1>3. \A w : IsFiniteSet(Behind(w)) /\ Cardinality(Behind(w)) \in Nat
  BY <1>1, FS_Subset, FS_CardinalityType
<1>. SUFFICES ASSUME Bad # {} PROVE FALSE
  BY DEF S
<1>4. T \subseteq Nat /\ T # {}
  BY <1>3
<1>5. PICK m \in T : \A k \in T : ~(k < m)
  BY <1>4, Smallest
<1>6. PICK w \in Bad : m = Cardinality(Behind(w))
  BY <1>5
<1>7. /\ w \in S \cup {HEAD} /\ w \in Nodes /\ w \in Listed /\ (w = HEAD \/ size[w] < n)
      /\ ~Last(ord, S, n, Slide(i, n, w))
      /\ \A v \in Bad : ~(Cardinality(Behind(v)) < Cardinality(Behind(w)))
  BY <1>1, <1>5, <1>6
<1>. DEFINE v == forward[w][i]
<1>8. Follows(ord, S, w, v) /\ v \in S \cup {NULL}
  BY <1>1, <1>7
<1>9. CASE Stops(i, n, w)
  <2>1. Slide(i, n, w) = w
    BY <1>2, <1>7, <1>9, SlideStep
  <2>2. ASSUME NEW y \in S, size[y] < n, y # w, <<y, w>> \notin ord PROVE FALSE
    <3>1. <<w, y>> \in ord
      BY <1>1, <1>2, <1>7, <2>2 DEF Sorts
    <3>2. v # NULL /\ v \in S /\ (y = v \/ <<v, y>> \in ord)
      BY <1>8, <2>2, <3>1 DEF Follows
    <3>3. ~(size[v] < n)
      BY <1>9, <3>2 DEF Stops
    <3>4. size[v] <= size[y]
      BY <1>1, <1>2, <3>2 DEF Sorts
    <3>. QED BY <1>1, <2>2, <3>2, <3>3, <3>4
  <2>. QED BY <1>7, <2>1, <2>2 DEF Last
<1>10. CASE ~Stops(i, n, w)
  <2>1. v \in S /\ size[v] < n /\ <<w, v>> \in ord
    BY <1>8, <1>10 DEF Stops, Follows
  <2>2. Slide(i, n, w) = Slide(i, n, v)
    BY <1>2, <1>7, <1>10, SlideStep
  <2>3. Behind(v) \in SUBSET Behind(w) /\ v \in Behind(w) /\ v \notin Behind(v)
    BY <1>1, <1>2, <1>7, <2>1 DEF Sorts
  <2>. HIDE DEF Behind, v
  <2>4. Cardinality(Behind(v)) < Cardinality(Behind(w))
    <3>1. Cardinality(Behind(v)) <= Cardinality(Behind(w))
      BY <1>3, <2>3, FS_Subset
    <3>2. Cardinality(Behind(v)) # Cardinality(Behind(w))
      BY <1>3, <2>3, FS_Subset
    <3>. QED BY <1>3, <3>1, <3>2
  <2>5. v \in Bad
    BY <1>7, <2>1, <2>2
  <2>. QED BY <1>7, <2>4, <2>5
<1>. QED BY <1>9, <1>10

LEMMA LastUnique ==
  ASSUME NEW ord, Sorts(ord), NEW S, S \subseteq Listed \ {HEAD}, NEW n, NEW x, NEW y,
         Last(ord, S, n, x), Last(ord, S, n, y)
  PROVE  x = y
<1>1. HEAD \in Listed
  BY DEF Listed
<1>2. x \in Listed /\ y \in Listed
  BY <1>1 DEF Last
<1>3. CASE x = HEAD \/ y = HEAD
  BY <1>1, <1>2, <1>3 DEF Last, Sorts
<1>4. CASE x # HEAD /\ y # HEAD
  BY <1>2, <1>4 DEF Last, Sorts
<1>. QED BY <1>3, <1>4

(* On every level the descent stops at the last block that is too small.   *)
LEMMA BeforeLast ==
  ASSUME NEW ord, NEW on, Shape(ord, on), NEW n \in Int
  PROVE  \A i \in 0..level : Last(ord, on[i], n, Before(n)[i])
<1>. DEFINE Descending(h) ==
              h = [i \in 0..level+1 |-> IF i = level + 1 THEN HEAD ELSE Slide(i, n, h[i+1])]
            f == [i \in 0..level+1 |-> IF i = level + 1 THEN HEAD ELSE Slide(i, n, HEAD)]
            before == CHOOSE h : Descending(h)
<1>1. /\ level \in Nat /\ SKIP_MAX_LEVEL \in Nat /\ 0..level \subseteq Levels /\ level \in Levels
      /\ Sorts(ord)
  <2>1. level \in Nat /\ SKIP_MAX_LEVEL \in Nat /\ level \in Levels /\ Sorts(ord)
    BY ShapeFacts DEF Shape
  <2>. QED BY <2>1 DEF Levels
<1>2. \A i \in 0..level : on[i] \subseteq Listed \ {HEAD}
  BY <1>1, ShapeFacts
<1>3. \A i \in 0..level : i # level => on[i+1] \subseteq on[i]
  <2>. SUFFICES ASSUME NEW i \in 0..level, i # level PROVE on[i+1] \subseteq on[i]
    OBVIOUS
  <2>1. i + 1 \in 1..SKIP_MAX_LEVEL /\ (i + 1) - 1 = i
    BY <1>1 DEF Levels
  <2>2. \A j \in 1..SKIP_MAX_LEVEL : on[j] \subseteq on[j - 1]
    BY DEF Shape, Links
  <2>3. on[i+1] \subseteq on[(i+1) - 1]
    BY <2>1, <2>2
  <2>. QED BY <2>1, <2>3
(* A slide may start at the head or where the level above ended. *)
<1>4. \A i \in 0..level : Last(ord, on[i], n, Slide(i, n, HEAD))
  BY <1>1, SlideEnds
<1>5. ASSUME NEW i \in 0..level, NEW x,
             IF i = level THEN x = HEAD ELSE Last(ord, on[i+1], n, x)
      PROVE  Last(ord, on[i], n, Slide(i, n, x))
  <2>1. x \in on[i] \cup {HEAD} /\ (x = HEAD \/ size[x] < n)
    BY <1>3, <1>5 DEF Last
  <2>. QED BY <1>1, <2>1, SlideEnds
<1>6. Descending(f)
  <2>1. ASSUME NEW i \in 0..level PROVE f[i] = Slide(i, n, f[i+1])
    <3>1. i \in 0..level+1 /\ i + 1 \in 0..level+1 /\ i # level + 1
          /\ (i + 1 = level + 1 <=> i = level) /\ (i # level => i + 1 \in 0..level)
      BY <1>1
    <3>2. f[i] = Slide(i, n, HEAD) /\ f[i+1] = IF i = level THEN HEAD ELSE Slide(i+1, n, HEAD)
      BY <3>1
    <3>. HIDE DEF f
    <3>3. IF i = level THEN f[i+1] = HEAD ELSE Last(ord, on[i+1], n, f[i+1])
      BY <1>4, <3>1, <3>2
    <3>4. Last(ord, on[i], n, Slide(i, n, f[i+1])) /\ Last(ord, on[i], n, Slide(i, n, HEAD))
      BY <1>4, <1>5, <3>3
    <3>5. Slide(i, n, f[i+1]) = Slide(i, n, HEAD)
      BY <1>1, <1>2, <3>4, LastUnique
    <3>. QED BY <3>2, <3>5
  <2>2. \A i \in 0..level+1 : i # level + 1 => i \in 0..level
    BY <1>1
  <2>3. f[level+1] = HEAD /\ f = [i \in 0..level+1 |-> f[i]]
    BY <1>1
  <2>. HIDE DEF f
  <2>4. \A i \in 0..level+1 : f[i] = IF i = level + 1 THEN HEAD ELSE Slide(i, n, f[i+1])
    BY <2>1, <2>2, <2>3
  <2>. QED BY <2>3, <2>4
<1>. HIDE DEF f
<1>7. Descending(before)
  <2>. HIDE DEF Descending
  <2>. QED BY <1>6
<1>8. Before(n) = before
  BY DEF Before
<1>. HIDE DEF before
<1>9. /\ before[level+1] = HEAD
      /\ \A i \in 0..level : before[i] = Slide(i, n, before[i+1])
  <2>1. level + 1 \in 0..level+1 /\ \A i \in 0..level : i \in 0..level+1 /\ i # level + 1
    BY <1>1
  <2>. QED BY <1>7, <2>1
<1>. HIDE DEF Descending
<1>. DEFINE T == {k \in 0..level : ~Last(ord, on[level-k], n, before[level-k])}
<1>10. T = {}
  <2>. SUFFICES ASSUME T # {} PROVE FALSE
    OBVIOUS
  <2>1. PICK k \in T : \A j \in T : ~(j < k)
    <3>1. T \subseteq Nat
      BY <1>1
    <3>. HIDE DEF T
    <3>. QED BY <3>1, Smallest
  <2>. DEFINE i == level - k
  <2>2. /\ k \in 0..level /\ i \in 0..level /\ ~Last(ord, on[i], n, before[i])
        /\ (i = level <=> k = 0)
    BY <1>1, <2>1
  <2>3. i # level => Last(ord, on[i+1], n, before[i+1])
    <3>. SUFFICES ASSUME i # level PROVE Last(ord, on[i+1], n, before[i+1])
      OBVIOUS
    <3>1. k - 1 \in 0..level /\ k - 1 < k /\ level - (k - 1) = i + 1
      BY <1>1, <2>2
    <3>2. k - 1 \notin T
      BY <2>1, <3>1
    <3>. QED BY <3>1, <3>2
  <2>. HIDE DEF i
  <2>4. IF i = level THEN before[i+1] = HEAD ELSE Last(ord, on[i+1], n, before[i+1])
    BY <1>9, <2>3
  <2>. QED BY <1>5, <1>9, <2>2, <2>4
<1>11. ASSUME NEW i \in 0..level PROVE Last(ord, on[i], n, before[i])
  <2>1. level - i \in 0..level /\ level - (level - i) = i
    BY <1>1
  <2>. QED BY <1>10, <2>1
<1>. QED BY <1>8, <1>11

-----------------------------------------------------------------------------
(* What is found.                                                          *)

LEMMA OneWay ==
  ASSUME NEW ord, Sorts(ord), NEW x \in Listed, NEW y \in Listed, <<x, y>> \in ord
  PROVE  <<y, x>> \notin ord /\ x # y
BY DEF Sorts

(* x ends the blocks of S that are smaller than n and f is the next.       *)
Splits(ord, S, n, x, f) ==
  /\ x \in S \cup {HEAD} /\ x \in Listed
  /\ \A y \in S : size[y] >= n <=> <<x, y>> \in ord
  /\ f = NULL => \A y \in S : size[y] < n
  /\ f # NULL => /\ f \in S /\ size[f] >= n
                 /\ \A y \in S : size[y] >= n => y = f \/ <<f, y>> \in ord

LEMMA FirstBig ==
  ASSUME NEW ord, NEW on, Shape(ord, on), NEW i \in Levels, NEW n \in Int,
         NEW x, Last(ord, on[i], n, x)
  PROVE  Splits(ord, on[i], n, x, forward[x][i])
<1>. DEFINE S == on[i]
            f == forward[x][i]
<1>1. /\ S \subseteq Listed /\ HEAD \notin S /\ HEAD \in Listed /\ S \subseteq Blocks
      /\ \A y \in S : size[y] \in Nat
      /\ \A y \in S \cup {HEAD} : Follows(ord, S, y, forward[y][i])
  BY ShapeFacts
<1>2. Sorts(ord)
  BY ShapeFacts
<1>. HIDE DEF S
<1>3. /\ x \in S \cup {HEAD} /\ (x = HEAD \/ size[x] < n)
      /\ \A y \in S : size[y] < n => y = x \/ <<y, x>> \in ord
  BY DEF Last, S
<1>4. ASSUME NEW y \in S PROVE size[y] >= n <=> <<x, y>> \in ord
  <2>1. ASSUME size[y] >= n PROVE <<x, y>> \in ord
    <3>1. x = HEAD => <<x, y>> \in ord
      BY <1>1, <1>2 DEF Sorts
    <3>2. x # HEAD => x # y /\ ~(size[y] <= size[x])
      BY <1>1, <1>3, <2>1
    <3>3. x # HEAD => <<y, x>> \notin ord
      BY <1>1, <1>2, <1>3, <3>2 DEF Sorts
    <3>. QED BY <1>1, <1>2, <1>3, <3>1, <3>2, <3>3 DEF Sorts
  <2>2. ASSUME size[y] < n PROVE <<x, y>> \notin ord
    <3>1. y = x \/ <<y, x>> \in ord
      BY <1>3, <2>2
    <3>. QED BY <1>1, <1>2, <1>3, <3>1 DEF Sorts
  <2>. QED BY <1>1, <2>1, <2>2
<1>5. Follows(ord, S, x, f)
  BY <1>1, <1>3
<1>. HIDE DEF f
<1>6. f = NULL => \A y \in S : size[y] < n
  <2>. SUFFICES ASSUME f = NULL, NEW y \in S PROVE size[y] < n
    OBVIOUS
  <2>1. <<x, y>> \notin ord
    BY <1>5 DEF Follows
  <2>2. ~(size[y] >= n) /\ size[y] \in Nat
    BY <1>1, <1>4, <2>1
  <2>. QED BY <2>2
<1>7. f # NULL => /\ f \in S /\ size[f] >= n
                  /\ \A y \in S : size[y] >= n => y = f \/ <<f, y>> \in ord
  BY <1>4, <1>5 DEF Follows
<1>8. x \in Listed
  BY <1>1, <1>3
<1>. QED BY <1>3, <1>4, <1>6, <1>7, <1>8 DEF S, f, Splits

(* b is the first of the blocks of its size and more.                      *)
First(ord, b) ==
  /\ b \in Blocks \ inuse
  /\ \A c \in Blocks \ inuse : size[c] >= size[b] => c = b \/ <<b, c>> \in ord

LEMMA Found ==
  ASSUME NEW ord, NEW on, Shape(ord, on), NEW n \in Int,
         NEW b, b = klmalloc_skip_list_findbest(n)
  PROVE  /\ b = NULL => \A c \in Blocks \ inuse : size[c] < n
         /\ b # NULL => /\ First(ord, b) /\ size[b] >= n
                        /\ \A c \in Blocks \ inuse : size[c] >= n => size[b] <= size[c]
<1>1. /\ 0 \in Levels /\ 0 \in 0..level /\ on[0] = Blocks \ inuse /\ Sorts(ord)
      /\ \A c \in Blocks : size[c] \in Nat
      /\ Blocks \ inuse = Listed \ {HEAD}
  BY ShapeFacts
<1>2. Last(ord, on[0], n, Before(n)[0])
  BY <1>1, BeforeLast
<1>3. Splits(ord, on[0], n, Before(n)[0], b)
  BY <1>1, <1>2, FirstBig DEF klmalloc_skip_list_findbest
<1>4. b = NULL => \A c \in on[0] : size[c] < n
  BY <1>3 DEF Splits
<1>5. b # NULL => /\ b \in on[0] /\ size[b] >= n
                  /\ \A c \in on[0] : size[c] >= n => c = b \/ <<b, c>> \in ord
  BY <1>3 DEF Splits
<1>6. ASSUME b # NULL, NEW c \in Blocks \ inuse, size[c] >= n
      PROVE  size[b] <= size[c]
  <2>1. b \in Listed \ {HEAD} /\ c \in Listed \ {HEAD} /\ (c = b \/ <<b, c>> \in ord)
    BY <1>1, <1>5, <1>6
  <2>2. <<b, c>> \in ord => size[b] <= size[c]
    BY <1>1, <2>1 DEF Sorts
  <2>. QED BY <1>1, <1>5, <2>1, <2>2
<1>7. ASSUME b # NULL, NEW c \in Blocks \ inuse, size[c] >= size[b]
      PROVE  c = b \/ <<b, c>> \in ord
  BY <1>1, <1>5, <1>7
<1>. QED BY <1>1, <1>4, <1>5, <1>6, <1>7 DEF First

(* The descent for the first block of its size arrives in front of it, on  *)
(* the levels where it is.                                                 *)
LEMMA InFront ==
  ASSUME NEW ord, NEW on, Shape(ord, on), NEW b, First(ord, b), NEW i \in 0..level
  PROVE  forward[Before(size[b])[i]][i] = b <=> b \in on[i]
<1>. DEFINE n == size[b]
            x == Before(n)[i]
            f == forward[x][i]
<1>1. /\ i \in Levels /\ n \in Nat /\ on[i] \subseteq Blocks \ inuse /\ on[i] \subseteq Listed
      /\ b \in Blocks \ inuse /\ b \in Listed /\ NULL \notin Blocks /\ Sorts(ord)
      /\ HEAD \notin Blocks /\ \A c \in Blocks : size[c] \in Nat
  BY ShapeFacts DEF First
<1>2. Last(ord, on[i], n, x)
  BY <1>1, BeforeLast
<1>. HIDE DEF x, n
<1>3. Splits(ord, on[i], n, x, f)
  BY <1>1, <1>2, FirstBig
<1>. HIDE DEF f
<1>4. ASSUME b \in on[i] PROVE f = b
  <2>1. f # NULL /\ (b = f \/ <<f, b>> \in ord)
    BY <1>1, <1>3, <1>4 DEF n, Splits
  <2>2. f = b \/ <<b, f>> \in ord
    BY <1>1, <1>3, <2>1 DEF First, n, Splits
  <2>3. f \in Listed
    BY <1>1, <1>3, <2>1 DEF Splits
  <2>. QED BY <1>1, <2>1, <2>2, <2>3, OneWay
<1>5. ASSUME f = b PROVE b \in on[i]
  BY <1>1, <1>3, <1>5 DEF Splits
<1>. QED BY <1>4, <1>5 DEF f, x, n

-----------------------------------------------------------------------------
(* klfree of a big block.                                                  *)

LEMMA Inserted ==
  ASSUME NEW ord, NEW on, Shape(ord, on), NEW b \in inuse, klmalloc_skip_list_insert(b),
         inuse' = inuse \ {b}, size' = size, answer' = <<>>
  PROVE  SkipInv'
<1>. PICK n, pred : /\ n = size[b]
                    /\ pred = [i \in Levels |-> IF i <= level THEN Before(n)[i] ELSE HEAD]
  OBVIOUS
<1>0. TypeOK
  BY DEF Shape
<1>1. /\ level \in Nat /\ SKIP_MAX_LEVEL \in Nat /\ level \in Levels /\ 0 \in Levels
      /\ Levels \subseteq Nat /\ 0..level \subseteq Levels /\ 0 \in 0..level
      /\ Sorts(ord) /\ on[0] = Blocks \ inuse /\ Blocks \ inuse = Listed \ {HEAD}
      /\ HEAD \notin Blocks /\ NULL \notin Blocks \cup {HEAD} /\ HEAD \in Listed
      /\ \A i \in Levels : on[i] \subseteq Listed /\ on[i] \subseteq Blocks \ inuse
      /\ \A x \in Blocks : size[x] \in Nat
      /\ \A i \in Levels : \A x \in on[i] \cup {HEAD} :
           /\ x \in Nodes /\ x \in Listed /\ Follows(ord, on[i], x, forward[x][i])
           /\ forward[x][i] \in on[i] \cup {NULL}
  BY ShapeFacts
<1>2. /\ b \in Blocks /\ b \notin Listed /\ b # HEAD /\ b # NULL /\ n \in Nat
      /\ Blocks \ inuse' = (Blocks \ inuse) \cup {b} /\ Listed' = Listed \cup {b}
  BY <1>0, <1>1 DEF TypeOK, Listed
<1>3. \A i \in Levels : pred[i] = IF i <= level THEN Before(n)[i] ELSE HEAD
  OBVIOUS
(* On every level pred is the last block that is smaller, f the next one. *)
<1>4. ASSUME NEW i \in Levels
      PROVE  Splits(ord, on[i], n, pred[i], forward[pred[i]][i])
  <2>0. PICK x : x = pred[i]
    OBVIOUS
  <2>1. CASE i <= level
    <3>1. i \in 0..level /\ pred[i] = Before(n)[i]
      BY <1>1, <1>3, <2>1
    <3>2. Last(ord, on[i], n, x)
      BY <1>2, <2>0, <3>1, BeforeLast
    <3>. QED BY <1>2, <2>0, <3>2, FirstBig
  <2>2. CASE ~(i <= level)
    <3>1. on[i] = {} /\ pred[i] = HEAD
      BY <1>1, <1>3, <2>2 DEF Shape, Links
    <3>2. Last(ord, on[i], n, x)
      BY <2>0, <3>1 DEF Last
    <3>. QED BY <1>2, <2>0, <3>2, FirstBig
  <2>. QED BY <2>1, <2>2
<1>5. PICK top \in Levels :
        /\ level' = IF top > level THEN top ELSE level
        /\ forward' = [x \in Nodes |-> [i \in Levels |->
             IF i > top THEN forward[x][i]
             ELSE IF x = b THEN forward[pred[i]][i]
             ELSE IF x = pred[i] THEN b
             ELSE forward[x][i]]]
  <2>1. 0 \in Levels /\ pred[0] = Before(n)[0]
    BY <1>1, <1>3
  <2>2. forward[Before(n)[0]][0] # b
    <3>1. Splits(ord, on[0], n, pred[0], forward[pred[0]][0])
      BY <1>4, <2>1
    <3>2. b \notin on[0]
      BY <1>1, <1>2
    <3>. QED BY <1>2, <2>1, <3>1, <3>2 DEF Splits
  <2>3. \E top \in Levels :
        /\ level' = IF top > level THEN top ELSE level
        /\ forward' = [x \in Nodes |-> [i \in Levels |->
             IF i > top THEN forward[x][i]
             ELSE IF x = b THEN forward[IF i <= level THEN Before(n)[i] ELSE HEAD][i]
             ELSE IF x = IF i <= level THEN Before(n)[i] ELSE HEAD THEN b
             ELSE forward[x][i]]]
    BY <2>2 DEF klmalloc_skip_list_insert, klmalloc_random_level
  <2>. QED BY <1>3, <2>3
<1>6. ASSUME NEW i \in Levels, NEW x \in Nodes
      PROVE  forward'[x][i] = IF i > top THEN forward[x][i]
                              ELSE IF x = b THEN forward[pred[i]][i]
                              ELSE IF x = pred[i] THEN b
                              ELSE forward[x][i]
  BY <1>5
<1>7. TypeOK'
  <2>1. ASSUME NEW i \in Levels, NEW x \in Nodes
        PROVE  forward'[x][i] \in Blocks \cup {NULL}
    <3>1. forward[x][i] \in Blocks \cup {NULL}
      BY <1>0 DEF TypeOK
    <3>2. pred[i] \in on[i] \cup {HEAD}
      BY <1>4 DEF Splits
    <3>3. forward[pred[i]][i] \in Blocks \cup {NULL}
      BY <1>1, <3>2
    <3>. QED BY <1>2, <1>6, <3>1, <3>3
  <2>2. forward' \in [Nodes -> [Levels -> Blocks \cup {NULL}]]
    <3>1. forward' = [x \in Nodes |-> [i \in Levels |-> forward'[x][i]]]
      BY <1>5
    <3>. QED BY <2>1, <3>1
  <2>3. level' \in Levels
    BY <1>1, <1>5
  <2>. QED BY <1>0, <2>2, <2>3 DEF TypeOK
<1>8. IsFiniteSet(Blocks \ inuse')
  BY <1>2, FS_AddElement DEF Shape
(* The block comes after the smaller ones and before all others. *)
<1>. PICK ord2, on2 :
       /\ ord2 = ord \cup {<<x, b>> : x \in {y \in Listed : y = HEAD \/ size[y] < n}}
                     \cup {<<b, y>> : y \in {y \in Listed \ {HEAD} : size[y] >= n}}
       /\ on2 = [i \in Levels |-> IF i <= top THEN on[i] \cup {b} ELSE on[i]]
  OBVIOUS
<1>9. /\ \A x, y \in Listed : <<x, y>> \in ord2 <=> <<x, y>> \in ord
      /\ \A x \in Listed : <<x, b>> \in ord2 <=> x = HEAD \/ size[x] < n
      /\ \A y \in Listed : <<b, y>> \in ord2 <=> y # HEAD /\ size[y] >= n
      /\ <<b, b>> \notin ord2
      /\ ord2 \in SUBSET (Listed' \X Listed')
  <2>1. ord \in SUBSET (Listed \X Listed)
    BY DEF Shape
  <2>. QED BY <1>2, <2>1
<1>10. /\ \A i \in Levels : on2[i] = IF i <= top THEN on[i] \cup {b} ELSE on[i]
       /\ on2 \in [Levels -> SUBSET (Blocks \ inuse')]
  <2>1. \A i \in Levels : on2[i] = IF i <= top THEN on[i] \cup {b} ELSE on[i]
    OBVIOUS
  <2>. QED BY <1>1, <1>2, <2>1
<1>11. Sorts(ord2)'
  <2>0. \A x \in Listed \ {HEAD} : size[x] \in Nat
    BY <1>1
  <2>1. \A x \in Listed' : <<x, x>> \notin ord2
    BY <1>1, <1>2, <1>9 DEF Sorts
  <2>2. ASSUME NEW x \in Listed', NEW y \in Listed', NEW z \in Listed',
               <<x, y>> \in ord2, <<y, z>> \in ord2
        PROVE  <<x, z>> \in ord2
    <3>1. CASE x \in Listed /\ y \in Listed /\ z \in Listed
      BY <1>1, <1>9, <2>2, <3>1 DEF Sorts
    <3>2. CASE x = b /\ y \in Listed /\ z \in Listed
      <4>1. y # HEAD /\ size[y] >= n /\ <<y, z>> \in ord
        BY <1>9, <2>2, <3>2
      <4>2. z # HEAD
        BY <1>1, <3>2, <4>1 DEF Sorts
      <4>3. size[y] <= size[z]
        BY <1>1, <3>2, <4>1, <4>2 DEF Sorts
      <4>4. size[z] >= n
        BY <1>2, <2>0, <3>2, <4>1, <4>2, <4>3
      <4>. QED BY <1>9, <3>2, <4>2, <4>4
    <3>3. CASE x \in Listed /\ y \in Listed /\ z = b
      <4>1. (y = HEAD \/ size[y] < n) /\ <<x, y>> \in ord
        BY <1>9, <2>2, <3>3
      <4>2. CASE x = HEAD
        BY <1>9, <3>3, <4>2
      <4>3. CASE x # HEAD
        <5>1. y # HEAD
          BY <1>1, <3>3, <4>1, <4>3 DEF Sorts
        <5>2. size[x] <= size[y]
          BY <1>1, <3>3, <4>1, <4>3, <5>1 DEF Sorts
        <5>3. size[x] < n
          BY <1>2, <2>0, <3>3, <4>1, <4>3, <5>1, <5>2
        <5>. QED BY <1>9, <3>3, <5>3
      <4>. QED BY <4>2, <4>3
    <3>4. CASE x \in Listed /\ y = b /\ z \in Listed
      <4>1. (x = HEAD \/ size[x] < n) /\ z # HEAD /\ size[z] >= n
        BY <1>9, <2>2, <3>4
      <4>2. CASE x = HEAD
        <5>1. <<x, z>> \in ord
          BY <1>1, <3>4, <4>1, <4>2 DEF Sorts
        <5>. QED BY <1>9, <3>4, <5>1
      <4>3. CASE x # HEAD
        <5>1. ~(size[z] <= size[x]) /\ x # z
          BY <1>2, <2>0, <3>4, <4>1, <4>3
        <5>2. <<x, z>> \in ord
          BY <1>1, <3>4, <4>1, <4>3, <5>1 DEF Sorts
        <5>. QED BY <1>9, <3>4, <5>2
      <4>. QED BY <4>2, <4>3
    <3>5. CASE (x = b /\ y = b) \/ (y = b /\ z = b)
      BY <1>9, <2>2, <3>5
    <3>6. CASE x = b /\ y \in Listed /\ z = b
      BY <1>2, <1>9, <2>0, <2>2, <3>6
    <3>. QED BY <1>2, <3>1, <3>2, <3>3, <3>4, <3>5, <3>6
  <2>3. ASSUME NEW x \in Listed', NEW y \in Listed'
        PROVE  x = y \/ <<x, y>> \in ord2 \/ <<y, x>> \in ord2
    <3>1. CASE x \in Listed /\ y \in Listed
      BY <1>1, <1>9, <3>1 DEF Sorts
    <3>2. \A z \in Listed : <<z, b>> \in ord2 \/ <<b, z>> \in ord2
      BY <1>2, <1>9, <2>0
    <3>. QED BY <1>2, <3>1, <3>2
  <2>4. \A x \in Listed' \ {HEAD} : <<HEAD, x>> \in ord2
    BY <1>1, <1>2, <1>9 DEF Sorts
  <2>5. ASSUME NEW x \in Listed' \ {HEAD}, NEW y \in Listed' \ {HEAD}, <<x, y>> \in ord2
        PROVE  size[x] <= size[y]
    <3>1. CASE x \in Listed /\ y \in Listed
      BY <1>1, <1>9, <2>5, <3>1 DEF Sorts
    <3>2. CASE x = b \/ y = b
      BY <1>2, <1>9, <2>0, <2>5, <3>2
    <3>. QED BY <1>2, <3>1, <3>2
  <2>. QED BY <2>1, <2>2, <2>3, <2>4, <2>5 DEF Sorts
<1>12. ASSUME NEW i \in Levels, NEW x \in on2[i] \cup {HEAD}
       PROVE  Follows(ord2, on2[i], x, forward'[x][i])
  <2>. DEFINE S == on[i]
              p == pred[i]
              g == forward[x][i]
              f == forward[p][i]
  <2>1. /\ S \subseteq Listed /\ HEAD \notin S /\ b \notin S /\ S \subseteq Blocks
        /\ \A y \in S : size[y] \in Nat
    BY <1>1, <1>2
  <2>2. Splits(ord, S, n, p, f)
    BY <1>4
  <2>3. on2[i] = IF i <= top THEN S \cup {b} ELSE S
    BY <1>10
  <2>4. x \in Nodes /\ (i > top <=> ~(i <= top))
    BY <1>1, <1>2, <2>1, <2>3 DEF Nodes
  <2>5. x # b => x \in S \cup {HEAD} /\ x \in Listed /\ Follows(ord, S, x, g)
                 /\ g \in S \cup {NULL}
    BY <1>1, <2>3
  <2>6. forward'[x][i] = IF i > top THEN g ELSE IF x = b THEN f ELSE IF x = p THEN b ELSE g
    BY <1>6, <2>4
  <2>. HIDE DEF S, p, g, f
  <2>7. CASE i > top
    <3>1. x # b /\ on2[i] = S /\ forward'[x][i] = g
      BY <1>2, <2>1, <2>3, <2>4, <2>6, <2>7
    <3>. QED BY <1>9, <2>1, <2>5, <3>1 DEF Follows
  <2>8. CASE i <= top /\ x = b
    <3>1. on2[i] = S \cup {b} /\ forward'[x][i] = f
      BY <2>3, <2>4, <2>6, <2>8
    <3>2. CASE f = NULL
      <4>1. \A z \in S : ~(size[z] >= n)
        BY <1>2, <2>1, <2>2, <3>2 DEF Splits
      <4>. QED BY <1>9, <2>1, <2>8, <3>1, <3>2, <4>1 DEF Follows
    <3>3. CASE f # NULL
      <4>1. /\ f \in S /\ size[f] >= n
            /\ \A y \in S : size[y] >= n => y = f \/ <<f, y>> \in ord
        BY <2>2, <3>3 DEF Splits
      <4>2. <<b, f>> \in ord2
        BY <1>9, <2>1, <4>1
      <4>3. \A z \in S \cup {b} : <<b, z>> \in ord2 => z = f \/ <<f, z>> \in ord2
        BY <1>9, <2>1, <4>1
      <4>. QED BY <2>8, <3>1, <3>3, <4>1, <4>2, <4>3 DEF Follows
    <3>. QED BY <3>2, <3>3
  <2>9. CASE i <= top /\ x # b /\ x = p
    <3>1. on2[i] = S \cup {b} /\ forward'[x][i] = b
      BY <2>3, <2>4, <2>6, <2>9
    <3>2. <<x, b>> \in ord2
      <4>1. x = HEAD \/ ~(size[x] >= n)
        <5>1. x \in S => <<x, x>> \notin ord
          BY <1>1, <2>5, <2>9 DEF Sorts
        <5>. QED BY <2>2, <2>5, <2>9, <5>1 DEF Splits
      <4>. QED BY <1>2, <1>9, <2>1, <2>5, <2>9, <4>1
    <3>3. ASSUME NEW z \in S, <<x, z>> \in ord2 PROVE <<b, z>> \in ord2
      <4>1. size[z] >= n
        BY <1>9, <2>1, <2>2, <2>5, <2>9, <3>3 DEF Splits
      <4>. QED BY <1>9, <2>1, <4>1
    <3>. QED BY <1>2, <3>1, <3>2, <3>3 DEF Follows
  <2>10. CASE i <= top /\ x # b /\ x # p
    <3>1. on2[i] = S \cup {b} /\ forward'[x][i] = g
      BY <2>3, <2>4, <2>6, <2>10
    <3>2. CASE x # HEAD /\ size[x] >= n
      <4>1. <<x, b>> \notin ord2
        BY <1>2, <1>9, <2>1, <2>5, <2>10, <3>2
      <4>. QED BY <1>9, <2>1, <2>5, <2>10, <3>1, <4>1 DEF Follows
    <3>3. CASE x = HEAD \/ size[x] < n
      <4>1. p \in S /\ <<x, p>> \in ord /\ ~(size[p] >= n)
        <5>1. p \in S \cup {HEAD} /\ p \in Listed
          BY <2>2 DEF Splits
        <5>2. <<p, x>> \notin ord
          <6>1. CASE x = HEAD
            <7>1. <<HEAD, p>> \in ord
              BY <1>1, <2>10, <5>1, <6>1 DEF Sorts
            <7>. QED BY <1>1, <5>1, <6>1, <7>1, OneWay
          <6>2. CASE x # HEAD
            <7>1. x \in S /\ ~(size[x] >= n)
              BY <1>2, <2>1, <2>5, <2>10, <3>3, <6>2
            <7>. QED BY <2>2, <7>1 DEF Splits
          <6>. QED BY <6>1, <6>2
        <5>3. <<x, p>> \in ord
          BY <1>1, <2>5, <2>10, <5>1, <5>2 DEF Sorts
        <5>4. p # HEAD
          <6>1. p = HEAD => x # HEAD /\ <<HEAD, x>> \in ord
            BY <1>1, <2>5, <2>10 DEF Sorts
          <6>. QED BY <5>2, <6>1
        <5>5. p \in S
          BY <5>1, <5>4
        <5>6. <<p, p>> \notin ord
          BY <1>1, <5>1 DEF Sorts
        <5>. QED BY <2>2, <5>3, <5>5, <5>6 DEF Splits
      <4>2. /\ g # NULL /\ g \in S /\ <<x, g>> \in ord /\ (p = g \/ <<g, p>> \in ord)
            /\ \A z \in S : <<x, z>> \in ord => z = g \/ <<g, z>> \in ord
        BY <2>5, <2>10, <4>1 DEF Follows
      <4>3. size[g] < n
        <5>1. <<g, p>> \in ord => size[g] <= size[p]
          BY <1>1, <2>1, <4>1, <4>2 DEF Sorts
        <5>. QED BY <1>2, <2>1, <4>1, <4>2, <5>1
      <4>4. <<g, b>> \in ord2 /\ <<x, g>> \in ord2
        BY <1>9, <2>1, <2>5, <2>10, <4>2, <4>3
      <4>5. \A z \in S : <<x, z>> \in ord2 => z = g \/ <<g, z>> \in ord2
        BY <1>9, <2>1, <2>5, <2>10, <4>2
      <4>. QED BY <3>1, <4>2, <4>4, <4>5 DEF Follows
    <3>4. x # HEAD => size[x] \in Nat
      BY <2>1, <2>5, <2>10
    <3>. QED BY <1>2, <3>2, <3>3, <3>4
  <2>. QED BY <2>4, <2>7, <2>8, <2>9, <2>10
<1>13. Links(ord2, on2)'
  <2>1. on2[0] = Blocks \ inuse'
    BY <1>1, <1>2, <1>10
  <2>2. ASSUME NEW i \in 1..SKIP_MAX_LEVEL PROVE on2[i] \subseteq on2[i - 1]
    <3>1. i \in Levels /\ i - 1 \in Levels /\ i \in Nat
      BY <1>1 DEF Levels
    <3>2. on[i] \subseteq on[i - 1]
      BY DEF Shape, Links
    <3>3. top \in Nat
      BY <1>1
    <3>. QED BY <1>10, <3>1, <3>2, <3>3
  <2>3. ASSUME NEW i \in Levels, i > level' PROVE on2[i] = {}
    <3>1. i > level /\ ~(i <= top)
      BY <1>1, <1>5, <2>3
    <3>2. on[i] = {}
      BY <3>1 DEF Shape, Links
    <3>. QED BY <1>10, <3>1, <3>2
  <2>4. ASSUME level' > 0 PROVE on2[level'] # {}
    <3>1. CASE level' = top
      BY <1>1, <1>10, <3>1
    <3>2. CASE level' # top
      <4>1. level' = level /\ level > 0
        BY <1>5, <2>4, <3>2
      <4>2. on[level] # {}
        BY <4>1 DEF Shape, Links
      <4>. QED BY <1>1, <1>10, <4>1, <4>2
    <3>. QED BY <3>1, <3>2
  <2>. QED BY <1>12, <2>1, <2>2, <2>3, <2>4 DEF Links
<1>. QED BY <1>7, <1>8, <1>9, <1>10, <1>11, <1>13 DEF SkipInv

-----------------------------------------------------------------------------
(* klmalloc takes the block it found.                                      *)

LEMMA Deleted ==
  ASSUME NEW ord, NEW on, Shape(ord, on), NEW b, First(ord, b), klmalloc_skip_list_delete(b),
         inuse' = inuse \cup {b}, size' = size,
         answer' \in Requests \X (Blocks \cup {NULL})
  PROVE  SkipInv'
<1>0. TypeOK
  BY DEF Shape
<1>1. /\ level \in Nat /\ SKIP_MAX_LEVEL \in Nat /\ level \in Levels /\ 0 \in Levels
      /\ Levels \subseteq Nat /\ 0..level \subseteq Levels
      /\ Sorts(ord) /\ on[0] = Blocks \ inuse /\ Blocks \ inuse = Listed \ {HEAD}
      /\ HEAD \notin Blocks /\ NULL \notin Blocks \cup {HEAD} /\ HEAD \in Listed
      /\ \A i \in Levels : on[i] \subseteq Listed /\ on[i] \subseteq Blocks \ inuse
      /\ \A x \in Blocks : size[x] \in Nat
      /\ \A i \in Levels : \A x \in on[i] \cup {HEAD} :
           /\ x \in Nodes /\ x \in Listed /\ Follows(ord, on[i], x, forward[x][i])
           /\ forward[x][i] \in on[i] \cup {NULL}
  BY ShapeFacts
<1>2. /\ b \in Blocks \ inuse /\ b \in Listed /\ b # HEAD /\ b # NULL /\ b \in Nodes
      /\ Blocks \ inuse' = (Blocks \ inuse) \ {b} /\ Listed' = Listed \ {b}
      /\ HEAD \in Listed' /\ size[b] \in Nat
  BY <1>1 DEF First, Listed, Nodes
<1>. DEFINE n == size[b]
            update == Before(n)
            linked == {i \in 0..level : \A j \in 0..i : forward[update[j]][j] = b}
            after == [x \in Nodes |-> [i \in Levels |->
                       IF i \in linked /\ x = update[i] THEN forward[b][i] ELSE forward[x][i]]]
            used == {i \in 1..level : after[HEAD][i] # NULL}
<1>7. /\ forward' = after
      /\ level' = IF used = {} THEN 0 ELSE CHOOSE i \in used : \A j \in used : j <= i
  BY DEF klmalloc_skip_list_delete
<1>u. n = size[b] /\ update = Before(n)
  OBVIOUS
<1>. HIDE DEF n, update
<1>3. /\ \A i \in 0..level : Last(ord, on[i], n, update[i])
      /\ \A i \in 0..level : forward[update[i]][i] = b <=> b \in on[i]
      /\ n \in Nat
  BY <1>2, <1>u, BeforeLast, InFront
<1>4. \A i \in 1..SKIP_MAX_LEVEL : on[i] \subseteq on[i - 1]
  BY DEF Shape, Links
(* Unlinking stops only above the highest level b is on. *)
<1>5. \A i \in 0..level : b \in on[i] => \A j \in 0..i : b \in on[j]
  <2>. SUFFICES ASSUME NEW i \in 0..level, b \in on[i], {j \in 0..i : b \notin on[i - j]} # {}
                PROVE  FALSE
    <3>1. ASSUME NEW i \in 0..level, {j \in 0..i : b \notin on[i - j]} = {}, NEW j \in 0..i
          PROVE  b \in on[j]
      <4>1. i - j \in 0..i /\ i - (i - j) = j
        BY <1>1
      <4>. QED BY <3>1, <4>1
    <3>. QED BY <3>1
  <2>. DEFINE T == {j \in 0..i : b \notin on[i - j]}
  <2>1. T \subseteq Nat /\ T # {}
    BY <1>1
  <2>2. PICK j \in T : \A k \in T : ~(k < j)
    <3>. HIDE DEF T
    <3>. QED BY <2>1, Smallest
  <2>3. j \in 1..i /\ b \notin on[i - j]
    BY <1>1, <2>2
  <2>4. j - 1 \in 0..i /\ j - 1 < j /\ i - (j - 1) \in 1..SKIP_MAX_LEVEL
        /\ (i - (j - 1)) - 1 = i - j
    BY <1>1, <2>3 DEF Levels
  <2>5. b \in on[i - (j - 1)]
    BY <2>2, <2>4
  <2>6. on[i - (j - 1)] \subseteq on[(i - (j - 1)) - 1]
    BY <1>4, <2>4
  <2>. QED BY <2>3, <2>4, <2>5, <2>6
<1>6. \A i \in Levels : i \in linked <=> b \in on[i]
  <2>1. \A i \in 0..level : \A j \in 0..i : j \in 0..level
    BY <1>1
  <2>2. \A i \in Levels : i \notin 0..level => i > level
    BY <1>1
  <2>3. \A i \in Levels : i > level => on[i] = {}
    BY DEF Shape, Links
  <2>4. \A i \in 0..level : i \in 0..i
    BY <1>1
  <2>5. \A i \in 0..level : i \in linked <=> b \in on[i]
    BY <1>3, <1>5, <2>1, <2>4
  <2>. QED BY <2>2, <2>3, <2>5
<1>. HIDE DEF linked
<1>8. ASSUME NEW i \in Levels, NEW x \in Nodes
      PROVE  forward'[x][i] = IF b \in on[i] /\ x = update[i] THEN forward[b][i]
                                                              ELSE forward[x][i]
  BY <1>6, <1>7
<1>9. forward' \in [Nodes -> [Levels -> Blocks \cup {NULL}]]
  <2>1. forward' = [x \in Nodes |-> [i \in Levels |-> forward'[x][i]]]
    BY <1>7
  <2>2. \A x \in Nodes, i \in Levels : forward'[x][i] \in Blocks \cup {NULL}
    BY <1>0, <1>2, <1>8 DEF TypeOK
  <2>. QED BY <2>1, <2>2
<1>. PICK ord2, on2 : /\ ord2 = ord \cap (Listed' \X Listed')
                      /\ on2 = [i \in Levels |-> on[i] \ {b}]
  OBVIOUS
<1>10. /\ \A x, y \in Listed' : <<x, y>> \in ord2 <=> <<x, y>> \in ord
       /\ ord2 \in SUBSET (Listed' \X Listed')
  OBVIOUS
<1>11. /\ \A i \in Levels : on2[i] = on[i] \ {b} /\ on2[i] \subseteq Listed' \ {HEAD}
       /\ on2 \in [Levels -> SUBSET (Blocks \ inuse')]
  <2>1. \A i \in Levels : on2[i] = on[i] \ {b}
    OBVIOUS
  <2>. QED BY <1>1, <1>2, <2>1
<1>12. Sorts(ord2)'
  <2>. PICK L : L = Listed'
    OBVIOUS
  <2>1. L \subseteq Listed /\ \A x, y \in L : <<x, y>> \in ord2 <=> <<x, y>> \in ord
    BY <1>2, <1>10
  <2>2. \A x \in L : <<x, x>> \notin ord2
    BY <1>1, <2>1 DEF Sorts
  <2>3. \A x, y, z \in L : <<x, y>> \in ord2 /\ <<y, z>> \in ord2 => <<x, z>> \in ord2
    BY ONLY <1>1, <2>1 DEF Sorts
  <2>4. \A x, y \in L : x = y \/ <<x, y>> \in ord2 \/ <<y, x>> \in ord2
    BY ONLY <1>1, <2>1 DEF Sorts
  <2>5. \A x \in L \ {HEAD} : <<HEAD, x>> \in ord2
    BY ONLY <1>1, <1>2, <2>1, L = Listed' DEF Sorts
  <2>6. \A x, y \in L \ {HEAD} : <<x, y>> \in ord2 => size[x] <= size[y]
    BY ONLY <1>1, <2>1 DEF Sorts
  <2>. QED BY ONLY <2>2, <2>3, <2>4, <2>5, <2>6, L = Listed', size' = size DEF Sorts
<1>13. ASSUME NEW i \in Levels, NEW x \in on2[i] \cup {HEAD}
       PROVE  Follows(ord2, on2[i], x, forward'[x][i])
  <2>. DEFINE S == on[i]
              g == forward[x][i]
              f == forward[b][i]
              u == update[i]
  <2>1. /\ on2[i] = S \ {b} /\ S \subseteq Listed /\ x \in Listed /\ x # b /\ x \in Nodes
        /\ x \in Listed' /\ \A y \in S : y # b => y \in Listed'
        /\ Follows(ord, S, x, g) /\ g \in S \cup {NULL} /\ NULL \notin S
    BY <1>1, <1>2, <1>11
  <2>2. forward'[x][i] = IF b \in S /\ x = u THEN f ELSE g
    BY <1>8, <2>1
  <2>3. b \in S => /\ Follows(ord, S, b, f) /\ f \in S \cup {NULL}
                   /\ Last(ord, S, n, u) /\ forward[u][i] = b
    BY <1>1, <1>3, <1>6 DEF linked
  <2>. HIDE DEF S, g, f, u
  <2>4. CASE b \notin S
    BY <1>10, <2>1, <2>2, <2>4 DEF Follows
  <2>5. CASE b \in S /\ x = u
    <3>1. g = b /\ <<x, b>> \in ord /\ \A z \in S : <<x, z>> \in ord => z = b \/ <<b, z>> \in ord
      BY <1>2, <2>1, <2>3, <2>5 DEF Follows, g, u
    <3>2. forward'[x][i] = f
      BY <2>2, <2>5
    <3>3. CASE f = NULL
      BY <1>10, <2>1, <2>3, <2>5, <3>1, <3>2, <3>3 DEF Follows
    <3>4. CASE f # NULL
      <4>1. /\ f \in S /\ <<b, f>> \in ord /\ f # b
            /\ \A z \in S : <<b, z>> \in ord => z = f \/ <<f, z>> \in ord
        BY <1>1, <1>2, <2>3, <2>5, <3>4 DEF Follows, Sorts
      <4>2. <<x, f>> \in ord
        BY <1>1, <1>2, <2>1, <3>1, <4>1 DEF Sorts
      <4>. QED BY <1>10, <2>1, <3>1, <3>2, <3>4, <4>1, <4>2 DEF Follows
    <3>. QED BY <3>3, <3>4
  <2>6. CASE b \in S /\ x # u
    <3>1. forward'[x][i] = g
      BY <2>2, <2>6
    <3>2. g # b
      <4>. SUFFICES ASSUME g = b PROVE FALSE
        OBVIOUS
      <4>1. <<x, b>> \in ord
        BY <1>2, <2>1 DEF Follows
      <4>2. u \in Listed /\ <<u, b>> \in ord
        <5>1. u \in S \cup {HEAD}
          BY <2>3, <2>6 DEF Last
        <5>2. Follows(ord, S, u, b)
          BY <1>1, <2>3, <2>6, <5>1 DEF S
        <5>. QED BY <1>1, <1>2, <2>1, <5>1, <5>2 DEF Follows
      <4>3. <<x, u>> \in ord \/ <<u, x>> \in ord
        BY <1>1, <2>1, <2>6, <4>2 DEF Sorts
      <4>4. CASE <<x, u>> \in ord
        <5>1. u \in S
          <6>1. u # HEAD
            <7>1. u = HEAD => <<HEAD, x>> \in ord
              BY <1>1, <2>1, <2>6 DEF Sorts
            <7>. QED BY <1>1, <2>1, <4>2, <4>4, <7>1, OneWay
          <6>. QED BY <2>3, <2>6, <6>1 DEF Last
        <5>2. u = b \/ <<b, u>> \in ord
          BY <1>2, <2>1, <4>4, <5>1 DEF Follows
        <5>. QED BY <1>1, <1>2, <4>2, <5>2, OneWay
      <4>5. CASE <<u, x>> \in ord
        <5>1. x # HEAD
          <6>1. x = HEAD => <<HEAD, u>> \in ord
            BY <1>1, <2>6, <4>2 DEF Sorts
          <6>. QED BY <1>1, <2>1, <4>2, <4>5, <6>1, OneWay
        <5>2. x \in S
          BY <2>1, <5>1
        <5>3. u \in S \cup {HEAD} /\ Follows(ord, S, u, b)
          <6>1. u \in S \cup {HEAD}
            BY <2>3, <2>6 DEF Last
          <6>. QED BY <1>1, <2>3, <2>6, <6>1 DEF S
        <5>4. x = b \/ <<b, x>> \in ord
          BY <1>2, <4>5, <5>2, <5>3 DEF Follows
        <5>. QED BY <1>1, <1>2, <2>1, <4>1, <5>4, OneWay
      <4>. QED BY <4>3, <4>4, <4>5
    <3>. QED BY <1>10, <2>1, <3>1, <3>2 DEF Follows
  <2>. QED BY <2>4, <2>5, <2>6
<1>14. \A i \in Levels : after[HEAD][i] = NULL <=> on2[i] = {}
  <2>. SUFFICES ASSUME NEW i \in Levels PROVE forward'[HEAD][i] = NULL <=> on2[i] = {}
    BY <1>7
  <2>1. Follows(ord2, on2[i], HEAD, forward'[HEAD][i])
    BY <1>13
  <2>2. \A z \in on2[i] : <<HEAD, z>> \in ord2
    BY <1>11, <1>12 DEF Sorts
  <2>. QED BY <2>1, <2>2 DEF Follows
<1>. HIDE DEF after
(* The level the list drops to. *)
<1>15. /\ level' \in Levels
       /\ (level' = 0 /\ used = {}) \/ (level' \in used /\ \A j \in used : j <= level')
  <2>1. CASE used = {}
    BY <1>1, <1>7, <2>1
  <2>2. CASE used # {}
    <3>. DEFINE T == {level - i : i \in used}
    <3>1. T \subseteq Nat /\ T # {}
      BY <1>1, <2>2
    <3>2. PICK k \in T : \A j \in T : ~(j < k)
      <4>. HIDE DEF T
      <4>. QED BY <3>1, Smallest
    <3>3. PICK i \in used : k = level - i
      BY <3>2
    <3>4. ASSUME NEW j \in used PROVE j <= i
      <4>1. level - j \in T
        OBVIOUS
      <4>2. ~(level - j < level - i)
        BY <3>2, <3>3, <4>1
      <4>. QED BY <1>1, <4>2
    <3>5. level' \in used /\ \A j \in used : j <= level'
      <4>. HIDE DEF used
      <4>. QED BY <1>7, <2>2, <3>4
    <3>. QED BY <1>1, <3>5
  <2>. QED BY <2>1, <2>2
<1>16. Links(ord2, on2)'
  <2>1. on2[0] = Blocks \ inuse'
    BY <1>1, <1>2, <1>11
  <2>2. ASSUME NEW i \in 1..SKIP_MAX_LEVEL PROVE on2[i] \subseteq on2[i - 1]
    <3>1. i \in Levels /\ i - 1 \in Levels
      BY <1>1 DEF Levels
    <3>. QED BY <1>4, <1>11, <3>1
  <2>3. ASSUME NEW i \in Levels, i > level' PROVE on2[i] = {}
    <3>1. CASE i \in 1..level
      <4>1. i \notin used
        BY <1>1, <1>15, <2>3
      <4>. QED BY <1>14, <3>1, <4>1
    <3>2. CASE i \notin 1..level
      <4>1. i > level
        BY <1>1, <1>15, <2>3, <3>2
      <4>2. on[i] = {}
        BY <4>1 DEF Shape, Links
      <4>. QED BY <1>11, <4>2
    <3>. QED BY <3>1, <3>2
  <2>4. ASSUME level' > 0 PROVE on2[level'] # {}
    BY <1>14, <1>15, <2>4
  <2>. QED BY <1>13, <2>1, <2>2, <2>3, <2>4 DEF Links
<1>17. TypeOK' /\ IsFiniteSet(Blocks \ inuse')
  <2>1. TypeOK'
    BY <1>0, <1>2, <1>9, <1>15 DEF TypeOK
  <2>2. IsFiniteSet(Blocks \ inuse')
    BY <1>2, FS_Subset DEF Shape
  <2>. QED BY <2>1, <2>2
<1>. QED BY <1>10, <1>11, <1>12, <1>16, <1>17 DEF SkipInv

-----------------------------------------------------------------------------
(* The invariant holds.                                                    *)

LEMMA SkipBegins == Init => SkipInv
<1>. SUFFICES ASSUME Init PROVE SkipInv
  OBVIOUS
<1>. PICK ord, on : ord = {} /\ on = [i \in Levels |-> {}]
  OBVIOUS
<1>1. /\ 0 \in Levels /\ Listed = {HEAD} /\ Blocks \ inuse = {}
      /\ \A i \in Levels : on[i] = {}
  BY LevelAssumption DEF Init, Levels, Listed
<1>2. TypeOK
  BY <1>1, NodeAssumption DEF Init, TypeOK
<1>3. IsFiniteSet(Blocks \ inuse)
  BY <1>1, FS_EmptySet
<1>4. ord \in SUBSET (Listed \X Listed) /\ on \in [Levels -> SUBSET (Blocks \ inuse)]
  BY <1>1
<1>5. Sorts(ord)
  BY <1>1 DEF Sorts
<1>6. Links(ord, on)
  <2>1. \A i \in 1..SKIP_MAX_LEVEL : i \in Levels /\ i - 1 \in Levels
    BY LevelAssumption DEF Levels
  <2>2. ASSUME NEW i \in Levels PROVE Follows(ord, on[i], HEAD, forward[HEAD][i])
    BY <1>1 DEF Init, Nodes, Follows
  <2>. QED BY <1>1, <2>1, <2>2 DEF Links, Init
<1>. QED BY <1>2, <1>3, <1>4, <1>5, <1>6 DEF SkipInv

LEMMA SkipStep == SkipInv /\ [Next]_vars => SkipInv'
<1>. SUFFICES ASSUME SkipInv, [Next]_vars PROVE SkipInv'
  OBVIOUS
<1>1. PICK ord, on : Shape(ord, on)
  BY DEF SkipInv, Shape
<1>2. ASSUME NEW n \in Requests, Reuse(n) PROVE SkipInv'
  <2>. PICK b : b = klmalloc_skip_list_findbest(n)
    OBVIOUS
  <2>1. n \in Int /\ TypeOK
    BY <1>1, SizeAssumption DEF Shape
  <2>2. CASE b = NULL
    <3>1. UNCHANGED <<size, forward, level, inuse>> /\ answer' = <<n, NULL>>
      BY <1>2, <2>2 DEF Reuse
    <3>2. TypeOK'
      BY <2>1, <3>1 DEF TypeOK
    <3>. QED BY <3>1, <3>2 DEF SkipInv, Sorts, Links, Listed
  <2>3. CASE b # NULL
    <3>1. First(ord, b)
      BY <1>1, <2>1, <2>3, Found
    <3>2. /\ klmalloc_skip_list_delete(b) /\ inuse' = inuse \cup {b} /\ size' = size
          /\ answer' = <<n, b>>
      BY <1>2, <2>3 DEF Reuse
    <3>3. answer' \in Requests \X (Blocks \cup {NULL})
      BY <3>1, <3>2 DEF First
    <3>. QED BY <1>1, <3>1, <3>2, <3>3, Deleted
  <2>. QED BY <2>2, <2>3
<1>3. ASSUME NEW b \in Blocks, Free(b) PROVE SkipInv'
  BY <1>1, <1>3, Inserted DEF Free
<1>4. CASE UNCHANGED vars
  <2>1. UNCHANGED <<size, forward, level, inuse, answer>>
    BY <1>4 DEF vars
  <2>2. TypeOK'
    BY <1>1, <2>1 DEF TypeOK, Shape
  <2>. QED BY <2>1, <2>2 DEF SkipInv, Sorts, Links, Listed
<1>. QED BY <1>2, <1>3, <1>4 DEF Next

(* No call breaks the one order that the listed blocks are in on every     *)
(* level: the head first, the blocks by size.                              *)
THEOREM OrderKept == Spec => []SkipInv
BY SkipBegins, SkipStep, PTL DEF Spec

-----------------------------------------------------------------------------
(* The list as it is seen by following the pointers.                       *)

(* f collects the nodes behind each node on level i.                       *)
Collects(f, i) ==
  f = [x \in Nodes \cup {NULL} |-> IF x = NULL THEN {} ELSE {x} \cup f[forward[x][i]]]

LEMMA SomeCollects ==
  ASSUME TypeOK, NEW i \in Levels
  PROVE  \E f : Collects(f, i)
<1>. DEFINE A == Nodes \cup {NULL}
            g == [x \in A |-> IF x = NULL THEN NULL ELSE forward[x][i]]
            f == [x \in A |-> Closure(g, x) \ {NULL}]
<1>1. g \in [A -> A] /\ g[NULL] = NULL /\ NULL \in A
      /\ \A x \in A : x # NULL => g[x] = forward[x][i] /\ forward[x][i] \in A
  BY DEF TypeOK, Nodes
<1>. HIDE DEF g, A
<1>2. Closure(g, NULL) = {NULL}
  BY <1>1, ClosureStep
<1>3. \A x \in A : x # NULL => Closure(g, x) = {x} \cup Closure(g, forward[x][i])
  BY <1>1, ClosureStep
<1>4. \A x \in A : f[x] = IF x = NULL THEN {} ELSE {x} \cup f[forward[x][i]]
  BY <1>1, <1>2, <1>3
<1>5. f = [x \in A |-> f[x]]
  OBVIOUS
<1>. HIDE DEF f
<1>6. f = [x \in A |-> IF x = NULL THEN {} ELSE {x} \cup f[forward[x][i]]]
  BY <1>4, <1>5
<1>. QED BY <1>6 DEF Collects, A

LEMMA OneMore ==
  ASSUME NEW A, NEW B, NEW x, IsFiniteSet(A), x \notin A, B = A \cup {x}
  PROVE  Cardinality(A) < Cardinality(B)
<1>1. Cardinality(A) \in Nat
  BY FS_CardinalityType
<1>2. Cardinality(B) = Cardinality(A) + 1
  BY FS_AddElement
<1>. QED BY <1>1, <1>2

LEMMA Seen ==
  ASSUME NEW ord, NEW on, Shape(ord, on), NEW i \in Levels
  PROVE  OnLevel(i) = on[i]
<1>. DEFINE S == on[i]
            after == CHOOSE f : Collects(f, i)
            Behind(x) == {y \in S : <<x, y>> \in ord}
            Bad == {x \in S \cup {HEAD} : after[x] # {x} \cup Behind(x)}
            T == {Cardinality(Behind(x)) : x \in Bad}
<1>1. /\ S \subseteq Listed /\ IsFiniteSet(S) /\ HEAD \notin S /\ HEAD \in Listed
      /\ NULL \notin S \cup {HEAD}
      /\ \A x \in S \cup {HEAD} : /\ x \in Nodes /\ x \in Listed
                                  /\ Follows(ord, S, x, forward[x][i])
  BY ShapeFacts
<1>2. Sorts(ord) /\ S \subseteq Listed \ {HEAD}
  BY <1>1, ShapeFacts
<1>3. OnLevel(i) = after[HEAD] \ {HEAD}
  BY DEF OnLevel, Collects
<1>4. Collects(after, i)
  <2>1. TypeOK
    BY DEF Shape
  <2>. QED BY <2>1, SomeCollects
<1>. HIDE DEF S, after
<1>5. /\ after[NULL] = {}
      /\ \A x \in Nodes : x # NULL => after[x] = {x} \cup after[forward[x][i]]
  BY <1>4 DEF Collects
<1>6. \A x : IsFiniteSet(Behind(x)) /\ Cardinality(Behind(x)) \in Nat
  BY <1>1, FS_Subset, FS_CardinalityType
<1>7. Bad = {}
  <2>. SUFFICES ASSUME Bad # {} PROVE FALSE
    OBVIOUS
  <2>1. T \subseteq Nat /\ T # {}
    <3>. HIDE DEF Bad, Behind
    <3>. QED BY <1>6
  <2>2. PICK m \in T : \A k \in T : ~(k < m)
    <3>. HIDE DEF T
    <3>. QED BY <2>1, Smallest
  <2>3. PICK x \in Bad : m = Cardinality(Behind(x))
    BY <2>2
  <2>4. /\ x \in S \cup {HEAD} /\ x \in Nodes /\ x \in Listed /\ x # NULL
        /\ after[x] # {x} \cup Behind(x)
        /\ \A y \in Bad : ~(Cardinality(Behind(y)) < Cardinality(Behind(x)))
    BY <1>1, <2>2, <2>3
  <2>. DEFINE y == forward[x][i]
  <2>5. Follows(ord, S, x, y) /\ after[x] = {x} \cup after[y]
    BY <1>1, <1>5, <2>4
  <2>. HIDE DEF y
  <2>6. CASE y = NULL
    BY <1>5, <2>4, <2>5, <2>6 DEF Follows
  <2>7. CASE y # NULL
    <3>1. /\ y \in S /\ <<x, y>> \in ord
          /\ \A z \in S : <<x, z>> \in ord => z = y \/ <<y, z>> \in ord
      BY <2>5, <2>7 DEF Follows
    <3>2. Behind(x) = {y} \cup Behind(y) /\ y \notin Behind(y)
      BY <1>1, <1>2, <2>4, <3>1 DEF Sorts
    <3>. HIDE DEF Behind
    <3>3. Cardinality(Behind(y)) < Cardinality(Behind(x))
      <4>1. IsFiniteSet(Behind(y)) /\ Cardinality(Behind(y)) \in Nat
            /\ Behind(x) = Behind(y) \cup {y}
        BY <1>6, <3>2
      <4>. QED BY <3>2, <4>1, OneMore
    <3>4. after[y] = {y} \cup Behind(y)
      BY <2>4, <3>1, <3>3
    <3>. QED BY <2>4, <2>5, <3>2, <3>4
  <2>. QED BY <2>6, <2>7
<1>8. after[HEAD] = {HEAD} \cup Behind(HEAD)
  BY <1>7
<1>9. Behind(HEAD) = S
  BY <1>1, <1>2 DEF Sorts
<1>. QED BY <1>1, <1>3, <1>8, <1>9 DEF S

LEMMA PoolIsFree == SkipInv => OnLevel(0) = Blocks \ inuse
<1>. SUFFICES ASSUME SkipInv PROVE OnLevel(0) = Blocks \ inuse
  OBVIOUS
<1>1. PICK ord, on : Shape(ord, on)
  BY DEF SkipInv, Shape
<1>2. 0 \in Levels /\ on[0] = Blocks \ inuse
  BY <1>1, ShapeFacts
<1>. QED BY <1>1, <1>2, Seen

-----------------------------------------------------------------------------
(* What the list promises.                                                 *)

LEMMA KeepsLayered == SkipInv => Layered
<1>. SUFFICES ASSUME SkipInv PROVE Layered
  OBVIOUS
<1>1. PICK ord, on : Shape(ord, on)
  BY DEF SkipInv, Shape
<1>2. TypeOK /\ Links(ord, on) /\ Sorts(ord)
  BY <1>1 DEF Shape
<1>3. /\ level \in Levels /\ HEAD \in Listed /\ Levels \subseteq Nat /\ 0 \in Levels
      /\ \A i \in Levels : on[i] \subseteq Listed \ {HEAD} /\ HEAD \notin on[i]
      /\ \A i \in Levels : \A x \in on[i] \cup {HEAD} : Follows(ord, on[i], x, forward[x][i])
  BY <1>1, ShapeFacts
<1>4. \A i \in Levels : OnLevel(i) = on[i]
  BY <1>1, Seen
<1>5. OnLevel(0) = Blocks \ inuse
  BY <1>2, <1>3, <1>4 DEF Links
<1>6. ASSUME NEW i \in Levels, NEW x \in OnLevel(i), forward[x][i] # NULL
      PROVE  size[x] <= size[forward[x][i]]
  <2>. PICK y : y = forward[x][i]
    OBVIOUS
  <2>1. x \in on[i] /\ y # NULL /\ Follows(ord, on[i], x, y)
    BY <1>3, <1>4, <1>6
  <2>2. y \in on[i] /\ <<x, y>> \in ord
    BY <2>1 DEF Follows
  <2>. QED BY <1>2, <1>3, <2>1, <2>2 DEF Sorts
<1>7. ASSUME NEW i \in 1..SKIP_MAX_LEVEL PROVE OnLevel(i) \subseteq OnLevel(i - 1)
  <2>1. i \in Levels /\ i - 1 \in Levels
    BY LevelAssumption DEF Levels
  <2>. QED BY <1>2, <1>4, <2>1 DEF Links
<1>8. ASSUME NEW i \in Levels PROVE forward[HEAD][i] = NULL <=> on[i] = {}
  <2>1. Follows(ord, on[i], HEAD, forward[HEAD][i])
    BY <1>3
  <2>2. \A z \in on[i] : <<HEAD, z>> \in ord
    BY <1>2, <1>3 DEF Sorts
  <2>. QED BY <2>1, <2>2 DEF Follows
<1>9. /\ \A i \in Levels : i > level => forward[HEAD][i] = NULL
      /\ level > 0 => forward[HEAD][level] # NULL
  BY <1>2, <1>3, <1>8 DEF Links
<1>. QED BY <1>2, <1>5, <1>6, <1>7, <1>9 DEF Layered

LEMMA KeepsDelete == SkipInv => DeleteFindsItsBlock
<1>. SUFFICES ASSUME SkipInv, NEW n \in Requests, NEW b, b = klmalloc_skip_list_findbest(n),
                     b # NULL
              PROVE  forward[Before(size[b])[0]][0] = b
  BY DEF DeleteFindsItsBlock
<1>1. PICK ord, on : Shape(ord, on)
  BY DEF SkipInv, Shape
<1>2. n \in Int /\ 0 \in 0..level /\ on[0] = Blocks \ inuse
  BY <1>1, SizeAssumption, ShapeFacts
<1>3. First(ord, b)
  BY <1>1, <1>2, Found
<1>4. b \in on[0]
  BY <1>2, <1>3 DEF First
<1>. QED BY <1>1, <1>2, <1>3, <1>4, InFront

(* Level 0 links exactly the blocks that klfree returned and klmalloc has  *)
(* not taken since, every level is sorted and thins out the one below it,  *)
(* and searches start at the highest level in use: no insertion at a level *)
(* drawn at random and no unlinking that stops part of the way up leaves a *)
(* block behind.                                                           *)
THEOREM LevelsLayered == Spec => []Layered
BY OrderKept, KeepsLayered, PTL

(* The block klmalloc_skip_list_findbest chose is the one at which the     *)
(* unbounded search of klmalloc_skip_list_delete starts, for every         *)
(* request: among blocks of one size both take the first.                  *)
THEOREM DeletesAtOnce == Spec => []DeleteFindsItsBlock
BY OrderKept, KeepsDelete, PTL

-----------------------------------------------------------------------------
(* The pool.                                                               *)

LEMMA PoolBegins == Init => Pool!Init
<1>. SUFFICES ASSUME Init PROVE Pool!Init
  OBVIOUS
<1>1. OnLevel(0) = {}
  BY SkipBegins, PoolIsFree DEF Init
<1>2. size \in [Blocks -> Nat]
  BY SizeAssumption DEF Init
<1>. QED BY <1>1, <1>2 DEF Init, Pool!Init

LEMMA PoolStep ==
  ASSUME SkipInv, [Next]_vars, OnLevel(0) = Blocks \ inuse, OnLevel(0)' = Blocks \ inuse'
  PROVE  [Pool!Next]_<<size, OnLevel(0), answer>>
<1>1. PICK ord, on : Shape(ord, on)
  BY DEF SkipInv, Shape
<1>2. ASSUME NEW n \in Requests, Reuse(n) PROVE Pool!Next
  <2>. PICK b : b = klmalloc_skip_list_findbest(n)
    OBVIOUS
  <2>1. n \in Int /\ NULL \notin Blocks /\ \A c \in Blocks \ inuse : size[c] \in Nat
    BY <1>1, SizeAssumption, ShapeFacts
  <2>2. /\ b = NULL => \A c \in Blocks \ inuse : size[c] < n
        /\ b # NULL => /\ b \in Blocks \ inuse /\ size[b] >= n
                       /\ \A c \in Blocks \ inuse : size[c] >= n => size[b] <= size[c]
    BY <1>1, <2>1, Found DEF First
  <2>3. answer' = <<n, b>> /\ size' = size
    BY <1>2 DEF Reuse
  <2>4. CASE b = NULL
    <3>1. inuse' = inuse
      BY <1>2, <2>4 DEF Reuse
    <3>2. Pool!BestFits(OnLevel(0), size, n) = {}
      BY <2>1, <2>2, <2>4 DEF Pool!BestFits
    <3>3. Pool!Refuse(n)
      BY <2>3, <2>4, <3>1, <3>2 DEF Pool!Refuse
    <3>. QED BY <3>3 DEF Pool!Next
  <2>5. CASE b # NULL
    <3>1. inuse' = inuse \cup {b}
      BY <1>2, <2>5 DEF Reuse
    <3>2. b \in Pool!BestFits(OnLevel(0), size, n)
      BY <2>2, <2>5 DEF Pool!BestFits
    <3>3. OnLevel(0)' = OnLevel(0) \ {b}
      BY <3>1
    <3>4. Pool!Take(n)
      BY <2>3, <3>2, <3>3 DEF Pool!Take
    <3>. QED BY <3>4 DEF Pool!Next
  <2>. QED BY <2>4, <2>5
<1>3. ASSUME NEW b \in Blocks, Free(b) PROVE Pool!Next
  <2>1. b \in inuse /\ inuse' = inuse \ {b} /\ answer' = <<>> /\ size' = size
    BY <1>3 DEF Free
  <2>2. b \notin OnLevel(0) /\ OnLevel(0)' = OnLevel(0) \cup {b}
    BY <2>1
  <2>3. Pool!Insert(b)
    BY <2>1, <2>2 DEF Pool!Insert
  <2>. QED BY <2>3 DEF Pool!Next
<1>4. CASE UNCHANGED vars
  BY <1>4 DEF vars
<1>. QED BY <1>2, <1>3, <1>4 DEF Next

(* The skip list implements the pool that the heap is specified with: a    *)
(* request takes a best fit among the blocks freed and not taken since,    *)
(* and gets NULL only if none of them is large enough.                     *)
THEOREM ListIsPool == Spec => BestFitKept
<1>1. Spec => [](OnLevel(0) = Blocks \ inuse)
  BY OrderKept, PoolIsFree, PTL
<1>2. SkipInv /\ [Next]_vars /\ OnLevel(0) = Blocks \ inuse /\ (OnLevel(0) = Blocks \ inuse)'
      => [Pool!Next]_<<size, OnLevel(0), answer>>
  BY PoolStep
<1>. QED BY <1>1, <1>2, OrderKept, PoolBegins, PTL DEF Spec, BestFitKept, Pool!Spec
=============================================================================
