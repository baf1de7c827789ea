--------------------------- MODULE LibraryProofs ---------------------------
(***************************************************************************)
(* For every word and page size, the heap's bit tricks choose the bucket   *)
(* they should, and a new page or block holds its request.  For every      *)
(* format, vsprintf reads no further than the terminator, and every field  *)
(* it writes is as asked.  For all names, what strcmp calls equal, and     *)
(* where the search for the symbol tables ends with such a strcmp.         *)
(***************************************************************************)
EXTENDS BinArith, Format, Elf, FiniteSetTheorems, SequenceTheorems,
        WellFoundedInduction, TLAPS

-----------------------------------------------------------------------------
(* Natural numbers.                                                        *)

LEMMA LessIsWellFounded == IsWellFoundedOn({q \in Nat \X Nat : q[1] < q[2]}, Nat)
BY NatLessThanWellFounded DEF OpToRel

LEMMA Smallest ==
  ASSUME NEW T, T \subseteq Nat, T # {}
  PROVE  \E m \in T : \A k \in T : ~(k < m)
<1>. DEFINE R == {q \in Nat \X Nat : q[1] < q[2]}
<1>1. IsWellFoundedOn(R, Nat)
  BY LessIsWellFounded
<1>. HIDE DEF R
<1>2. PICK m \in T : \A k \in T : ~(<<k, m>> \in R)
  BY <1>1, WFMin
<1>. QED BY <1>2 DEF R

(* A set in which 0 is, and n + 1 if n is.                                 *)
LEMMA Inductive ==
  ASSUME NEW T, 0 \in T, \A n \in Nat : n \in T => n + 1 \in T
  PROVE  \A n \in Nat : n \in T
<1>. SUFFICES ASSUME NEW n \in Nat, n \notin T PROVE FALSE
  OBVIOUS
<1>. DEFINE U == {k \in Nat : k \notin T}
<1>1. U \subseteq Nat /\ n \in U
  OBVIOUS
<1>2. PICK m \in U : \A k \in U : ~(k < m)
  <2>. HIDE DEF U
  <2>. QED BY <1>1, Smallest
<1>3. m \in Nat \ {0} /\ m \notin T
  BY <1>2
<1>4. m - 1 \in Nat /\ m - 1 < m /\ (m - 1) + 1 = m
  BY <1>3
<1>5. m - 1 \in T
  BY <1>2, <1>4
<1>. QED BY <1>3, <1>4, <1>5

LEMMA Divided ==
  ASSUME NEW t \in Nat \ {0}, NEW n \in Nat
  PROVE  n % t \in 0..t-1 /\ n \div t \in Nat /\ n = (n \div t) * t + (n % t)
OBVIOUS

LEMMA NextMultiple ==
  ASSUME NEW t \in Nat, NEW q \in Nat
  PROVE  q * t \in Nat /\ (q + 1) * t = q * t + t
OBVIOUS

(* A number has one quotient and one remainder.                            *)
LEMMA Apart ==
  ASSUME NEW t \in Nat \ {0}, NEW r \in Nat, NEW k \in 0..t-1, NEW q \in Nat, NEW j \in 0..t-1,
         r * t + k = q * t + j
  PROVE  r = q /\ k = j
<1>1. ASSUME NEW a \in Nat, NEW b \in Nat, NEW e \in 0..t-1, NEW h \in 0..t-1, a < b
      PROVE  a * t + e < b * t + h
  <2>. PICK d \in Nat : b = a + 1 + d
    BY <1>1
  <2>1. b * t = a * t + t + d * t /\ d * t \in Nat /\ a * t \in Nat
    OBVIOUS
  <2>. QED BY <2>1
<1>2. ~(r < q) /\ ~(q < r)
  <2>1. r * t + k \in Nat /\ q * t + j \in Nat
    OBVIOUS
  <2>2. r < q => r * t + k < q * t + j
    BY <1>1
  <2>3. q < r => q * t + j < r * t + k
    BY <1>1
  <2>. QED BY <2>1, <2>2, <2>3
<1>3. r = q
  BY <1>2
<1>4. r * t \in Nat
  OBVIOUS
<1>. QED BY <1>3, <1>4

(* Quotients of 0 and 1, and of a multiple.                                *)
LEMMA NoQuotient ==
  ASSUME NEW t \in Nat \ {0}, NEW n \in 0..t-1
  PROVE  n \div t = 0
OBVIOUS

LEMMA OneQuotient ==
  ASSUME NEW t \in Nat \ {0}, NEW n \in t..2*t-1
  PROVE  n \div t = 1
OBVIOUS

LEMMA MultipleQuotient ==
  ASSUME NEW t \in Nat \ {0}, NEW q \in Nat
  PROVE  (q * t) \div t = q
<1>. PICK n, e, r : n = q * t /\ e = n \div t /\ r = n % t
  OBVIOUS
<1>1. n \in Nat
  OBVIOUS
<1>2. r \in 0..t-1 /\ e \in Nat /\ n = e * t + r
  BY <1>1, Divided
<1>3. q * t + 0 = e * t + r /\ 0 \in 0..t-1
  BY <1>1, <1>2
<1>4. q = e
  BY <1>2, <1>3, Apart
<1>. QED BY <1>4

-----------------------------------------------------------------------------
(* The provers know 2^n as a number only; that it doubles follows from     *)
(* the number of subsets of a set.                                         *)

LEMMA Subsets ==
  ASSUME NEW n \in Nat
  PROVE  IsFiniteSet(SUBSET (1..n)) /\ Cardinality(SUBSET (1..n)) = 2^n /\ 2^n \in Nat
<1>1. IsFiniteSet(1..n) /\ Cardinality(1..n) = n
  BY FS_Interval
<1>2. IsFiniteSet(SUBSET (1..n)) /\ Cardinality(SUBSET (1..n)) = 2^n
  BY <1>1, FS_SUBSET
<1>. QED BY <1>2, FS_CardinalityType

LEMMA Doubles ==
  ASSUME NEW n \in Nat
  PROVE  2^(n + 1) = 2 * 2^n
<1>. DEFINE S == SUBSET (1..n)
            T == {s \cup {n + 1} : s \in S}
            f == [s \in S |-> s \cup {n + 1}]
<1>1. IsFiniteSet(S) /\ Cardinality(S) = 2^n /\ 2^n \in Nat
  BY Subsets
<1>2. Cardinality(SUBSET (1..n+1)) = 2^(n + 1)
  BY Subsets
<1>3. \A s \in S : n + 1 \notin s
  OBVIOUS
<1>4. SUBSET (1..n+1) = S \cup T
  <2>1. ASSUME NEW u \in SUBSET (1..n+1) PROVE u \in S \cup T
    <3>. PICK s : s = u \ {n + 1}
      OBVIOUS
    <3>1. s \in S /\ s \cup {n + 1} \in T
      OBVIOUS
    <3>2. u = s \/ u = s \cup {n + 1}
      OBVIOUS
    <3>. QED BY <3>1, <3>2
  <2>2. ASSUME NEW s \in S PROVE s \in SUBSET (1..n+1) /\ s \cup {n + 1} \in SUBSET (1..n+1)
    OBVIOUS
  <2>3. ASSUME NEW u \in T PROVE u \in SUBSET (1..n+1)
    <3>1. PICK s \in S : u = s \cup {n + 1}
      OBVIOUS
    <3>. QED BY <2>2, <3>1
  <2>. HIDE DEF T
  <2>. QED BY <2>1, <2>2, <2>3
<1>5. S \cap T = {}
  BY <1>3
<1>6. f \in Bijection(S, T)
  <2>1. \A s, t \in S : f[s] = f[t] => s = t
    <3>. SUFFICES ASSUME NEW s \in S, NEW t \in S, s \cup {n + 1} = t \cup {n + 1} PROVE s = t
      OBVIOUS
    <3>1. s = (s \cup {n + 1}) \ {n + 1} /\ t = (t \cup {n + 1}) \ {n + 1}
      BY <1>3
    <3>. QED BY <3>1
  <2>2. f \in [S -> T] /\ \A u \in T : \E s \in S : f[s] = u
    OBVIOUS
  <2>. QED BY <2>1, <2>2 DEF Bijection, Injection, Surjection, IsInjective
<1>. HIDE DEF S, T, f
<1>7. IsFiniteSet(T) /\ Cardinality(T) = 2^n
  BY <1>1, <1>6, FS_Bijection DEF ExistsBijection
<1>8. Cardinality(S \cup T) = 2^n + 2^n - 0
  <2>1. Cardinality(S \cup T) = Cardinality(S) + Cardinality(T) - Cardinality(S \cap T)
    BY <1>1, <1>7, FS_Union
  <2>. QED BY <1>1, <1>5, <1>7, <2>1, FS_EmptySet
<1>9. Cardinality(SUBSET (1..n+1)) = Cardinality(S \cup T)
  BY <1>4
<1>. QED BY <1>1, <1>2, <1>8, <1>9

LEMMA PowerType ==
  ASSUME NEW n \in Nat
  PROVE  2^n \in Nat \ {0}
<1>. DEFINE T == {k \in Nat : 2^k \in Nat \ {0}}
<1>1. 0 \in T
  OBVIOUS
<1>2. ASSUME NEW k \in Nat, k \in T PROVE k + 1 \in T
  BY <1>2, Doubles
<1>. HIDE DEF T
<1>3. n \in T
  BY <1>1, <1>2, Inductive
<1>. QED BY <1>3 DEF T

LEMMA PowersMultiply ==
  ASSUME NEW m \in Nat, NEW n \in Nat
  PROVE  2^(m + n) = 2^m * 2^n
<1>. DEFINE T == {k \in Nat : 2^(m + k) = 2^m * 2^k}
<1>1. 0 \in T
  <2>1. 2^m \in Nat /\ m + 0 = m /\ 2^0 = 1
    BY PowerType
  <2>. QED BY <2>1
<1>2. ASSUME NEW k \in Nat, k \in T PROVE k + 1 \in T
  <2>1. m + (k + 1) = (m + k) + 1 /\ m + k \in Nat
    OBVIOUS
  <2>2. 2^(m + (k + 1)) = 2 * 2^(m + k)
    BY <2>1, Doubles
  <2>3. 2^(k + 1) = 2 * 2^k /\ 2^m \in Nat /\ 2^k \in Nat
    BY Doubles, PowerType
  <2>4. 2^(m + k) = 2^m * 2^k
    BY <1>2
  <2>5. ASSUME NEW a \in Nat, NEW b \in Nat PROVE 2 * (a * b) = a * (2 * b)
    OBVIOUS
  <2>6. 2 * (2^m * 2^k) = 2^m * (2 * 2^k)
    BY <2>3, <2>5
  <2>. QED BY <2>2, <2>3, <2>4, <2>6
<1>. HIDE DEF T
<1>3. n \in T
  BY <1>1, <1>2, Inductive
<1>. QED BY <1>3 DEF T

LEMMA PowersGrow ==
  ASSUME NEW m \in Nat, NEW n \in Nat, m < n
  PROVE  2 * 2^m <= 2^n
<1>. DEFINE k == n - (m + 1)
<1>1. k \in Nat /\ n = (m + 1) + k
  OBVIOUS
<1>2. 2^n = (2 * 2^m) * 2^k
  <2>1. m + 1 \in Nat /\ 2^(m + 1) = 2 * 2^m
    BY Doubles
  <2>. HIDE DEF k
  <2>2. 2^((m + 1) + k) = 2^(m + 1) * 2^k
    BY <1>1, <2>1, PowersMultiply
  <2>. QED BY <1>1, <2>1, <2>2
<1>3. 2 * 2^m \in Nat /\ 2^k \in Nat \ {0}
  BY <1>1, PowerType
<1>4. \A a \in Nat : \A b \in Nat \ {0} : a <= a * b
  OBVIOUS
<1>. HIDE DEF k
<1>5. 2 * 2^m <= (2 * 2^m) * 2^k
  BY <1>3, <1>4
<1>. QED BY <1>2, <1>5

-----------------------------------------------------------------------------
(* The bucket for a size, and its cells.                                   *)

(* How many bits a number takes.                                           *)
LEMMA LengthFound ==
  ASSUME NEW n \in Nat \ {0}, n < 2^WIDTH
  PROVE  /\ BitLength(n) \in 1..WIDTH
         /\ 2^(BitLength(n) - 1) <= n /\ n < 2^BitLength(n)
<1>. DEFINE T == {k \in Nat : n < 2^k}
            Fits(k) == 2^(k-1) <= n /\ n < 2^k
<1>1. WIDTH \in T /\ 0 \notin T /\ T \subseteq Nat
  BY WordAssumption
<1>2. PICK m \in T : \A k \in T : ~(k < m)
  <2>. HIDE DEF T
  <2>. QED BY <1>1, Smallest
<1>3. m \in 1..WIDTH
  <2>1. WIDTH \in Nat /\ m \in Nat /\ m # 0 /\ ~(WIDTH < m)
    BY <1>1, <1>2, WordAssumption
  <2>. QED BY <2>1
<1>4. Fits(m)
  <2>1. m - 1 \in Nat /\ m - 1 < m /\ m - 1 \notin T
    BY <1>2, <1>3
  <2>2. 2^(m - 1) \in Nat
    BY <2>1, PowerType
  <2>. QED BY <1>2, <2>1, <2>2
<1>5. BitLength(n) = CHOOSE k \in 1..WIDTH : Fits(k)
  BY DEF BitLength
<1>6. BitLength(n) \in 1..WIDTH /\ Fits(BitLength(n))
  <2>. HIDE DEF Fits
  <2>. QED BY <1>3, <1>4, <1>5
<1>. QED BY <1>6

(* A power of two has one bit, which the number before it does not have.   *)
LEMMA PowerHasOneBit ==
  ASSUME NEW p \in Nat
  PROVE  SharedBits(2^p, 2^p - 1) = {}
<1>. SUFFICES ASSUME NEW k \in 0..WIDTH-1, Bit(2^p, k) = 1, Bit(2^p - 1, k) = 1 PROVE FALSE
  BY DEF SharedBits
<1>0. k \in Nat /\ 2^p \in Nat \ {0} /\ 2^k \in Nat \ {0}
  BY WordAssumption, PowerType
<1>. PICK a, t : a = 2^p /\ t = 2^k
  OBVIOUS
<1>1. a \in Nat \ {0} /\ t \in Nat \ {0}
  BY <1>0
<1>2. CASE p = k
  <2>1. (a - 1) \div t = 0
    BY <1>1, <1>2, NoQuotient
  <2>2. Bit(2^p - 1, k) = ((a - 1) \div t) % 2
    BY DEF Bit
  <2>. QED BY <1>1, <2>1, <2>2
<1>3. CASE p < k
  <2>1. 2 * a <= t
    BY <1>0, <1>3, PowersGrow
  <2>2. a \div t = 0
    BY <1>1, <2>1, NoQuotient
  <2>3. Bit(2^p, k) = (a \div t) % 2
    BY DEF Bit
  <2>. QED BY <1>1, <2>2, <2>3
<1>4. CASE k < p
  <2>. PICK d \in Nat : p = (d + 1) + k
    <3>1. p - k - 1 \in Nat /\ p = ((p - k - 1) + 1) + k
      BY <1>0, <1>4
    <3>. QED BY <3>1
  <2>1. 2^((d + 1) + k) = 2^(d + 1) * 2^k
    BY <1>0, PowersMultiply
  <2>2. 2^(d + 1) = 2 * 2^d /\ 2^d \in Nat
    BY Doubles, PowerType
  <2>. PICK h, e : h = 2^d /\ e = 2 * h
    OBVIOUS
  <2>3. h \in Nat /\ e \in Nat /\ a = e * t
    BY <2>1, <2>2
  <2>4. (e * t) \div t = e
    BY <1>1, <2>3, MultipleQuotient
  <2>5. a \div t = e
    BY <2>3, <2>4
  <2>6. e % 2 = 0
    BY <2>3
  <2>7. Bit(2^p, k) = (a \div t) % 2
    BY DEF Bit
  <2>. QED BY <1>1, <2>3, <2>5, <2>6, <2>7
<1>. QED BY <1>0, <1>2, <1>3, <1>4

(* Between two powers, a number shares its highest bit with the one before.*)
LEMMA OthersShareABit ==
  ASSUME NEW p \in 0..WIDTH-1, NEW n \in Nat, 2^p < n, n < 2^(p + 1)
  PROVE  SharedBits(n, n - 1) # {}
<1>0. p \in Nat /\ 2^p \in Nat \ {0} /\ 2^(p + 1) = 2 * 2^p
  BY WordAssumption, PowerType, Doubles
<1>. PICK t : t = 2^p
  OBVIOUS
<1>1. t \in Nat \ {0} /\ t < n /\ n < 2 * t
  BY <1>0
<1>3. n \div t = 1
  BY <1>1, OneQuotient
<1>4. (n - 1) \div t = 1
  BY <1>1, OneQuotient
<1>5. Bit(n, p) = 1 /\ Bit(n - 1, p) = 1
  <2>1. Bit(n, p) = (n \div t) % 2 /\ Bit(n - 1, p) = ((n - 1) \div t) % 2
    BY DEF Bit
  <2>. QED BY <1>1, <1>3, <1>4, <2>1
<1>. QED BY <1>5 DEF SharedBits

(* The bit tricks yield one more than the logarithm, rounded up.           *)
LEMMA BinRounds ==
  ASSUME NEW n \in Nat \ {0}, n < 2^WIDTH
  PROVE  \E x \in Nat : /\ n <= 2^x /\ (x > 0 => 2^(x - 1) < n)
                        /\ BinOf(n) = klmalloc_adjust_bin(x + 1)
<1>. PICK k : k = BitLength(n)
  OBVIOUS
<1>1. /\ k \in 1..WIDTH /\ 2^(k - 1) <= n /\ n < 2^k
  BY LengthFound
<1>2. /\ k \in Nat /\ k - 1 \in Nat /\ k - 1 \in 0..WIDTH-1 /\ (k - 1) + 1 = k
      /\ 2^k \in Nat /\ 2^(k - 1) \in Nat
  BY <1>1, WordAssumption, PowerType
<1>3. CASE n = 2^(k - 1)
  <2>1. SharedBits(n, n - 1) = {}
    BY <1>2, <1>3, PowerHasOneBit
  <2>2. BinOf(n) = klmalloc_adjust_bin((k - 1) + 1)
    BY <1>2, <2>1 DEF BinOf
  <2>3. ASSUME k - 1 > 0 PROVE 2^((k - 1) - 1) < n
    <3>1. (k - 1) - 1 \in Nat /\ (k - 1) - 1 < k - 1
      BY <1>2, <2>3
    <3>2. 2 * 2^((k - 1) - 1) <= 2^(k - 1) /\ 2^((k - 1) - 1) \in Nat \ {0}
      BY <1>2, <3>1, PowersGrow, PowerType
    <3>. QED BY <1>3, <3>2
  <2>. QED BY <1>2, <1>3, <2>2, <2>3
<1>4. CASE n # 2^(k - 1)
  <2>1. SharedBits(n, n - 1) # {}
    BY <1>1, <1>2, <1>4, OthersShareABit
  <2>2. BinOf(n) = klmalloc_adjust_bin(k + 1)
    BY <2>1 DEF BinOf
  <2>3. n <= 2^k /\ 2^(k - 1) < n
    BY <1>1, <1>2, <1>4
  <2>. QED BY <1>2, <2>2, <2>3
<1>. QED BY <1>3, <1>4

(* It is the smallest bucket that holds the size, or that of the big blocks*)
(* if none does.                                                           *)
LEMMA BucketSmallest ==
  ASSUME NEW n \in Nat \ {0}, n < 2^WIDTH
  PROVE  /\ BinOf(n) = klmalloc_bin_size(n)
         /\ BinOf(n) < BIG_BIN => BinOf(n) \in Buckets /\ n <= CellSize(BinOf(n))
<1>. PICK x \in Nat : /\ n <= 2^x /\ (x > 0 => 2^(x - 1) < n)
                      /\ BinOf(n) = klmalloc_adjust_bin(x + 1)
  BY BinRounds
<1>. PICK b, s : b = BinOf(n) /\ s = SMALLEST_BIN_LOG
  OBVIOUS
<1>0. s \in Nat /\ BIG_BIN \in Nat \ {0}
  BY LayoutAssumption DEF BIG_BIN
<1>1. b = IF x + 1 <= s THEN 0 ELSE IF x - s > BIG_BIN THEN BIG_BIN ELSE x - s
  BY <1>0 DEF klmalloc_adjust_bin
<1>2. b \in Nat /\ b <= BIG_BIN /\ (b < BIG_BIN => b \in Buckets) /\ \A c \in Buckets : c \in Nat /\ c < BIG_BIN
  BY <1>0, <1>1 DEF Buckets
<1>3. ASSUME b < BIG_BIN PROVE n <= CellSize(b)
  <2>1. CASE x < s
    <3>1. 2 * 2^x <= 2^s /\ 2^x \in Nat /\ 2^s \in Nat
      BY <1>0, <2>1, PowersGrow, PowerType
    <3>2. s + b = s
      BY <1>0, <1>1, <2>1
    <3>. QED BY <3>1, <3>2 DEF CellSize
  <2>2. CASE ~(x < s)
    <3>1. s + b = x
      BY <1>0, <1>1, <1>3, <2>2
    <3>. QED BY <3>1 DEF CellSize
  <2>. QED BY <1>1, <2>1, <2>2
<1>4. ASSUME NEW c \in Buckets, c < b PROVE ~(n <= CellSize(c))
  <2>1. /\ x > 0 /\ x - 1 \in Nat /\ s + c \in Nat /\ s + c <= x - 1
    BY <1>0, <1>1, <1>2, <1>4
  <2>2. 2^(s + c) \in Nat /\ 2^(x - 1) \in Nat
    BY <2>1, PowerType
  <2>3. 2^(s + c) <= 2^(x - 1)
    <3>1. CASE s + c = x - 1
      BY <2>2, <3>1
    <3>2. CASE s + c < x - 1
      BY <2>1, <2>2, <3>2, PowersGrow
    <3>. QED BY <2>1, <3>1, <3>2
  <2>4. 2^(x - 1) < n
    BY <2>1
  <2>. QED BY <2>2, <2>3, <2>4 DEF CellSize
<1>. DEFINE Least(c) == n <= CellSize(c) /\ \A d \in Buckets : n <= CellSize(d) => c <= d
<1>5. klmalloc_bin_size(n) =
        IF \E c \in Buckets : n <= CellSize(c) THEN CHOOSE c \in Buckets : Least(c) ELSE BIG_BIN
  BY DEF klmalloc_bin_size
<1>6. CASE b < BIG_BIN
  <2>1. Least(b) /\ b \in Buckets /\ n <= CellSize(b)
    BY <1>2, <1>3, <1>4, <1>6
  <2>2. \A c \in Buckets : Least(c) => c = b
    BY <1>2, <2>1
  <2>3. klmalloc_bin_size(n) = b
    <3>. HIDE DEF Least
    <3>. QED BY <1>5, <2>1, <2>2
  <2>. QED BY <2>1, <2>3
<1>7. CASE ~(b < BIG_BIN)
  <2>1. b = BIG_BIN /\ \A c \in Buckets : c < b
    BY <1>0, <1>2, <1>7
  <2>2. ~\E c \in Buckets : n <= CellSize(c)
    BY <1>4, <2>1
  <2>3. klmalloc_bin_size(n) = BIG_BIN
    <3>. HIDE DEF Least
    <3>. QED BY <1>5, <2>2
  <2>4. ~(BIG_BIN < BIG_BIN)
    BY <1>0
  <2>. QED BY <2>1, <2>3, <2>4
<1>. QED BY <1>6, <1>7

(* The loop over base[] links the cells of a new page, and no others.      *)
LEMMA CellsLinked ==
  ASSUME NEW b \in Buckets
  PROVE  /\ LinkedCells(b) = FullStack(0, b)
         /\ LinkedCells(b)[Len(LinkedCells(b))] + CellSize(b) <= PAGE_SIZE
<1>. PICK s, w, t, free, n : /\ s = SMALLEST_BIN_LOG /\ w = 2^b /\ t = CellSize(b)
                             /\ free = PAGE_SIZE - HDR /\ n = free \div t
  OBVIOUS
<1>1. /\ s \in Nat /\ b \in Nat /\ t \in Nat \ {0} /\ HDR \in Nat /\ free \in Nat /\ t <= free
      /\ PAGE_SIZE = HDR + free
  BY LayoutAssumption DEF Buckets, BIG_BIN
<1>2. w \in Nat /\ WORD_BYTES \in Nat /\ WORD_BYTES * w = t
  BY <1>1, PowersMultiply, PowerType, WordAssumption DEF CellSize
<1>3. n \in Nat /\ n * t <= free /\ n > 0
  <2>. PICK r : r = free % t
    OBVIOUS
  <2>1. r \in 0..t-1 /\ n \in Nat /\ free = n * t + r
    BY <1>1, Divided
  <2>2. n # 0
    BY <1>1, <2>1
  <2>3. n * t \in Nat
    BY <1>1, <2>1, NextMultiple
  <2>. QED BY <1>1, <2>1, <2>2, <2>3
<1>4. Cells(b) = n /\ LinkedCells(b) = [k \in 1..(n - 1)+1 |-> HDR + WORD_BYTES * ((k - 1) * w)]
  BY DEF Cells, CellSize, LinkedCells
<1>5. ASSUME NEW k \in 1..n PROVE HDR + WORD_BYTES * ((k - 1) * w) = Cell(0, b, k - 1)
  <2>1. k - 1 \in Nat
    BY <1>3
  <2>2. ASSUME NEW a \in Nat, NEW c \in Nat, NEW d \in Nat PROVE a * (c * d) = c * (a * d)
    OBVIOUS
  <2>3. WORD_BYTES * ((k - 1) * w) = (k - 1) * t
    BY <1>2, <2>1, <2>2
  <2>4. (k - 1) * t \in Nat
    BY <1>1, <2>1
  <2>. QED BY <1>1, <2>3, <2>4 DEF Cell
<1>6. LinkedCells(b) = FullStack(0, b)
  <2>1. (n - 1) + 1 = n
    BY <1>3
  <2>2. FullStack(0, b) = [k \in 1..n |-> Cell(0, b, k - 1)]
    BY <1>4 DEF FullStack
  <2>. QED BY <1>4, <1>5, <2>1, <2>2
<1>7. Len(LinkedCells(b)) = n /\ LinkedCells(b)[n] = Cell(0, b, n - 1)
  <2>1. LinkedCells(b) = [k \in 1..n |-> Cell(0, b, k - 1)]
    BY <1>4, <1>6 DEF FullStack
  <2>. QED BY <1>3, <2>1
<1>8. Cell(0, b, n - 1) + t <= PAGE_SIZE
  <2>. PICK d : d = n - 1
    OBVIOUS
  <2>0. d \in Nat /\ n = d + 1
    BY <1>3
  <2>1. d * t \in Nat /\ n * t = d * t + t
    BY <1>1, <2>0, NextMultiple
  <2>2. Cell(0, b, n - 1) = HDR + d * t
    BY <1>1, <2>1 DEF Cell
  <2>. QED BY <1>1, <1>3, <2>0, <2>1, <2>2
<1>. QED BY <1>6, <1>7, <1>8

(* The bit tricks choose the smallest bucket that holds the request, or    *)
(* the big blocks if none does, and a new page for a bucket is threaded    *)
(* from its first to its last cell (kernel/heap.c:284-305, 714-729), for   *)
(* every word and page size.                                               *)
THEOREM NewPagesHold == Spec => []NewPageHoldsRequest
<1>. DEFINE I == size \in Nat \ {0} /\ size < 2^WIDTH
<1>1. Init => I
  <2>. PICK zero : zero = 0
    OBVIOUS
  <2>1. 2 * 2^zero <= 2^WIDTH /\ 2^zero \in Nat \ {0} /\ 2^WIDTH \in Nat
    BY WordAssumption, PowersGrow, PowerType
  <2>. QED BY <2>1 DEF Init
<1>2. I /\ [Next]_size => I'
  BY DEF Next
<1>3. I => NewPageHoldsRequest
  <2>. SUFFICES ASSUME I PROVE NewPageHoldsRequest
    OBVIOUS
  <2>1. /\ BinOf(size) = klmalloc_bin_size(size)
        /\ BinOf(size) < BIG_BIN => BinOf(size) \in Buckets /\ size <= CellSize(BinOf(size))
    BY BucketSmallest
  <2>. QED BY <2>1, CellsLinked DEF NewPageHoldsRequest
<1>. HIDE DEF I
<1>. QED BY <1>1, <1>2, <1>3, PTL DEF Spec

-----------------------------------------------------------------------------
(* The page count of a big block.                                          *)

(* Rounded up to pages, a request fits behind the header with less than a  *)
(* page to spare.                                                          *)
LEMMA PagesHold ==
  ASSUME NEW n \in Nat
  PROVE  /\ BigPages(n) \in Nat
         /\ n + BIG_HDR < BigPages(n) * PAGE_SIZE
         /\ BigPages(n) * PAGE_SIZE <= n + BIG_HDR + PAGE_SIZE
         /\ PAGE_SIZE <= BigPages(n) * PAGE_SIZE
<1>. PICK need, q, r : /\ need = n + BIG_HDR
                       /\ q = need \div PAGE_SIZE /\ r = need % PAGE_SIZE
  OBVIOUS
<1>0. PAGE_SIZE \in Nat \ {0} /\ need \in Nat /\ BIG_HDR \in Nat
  BY LayoutAssumption
<1>1. q \in Nat /\ r \in 0..PAGE_SIZE-1 /\ need = q * PAGE_SIZE + r
  BY <1>0, Divided
<1>2. q * PAGE_SIZE \in Nat /\ (q + 1) * PAGE_SIZE = q * PAGE_SIZE + PAGE_SIZE
  BY <1>0, <1>1, NextMultiple
<1>3. BigPages(n) = q + 1
  BY DEF BigPages
<1>. PICK low, high : low = q * PAGE_SIZE /\ high = (q + 1) * PAGE_SIZE
  OBVIOUS
<1>4. high = low + PAGE_SIZE /\ low \in Nat /\ need = low + r
  BY <1>1, <1>2
<1>5. /\ need < high /\ high <= need + PAGE_SIZE /\ PAGE_SIZE <= high
  BY <1>0, <1>1, <1>4
<1>6. BigPages(n) * PAGE_SIZE = high
  BY <1>3
<1>. QED BY <1>1, <1>3, <1>5, <1>6

(* What does not reach the word's end is not changed by it.                *)
LEMMA NoWrap ==
  ASSUME NEW n \in Nat, n < 2^WIDTH
  PROVE  Word(n) = n
<1>1. 2^WIDTH \in Int
  BY WordAssumption
<1>. PICK end : end = 2^WIDTH
  OBVIOUS
<1>. QED BY <1>1 DEF Word

(* A new big block holds the request, unless the request is within a page  *)
(* and a header of the word's end (kernel/heap.c:796-807).                 *)
THEOREM BigBlocksHold == Spec => []GrowHoldsRequest
<1>1. Init => size \in Nat
  BY DEF Init
<1>2. size \in Nat /\ [Next]_size => (size \in Nat)'
  BY DEF Next
<1>3. size \in Nat => GrowHoldsRequest
  <2>. SUFFICES ASSUME size \in Nat, size + BIG_HDR + PAGE_SIZE < 2^WIDTH
                PROVE  /\ GrowCapacity(size) >= size
                       /\ GrowBytes(size) = GrowCapacity(size) + BIG_HDR
                       /\ GrowBytes(size) = BigPages(size) * PAGE_SIZE
                       /\ GrowCapacity(size) > NUM_BINS
    BY DEF GrowHoldsRequest
  <2>. PICK p, all : p = BigPages(size) /\ all = p * PAGE_SIZE
    OBVIOUS
  <2>0. /\ PAGE_SIZE \in Nat /\ BIG_HDR \in Nat \ {0} /\ NUM_BINS \in Nat
        /\ NUM_BINS + BIG_HDR < PAGE_SIZE /\ 2^WIDTH \in Int
    BY LayoutAssumption, WordAssumption
  <2>1. /\ p \in Nat /\ all \in Nat /\ all = PAGE_SIZE * p
        /\ size + BIG_HDR < all /\ all <= size + BIG_HDR + PAGE_SIZE /\ PAGE_SIZE <= all
    BY <2>0, PagesHold
  <2>2. Word(size + BIG_HDR) = size + BIG_HDR
    <3>1. size + BIG_HDR \in Nat /\ size + BIG_HDR < 2^WIDTH
      BY <2>0
    <3>. QED BY <3>1, NoWrap
  <2>3. GrowPages(size) = p
    BY <2>2 DEF GrowPages, BigPages
  <2>4. GrowBytes(size) = all
    <3>1. all \in Nat /\ all < 2^WIDTH
      BY <2>0, <2>1
    <3>2. Word(all) = all
      BY <3>1, NoWrap
    <3>. QED BY <2>1, <2>3, <3>2 DEF GrowBytes
  <2>5. GrowCapacity(size) = all - BIG_HDR
    <3>1. all - BIG_HDR \in Nat /\ all - BIG_HDR < 2^WIDTH
      BY <2>0, <2>1
    <3>2. Word(all - BIG_HDR) = all - BIG_HDR
      BY <3>1, NoWrap
    <3>. QED BY <2>3, <3>2 DEF GrowCapacity
  <2>. QED BY <2>0, <2>1, <2>4, <2>5
<1>. QED BY <1>1, <1>2, <1>3, PTL DEF Spec

-----------------------------------------------------------------------------
(* The characters of a number.  No prover has " " in it: it is Blank.      *)

Blank == " "
Marks == {" ", "+", "-"}
Numerals == {DigitOf[v] : v \in 1..16}
Glyphs == Numerals \cup Marks \cup {"x"}
Printable == STRING \cup Glyphs

LEMMA MarkFacts == Marks = {Blank, "+", "-"} /\ Blank # "-" /\ "+" # "-"
BY Zenon DEF Marks, Blank

LEMMA DigitTable ==
  /\ DigitOf[1] = "0" /\ DigitOf[2] = "1" /\ DigitOf[3] = "2" /\ DigitOf[4] = "3"
  /\ DigitOf[5] = "4" /\ DigitOf[6] = "5" /\ DigitOf[7] = "6" /\ DigitOf[8] = "7"
  /\ DigitOf[9] = "8" /\ DigitOf[10] = "9" /\ DigitOf[11] = "A" /\ DigitOf[12] = "B"
  /\ DigitOf[13] = "C" /\ DigitOf[14] = "D" /\ DigitOf[15] = "E" /\ DigitOf[16] = "F"
BY DEF DigitOf

LEMMA UpToFifteen ==
  ASSUME NEW v \in 0..15
  PROVE  \/ v = 0 \/ v = 1 \/ v = 2 \/ v = 3 \/ v = 4 \/ v = 5 \/ v = 6 \/ v = 7
         \/ v = 8 \/ v = 9 \/ v = 10 \/ v = 11 \/ v = 12 \/ v = 13 \/ v = 14 \/ v = 15
OBVIOUS

LEMMA DigitsDiffer ==
  ASSUME NEW v \in 0..15, NEW w \in 0..15, DigitOf[v + 1] = DigitOf[w + 1]
  PROVE  v = w
BY DigitTable, UpToFifteen

LEMMA DigitFacts ==
  ASSUME NEW v \in 0..15
  PROVE  DigitOf[v + 1] \in Numerals \ Marks /\ Value(DigitOf[v + 1]) = v
<1>1. DigitOf[v + 1] \in Numerals
  BY v + 1 \in 1..16 DEF Numerals
<1>2. DigitOf[v + 1] \notin Marks
  <2>1. \A c \in {"0", "1", "2", "3", "4", "5", "6", "7", "8", "9", "A", "B", "C", "D", "E", "F"} :
          c \notin Marks
    BY DEF Marks
  <2>2. \/ v = 0 \/ v = 1 \/ v = 2 \/ v = 3 \/ v = 4 \/ v = 5 \/ v = 6 \/ v = 7
        \/ v = 8 \/ v = 9 \/ v = 10 \/ v = 11 \/ v = 12 \/ v = 13 \/ v = 14 \/ v = 15
    OBVIOUS
  <2>. QED BY <2>1, <2>2, DigitTable
<1>3. \A w \in 0..15 : DigitOf[w + 1] = DigitOf[v + 1] => w = v
  BY DigitsDiffer
<1>. QED BY <1>1, <1>2, <1>3 DEF Value

LEMMA NumeralFacts ==
  ASSUME NEW c \in Numerals
  PROVE  c \notin Marks /\ Value(c) \in 0..15
<1>1. PICK v \in 1..16 : c = DigitOf[v]
  BY DEF Numerals
<1>2. v - 1 \in 0..15 /\ (v - 1) + 1 = v
  OBVIOUS
<1>. QED BY <1>1, <1>2, DigitFacts

LEMMA Quotients ==
  ASSUME NEW b \in 2..16, NEW m \in Nat, m >= b
  PROVE  /\ m \div b \in Nat \ {0} /\ m \div b < m /\ 2 * (m \div b) <= m
         /\ m % b \in 0..b-1 /\ m = b * (m \div b) + (m % b)
<1>. PICK q \in Nat, r \in 0..b-1 : q = m \div b /\ r = m % b /\ m = q * b + r
  BY Divided
<1>1. q # 0
  OBVIOUS
<1>2. 2 * q <= q * b
  OBVIOUS
<1>3. q < m /\ 2 * q <= m /\ m = b * q + r
  BY <1>1, <1>2
<1>. QED BY <1>1, <1>3

-----------------------------------------------------------------------------
(* The digits of a word spell it, and are not more than its bits.          *)

DigitRule(d, b, m) ==
  IF m < b THEN <<DigitOf[m + 1]>> ELSE Append(d[m \div b], DigitOf[(m % b) + 1])
IsDigits(d, b, n) == d = [m \in 0..n |-> DigitRule(d, b, m)]

LEMMA DigitsExist ==
  ASSUME NEW b \in 2..16
  PROVE  \A n \in Nat : \E d : IsDigits(d, b, n)
<1>. DEFINE T == {n \in Nat : \E d : IsDigits(d, b, n)}
<1>1. 0 \in T
  <2>. DEFINE d == [m \in 0..0 |-> <<DigitOf[m + 1]>>]
  <2>1. ASSUME NEW m \in 0..0 PROVE DigitRule(d, b, m) = <<DigitOf[m + 1]>>
    BY DEF DigitRule
  <2>. HIDE DEF d
  <2>2. d = [m \in 0..0 |-> DigitRule(d, b, m)]
    BY <2>1 DEF d
  <2>. QED BY <2>2 DEF IsDigits
<1>2. ASSUME NEW k \in Nat, k \in T PROVE k + 1 \in T
  <2>1. PICK d : IsDigits(d, b, k)
    BY <1>2
  <2>. DEFINE e == [m \in 0..k+1 |-> IF m <= k THEN d[m] ELSE DigitRule(d, b, m)]
  <2>2. ASSUME NEW m \in 0..k+1 PROVE e[m] = DigitRule(e, b, m)
    <3>1. CASE m < b
      <4>1. m <= k => d[m] = DigitRule(d, b, m)
        BY <2>1 DEF IsDigits
      <4>2. e[m] = DigitRule(d, b, m)
        BY <4>1
      <4>. QED BY <3>1, <4>2 DEF DigitRule
    <3>2. CASE ~(m < b)
      <4>1. m \div b \in 0..k
        BY <3>2, Quotients
      <4>2. e[m \div b] = d[m \div b]
        BY <4>1
      <4>3. m <= k => d[m] = DigitRule(d, b, m)
        BY <2>1 DEF IsDigits
      <4>4. e[m] = DigitRule(d, b, m)
        BY <4>3
      <4>. HIDE DEF e
      <4>. QED BY <3>2, <4>2, <4>4 DEF DigitRule
    <3>. QED BY <3>1, <3>2
  <2>. DEFINE g == [m \in 0..k+1 |-> DigitRule(e, b, m)]
  <2>3. e = g
    <3>1. e = [m \in 0..k+1 |-> e[m]]
      OBVIOUS
    <3>. HIDE DEF e
    <3>. QED BY <2>2, <3>1
  <2>. HIDE DEF e
  <2>4. IsDigits(e, b, k + 1)
    BY <2>3 DEF IsDigits
  <2>. QED BY <2>4
<1>. HIDE DEF T
<1>3. \A n \in Nat : n \in T
  BY <1>1, <1>2, Inductive
<1>. QED BY <1>3 DEF T

(* From a value in front of them, digits lead to one behind them.          *)
Counts(v, k, b, s) ==
  k \in Nat /\ v[k] = 0 /\ \A j \in 1..Len(s) : v[k + j] = b * v[k + j - 1] + Value(s[j])
Spells(s, b, n) ==
  s \in Seq(Numerals) /\ Len(s) # 0 /\ \A v, k : Counts(v, k, b, s) => v[k + Len(s)] = n
Short(s, n) == \A k \in Nat \ {0} : n < 2^k => Len(s) <= k

LEMMA Spelled ==
  ASSUME NEW s, NEW b, NEW n, Spells(s, b, n)
  PROVE  s \in Seq(Numerals) /\ Len(s) \in Nat \ {0}
BY DEF Spells

LEMMA OneDigit ==
  ASSUME NEW b \in 2..16, NEW m \in 0..b-1
  PROVE  Spells(<<DigitOf[m + 1]>>, b, m) /\ Short(<<DigitOf[m + 1]>>, m)
<1>. PICK c : c = DigitOf[m + 1]
  OBVIOUS
<1>1. c \in Numerals /\ Value(c) = m
  BY DigitFacts
<1>2. <<c>> \in Seq(Numerals) /\ Len(<<c>>) = 1 /\ <<c>>[1] = c
  BY <1>1
<1>3. ASSUME NEW v, NEW k, Counts(v, k, b, <<c>>) PROVE v[k + 1] = m
  <2>1. k \in Nat /\ v[k] = 0 /\ v[k + 1] = b * v[k + 1 - 1] + Value(c)
    BY <1>2, <1>3 DEF Counts
  <2>2. k + 1 - 1 = k
    BY <2>1
  <2>. QED BY <1>1, <2>1, <2>2
<1>. QED BY <1>2, <1>3 DEF Spells, Short

LEMMA OneMoreDigit ==
  ASSUME NEW b \in 2..16, NEW q \in Nat \ {0}, NEW r \in 0..b-1, NEW m \in Nat, m = b * q + r,
         2 * q <= m, NEW s, Spells(s, b, q), Short(s, q)
  PROVE  Spells(Append(s, DigitOf[r + 1]), b, m) /\ Short(Append(s, DigitOf[r + 1]), m)
<1>. PICK c : c = DigitOf[r + 1]
  OBVIOUS
<1>1. c \in Numerals /\ Value(c) = r
  BY DigitFacts
<1>. PICK t : t = Append(s, c)
  OBVIOUS
<1>. PICK n : n = Len(s)
  OBVIOUS
<1>2. s \in Seq(Numerals) /\ n \in Nat \ {0}
  BY Spelled
<1>3. /\ t \in Seq(Numerals) /\ Len(t) = n + 1 /\ t[n + 1] = c
      /\ \A j \in 1..n : t[j] = s[j]
  BY <1>1, <1>2
<1>4. ASSUME NEW v, NEW k, Counts(v, k, b, t) PROVE v[k + (n + 1)] = m
  <2>1. k \in Nat /\ v[k] = 0 /\ \A j \in 1..n+1 : v[k + j] = b * v[k + j - 1] + Value(t[j])
    BY <1>3, <1>4 DEF Counts
  <2>2. Counts(v, k, b, s)
    BY <1>2, <1>3, <2>1 DEF Counts
  <2>3. v[k + n] = q
    BY <2>2 DEF Spells
  <2>4. v[k + (n + 1)] = b * v[k + (n + 1) - 1] + Value(c)
    BY <1>2, <1>3, <2>1
  <2>5. k + (n + 1) - 1 = k + n
    BY <1>2, <2>1
  <2>. QED BY <1>1, <2>3, <2>4, <2>5
<1>5. Spells(t, b, m)
  BY <1>2, <1>3, <1>4 DEF Spells
<1>6. ASSUME NEW k \in Nat \ {0}, m < 2^k PROVE n + 1 <= k
  <2>. PICK j \in Nat : k = j + 1
    <3>1. k - 1 \in Nat /\ k = (k - 1) + 1
      OBVIOUS
    <3>. QED BY <3>1
  <2>1. 2^k = 2 * 2^j /\ 2^j \in Nat
    BY Doubles, PowerType
  <2>2. q < 2^j
    BY <1>6, <2>1
  <2>3. j # 0
    <3>1. j = 0 => 2^j = 1
      OBVIOUS
    <3>. QED BY <2>2, <3>1
  <2>4. Short(s, q) /\ j \in Nat \ {0}
    BY <2>3
  <2>5. n <= j
    BY <2>2, <2>4 DEF Short
  <2>. QED BY <1>2, <2>5
<1>7. Short(t, m)
  BY <1>3, <1>6 DEF Short
<1>. QED BY <1>5, <1>7

LEMMA DigitsSpell ==
  ASSUME NEW b \in 2..16, NEW n \in Nat
  PROVE  Spells(Digits(n, b), b, n) /\ Short(Digits(n, b), n)
<1>. PICK f : f = CHOOSE d : IsDigits(d, b, n)
  OBVIOUS
<1>1. IsDigits(f, b, n)
  BY DigitsExist
<1>2. Digits(n, b) = f[n]
  BY DEF Digits, IsDigits, DigitRule
<1>3. \A m \in 0..n : f[m] = DigitRule(f, b, m)
  BY <1>1 DEF IsDigits
<1>. DEFINE Good(m) == Spells(f[m], b, m) /\ Short(f[m], m)
            T == {m \in 0..n : ~Good(m)}
<1>4. ASSUME T # {} PROVE FALSE
  <2>1. T \subseteq Nat
    OBVIOUS
  <2>2. PICK m \in T : \A k \in T : ~(k < m)
    <3>. HIDE DEF T
    <3>. QED BY <1>4, <2>1, Smallest
  <2>3. m \in 0..n /\ ~Good(m) /\ \A k \in 0..n : k < m => Good(k)
    BY <2>2
  <2>. HIDE DEF T
  <2>4. CASE m < b
    <3>1. f[m] = <<DigitOf[m + 1]>>
      BY <1>3, <2>3, <2>4 DEF DigitRule
    <3>2. m \in 0..b-1
      BY <2>3, <2>4
    <3>. QED BY <2>3, <3>1, <3>2, OneDigit
  <2>5. CASE ~(m < b)
    <3>. PICK q, r : q = m \div b /\ r = m % b
      OBVIOUS
    <3>1. f[m] = Append(f[q], DigitOf[r + 1])
      BY <1>3, <2>3, <2>5 DEF DigitRule
    <3>2. m \in Nat /\ m >= b
      BY <2>3, <2>5
    <3>3. /\ q \in Nat \ {0} /\ q < m /\ 2 * q <= m
          /\ r \in 0..b-1 /\ m = b * q + r
      BY <3>2, Quotients
    <3>4. Good(q)
      BY <2>3, <3>3
    <3>. PICK s : s = f[q]
      OBVIOUS
    <3>5. Spells(s, b, q) /\ Short(s, q)
      BY <3>4
    <3>6. Good(m)
      BY <3>1, <3>2, <3>3, <3>5, OneMoreDigit
    <3>. QED BY <2>3, <3>6
  <2>. QED BY <2>4, <2>5
<1>5. Good(n)
  <2>1. n \in 0..n
    OBVIOUS
  <2>. HIDE DEF Good
  <2>. QED BY <1>4, <2>1
<1>. QED BY <1>2, <1>5

-----------------------------------------------------------------------------
(* Fillings.                                                               *)

LEMMA Joined ==
  ASSUME NEW S, NEW s \in Seq(S), NEW t \in Seq(S)
  PROVE  /\ s \o t \in Seq(S) /\ Len(s) \in Nat /\ Len(t) \in Nat
         /\ Len(s \o t) = Len(s) + Len(t)
         /\ \A j \in 1..Len(s) : (s \o t)[j] = s[j]
         /\ \A j \in 1..Len(t) : (s \o t)[Len(s) + j] = t[j]
OBVIOUS

LEMMA WiderSeq ==
  ASSUME NEW S, NEW T, S \subseteq T, NEW s \in Seq(S)
  PROVE  s \in Seq(T)
BY SeqMonotonic

LEMMA Filled ==
  ASSUME NEW c, NEW n \in Int
  PROVE  /\ Fill(c, n) \in Seq({c}) /\ Len(Fill(c, n)) = AtLeast(0, n)
         /\ \A j \in 1..Len(Fill(c, n)) : Fill(c, n)[j] = c
<1>. PICK m : m = AtLeast(0, n)
  OBVIOUS
<1>1. m \in Nat /\ 1..n = 1..m
  BY DEF AtLeast
<1>. PICK f : f = Fill(c, n)
  OBVIOUS
<1>2. f = [pos \in 1..m |-> c]
  BY <1>1 DEF Fill
<1>3. f \in Seq({c}) /\ Len(f) = m
  BY <1>1, <1>2, IsASeq
<1>. QED BY <1>2, <1>3

LEMMA NothingFilled ==
  ASSUME NEW c, NEW n \in Int, n <= 0
  PROVE  Fill(c, n) = <<>>
<1>1. Len(Fill(c, n)) = 0 /\ Fill(c, n) \in Seq({c})
  BY Filled DEF AtLeast
<1>. QED BY <1>1, EmptySeq

(* Zeros in front of digits change nothing.                                *)
LEMMA ZerosSpell ==
  ASSUME NEW b \in 2..16, NEW n \in Nat, NEW s, Spells(s, b, n), NEW z \in Int
  PROVE  Spells(Fill("0", z) \o s, b, n)
<1>. PICK f : f = Fill("0", z)
  OBVIOUS
<1>. PICK p : p = Len(f)
  OBVIOUS
<1>. PICK q : q = Len(s)
  OBVIOUS
<1>0. "0" \in Numerals /\ Value("0") = 0
  <2>1. DigitOf[0 + 1] \in Numerals /\ Value(DigitOf[0 + 1]) = 0
    BY DigitFacts
  <2>2. DigitOf[0 + 1] = "0"
    BY DigitTable
  <2>. QED BY <2>1, <2>2
<1>1. f \in Seq({"0"}) /\ p \in Nat /\ \A j \in 1..p : f[j] = "0"
  BY Filled DEF AtLeast
<1>2. f \in Seq(Numerals)
  <2>1. {"0"} \subseteq Numerals
    BY <1>0
  <2>. QED BY <1>1, <2>1, WiderSeq
<1>3. s \in Seq(Numerals) /\ q \in Nat \ {0}
  BY Spelled
<1>. PICK t : t = f \o s
  OBVIOUS
<1>4. /\ t \in Seq(Numerals) /\ Len(t) = p + q
      /\ \A j \in 1..p : t[j] = "0"
      /\ \A j \in 1..q : t[p + j] = s[j]
  BY <1>1, <1>2, <1>3, Joined
<1>5. ASSUME NEW v, NEW k, Counts(v, k, b, t) PROVE v[k + (p + q)] = n
  <2>1. k \in Nat /\ v[k] = 0 /\ \A j \in 1..p+q : v[k + j] = b * v[k + j - 1] + Value(t[j])
    BY <1>4, <1>5 DEF Counts
  <2>. DEFINE T == {pos \in Nat : pos <= p => v[k + pos] = 0}
  <2>2. 0 \in T
    BY <2>1
  <2>3. ASSUME NEW pos \in Nat, pos \in T PROVE pos + 1 \in T
    <3>. SUFFICES ASSUME pos + 1 <= p PROVE v[k + (pos + 1)] = 0
      OBVIOUS
    <3>1. v[k + pos] = 0
      BY <1>1, <2>3
    <3>2. pos + 1 \in 1..p /\ pos + 1 \in 1..p+q /\ k + (pos + 1) - 1 = k + pos
      BY <1>1, <1>3, <2>1
    <3>3. v[k + (pos + 1)] = b * v[k + (pos + 1) - 1] + Value(t[pos + 1])
      BY <2>1, <3>2
    <3>4. Value(t[pos + 1]) = 0
      BY <1>0, <1>4, <3>2
    <3>. QED BY <3>1, <3>2, <3>3, <3>4
  <2>. HIDE DEF T
  <2>4. p \in T
    BY <1>1, <2>2, <2>3, Inductive
  <2>5. v[k + p] = 0
    BY <1>1, <2>4 DEF T
  <2>6. Counts(v, k + p, b, s)
    <3>1. k + p \in Nat
      BY <1>1, <2>1
    <3>2. ASSUME NEW j \in 1..q PROVE v[(k + p) + j] = b * v[(k + p) + j - 1] + Value(s[j])
      <4>1. p + j \in 1..p+q /\ k + (p + j) = (k + p) + j /\ k + (p + j) - 1 = (k + p) + j - 1
        BY <1>1, <1>3, <2>1
      <4>2. v[k + (p + j)] = b * v[k + (p + j) - 1] + Value(t[p + j])
        BY <2>1, <4>1
      <4>3. t[p + j] = s[j]
        BY <1>4
      <4>. QED BY <4>1, <4>2, <4>3
    <3>. QED BY <2>5, <3>1, <3>2 DEF Counts
  <2>7. v[(k + p) + q] = n
    BY <2>6 DEF Spells
  <2>8. (k + p) + q = k + (p + q)
    BY <1>1, <1>3, <2>1
  <2>. QED BY <2>7, <2>8
<1>6. Len(t) # 0
  BY <1>1, <1>3, <1>4
<1>. QED BY <1>4, <1>5, <1>6 DEF Spells

(* What reading a number adds up, character by character.                  *)
Horner(v, w, b, first, hi) ==
  v = [j \in first-1 .. hi |-> IF j < first THEN 0 ELSE b * v[j-1] + Value(w[j])]

LEMMA HornerExists ==
  ASSUME NEW w, NEW b \in Int, NEW first \in Int
  PROVE  \A n \in Nat : \E v : Horner(v, w, b, first, first - 1 + n)
<1>. DEFINE T == {n \in Nat : \E v : Horner(v, w, b, first, first - 1 + n)}
<1>1. 0 \in T
  <2>. DEFINE v == [j \in first-1 .. first-1+0 |-> 0]
  <2>. DEFINE g == [j \in first-1 .. first-1+0 |-> IF j < first THEN 0 ELSE b * v[j-1] + Value(w[j])]
  <2>1. \A j \in first-1 .. first-1+0 : j < first
    OBVIOUS
  <2>2. v = g
    <3>1. \A j \in first-1 .. first-1+0 : v[j] = g[j]
      BY <2>1
    <3>. QED BY <3>1
  <2>. HIDE DEF v
  <2>3. Horner(v, w, b, first, first - 1 + 0)
    BY <2>2 DEF Horner
  <2>. QED BY <2>3
<1>2. ASSUME NEW n \in Nat, n \in T PROVE n + 1 \in T
  <2>1. PICK v : Horner(v, w, b, first, first - 1 + n)
    BY <1>2
  <2>. PICK hi \in Int : hi = first - 1 + n
    OBVIOUS
  <2>2. first - 1 + (n + 1) = hi + 1 /\ first - 1 <= hi
    OBVIOUS
  <2>. DEFINE e == [j \in first-1 .. hi+1 |-> IF j <= hi THEN v[j] ELSE b * v[hi] + Value(w[j])]
              g == [j \in first-1 .. hi+1 |-> IF j < first THEN 0 ELSE b * e[j-1] + Value(w[j])]
  <2>3. ASSUME NEW j \in first-1 .. hi+1 PROVE e[j] = g[j]
    <3>1. CASE j <= hi
      <4>1. v[j] = IF j < first THEN 0 ELSE b * v[j-1] + Value(w[j])
        BY <2>1, <3>1 DEF Horner
      <4>2. ~(j < first) => e[j-1] = v[j-1]
        <5>1. ~(j < first) => j - 1 \in first-1 .. hi+1 /\ j - 1 <= hi
          BY <3>1
        <5>. QED BY <5>1
      <4>3. e[j] = v[j]
        BY <3>1
      <4>. HIDE DEF e
      <4>. QED BY <4>1, <4>2, <4>3
    <3>2. CASE j = hi + 1
      <4>1. ~(j <= hi) /\ ~(j < first) /\ j - 1 = hi /\ hi \in first-1 .. hi+1
        BY <2>2, <3>2
      <4>2. e[j] = b * v[hi] + Value(w[j]) /\ e[hi] = v[hi]
        BY <4>1
      <4>. HIDE DEF e
      <4>. QED BY <4>1, <4>2
    <3>. QED BY <3>1, <3>2
  <2>4. e = g
    <3>1. e = [j \in first-1 .. hi+1 |-> e[j]] /\ g = [j \in first-1 .. hi+1 |-> g[j]]
      OBVIOUS
    <3>. HIDE DEF e, g
    <3>. QED BY <2>3, <3>1
  <2>. HIDE DEF e
  <2>5. Horner(e, w, b, first, hi + 1)
    BY <2>4 DEF Horner
  <2>. QED BY <2>2, <2>5
<1>. HIDE DEF T
<1>3. \A n \in Nat : n \in T
  BY <1>1, <1>2, Inductive
<1>. QED BY <1>3 DEF T

-----------------------------------------------------------------------------
(* Marks, a prefix, digits and blanks are read as the number they spell.   *)

HasMinus(t) == \E j \in 1..Len(t) : t[j] = "-"

Laid(t, lead, pre, digits, rear, b, m) ==
  /\ t = ((lead \o pre) \o digits) \o rear
  /\ lead \in Seq(Marks)
  /\ pre \in Seq(Glyphs) /\ \A j \in 1..Len(pre) : pre[j] \notin Marks
  /\ Spells(digits, b, m)
  /\ rear \in Seq({Blank})

Found(t, from, to, lo, b, m) ==
  /\ t \in Seq(Glyphs)
  /\ from \in 1..Len(t) /\ t[from] \notin Marks /\ \A j \in 1..from-1 : t[j] \in Marks
  /\ to \in from..Len(t) /\ t[to] \notin Marks /\ \A j \in to+1..Len(t) : t[j] = Blank
  /\ lo \in from-1..to-1 /\ \A v : Horner(v, t, b, lo + 1, to) => v[to] = m

LEMMA GlyphSets == Numerals \subseteq Glyphs /\ Marks \subseteq Glyphs /\ {Blank} \subseteq Marks
BY MarkFacts DEF Glyphs

LEMMA TextRead ==
  ASSUME NEW t, NEW lead, NEW pre, NEW digits, NEW rear, NEW b, NEW m,
         Laid(t, lead, pre, digits, rear, b, m)
  PROVE  /\ Found(t, Len(lead) + 1, Len(lead) + Len(pre) + Len(digits), Len(lead) + Len(pre), b, m)
         /\ HasMinus(t) <=> HasMinus(lead)
<1>. PICK l, p, q, r : l = Len(lead) /\ p = Len(pre) /\ q = Len(digits) /\ r = Len(rear)
  OBVIOUS
<1>1. /\ lead \in Seq(Marks) /\ rear \in Seq({Blank})
      /\ pre \in Seq(Glyphs) /\ digits \in Seq(Numerals)
      /\ l \in Nat /\ p \in Nat /\ q \in Nat \ {0} /\ r \in Nat
  BY Spelled DEF Laid
<1>2. /\ lead \in Seq(Glyphs) /\ digits \in Seq(Glyphs) /\ rear \in Seq(Glyphs)
  <2>1. rear \in Seq(Marks)
    BY <1>1, GlyphSets, WiderSeq
  <2>. QED BY <1>1, <2>1, GlyphSets, WiderSeq
<1>3. /\ \A j \in 1..l : lead[j] \in Marks
      /\ \A j \in 1..p : pre[j] \notin Marks
      /\ \A j \in 1..q : digits[j] \notin Marks
      /\ \A j \in 1..r : rear[j] = Blank
  <2>1. \A j \in 1..q : digits[j] \in Numerals
    BY <1>1
  <2>2. \A j \in 1..q : digits[j] \notin Marks
    BY <2>1, NumeralFacts
  <2>. QED BY <1>1, <2>2 DEF Laid
<1>. PICK hp, hd : hp = lead \o pre /\ hd = hp \o digits
  OBVIOUS
<1>4. /\ hp \in Seq(Glyphs) /\ Len(hp) = l + p
      /\ \A j \in 1..l : hp[j] = lead[j]
      /\ \A j \in 1..p : hp[l + j] = pre[j]
  BY <1>1, <1>2, Joined
<1>5. /\ hd \in Seq(Glyphs) /\ Len(hd) = (l + p) + q
      /\ \A j \in 1..l+p : hd[j] = hp[j]
      /\ \A j \in 1..q : hd[(l + p) + j] = digits[j]
  BY <1>1, <1>2, <1>4, Joined
<1>6. t = hd \o rear
  BY DEF Laid
<1>7. /\ t \in Seq(Glyphs) /\ Len(t) = ((l + p) + q) + r
      /\ \A j \in 1..(l+p)+q : t[j] = hd[j]
      /\ \A j \in 1..r : t[((l + p) + q) + j] = rear[j]
  BY <1>1, <1>2, <1>5, <1>6, Joined
<1>8. ASSUME NEW j \in 1..l PROVE t[j] = lead[j]
  <2>1. j \in 1..l+p /\ j \in 1..(l+p)+q
    BY <1>1
  <2>. QED BY <1>4, <1>5, <1>7, <2>1
<1>9. ASSUME NEW j \in 1..p PROVE t[l + j] = pre[j]
  <2>1. l + j \in 1..l+p /\ l + j \in 1..(l+p)+q
    BY <1>1
  <2>. QED BY <1>4, <1>5, <1>7, <2>1
<1>10. ASSUME NEW j \in 1..q PROVE t[(l + p) + j] = digits[j]
  <2>1. (l + p) + j \in 1..(l+p)+q
    BY <1>1
  <2>. QED BY <1>5, <1>7, <2>1
<1>11. \A j \in l+1..(l+p)+q : t[j] \notin Marks
  <2>. TAKE j \in l+1..(l+p)+q
  <2>1. CASE j <= l + p
    <3>. PICK pos \in 1..p : j = l + pos
      <4>1. j - l \in 1..p /\ j = l + (j - l)
        BY <1>1, <2>1
      <4>. QED BY <4>1
    <3>. QED BY <1>3, <1>9
  <2>2. CASE ~(j <= l + p)
    <3>. PICK pos \in 1..q : j = (l + p) + pos
      <4>1. j - (l + p) \in 1..q /\ j = (l + p) + (j - (l + p))
        BY <1>1, <2>2
      <4>. QED BY <4>1
    <3>. QED BY <1>3, <1>10
  <2>. QED BY <2>1, <2>2
<1>12. \A j \in ((l+p)+q)+1..Len(t) : t[j] = Blank
  <2>. TAKE j \in ((l+p)+q)+1..Len(t)
  <2>. PICK pos \in 1..r : j = ((l + p) + q) + pos
    <3>1. j - ((l + p) + q) \in 1..r /\ j = ((l + p) + q) + (j - ((l + p) + q))
      BY <1>1, <1>7
    <3>. QED BY <3>1
  <2>. QED BY <1>3, <1>7
<1>13. ASSUME NEW v, Horner(v, t, b, (l + p) + 1, (l + p) + q) PROVE v[(l + p) + q] = m
  <2>. PICK k \in Nat : k = l + p
    BY <1>1
  <2>1. \A j \in (k+1)-1 .. k+q :
          v[j] = IF j < k + 1 THEN 0 ELSE b * v[j-1] + Value(t[j])
    BY <1>13 DEF Horner
  <2>2. v[k] = 0
    <3>1. k \in (k+1)-1 .. k+q /\ k < k + 1
      BY <1>1
    <3>. QED BY <2>1, <3>1
  <2>3. ASSUME NEW j \in 1..q PROVE v[k + j] = b * v[k + j - 1] + Value(digits[j])
    <3>. PICK x : x = k + j
      OBVIOUS
    <3>1. x \in (k+1)-1 .. k+q /\ ~(x < k + 1)
      BY <1>1
    <3>2. v[x] = b * v[x-1] + Value(t[x])
      BY <2>1, <3>1
    <3>3. t[k + j] = digits[j]
      BY <1>10
    <3>. QED BY <3>2, <3>3
  <2>4. Counts(v, k, b, digits)
    BY <2>2, <2>3 DEF Counts
  <2>5. v[k + q] = m
    BY <2>4 DEF Laid, Spells
  <2>. QED BY <2>5
<1>14. Found(t, l + 1, (l + p) + q, l + p, b, m)
  <2>1. /\ l + 1 \in 1..Len(t) /\ (l + p) + q \in l+1..Len(t) /\ l + p \in (l+1)-1..((l+p)+q)-1
        /\ l + 1 \in l+1..(l+p)+q /\ (l + p) + q \in l+1..(l+p)+q
    BY <1>1, <1>7
  <2>2. \A j \in 1..(l+1)-1 : t[j] \in Marks
    <3>1. \A j \in 1..(l+1)-1 : j \in 1..l
      BY <1>1
    <3>. QED BY <1>3, <1>8, <3>1
  <2>. QED BY <1>7, <1>11, <1>12, <1>13, <2>1, <2>2 DEF Found
<1>15. ASSUME HasMinus(t) PROVE HasMinus(lead)
  <2>1. PICK j \in 1..Len(t) : t[j] = "-"
    BY <1>15 DEF HasMinus
  <2>2. j \in 1..l \/ j \in l+1..(l+p)+q \/ j \in ((l+p)+q)+1..Len(t)
    BY <1>1, <1>7
  <2>3. "-" \in Marks /\ "-" # Blank
    BY MarkFacts
  <2>4. j \in 1..l
    BY <1>11, <1>12, <2>1, <2>2, <2>3
  <2>5. lead[j] = "-"
    BY <1>8, <2>1, <2>4
  <2>. QED BY <2>4, <2>5 DEF HasMinus
<1>16. ASSUME HasMinus(lead) PROVE HasMinus(t)
  <2>1. PICK j \in 1..l : lead[j] = "-"
    BY <1>16 DEF HasMinus
  <2>2. t[j] = "-" /\ j \in 1..Len(t)
    BY <1>1, <1>7, <1>8, <2>1
  <2>. QED BY <2>2 DEF HasMinus
<1>. QED BY <1>14, <1>15, <1>16

-----------------------------------------------------------------------------
(* Where the number of a text starts and ends, and what it is.             *)

NumberStart(t) == CHOOSE pos \in 1..Len(t) : t[pos] \notin Marks /\ \A j \in 1..pos-1 : t[j] \in Marks
NumberEnd(t, from) ==
  CHOOSE pos \in from..Len(t) : t[pos] # Blank /\ \A j \in pos+1 .. Len(t) : t[j] = Blank
NumberFirst(t, b, flags) ==
  IF "SPECIAL" \in flags /\ b = 16 THEN NumberStart(t) + 2 ELSE NumberStart(t)
ReadFrom(t, b, first, to) == (CHOOSE v : Horner(v, t, b, first, to))[to]

LEMMA StartIs ==
  ASSUME NEW t, NEW from, NEW to, NEW lo, NEW b, NEW m, Found(t, from, to, lo, b, m)
  PROVE  NumberStart(t) = from
<1>1. /\ t \in Seq(Glyphs) /\ Len(t) \in Nat
      /\ from \in 1..Len(t) /\ t[from] \notin Marks /\ \A j \in 1..from-1 : t[j] \in Marks
  BY DEF Found
<1>. DEFINE S(pos) == t[pos] \notin Marks /\ \A j \in 1..pos-1 : t[j] \in Marks
<1>2. ASSUME NEW pos \in 1..Len(t), S(pos) PROVE pos = from
  <2>1. ~(from \in 1..pos-1) /\ ~(pos \in 1..from-1)
    BY <1>1, <1>2
  <2>. QED BY <1>1, <2>1
<1>3. S(from)
  BY <1>1
<1>4. NumberStart(t) = CHOOSE pos \in 1..Len(t) : S(pos)
  BY DEF NumberStart
<1>. HIDE DEF S
<1>. QED BY <1>1, <1>2, <1>3, <1>4

LEMMA EndIs ==
  ASSUME NEW t, NEW from, NEW to, NEW lo, NEW b, NEW m, Found(t, from, to, lo, b, m)
  PROVE  NumberEnd(t, from) = to
<1>1. /\ t \in Seq(Glyphs) /\ Len(t) \in Nat /\ from \in 1..Len(t)
      /\ to \in from..Len(t) /\ t[to] # Blank /\ \A j \in to+1..Len(t) : t[j] = Blank
  BY MarkFacts DEF Found
<1>. DEFINE S(pos) == t[pos] # Blank /\ \A j \in pos+1 .. Len(t) : t[j] = Blank
<1>2. ASSUME NEW pos \in from..Len(t), S(pos) PROVE pos = to
  <2>1. ~(to \in pos+1..Len(t)) /\ ~(pos \in to+1..Len(t))
    BY <1>1, <1>2
  <2>. QED BY <1>1, <2>1
<1>3. S(to)
  BY <1>1
<1>4. NumberEnd(t, from) = CHOOSE pos \in from..Len(t) : S(pos)
  BY DEF NumberEnd
<1>. HIDE DEF S
<1>. QED BY <1>1, <1>2, <1>3, <1>4

LEMMA ReadIs ==
  ASSUME NEW t, NEW from, NEW to, NEW lo, NEW b \in Int, NEW m, Found(t, from, to, lo, b, m)
  PROVE  ReadFrom(t, b, lo + 1, to) = m
<1>1. lo \in from-1..to-1 /\ from \in 1..Len(t) /\ to \in from..Len(t) /\ Len(t) \in Nat
  BY DEF Found
<1>2. to - lo \in Nat /\ (lo + 1) - 1 + (to - lo) = to /\ lo + 1 \in Int
  BY <1>1
<1>3. \E v : Horner(v, t, b, lo + 1, (lo + 1) - 1 + (to - lo))
  BY <1>2, HornerExists
<1>4. \E v : Horner(v, t, b, lo + 1, to)
  BY <1>2, <1>3
<1>. PICK w : w = CHOOSE v : Horner(v, t, b, lo + 1, to)
  OBVIOUS
<1>5. Horner(w, t, b, lo + 1, to)
  BY <1>4
<1>6. w[to] = m
  BY <1>5 DEF Found
<1>. QED BY <1>6 DEF ReadFrom

-----------------------------------------------------------------------------
(* number writes a sign, a prefix and the magnitude's digits.              *)

LEMMA NegatedWord ==
  ASSUME NEW t \in Nat \ {0}, NEW n \in 1..t
  PROVE  (-n) % t = t - n
OBVIOUS

LEMMA WordFacts ==
  /\ BITS \in Nat \ {0} /\ 2^BITS \in Nat \ {0} /\ Words = 0..2^BITS-1
  /\ \A n \in Words : Negative(n) => n # 0
<1>1. BITS \in Nat \ {0} /\ BITS - 1 \in Nat
  BY FormatAssumption
<1>2. 2^BITS \in Nat \ {0} /\ 2^(BITS - 1) \in Nat \ {0}
  BY <1>1, PowerType
<1>3. \A n \in Words : Negative(n) => n # 0
  BY <1>2 DEF Negative
<1>. QED BY <1>1, <1>2, <1>3 DEF Words

LEMMA MagnitudeFacts ==
  ASSUME NEW n \in Words, NEW T
  PROVE  /\ Magnitude(n, T) \in Nat /\ Magnitude(n, T) < 2^BITS
         /\ Magnitude(n, T) = IF "SIGN" \in T /\ Negative(n) THEN 2^BITS - n ELSE n
<1>. PICK t : t = 2^BITS
  OBVIOUS
<1>1. t \in Nat \ {0} /\ n \in 0..t-1 /\ (Negative(n) => n # 0)
  BY WordFacts
<1>2. CASE "SIGN" \in T /\ Negative(n)
  <2>1. n \in 1..t
    BY <1>1, <1>2
  <2>2. (-n) % t = t - n /\ t - n \in Nat /\ t - n < t
    <3>1. (-n) % t = t - n
      BY <1>1, <2>1, NegatedWord, Zenon
    <3>2. t - n \in Nat /\ t - n < t
      BY <1>1, <2>1
    <3>. QED BY <3>1, <3>2
  <2>3. Magnitude(n, T) = (-n) % 2^BITS
    BY <1>2, Zenon DEF Magnitude
  <2>. QED BY <1>2, <2>2, <2>3
<1>3. CASE ~("SIGN" \in T /\ Negative(n))
  BY <1>1, <1>3 DEF Magnitude
<1>. QED BY <1>2, <1>3

Ahead(n, b, T) == Sign(n, T) \o Prefix(b, T)
Body(n, b, p, T) ==
  Fill("0", p - Len(Digits(Magnitude(n, T), b))) \o Digits(Magnitude(n, T), b)
Room(n, b, w, p, T) == w - Len(Ahead(n, b, T)) - Len(Body(n, b, p, T))

LEMMA NumberIs ==
  ASSUME NEW n, NEW b, NEW w, NEW p, NEW T
  PROVE  /\ "LEFT" \in T =>
              number(n, b, w, p, T)
                = (Ahead(n, b, T) \o Body(n, b, p, T)) \o Fill(Blank, Room(n, b, w, p, T))
         /\ "LEFT" \notin T /\ "ZEROPAD" \in T =>
              number(n, b, w, p, T)
                = (Ahead(n, b, T) \o Fill("0", Room(n, b, w, p, T))) \o Body(n, b, p, T)
         /\ "LEFT" \notin T /\ "ZEROPAD" \notin T =>
              number(n, b, w, p, T)
                = (Fill(Blank, Room(n, b, w, p, T)) \o Ahead(n, b, T)) \o Body(n, b, p, T)
BY Zenon DEF number, Ahead, Body, Room, Blank

LEMMA SignIs ==
  ASSUME NEW n, NEW T
  PROVE  Sign(n, T) = IF "SIGN" \in T /\ Negative(n) THEN <<"-">>
                      ELSE IF "PLUS" \in T THEN <<"+">>
                      ELSE IF "SPACE" \in T THEN <<Blank>>
                      ELSE <<>>
BY Zenon DEF Sign, Blank

LEMMA SignFacts ==
  ASSUME NEW n, NEW T
  PROVE  /\ Sign(n, T) \in Seq(Marks)
         /\ HasMinus(Sign(n, T)) <=> "SIGN" \in T /\ Negative(n)
<1>1. ASSUME NEW c \in Marks
      PROVE  <<c>> \in Seq(Marks) /\ (HasMinus(<<c>>) <=> c = "-")
  <2>1. Len(<<c>>) = 1 /\ <<c>>[1] = c /\ <<c>> \in Seq(Marks)
    OBVIOUS
  <2>. QED BY <2>1 DEF HasMinus
<1>2. "-" \in Marks /\ "+" \in Marks /\ Blank \in Marks /\ "+" # "-" /\ Blank # "-"
  BY MarkFacts
<1>3. <<>> \in Seq(Marks) /\ ~HasMinus(<<>>)
  BY DEF HasMinus
<1>4. CASE "SIGN" \in T /\ Negative(n)
  <2>1. Sign(n, T) = <<"-">>
    BY <1>4, SignIs
  <2>. QED BY <1>1, <1>2, <1>4, <2>1
<1>5. CASE ~("SIGN" \in T /\ Negative(n))
  <2>1. Sign(n, T) = <<"+">> \/ Sign(n, T) = <<Blank>> \/ Sign(n, T) = <<>>
    BY <1>5, SignIs
  <2>2. Sign(n, T) \in Seq(Marks) /\ ~HasMinus(Sign(n, T))
    BY <1>1, <1>2, <1>3, <2>1
  <2>. QED BY <1>5, <2>2
<1>. QED BY <1>4, <1>5

LEMMA PrefixFacts ==
  ASSUME NEW b, NEW T
  PROVE  /\ Prefix(b, T) \in Seq(Glyphs)
         /\ \A j \in 1..Len(Prefix(b, T)) : Prefix(b, T)[j] \notin Marks
         /\ \/ Prefix(b, T) = <<"0">> /\ b = 8
            \/ Len(Prefix(b, T)) = IF "SPECIAL" \in T /\ b = 16 THEN 2 ELSE 0
<1>1. "0" \in Glyphs \ Marks /\ "x" \in Glyphs \ Marks
  <2>1. DigitOf[0 + 1] \in Numerals \ Marks
    BY DigitFacts
  <2>2. DigitOf[0 + 1] = "0"
    BY DigitTable
  <2>3. "x" \notin Marks
    BY DEF Marks
  <2>. QED BY <2>1, <2>2, <2>3 DEF Glyphs
<1>2. CASE Prefix(b, T) = <<"0">> /\ b = 8
  BY <1>1, <1>2
<1>3. CASE Prefix(b, T) = <<"0", "x">> /\ "SPECIAL" \in T /\ b = 16
  <2>. PICK s : s = <<"0", "x">>
    OBVIOUS
  <2>1. Len(s) = 2 /\ s[1] = "0" /\ s[2] = "x" /\ s \in Seq(Glyphs)
    BY <1>1
  <2>2. \A j \in 1..2 : s[j] \notin Marks
    BY <1>1, <2>1
  <2>. QED BY <1>3, <2>1, <2>2
<1>4. CASE Prefix(b, T) = <<>> /\ ~("SPECIAL" \in T /\ b = 16)
  BY <1>4
<1>5. \/ Prefix(b, T) = <<"0">> /\ b = 8
      \/ Prefix(b, T) = <<"0", "x">> /\ "SPECIAL" \in T /\ b = 16
      \/ Prefix(b, T) = <<>> /\ ~("SPECIAL" \in T /\ b = 16)
  BY DEF Prefix
<1>. QED BY <1>2, <1>3, <1>4, <1>5

LEMMA BodyFacts ==
  ASSUME NEW n \in Words, NEW b \in 2..16, NEW p \in Int, NEW T
  PROVE  Spells(Body(n, b, p, T), b, Magnitude(n, T))
<1>. PICK m : m = Magnitude(n, T)
  OBVIOUS
<1>1. m \in Nat
  BY MagnitudeFacts
<1>. PICK s : s = Digits(m, b)
  OBVIOUS
<1>2. Spells(s, b, m)
  BY <1>1, DigitsSpell
<1>3. p - Len(s) \in Int
  BY <1>2, Spelled
<1>4. Spells(Fill("0", p - Len(s)) \o s, b, m)
  BY <1>1, <1>2, <1>3, ZerosSpell
<1>. QED BY <1>4 DEF Body

LEMMA GlyphText ==
  ASSUME NEW n \in Words, NEW b \in 2..16, NEW w \in Int, NEW p \in Int, NEW T
  PROVE  /\ Ahead(n, b, T) \in Seq(Glyphs) /\ Body(n, b, p, T) \in Seq(Glyphs)
         /\ Room(n, b, w, p, T) \in Int
<1>. PICK s, x, body : s = Sign(n, T) /\ x = Prefix(b, T) /\ body = Body(n, b, p, T)
  OBVIOUS
<1>1. s \in Seq(Marks) /\ x \in Seq(Glyphs) /\ body \in Seq(Numerals)
  BY SignFacts, PrefixFacts, BodyFacts, Spelled
<1>2. s \in Seq(Glyphs) /\ body \in Seq(Glyphs)
  BY <1>1, GlyphSets, WiderSeq
<1>3. s \o x \in Seq(Glyphs) /\ Len(s \o x) \in Nat /\ Len(body) \in Nat
  BY <1>1, <1>2, Joined
<1>. QED BY <1>2, <1>3 DEF Ahead, Room

LEMMA Associates ==
  ASSUME NEW r \in Seq(Glyphs), NEW s \in Seq(Glyphs), NEW t \in Seq(Glyphs)
  PROVE  (r \o s) \o t = r \o (s \o t)
BY ConcatAssociative

LEMMA NothingAhead ==
  ASSUME NEW s \in Seq(Glyphs)
  PROVE  s \o <<>> = s
BY ConcatEmptySeq

LEMMA NumberText ==
  ASSUME NEW n \in Words, NEW b \in 2..16, NEW w \in Int, NEW p \in Int, NEW T
  PROVE  \E lead, digits, rear :
           /\ Laid(number(n, b, w, p, T), lead, Prefix(b, T), digits, rear, b, Magnitude(n, T))
           /\ HasMinus(lead) <=> "SIGN" \in T /\ Negative(n)
<1>. PICK t, s, x, body, room, m :
       /\ t = number(n, b, w, p, T) /\ s = Sign(n, T) /\ x = Prefix(b, T)
       /\ body = Body(n, b, p, T) /\ room = Room(n, b, w, p, T) /\ m = Magnitude(n, T)
  OBVIOUS
<1>1. /\ s \in Seq(Marks) /\ (HasMinus(s) <=> "SIGN" \in T /\ Negative(n))
      /\ x \in Seq(Glyphs) /\ \A j \in 1..Len(x) : x[j] \notin Marks
      /\ Spells(body, b, m) /\ room \in Int /\ m \in Nat
  BY SignFacts, PrefixFacts, BodyFacts, GlyphText, MagnitudeFacts
<1>2. s \in Seq(Glyphs) /\ body \in Seq(Glyphs) /\ s \o x \in Seq(Glyphs)
  <2>1. body \in Seq(Numerals)
    BY <1>1, Spelled
  <2>2. s \in Seq(Glyphs) /\ body \in Seq(Glyphs)
    BY <1>1, <2>1, GlyphSets, WiderSeq
  <2>. QED BY <1>1, <2>2, Joined
<1>3. CASE "LEFT" \in T
  <2>. PICK rear : rear = Fill(Blank, room)
    OBVIOUS
  <2>1. rear \in Seq({Blank})
    BY <1>1, Filled
  <2>2. t = ((s \o x) \o body) \o rear
    BY <1>3, NumberIs DEF Ahead
  <2>3. Laid(t, s, x, body, rear, b, m)
    BY <1>1, <2>1, <2>2 DEF Laid
  <2>. QED BY <1>1, <2>3
<1>4. CASE "LEFT" \notin T /\ "ZEROPAD" \in T
  <2>0. PICK z, digits : z = Fill("0", room) /\ digits = z \o body
    OBVIOUS
  <2>1. Spells(digits, b, m)
    BY <1>1, <2>0, ZerosSpell
  <2>2. z \in Seq(Glyphs) /\ digits \in Seq(Glyphs)
    <3>1. {"0"} \subseteq Glyphs
      <4>1. DigitOf[0 + 1] \in Numerals
        BY DigitFacts
      <4>. QED BY <4>1, DigitTable, GlyphSets
    <3>2. z \in Seq({"0"})
      BY <1>1, <2>0, Filled
    <3>3. z \in Seq(Glyphs)
      BY <3>1, <3>2, WiderSeq
    <3>. QED BY <1>2, <2>0, <3>3, Joined
  <2>3. t = ((s \o x) \o z) \o body
    <3>1. number(n, b, w, p, T)
            = (Ahead(n, b, T) \o Fill("0", Room(n, b, w, p, T))) \o Body(n, b, p, T)
      BY <1>4, NumberIs, Zenon
    <3>2. Ahead(n, b, T) = s \o x
      BY DEF Ahead
    <3>. QED BY <2>0, <3>1, <3>2
  <2>4. t = ((s \o x) \o digits) \o <<>>
    <3>1. t = (s \o x) \o digits
      <4>0. PICK u : u = s \o x
        OBVIOUS
      <4>1. u \in Seq(Glyphs) /\ z \in Seq(Glyphs) /\ body \in Seq(Glyphs)
        BY <1>2, <2>2, <4>0
      <4>2. (u \o z) \o body = u \o (z \o body)
        BY <4>1, Associates
      <4>. QED BY <2>0, <2>3, <4>0, <4>2
    <3>2. (s \o x) \o digits \in Seq(Glyphs)
      BY <1>2, <2>2, Joined
    <3>. QED BY <3>1, <3>2, NothingAhead
  <2>5. <<>> \in Seq({Blank})
    BY EmptySeq
  <2>6. Laid(t, s, x, digits, <<>>, b, m)
    BY <1>1, <2>1, <2>4, <2>5 DEF Laid
  <2>. QED BY <1>1, <2>6
<1>5. CASE "LEFT" \notin T /\ "ZEROPAD" \notin T
  <2>0. PICK f, lead : f = Fill(Blank, room) /\ lead = f \o s
    OBVIOUS
  <2>1. f \in Seq(Marks) /\ \A j \in 1..Len(f) : f[j] = Blank
    <3>1. f \in Seq({Blank}) /\ \A j \in 1..Len(f) : f[j] = Blank
      BY <1>1, <2>0, Filled
    <3>. QED BY <3>1, GlyphSets, WiderSeq
  <2>2. /\ lead \in Seq(Marks) /\ Len(f) \in Nat /\ Len(s) \in Nat /\ Len(lead) = Len(f) + Len(s)
        /\ \A j \in 1..Len(f) : lead[j] = f[j]
        /\ \A j \in 1..Len(s) : lead[Len(f) + j] = s[j]
    BY <1>1, <2>0, <2>1, Joined
  <2>3. t = ((f \o s) \o x) \o body
    <3>1. t = (f \o (s \o x)) \o body
      <4>1. number(n, b, w, p, T)
              = (Fill(Blank, Room(n, b, w, p, T)) \o Ahead(n, b, T)) \o Body(n, b, p, T)
        BY <1>5, NumberIs, Zenon
      <4>2. Ahead(n, b, T) = s \o x
        BY DEF Ahead
      <4>. QED BY <2>0, <4>1, <4>2
    <3>2. f \in Seq(Glyphs)
      BY <2>1, GlyphSets, WiderSeq
    <3>3. f \o (s \o x) = (f \o s) \o x
      <4>1. f \in Seq(Glyphs) /\ s \in Seq(Glyphs) /\ x \in Seq(Glyphs)
        BY <1>1, <1>2, <3>2
      <4>2. (f \o s) \o x = f \o (s \o x)
        BY <4>1, Associates
      <4>. QED BY <4>2
    <3>. QED BY <3>1, <3>3
  <2>4. t = ((lead \o x) \o body) \o <<>>
    <3>1. lead \in Seq(Glyphs)
      BY <2>2, GlyphSets, WiderSeq
    <3>2. lead \o x \in Seq(Glyphs)
      BY <1>1, <3>1, Joined
    <3>3. (lead \o x) \o body \in Seq(Glyphs)
      BY <1>2, <3>2, Joined
    <3>. QED BY <2>0, <2>3, <3>3, NothingAhead
  <2>5. <<>> \in Seq({Blank})
    BY EmptySeq
  <2>6. Laid(t, lead, x, body, <<>>, b, m)
    BY <1>1, <2>2, <2>4, <2>5 DEF Laid
  <2>7. ASSUME HasMinus(lead) PROVE HasMinus(s)
    <3>1. PICK j \in 1..Len(lead) : lead[j] = "-"
      BY <2>7 DEF HasMinus
    <3>2. ~(j \in 1..Len(f))
      BY <2>1, <2>2, <3>1, MarkFacts
    <3>3. j - Len(f) \in 1..Len(s) /\ Len(f) + (j - Len(f)) = j
      BY <2>2, <3>2
    <3>4. s[j - Len(f)] = "-"
      BY <2>2, <3>1, <3>3
    <3>. QED BY <3>3, <3>4 DEF HasMinus
  <2>8. ASSUME HasMinus(s) PROVE HasMinus(lead)
    <3>1. PICK j \in 1..Len(s) : s[j] = "-"
      BY <2>8 DEF HasMinus
    <3>2. lead[Len(f) + j] = "-" /\ Len(f) + j \in 1..Len(lead)
      BY <2>2, <3>1
    <3>. QED BY <3>2 DEF HasMinus
  <2>. QED BY <1>1, <2>6, <2>7, <2>8
<1>. QED BY <1>3, <1>4, <1>5

(* Octal's prefix is one digit more: only "0x" is no part of the number.   *)
LEMMA NumberLaid ==
  ASSUME NEW n \in Words, NEW b \in 2..16, NEW w \in Int, NEW p \in Int, NEW T,
         NEW t, t = number(n, b, w, p, T)
  PROVE  \E lead, pre, digits, rear :
           /\ Laid(t, lead, pre, digits, rear, b, Magnitude(n, T))
           /\ Len(pre) = IF "SPECIAL" \in T /\ b = 16 THEN 2 ELSE 0
           /\ HasMinus(lead) <=> "SIGN" \in T /\ Negative(n)
<1>. PICK m, x : m = Magnitude(n, T) /\ x = Prefix(b, T)
  OBVIOUS
<1>1. PICK lead, digits, rear : Laid(t, lead, x, digits, rear, b, m)
                               /\ (HasMinus(lead) <=> "SIGN" \in T /\ Negative(n))
  BY NumberText
<1>2. CASE Len(x) = IF "SPECIAL" \in T /\ b = 16 THEN 2 ELSE 0
  BY <1>1, <1>2
<1>3. CASE x = <<"0">> /\ b = 8
  <2>0. PICK z, more, none : z = Fill("0", 1) /\ more = z \o digits /\ none = <<>>
    OBVIOUS
  <2>1. z = x
    <3>1. z = [pos \in 1..1 |-> "0"]
      BY <2>0 DEF Fill
    <3>. QED BY <1>3, <3>1
  <2>2. m \in Nat /\ Spells(digits, b, m)
    BY <1>1, MagnitudeFacts DEF Laid
  <2>3. Spells(more, b, m)
    BY <2>0, <2>2, ZerosSpell
  <2>4. lead \in Seq(Glyphs) /\ digits \in Seq(Glyphs) /\ x \in Seq(Glyphs)
    <3>1. lead \in Seq(Marks) /\ digits \in Seq(Numerals)
      BY <1>1, Spelled DEF Laid
    <3>2. x \in Seq(Glyphs)
      BY PrefixFacts
    <3>. QED BY <3>1, <3>2, GlyphSets, WiderSeq
  <2>5. t = ((lead \o none) \o more) \o rear
    <3>1. t = ((lead \o x) \o digits) \o rear
      BY <1>1 DEF Laid
    <3>2. (lead \o x) \o digits = lead \o (x \o digits)
      BY <2>4, Associates
    <3>3. lead \o none = lead
      BY <2>0, <2>4, NothingAhead
    <3>. QED BY <2>0, <2>1, <3>1, <3>2, <3>3
  <2>6. none \in Seq(Glyphs) /\ Len(none) = 0
    BY <2>0
  <2>7. Laid(t, lead, none, more, rear, b, m)
    BY <1>1, <2>3, <2>5, <2>6 DEF Laid
  <2>. QED BY <1>1, <1>3, <2>6, <2>7
<1>. QED BY <1>2, <1>3, PrefixFacts

(* A number written is the number read.                                    *)
LEMMA NumberRead ==
  ASSUME NEW n \in Words, NEW b \in 2..16, NEW w \in Int, NEW p \in Int, NEW T,
         NEW t, t = number(n, b, w, p, T)
  PROVE  /\ ReadFrom(t, b, NumberFirst(t, b, T), NumberEnd(t, NumberStart(t))) = Magnitude(n, T)
         /\ HasMinus(t) <=> "SIGN" \in T /\ Negative(n)
         /\ Len(Digits(Magnitude(n, T), b)) <= TMP
<1>. PICK m : m = Magnitude(n, T)
  OBVIOUS
<1>1. PICK lead, x, digits, rear :
        /\ Laid(t, lead, x, digits, rear, b, m)
        /\ Len(x) = IF "SPECIAL" \in T /\ b = 16 THEN 2 ELSE 0
        /\ HasMinus(lead) <=> "SIGN" \in T /\ Negative(n)
  BY NumberLaid
<1>2. lead \in Seq(Marks) /\ Len(lead) \in Nat /\ Len(x) = IF "SPECIAL" \in T /\ b = 16 THEN 2 ELSE 0
  BY <1>1 DEF Laid
<1>. PICK from, to, lo : /\ from = Len(lead) + 1 /\ lo = Len(lead) + Len(x)
                         /\ to = Len(lead) + Len(x) + Len(digits)
  OBVIOUS
<1>3. Found(t, from, to, lo, b, m) /\ (HasMinus(t) <=> HasMinus(lead))
  BY <1>1, TextRead
<1>4. NumberStart(t) = from /\ NumberEnd(t, from) = to /\ ReadFrom(t, b, lo + 1, to) = m
  BY <1>3, StartIs, EndIs, ReadIs
<1>5. NumberFirst(t, b, T) = lo + 1
  BY <1>2, <1>4 DEF NumberFirst
<1>6. Len(Digits(m, b)) <= TMP
  <2>1. m \in Nat /\ m < 2^BITS /\ BITS \in Nat \ {0} /\ TMP \in Nat /\ BITS <= TMP
    BY MagnitudeFacts, FormatAssumption
  <2>2. Spells(Digits(m, b), b, m) /\ Short(Digits(m, b), m)
    BY <2>1, DigitsSpell
  <2>3. Len(Digits(m, b)) <= BITS /\ Len(Digits(m, b)) \in Nat
    BY <2>1, <2>2, Spelled DEF Short
  <2>. QED BY <2>1, <2>3
<1>. QED BY <1>1, <1>3, <1>4, <1>5, <1>6

-----------------------------------------------------------------------------
(* A text in a field as wide as asked, and what fills it on the right      *)
(* side.                                                                   *)

InField(t, text, w, flags) ==
  /\ Len(t) = AtLeast(Len(text), w)
  /\ "LEFT" \in flags => SubSeq(t, 1, Len(text)) = text
  /\ "LEFT" \notin flags /\ "ZEROPAD" \notin flags =>
       SubSeq(t, Len(t) - Len(text) + 1, Len(t)) = text

LEMMA PrintableSets ==
  Glyphs \subseteq Printable /\ STRING \subseteq Printable /\ {Blank} \subseteq Printable
BY GlyphSets DEF Printable

LEMMA LeadingPart ==
  ASSUME NEW s \in Seq(Printable), NEW t \in Seq(Printable)
  PROVE  SubSeq(s \o t, 1, Len(s)) = s
<1>0. PICK n, u, x : n = Len(s) /\ u = s \o t /\ x = SubSeq(u, 1, n)
  OBVIOUS
<1>1. /\ n \in Nat /\ u \in Seq(Printable) /\ Len(u) = n + Len(t) /\ Len(t) \in Nat
      /\ \A j \in 1..n : u[j] = s[j]
  BY <1>0, Joined
<1>2. \A j \in 1..n : u[j] \in Printable
  BY <1>1
<1>3. 1 \in Int /\ n \in Int /\ (IF 1 <= n THEN n-1+1 ELSE 0) = n /\ n-1+1 = n
  BY <1>1
<1>4. /\ SubSeq(u, 1, n) \in Seq(Printable) /\ Len(SubSeq(u, 1, n)) = IF 1 <= n THEN n-1+1 ELSE 0
      /\ \A j \in 1..n-1+1 : SubSeq(u, 1, n)[j] = u[1+j-1]
  BY <1>2, <1>3, SubSeqProperties
<1>5. x \in Seq(Printable) /\ Len(x) = n /\ \A j \in 1..n : x[j] = u[1+j-1]
  BY <1>0, <1>3, <1>4
<1>6. \A j \in 1..n : x[j] = s[j]
  <2>. TAKE j \in 1..n
  <2>1. 1+j-1 = j
    BY <1>1
  <2>. QED BY <1>1, <1>5, <2>1
<1>7. x = s
  BY <1>0, <1>5, <1>6, SeqEqual
<1>. QED BY <1>0, <1>7

LEMMA TrailingPart ==
  ASSUME NEW s \in Seq(Printable), NEW t \in Seq(Printable)
  PROVE  SubSeq(s \o t, Len(s \o t) - Len(t) + 1, Len(s \o t)) = t
<1>0. PICK n, m, u, x : n = Len(s) /\ m = Len(t) /\ u = s \o t /\ x = SubSeq(u, n + 1, n + m)
  OBVIOUS
<1>1. /\ n \in Nat /\ m \in Nat /\ u \in Seq(Printable) /\ Len(u) = n + m
      /\ \A j \in 1..m : u[n + j] = t[j]
  BY <1>0, Joined
<1>2. \A j \in n+1..n+m : u[j] \in Printable
  <2>1. \A j \in n+1..n+m : j \in 1..n+m
    BY <1>1
  <2>2. \A j \in 1..n+m : u[j] \in Printable
    BY <1>1
  <2>. QED BY <2>1, <2>2
<1>3. /\ n + 1 \in Int /\ n + m \in Int /\ (n + m) - (n + 1) + 1 = m
      /\ (n + 1 <= n + m) <=> m # 0
      /\ (n + m) - m + 1 = n + 1
  BY <1>1
<1>4. /\ SubSeq(u, n+1, n+m) \in Seq(Printable)
      /\ Len(SubSeq(u, n+1, n+m)) = IF n+1 <= n+m THEN (n+m)-(n+1)+1 ELSE 0
      /\ \A j \in 1..(n+m)-(n+1)+1 : SubSeq(u, n+1, n+m)[j] = u[n+1+j-1]
  BY <1>2, <1>3, SubSeqProperties
<1>5. x \in Seq(Printable) /\ Len(x) = m /\ \A j \in 1..m : x[j] = u[n+1+j-1]
  BY <1>0, <1>3, <1>4
<1>6. \A j \in 1..m : x[j] = t[j]
  <2>. TAKE j \in 1..m
  <2>1. n+1+j-1 = n + j
    BY <1>1
  <2>. QED BY <1>1, <1>5, <2>1
<1>7. x = t
  BY <1>0, <1>5, <1>6, SeqEqual
<1>. QED BY <1>0, <1>1, <1>3, <1>7

LEMMA FilledBehind ==
  ASSUME NEW text \in Seq(Printable), NEW w \in Int, NEW flags, NEW t,
         t = text \o Fill(Blank, w - Len(text)), "LEFT" \in flags
  PROVE  InField(t, text, w, flags)
<1>0. PICK n, f : n = Len(text) /\ f = Fill(Blank, w - n)
  OBVIOUS
<1>1. n \in Nat /\ w - n \in Int
  BY <1>0
<1>2. f \in Seq({Blank}) /\ Len(f) = AtLeast(0, w - n)
  BY <1>0, <1>1, Filled
<1>3. f \in Seq(Printable)
  BY <1>2, PrintableSets, WiderSeq
<1>4. Len(t) = n + Len(f) /\ SubSeq(t, 1, n) = text
  BY <1>0, <1>3, Joined, LeadingPart
<1>5. Len(t) = AtLeast(n, w)
  BY <1>1, <1>2, <1>4 DEF AtLeast
<1>. QED BY <1>0, <1>4, <1>5 DEF InField

LEMMA FilledBefore ==
  ASSUME NEW text \in Seq(Printable), NEW w \in Int, NEW flags, NEW t,
         t = Fill(Blank, w - Len(text)) \o text, "LEFT" \notin flags
  PROVE  InField(t, text, w, flags)
<1>0. PICK n, f : n = Len(text) /\ f = Fill(Blank, w - n)
  OBVIOUS
<1>1. n \in Nat /\ w - n \in Int
  BY <1>0
<1>2. f \in Seq({Blank}) /\ Len(f) = AtLeast(0, w - n)
  BY <1>0, <1>1, Filled
<1>3. f \in Seq(Printable)
  BY <1>2, PrintableSets, WiderSeq
<1>4. Len(t) = Len(f) + n /\ SubSeq(t, Len(t) - n + 1, Len(t)) = text
  BY <1>0, <1>3, Joined, TrailingPart
<1>5. Len(t) = AtLeast(n, w)
  BY <1>1, <1>2, <1>4 DEF AtLeast
<1>. QED BY <1>0, <1>4, <1>5 DEF InField

LEMMA SameSign ==
  ASSUME NEW n, NEW b, NEW p, NEW T, NEW U, U = T \ {"ZEROPAD"}
  PROVE  Ahead(n, b, U) = Ahead(n, b, T) /\ Body(n, b, p, U) = Body(n, b, p, T)
<1>1. /\ "SIGN" \in U <=> "SIGN" \in T
      /\ "PLUS" \in U <=> "PLUS" \in T
      /\ "SPACE" \in U <=> "SPACE" \in T
      /\ "SPECIAL" \in U <=> "SPECIAL" \in T
  OBVIOUS
<1>2. Sign(n, U) = Sign(n, T)
  BY <1>1, SignIs
<1>3. Prefix(b, U) = Prefix(b, T)
  BY <1>1 DEF Prefix
<1>4. Magnitude(n, U) = Magnitude(n, T)
  BY <1>1, Zenon DEF Magnitude
<1>5. Ahead(n, b, U) = Ahead(n, b, T)
  BY <1>2, <1>3, Zenon DEF Ahead
<1>6. Body(n, b, p, U) = Body(n, b, p, T)
  BY <1>4, Zenon DEF Body
<1>. QED BY <1>5, <1>6

(* Bare, number writes the sign, the prefix and the digits.                *)
LEMMA BareNumber ==
  ASSUME NEW n \in Words, NEW b \in 2..16, NEW p \in Int, NEW T, "ZEROPAD" \notin T
  PROVE  number(n, b, -1, p, T) = Ahead(n, b, T) \o Body(n, b, p, T)
<1>0. PICK head, body, room :
        head = Ahead(n, b, T) /\ body = Body(n, b, p, T) /\ room = Room(n, b, -1, p, T)
  OBVIOUS
<1>1. head \in Seq(Glyphs) /\ body \in Seq(Glyphs)
  BY <1>0, GlyphText
<1>2. head \o body \in Seq(Glyphs) /\ Len(head) \in Nat /\ Len(body) \in Nat
  BY <1>1, Joined
<1>3. room \in Int /\ room <= 0
  BY <1>0, <1>2 DEF Room
<1>4. Fill(Blank, room) = <<>>
  BY <1>3, NothingFilled
<1>5. (head \o body) \o <<>> = head \o body /\ <<>> \o head = head
  BY <1>1, <1>2, ConcatEmptySeq
<1>6. CASE "LEFT" \in T
  <2>1. number(n, b, -1, p, T)
          = (Ahead(n, b, T) \o Body(n, b, p, T)) \o Fill(Blank, Room(n, b, -1, p, T))
    BY <1>6, NumberIs, Zenon
  <2>. QED BY <1>0, <1>4, <1>5, <2>1
<1>7. CASE "LEFT" \notin T
  <2>1. number(n, b, -1, p, T)
          = (Fill(Blank, Room(n, b, -1, p, T)) \o Ahead(n, b, T)) \o Body(n, b, p, T)
    BY <1>7, NumberIs, Zenon
  <2>. QED BY <1>0, <1>4, <1>5, <2>1
<1>. QED BY <1>6, <1>7

LEMMA NumberInField ==
  ASSUME NEW n \in Words, NEW b \in 2..16, NEW w \in Int, NEW p \in Int, NEW T
  PROVE  InField(number(n, b, w, p, T), number(n, b, -1, p, T \ {"ZEROPAD"}), w, T)
<1>0. PICK head, body, text, room, t :
        /\ head = Ahead(n, b, T) /\ body = Body(n, b, p, T) /\ text = head \o body
        /\ room = Room(n, b, w, p, T) /\ t = number(n, b, w, p, T)
  OBVIOUS
<1>1. number(n, b, -1, p, T \ {"ZEROPAD"}) = text
  <2>0. PICK U : U = T \ {"ZEROPAD"}
    OBVIOUS
  <2>1. "ZEROPAD" \notin U
    BY <2>0
  <2>2. number(n, b, -1, p, U) = Ahead(n, b, U) \o Body(n, b, p, U)
    BY <2>1, BareNumber
  <2>3. Ahead(n, b, U) = Ahead(n, b, T) /\ Body(n, b, p, U) = Body(n, b, p, T)
    BY <2>0, SameSign
  <2>. QED BY <1>0, <2>0, <2>2, <2>3
<1>2. head \in Seq(Glyphs) /\ body \in Seq(Glyphs)
  BY <1>0, GlyphText
<1>3. /\ text \in Seq(Glyphs) /\ Len(head) \in Nat /\ Len(body) \in Nat
      /\ Len(text) = Len(head) + Len(body)
  BY <1>0, <1>2, Joined
<1>4. text \in Seq(Printable)
  BY <1>3, PrintableSets, WiderSeq
<1>5. room = w - Len(text) /\ room \in Int
  <2>1. room = w - Len(head) - Len(body)
    BY <1>0 DEF Room
  <2>. QED BY <1>3, <2>1
<1>6. CASE "LEFT" \in T
  <2>1. number(n, b, w, p, T)
          = (Ahead(n, b, T) \o Body(n, b, p, T)) \o Fill(Blank, Room(n, b, w, p, T))
    BY <1>6, NumberIs, Zenon
  <2>2. t = text \o Fill(Blank, w - Len(text))
    BY <1>0, <1>5, <2>1
  <2>3. InField(t, text, w, T)
    BY <1>4, <1>6, <2>2, FilledBehind
  <2>. QED BY <1>0, <1>1, <2>3
<1>7. CASE "LEFT" \notin T /\ "ZEROPAD" \notin T
  <2>1. number(n, b, w, p, T)
          = (Fill(Blank, Room(n, b, w, p, T)) \o Ahead(n, b, T)) \o Body(n, b, p, T)
    BY <1>7, NumberIs, Zenon
  <2>0. PICK f : f = Fill(Blank, room)
    OBVIOUS
  <2>2. t = (f \o head) \o body
    BY <1>0, <2>0, <2>1
  <2>3. f \in Seq(Glyphs)
    <3>1. f \in Seq({Blank})
      BY <1>5, <2>0, Filled
    <3>2. {Blank} \subseteq Glyphs
      BY GlyphSets
    <3>. QED BY <3>1, <3>2, WiderSeq
  <2>4. (f \o head) \o body = f \o (head \o body)
    BY <1>2, <2>3, Associates
  <2>5. t = Fill(Blank, w - Len(text)) \o text
    BY <1>0, <1>5, <2>0, <2>2, <2>4
  <2>6. InField(t, text, w, T)
    BY <1>4, <1>7, <2>5, FilledBefore
  <2>. QED BY <1>0, <1>1, <2>6
<1>8. CASE "LEFT" \notin T /\ "ZEROPAD" \in T
  <2>1. number(n, b, w, p, T) = (Ahead(n, b, T) \o Fill("0", Room(n, b, w, p, T))) \o Body(n, b, p, T)
    BY <1>8, NumberIs, Zenon
  <2>0. PICK z : z = Fill("0", room)
    OBVIOUS
  <2>2. t = (head \o z) \o body
    BY <1>0, <2>0, <2>1
  <2>3. z \in Seq(Glyphs) /\ Len(z) = AtLeast(0, room) /\ Len(z) \in Nat
    <3>1. z \in Seq({"0"}) /\ Len(z) = AtLeast(0, room)
      BY <1>5, <2>0, Filled
    <3>2. {"0"} \subseteq Glyphs
      <4>1. DigitOf[0 + 1] \in Numerals
        BY DigitFacts
      <4>. QED BY <4>1, DigitTable, GlyphSets
    <3>3. z \in Seq(Glyphs)
      BY <3>1, <3>2, WiderSeq
    <3>. QED BY <3>1, <3>3
  <2>4. head \o z \in Seq(Glyphs) /\ Len(head \o z) = Len(head) + Len(z)
    BY <1>2, <2>3, Joined
  <2>5. Len(t) = Len(head) + Len(z) + Len(body)
    BY <1>2, <2>2, <2>4, Joined
  <2>6. Len(t) = AtLeast(Len(text), w)
    <3>0. PICK h, z1, b1, n1 : h = Len(head) /\ z1 = Len(z) /\ b1 = Len(body) /\ n1 = Len(text)
      OBVIOUS
    <3>1. h \in Nat /\ b1 \in Nat /\ n1 = h + b1 /\ room = w - n1 /\ z1 = AtLeast(0, room)
      BY <1>3, <1>5, <2>3, <3>0
    <3>2. h + z1 + b1 = AtLeast(n1, w)
      BY <3>1 DEF AtLeast
    <3>. QED BY <2>5, <3>0, <3>2
  <2>7. InField(t, text, w, T)
    BY <1>8, <2>6 DEF InField
  <2>. QED BY <1>0, <1>1, <2>7
<1>. QED BY <1>6, <1>7, <1>8

(* So it is with a character or a string.                                  *)
LEMMA PaddedIs ==
  ASSUME NEW d, NEW text
  PROVE  /\ "LEFT" \in d.flags => Padded(d, text) = text \o Fill(Blank, d.width - Len(text))
         /\ "LEFT" \notin d.flags => Padded(d, text) = Fill(Blank, d.width - Len(text)) \o text
BY Zenon DEF Padded, Blank

LEMMA PaddedInField ==
  ASSUME NEW d, d.width \in Int, NEW e, e.width = -1, e.flags = d.flags \ {"ZEROPAD"},
         NEW text \in Seq(Printable)
  PROVE  InField(Padded(d, text), Padded(e, text), d.width, d.flags)
<1>1. Padded(e, text) = text
  <2>1. Len(text) \in Nat
    OBVIOUS
  <2>2. e.width - Len(text) \in Int /\ e.width - Len(text) <= 0
    BY <2>1
  <2>3. Fill(Blank, e.width - Len(text)) = <<>>
    BY <2>2, NothingFilled
  <2>4. text \o <<>> = text /\ <<>> \o text = text
    BY ConcatEmptySeq
  <2>5. \/ Padded(e, text) = text \o Fill(Blank, e.width - Len(text))
        \/ Padded(e, text) = Fill(Blank, e.width - Len(text)) \o text
    BY PaddedIs, Zenon
  <2>. QED BY <2>3, <2>4, <2>5
<1>0. PICK w, flags, t : w = d.width /\ flags = d.flags /\ t = Padded(d, text)
  OBVIOUS
<1>2. w \in Int
  BY <1>0
<1>3. CASE "LEFT" \in flags
  <2>1. t = text \o Fill(Blank, w - Len(text))
    BY <1>0, <1>3, PaddedIs
  <2>2. InField(t, text, w, flags)
    BY <1>2, <1>3, <2>1, FilledBehind
  <2>. QED BY <1>0, <1>1, <2>2
<1>4. CASE "LEFT" \notin flags
  <2>1. t = Fill(Blank, w - Len(text)) \o text
    BY <1>0, <1>4, PaddedIs
  <2>2. InField(t, text, w, flags)
    BY <1>2, <1>4, <2>1, FilledBefore
  <2>. QED BY <1>0, <1>1, <2>2
<1>. QED BY <1>3, <1>4

-----------------------------------------------------------------------------
(* Reading a directive.                                                    *)

LEMMA InsideFormat ==
  ASSUME NEW k \in Nat, Char(k) # "NUL"
  PROVE  k <= Len(format)
BY DEF Char

(* A search for the end of a run of characters ends at the terminator.     *)
LEMMA PastEnds ==
  ASSUME format \in Seq(STRING), NEW k \in 1 .. Len(format) + 1, NEW S, "NUL" \notin S
  PROVE  Past(k, S) \in k .. Len(format) + 1 /\ \A n \in k .. Past(k, S) - 1 : Char(n) \in S
<1>. DEFINE T == {j \in k .. Len(format) + 1 : Char(j) \notin S}
            End(j) == Char(j) \notin S /\ \A n \in k .. j-1 : Char(n) \in S
<1>1. Len(format) \in Nat
  OBVIOUS
<1>2. T \subseteq Nat /\ Len(format) + 1 \in T
  BY <1>1 DEF Char
<1>3. PICK m \in T : \A j \in T : ~(j < m)
  <2>. HIDE DEF T
  <2>. QED BY <1>2, Smallest
<1>4. m \in k .. Len(format) + 1 /\ End(m)
  <2>1. ASSUME NEW n \in k .. m-1 PROVE Char(n) \in S
    <3>1. n \in k .. Len(format) + 1 /\ n < m
      BY <1>1
    <3>. QED BY <1>3, <3>1
  <2>. QED BY <2>1
<1>5. Past(k, S) = CHOOSE j \in k .. Len(format) + 1 : End(j)
  BY DEF Past
<1>6. Past(k, S) \in k .. Len(format) + 1 /\ End(Past(k, S))
  <2>. HIDE DEF End
  <2>. QED BY <1>4, <1>5
<1>. QED BY <1>6

LEMMA NoTerminators == "NUL" \notin DOMAIN FlagOf /\ "NUL" \notin Decimal /\ "NUL" \notin Conversions
<1>1. "NUL" \notin DOMAIN FlagOf
  BY DEF FlagOf
<1>2. ASSUME NEW v \in 1..10 PROVE DigitOf[v] # "NUL"
  <2>1. v = 1 \/ v = 2 \/ v = 3 \/ v = 4 \/ v = 5 \/ v = 6 \/ v = 7 \/ v = 8 \/ v = 9 \/ v = 10
    OBVIOUS
  <2>. QED BY <2>1 DEF DigitOf
<1>3. "NUL" \notin Conversions
  BY DEF Conversions
<1>. QED BY <1>1, <1>2, <1>3 DEF Decimal

LEMMA NoSignFlag ==
  ASSUME NEW c \in DOMAIN FlagOf
  PROVE  FlagOf[c] # "SIGN"
<1>1. FlagOf = [x \in {"-", "+", Blank, "#", "0"} |->
                  CASE x = "-" -> "LEFT" [] x = "+" -> "PLUS" [] x = Blank -> "SPACE"
                    [] x = "#" -> "SPECIAL" [] x = "0" -> "ZEROPAD"]
  BY Zenon DEF FlagOf, Blank
<1>2. c \in {"-", "+", Blank, "#", "0"}
  BY <1>1
<1>3. FlagOf[c] = CASE c = "-" -> "LEFT" [] c = "+" -> "PLUS" [] c = Blank -> "SPACE"
                    [] c = "#" -> "SPECIAL" [] c = "0" -> "ZEROPAD"
  BY <1>1, <1>2
<1>. QED BY <1>2, <1>3

(* skip_atoi finds a number.                                               *)
LEMMA AtoiType ==
  ASSUME NEW k \in Nat \ {0}, NEW j \in Nat, k <= j, \A n \in k .. j-1 : Char(n) \in Decimal
  PROVE  Atoi(k, j) \in Int
<1>. DEFINE Sums(n) == n = [x \in k-1 .. j-1 |-> IF x < k THEN 0 ELSE 10 * n[x-1] + Value(Char(x))]
<1>1. \E n : Sums(n)
  <2>. DEFINE w == [x \in k .. j-1 |-> Char(x)]
  <2>1. j - k \in Nat /\ k - 1 + (j - k) = j - 1
    OBVIOUS
  <2>2. \E v : Horner(v, w, 10, k, k - 1 + (j - k))
    <3>. HIDE DEF w
    <3>0. PICK m \in Nat : m = j - k
      BY <2>1
    <3>1. 10 \in Int /\ k \in Int
      OBVIOUS
    <3>2. \A p \in Nat : \E v : Horner(v, w, 10, k, k - 1 + p)
      BY <3>1, HornerExists
    <3>. QED BY <3>0, <3>2
  <2>3. PICK v : Horner(v, w, 10, k, j - 1)
    BY <2>1, <2>2
  <2>4. v = [x \in k-1 .. j-1 |-> IF x < k THEN 0 ELSE 10 * v[x-1] + Value(w[x])]
    BY <2>3 DEF Horner
  <2>5. ASSUME NEW x \in k-1 .. j-1
        PROVE  (IF x < k THEN 0 ELSE 10 * v[x-1] + Value(w[x]))
                 = IF x < k THEN 0 ELSE 10 * v[x-1] + Value(Char(x))
    <3>1. CASE x < k
      BY <3>1
    <3>2. CASE ~(x < k)
      <4>1. w[x] = Char(x)
        BY <3>2
      <4>. HIDE DEF w
      <4>. QED BY <4>1
    <3>. QED BY <3>1, <3>2
  <2>6. [x \in k-1 .. j-1 |-> IF x < k THEN 0 ELSE 10 * v[x-1] + Value(w[x])]
          = [x \in k-1 .. j-1 |-> IF x < k THEN 0 ELSE 10 * v[x-1] + Value(Char(x))]
    <3>. HIDE DEF w
    <3>. QED BY <2>5
  <2>7. Sums(v)
    <3>. HIDE DEF w
    <3>. QED BY <2>4, <2>6
  <2>. QED BY <2>7
<1>. PICK n : n = CHOOSE f : Sums(f)
  OBVIOUS
<1>2. Sums(n)
  <2>. HIDE DEF Sums
  <2>. QED BY <1>1
<1>3. Atoi(k, j) = n[j-1]
  BY DEF Atoi
<1>4. \A x \in k-1 .. j-1 : n[x] = IF x < k THEN 0 ELSE 10 * n[x-1] + Value(Char(x))
  BY <1>2
<1>. HIDE DEF Sums
<1>. DEFINE T == {x \in Nat : x <= j - k => n[k - 1 + x] \in Int}
<1>5. 0 \in T
  <2>1. k - 1 + 0 \in k-1 .. j-1 /\ k - 1 + 0 < k
    OBVIOUS
  <2>. QED BY <1>4, <2>1
<1>6. ASSUME NEW x \in Nat, x \in T PROVE x + 1 \in T
  <2>. SUFFICES ASSUME x + 1 <= j - k PROVE n[k - 1 + (x + 1)] \in Int
    OBVIOUS
  <2>0. PICK y : y = k - 1 + (x + 1)
    OBVIOUS
  <2>1. y \in k-1 .. j-1 /\ ~(y < k) /\ y \in k .. j-1 /\ y - 1 = k - 1 + x /\ x <= j - k
    BY <2>0
  <2>2. n[y - 1] \in Int
    BY <1>6, <2>1
  <2>3. Value(Char(y)) \in Int
    <3>1. Char(y) \in Decimal
      BY <2>1
    <3>2. Char(y) \in Numerals
      BY <3>1 DEF Decimal, Numerals
    <3>. QED BY <3>2, NumeralFacts
  <2>4. n[y] = 10 * n[y - 1] + Value(Char(y))
    BY <1>4, <2>1
  <2>. QED BY <2>0, <2>2, <2>3, <2>4
<1>7. j - k \in T
  <2>. HIDE DEF T
  <2>. QED BY <1>5, <1>6, Inductive
<1>8. k - 1 + (j - k) = j - 1
  OBVIOUS
<1>. QED BY <1>3, <1>7, <1>8

(* What every part of reading a directive keeps.  Where '*' has found no   *)
(* argument, the width or the precision is anything; but no conversion     *)
(* follows.                                                                *)
Typed(d) ==
  /\ DOMAIN d = {"flags", "width", "precision", "at", "args"}
  /\ d.at \in 1 .. Len(format) + 1
  /\ d.args \in Seq(Words) /\ "SIGN" \notin d.flags
  /\ (d.width \in Int /\ d.precision \in Int) \/ Char(d.at) = "*"

LEMMA LeftType ==
  ASSUME NEW list \in Seq(Words)
  PROVE  Left(list) \in Seq(Words)
BY DEF Left

LEMMA FlagsTyped ==
  ASSUME format \in Seq(STRING), args \in Seq(Words), NEW k \in 1 .. Len(format)
  PROVE  Typed(FlagsRead(k))
<1>0. PICK S, j, flags : /\ S = DOMAIN FlagOf /\ j = Past(k + 1, S)
                         /\ flags = {FlagOf[Char(n)] : n \in k+1 .. j-1}
  OBVIOUS
<1>1. k + 1 \in 1 .. Len(format) + 1 /\ "NUL" \notin S /\ Len(format) \in Nat
  BY <1>0, NoTerminators
<1>2. j \in k+1 .. Len(format) + 1 /\ \A n \in k+1 .. j-1 : Char(n) \in S
  BY <1>0, <1>1, PastEnds
<1>3. \A n \in k+1 .. j-1 : FlagOf[Char(n)] # "SIGN"
  BY <1>0, <1>2, NoSignFlag
<1>4. "SIGN" \notin flags
  BY <1>0, <1>3
<1>5. FlagsRead(k) = [flags |-> flags, width |-> -1, precision |-> -1, at |-> j, args |-> args]
  BY <1>0 DEF FlagsRead
<1>. QED BY <1>1, <1>2, <1>4, <1>5 DEF Typed

LEMMA DecimalRun ==
  ASSUME format \in Seq(STRING), NEW k \in 1 .. Len(format) + 1
  PROVE  Past(k, Decimal) \in 1 .. Len(format) + 1 /\ Atoi(k, Past(k, Decimal)) \in Int
<1>0. PICK j : j = Past(k, Decimal)
  OBVIOUS
<1>1. j \in k .. Len(format) + 1 /\ \A n \in k .. j-1 : Char(n) \in Decimal
  BY <1>0, PastEnds, NoTerminators
<1>2. Len(format) \in Nat /\ k \in Nat \ {0} /\ j \in Nat /\ k <= j
  BY <1>1
<1>3. Atoi(k, j) \in Int
  BY <1>1, <1>2, AtoiType
<1>. QED BY <1>0, <1>1, <1>2, <1>3

LEMMA WidthTyped ==
  ASSUME format \in Seq(STRING), NEW d, Typed(d)
  PROVE  Typed(WidthRead(d))
<1>0. /\ DOMAIN d = {"flags", "width", "precision", "at", "args"}
      /\ d.at \in 1 .. Len(format) + 1
      /\ d.args \in Seq(Words) /\ "SIGN" \notin d.flags
      /\ (d.width \in Int /\ d.precision \in Int) \/ Char(d.at) = "*"
  BY DEF Typed
<1>1. CASE Char(d.at) \in Decimal
  <2>0. PICK j, w : j = Past(d.at, Decimal) /\ w = Atoi(d.at, j)
    OBVIOUS
  <2>1. j \in 1 .. Len(format) + 1 /\ w \in Int
    BY <1>0, <2>0, DecimalRun
  <2>2. WidthRead(d) = [d EXCEPT !.width = w, !.at = j]
    BY <1>1, <2>0 DEF WidthRead
  <2>3. "*" \notin Decimal
    <3>1. ASSUME NEW v \in 1..10 PROVE DigitOf[v] # "*"
      <4>1. v = 1 \/ v = 2 \/ v = 3 \/ v = 4 \/ v = 5 \/ v = 6 \/ v = 7 \/ v = 8 \/ v = 9 \/ v = 10
        OBVIOUS
      <4>. QED BY <4>1, DigitTable
    <3>. QED BY <3>1 DEF Decimal
  <2>4. d.precision \in Int
    BY <1>0, <1>1, <2>3
  <2>. QED BY <1>0, <2>1, <2>2, <2>4 DEF Typed
<1>2. CASE Char(d.at) \notin Decimal /\ Char(d.at) = "*"
  <2>0. PICK w : w = Signed(Head(d.args))
    OBVIOUS
  <2>1. WidthRead(d) = [d EXCEPT !.width = IF w < 0 THEN -w ELSE w,
                                 !.flags = IF w < 0 THEN @ \cup {"LEFT"} ELSE @, !.args = Left(@)]
    BY <1>2, <2>0 DEF WidthRead
  <2>2. Left(d.args) \in Seq(Words)
    BY <1>0, LeftType
  <2>. QED BY <1>0, <1>2, <2>1, <2>2 DEF Typed
<1>3. CASE Char(d.at) \notin Decimal /\ Char(d.at) # "*"
  BY <1>3 DEF WidthRead
<1>. QED BY <1>1, <1>2, <1>3

LEMMA PrecisionTyped ==
  ASSUME format \in Seq(STRING), NEW d, Typed(d)
  PROVE  Typed(PrecisionRead(d))
<1>0. /\ DOMAIN d = {"flags", "width", "precision", "at", "args"}
      /\ d.at \in 1 .. Len(format) + 1 /\ Len(format) \in Nat
      /\ d.args \in Seq(Words) /\ "SIGN" \notin d.flags
      /\ (d.width \in Int /\ d.precision \in Int) \/ Char(d.at) = "*"
  BY DEF Typed
<1>1. CASE Char(d.at) # "."
  BY <1>1 DEF PrecisionRead
<1>2. CASE Char(d.at) = "."
  <2>1. d.at + 1 \in 1 .. Len(format) + 1
    BY <1>0, <1>2, InsideFormat
  <2>2. d.width \in Int
    BY <1>0, <1>2
  <2>3. CASE Char(d.at + 1) \in Decimal
    <3>0. PICK j, w : j = Past(d.at + 1, Decimal) /\ w = Atoi(d.at + 1, j)
      OBVIOUS
    <3>1. j \in 1 .. Len(format) + 1 /\ w \in Int
      BY <2>1, <3>0, DecimalRun
    <3>2. PrecisionRead(d) = [d EXCEPT !.precision = w, !.at = j]
      BY <1>2, <2>3, <3>0 DEF PrecisionRead
    <3>. QED BY <1>0, <2>2, <3>1, <3>2 DEF Typed
  <2>4. CASE Char(d.at + 1) \notin Decimal /\ Char(d.at + 1) = "*"
    <3>0. PICK p : p = AtLeast(0, Signed(Head(d.args)))
      OBVIOUS
    <3>1. PrecisionRead(d) = [d EXCEPT !.precision = p, !.args = Left(@), !.at = @ + 1]
      BY <1>2, <2>4, <3>0 DEF PrecisionRead
    <3>2. Left(d.args) \in Seq(Words)
      BY <1>0, LeftType
    <3>. QED BY <1>0, <2>1, <2>4, <3>1, <3>2 DEF Typed
  <2>5. CASE Char(d.at + 1) \notin Decimal /\ Char(d.at + 1) # "*"
    <3>1. PrecisionRead(d) = [d EXCEPT !.precision = 0, !.at = @ + 1]
      BY <1>2, <2>5 DEF PrecisionRead
    <3>. QED BY <1>0, <2>1, <2>2, <3>1 DEF Typed
  <2>. QED BY <2>3, <2>4, <2>5
<1>. QED BY <1>1, <1>2

LEMMA RestTyped ==
  ASSUME format \in Seq(STRING), NEW d, Typed(d)
  PROVE  Typed(Qualified(d)) /\ Typed(Pointer(d))
<1>0. /\ DOMAIN d = {"flags", "width", "precision", "at", "args"}
      /\ d.at \in 1 .. Len(format) + 1 /\ Len(format) \in Nat
      /\ d.args \in Seq(Words) /\ "SIGN" \notin d.flags
      /\ (d.width \in Int /\ d.precision \in Int) \/ Char(d.at) = "*"
  BY DEF Typed
<1>1. Typed(Qualified(d))
  <2>1. CASE Char(d.at) \in {"h", "l", "L"}
    <3>1. d.at + 1 \in 1 .. Len(format) + 1
      BY <1>0, <2>1, InsideFormat
    <3>2. Qualified(d) = [d EXCEPT !.at = @ + 1]
      BY <2>1 DEF Qualified
    <3>3. d.width \in Int /\ d.precision \in Int
      BY <1>0, <2>1
    <3>. QED BY <1>0, <3>1, <3>2, <3>3 DEF Typed
  <2>2. CASE Char(d.at) \notin {"h", "l", "L"}
    BY <2>2 DEF Qualified
  <2>. QED BY <2>1, <2>2
<1>2. Typed(Pointer(d))
  <2>1. CASE Char(d.at) = "p" /\ d.width = -1
    <3>1. Pointer(d) = [d EXCEPT !.width = 8, !.flags = @ \cup {"ZEROPAD"}]
      BY <2>1 DEF Pointer
    <3>2. d.precision \in Int
      BY <1>0, <2>1
    <3>. QED BY <1>0, <3>1, <3>2 DEF Typed
  <2>2. CASE ~(Char(d.at) = "p" /\ d.width = -1)
    BY <2>2 DEF Pointer
  <2>. QED BY <2>1, <2>2
<1>. QED BY <1>1, <1>2

LEMMA DirectiveTyped ==
  ASSUME format \in Seq(STRING), args \in Seq(Words), NEW k \in 1 .. Len(format)
  PROVE  Typed(Directive(k))
BY FlagsTyped, WidthTyped, PrecisionTyped, RestTyped DEF Directive

-----------------------------------------------------------------------------
(* A field reads back and is as wide as asked.                             *)

LEMMA PaddedSame ==
  ASSUME NEW d, NEW e, d.width = e.width, d.flags = e.flags, NEW text
  PROVE  Padded(d, text) = Padded(e, text)
BY Zenon DEF Padded

LEMMA ConvertedSame ==
  ASSUME NEW d, NEW e, d.width = e.width, d.precision = e.precision, d.flags = e.flags, NEW c, NEW arg
  PROVE  Converted(d, c, arg) = Converted(e, c, arg)
<1>1. \A text : Padded(d, text) = Padded(e, text)
  BY PaddedSame
<1>2. Integer(d, c, arg) = Integer(e, c, arg)
  BY Zenon DEF Integer
<1>. QED BY <1>1, <1>2 DEF Converted

Unpadded(d) == [d EXCEPT !.width = -1, !.flags = @ \ {"ZEROPAD"}]

LEMMA ConvertedInField ==
  ASSUME NEW d, DOMAIN d = {"kind", "width", "precision", "flags", "arg", "text"},
         d.width \in Int, d.precision \in Int, "SIGN" \notin d.flags,
         NEW c \in Conversions, NEW arg \in Words
  PROVE  InField(Converted(d, c, arg), Converted(Unpadded(d), c, arg), d.width, d.flags)
<1>0. PICK e, F, G : e = Unpadded(d) /\ F = d.flags /\ G = F \ {"ZEROPAD"}
  OBVIOUS
<1>1. e.width = -1 /\ e.precision = d.precision /\ e.flags = G
  BY <1>0 DEF Unpadded
<1>2. CASE c = "c"
  <2>0. PICK text : text = <<CharOf(arg)>>
    OBVIOUS
  <2>1. text \in Seq(Printable)
    <3>1. arg % 16 \in 0..15
      BY WordFacts
    <3>2. CharOf(arg) \in Numerals
      BY <3>1, DigitFacts DEF CharOf
    <3>3. CharOf(arg) \in Printable
      BY <3>2, GlyphSets, PrintableSets
    <3>. QED BY <2>0, <3>3
  <2>2. Converted(d, c, arg) = Padded(d, text) /\ Converted(e, c, arg) = Padded(e, text)
    BY <1>2, <2>0 DEF Converted
  <2>3. InField(Padded(d, text), Padded(e, text), d.width, d.flags)
    BY <1>0, <1>1, <2>1, PaddedInField
  <2>. QED BY <1>0, <2>2, <2>3
<1>3. CASE c = "s"
  <2>0. PICK s, p, text : /\ s = StringAt[arg] /\ p = d.precision
                          /\ text = IF p < 0 \/ Len(s) <= p THEN s ELSE SubSeq(s, 1, p)
    OBVIOUS
  <2>1. s \in Seq(STRING) /\ p \in Int /\ Len(s) \in Nat
    BY <2>0, FormatAssumption
  <2>2. text \in Seq(STRING)
    <3>1. CASE p < 0 \/ Len(s) <= p
      BY <2>0, <2>1, <3>1
    <3>2. CASE ~(p < 0 \/ Len(s) <= p)
      <4>1. p \in Nat /\ p < Len(s)
        BY <2>1, <3>2
      <4>2. \A n \in 1..p : s[n] \in STRING
        BY <2>1, <4>1
      <4>3. SubSeq(s, 1, p) \in Seq(STRING)
        BY <4>1, <4>2, SubSeqProperties
      <4>. QED BY <2>0, <3>2, <4>3
    <3>. QED BY <3>1, <3>2
  <2>3. text \in Seq(Printable)
    BY <2>2, PrintableSets, WiderSeq
  <2>4. Converted(d, c, arg) = Padded(d, text) /\ Converted(e, c, arg) = Padded(e, text)
    BY <1>1, <1>3, <2>0 DEF Converted
  <2>5. InField(Padded(d, text), Padded(e, text), d.width, d.flags)
    BY <1>0, <1>1, <2>3, PaddedInField
  <2>. QED BY <1>0, <2>4, <2>5
<1>4. CASE c # "c" /\ c # "s"
  <2>0. PICK X, b, T, t, text :
          /\ X = (IF c \in {"d", "i"} THEN {"SIGN"} ELSE {}) /\ b = Base(c) /\ T = F \cup X
          /\ t = number(arg, b, d.width, d.precision, T)
          /\ text = number(arg, b, -1, d.precision, T \ {"ZEROPAD"})
    OBVIOUS
  <2>1. b \in 2..16
    BY <2>0 DEF Base
  <2>2. InField(t, text, d.width, T)
    BY <2>0, <2>1, NumberInField
  <2>3. /\ T \ {"ZEROPAD"} = G \cup X
        /\ ("LEFT" \in T <=> "LEFT" \in F) /\ ("ZEROPAD" \in T <=> "ZEROPAD" \in F)
    BY <1>0, <2>0
  <2>4. InField(t, text, d.width, F)
    BY <2>2, <2>3 DEF InField
  <2>5. Converted(d, c, arg) = t
    <3>1. Converted(d, c, arg) = Integer(d, c, arg)
      BY <1>4 DEF Converted
    <3>2. Integer(d, c, arg) = t
      BY <1>0, <2>0 DEF Integer
    <3>. QED BY <3>1, <3>2
  <2>6. Converted(e, c, arg) = text
    <3>1. Converted(e, c, arg) = Integer(e, c, arg)
      BY <1>4 DEF Converted
    <3>2. Integer(e, c, arg) = text
      BY <1>1, <2>0, <2>3 DEF Integer
    <3>. QED BY <3>1, <3>2
  <2>. QED BY <1>0, <2>4, <2>5, <2>6
<1>. QED BY <1>2, <1>3, <1>4

LEMMA ReadsBackIs ==
  ReadsBack <=>
    (field.kind \in DOMAIN Radix =>
       /\ ReadFrom(field.text, Radix[field.kind],
                   NumberFirst(field.text, Radix[field.kind], field.flags),
                   NumberEnd(field.text, NumberStart(field.text)))
            = IF field.kind \in {"d", "i"} /\ Negative(field.arg) THEN 2^BITS - field.arg ELSE field.arg
       /\ field.kind \in {"d", "i"} /\ Negative(field.arg) <=> HasMinus(field.text)
       /\ Len(Digits(ReadFrom(field.text, Radix[field.kind],
                              NumberFirst(field.text, Radix[field.kind], field.flags),
                              NumberEnd(field.text, NumberStart(field.text))),
                     Radix[field.kind])) <= TMP)
BY Zenon DEF ReadsBack, ReadFrom, Horner, NumberFirst, NumberEnd, NumberStart, HasMinus, Marks, Blank

FieldTyped ==
  /\ DOMAIN field = {"kind", "width", "precision", "flags", "arg", "text"}
  /\ field.kind \in Conversions /\ field.arg \in Words
  /\ field.width \in Int /\ field.precision \in Int /\ "SIGN" \notin field.flags
  /\ field.text = Converted(field, field.kind, field.arg)

LEMMA RadixIs ==
  ASSUME NEW c \in {"o", "p", "x", "X", "d", "i", "u", "b"}
  PROVE  Radix[c] \in 2..16 /\ Radix[c] = Base(c)
<1>1. c \in {"o", "p", "x", "X", "d", "i", "u", "b"}
  OBVIOUS
<1>. QED BY <1>1 DEF Radix, Base

LEMMA TypedReadsBack == FieldTyped => ReadsBack
<1>. SUFFICES ASSUME FieldTyped, field.kind \in DOMAIN Radix PROVE ReadsBack
  BY ReadsBackIs, Zenon
<1>0. PICK c, n, b, X, F, T, t :
        /\ c = field.kind /\ n = field.arg /\ b = Radix[c] /\ F = field.flags /\ t = field.text
        /\ X = (IF c \in {"d", "i"} THEN {"SIGN"} ELSE {}) /\ T = F \cup X
  OBVIOUS
<1>1. c \in {"o", "p", "x", "X", "d", "i", "u", "b"} /\ n \in Words /\ "SIGN" \notin F
  BY <1>0 DEF FieldTyped, Radix
<1>2. b \in 2..16 /\ b = Base(c)
  BY <1>0, <1>1, RadixIs
<1>3. ("SIGN" \in T <=> c \in {"d", "i"}) /\ ("SPECIAL" \in T <=> "SPECIAL" \in F)
  BY <1>0, <1>1
<1>4. t = number(n, b, field.width, field.precision, T)
  <2>1. t = Converted(field, c, n)
    BY <1>0 DEF FieldTyped
  <2>2. Converted(field, c, n) = Integer(field, c, n)
    BY <1>1 DEF Converted
  <2>3. Integer(field, c, n) = number(n, b, field.width, field.precision, T)
    BY <1>0, <1>2 DEF Integer
  <2>. QED BY <2>1, <2>2, <2>3
<1>5. field.width \in Int /\ field.precision \in Int
  BY DEF FieldTyped
<1>6. /\ ReadFrom(t, b, NumberFirst(t, b, T), NumberEnd(t, NumberStart(t))) = Magnitude(n, T)
      /\ HasMinus(t) <=> "SIGN" \in T /\ Negative(n)
      /\ Len(Digits(Magnitude(n, T), b)) <= TMP
  <2>. PICK w, p : w = field.width /\ p = field.precision
    OBVIOUS
  <2>1. w \in Int /\ p \in Int /\ n \in Words /\ b \in 2..16 /\ t = number(n, b, w, p, T)
    BY <1>1, <1>2, <1>4, <1>5
  <2>. QED BY <2>1, NumberRead
<1>7. NumberFirst(t, b, T) = NumberFirst(t, b, F)
  BY <1>3 DEF NumberFirst
<1>8. Magnitude(n, T) = IF c \in {"d", "i"} /\ Negative(n) THEN 2^BITS - n ELSE n
  <2>1. Magnitude(n, T) = IF "SIGN" \in T /\ Negative(n) THEN 2^BITS - n ELSE n
    BY <1>1, MagnitudeFacts
  <2>. QED BY <1>3, <2>1
<1>9. /\ ReadFrom(t, b, NumberFirst(t, b, F), NumberEnd(t, NumberStart(t)))
           = IF c \in {"d", "i"} /\ Negative(n) THEN 2^BITS - n ELSE n
      /\ c \in {"d", "i"} /\ Negative(n) <=> HasMinus(t)
      /\ Len(Digits(ReadFrom(t, b, NumberFirst(t, b, F), NumberEnd(t, NumberStart(t))), b)) <= TMP
  BY <1>3, <1>6, <1>7, <1>8
<1>. QED BY <1>0, <1>9, ReadsBackIs, Zenon

LEMMA TypedAsAsked == field = NoField \/ FieldTyped => FieldsAsAsked
<1>1. CASE field = NoField
  <2>1. field.kind = "none"
    BY <1>1 DEF NoField
  <2>2. ReadsBack
    <3>1. field.kind \notin DOMAIN Radix
      BY <2>1 DEF Radix
    <3>. QED BY <3>1, ReadsBackIs, Zenon
  <2>. QED BY <2>1, <2>2 DEF FieldsAsAsked
<1>2. CASE FieldTyped
  <2>1. InField(Converted(field, field.kind, field.arg),
                Converted(Unpadded(field), field.kind, field.arg), field.width, field.flags)
    BY <1>2, ConvertedInField DEF FieldTyped
  <2>2. InField(field.text, Converted(Unpadded(field), field.kind, field.arg),
                field.width, field.flags)
    BY <1>2, <2>1 DEF FieldTyped
  <2>. QED BY <1>2, <2>2, TypedReadsBack DEF FieldsAsAsked, InField, Unpadded
<1>. QED BY <1>1, <1>2

-----------------------------------------------------------------------------
(* The scan of a format.                                                   *)

ScanInv ==
  /\ format \in Seq(STRING) /\ fmt \in 1 .. Len(format) + 1 /\ args \in Seq(Words)
  /\ field = NoField \/ FieldTyped

LEMMA ScanStep == ScanInv /\ [FormatNext]_formatting => ScanInv'
<1>. SUFFICES ASSUME ScanInv, [FormatNext]_formatting PROVE ScanInv'
  OBVIOUS
<1>1. /\ format \in Seq(STRING) /\ Len(format) \in Nat /\ fmt \in 1 .. Len(format) + 1
      /\ fmt \in Nat /\ args \in Seq(Words)
  BY DEF ScanInv
<1>2. CASE Literal
  <2>1. fmt <= Len(format)
    BY <1>1, <1>2, InsideFormat DEF Literal
  <2>. QED BY <1>1, <1>2, <2>1 DEF Literal, ScanInv
<1>0. PICK d : d = Directive(fmt)
  OBVIOUS
<1>3. ASSUME Char(fmt) = "%"
      PROVE  Typed(d) /\ d.at \in Nat /\ d.at <= Len(format) + 1 /\ d.at >= 1
             /\ (Char(d.at) # "NUL" => d.at <= Len(format))
  <2>1. fmt \in 1 .. Len(format)
    BY <1>1, <1>3, InsideFormat
  <2>2. Typed(d)
    BY <1>0, <1>1, <2>1, DirectiveTyped
  <2>3. d.at \in 1 .. Len(format) + 1
    BY <2>2 DEF Typed
  <2>. QED BY <1>1, <2>2, <2>3, InsideFormat
<1>4. CASE Convert
  <2>1. /\ Char(fmt) = "%" /\ Char(d.at) \in Conversions /\ fmt' = d.at + 1 /\ format' = format
        /\ args' = Left(d.args)
    BY <1>0, <1>4 DEF Convert
  <2>2. PICK arg \in Taken(d.args) :
          field' = [kind |-> Char(d.at), width |-> d.width, precision |-> d.precision,
                    flags |-> d.flags, arg |-> arg, text |-> Converted(d, Char(d.at), arg)]
    BY <1>0, <1>4 DEF Convert
  <2>3. Typed(d) /\ d.at \in 1 .. Len(format)
    BY <1>1, <1>3, <2>1, NoTerminators
  <2>4. d.args \in Seq(Words) /\ "SIGN" \notin d.flags /\ d.width \in Int /\ d.precision \in Int
    <3>1. Char(d.at) # "*"
      BY <2>1 DEF Conversions
    <3>. QED BY <2>3, <3>1 DEF Typed
  <2>5. arg \in Words /\ args' \in Seq(Words)
    <3>1. args' \in Seq(Words)
      BY <2>1, <2>4, LeftType
    <3>2. arg \in Words
      BY <2>2, <2>4 DEF Taken
    <3>. QED BY <3>1, <3>2
  <2>6. FieldTyped'
    <3>0. PICK c, e : c = Char(d.at) /\ e = field'
      OBVIOUS
    <3>1. /\ DOMAIN e = {"kind", "width", "precision", "flags", "arg", "text"}
          /\ e.kind = c /\ e.width = d.width /\ e.precision = d.precision /\ e.flags = d.flags
          /\ e.arg = arg /\ e.text = Converted(d, c, arg)
      BY <2>2, <3>0
    <3>2. Converted(d, c, arg) = Converted(e, c, arg)
      BY <3>1, ConvertedSame
    <3>3. c \in Conversions
      BY <2>1, <3>0
    <3>. QED BY <2>4, <2>5, <3>0, <3>1, <3>2, <3>3 DEF FieldTyped
  <2>. QED BY <1>1, <2>1, <2>3, <2>5, <2>6 DEF ScanInv
<1>5. CASE Unknown
  <2>1. /\ Char(fmt) = "%" /\ format' = format /\ args' = d.args /\ field' = NoField
        /\ fmt' = IF Char(d.at) = "NUL" THEN d.at ELSE d.at + 1
    BY <1>0, <1>5 DEF Unknown
  <2>2. /\ d.at \in 1 .. Len(format) + 1 /\ (Char(d.at) # "NUL" => d.at <= Len(format))
        /\ d.args \in Seq(Words)
    BY <1>3, <2>1 DEF Typed
  <2>. QED BY <1>1, <2>1, <2>2 DEF ScanInv
<1>6. CASE UNCHANGED formatting
  BY <1>6 DEF formatting, ScanInv, FieldTyped
<1>. QED BY <1>2, <1>4, <1>5, <1>6 DEF FormatNext

LEMMA ScanKept == FormatSpec => []ScanInv
<1>1. FormatInit => ScanInv
  BY FormatAssumption DEF FormatInit, ScanInv
<1>. QED BY <1>1, ScanStep, PTL DEF FormatSpec

(* Whatever a format breaks off in - a flag, a width, a precision, a '%'   *)
(* - vsprintf does not read behind the terminator, for every format.       *)
THEOREM ScanStaysInFormat == FormatSpec => []ScanEndsAtTerminator
<1>1. ScanInv => ScanEndsAtTerminator
  BY DEF ScanInv, ScanEndsAtTerminator
<1>. QED BY <1>1, ScanKept, PTL

(* For every format, argument and width of word, a number vsprintf writes  *)
(* reads back as its argument, its digits fit into tmp, and every field is *)
(* as wide as asked, with what fills it on the side its flags say.         *)
THEOREM FieldsKept == FormatSpec => []FieldsAsAsked
<1>1. ScanInv => FieldsAsAsked
  BY TypedAsAsked DEF ScanInv
<1>. QED BY <1>1, ScanKept, PTL

-----------------------------------------------------------------------------
(* Names.                                                                  *)

LEMMA Characters ==
  ASSUME NEW s, Name(s)
  PROVE  /\ s \in Seq(STRING) /\ Len(s) \in Nat
         /\ \A k \in Nat \ {0} : IF k <= Len(s) THEN CharAt(s, k) = s[k] /\ s[k] # "NUL"
                                 ELSE CharAt(s, k) = "NUL"
BY DEF Name, CharAt

(* strcmp calls two strings equal if they are, or if they are equally long *)
(* and differ in the last character only, and no others.                   *)
THEOREM StringsCompared ==
  ASSUME NEW a, NEW b, Name(a), Name(b)
  PROVE  strcmp(a, b) = 0 <=> a = b \/ SameButLast(a, b)
<1>. DEFINE Differ(k) == CharAt(a, k) = "NUL" \/ CharAt(a, k) # CharAt(b, k)
            Stop(k) == Differ(k) /\ \A j \in 1..k-1 : CharAt(a, j) = CharAt(b, j)
            T == {k \in 1..Len(a)+1 : Differ(k)}
<1>1. /\ a \in Seq(STRING) /\ Len(a) \in Nat /\ b \in Seq(STRING) /\ Len(b) \in Nat
      /\ \A k \in Nat \ {0} : IF k <= Len(a) THEN CharAt(a, k) = a[k] /\ a[k] # "NUL"
                              ELSE CharAt(a, k) = "NUL"
      /\ \A k \in Nat \ {0} : IF k <= Len(b) THEN CharAt(b, k) = b[k] /\ b[k] # "NUL"
                              ELSE CharAt(b, k) = "NUL"
  BY Characters
<1>2. T \subseteq Nat /\ Len(a) + 1 \in T
  BY <1>1
<1>3. PICK m \in T : \A k \in T : ~(k < m)
  <2>. HIDE DEF T
  <2>. QED BY <1>2, Smallest
<1>4. m \in 1..Len(a)+1 /\ Stop(m)
  <2>1. ASSUME NEW j \in 1..m-1 PROVE CharAt(a, j) = CharAt(b, j)
    <3>1. j \in 1..Len(a)+1 /\ j < m
      BY <1>1
    <3>. QED BY <1>3, <3>1
  <2>. QED BY <2>1
<1>. DEFINE stop == CHOOSE k \in 1..Len(a)+1 : Stop(k)
<1>5. PICK k \in 1..Len(a)+1 : k = stop /\ Stop(k)
  <2>. HIDE DEF Stop
  <2>. QED BY <1>4
<1>6. strcmp(a, b) =
        LET ended == CharAt(a, stop) = "NUL" \/ CharAt(b, stop) = "NUL"
            next == IF ended THEN stop ELSE stop + 1
        IN IF CharAt(a, next) # "NUL" THEN 1 ELSE IF CharAt(b, next) # "NUL" THEN -1 ELSE 0
  BY DEF strcmp
<1>. HIDE DEF stop
<1>7. \A j \in 1..k-1 : /\ j \in Nat \ {0} /\ j <= Len(a) /\ CharAt(a, j) = CharAt(b, j)
                        /\ j <= Len(b) /\ a[j] = b[j]
  BY <1>1, <1>5
<1>8. k \in Nat \ {0} /\ k + 1 \in Nat \ {0}
  BY <1>1
<1>9. CASE CharAt(a, k) = "NUL"
  <2>1. k = Len(a) + 1 /\ Len(a) <= Len(b)
    <3>1. k = Len(a) + 1
      BY <1>1, <1>8, <1>9
    <3>2. Len(a) = 0 \/ Len(a) \in 1..k-1
      BY <1>1, <3>1
    <3>. QED BY <1>1, <1>7, <3>1, <3>2
  <2>2. strcmp(a, b) = 0 <=> CharAt(b, k) = "NUL"
    BY <1>5, <1>6, <1>9
  <2>3. CharAt(b, k) = "NUL" <=> Len(b) = Len(a)
    BY <1>1, <1>8, <2>1
  <2>4. Len(b) = Len(a) => a = b
    <3>. SUFFICES ASSUME Len(b) = Len(a) PROVE a = b
      OBVIOUS
    <3>1. \A j \in 1..Len(a) : a[j] = b[j]
      BY <1>1, <1>7, <2>1
    <3>. QED BY <1>1, <3>1
  <2>. QED BY <2>2, <2>3, <2>4 DEF SameButLast
<1>10. CASE CharAt(a, k) # "NUL" /\ CharAt(b, k) = "NUL"
  <2>1. strcmp(a, b) # 0
    BY <1>5, <1>6, <1>10
  <2>2. Len(b) # Len(a)
    BY <1>1, <1>8, <1>10
  <2>. QED BY <2>1, <2>2 DEF SameButLast
<1>11. CASE CharAt(a, k) # "NUL" /\ CharAt(b, k) # "NUL"
  <2>1. k <= Len(a) /\ k <= Len(b) /\ a[k] # b[k]
    BY <1>1, <1>5, <1>8, <1>11
  <2>2. strcmp(a, b) = 0 <=> CharAt(a, k + 1) = "NUL" /\ CharAt(b, k + 1) = "NUL"
    BY <1>5, <1>6, <1>11
  <2>3. strcmp(a, b) = 0 <=> k = Len(a) /\ k = Len(b)
    BY <1>1, <1>8, <2>1, <2>2
  <2>4. ASSUME k = Len(a), k = Len(b) PROVE SameButLast(a, b)
    <3>1. SubSeq(a, 1, Len(a) - 1) = SubSeq(b, 1, Len(b) - 1)
      BY <1>1, <1>7, <2>4
    <3>. QED BY <1>8, <2>4, <3>1 DEF SameButLast
  <2>5. ASSUME SameButLast(a, b) PROVE k = Len(a) /\ k = Len(b)
    <3>1. Len(a) = Len(b) /\ SubSeq(a, 1, Len(a) - 1) = SubSeq(b, 1, Len(a) - 1)
      BY <2>5 DEF SameButLast
    <3>2. \A j \in 1..Len(a)-1 : SubSeq(a, 1, Len(a) - 1)[j] = a[j] /\ SubSeq(b, 1, Len(a) - 1)[j] = b[j]
      BY <1>1, <3>1
    <3>3. k \notin 1..Len(a)-1
      BY <2>1, <3>1, <3>2
    <3>. QED BY <1>1, <1>8, <2>1, <3>1, <3>3
  <2>6. a # b
    BY <2>1
  <2>. QED BY <2>3, <2>4, <2>5, <2>6
<1>. QED BY <1>9, <1>10, <1>11

(* n is the last section of those gone through whose name strcmp takes for *)
(* this one, or 0.                                                         *)
LastTaken(name, n) ==
  /\ n \in 0..i-1
  /\ n > 0 => TakenFor(sections[n], name)
  /\ \A k \in n+1 .. i-1 : ~TakenFor(sections[k], name)

TablesInv ==
  /\ sections \in Sections /\ i \in 1 .. Len(sections) + 1
  /\ elf = [strtab |-> elf.strtab, symtab |-> elf.symtab]
  /\ LastTaken(STRTAB, elf.strtab) /\ LastTaken(SYMTAB, elf.symtab)

LEMMA TablesStep == TablesInv /\ [elf_from_multiboot]_looking => TablesInv'
<1>. SUFFICES ASSUME TablesInv, [elf_from_multiboot]_looking PROVE TablesInv'
  OBVIOUS
<1>0. /\ sections \in Seq(Seq(STRING)) /\ Len(sections) \in Nat /\ i \in Nat \ {0}
      /\ \A k \in 1..Len(sections) : Name(sections[k])
      /\ Name(STRTAB) /\ Name(SYMTAB)
  BY NameAssumption DEF TablesInv
<1>1. CASE elf_from_multiboot
  <2>1. /\ i \in 1..Len(sections) /\ i' = i + 1 /\ sections' = sections
        /\ elf' = [strtab |-> IF strcmp(sections[i], STRTAB) = 0 THEN i ELSE elf.strtab,
                   symtab |-> IF strcmp(sections[i], SYMTAB) = 0 THEN i ELSE elf.symtab]
    BY <1>0, <1>1 DEF elf_from_multiboot, TablesInv
  <2>2. ASSUME NEW name \in {STRTAB, SYMTAB}, NEW n, LastTaken(name, n),
               NEW m, m = IF strcmp(sections[i], name) = 0 THEN i ELSE n
        PROVE  LastTaken(name, m)'
    <3>1. strcmp(sections[i], name) = 0 <=> TakenFor(sections[i], name)
      <4>1. Name(sections[i]) /\ Name(name)
        BY <1>0, <2>1
      <4>. QED BY <4>1, StringsCompared DEF TakenFor
    <3>2. /\ n \in 0..i-1 /\ (n > 0 => TakenFor(sections[n], name))
          /\ \A k \in n+1 .. i-1 : ~TakenFor(sections[k], name)
      BY <2>2 DEF LastTaken
    <3>3. /\ m \in 0..i'-1 /\ (m > 0 => TakenFor(sections'[m], name))
          /\ \A k \in m+1 .. i'-1 : ~TakenFor(sections'[k], name)
      <4>1. CASE TakenFor(sections[i], name)
        BY <1>0, <2>1, <2>2, <3>1, <4>1
      <4>2. CASE ~TakenFor(sections[i], name)
        <5>1. m = n
          BY <2>2, <3>1, <4>2
        <5>2. \A k \in n+1 .. i'-1 : k = i \/ k \in n+1 .. i-1
          BY <1>0, <2>1, <3>2
        <5>. QED BY <1>0, <2>1, <3>2, <4>2, <5>1, <5>2
      <4>. QED BY <4>1, <4>2
    <3>. QED BY <3>3 DEF LastTaken, TakenFor
  <2>. PICK n1, n2 : n1 = elf.strtab /\ n2 = elf.symtab
    OBVIOUS
  <2>. PICK m1, m2 : /\ m1 = IF strcmp(sections[i], STRTAB) = 0 THEN i ELSE n1
                     /\ m2 = IF strcmp(sections[i], SYMTAB) = 0 THEN i ELSE n2
    OBVIOUS
  <2>3. LastTaken(STRTAB, m1)' /\ LastTaken(SYMTAB, m2)'
    <3>1. LastTaken(STRTAB, n1) /\ LastTaken(SYMTAB, n2)
      BY DEF TablesInv
    <3>. QED BY <2>2, <3>1
  <2>4. elf' = [strtab |-> m1, symtab |-> m2]
    BY <2>1
  <2>5. sections' \in Sections /\ i' \in 1 .. Len(sections') + 1
    BY <1>0, <2>1 DEF TablesInv
  <2>. QED BY <2>3, <2>4, <2>5 DEF TablesInv, LastTaken
<1>2. CASE UNCHANGED looking
  BY <1>2 DEF looking, TablesInv, LastTaken
<1>. QED BY <1>1, <1>2

LEMMA LastIsOne ==
  ASSUME i \in Nat \ {0}, NEW name, NEW n, NEW m, LastTaken(name, n), LastTaken(name, m)
  PROVE  n = m
<1>1. n \in 0..i-1 /\ m \in 0..i-1
  BY DEF LastTaken
<1>2. ~(n < m)
  BY <1>1 DEF LastTaken
<1>3. ~(m < n)
  BY <1>1 DEF LastTaken
<1>. QED BY <1>1, <1>2, <1>3

(* For any section table, elf_from_multiboot ends with the last section    *)
(* whose name is, but perhaps for its last character, the one looked for.  *)
THEOREM TablesByName == ElfSpec => []TablesFound
<1>1. ElfInit => TablesInv
  BY NameAssumption DEF ElfInit, TablesInv, LastTaken
<1>2. TablesInv => TablesFound
  <2>. SUFFICES ASSUME TablesInv
                PROVE  elf = [strtab |-> CHOOSE n \in 0..i-1 : LastTaken(STRTAB, n),
                              symtab |-> CHOOSE n \in 0..i-1 : LastTaken(SYMTAB, n)]
    <3>1. \A name, n : n \in 0..i-1 =>
            (LastTaken(name, n) <=> /\ n > 0 => TakenFor(sections[n], name)
                                    /\ \A k \in n+1 .. i-1 : ~TakenFor(sections[k], name))
      BY DEF LastTaken
    <3>. QED BY DEF TablesFound, LastTaken
  <2>1. /\ i \in Nat \ {0} /\ elf = [strtab |-> elf.strtab, symtab |-> elf.symtab]
        /\ LastTaken(STRTAB, elf.strtab) /\ LastTaken(SYMTAB, elf.symtab)
    BY NameAssumption DEF TablesInv
  <2>2. \A name, n : LastTaken(name, n) => n \in 0..i-1
    BY DEF LastTaken
  <2>3. (CHOOSE n \in 0..i-1 : LastTaken(STRTAB, n)) = elf.strtab
    BY <2>1, <2>2, LastIsOne
  <2>4. (CHOOSE n \in 0..i-1 : LastTaken(SYMTAB, n)) = elf.symtab
    BY <2>1, <2>2, LastIsOne
  <2>. QED BY <2>1, <2>3, <2>4
<1>. QED BY <1>1, <1>2, TablesStep, PTL DEF ElfSpec
=============================================================================
