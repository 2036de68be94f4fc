---------------------------- MODULE KernelHeapProofs ----------------------------
(***************************************************************************)
(* Proofs about KernelHeap: the block manager keeps its pools tiled with   *)
(* blocks and its free lists and bitmaps exact under any calls, and to its *)
(* callers the heap is the abstract one of Heap.                           *)
(***************************************************************************)
EXTENDS KernelHeap, FiniteSetTheorems, SequenceTheorems, WellFoundedInduction, TLAPS

(***************************************************************************)
(* Numbers.                                                                *)
(***************************************************************************)
LEMMA Least ==
    ASSUME NEW S, S \subseteq Nat, S # {}
    PROVE  \E m \in S : \A y \in S : m <= y
  <1> DEFINE R == {ss \in Nat \X Nat : ss[1] < ss[2]}
  <1>1. IsWellFoundedOn(R, Nat)  BY NatLessThanWellFounded DEF OpToRel
  <1>2. PICK m \in S : \A y \in S : ~ (<<y, m>> \in R)
    <2> HIDE DEF R
    <2> QED BY <1>1, WFMin
  <1>3. \A y \in S : m <= y
    <2> TAKE y \in S
    <2>1. y \in Nat /\ m \in Nat /\ <<y, m>> \in Nat \X Nat  OBVIOUS
    <2>2. ~(y < m)  BY <1>2, <2>1
    <2> QED BY <2>1, <2>2
  <1> QED BY <1>3

LEMMA MinIs ==
    ASSUME NEW S, S \subseteq Nat, S # {}, NEW m, m = Min(S)
    PROVE  m \in S /\ \A y \in S : m <= y
  <1>1. \E x \in S : \A y \in S : x <= y  BY Least
  <1> QED BY <1>1 DEF Min

\* Induction over the natural numbers, by the least number not in a set.
LEMMA Up ==
    ASSUME NEW S, 0 \in S, \A k \in Nat : k \in S => k + 1 \in S
    PROVE  Nat \subseteq S
  <1> DEFINE T == Nat \ S
  <1>1. ASSUME T # {} PROVE FALSE
    <2>1. PICK x \in T : \A y \in T : x <= y
      <3>1. T \subseteq Nat  OBVIOUS
      <3> HIDE DEF T
      <3> QED BY <1>1, <3>1, Least
    <2>2. x \in Nat /\ x # 0 /\ x - 1 \in Nat  OBVIOUS
    <2>3. x - 1 \notin T  BY <2>1, <2>2
    <2> QED BY <2>2, <2>3
  <1> QED BY <1>1

Top == FlIndexMax + 1

LEMMA Indices ==
    /\ SlIndexCountLog2 \in Nat /\ SlIndexCountLog2 >= 1
    /\ FlIndexMax \in Nat /\ FlIndexMax >= SlIndexCountLog2 + 1
    /\ Top \in Nat /\ Top = FlIndexMax + 1
    /\ FlIndexCount \in Nat /\ FlIndexCount >= 2
    /\ FlIndexCount = FlIndexMax - SlIndexCountLog2 + 1
  BY IndexAssumption DEF Top, FlIndexCount

\* The powers of two up to m.
Doubling(m, f) == f = [n \in 0 .. m |-> IF n = 0 THEN 1 ELSE 2 * f[n - 1]]

LEMMA PowersExist == \A m \in Nat : \E f : Doubling(m, f)
  <1> DEFINE S == {m \in Nat : \E f : Doubling(m, f)}
  <1>1. 0 \in S
    <2> DEFINE f == [n \in 0 .. 0 |-> 1]
    <2>1. f = [n \in 0 .. 0 |-> IF n = 0 THEN 1 ELSE 2 * f[n - 1]]  OBVIOUS
    <2> HIDE DEF f
    <2>2. Doubling(0, f)  BY <2>1 DEF Doubling
    <2> QED BY <2>2
  <1>2. ASSUME NEW k \in Nat, k \in S PROVE k + 1 \in S
    <2>1. PICK f : Doubling(k, f)  BY <1>2
    <2> DEFINE g == [n \in 0 .. k + 1 |-> IF n = k + 1 THEN 2 * f[k] ELSE f[n]]
    <2>2. f = [n \in 0 .. k |-> IF n = 0 THEN 1 ELSE 2 * f[n - 1]]  BY <2>1 DEF Doubling
    <2>3. \A n \in 0 .. k : f[n] = IF n = 0 THEN 1 ELSE 2 * f[n - 1]  BY <2>2
    <2>4. ASSUME NEW n \in 0 .. k + 1 PROVE g[n] = IF n = 0 THEN 1 ELSE 2 * g[n - 1]
      <3>1. CASE n = k + 1
        <4>1. n - 1 = k /\ n # 0 /\ k \in 0 .. k + 1 /\ k # k + 1  BY <3>1
        <4>2. g[n] = 2 * f[k] /\ g[k] = f[k]  BY <3>1, <4>1
        <4> QED BY <4>1, <4>2
      <3>2. CASE n # k + 1
        <4>1. n \in 0 .. k /\ (n # 0 => n - 1 \in 0 .. k + 1 /\ n - 1 # k + 1)  BY <3>2
        <4>2. g[n] = f[n] /\ (n # 0 => g[n - 1] = f[n - 1])  BY <3>2, <4>1
        <4> QED BY <2>3, <4>1, <4>2
      <3> QED BY <3>1, <3>2
    <2>5. DOMAIN g = 0 .. k + 1 /\ g = [n \in 0 .. k + 1 |-> g[n]]  OBVIOUS
    <2> HIDE DEF g
    <2>6. g = [n \in 0 .. k + 1 |-> IF n = 0 THEN 1 ELSE 2 * g[n - 1]]  BY <2>4, <2>5
    <2>7. Doubling(k + 1, g)  BY <2>6 DEF Doubling
    <2> QED BY <2>7
  <1>3. Nat \subseteq S
    <2> HIDE DEF S
    <2> QED BY <1>1, <1>2, Up
  <1> QED BY <1>3

LEMMA Powers ==
    /\ Pow2[0] = 1
    /\ \A n \in 0 .. FlIndexMax : Pow2[n + 1] = 2 * Pow2[n]
  <1> DEFINE m == Top
  <1>1. m \in Nat /\ FlIndexMax \in Nat /\ m = FlIndexMax + 1  BY Indices
  <1>2. \E f : Doubling(m, f)  BY <1>1, PowersExist
  <1>3. Pow2 = CHOOSE f : f = [n \in 0 .. FlIndexMax + 1 |-> IF n = 0 THEN 1 ELSE 2 * f[n - 1]]
    BY DEF Pow2
  <1>4. Pow2 = [n \in 0 .. FlIndexMax + 1 |-> IF n = 0 THEN 1 ELSE 2 * Pow2[n - 1]]
    BY <1>2, <1>3 DEF Doubling, Top
  <1>5. 0 \in 0 .. FlIndexMax + 1 /\ \A n \in 0 .. FlIndexMax : n + 1 \in 0 .. FlIndexMax + 1 /\ n + 1 # 0
        /\ (n + 1) - 1 = n
    BY <1>1
  <1>6. Pow2[0] = 1  BY <1>4, <1>5
  <1>7. ASSUME NEW n \in 0 .. FlIndexMax PROVE Pow2[n + 1] = 2 * Pow2[n]
    BY <1>4, <1>5
  <1> QED BY <1>6, <1>7

LEMMA PowerStep ==
    /\ \A n \in 0 .. Top : Pow2[n] \in Nat \ {0}
    /\ \A n \in 0 .. FlIndexMax : Pow2[n + 1] = Pow2[n] + Pow2[n]
    /\ Pow2[0] = 1
  <1> DEFINE S == {n \in Nat : n <= Top => Pow2[n] \in Nat \ {0}}
  <1>1. Top \in Nat /\ FlIndexMax \in Nat /\ Top = FlIndexMax + 1  BY Indices
  <1>2. 0 \in S  BY Powers
  <1>3. ASSUME NEW k \in Nat, k \in S PROVE k + 1 \in S
    <2> SUFFICES ASSUME k + 1 <= Top PROVE Pow2[k + 1] \in Nat \ {0}
      OBVIOUS
    <2>1. k \in 0 .. FlIndexMax /\ k <= Top  BY <1>1
    <2>2. Pow2[k] \in Nat \ {0} /\ Pow2[k + 1] = 2 * Pow2[k]  BY <1>3, <2>1, Powers
    <2> QED BY <2>2
  <1>4. Nat \subseteq S
    <2> HIDE DEF S
    <2> QED BY <1>2, <1>3, Up
  <1>5. \A n \in 0 .. Top : Pow2[n] \in Nat \ {0}  BY <1>1, <1>4
  <1>6. ASSUME NEW n \in 0 .. FlIndexMax PROVE Pow2[n + 1] = Pow2[n] + Pow2[n]
    <2>1. Pow2[n + 1] = 2 * Pow2[n] /\ Pow2[n] \in Nat  BY <1>1, <1>5, Powers
    <2> QED BY <2>1
  <1> QED BY <1>5, <1>6, Powers

LEMMA PowerRises ==
    \A m, n \in 0 .. Top : m < n => Pow2[m] + Pow2[m] <= Pow2[n]
  <1> SUFFICES ASSUME NEW m \in 0 .. Top
               PROVE  \A n \in 0 .. Top : m < n => Pow2[m] + Pow2[m] <= Pow2[n]
    OBVIOUS
  <1> DEFINE S == {k \in Nat : m + k + 1 <= Top => Pow2[m] + Pow2[m] <= Pow2[m + k + 1]}
  <1>1. Top \in Nat /\ FlIndexMax \in Nat /\ Top = FlIndexMax + 1  BY Indices
  <1>2. 0 \in S
    <2> SUFFICES ASSUME m + 0 + 1 <= Top PROVE Pow2[m] + Pow2[m] <= Pow2[m + 0 + 1]
      OBVIOUS
    <2>1. m \in 0 .. FlIndexMax /\ m + 0 + 1 = m + 1  BY <1>1
    <2>2. Pow2[m] \in Nat /\ Pow2[m + 1] = Pow2[m] + Pow2[m]  BY <2>1, PowerStep
    <2> QED BY <2>1, <2>2
  <1>3. ASSUME NEW k \in Nat, k \in S PROVE k + 1 \in S
    <2> SUFFICES ASSUME m + (k + 1) + 1 <= Top
                 PROVE  Pow2[m] + Pow2[m] <= Pow2[m + (k + 1) + 1]
      OBVIOUS
    <2> DEFINE n == m + k + 1
    <2>1. n \in 0 .. FlIndexMax /\ n \in 0 .. Top /\ m + (k + 1) + 1 = n + 1 /\ n <= Top
      BY <1>1
    <2>2. Pow2[m] + Pow2[m] <= Pow2[n]  BY <1>3, <2>1
    <2> HIDE DEF n
    <2>3. /\ Pow2[m] \in Nat /\ Pow2[n] \in Nat /\ Pow2[n + 1] = Pow2[n] + Pow2[n]
      BY <2>1, PowerStep
    <2> QED BY <2>1, <2>2, <2>3
  <1>4. Nat \subseteq S
    <2> HIDE DEF S
    <2> QED BY <1>2, <1>3, Up
  <1>5. ASSUME NEW n \in 0 .. Top, m < n PROVE Pow2[m] + Pow2[m] <= Pow2[n]
    <2>1. n - m - 1 \in Nat /\ m + (n - m - 1) + 1 = n /\ n <= Top  BY <1>1, <1>5
    <2>2. n - m - 1 \in S  BY <1>4, <2>1
    <2> QED BY <2>1, <2>2
  <1> QED BY <1>5

LEMMA PowerSum ==
    ASSUME NEW m \in Nat, NEW n \in Nat, m + n <= Top
    PROVE  Pow2[m + n] = Pow2[m] * Pow2[n]
  <1> DEFINE S == {k \in Nat : m + k <= Top => Pow2[m + k] = Pow2[m] * Pow2[k]}
  <1>1. Top \in Nat /\ FlIndexMax \in Nat /\ Top = FlIndexMax + 1  BY Indices
  <1>2. 0 \in S
    <2> SUFFICES ASSUME m + 0 <= Top PROVE Pow2[m + 0] = Pow2[m] * Pow2[0]
      OBVIOUS
    <2>1. m + 0 = m /\ m \in 0 .. Top  BY <1>1
    <2>2. Pow2[m] \in Nat /\ Pow2[0] = 1  BY <2>1, PowerStep
    <2> QED BY <2>1, <2>2
  <1>3. ASSUME NEW k \in Nat, k \in S PROVE k + 1 \in S
    <2> SUFFICES ASSUME m + (k + 1) <= Top PROVE Pow2[m + (k + 1)] = Pow2[m] * Pow2[k + 1]
      OBVIOUS
    <2> DEFINE s == m + k
    <2>1. /\ s \in 0 .. FlIndexMax /\ m + (k + 1) = s + 1 /\ s <= Top
          /\ k \in 0 .. FlIndexMax /\ m \in 0 .. Top /\ k \in 0 .. Top
      BY <1>1
    <2>2. Pow2[s] = Pow2[m] * Pow2[k]  BY <1>3, <2>1
    <2> HIDE DEF s
    <2>3. /\ Pow2[s + 1] = 2 * Pow2[s] /\ Pow2[k + 1] = 2 * Pow2[k]
          /\ Pow2[m] \in Nat /\ Pow2[k] \in Nat
      BY <2>1, Powers, PowerStep
    <2>4. \A a, b \in Nat : 2 * (a * b) = a * (2 * b)  OBVIOUS
    <2> QED BY <2>1, <2>2, <2>3, <2>4
  <1>4. Nat \subseteq S
    <2> HIDE DEF S
    <2> QED BY <1>2, <1>3, Up
  <1> QED BY <1>4

LEMMA FlsIs ==
    ASSUME NEW n \in Nat, 1 <= n, n < Pow2[Top]
    PROVE  /\ Fls(n) \in 0 .. FlIndexMax
           /\ Pow2[Fls(n)] <= n /\ n < Pow2[Fls(n) + 1]
  <1> DEFINE S == {k \in 0 .. FlIndexMax : n < Pow2[k + 1]}
  <1>1. Top \in Nat /\ FlIndexMax \in Nat /\ Top = FlIndexMax + 1  BY Indices
  <1>2. FlIndexMax \in S  BY <1>1
  <1>3. PICK k \in S : \A y \in S : k <= y
    <2>1. S \subseteq Nat /\ S # {}  BY <1>2
    <2> HIDE DEF S
    <2> QED BY <2>1, Least
  <1>4. Pow2[k] <= n
    <2>1. CASE k = 0  BY <2>1, PowerStep
    <2>2. CASE k # 0
      <3>1. k - 1 \in 0 .. FlIndexMax /\ (k - 1) + 1 = k /\ k - 1 < k /\ k \in 0 .. Top
        BY <1>1, <2>2
      <3>2. k - 1 \notin S  BY <1>3, <3>1
      <3>3. ~(n < Pow2[k]) /\ Pow2[k] \in Nat  BY <3>1, <3>2, PowerStep
      <3> QED BY <3>3
    <2> QED BY <2>1, <2>2
  <1>5. \E j \in 0 .. FlIndexMax : Pow2[j] <= n /\ n < Pow2[j + 1]  BY <1>3, <1>4
  <1> QED BY <1>5 DEF Fls

LEMMA FlsUnique ==
    ASSUME NEW n \in Nat, NEW k \in 0 .. FlIndexMax, Pow2[k] <= n, n < Pow2[k + 1]
    PROVE  Fls(n) = k
  <1>1. Top \in Nat /\ FlIndexMax \in Nat /\ Top = FlIndexMax + 1  BY Indices
  <1>2. ASSUME NEW i \in 0 .. FlIndexMax, NEW j \in 0 .. FlIndexMax, i < j,
               n < Pow2[i + 1], Pow2[j] <= n
        PROVE  FALSE
    <2>1. i + 1 \in 0 .. Top /\ j \in 0 .. Top /\ (i + 1 = j \/ i + 1 < j)  BY <1>1, <1>2
    <2>2. Pow2[i + 1] \in Nat /\ Pow2[j] \in Nat  BY <2>1, PowerStep
    <2>3. Pow2[i + 1] <= Pow2[j]
      <3>1. CASE i + 1 = j  BY <2>2, <3>1
      <3>2. CASE i + 1 < j
        <4>1. Pow2[i + 1] + Pow2[i + 1] <= Pow2[j]  BY <2>1, <3>2, PowerRises
        <4> QED BY <2>2, <4>1
      <3> QED BY <2>1, <3>1, <3>2
    <2> QED BY <1>2, <2>2, <2>3
  <1> DEFINE f == Fls(n)
  <1>3. f \in 0 .. FlIndexMax /\ Pow2[f] <= n /\ n < Pow2[f + 1]
    <2>1. \E j \in 0 .. FlIndexMax : Pow2[j] <= n /\ n < Pow2[j + 1]  OBVIOUS
    <2> QED BY <2>1 DEF Fls
  <1> HIDE DEF f
  <1>4. ~(f < k) /\ ~(k < f)  BY <1>2, <1>3
  <1>5. f = k  BY <1>1, <1>3, <1>4
  <1> QED BY <1>5 DEF f

(***************************************************************************)
(* Size classes: class (i, j) has the sizes from Floor(i, j) on, Width(i)  *)
(* of them, and the classes of larger sizes come later.                    *)
(***************************************************************************)
Width(i) == IF i = 0 THEN 1 ELSE Pow2[i - 1]
Floor(i, j) == IF i = 0 THEN j ELSE (j + SlIndexCount) * Width(i)
Before(i, j, a, b) == i < a \/ (i = a /\ j < b)
InClass(n, i, j) == Floor(i, j) <= n /\ n < Floor(i, j) + Width(i)

Rows == 0 .. FlIndexCount - 1
Cols == 0 .. SlIndexCount - 1

LEMMA Slots ==
    /\ SlIndexCount \in Nat /\ SlIndexCount >= 2 /\ SmallBlockSize = SlIndexCount
    /\ SlIndexCount = Pow2[SlIndexCountLog2]
    /\ BlockSizeMax \in Nat /\ BlockSizeMax >= 4 /\ BlockSizeMax = Pow2[FlIndexMax]
    /\ SlIndexCount + SlIndexCount <= BlockSizeMax
    /\ Pow2[Top] \in Nat /\ Pow2[Top] = BlockSizeMax + BlockSizeMax
    /\ BlockSizeMax < Pow2[Top]
  <1> DEFINE s == SlIndexCountLog2
             f == FlIndexMax
  <1>1. /\ s \in 0 .. Top /\ f \in 0 .. Top /\ Top \in 0 .. Top /\ 0 \in 0 .. Top
        /\ s < f /\ 0 < s /\ f \in 0 .. FlIndexMax /\ f + 1 = Top
    BY Indices
  <1>2. Pow2[s] \in Nat /\ Pow2[f] \in Nat /\ Pow2[Top] \in Nat /\ Pow2[0] = 1
        /\ Pow2[f + 1] = Pow2[f] + Pow2[f]
    BY <1>1, PowerStep
  <1>3. Pow2[s] + Pow2[s] <= Pow2[f] /\ Pow2[0] + Pow2[0] <= Pow2[s]
    BY <1>1, PowerRises
  <1>4. SlIndexCount = Pow2[s] /\ SmallBlockSize = Pow2[s] /\ BlockSizeMax = Pow2[f]
    BY DEF SlIndexCount, SmallBlockSize, BlockSizeMax
  <1> HIDE DEF s, f
  <1> QED BY <1>1, <1>2, <1>3, <1>4 DEF s, f

LEMMA Widths ==
    ASSUME NEW i \in 0 .. FlIndexCount
    PROVE  /\ Width(i) \in Nat /\ Width(i) >= 1
           /\ i - 1 <= Top
  <1>1. i # 0 => i - 1 \in 0 .. Top  BY Indices
  <1> QED BY <1>1, Indices, PowerStep DEF Width

LEMMA FloorNat ==
    ASSUME NEW i \in 0 .. FlIndexCount, NEW j \in Cols
    PROVE  Floor(i, j) \in Nat
  <1>1. Width(i) \in Nat /\ SlIndexCount \in Nat /\ j \in Nat  BY Widths, Slots DEF Cols
  <1>2. \A x, y \in Nat : x * y \in Nat  OBVIOUS
  <1>3. (j + SlIndexCount) * Width(i) \in Nat  BY <1>1, <1>2
  <1> QED BY <1>1, <1>3 DEF Floor

\* Facts of arithmetic that the provers are given one by one.
LEMMA Products ==
    /\ \A x, y \in Nat : x * y \in Nat
    /\ \A x, y, z \in Nat : x <= y => x * z <= y * z
    /\ \A x, z \in Nat : (x + 1) * z = x * z + z
    /\ \A x, y, z \in Nat : (x + y) * z = x * z + y * z
    /\ \A x, y \in Nat : x * y = y * x
    /\ \A x, y \in Nat : y >= 1 => x <= x * y
  <1>1. \A x, y \in Nat : x * y \in Nat  OBVIOUS
  <1>2. ASSUME NEW x \in Nat, NEW y \in Nat, NEW z \in Nat, x <= y PROVE x * z <= y * z
    <2>1. y - x \in Nat /\ (y - x) * z \in Nat  BY <1>2
    <2>2. y * z = x * z + (y - x) * z  OBVIOUS
    <2> QED BY <1>1, <2>1, <2>2
  <1>3. \A x, z \in Nat : (x + 1) * z = x * z + z  OBVIOUS
  <1>4. \A x, y, z \in Nat : (x + y) * z = x * z + y * z  OBVIOUS
  <1>5. \A x, y \in Nat : x * y = y * x  OBVIOUS
  <1>6. ASSUME NEW x \in Nat, NEW y \in Nat, y >= 1 PROVE x <= x * y
    <2>1. 1 * x <= y * x  BY <1>2, <1>6
    <2> QED BY <1>5, <2>1
  <1> QED BY <1>1, <1>2, <1>3, <1>4, <1>5, <1>6

LEMMA FloorRises ==
    ASSUME NEW i \in 0 .. FlIndexCount, NEW j \in Cols,
           NEW a \in 0 .. FlIndexCount, NEW b \in Cols, Before(i, j, a, b)
    PROVE  Floor(i, j) + Width(i) <= Floor(a, b)
  <1> DEFINE w == Width(i)
             v == Width(a)
             c == SlIndexCount
  <1>1. /\ w \in Nat /\ v \in Nat /\ w >= 1 /\ v >= 1 /\ c \in Nat /\ c >= 2
        /\ j \in Nat /\ b \in Nat /\ j + 1 <= c
    BY Widths, Slots DEF Cols
  <1>2. /\ (i = 0 => Floor(i, j) = j /\ w = 1) /\ (i # 0 => Floor(i, j) = (j + c) * w)
        /\ (a = 0 => Floor(a, b) = b) /\ (a # 0 => Floor(a, b) = (b + c) * v)
    BY DEF Floor, Width
  <1>3. (i = a => w = v) /\ w = Width(i)  OBVIOUS
  <1>4. i < a /\ i # 0 => w + w <= v
    <2> HAVE i < a /\ i # 0
    <2>1. i - 1 \in 0 .. Top /\ a - 1 \in 0 .. Top /\ i - 1 < a - 1 /\ a # 0  BY Indices
    <2>2. w = Pow2[i - 1] /\ v = Pow2[a - 1]  BY <2>1 DEF Width
    <2> HIDE DEF w, v
    <2> QED BY <2>1, <2>2, PowerRises
  <1> HIDE DEF w, v, c
  <1>5. CASE i = a /\ j < b
    <2>1. CASE i = 0  BY <1>1, <1>2, <1>3, <1>5, <2>1
    <2>2. CASE i # 0
      <3> DEFINE x == j + c
                 y == b + c
      <3>1. x \in Nat /\ y \in Nat /\ x + 1 \in Nat /\ x + 1 <= y  BY <1>1, <1>5
      <3>2. Floor(i, j) = x * w /\ Floor(a, b) = y * w  BY <1>2, <1>3, <1>5, <2>2
      <3> HIDE DEF x, y
      <3>3. (x + 1) * w <= y * w /\ (x + 1) * w = x * w + w  BY <1>1, <3>1, Products
      <3> QED BY <1>3, <3>2, <3>3
    <2> QED BY <2>1, <2>2
  <1>6. CASE i < a
    <2>1. a # 0 /\ Floor(a, b) = (b + c) * v  BY <1>2, <1>6
    <2>2. c * v <= (b + c) * v /\ c * v \in Nat
      <3> DEFINE y == b + c
      <3>1. y \in Nat /\ c <= y  BY <1>1
      <3> HIDE DEF y
      <3>2. c * v <= y * v /\ c * v \in Nat  BY <1>1, <3>1, Products
      <3> QED BY <3>2 DEF y
    <2>3. CASE i = 0
      <3>1. c <= c * v  BY <1>1, Products
      <3>2. (b + c) * v \in Nat  BY <1>1, Products
      <3> QED BY <1>1, <1>2, <1>3, <2>1, <2>2, <2>3, <3>1, <3>2
    <2>4. CASE i # 0
      <3> DEFINE x == j + c
                 z == c + c
                 u == w + w
      <3>1. x \in Nat /\ x + 1 \in Nat /\ z \in Nat /\ x + 1 <= z  BY <1>1
      <3>2. Floor(i, j) = x * w /\ u <= v /\ u \in Nat  BY <1>1, <1>2, <1>4, <1>6, <2>4
      <3>3. z * w = c * w + c * w /\ u * c = w * c + w * c /\ w * c = c * w
        BY <1>1, Products
      <3>9. z * w = u * c  BY <3>3
      <3> HIDE DEF x, z, u
      <3>4. (x + 1) * w <= z * w /\ (x + 1) * w = x * w + w  BY <1>1, <3>1, Products
      <3>5. u * c <= v * c /\ v * c = c * v  BY <1>1, <3>2, Products
      <3>6. x * w \in Nat /\ (b + c) * v \in Nat /\ c * v \in Nat /\ z * w \in Nat
        BY <1>1, <3>1, Products
      <3>7. x * w + w <= c * v  BY <1>1, <3>4, <3>5, <3>9, <3>6
      <3> QED BY <1>1, <1>3, <2>1, <2>2, <3>2, <3>6, <3>7
    <2> QED BY <2>3, <2>4
  <1> QED BY <1>5, <1>6 DEF Before

LEMMA Quotient ==
    ASSUME NEW n \in Nat, NEW w \in Nat, w >= 1
    PROVE  /\ n \div w \in Nat
           /\ (n \div w) * w <= n
           /\ n < (n \div w) * w + w
  OBVIOUS

LEMMA QuotientIs ==
    ASSUME NEW n \in Nat, NEW w \in Nat, w >= 1, NEW q \in Nat, q * w <= n, n < q * w + w
    PROVE  n \div w = q
  <1> DEFINE p == n \div w
  <1>1. p \in Nat /\ p * w <= n /\ n < p * w + w  BY Quotient
  <1> HIDE DEF p
  <1>2. ASSUME p < q PROVE FALSE
    <2>1. p + 1 <= q /\ p + 1 \in Nat  BY <1>1, <1>2
    <2>2. (p + 1) * w <= q * w /\ (p + 1) * w = p * w + w  BY <1>1, <2>1, Products
    <2>3. p * w \in Nat /\ q * w \in Nat  BY <1>1, Products
    <2> QED BY <1>1, <2>2, <2>3
  <1>3. ASSUME q < p PROVE FALSE
    <2>1. q + 1 <= p /\ q + 1 \in Nat  BY <1>1, <1>3
    <2>2. (q + 1) * w <= p * w /\ (q + 1) * w = q * w + w  BY <1>1, <2>1, Products
    <2>3. p * w \in Nat /\ q * w \in Nat  BY <1>1, Products
    <2> QED BY <1>1, <2>2, <2>3
  <1>4. p = q  BY <1>1, <1>2, <1>3
  <1> QED BY <1>4 DEF p

IsClass(c) == c = [fl |-> c.fl, sl |-> c.sl] /\ c.fl \in 0 .. FlIndexCount /\ c.sl \in Cols

LEMMA ClassAt ==
    ASSUME NEW n \in Nat, NEW d \in 0 .. FlIndexMax - SlIndexCountLog2, NEW w, w = Pow2[d],
           NEW q \in Nat, q * w <= n, n < q * w + w,
           SlIndexCount <= q, q < SlIndexCount + SlIndexCount
    PROVE  /\ MappingInsert(n) = [fl |-> d + 1, sl |-> q - SlIndexCount]
           /\ n >= SmallBlockSize /\ n < Pow2[Top] /\ Fls(n) = d + SlIndexCountLog2
  <1> DEFINE c == SlIndexCount
             t == d + SlIndexCountLog2
  <1>1. /\ d \in Nat /\ t \in 0 .. FlIndexMax /\ t - SlIndexCountLog2 = d /\ t \in 0 .. Top
        /\ t + 1 \in 0 .. Top /\ t + 1 <= Top /\ t <= Top /\ d \in 0 .. Top
        /\ SlIndexCountLog2 \in Nat /\ d + SlIndexCountLog2 <= Top
    BY Indices
  <1>2. /\ c \in Nat /\ c >= 2 /\ SmallBlockSize = c /\ c = Pow2[SlIndexCountLog2]
        /\ Pow2[Top] \in Nat
    BY Slots
  <1>3. w \in Nat /\ w >= 1 /\ Pow2[t] \in Nat /\ Pow2[t + 1] = Pow2[t] + Pow2[t]
        /\ Pow2[t + 1] \in Nat
    BY <1>1, PowerStep
  <1>4. Pow2[t] = w * c  BY <1>1, <1>2, PowerSum
  <1> HIDE DEF c, t
  <1>5. w * c = c * w /\ c * w <= q * w /\ c * w \in Nat /\ q * w \in Nat /\ c <= c * w
    BY <1>2, <1>3, Products DEF c
  <1>6. Pow2[t] <= n /\ c <= n  BY <1>2, <1>4, <1>5
  <1>7. n < Pow2[t + 1]
    <2> DEFINE z == c + c
    <2>1. z \in Nat /\ q + 1 \in Nat /\ q + 1 <= z  BY <1>2 DEF c
    <2>2. z * w = c * w + c * w  BY <1>2, <1>3, Products
    <2> HIDE DEF z
    <2>3. (q + 1) * w <= z * w /\ (q + 1) * w = q * w + w  BY <1>3, <2>1, Products
    <2> QED BY <1>3, <1>4, <1>5, <2>2, <2>3
  <1>8. Fls(n) = t  BY <1>1, <1>6, <1>7, FlsUnique
  <1>9. n \div w = q  BY <1>3, QuotientIs
  <1>10. MappingInsert(n) = [fl |-> d + 1, sl |-> q - SlIndexCount]
    <2>1. ~(n < SmallBlockSize)  BY <1>2, <1>6
    <2>2. t - SlIndexCountLog2 = d  BY <1>1
    <2> QED BY <1>8, <1>9, <2>1, <2>2 DEF MappingInsert
  <1>11. n < Pow2[Top]
    <2>1. t + 1 = Top \/ t + 1 < Top  BY <1>1, Indices
    <2>2. CASE t + 1 = Top  BY <1>7, <2>2
    <2>3. CASE t + 1 < Top
      <3>1. Pow2[t + 1] + Pow2[t + 1] <= Pow2[Top]
        <4>1. Top \in 0 .. Top  BY Indices
        <4> QED BY <1>1, <2>3, <4>1, PowerRises
      <3> QED BY <1>2, <1>3, <1>7, <3>1
    <2> QED BY <2>1, <2>2, <2>3
  <1> QED BY <1>2, <1>6, <1>8, <1>10, <1>11 DEF t, c

\* The position of a size among those with its highest bit.
LEMMA TopPart ==
    ASSUME NEW n \in Nat, n >= SmallBlockSize, n < Pow2[Top],
           NEW d, d = Fls(n) - SlIndexCountLog2, NEW w, w = Pow2[d],
           NEW q, q = n \div w
    PROVE  /\ d \in 0 .. FlIndexMax - SlIndexCountLog2 /\ w \in Nat /\ w >= 1
           /\ q \in Nat /\ q * w <= n /\ n < q * w + w
           /\ SlIndexCount <= q /\ q < SlIndexCount + SlIndexCount
           /\ n < (SlIndexCount + SlIndexCount) * w
           /\ (SlIndexCount + SlIndexCount) * w = Pow2[Fls(n) + 1]
  <1> DEFINE c == SlIndexCount
             t == Fls(n)
             s == SlIndexCountLog2
  <1>2. /\ c \in Nat /\ c >= 2 /\ SmallBlockSize = c /\ c = Pow2[s]
    BY Slots
  <1>3. t \in 0 .. FlIndexMax /\ Pow2[t] <= n /\ n < Pow2[t + 1]  BY <1>2, FlsIs
  <1> HIDE DEF c, t
  <1>4. s \in 0 .. Top /\ t \in 0 .. Top /\ s \in Nat /\ t + 1 \in 0 .. Top /\ Top \in Nat
        /\ (t + 1 = s \/ t + 1 < s \/ s <= t)
    BY <1>3, Indices
  <1>5. /\ Pow2[t] \in Nat /\ Pow2[s] \in Nat /\ Pow2[t + 1] = Pow2[t] + Pow2[t]
        /\ Pow2[t + 1] \in Nat
    BY <1>3, <1>4, PowerStep
  <1>6. s <= t
    <2>1. CASE t + 1 = s  BY <1>2, <1>3, <1>5, <2>1
    <2>2. CASE t + 1 < s
      <3>1. Pow2[t + 1] + Pow2[t + 1] <= Pow2[s]  BY <1>4, <2>2, PowerRises
      <3> QED BY <1>2, <1>3, <1>5, <3>1
    <2> QED BY <1>4, <2>1, <2>2
  <1>7. d \in 0 .. FlIndexMax - s /\ d \in Nat /\ d + s = t /\ d \in 0 .. Top
    BY <1>3, <1>4, <1>6, Indices DEF t
  <1>8. w \in Nat /\ w >= 1  BY <1>7, PowerStep
  <1>9. Pow2[t] = w * c
    <2>1. d + s <= Top  BY <1>4, <1>7
    <2>2. Pow2[d + s] = Pow2[d] * Pow2[s]  BY <1>4, <1>7, <2>1, PowerSum
    <2> QED BY <1>2, <1>7, <2>2
  <1>10. q \in Nat /\ q * w <= n /\ n < q * w + w  BY <1>8, Quotient
  <1>11. w * c = c * w /\ c * w \in Nat /\ q * w \in Nat /\ (q + 1) * w = q * w + w
    BY <1>2, <1>8, <1>10, Products
  <1> DEFINE z == c + c
  <1>12. z \in Nat /\ z * w = c * w + c * w /\ z * w \in Nat  BY <1>2, <1>8, Products
  <1>13. n < z * w /\ z * w = Pow2[t + 1]
    <2> HIDE DEF z
    <2> QED BY <1>3, <1>5, <1>9, <1>11, <1>12
  <1>14. c <= q
    <2> SUFFICES ASSUME q + 1 <= c PROVE FALSE
      BY <1>2, <1>10
    <2>1. (q + 1) * w <= c * w
      <3>1. q + 1 \in Nat  BY <1>10
      <3> QED BY <1>2, <1>8, <3>1, Products
    <2> QED BY <1>3, <1>8, <1>9, <1>10, <1>11, <2>1
  <1>15. q < z
    <2> HIDE DEF z
    <2> SUFFICES ASSUME z <= q PROVE FALSE
      BY <1>10, <1>12
    <2>1. z * w <= q * w  BY <1>8, <1>10, <1>12, Products
    <2> QED BY <1>10, <1>11, <1>12, <1>13, <2>1
  <1> QED BY <1>7, <1>8, <1>10, <1>13, <1>14, <1>15 DEF c, t

\* The class that MappingInsert gives a size, and what it says of the size.
ClassHas(n, c) ==
    /\ IsClass(c) /\ InClass(n, c.fl, c.sl) /\ (n < BlockSizeMax => c.fl \in Rows)

LEMMA ClassOf ==
    ASSUME NEW n \in Nat, n < Pow2[Top]
    PROVE  ClassHas(n, MappingInsert(n))
  <1>1. CASE n < SmallBlockSize
    <2>1. MappingInsert(n) = [fl |-> 0, sl |-> n]  BY <1>1 DEF MappingInsert
    <2>2. n \in Cols /\ 0 \in 0 .. FlIndexCount /\ 0 \in Rows
      BY <1>1, Slots, Indices DEF Cols, Rows
    <2>3. InClass(n, 0, n)  BY DEF InClass, Floor, Width
    <2> QED BY <2>1, <2>2, <2>3 DEF ClassHas, IsClass
  <1>2. CASE ~(n < SmallBlockSize)
    <2> DEFINE d == Fls(n) - SlIndexCountLog2
               w == Pow2[d]
               q == n \div w
               j == q - SlIndexCount
    <2>1. n >= SmallBlockSize  BY <1>2, Slots
    <2>2. /\ d \in 0 .. FlIndexMax - SlIndexCountLog2 /\ w \in Nat /\ w >= 1
          /\ q \in Nat /\ q * w <= n /\ n < q * w + w
          /\ SlIndexCount <= q /\ q < SlIndexCount + SlIndexCount
          /\ Fls(n) = d + SlIndexCountLog2
      <3>1. Fls(n) \in 0 .. FlIndexMax  BY <2>1, Slots, FlsIs
      <3>2. Fls(n) = d + SlIndexCountLog2  BY <3>1, Indices
      <3> QED BY <2>1, <3>2, TopPart
    <2>w. w = Pow2[d]  OBVIOUS
    <2> HIDE DEF d, w, q
    <2>3. MappingInsert(n) = [fl |-> d + 1, sl |-> j]  BY <2>2, <2>w, ClassAt
    <2>4. d + 1 \in 0 .. FlIndexCount /\ d + 1 # 0 /\ (d + 1) - 1 = d /\ j \in Cols
          /\ j + SlIndexCount = q
      BY <2>2, Slots, Indices DEF Cols
    <2>5. Width(d + 1) = w  BY <2>4, <2>w DEF Width
    <2> HIDE DEF j
    <2>6. Floor(d + 1, j) = q * w  BY <2>4, <2>5 DEF Floor
    <2>7. InClass(n, d + 1, j)  BY <2>2, <2>5, <2>6 DEF InClass
    <2>8. n < BlockSizeMax => d + 1 \in Rows
      <3> SUFFICES ASSUME n < BlockSizeMax, d + 1 \notin Rows PROVE FALSE
        OBVIOUS
      <3>1. Fls(n) = FlIndexMax  BY <2>2, Indices DEF Rows
      <3>2. Pow2[FlIndexMax] <= n
        <4>1. Pow2[Fls(n)] <= n  BY <2>1, Slots, FlsIs
        <4> QED BY <3>1, <4>1
      <3> QED BY <3>2, Slots
    <2>9. IsClass([fl |-> d + 1, sl |-> j])  BY <2>4 DEF IsClass
    <2> QED BY <2>3, <2>7, <2>8, <2>9 DEF ClassHas
  <1> QED BY <1>1, <1>2

\* A size of an earlier class is below the floor of a later one.
LEMMA ClassOrder ==
    ASSUME NEW n \in Nat, n < Pow2[Top], NEW c, IsClass(c), NEW m, m = MappingInsert(n)
    PROVE  /\ Before(m.fl, m.sl, c.fl, c.sl) => n < Floor(c.fl, c.sl)
           /\ ~Before(m.fl, m.sl, c.fl, c.sl) => Floor(c.fl, c.sl) <= n
  <1>1. ClassHas(n, m)  BY ClassOf
  <1>2. /\ m.fl \in 0 .. FlIndexCount /\ m.sl \in Cols /\ InClass(n, m.fl, m.sl)
        /\ c.fl \in 0 .. FlIndexCount /\ c.sl \in Cols
    BY <1>1 DEF ClassHas, IsClass
  <1> DEFINE i == m.fl
             j == m.sl
             a == c.fl
             b == c.sl
  <1> HIDE DEF i, j, a, b
  <1>3. /\ i \in 0 .. FlIndexCount /\ j \in Cols /\ InClass(n, i, j)
        /\ a \in 0 .. FlIndexCount /\ b \in Cols
    BY <1>2 DEF i, j, a, b
  <1>4. Floor(i, j) \in Nat /\ Floor(a, b) \in Nat /\ Width(i) \in Nat /\ Width(a) \in Nat
        /\ Width(a) >= 1
    BY <1>3, FloorNat, Widths
  <1>5. Before(i, j, a, b) => n < Floor(a, b)
    <2> HAVE Before(i, j, a, b)
    <2>1. Floor(i, j) + Width(i) <= Floor(a, b)  BY <1>3, FloorRises
    <2> QED BY <1>3, <1>4, <2>1 DEF InClass
  <1>6. ~Before(i, j, a, b) => Floor(a, b) <= n
    <2> HAVE ~Before(i, j, a, b)
    <2>1. (i = a /\ j = b) \/ Before(a, b, i, j)  BY <1>3, Indices, Slots DEF Before, Cols
    <2>2. CASE i = a /\ j = b  BY <1>3, <2>2 DEF InClass
    <2>3. CASE Before(a, b, i, j)
      <3>1. Floor(a, b) + Width(a) <= Floor(i, j)  BY <1>3, <2>3, FloorRises
      <3> QED BY <1>3, <1>4, <3>1 DEF InClass
    <2> QED BY <2>1, <2>2, <2>3
  <1> QED BY <1>5, <1>6 DEF i, j, a, b

(***************************************************************************)
(* What is searched for, and what a request is adjusted to.                *)
(***************************************************************************)
LEMMA SearchFloor ==
    ASSUME NEW n \in Nat, n # 0, n < BlockSizeMax, NEW c, c = MappingSearch(n)
    PROVE  /\ IsClass(c) /\ Floor(c.fl, c.sl) = RoundedUp(n)
           /\ RoundedUp(n) \in Nat /\ RoundedUp(n) >= n
  <1>1. CASE n < SmallBlockSize
    <2>1. c = [fl |-> 0, sl |-> n] /\ RoundedUp(n) = n
      BY <1>1 DEF MappingSearch, MappingInsert, RoundedUp
    <2>2. n \in Cols /\ 0 \in 0 .. FlIndexCount  BY <1>1, Slots, Indices DEF Cols
    <2>3. Floor(0, n) = n  BY DEF Floor
    <2> QED BY <2>1, <2>2, <2>3 DEF IsClass
  <1>2. CASE ~(n < SmallBlockSize)
    <2> DEFINE d == Fls(n) - SlIndexCountLog2
               w == Pow2[d]
               q == n \div w
               m == n + w - 1
               p == m \div w
               k == SlIndexCount
               z == k + k
    <2>1. n >= SmallBlockSize /\ n < Pow2[Top]  BY <1>2, Slots
    <2>2. /\ d \in 0 .. FlIndexMax - SlIndexCountLog2 /\ w \in Nat /\ w >= 1
          /\ z * w = Pow2[Fls(n) + 1] /\ n < z * w
          /\ k <= q /\ q < z /\ q \in Nat /\ q * w <= n
      BY <2>1, TopPart
    <2>3. Fls(n) \in 0 .. FlIndexMax /\ Pow2[Fls(n)] <= n /\ d + SlIndexCountLog2 = Fls(n)
      <3>1. Fls(n) \in 0 .. FlIndexMax /\ Pow2[Fls(n)] <= n  BY <2>1, Slots, FlsIs
      <3> QED BY <3>1, Indices
    <2>4. Fls(n) # FlIndexMax  BY <2>3, Slots
    <2>5. /\ d + 1 \in 0 .. FlIndexMax - SlIndexCountLog2 /\ d \in 0 .. FlIndexMax
          /\ d + 1 # 0 /\ d + 2 # 0 /\ (d + 1) - 1 = d /\ (d + 2) - 1 = d + 1
          /\ d + 1 \in 0 .. FlIndexCount /\ d + 2 \in 0 .. FlIndexCount
          /\ (d + 1) + 1 = d + 2
      <3> DEFINE f == Fls(n)
      <3>1. /\ f \in 0 .. FlIndexMax /\ f # FlIndexMax /\ d + SlIndexCountLog2 = f
            /\ d \in 0 .. FlIndexMax - SlIndexCountLog2
        BY <2>2, <2>3, <2>4
      <3> HIDE DEF d, f
      <3> QED BY <3>1, Indices
    <2>6. w = Pow2[d] /\ Pow2[d + 1] = w + w  BY <2>5, PowerStep
    <2>7. k \in Nat /\ k >= 2 /\ k = SlIndexCount /\ z = k + k /\ z \in Nat  BY Slots
    <2>8. c = MappingInsert(m) /\ RoundedUp(n) = p * w
      <3>1. c = MappingInsert(m)  BY <1>2 DEF MappingSearch
      <3>2. RoundedUp(n) = AlignUp(n, w)  BY <1>2 DEF RoundedUp
      <3>3. AlignUp(n, w) = p * w  BY DEF AlignUp
      <3> QED BY <3>1, <3>2, <3>3
    <2> HIDE DEF d, w, q, k, z, p
    <2>9. m \in Nat /\ m >= n  BY <2>2
    <2>m. m = n + w - 1  OBVIOUS
    <2>10. p \in Nat /\ p * w <= m /\ m < p * w + w
      <3> HIDE DEF m
      <3> QED BY <2>2, <2>9, Quotient DEF p
    <2> HIDE DEF m
    <2>11. /\ p * w \in Nat /\ z * w \in Nat /\ q * w \in Nat
           /\ (p + 1) * w = p * w + w
      BY <2>2, <2>7, <2>10, Products
    <2>12. p * w >= n  BY <2>2, <2>m, <2>10, <2>11
    <2>13. k <= p
      <3> SUFFICES ASSUME p + 1 <= k PROVE FALSE
        BY <2>7, <2>10
      <3>1. p + 1 <= q /\ p + 1 \in Nat  BY <2>2, <2>7, <2>10
      <3>2. (p + 1) * w <= q * w  BY <2>2, <3>1, Products
      <3> QED BY <2>2, <2>9, <2>10, <2>11, <3>2
    <2>14. CASE p < z
      <3>1. c = [fl |-> d + 1, sl |-> p - k]
        BY <2>2, <2>6, <2>7, <2>8, <2>9, <2>10, <2>13, <2>14, ClassAt
      <3>2. p - k \in Cols  BY <2>7, <2>10, <2>13, <2>14 DEF Cols
      <3>3. Width(d + 1) = w  BY <2>5, <2>6 DEF Width
      <3>4. Floor(d + 1, p - k) = p * w
        <4>1. (p - k) + SlIndexCount = p  BY <2>7, <2>10
        <4> QED BY <2>5, <3>3, <4>1 DEF Floor
      <3>5. IsClass(c)  BY <2>5, <3>1, <3>2 DEF IsClass
      <3> QED BY <2>8, <2>11, <2>12, <3>1, <3>4, <3>5
    <2>15. CASE ~(p < z)
      <3>1. m < z * w + w  BY <2>2, <2>m, <2>11
      <3>2. z * w <= p * w  BY <2>2, <2>7, <2>10, <2>15, Products
      <3>3. p = z
        <4> SUFFICES ASSUME z + 1 <= p PROVE FALSE
          BY <2>7, <2>10, <2>15
        <4>1. z + 1 \in Nat  BY <2>7
        <4>2. (z + 1) * w <= p * w /\ (z + 1) * w = z * w + w
          BY <2>2, <2>7, <2>10, <4>1, Products
        <4> QED BY <2>2, <2>10, <2>11, <3>1, <4>2, <2>9
      <3> DEFINE v == w + w
      <3>4. v \in Nat /\ v = Pow2[d + 1] /\ v >= w  BY <2>2, <2>6
      <3>5. k * v = z * w
        <4>1. v * k = w * k + w * k /\ z * w = k * w + k * w /\ w * k = k * w /\ v * k = k * v
          BY <2>2, <2>7, <3>4, Products
        <4> QED BY <4>1
      <3>v. v >= 1 /\ v >= w  BY <2>2
      <3> HIDE DEF v
      <3>6. k * v <= m /\ m < k * v + v  BY <2>2, <2>9, <2>10, <2>11, <3>1, <3>2, <3>4, <3>5, <3>v
      <3>7. c = [fl |-> (d + 1) + 1, sl |-> k - SlIndexCount]
        <4>1. k < SlIndexCount + SlIndexCount /\ SlIndexCount <= k  BY <2>7
        <4> QED BY <2>5, <2>7, <2>8, <2>9, <3>4, <3>6, <4>1, ClassAt
      <3>8. c = [fl |-> d + 2, sl |-> 0]
        <4>1. k - SlIndexCount = 0  BY <2>7
        <4> QED BY <2>5, <3>7, <4>1
      <3>9. 0 \in Cols  BY <2>7 DEF Cols
      <3>10. Width(d + 2) = v  BY <2>5, <3>4 DEF Width
      <3>11. Floor(d + 2, 0) = k * v
        <4>1. 0 + SlIndexCount = k  BY <2>7
        <4> QED BY <2>5, <3>10, <4>1 DEF Floor
      <3>12. IsClass(c)  BY <2>5, <3>8, <3>9 DEF IsClass
      <3> QED BY <2>8, <2>11, <2>12, <3>3, <3>5, <3>8, <3>11, <3>12
    <2> QED BY <2>14, <2>15
  <1> QED BY <1>1, <1>2

LEMMA Aligned ==
    ASSUME NEW x \in Nat, NEW a \in Nat, a >= 1, NEW y, y = AlignUp(x, a)
    PROVE  y \in Nat /\ y >= x /\ y < x + a
  <1> DEFINE m == x + a - 1
             q == m \div a
  <1>1. m \in Nat /\ y = q * a  BY DEF AlignUp
  <1>2. m = x + a - 1  OBVIOUS
  <1> HIDE DEF m
  <1>3. q \in Nat /\ q * a <= m /\ m < q * a + a  BY <1>1, Quotient
  <1> HIDE DEF q
  <1>4. q * a \in Nat  BY <1>3, Products
  <1> QED BY <1>1, <1>2, <1>3, <1>4

\* What is aligned already stays, and so does a multiple behind it.
LEMMA AlignedOnce ==
    ASSUME NEW q \in Nat, NEW a \in Nat, a >= 1
    PROVE  AlignUp(q * a, a) = q * a
  <1> DEFINE p == q * a
             x == p + a - 1
  <1>1. p \in Nat  BY Products
  <1>2. p = q * a  OBVIOUS
  <1> HIDE DEF p
  <1>3. x \in Nat /\ q * a <= x /\ x < q * a + a  BY <1>1, <1>2
  <1> HIDE DEF x
  <1>4. x \div a = q  BY <1>3, QuotientIs
  <1> QED BY <1>2, <1>4 DEF AlignUp, x, p

LEMMA MaxOfTwo ==
    ASSUME NEW x \in Int, NEW y \in Int, NEW m, m = Max({x, y})
    PROVE  m = IF x >= y THEN x ELSE y
  <1> DEFINE S == {x, y}
  <1>1. \E z \in S : \A u \in S : z >= u
    <2>1. CASE x >= y  BY <2>1
    <2>2. CASE ~(x >= y)  BY <2>2
    <2> QED BY <2>1, <2>2
  <1>2. m \in S /\ \A u \in S : m >= u  BY <1>1 DEF Max
  <1> QED BY <1>2

LEMMA Adjusted ==
    ASSUME NEW s \in Nat, NEW a \in Nat, a >= 1, NEW n, n = AdjustRequestSize(s, a)
    PROVE  \/ n = 0
           \/ n \in Nat /\ n >= BlockSizeMin /\ n >= s /\ s >= 1 /\ n < BlockSizeMax
  <1> DEFINE y == AlignUp(s, a)
  <1>1. y \in Nat /\ y >= s  BY Aligned
  <1>2. BlockSizeMin = 3 /\ BlockSizeMax \in Nat /\ BlockSizeMax >= 4
    BY Slots DEF BlockSizeMin, HeaderSize
  <1>3. n = IF s = 0 \/ y >= BlockSizeMax THEN 0 ELSE Max({y, BlockSizeMin})
    BY DEF AdjustRequestSize
  <1> HIDE DEF y
  <1>4. CASE s = 0 \/ y >= BlockSizeMax  BY <1>3, <1>4
  <1>5. CASE ~(s = 0 \/ y >= BlockSizeMax)
    <2>1. n = Max({y, BlockSizeMin})  BY <1>3, <1>5
    <2>2. n = IF y >= BlockSizeMin THEN y ELSE BlockSizeMin  BY <1>1, <1>2, <2>1, MaxOfTwo
    <2> QED BY <1>1, <1>2, <1>5, <2>2
  <1> QED BY <1>4, <1>5

LEMMA AdjustedByOne ==
    ASSUME NEW s \in Nat, s >= 1, s < BlockSizeMax
    PROVE  AdjustRequestSize(s, 1) # 0
  <1> DEFINE y == AlignUp(s, 1)
             n == AdjustRequestSize(s, 1)
  <1>1. y = s
    <2>1. PICK a \in Nat : a = 1  OBVIOUS
    <2>2. AlignUp(s, a) \in Nat /\ AlignUp(s, a) >= s /\ AlignUp(s, a) < s + a
      <3>1. a \in Nat /\ a >= 1  BY <2>1
      <3>2. \A z \in Nat : z >= 1 => LET u == AlignUp(s, z) IN u \in Nat /\ u >= s /\ u < s + z
        BY Aligned
      <3> QED BY <3>1, <3>2
    <2>3. y = AlignUp(s, a)  BY <2>1
    <2> HIDE DEF y
    <2> QED BY <2>1, <2>2, <2>3
  <1>2. BlockSizeMin = 3 /\ BlockSizeMax \in Nat
    BY Slots DEF BlockSizeMin, HeaderSize
  <1>3. n = IF s = 0 \/ y >= BlockSizeMax THEN 0 ELSE Max({y, BlockSizeMin})
    BY DEF AdjustRequestSize
  <1> HIDE DEF y, n
  <1>4. n = Max({y, BlockSizeMin})  BY <1>1, <1>2, <1>3
  <1>5. n = IF y >= BlockSizeMin THEN y ELSE BlockSizeMin  BY <1>1, <1>2, <1>4, MaxOfTwo
  <1> QED BY <1>1, <1>2, <1>5 DEF n

(***************************************************************************)
(* tlsf_memalign: the words skipped at the front are none or a block, and  *)
(* what is searched for has room for them.                                 *)
(***************************************************************************)
LEMMA NoGap ==
    ASSUME NEW b \in Nat
    PROVE  Gap(b, 1) = 0
  <1> DEFINE p == b + 2
  <1>1. p \in Nat /\ ToPtr(b) = p  BY DEF ToPtr
  <1>2. PICK a \in Nat : a = 1  OBVIOUS
  <1>3. a >= 1  BY <1>2
  <1>4. AlignUp(p, a) \in Nat /\ AlignUp(p, a) >= p /\ AlignUp(p, a) < p + a
    <2> HIDE DEF p
    <2> QED BY <1>1, <1>3, Aligned
  <1> HIDE DEF p
  <1>5. AlignUp(p, 1) = p  BY <1>1, <1>2, <1>4
  <1>6. AlignUp(p, 1) - p = 0  BY <1>1, <1>5
  <1> QED BY <1>1, <1>6 DEF Gap

LEMMA GapIs ==
    ASSUME NEW b \in Nat, NEW a \in Nat, a >= 1, NEW g, g = Gap(b, a)
    PROVE  g \in Nat /\ (g = 0 \/ g >= HeaderSize) /\ g < a + HeaderSize
  <1> DEFINE p == b + 2
             first == AlignUp(p, a)
             u == Max({HeaderSize - (first - p), a})
             x == first + u
             next == AlignUp(x, a)
  <1>1. p \in Nat /\ ToPtr(b) = p /\ HeaderSize = 4  BY DEF ToPtr, HeaderSize
  <1>2. first \in Nat /\ first >= p /\ first < p + a
    <2> HIDE DEF p
    <2> QED BY <1>1, Aligned
  <1>3. g = IF first - p # 0 /\ first - p < 4 THEN next - p ELSE first - p
    BY <1>1 DEF Gap
  <1>f. first = ((p + a - 1) \div a) * a  BY DEF AlignUp
  <1> HIDE DEF p, first
  <1>4. CASE ~(first - p # 0 /\ first - p < 4)
    <2>1. g = first - p  BY <1>3, <1>4
    <2> QED BY <1>1, <1>2, <1>4, <2>1
  <1>5. CASE first - p # 0 /\ first - p < 4
    <2>1. g = next - p  BY <1>3, <1>5
    <2>2. u = IF 4 - (first - p) >= a THEN 4 - (first - p) ELSE a
      <3> DEFINE v == HeaderSize - (first - p)
      <3>1. v \in Int /\ v = 4 - (first - p)  BY <1>1, <1>2
      <3> HIDE DEF v
      <3>2. u = IF v >= a THEN v ELSE a  BY <3>1, MaxOfTwo DEF v
      <3> QED BY <3>1, <3>2
    <2> HIDE DEF u
    <2>3. u \in Nat /\ u >= a /\ u >= 4 - (first - p)  BY <1>1, <1>2, <1>5, <2>2
    <2>4. x \in Nat /\ x = first + u  BY <1>2, <2>3
    <2> HIDE DEF x
    <2>5. next \in Nat /\ next >= x /\ next < x + a  BY <2>4, Aligned
    <2>6. CASE u = a
      <3> DEFINE m == p + a - 1
                 q == m \div a
      <3>1. m \in Nat  BY <1>1
      <3> HIDE DEF m
      <3>2. q \in Nat  BY <3>1, Quotient
      <3>3. first = q * a  BY <1>f DEF m
      <3> HIDE DEF q
      <3>4. q + 1 \in Nat /\ (q + 1) * a = q * a + a  BY <3>2, Products
      <3>5. x = (q + 1) * a  BY <2>4, <2>6, <3>3, <3>4
      <3>6. AlignUp((q + 1) * a, a) = (q + 1) * a  BY <3>4, AlignedOnce
      <3>7. next = x  BY <3>5, <3>6
      <3> HIDE DEF next
      <3> QED BY <1>1, <1>2, <1>5, <2>1, <2>3, <2>4, <2>6, <3>7
    <2>7. CASE u # a
      <3>1. u = 4 - (first - p)  BY <2>2, <2>7
      <3> HIDE DEF next
      <3> QED BY <1>1, <1>2, <1>5, <2>1, <2>3, <2>4, <2>5, <3>1
    <2> QED BY <2>6, <2>7
  <1> QED BY <1>4, <1>5

LEMMA AlignedFits ==
    ASSUME NEW n \in Nat, n < BlockSizeMax, n = 0 \/ n >= BlockSizeMin,
           NEW a \in Nat, a >= 1, NEW m, m = AlignedSize(n, a)
    PROVE  /\ m \in Nat /\ m < BlockSizeMax
           /\ m # 0 => n # 0 /\ m >= n /\ m >= 1 /\ (a > 1 => m >= n + a + HeaderSize)
  <1>1. BlockSizeMin = 3 /\ HeaderSize = 4 /\ BlockSizeMax \in Nat /\ BlockSizeMax >= 4
    BY Slots DEF BlockSizeMin, HeaderSize
  <1>2. CASE n # 0 /\ a > 1
    <2> DEFINE s == n + a + HeaderSize
    <2>1. s \in Nat /\ s >= n  BY <1>1
    <2>2. m = AdjustRequestSize(s, a)  BY <1>2 DEF AlignedSize
    <2>3. s = n + a + HeaderSize  OBVIOUS
    <2> HIDE DEF s
    <2>4. m = 0 \/ (m \in Nat /\ m >= BlockSizeMin /\ m >= s /\ s >= 1 /\ m < BlockSizeMax)
      BY <2>1, <2>2, Adjusted
    <2> QED BY <1>1, <1>2, <2>1, <2>3, <2>4
  <1>3. CASE ~(n # 0 /\ a > 1)
    <2>1. m = n  BY <1>3 DEF AlignedSize
    <2> QED BY <1>1, <1>3, <2>1
  <1> QED BY <1>2, <1>3

(***************************************************************************)
(* The free lists: sequences in which no block is twice.                   *)
(***************************************************************************)
Holds(s, x) == \E k \in DOMAIN s : s[k] = x
Once(s) == \A k, l \in DOMAIN s : s[k] = s[l] => k = l

\* u is s without its k-th element.
Without(X, s, k, u) ==
    /\ u \in Seq(X) /\ Len(u) = Len(s) - 1
    /\ \A m \in 1 .. Len(u) : u[m] = IF m < k THEN s[m] ELSE s[m + 1]

\* u has the elements of s from i to j.
Piece(X, s, i, j, u) ==
    /\ u \in Seq(X) /\ Len(u) = IF i <= j THEN j - i + 1 ELSE 0
    /\ \A m \in 1 .. Len(u) : u[m] = s[i + m - 1]

LEMMA PieceIs ==
    ASSUME NEW X, NEW s \in Seq(X), NEW i \in Int, NEW j \in Int, i >= 1, j <= Len(s),
           NEW u, u = SubSeq(s, i, j)
    PROVE  Piece(X, s, i, j, u)
  <1>1. Len(s) \in Nat /\ \A m \in 1 .. Len(s) : s[m] \in X
    BY LenProperties, ElementOfSeq
  <1> DEFINE n == IF i <= j THEN j - i + 1 ELSE 0
  <1>2. n \in Nat  OBVIOUS
  <1>3. u = [m \in 1 .. n |-> s[i + m - 1]]
    OBVIOUS
  <1>4. \A m \in 1 .. n : i + m - 1 \in 1 .. Len(s)  BY <1>1
  <1>n. n = IF i <= j THEN j - i + 1 ELSE 0  OBVIOUS
  <1> HIDE DEF n
  <1>5. u \in [1 .. n -> X]  BY <1>1, <1>3, <1>4
  <1>6. u \in Seq(X) /\ Len(u) = n
    BY <1>2, <1>5, SeqDef, LenProperties, IsASeq
  <1> QED BY <1>3, <1>6, <1>n DEF Piece

\* v is s and then t.
Linked(X, s, t, v) ==
    /\ v \in Seq(X) /\ Len(v) = Len(s) + Len(t)
    /\ \A m \in 1 .. Len(v) : v[m] = IF m <= Len(s) THEN s[m] ELSE t[m - Len(s)]

LEMMA LinkedIs ==
    ASSUME NEW X, NEW s \in Seq(X), NEW t \in Seq(X), NEW v, v = s \o t
    PROVE  Linked(X, s, t, v)
  <1>1. /\ v \in Seq(X) /\ Len(v) = Len(s) + Len(t)
        /\ \A i \in 1 .. Len(s) + Len(t) : v[i] = IF i <= Len(s) THEN s[i] ELSE t[i - Len(s)]
    BY ConcatProperties
  <1> QED BY <1>1 DEF Linked

LEMMA WithoutIs ==
    ASSUME NEW X, NEW s \in Seq(X), NEW k \in DOMAIN s, NEW u, u = RemoveAt(s, k)
    PROVE  Without(X, s, k, u)
  <1> DEFINE n == Len(s)
             one == 1
             i == k - 1
             j == k + 1
             a == SubSeq(s, one, i)
             b == SubSeq(s, j, n)
  <1>1. n \in Nat /\ k \in 1 .. n  BY LenProperties
  <1>2. one \in Int /\ one >= 1 /\ i \in Int /\ j \in Int /\ j >= 1 /\ i <= n /\ n <= n
        /\ one = 1 /\ i = k - 1 /\ j = k + 1 /\ n = Len(s)
    BY <1>1
  <1>3. u = a \o b  BY DEF RemoveAt
  <1> HIDE DEF n, one, i, j
  <1>a. i <= Len(s) /\ n <= Len(s)  BY <1>1, <1>2
  <1>4. Piece(X, s, one, i, a) /\ Piece(X, s, j, n, b)
    <2>1. Piece(X, s, one, i, a)  BY <1>2, <1>a, PieceIs
    <2>2. Piece(X, s, j, n, b)
      <3>1. n \in Int  BY <1>1
      <3> QED BY <1>2, <1>a, <3>1, PieceIs
    <2> QED BY <2>1, <2>2
  <1> HIDE DEF a, b
  <1>5. Linked(X, a, b, u)
    <2>1. a \in Seq(X) /\ b \in Seq(X)  BY <1>4 DEF Piece
    <2> QED BY <1>3, <2>1, LinkedIs
  <1>6. Len(a) = k - 1 /\ Len(b) = n - k
    BY <1>1, <1>2, <1>4, SMTT(60) DEF Piece
  <1>7. u \in Seq(X) /\ Len(u) = n - 1  BY <1>1, <1>5, <1>6 DEF Linked
  <1>8. ASSUME NEW m \in 1 .. Len(u) PROVE u[m] = IF m < k THEN s[m] ELSE s[m + 1]
    <2>1. CASE m < k
      <3>1. m <= Len(a) /\ m \in 1 .. Len(a)  BY <1>1, <1>6, <1>7, <2>1
      <3>2. u[m] = a[m]  BY <1>5, <3>1 DEF Linked
      <3>3. a[m] = s[one + m - 1] /\ one + m - 1 = m  BY <1>2, <1>4, <3>1 DEF Piece
      <3> QED BY <2>1, <3>2, <3>3
    <2>2. CASE ~(m < k)
      <3> DEFINE l == m - Len(a)
      <3>1. ~(m <= Len(a)) /\ l \in 1 .. Len(b) /\ j + l - 1 = m + 1
        <4>1. n \in Nat /\ k \in Nat /\ m \in Nat /\ m <= n - 1 /\ m >= k
          BY <1>1, <1>7, <2>2
        <4>2. l = m - (k - 1) /\ Len(a) = k - 1 /\ Len(b) = n - k /\ j = k + 1
          BY <1>2, <1>6
        <4> HIDE DEF l
        <4>3. ~(m <= k - 1) /\ l \in 1 .. n - k /\ (k + 1) + l - 1 = m + 1
          <5>1. l = m - (k - 1)  BY <4>2
          <5> QED BY <4>1, <5>1, SMTT(60)
        <4> QED BY <4>2, <4>3
      <3>2. u[m] = b[l]  BY <1>5, <3>1 DEF Linked
      <3> HIDE DEF l
      <3>3. b[l] = s[j + l - 1]  BY <1>4, <3>1 DEF Piece
      <3> QED BY <2>2, <3>1, <3>2, <3>3
    <2> QED BY <2>1, <2>2
  <1> QED BY <1>2, <1>7, <1>8 DEF Without

\* u is s without the block b.
Dropped(X, s, b, u) ==
    /\ u \in Seq(X) /\ Once(u)
    /\ \A x : Holds(u, x) <=> Holds(s, x) /\ x # b

LEMMA WithoutDropped ==
    ASSUME NEW X, NEW s \in Seq(X), Once(s), NEW k \in DOMAIN s, NEW b, s[k] = b,
           NEW u, Without(X, s, k, u)
    PROVE  Dropped(X, s, b, u)
  <1>5. /\ u \in Seq(X) /\ Len(s) \in Nat /\ Len(u) = Len(s) - 1 /\ k \in 1 .. Len(s)
        /\ DOMAIN s = 1 .. Len(s) /\ DOMAIN u = 1 .. Len(u)
        /\ \A m \in 1 .. Len(u) : u[m] = IF m < k THEN s[m] ELSE s[m + 1]
    <2>1. u \in Seq(X) /\ Len(u) = Len(s) - 1
          /\ \A m \in 1 .. Len(u) : u[m] = IF m < k THEN s[m] ELSE s[m + 1]
      BY DEF Without
    <2>2. Len(s) \in Nat /\ DOMAIN s = 1 .. Len(s)  BY LenProperties
    <2>3. DOMAIN u = 1 .. Len(u)  BY <2>1, LenProperties
    <2> QED BY <2>1, <2>2, <2>3
  <1>6. \A l, m \in DOMAIN s : s[l] = s[m] => l = m  BY DEF Once
  <1>7. Once(u)
    <2> SUFFICES ASSUME NEW l \in DOMAIN u, NEW m \in DOMAIN u, u[l] = u[m] PROVE l = m
      BY DEF Once
    <2> DEFINE lo == IF l < k THEN l ELSE l + 1
               mo == IF m < k THEN m ELSE m + 1
    <2>1. lo \in DOMAIN s /\ mo \in DOMAIN s /\ u[l] = s[lo] /\ u[m] = s[mo]
      BY <1>5
    <2>2. lo = mo  BY <1>6, <2>1
    <2> QED BY <1>5, <2>2
  <1>8. ASSUME NEW x, Holds(u, x) PROVE Holds(s, x) /\ x # b
    <2>1. PICK l \in DOMAIN u : u[l] = x  BY <1>8 DEF Holds
    <2> DEFINE lo == IF l < k THEN l ELSE l + 1
    <2>2. lo \in DOMAIN s /\ s[lo] = x /\ lo # k  BY <1>5, <2>1
    <2>3. x # b  BY <1>6, <2>2
    <2> QED BY <2>2, <2>3 DEF Holds
  <1>9. ASSUME NEW x, Holds(s, x), x # b PROVE Holds(u, x)
    <2>1. PICK l \in DOMAIN s : s[l] = x  BY <1>9 DEF Holds
    <2>2. l # k  BY <1>9, <2>1
    <2> DEFINE lo == IF l < k THEN l ELSE l - 1
    <2>3. lo \in DOMAIN u /\ u[lo] = x  BY <1>5, <2>1, <2>2
    <2> QED BY <2>3 DEF Holds
  <1> QED BY <1>5, <1>7, <1>8, <1>9 DEF Dropped

LEMMA DroppedIs ==
    ASSUME NEW X, NEW s \in Seq(X), Once(s), NEW b, Holds(s, b),
           NEW u, u = RemoveAt(s, CHOOSE k \in DOMAIN s : s[k] = b)
    PROVE  Dropped(X, s, b, u)
  <1>1. PICK k \in DOMAIN s : k = CHOOSE l \in DOMAIN s : s[l] = b
    BY DEF Holds
  <1>2. s[k] = b  BY <1>1 DEF Holds
  <1>3. u = RemoveAt(s, k)  BY <1>1
  <1>4. Without(X, s, k, u)  BY <1>3, WithoutIs
  <1> QED BY <1>2, <1>4, WithoutDropped

\* u is s with b before its head.
Pushed(X, s, b, u) ==
    /\ u \in Seq(X) /\ Once(u) /\ u # <<>>
    /\ \A x : Holds(u, x) <=> Holds(s, x) \/ x = b

LEMMA PushedIs ==
    ASSUME NEW X, NEW s \in Seq(X), Once(s), NEW b \in X, ~Holds(s, b), NEW u, u = <<b>> \o s
    PROVE  Pushed(X, s, b, u)
  <1> DEFINE t == <<b>>
  <1>1. t \in Seq(X) /\ Len(t) = 1 /\ t[1] = b  OBVIOUS
  <1>2. u = t \o s  OBVIOUS
  <1> HIDE DEF t
  <1>3. Linked(X, t, s, u)  BY <1>1, <1>2, LinkedIs
  <1>4. /\ u \in Seq(X) /\ Len(s) \in Nat /\ Len(u) = Len(s) + 1
        /\ DOMAIN s = 1 .. Len(s) /\ DOMAIN u = 1 .. Len(u)
        /\ \A m \in 1 .. Len(u) : u[m] = IF m <= 1 THEN t[m] ELSE s[m - 1]
    <2>1. Len(s) \in Nat /\ DOMAIN s = 1 .. Len(s)  BY LenProperties
    <2>2. /\ u \in Seq(X) /\ Len(u) = Len(s) + 1
          /\ \A m \in 1 .. Len(u) : u[m] = IF m <= 1 THEN t[m] ELSE s[m - 1]
      BY <1>1, <1>3, <2>1 DEF Linked
    <2> QED BY <2>1, <2>2, LenProperties
  <1>5. u[1] = b /\ \A m \in 2 .. Len(u) : u[m] = s[m - 1] /\ m - 1 \in DOMAIN s
    BY <1>1, <1>4
  <1>6. \A l, m \in DOMAIN s : s[l] = s[m] => l = m  BY DEF Once
  <1>7. \A l \in DOMAIN s : s[l] # b  BY DEF Holds
  <1>8. Once(u)
    <2> SUFFICES ASSUME NEW l \in DOMAIN u, NEW m \in DOMAIN u, u[l] = u[m] PROVE l = m
      BY DEF Once
    <2>1. (l = 1 \/ l \in 2 .. Len(u)) /\ (m = 1 \/ m \in 2 .. Len(u))  BY <1>4
    <2>2. CASE l = 1 \/ m = 1  BY <1>5, <1>7, <2>1, <2>2
    <2>3. CASE l \in 2 .. Len(u) /\ m \in 2 .. Len(u)
      <3>1. l - 1 = m - 1  BY <1>5, <1>6, <2>3
      <3> QED BY <1>4, <3>1
    <2> QED BY <2>1, <2>2, <2>3
  <1>9. u # <<>>  BY <1>4, EmptySeq
  <1>10. ASSUME NEW x, Holds(u, x) PROVE Holds(s, x) \/ x = b
    <2>1. PICK l \in DOMAIN u : u[l] = x  BY <1>10 DEF Holds
    <2>2. l = 1 \/ l \in 2 .. Len(u)  BY <1>4
    <2> QED BY <1>5, <2>1, <2>2 DEF Holds
  <1>11. ASSUME NEW x, Holds(s, x) PROVE Holds(u, x)
    <2>1. PICK l \in DOMAIN s : s[l] = x  BY <1>11 DEF Holds
    <2>2. l + 1 \in DOMAIN u /\ l + 1 \in 2 .. Len(u) /\ (l + 1) - 1 = l  BY <1>4
    <2>3. u[l + 1] = x  BY <1>5, <2>1, <2>2
    <2> QED BY <2>2, <2>3 DEF Holds
  <1>12. Holds(u, b)
    <2>1. 1 \in DOMAIN u  BY <1>4
    <2> QED BY <1>5, <2>1 DEF Holds
  <1> QED BY <1>4, <1>8, <1>9, <1>10, <1>11, <1>12 DEF Pushed

(***************************************************************************)
(* The lists and bitmaps of a heap file the blocks of S, each in its class.*)
(***************************************************************************)
At(h, b) == MappingInsert(Size(h, b))
In(h, b, i, j) == At(h, b).fl = i /\ At(h, b).sl = j

IsHeap(h) ==
    /\ h = [blk |-> h.blk, flMap |-> h.flMap, slMap |-> h.slMap, list |-> h.list]
    /\ h.list \in [Rows -> [Cols -> Seq(Int)]]
    /\ h.slMap \in [Rows -> SUBSET Cols]
    /\ h.flMap \in SUBSET Rows

MapsExact(h) ==
    /\ \A i \in Rows : i \in h.flMap <=> h.slMap[i] # {}
    /\ \A i \in Rows, j \in Cols : j \in h.slMap[i] <=> h.list[i][j] # <<>>

ListExact(h, i, j, S) ==
    /\ Once(h.list[i][j])
    /\ \A x : Holds(h.list[i][j], x) <=> x \in S /\ In(h, x, i, j)

Filed(h, S) ==
    /\ IsHeap(h) /\ MapsExact(h) /\ S \subseteq Int
    /\ \A i \in Rows, j \in Cols : ListExact(h, i, j, S)
    /\ \A x \in S : At(h, x).fl \in Rows /\ At(h, x).sl \in Cols

\* g is h with the list u at (i, j) and the bitmaps told of it.
Relisted(h, g, i, j, u) ==
    /\ IsHeap(g) /\ g.blk = h.blk /\ g.list[i][j] = u
    /\ \A a \in Rows, b \in Cols : a # i \/ b # j => g.list[a][b] = h.list[a][b]
    /\ MapsExact(g)

\* u is the list at (i, j) when the blocks of T are filed, not those of S.
Lists(h, S, T, i, j, u) ==
    /\ Once(u) /\ T \subseteq Int
    /\ \A x : Holds(u, x) <=> x \in T /\ In(h, x, i, j)
    /\ \A x : ~In(h, x, i, j) => (x \in T <=> x \in S)
    /\ \A x \in T : At(h, x).fl \in Rows /\ At(h, x).sl \in Cols

LEMMA RelistedFiled ==
    ASSUME NEW h, NEW S, Filed(h, S), NEW i \in Rows, NEW j \in Cols, NEW g, NEW u,
           Relisted(h, g, i, j, u), NEW T, Lists(h, S, T, i, j, u)
    PROVE  Filed(g, T) /\ g.blk = h.blk
  <1>0. /\ Once(u) /\ T \subseteq Int
        /\ \A x : Holds(u, x) <=> x \in T /\ In(h, x, i, j)
        /\ \A x : ~In(h, x, i, j) => (x \in T <=> x \in S)
        /\ \A x \in T : At(h, x).fl \in Rows /\ At(h, x).sl \in Cols
    BY DEF Lists
  <1>1. g.blk = h.blk /\ IsHeap(g) /\ MapsExact(g)  BY DEF Relisted
  <1>2. \A x : At(g, x) = At(h, x)  BY <1>1 DEF At, Size
  <1>3. \A x, a, b : In(g, x, a, b) <=> In(h, x, a, b)  BY <1>2 DEF In
  <1>4. ASSUME NEW a \in Rows, NEW b \in Cols PROVE ListExact(g, a, b, T)
    <2>1. CASE a = i /\ b = j
      <3>1. g.list[a][b] = u  BY <2>1 DEF Relisted
      <3> QED BY <1>0, <1>3, <2>1, <3>1 DEF ListExact
    <2>2. CASE ~(a = i /\ b = j)
      <3>1. g.list[a][b] = h.list[a][b]  BY <2>2 DEF Relisted
      <3>2. ListExact(h, a, b, S)  BY DEF Filed
      <3>3. \A x : In(h, x, a, b) => ~In(h, x, i, j)  BY <2>2 DEF In
      <3> QED BY <1>0, <1>3, <3>1, <3>2, <3>3 DEF ListExact
    <2> QED BY <2>1, <2>2
  <1>5. \A x \in T : At(g, x).fl \in Rows /\ At(g, x).sl \in Cols  BY <1>0, <1>2
  <1> QED BY <1>0, <1>1, <1>4, <1>5 DEF Filed

\* The parts of a heap in which one list is another.
LEMMA Relist ==
    ASSUME NEW h, IsHeap(h), MapsExact(h), NEW i \in Rows, NEW j \in Cols, NEW u \in Seq(Int),
           NEW s \in SUBSET Cols, NEW f \in SUBSET Rows,
           \A b \in Cols : b # j => (b \in s <=> b \in h.slMap[i]),
           j \in s <=> u # <<>>,
           \A a \in Rows : a # i => (a \in f <=> a \in h.flMap),
           i \in f <=> s # {},
           NEW g, g = [h EXCEPT !.list[i][j] = u, !.slMap[i] = s, !.flMap = f]
    PROVE  Relisted(h, g, i, j, u)
  <1> DEFINE l == h.list
             m == [l EXCEPT ![i] = [l[i] EXCEPT ![j] = u]]
             v == [h.slMap EXCEPT ![i] = s]
  <1>1. /\ h = [blk |-> h.blk, flMap |-> h.flMap, slMap |-> h.slMap, list |-> h.list]
        /\ l \in [Rows -> [Cols -> Seq(Int)]]
        /\ h.slMap \in [Rows -> SUBSET Cols] /\ h.flMap \in SUBSET Rows
    BY DEF IsHeap
  <1>2. g = [blk |-> h.blk, flMap |-> f, slMap |-> v, list |-> m]
    BY <1>1
  <1>3. g.blk = h.blk /\ g.flMap = f /\ g.slMap = v /\ g.list = m  BY <1>2
  <1>4. /\ m \in [Rows -> [Cols -> Seq(Int)]] /\ m[i][j] = u
        /\ \A a \in Rows, b \in Cols : a # i \/ b # j => m[a][b] = l[a][b]
    <2> HIDE DEF l
    <2>1. l[i] \in [Cols -> Seq(Int)]  BY <1>1
    <2>2. [l[i] EXCEPT ![j] = u] \in [Cols -> Seq(Int)]  BY <2>1
    <2>3. m[i] = [l[i] EXCEPT ![j] = u]  BY <1>1
    <2>4. m[i][j] = u /\ \A b \in Cols : b # j => m[i][b] = l[i][b]  BY <2>1, <2>3
    <2>5. \A a \in Rows : a # i => m[a] = l[a]  BY <1>1
    <2> QED BY <1>1, <2>2, <2>4, <2>5
  <1>5. v \in [Rows -> SUBSET Cols] /\ v[i] = s /\ \A a \in Rows : a # i => v[a] = h.slMap[a]
    BY <1>1
  <1> HIDE DEF l, m, v
  <1>6. IsHeap(g)
    <2>1. g = [blk |-> g.blk, flMap |-> g.flMap, slMap |-> g.slMap, list |-> g.list]
      BY <1>2, <1>3
    <2> QED BY <1>3, <1>4, <1>5, <2>1 DEF IsHeap
  <1>7. ASSUME NEW a \in Rows PROVE a \in g.flMap <=> g.slMap[a] # {}
    <2>1. a \in h.flMap <=> h.slMap[a] # {}  BY DEF MapsExact
    <2>2. CASE a = i  BY <1>3, <1>5, <2>2
    <2>3. CASE a # i  BY <1>3, <1>5, <2>1, <2>3
    <2> QED BY <2>2, <2>3
  <1>8. ASSUME NEW a \in Rows, NEW b \in Cols PROVE b \in g.slMap[a] <=> g.list[a][b] # <<>>
    <2>1. b \in h.slMap[a] <=> h.list[a][b] # <<>>  BY DEF MapsExact
    <2>2. CASE a = i /\ b = j  BY <1>3, <1>4, <1>5, <2>2
    <2>3. CASE a = i /\ b # j
      <3>1. b \in s <=> b \in h.slMap[a]  BY <2>3
      <3>2. g.list[a][b] = h.list[a][b]  BY <1>3, <1>4, <2>3 DEF l
      <3> QED BY <1>3, <1>5, <2>1, <2>3, <3>1, <3>2
    <2>4. CASE a # i
      <3>1. g.list[a][b] = h.list[a][b]  BY <1>3, <1>4, <2>4 DEF l
      <3> QED BY <1>3, <1>5, <2>1, <2>4, <3>1
    <2> QED BY <2>2, <2>3, <2>4
  <1>9. MapsExact(g)  BY <1>7, <1>8 DEF MapsExact
  <1> QED BY <1>3, <1>4, <1>6, <1>9 DEF Relisted, l

LEMMA Removed ==
    ASSUME NEW h, NEW S, Filed(h, S), NEW b \in S, NEW c, c.fl = At(h, b).fl, c.sl = At(h, b).sl,
           NEW g, g = RemoveFreeBlock(h, b, c)
    PROVE  Filed(g, S \ {b}) /\ g.blk = h.blk
  <1> DEFINE i == c.fl
             j == c.sl
             old == h.list[i][j]
             u == RemoveAt(old, CHOOSE k \in DOMAIN old : old[k] = b)
             sl == h.slMap[i]
             fl == h.flMap
             s == sl \ (IF u = <<>> THEN {j} ELSE {})
             f == fl \ (IF s = {} THEN {i} ELSE {})
             X == Int
  <1>1. /\ IsHeap(h) /\ MapsExact(h) /\ i \in Rows /\ j \in Cols /\ b \in Int
        /\ ListExact(h, i, j, S) /\ S \subseteq Int
        /\ \A x \in S : At(h, x).fl \in Rows /\ At(h, x).sl \in Cols
    BY DEF Filed
  <1>2. /\ old \in Seq(X) /\ sl \in SUBSET Cols /\ fl \in SUBSET Rows
        /\ (j \in sl <=> old # <<>>) /\ (i \in fl <=> sl # {})
    BY <1>1 DEF IsHeap, MapsExact
  <1>3. Once(old) /\ Holds(old, b) /\ \A x : Holds(old, x) <=> x \in S /\ In(h, x, i, j)
    BY <1>1 DEF ListExact, In
  <1>4. g = [h EXCEPT !.list[i][j] = u, !.slMap[i] = s, !.flMap = f]
    BY DEF RemoveFreeBlock
  <1> HIDE DEF old, sl, fl, X
  <1>5. Dropped(X, old, b, u)  BY <1>2, <1>3, DroppedIs
  <1>6. u \in Seq(Int) /\ Once(u) /\ \A x : Holds(u, x) <=> Holds(old, x) /\ x # b
    BY <1>5 DEF Dropped, X
  <1>7. old # <<>>
    <2>1. old = <<>> => FALSE
      <3> HAVE old = <<>>
      <3>1. DOMAIN old = {}  OBVIOUS
      <3> QED BY <1>3, <3>1 DEF Holds
    <2> QED BY <2>1
  <1> HIDE DEF u
  <1>8. /\ s \in SUBSET Cols /\ (\A a \in Cols : a # j => (a \in s <=> a \in sl))
        /\ (j \in s <=> u # <<>>)
    BY <1>2, <1>7
  <1> HIDE DEF s
  <1>9. /\ f \in SUBSET Rows /\ (\A a \in Rows : a # i => (a \in f <=> a \in fl))
        /\ (i \in f <=> s # {})
    <2>1. s # {} => i \in fl
      <3>1. s # {} => sl # {}  BY DEF s
      <3> QED BY <1>2, <3>1
    <2> QED BY <1>2, <2>1
  <1> HIDE DEF i, j, f
  <1>10. Relisted(h, g, i, j, u)
    <2>1. /\ \A a \in Cols : a # j => (a \in s <=> a \in h.slMap[i])
          /\ \A a \in Rows : a # i => (a \in f <=> a \in h.flMap)
      BY <1>8, <1>9 DEF sl, fl
    <2> QED BY <1>1, <1>4, <1>6, <1>8, <1>9, <2>1, Relist
  <1> DEFINE T == S \ {b}
  <1>11. /\ T \subseteq Int /\ (\A x : Holds(u, x) <=> x \in T /\ In(h, x, i, j))
         /\ (\A x : ~In(h, x, i, j) => (x \in T <=> x \in S))
         /\ \A x \in T : At(h, x).fl \in Rows /\ At(h, x).sl \in Cols
    <2>1. In(h, b, i, j)  BY DEF In, i, j
    <2> QED BY <1>1, <1>3, <1>6, <2>1
  <1> HIDE DEF T
  <1>13. Lists(h, S, T, i, j, u)  BY <1>6, <1>11 DEF Lists
  <1>12. Filed(g, T) /\ g.blk = h.blk  BY <1>1, <1>10, <1>13, RelistedFiled
  <1> QED BY <1>12 DEF T

LEMMA Inserted ==
    ASSUME NEW h, NEW S, Filed(h, S), NEW b \in Int, b \notin S,
           NEW c, c = At(h, b), c.fl \in Rows, c.sl \in Cols,
           NEW g, g = InsertFreeBlock(h, b, c)
    PROVE  Filed(g, S \union {b}) /\ g.blk = h.blk
  <1> DEFINE i == c.fl
             j == c.sl
             old == h.list[i][j]
             u == <<b>> \o old
             sl == h.slMap[i]
             fl == h.flMap
             s == sl \union {j}
             f == fl \union {i}
             X == Int
  <1>1. /\ IsHeap(h) /\ MapsExact(h) /\ i \in Rows /\ j \in Cols
        /\ ListExact(h, i, j, S) /\ S \subseteq Int
        /\ \A x \in S : At(h, x).fl \in Rows /\ At(h, x).sl \in Cols
    BY DEF Filed
  <1>2. old \in Seq(X) /\ sl \in SUBSET Cols /\ fl \in SUBSET Rows /\ b \in X
    BY <1>1 DEF IsHeap
  <1>3. Once(old) /\ ~Holds(old, b) /\ \A x : Holds(old, x) <=> x \in S /\ In(h, x, i, j)
    BY <1>1 DEF ListExact
  <1>4. g = [h EXCEPT !.list[i][j] = u, !.slMap[i] = s, !.flMap = f]
    BY DEF InsertFreeBlock
  <1> HIDE DEF old, sl, fl, X
  <1>5. Pushed(X, old, b, u)  BY <1>2, <1>3, PushedIs
  <1>6. u \in Seq(Int) /\ Once(u) /\ u # <<>> /\ \A x : Holds(u, x) <=> Holds(old, x) \/ x = b
    BY <1>5 DEF Pushed, X
  <1> HIDE DEF u
  <1>8. /\ s \in SUBSET Cols /\ (\A a \in Cols : a # j => (a \in s <=> a \in sl))
        /\ j \in s
    BY <1>1, <1>2
  <1> HIDE DEF s
  <1>9. /\ f \in SUBSET Rows /\ (\A a \in Rows : a # i => (a \in f <=> a \in fl))
        /\ i \in f /\ s # {}
    BY <1>1, <1>2, <1>8
  <1>I. In(h, b, i, j)  BY DEF In
  <1> HIDE DEF i, j, f
  <1>10. Relisted(h, g, i, j, u)
    <2>1. /\ \A a \in Cols : a # j => (a \in s <=> a \in h.slMap[i])
          /\ \A a \in Rows : a # i => (a \in f <=> a \in h.flMap)
          /\ (j \in s <=> u # <<>>) /\ (i \in f <=> s # {})
      BY <1>6, <1>8, <1>9 DEF sl, fl
    <2> QED BY <1>1, <1>4, <1>6, <1>8, <1>9, <2>1, Relist
  <1> DEFINE T == S \union {b}
  <1>11. /\ T \subseteq Int /\ (\A x : Holds(u, x) <=> x \in T /\ In(h, x, i, j))
         /\ (\A x : ~In(h, x, i, j) => (x \in T <=> x \in S))
         /\ \A x \in T : At(h, x).fl \in Rows /\ At(h, x).sl \in Cols
    BY <1>1, <1>3, <1>6, <1>I
  <1> HIDE DEF T
  <1>13. Lists(h, S, T, i, j, u)  BY <1>6, <1>11 DEF Lists
  <1>12. Filed(g, T) /\ g.blk = h.blk  BY <1>1, <1>10, <1>13, RelistedFiled
  <1> QED BY <1>12 DEF T

\* Only the sizes of the blocks filed matter to their lists.
LEMMA FiledSame ==
    ASSUME NEW h, NEW S, Filed(h, S), NEW g,
           g = [blk |-> g.blk, flMap |-> g.flMap, slMap |-> g.slMap, list |-> g.list],
           g.flMap = h.flMap, g.slMap = h.slMap, g.list = h.list,
           \A x \in S : Size(g, x) = Size(h, x)
    PROVE  Filed(g, S)
  <1>1. \A x \in S : At(g, x) = At(h, x)  BY DEF At
  <1>2. \A x \in S : \A i, j : In(g, x, i, j) <=> In(h, x, i, j)  BY <1>1 DEF In
  <1>3. \A i \in Rows, j \in Cols : ListExact(g, i, j, S)  BY <1>2 DEF Filed, ListExact
  <1>4. IsHeap(g) /\ MapsExact(g)  BY DEF Filed, IsHeap, MapsExact
  <1> QED BY <1>1, <1>3, <1>4 DEF Filed

(***************************************************************************)
(* The search finds a block as large as the floor of the class it starts   *)
(* from if there is one.                                                   *)
(***************************************************************************)
FoundNone(h, a, b) ==
    \A i \in Rows, j \in Cols : h.list[i][j] # <<>> => Before(i, j, a, b)

FoundClass(h, a, b, c) ==
    /\ c.fl \in Rows /\ c.sl \in Cols /\ h.list[c.fl][c.sl] # <<>>
    /\ ~Before(c.fl, c.sl, a, b)

LEMMA IndexTypes ==
    /\ Rows \subseteq Nat /\ Cols \subseteq Nat
    /\ \A i \in Rows : i \in Int
    /\ \A j \in Cols : j \in Int
  BY DEF Rows, Cols

LEMMA Searched ==
    ASSUME NEW h, IsHeap(h), MapsExact(h), NEW at, at.fl \in Rows, at.sl \in Cols
    PROVE  \/ SearchSuitable(h, at) = {} /\ FoundNone(h, at.fl, at.sl)
           \/ \E c : SearchSuitable(h, at) = {c} /\ FoundClass(h, at.fl, at.sl, c)
  <1> DEFINE a == at.fl
             b == at.sl
             here == {j \in h.slMap[a] : j >= b}
             larger == {i \in h.flMap : i > a}
  <1>1. /\ h.slMap \in [Rows -> SUBSET Cols] /\ h.flMap \in SUBSET Rows
        /\ Rows \subseteq Nat /\ Cols \subseteq Nat
        /\ \A i \in Rows : i \in h.flMap <=> h.slMap[i] # {}
        /\ \A i \in Rows, j \in Cols : j \in h.slMap[i] <=> h.list[i][j] # <<>>
    <2>1. h.slMap \in [Rows -> SUBSET Cols] /\ h.flMap \in SUBSET Rows  BY DEF IsHeap
    <2>2. /\ \A i \in Rows : i \in h.flMap <=> h.slMap[i] # {}
          /\ \A i \in Rows, j \in Cols : j \in h.slMap[i] <=> h.list[i][j] # <<>>
      BY DEF MapsExact
    <2> QED BY <2>1, <2>2, IndexTypes
  <1>2. a \in Rows /\ b \in Cols /\ a \in Int /\ b \in Int  BY IndexTypes
  <1>3. CASE here # {}
    <2> DEFINE m == Min(here)
               c == [fl |-> a, sl |-> m]
    <2>1. SearchSuitable(h, at) = {c}  BY <1>3 DEF SearchSuitable
    <2>2. m \in here
      <3>1. here \subseteq Nat  BY <1>1, <1>2
      <3> HIDE DEF here
      <3> QED BY <1>3, <3>1, MinIs
    <2> HIDE DEF m
    <2>3. m \in h.slMap[a] /\ m \in Cols /\ m >= b  BY <1>1, <1>2, <2>2
    <2>4. FoundClass(h, a, b, c)
      <3>1. ~Before(a, m, a, b)
        <4>1. m \in Int  BY <2>3, IndexTypes
        <4> QED BY <1>2, <2>3, <4>1 DEF Before
      <3> QED BY <1>1, <1>2, <2>3, <3>1 DEF FoundClass
    <2> QED BY <2>1, <2>4
  <1>4. CASE here = {} /\ larger # {}
    <2> DEFINE i == Min(larger)
               row == h.slMap[i]
               m == Min(row)
               c == [fl |-> i, sl |-> m]
    <2>1. SearchSuitable(h, at) = {c}  BY <1>4 DEF SearchSuitable
    <2>2. i \in larger
      <3>1. larger \subseteq Nat  BY <1>1
      <3> HIDE DEF larger
      <3> QED BY <1>4, <3>1, MinIs
    <2> HIDE DEF i
    <2>3. i \in Rows /\ i > a /\ row # {} /\ row \subseteq Cols  BY <1>1, <2>2
    <2>4. m \in row
      <3>1. row \subseteq Nat  BY <1>1, <2>3
      <3> HIDE DEF row
      <3> QED BY <2>3, <3>1, MinIs
    <2> HIDE DEF m
    <2>5. m \in Cols /\ h.list[i][m] # <<>>  BY <1>1, <2>3, <2>4
    <2>6. ~Before(i, m, a, b)
      <3>1. i \in Int  BY <2>3, IndexTypes
      <3> QED BY <1>2, <2>3, <3>1 DEF Before
    <2>7. FoundClass(h, a, b, c)  BY <2>3, <2>5, <2>6 DEF FoundClass
    <2> QED BY <2>1, <2>7
  <1>5. CASE here = {} /\ larger = {}
    <2>1. SearchSuitable(h, at) = {}  BY <1>5 DEF SearchSuitable
    <2>2. ASSUME NEW i \in Rows, NEW j \in Cols, h.list[i][j] # <<>> PROVE Before(i, j, a, b)
      <3>1. j \in h.slMap[i] /\ i \in h.flMap  BY <1>1, <2>2
      <3>2. ~(i > a)  BY <1>5, <3>1
      <3>3. i = a => ~(j >= b)  BY <1>5, <3>1
      <3>4. i \in Int /\ j \in Int  BY IndexTypes
      <3> QED BY <1>2, <3>2, <3>3, <3>4 DEF Before
    <2> QED BY <2>1, <2>2 DEF FoundNone
  <1> QED BY <1>3, <1>4, <1>5

\* The blocks of S have sizes that have a class.
Sized(h, S) ==
    \A x \in S : /\ x \in Nat /\ x # 0
                 /\ Size(h, x) \in Nat /\ Size(h, x) >= 1 /\ Size(h, x) < BlockSizeMax

NoneLocated(h, S, n) == n = 0 \/ \A x \in S : Size(h, x) < RoundedUp(n)

BlockLocated(h, S, n, b, g) ==
    /\ b \in S /\ n >= 1 /\ n <= Size(h, b)
    /\ Filed(g, S \ {b}) /\ g.blk = h.blk

\* A size below the floor of a class is filed before it, and no other.
LEMMA FiledBelow ==
    ASSUME NEW h, NEW S, Filed(h, S), Sized(h, S), NEW n \in Nat, n # 0, n < BlockSizeMax,
           NEW at, at = MappingSearch(n), NEW x \in S
    PROVE  /\ Before(At(h, x).fl, At(h, x).sl, at.fl, at.sl) => Size(h, x) < RoundedUp(n)
           /\ ~Before(At(h, x).fl, At(h, x).sl, at.fl, at.sl) => n <= Size(h, x)
  <1>1. /\ IsClass(at) /\ Floor(at.fl, at.sl) = RoundedUp(n)
        /\ RoundedUp(n) \in Nat /\ RoundedUp(n) >= n
    BY SearchFloor
  <1> DEFINE s == Size(h, x)
             m == At(h, x)
  <1>2. s \in Nat /\ s < Pow2[Top]  BY Slots DEF Sized
  <1>3. m = MappingInsert(s)  BY DEF At
  <1> HIDE DEF s, m
  <1>4. /\ Before(m.fl, m.sl, at.fl, at.sl) => s < Floor(at.fl, at.sl)
        /\ ~Before(m.fl, m.sl, at.fl, at.sl) => Floor(at.fl, at.sl) <= s
    BY <1>1, <1>2, <1>3, ClassOrder
  <1> QED BY <1>1, <1>2, <1>4 DEF s, m

LEMMA LocatedIs ==
    ASSUME NEW h, NEW S, Filed(h, S), Sized(h, S), NEW n \in Nat, n < BlockSizeMax,
           NEW b, b = Located(h, n), NEW g, g = LocateFree(h, n)
    PROVE  \/ b = NoBlock /\ g = h /\ NoneLocated(h, S, n)
           \/ b # NoBlock /\ BlockLocated(h, S, n, b, g)
  <1> DEFINE at == MappingSearch(n)
             found == LocateClass(h, n)
  <1>1. /\ IsHeap(h) /\ MapsExact(h)
        /\ \A i \in Rows, j \in Cols : ListExact(h, i, j, S)
        /\ \A x \in S : At(h, x).fl \in Rows /\ At(h, x).sl \in Cols
    BY DEF Filed
  <1>2. found = {} => b = NoBlock /\ g = h  BY DEF Located, LocateFree
  <1>3. CASE n = 0
    <2>1. found = {}  BY <1>3 DEF LocateClass
    <2> QED BY <1>2, <1>3, <2>1 DEF NoneLocated
  <1>4. CASE n # 0 /\ at.fl >= FlIndexCount
    <2>1. found = {}  BY <1>4 DEF LocateClass
    <2>2. IsClass(at)  BY <1>4, SearchFloor
    <2>3. \A x \in S : Size(h, x) < RoundedUp(n)
      <3> TAKE x \in S
      <3>1. At(h, x).fl \in Rows  BY <1>1
      <3>2. Before(At(h, x).fl, At(h, x).sl, at.fl, at.sl)
        BY <1>4, <2>2, <3>1, Indices DEF Before, Rows, IsClass
      <3> QED BY <1>4, <3>2, FiledBelow
    <2> QED BY <1>2, <2>1, <2>3 DEF NoneLocated
  <1>5. CASE n # 0 /\ ~(at.fl >= FlIndexCount)
    <2>1. found = SearchSuitable(h, at)  BY <1>5 DEF LocateClass
    <2>2. at.fl \in Rows /\ at.sl \in Cols
      <3>1. IsClass(at)  BY <1>5, SearchFloor
      <3> QED BY <1>5, <3>1, Indices DEF IsClass, Rows
    <2> HIDE DEF at
    <2>3. CASE found = {} /\ FoundNone(h, at.fl, at.sl)
      <3>1. \A x \in S : Size(h, x) < RoundedUp(n)
        <4> TAKE x \in S
        <4> DEFINE i == At(h, x).fl
                   j == At(h, x).sl
        <4>1. i \in Rows /\ j \in Cols /\ In(h, x, i, j)  BY <1>1 DEF In
        <4> HIDE DEF i, j
        <4>2. Holds(h.list[i][j], x)  BY <1>1, <4>1 DEF ListExact
        <4>3. h.list[i][j] # <<>>
          <5>1. DOMAIN h.list[i][j] # {}  BY <4>2 DEF Holds
          <5> QED BY <5>1
        <4>4. Before(i, j, at.fl, at.sl)  BY <2>3, <4>1, <4>3 DEF FoundNone
        <4> QED BY <1>5, <4>4, FiledBelow DEF i, j, at
      <3> QED BY <1>2, <2>3, <3>1 DEF NoneLocated
    <2>4. ASSUME NEW c, found = {c}, FoundClass(h, at.fl, at.sl, c)
          PROVE  b # NoBlock /\ BlockLocated(h, S, n, b, g)
      <3> DEFINE i == c.fl
                 j == c.sl
                 l == h.list[i][j]
      <3>1. found # {} /\ (CHOOSE d \in found : TRUE) = c  BY <2>4
      <3> HIDE DEF found
      <3>2. b = Head(l)  BY <3>1 DEF Located, found
      <3>3. g = RemoveFreeBlock(h, b, c)  BY <3>1 DEF LocateFree, found
      <3>4. i \in Rows /\ j \in Cols /\ l # <<>> /\ ~Before(i, j, at.fl, at.sl)
        BY <2>4 DEF FoundClass
      <3>5. l \in Seq(Int)  BY <1>1, <3>4 DEF IsHeap
      <3> HIDE DEF l, i, j
      <3>6. Len(l) \in Nat \ {0} /\ DOMAIN l = 1 .. Len(l) /\ b = l[1]
        BY <3>2, <3>4, <3>5, EmptySeq, LenProperties
      <3>7. Holds(l, b)
        <4>1. 1 \in DOMAIN l  BY <3>6
        <4> QED BY <3>6, <4>1 DEF Holds
      <3>8. b \in S /\ In(h, b, i, j)  BY <1>1, <3>4, <3>7 DEF ListExact, l
      <3>9. At(h, b).fl = i /\ At(h, b).sl = j  BY <3>8 DEF In
      <3>10. n <= Size(h, b)  BY <1>5, <3>4, <3>8, <3>9, FiledBelow DEF at
      <3>11. Filed(g, S \ {b}) /\ g.blk = h.blk
        <4>1. c.fl = At(h, b).fl /\ c.sl = At(h, b).sl  BY <3>9 DEF i, j
        <4> QED BY <3>3, <3>8, <4>1, Removed
      <3>12. b # 0  BY <3>8 DEF Sized
      <3> QED BY <1>5, <3>8, <3>10, <3>11, <3>12 DEF NoBlock, BlockLocated
    <2> QED BY <1>2, <2>1, <2>2, <2>3, <2>4, <1>1, Searched
  <1> QED BY <1>3, <1>4, <1>5

(***************************************************************************)
(* Blocks side by side: k gives the header of each block.  F are the first *)
(* blocks of the pools and E their sentinels; every other block ends where *)
(* the next one begins, and what that one says of its predecessor is true. *)
(***************************************************************************)
Headers == [size : Nat, free : BOOLEAN, prevFree : BOOLEAN, prev : Int]

IsHdr(h, s, f, pf, pv) ==
    h \in Headers /\ h.size = s /\ h.free = f /\ h.prevFree = pf /\ h.prev = pv

Nxt(k, b) == b + 1 + k[b].size
Link(b, f) == IF f THEN b ELSE UserData

Fitted(k, F, b) ==
    LET n == Nxt(k, b)
    IN  /\ k[b].size >= BlockSizeMin /\ n \in DOMAIN k /\ n \notin F
        /\ \A x \in DOMAIN k : x <= b \/ x >= n
        /\ k[n].prevFree = k[b].free /\ k[n].prev = Link(b, k[b].free)

Tile(k, F, E) ==
    /\ k \in [DOMAIN k -> Headers] /\ DOMAIN k \subseteq Nat \ {0}
    /\ F \subseteq DOMAIN k /\ E \subseteq DOMAIN k
    /\ \A e \in E : k[e].size = 0 /\ ~k[e].free
    /\ \A f \in F : ~k[f].prevFree /\ k[f].prev = UserData
    /\ \A b \in DOMAIN k \ E : Fitted(k, F, b)
    /\ \A x \in DOMAIN k \ F : \E b \in DOMAIN k \ E : Nxt(k, b) = x

LEMMA HeaderIs ==
    ASSUME NEW k, NEW F, NEW E, Tile(k, F, E), NEW b \in DOMAIN k
    PROVE  /\ k[b] \in Headers /\ b \in Nat /\ b # 0 /\ b >= 1
           /\ k[b].size \in Nat /\ k[b].free \in BOOLEAN /\ k[b].prevFree \in BOOLEAN
           /\ k[b].prev \in Int
           /\ Nxt(k, b) \in Nat /\ Nxt(k, b) > b
  <1>1. k[b] \in Headers /\ b \in Nat /\ b # 0  BY DEF Tile
  <1> QED BY <1>1 DEF Headers, Nxt

\* What Fitted says of a block, with its next block.
NextIs(k, F, b, n) ==
    /\ n = b + 1 + k[b].size /\ k[b].size \in Nat /\ k[b].size >= 3
    /\ b \in Nat /\ n \in Nat /\ n > b
    /\ n \in DOMAIN k /\ n \notin F
    /\ \A x \in DOMAIN k : x \in Nat /\ (x <= b \/ x >= n)
    /\ k[n].prevFree = k[b].free /\ k[n].prev = Link(b, k[b].free)

LEMMA NextOf ==
    ASSUME NEW k, NEW F, NEW E, Tile(k, F, E), NEW b \in DOMAIN k, b \notin E,
           NEW n, n = Nxt(k, b)
    PROVE  NextIs(k, F, b, n)
  <1>1. Fitted(k, F, b)  BY DEF Tile
  <1>2. /\ k[b].size \in Nat /\ b \in Nat /\ n \in Nat /\ n > b
    BY HeaderIs
  <1>3. \A x \in DOMAIN k : x \in Nat  BY DEF Tile
  <1>4. n = b + 1 + k[b].size  BY DEF Nxt
  <1>5. /\ n \in DOMAIN k /\ n \notin F /\ k[n].prevFree = k[b].free
        /\ k[n].prev = Link(b, k[b].free) /\ k[b].size >= 3
        /\ \A x \in DOMAIN k : x <= b \/ x >= n
    BY <1>1 DEF Fitted, BlockSizeMin, HeaderSize
  <1> QED BY <1>2, <1>3, <1>4, <1>5 DEF NextIs

LEMMA NextOnce ==
    ASSUME NEW k, NEW F, NEW E, Tile(k, F, E), NEW a \in DOMAIN k, a \notin E,
           NEW b \in DOMAIN k, b \notin E, Nxt(k, a) = Nxt(k, b)
    PROVE  a = b
  <1> DEFINE m == Nxt(k, a)
             n == Nxt(k, b)
  <1>1. NextIs(k, F, a, m) /\ NextIs(k, F, b, n) /\ m = n  BY NextOf
  <1> HIDE DEF m, n
  <1>2. /\ a \in Nat /\ b \in Nat /\ m \in Nat /\ n \in Nat /\ m = n
        /\ m > a /\ n > b /\ (b <= a \/ b >= m) /\ (a <= b \/ a >= n)
    BY <1>1 DEF NextIs
  <1> QED BY <1>2

(***************************************************************************)
(* j is k with b marked as free or used.                                   *)
(***************************************************************************)
IsMarked(k, b, f, j) ==
    LET n == Nxt(k, b)
    IN  /\ j \in [DOMAIN k -> Headers]
        /\ IsHdr(j[b], k[b].size, f, k[b].prevFree, k[b].prev)
        /\ IsHdr(j[n], k[n].size, k[n].free, f, Link(b, f))
        /\ \A x \in DOMAIN k : x # b /\ x # n => j[x] = k[x]

LEMMA MarkedTile ==
    ASSUME NEW k, NEW F, NEW E, Tile(k, F, E), NEW b \in DOMAIN k, b \notin E,
           NEW f \in BOOLEAN, NEW j, IsMarked(k, b, f, j)
    PROVE  Tile(j, F, E)
  <1> DEFINE n == Nxt(k, b)
  <1>1. NextIs(k, F, b, n)  BY NextOf
  <1>2. /\ j \in [DOMAIN k -> Headers]
        /\ IsHdr(j[b], k[b].size, f, k[b].prevFree, k[b].prev)
        /\ IsHdr(j[n], k[n].size, k[n].free, f, Link(b, f))
        /\ \A x \in DOMAIN k : x # b /\ x # n => j[x] = k[x]
    BY DEF IsMarked
  <1>n. n = Nxt(k, b)  OBVIOUS
  <1> HIDE DEF n
  <1>3. DOMAIN j = DOMAIN k  BY <1>2
  <1>4. \A x \in DOMAIN k : j[x].size = k[x].size /\ Nxt(j, x) = Nxt(k, x)
    BY <1>2 DEF IsHdr, Nxt
  <1>5. /\ k \in [DOMAIN k -> Headers] /\ DOMAIN k \subseteq Nat \ {0}
        /\ F \subseteq DOMAIN k /\ E \subseteq DOMAIN k
        /\ \A e \in E : k[e].size = 0 /\ ~k[e].free
        /\ \A g \in F : ~k[g].prevFree /\ k[g].prev = UserData
        /\ \A x \in DOMAIN k \ F : \E y \in DOMAIN k \ E : Nxt(k, y) = x
    BY DEF Tile
  <1>6. n \notin F /\ n \in DOMAIN k /\ n # b  BY <1>1 DEF NextIs
  <1>7. \A e \in E : j[e].size = 0 /\ ~j[e].free
    <2> TAKE e \in E
    <2>1. CASE e = n  BY <1>2, <1>5, <2>1 DEF IsHdr
    <2>2. CASE e # n  BY <1>2, <1>5, <2>2
    <2> QED BY <2>1, <2>2
  <1>8. \A g \in F : ~j[g].prevFree /\ j[g].prev = UserData
    <2> TAKE g \in F
    <2>1. CASE g = b  BY <1>2, <1>5, <2>1 DEF IsHdr
    <2>2. CASE g # b  BY <1>2, <1>5, <1>6, <2>2
    <2> QED BY <2>1, <2>2
  <1>9. ASSUME NEW x \in DOMAIN j \ E PROVE Fitted(j, F, x)
    <2> DEFINE m == Nxt(k, x)
    <2>1. x \in DOMAIN k /\ x \notin E  BY <1>3
    <2>2. NextIs(k, F, x, m)  BY <2>1, NextOf
    <2>3. Nxt(j, x) = m /\ j[x].size = k[x].size  BY <1>4, <2>1
    <2>4. x # b => m # n  BY <1>n, <2>1, NextOnce
    <2>5. x = b => m = n  BY <1>n
    <2> HIDE DEF m
    <2>6. j[m].prevFree = j[x].free /\ j[m].prev = Link(x, j[x].free)
      <3>1. CASE x = b  BY <1>2, <2>5, <3>1 DEF IsHdr
      <3>2. CASE x # b
        <4>1. j[m].prevFree = k[m].prevFree /\ j[m].prev = k[m].prev
          <5>1. m \in DOMAIN k /\ m # n  BY <2>2, <2>4, <3>2 DEF NextIs
          <5> QED BY <1>2, <5>1 DEF IsHdr
        <4>2. j[x].free = k[x].free  BY <1>2, <2>1, <3>2 DEF IsHdr
        <4> QED BY <2>2, <4>1, <4>2 DEF NextIs
      <3> QED BY <3>1, <3>2
    <2> QED BY <1>3, <2>2, <2>3, <2>6 DEF NextIs, Fitted, BlockSizeMin, HeaderSize
  <1>10. \A x \in DOMAIN j \ F : \E y \in DOMAIN j \ E : Nxt(j, y) = x
    BY <1>3, <1>4, <1>5
  <1> QED BY <1>2, <1>3, <1>5, <1>7, <1>8, <1>9, <1>10 DEF Tile

(***************************************************************************)
(* j is k with b cut in two, b of size s and free or used as f says, and   *)
(* the second block free or used as r says.                                *)
(***************************************************************************)
IsCut(k, b, s, f, r, j) ==
    LET n == Nxt(k, b)
        m == b + 1 + s
    IN  /\ j \in [DOMAIN k \union {m} -> Headers]
        /\ IsHdr(j[b], s, f, k[b].prevFree, k[b].prev)
        /\ IsHdr(j[m], k[b].size - s - 1, r, f, Link(b, f))
        /\ IsHdr(j[n], k[n].size, k[n].free, r, Link(m, r))
        /\ \A x \in DOMAIN k : x # b /\ x # n => j[x] = k[x]

\* Where the second block is.
Between(k, b, s, m) ==
    /\ m = b + 1 + s /\ m \in Nat /\ m > b /\ m < Nxt(k, b) /\ m \notin DOMAIN k
    /\ m + 1 + (k[b].size - s - 1) = Nxt(k, b)
    /\ k[b].size - s - 1 \in Nat

LEMMA CutBetween ==
    ASSUME NEW k, NEW F, NEW E, Tile(k, F, E), NEW b \in DOMAIN k, b \notin E,
           NEW s \in Nat, k[b].size >= s + 1, NEW m, m = b + 1 + s
    PROVE  Between(k, b, s, m)
  <1> DEFINE n == Nxt(k, b)
  <1>1. NextIs(k, F, b, n)  BY NextOf
  <1> HIDE DEF n
  <1>2. /\ n = b + 1 + k[b].size /\ k[b].size \in Nat /\ b \in Nat
        /\ \A x \in DOMAIN k : x \in Nat /\ (x <= b \/ x >= n)
    BY <1>1 DEF NextIs
  <1>3. m \in Nat /\ m > b /\ m < n  BY <1>2
  <1>4. m \notin DOMAIN k  BY <1>2, <1>3
  <1>5. m + 1 + (k[b].size - s - 1) = n /\ k[b].size - s - 1 \in Nat  BY <1>2
  <1> QED BY <1>3, <1>4, <1>5 DEF Between, n

LEMMA CutTile ==
    ASSUME NEW k, NEW F, NEW E, Tile(k, F, E), NEW b \in DOMAIN k, b \notin E,
           NEW s \in Nat, s >= 3, k[b].size >= s + 4,
           NEW f \in BOOLEAN, NEW r \in BOOLEAN, NEW j, IsCut(k, b, s, f, r, j)
    PROVE  Tile(j, F, E)
  <1> DEFINE n == Nxt(k, b)
             m == b + 1 + s
             z == k[b].size - s - 1
  <1>1. NextIs(k, F, b, n)  BY NextOf
  <1>2. /\ j \in [DOMAIN k \union {m} -> Headers]
        /\ IsHdr(j[b], s, f, k[b].prevFree, k[b].prev)
        /\ IsHdr(j[m], z, r, f, Link(b, f))
        /\ IsHdr(j[n], k[n].size, k[n].free, r, Link(m, r))
        /\ \A x \in DOMAIN k : x # b /\ x # n => j[x] = k[x]
    BY DEF IsCut
  <1>3. Between(k, b, s, m)
    <2>1. k[b].size \in Nat  BY HeaderIs
    <2>2. k[b].size >= s + 1  BY <2>1
    <2> QED BY <2>2, CutBetween
  <1>4. /\ m \in Nat /\ m > b /\ m < n /\ m \notin DOMAIN k /\ m + 1 + z = n /\ z \in Nat
        /\ m = b + 1 + s
    BY <1>3 DEF Between
  <1>5. z >= 3
    <2>1. k[b].size \in Nat  BY HeaderIs
    <2> QED BY <2>1
  <1>n. n = Nxt(k, b)  OBVIOUS
  <1> HIDE DEF n, m, z
  <1>6. /\ DOMAIN j = DOMAIN k \union {m}
        /\ b \in Nat /\ n \in Nat /\ n \in DOMAIN k /\ n \notin F /\ n > b
        /\ \A x \in DOMAIN k : x \in Nat /\ (x <= b \/ x >= n)
    BY <1>1, <1>2 DEF NextIs
  <1>7. /\ k \in [DOMAIN k -> Headers] /\ DOMAIN k \subseteq Nat \ {0}
        /\ F \subseteq DOMAIN k /\ E \subseteq DOMAIN k
        /\ \A e \in E : k[e].size = 0 /\ ~k[e].free
        /\ \A g \in F : ~k[g].prevFree /\ k[g].prev = UserData
        /\ \A x \in DOMAIN k \ F : \E y \in DOMAIN k \ E : Nxt(k, y) = x
    BY DEF Tile
  <1>8. /\ Nxt(j, b) = m /\ Nxt(j, m) = n
        /\ \A x \in DOMAIN k : x # b => j[x].size = k[x].size /\ j[x].free = k[x].free
                                        /\ Nxt(j, x) = Nxt(k, x)
        /\ \A x \in DOMAIN k : x # n => j[x].prevFree = k[x].prevFree /\ j[x].prev = k[x].prev
    BY <1>2, <1>4 DEF IsHdr, Nxt
  <1>9. \A e \in E : j[e].size = 0 /\ ~j[e].free  BY <1>7, <1>8
  <1>10. \A g \in F : ~j[g].prevFree /\ j[g].prev = UserData  BY <1>6, <1>7, <1>8
  <1>11. Fitted(j, F, b)
    <2>1. \A x \in DOMAIN j : x <= b \/ x >= m  BY <1>4, <1>6
    <2>2. m \notin F  BY <1>4, <1>7
    <2> QED BY <1>2, <1>4, <1>6, <1>8, <2>1, <2>2 DEF Fitted, IsHdr, BlockSizeMin, HeaderSize
  <1>12. Fitted(j, F, m)
    <2>1. \A x \in DOMAIN j : x <= m \/ x >= n  BY <1>4, <1>6
    <2> QED BY <1>2, <1>4, <1>5, <1>6, <1>8, <2>1 DEF Fitted, IsHdr, BlockSizeMin, HeaderSize
  <1>13. ASSUME NEW x \in DOMAIN k, x \notin E, x # b PROVE Fitted(j, F, x)
    <2> DEFINE y == Nxt(k, x)
    <2>1. NextIs(k, F, x, y)  BY <1>13, NextOf
    <2>2. y # n  BY <1>13, <1>n, NextOnce
    <2>3. Nxt(j, x) = y /\ j[x].size = k[x].size /\ j[x].free = k[x].free  BY <1>8, <1>13
    <2> HIDE DEF y
    <2>4. /\ y \in DOMAIN k /\ y \notin F /\ k[x].size >= 3 /\ x \in Nat /\ y \in Nat /\ y > x
          /\ \A z1 \in DOMAIN k : z1 <= x \/ z1 >= y
          /\ k[y].prevFree = k[x].free /\ k[y].prev = Link(x, k[x].free)
      BY <2>1 DEF NextIs
    <2>5. m <= x \/ m >= y
      <3>1. x <= b \/ x >= n  BY <1>6
      <3>2. b <= x \/ b >= y  BY <2>4
      <3> QED BY <1>4, <1>6, <1>13, <2>4, <3>1, <3>2
    <2>6. \A x1 \in DOMAIN j : x1 <= x \/ x1 >= y  BY <1>6, <2>4, <2>5
    <2>7. j[y].prevFree = k[y].prevFree /\ j[y].prev = k[y].prev  BY <1>8, <2>2, <2>4
    <2> QED BY <1>6, <2>3, <2>4, <2>6, <2>7 DEF Fitted, BlockSizeMin, HeaderSize
  <1>14. \A x \in DOMAIN j \ E : Fitted(j, F, x)
    BY <1>6, <1>11, <1>12, <1>13
  <1>15. ASSUME NEW x \in DOMAIN j \ F PROVE \E y \in DOMAIN j \ E : Nxt(j, y) = x
    <2>0. b \in DOMAIN j \ E /\ m \in DOMAIN j \ E  BY <1>4, <1>6, <1>7
    <2>1. CASE x = m  BY <1>8, <2>0, <2>1
    <2>2. CASE x = n  BY <1>8, <2>0, <2>2
    <2>3. CASE x # m /\ x # n
      <3>1. PICK y \in DOMAIN k \ E : Nxt(k, y) = x  BY <1>6, <1>7, <2>3
      <3>2. y # b  BY <1>n, <2>3, <3>1
      <3> QED BY <1>6, <1>8, <3>1, <3>2
    <2> QED BY <2>1, <2>2, <2>3
  <1>16. DOMAIN j \subseteq Nat \ {0}  BY <1>4, <1>6, <1>7
  <1>17. j \in [DOMAIN j -> Headers] /\ F \subseteq DOMAIN j /\ E \subseteq DOMAIN j
    BY <1>2, <1>6, <1>7
  <1> QED BY <1>9, <1>10, <1>14, <1>15, <1>16, <1>17 DEF Tile

(***************************************************************************)
(* j is k with b and its next block made one, free or used as f says.      *)
(***************************************************************************)
IsFused(k, b, f, j) ==
    LET c == Nxt(k, b)
        n == Nxt(k, c)
    IN  /\ j \in [DOMAIN k \ {c} -> Headers]
        /\ IsHdr(j[b], k[b].size + 1 + k[c].size, f, k[b].prevFree, k[b].prev)
        /\ IsHdr(j[n], k[n].size, k[n].free, f, Link(b, f))
        /\ \A x \in DOMAIN k : x # b /\ x # c /\ x # n => j[x] = k[x]

\* Where the blocks are.
Row3(k, b, c, n) ==
    /\ b \in Nat /\ c \in Nat /\ n \in Nat /\ b < c /\ c < n
    /\ c = b + 1 + k[b].size /\ n = c + 1 + k[c].size
    /\ k[b].size \in Nat /\ k[c].size \in Nat /\ k[b].size >= 3 /\ k[c].size >= 3
    /\ c \in DOMAIN k /\ n \in DOMAIN k

LEMMA RowOf ==
    ASSUME NEW k, NEW F, NEW E, Tile(k, F, E), NEW b \in DOMAIN k, b \notin E,
           NEW c, c = Nxt(k, b), c \notin E, NEW n, n = Nxt(k, c)
    PROVE  /\ Row3(k, b, c, n) /\ n \notin F /\ c \notin F
           /\ \A x \in DOMAIN k : x \in Nat /\ (x <= b \/ x = c \/ x >= n)
  <1>1. NextIs(k, F, b, c)  BY NextOf
  <1>2. c \in DOMAIN k  BY <1>1 DEF NextIs
  <1>3. NextIs(k, F, c, n)  BY <1>2, NextOf
  <1>4. ASSUME NEW x \in DOMAIN k PROVE x \in Nat /\ (x <= b \/ x = c \/ x >= n)
    <2>1. x \in Nat /\ (x <= b \/ x >= c) /\ (x <= c \/ x >= n) /\ c \in Nat
      BY <1>1, <1>3 DEF NextIs
    <2> QED BY <2>1
  <1>5. Row3(k, b, c, n)  BY <1>1, <1>3 DEF NextIs, Row3
  <1> QED BY <1>1, <1>3, <1>4, <1>5 DEF NextIs

LEMMA FusedTile ==
    ASSUME NEW k, NEW F, NEW E, Tile(k, F, E), NEW b \in DOMAIN k, b \notin E,
           Nxt(k, b) \notin E, NEW f \in BOOLEAN, NEW j, IsFused(k, b, f, j)
    PROVE  Tile(j, F, E)
  <1> DEFINE c == Nxt(k, b)
             n == Nxt(k, c)
  <1>1. /\ Row3(k, b, c, n) /\ n \notin F /\ c \notin F
        /\ \A x \in DOMAIN k : x \in Nat /\ (x <= b \/ x = c \/ x >= n)
    BY RowOf
  <1>2. /\ j \in [DOMAIN k \ {c} -> Headers]
        /\ IsHdr(j[b], k[b].size + 1 + k[c].size, f, k[b].prevFree, k[b].prev)
        /\ IsHdr(j[n], k[n].size, k[n].free, f, Link(b, f))
        /\ \A x \in DOMAIN k : x # b /\ x # c /\ x # n => j[x] = k[x]
    BY DEF IsFused
  <1>n. c = Nxt(k, b) /\ n = Nxt(k, c) /\ c \notin E  OBVIOUS
  <1> HIDE DEF c, n
  <1>3. /\ b \in Nat /\ c \in Nat /\ n \in Nat /\ b < c /\ c < n /\ c \in DOMAIN k
        /\ c = b + 1 + k[b].size /\ n = c + 1 + k[c].size /\ n \in DOMAIN k
        /\ k[b].size \in Nat /\ k[c].size \in Nat /\ k[b].size >= 3 /\ k[c].size >= 3
    BY <1>1 DEF Row3
  <1>4. /\ DOMAIN j = DOMAIN k \ {c} /\ b \in DOMAIN j /\ n \in DOMAIN j
    BY <1>2, <1>3
  <1>5. /\ k \in [DOMAIN k -> Headers] /\ DOMAIN k \subseteq Nat \ {0}
        /\ F \subseteq DOMAIN k /\ E \subseteq DOMAIN k
        /\ \A e \in E : k[e].size = 0 /\ ~k[e].free
        /\ \A g \in F : ~k[g].prevFree /\ k[g].prev = UserData
        /\ \A x \in DOMAIN k \ F : \E y \in DOMAIN k \ E : Nxt(k, y) = x
    BY DEF Tile
  <1>6. /\ Nxt(j, b) = n
        /\ \A x \in DOMAIN j : x # b => j[x].size = k[x].size /\ j[x].free = k[x].free
                                        /\ Nxt(j, x) = Nxt(k, x)
        /\ \A x \in DOMAIN j : x # n => j[x].prevFree = k[x].prevFree /\ j[x].prev = k[x].prev
    BY <1>2, <1>3, <1>4 DEF IsHdr, Nxt
  <1>7. \A e \in E : e \in DOMAIN j /\ j[e].size = 0 /\ ~j[e].free
    BY <1>n, <1>4, <1>5, <1>6
  <1>8. \A g \in F : g \in DOMAIN j /\ ~j[g].prevFree /\ j[g].prev = UserData
    BY <1>1, <1>4, <1>5, <1>6
  <1>9. Fitted(j, F, b)
    <2>1. \A x \in DOMAIN j : x <= b \/ x >= n  BY <1>1, <1>4
    <2> QED BY <1>1, <1>2, <1>3, <1>4, <1>6, <2>1 DEF Fitted, IsHdr, BlockSizeMin, HeaderSize
  <1>10. ASSUME NEW x \in DOMAIN j, x \notin E, x # b PROVE Fitted(j, F, x)
    <2> DEFINE y == Nxt(k, x)
    <2>0. x \in DOMAIN k /\ x # c  BY <1>4
    <2>1. NextIs(k, F, x, y)  BY <1>10, <2>0, NextOf
    <2>2. y # c  BY <1>10, <1>n, <2>0, NextOnce
    <2>3. y # n  BY <1>10, <1>n, <1>3, <2>0, NextOnce
    <2>4. Nxt(j, x) = y /\ j[x].size = k[x].size /\ j[x].free = k[x].free  BY <1>6, <1>10
    <2> HIDE DEF y
    <2>5. /\ y \in DOMAIN k /\ y \notin F /\ k[x].size >= 3
          /\ \A z1 \in DOMAIN k : z1 <= x \/ z1 >= y
          /\ k[y].prevFree = k[x].free /\ k[y].prev = Link(x, k[x].free)
      BY <2>1 DEF NextIs
    <2>6. y \in DOMAIN j  BY <1>4, <2>2, <2>5
    <2>7. j[y].prevFree = k[y].prevFree /\ j[y].prev = k[y].prev  BY <1>6, <2>3, <2>6
    <2> QED BY <1>4, <2>4, <2>5, <2>6, <2>7 DEF Fitted, BlockSizeMin, HeaderSize
  <1>11. \A x \in DOMAIN j \ E : Fitted(j, F, x)  BY <1>9, <1>10
  <1>12. ASSUME NEW x \in DOMAIN j \ F PROVE \E y \in DOMAIN j \ E : Nxt(j, y) = x
    <2>1. CASE x = n  BY <1>4, <1>6, <2>1
    <2>2. CASE x # n
      <3>1. PICK y \in DOMAIN k \ E : Nxt(k, y) = x  BY <1>4, <1>5
      <3>2. y # b /\ y # c  BY <1>n, <1>4, <2>2, <3>1
      <3> QED BY <1>4, <1>6, <3>1, <3>2
    <2> QED BY <2>1, <2>2
  <1>13. /\ j \in [DOMAIN j -> Headers] /\ F \subseteq DOMAIN j /\ E \subseteq DOMAIN j
         /\ DOMAIN j \subseteq Nat \ {0}
    BY <1>2, <1>4, <1>5, <1>7, <1>8
  <1> QED BY <1>7, <1>8, <1>11, <1>12, <1>13 DEF Tile

(***************************************************************************)
(* The operations on blocks are the relations above: they change headers   *)
(* and leave the lists alone.                                              *)
(***************************************************************************)
SameLists(h, g) == g.flMap = h.flMap /\ g.slMap = h.slMap /\ g.list = h.list

Shape(h) == h = [blk |-> h.blk, flMap |-> h.flMap, slMap |-> h.slMap, list |-> h.list]
Blocks(h) == Shape(h) /\ h.blk \in [DOMAIN h.blk -> Headers]

\* g is h with the headers j.
Reblocked(h, g, j) == Blocks(g) /\ SameLists(h, g) /\ g.blk = j

\* j is k with another header at x.
Altered(k, x, s, f, pf, pv, j) ==
    /\ j \in [DOMAIN k -> Headers]
    /\ IsHdr(j[x], s, f, pf, pv)
    /\ \A y \in DOMAIN k : y # x => j[y] = k[y]

LEMMA Reblock ==
    ASSUME NEW h, Shape(h), NEW D, NEW j \in [D -> Headers], NEW g, g = [h EXCEPT !.blk = j]
    PROVE  Reblocked(h, g, j)
  <1>1. /\ g = [blk |-> j, flMap |-> h.flMap, slMap |-> h.slMap, list |-> h.list]
    BY DEF Shape
  <1>2. g.blk = j /\ g.flMap = h.flMap /\ g.slMap = h.slMap /\ g.list = h.list  BY <1>1
  <1>3. Shape(g)  BY <1>1, <1>2 DEF Shape
  <1>4. g.blk \in [DOMAIN g.blk -> Headers]  BY <1>2
  <1> QED BY <1>2, <1>3, <1>4 DEF Reblocked, Blocks, SameLists

\* g is h with the header v at x.
Headed(h, x, v, g) ==
    g = [h EXCEPT !.blk = [h.blk EXCEPT ![x] = v]]

SetPrev(h, b, p) == [h EXCEPT !.blk[b].prev = p]
SetFree(h, b, f) == [h EXCEPT !.blk[b].free = f]

LEMMA Alter ==
    ASSUME NEW h, Blocks(h), NEW k, k = h.blk, NEW x \in DOMAIN k, NEW v,
           NEW s, NEW f, NEW pf, NEW pv, IsHdr(v, s, f, pf, pv),
           NEW g, Headed(h, x, v, g)
    PROVE  Reblocked(h, g, g.blk) /\ Altered(k, x, s, f, pf, pv, g.blk)
  <1> DEFINE j == [k EXCEPT ![x] = v]
  <1>1. v \in Headers  BY DEF IsHdr
  <1>2. k \in [DOMAIN k -> Headers] /\ Shape(h)  BY DEF Blocks
  <1>3. j \in [DOMAIN k -> Headers]  BY <1>1, <1>2
  <1>4. j[x] = v /\ \A y \in DOMAIN k : y # x => j[y] = k[y]  BY <1>2
  <1>5. g = [h EXCEPT !.blk = j]  BY DEF Headed
  <1> HIDE DEF j
  <1>6. Reblocked(h, g, j)  BY <1>2, <1>3, <1>5, Reblock
  <1>7. g.blk = j  BY <1>6 DEF Reblocked
  <1> QED BY <1>1, <1>3, <1>4, <1>6, <1>7 DEF Altered

LEMMA SameBoth ==
    ASSUME NEW h, NEW g, NEW e, NEW i, NEW j, Reblocked(h, g, i), Reblocked(g, e, j)
    PROVE  Reblocked(h, e, j)
  BY DEF Reblocked, SameLists

\* The parts of a header.
LEMMA HeaderParts ==
    ASSUME NEW h, Blocks(h), NEW x \in DOMAIN h.blk, NEW v, v = h.blk[x]
    PROVE  /\ v.size \in Nat /\ v.free \in BOOLEAN /\ v.prevFree \in BOOLEAN /\ v.prev \in Int
           /\ v = [size |-> v.size, free |-> v.free, prevFree |-> v.prevFree, prev |-> v.prev]
  <1>1. v \in Headers  BY DEF Blocks
  <1> QED BY <1>1 DEF Headers

LEMMA SetPrevIs ==
    ASSUME NEW h, Blocks(h), NEW k, k = h.blk, NEW n \in DOMAIN k, NEW b \in Int,
           NEW g, g = SetPrev(h, n, b)
    PROVE  /\ Reblocked(h, g, g.blk)
           /\ Altered(k, n, k[n].size, k[n].free, k[n].prevFree, b, g.blk)
  <1> DEFINE v == k[n]
             u == [v EXCEPT !.prev = b]
             s == v.size
             f == v.free
             pf == v.prevFree
  <1>1. /\ s \in Nat /\ f \in BOOLEAN /\ pf \in BOOLEAN
        /\ v = [size |-> s, free |-> f, prevFree |-> pf, prev |-> v.prev]
    BY HeaderParts
  <1>2. u = [size |-> s, free |-> f, prevFree |-> pf, prev |-> b]  BY <1>1
  <1>3. IsHdr(u, s, f, pf, b)  BY <1>1, <1>2 DEF IsHdr, Headers
  <1>4. Headed(h, n, u, g)  BY DEF Headed, SetPrev
  <1> HIDE DEF u, s, f, pf
  <1>5. Reblocked(h, g, g.blk) /\ Altered(k, n, s, f, pf, b, g.blk)
    BY <1>3, <1>4, Alter
  <1> QED BY <1>5 DEF s, f, pf

LEMMA LinkNextIs ==
    ASSUME NEW h, Blocks(h), NEW k, k = h.blk, NEW b \in DOMAIN k, b \in Int,
           NEW n \in DOMAIN k, n = Nxt(k, b), NEW g, g = LinkNext(h, b)
    PROVE  /\ Reblocked(h, g, g.blk)
           /\ Altered(k, n, k[n].size, k[n].free, k[n].prevFree, b, g.blk)
  <1>1. BlockNext(h, b) = n  BY DEF BlockNext, Nxt, Size, HeaderOverhead
  <1>2. g = SetPrev(h, n, b)  BY <1>1 DEF LinkNext, SetPrev
  <1> QED BY <1>2, SetPrevIs

LEMMA SetPrevFreeIs ==
    ASSUME NEW h, Blocks(h), NEW k, k = h.blk, NEW n \in DOMAIN k, NEW r \in BOOLEAN,
           NEW g, g = SetPrevFree(h, n, r)
    PROVE  /\ Reblocked(h, g, g.blk)
           /\ Altered(k, n, k[n].size, k[n].free, r, k[n].prev, g.blk)
  <1> DEFINE v == k[n]
             u == [v EXCEPT !.prevFree = r]
             s == v.size
             f == v.free
             pv == v.prev
  <1>1. /\ s \in Nat /\ f \in BOOLEAN /\ pv \in Int
        /\ v = [size |-> s, free |-> f, prevFree |-> v.prevFree, prev |-> pv]
    BY HeaderParts
  <1>2. u = [size |-> s, free |-> f, prevFree |-> r, prev |-> pv]  BY <1>1
  <1>3. IsHdr(u, s, f, r, pv)  BY <1>1, <1>2 DEF IsHdr, Headers
  <1>4. Headed(h, n, u, g)  BY DEF SetPrevFree, Headed
  <1> HIDE DEF u, s, f, pv
  <1>5. Reblocked(h, g, g.blk) /\ Altered(k, n, s, f, r, pv, g.blk)
    BY <1>3, <1>4, Alter
  <1> QED BY <1>5 DEF s, f, pv

LEMMA SetFreeIs ==
    ASSUME NEW h, Blocks(h), NEW k, k = h.blk, NEW n \in DOMAIN k, NEW r \in BOOLEAN,
           NEW g, g = SetFree(h, n, r)
    PROVE  /\ Reblocked(h, g, g.blk)
           /\ Altered(k, n, k[n].size, r, k[n].prevFree, k[n].prev, g.blk)
  <1> DEFINE v == k[n]
             u == [v EXCEPT !.free = r]
             s == v.size
             pf == v.prevFree
             pv == v.prev
  <1>1. /\ s \in Nat /\ pf \in BOOLEAN /\ pv \in Int
        /\ v = [size |-> s, free |-> v.free, prevFree |-> pf, prev |-> pv]
    BY HeaderParts
  <1>2. u = [size |-> s, free |-> r, prevFree |-> pf, prev |-> pv]  BY <1>1
  <1>3. IsHdr(u, s, r, pf, pv)  BY <1>1, <1>2 DEF IsHdr, Headers
  <1>4. Headed(h, n, u, g)  BY DEF Headed, SetFree
  <1> HIDE DEF u, s, pf, pv
  <1>5. Reblocked(h, g, g.blk) /\ Altered(k, n, s, r, pf, pv, g.blk)
    BY <1>3, <1>4, Alter
  <1> QED BY <1>5 DEF s, pf, pv

LEMMA MarkAsFreeIs ==
    ASSUME NEW h, Blocks(h), NEW k, k = h.blk, NEW b \in DOMAIN k, b \in Int,
           NEW n \in DOMAIN k, n = Nxt(k, b), n # b, NEW g, g = MarkAsFree(h, b)
    PROVE  Reblocked(h, g, g.blk) /\ IsMarked(k, b, TRUE, g.blk)
  <1> DEFINE h1 == LinkNext(h, b)
             yes == TRUE
             h2 == SetPrevFree(h1, n, yes)
  <1>n. yes \in BOOLEAN /\ yes = TRUE /\ h1 = LinkNext(h, b) /\ h2 = SetPrevFree(h1, n, yes)
    OBVIOUS
  <1>1. BlockNext(h, b) = n  BY DEF BlockNext, Nxt, Size, HeaderOverhead
  <1>2. g = SetFree(h2, b, yes)  BY <1>1 DEF MarkAsFree, SetFree
  <1> HIDE DEF h1, h2, yes
  <1>3. /\ Reblocked(h, h1, h1.blk)
        /\ Altered(k, n, k[n].size, k[n].free, k[n].prevFree, b, h1.blk)
    BY <1>n, LinkNextIs
  <1> DEFINE k1 == h1.blk
  <1>4. k1 = h1.blk /\ Blocks(h1) /\ n \in DOMAIN k1 /\ DOMAIN k1 = DOMAIN k
    BY <1>3 DEF Reblocked, Altered
  <1> HIDE DEF k1
  <1>5. /\ Reblocked(h1, h2, h2.blk)
        /\ Altered(k1, n, k1[n].size, k1[n].free, yes, k1[n].prev, h2.blk)
    BY <1>n, <1>4, SetPrevFreeIs
  <1> DEFINE k2 == h2.blk
  <1>6. k2 = h2.blk /\ Blocks(h2) /\ b \in DOMAIN k2 /\ DOMAIN k2 = DOMAIN k
    BY <1>4, <1>5 DEF Reblocked, Altered
  <1> HIDE DEF k2
  <1>7. /\ Reblocked(h2, g, g.blk)
        /\ Altered(k2, b, k2[b].size, yes, k2[b].prevFree, k2[b].prev, g.blk)
    BY <1>n, <1>2, <1>6, SetFreeIs, ZenonT(60)
  <1> DEFINE j == g.blk
  <1>8. Reblocked(h, g, j)  BY <1>3, <1>5, <1>7, SameBoth
  <1>9. /\ Altered(k, n, k[n].size, k[n].free, k[n].prevFree, b, k1)
        /\ Altered(k1, n, k1[n].size, k1[n].free, yes, k1[n].prev, k2)
        /\ Altered(k2, b, k2[b].size, yes, k2[b].prevFree, k2[b].prev, j)
    BY <1>3, <1>4, <1>5, <1>6, <1>7
  <1> HIDE DEF j
  <1>10. /\ j \in [DOMAIN k -> Headers]
         /\ IsHdr(j[b], k[b].size, yes, k[b].prevFree, k[b].prev)
         /\ IsHdr(j[n], k[n].size, k[n].free, yes, b)
         /\ \A x \in DOMAIN k : x # b /\ x # n => j[x] = k[x]
    BY <1>4, <1>6, <1>9 DEF Altered, IsHdr
  <1>11. Link(b, TRUE) = b  BY DEF Link
  <1>12. IsMarked(k, b, TRUE, j)  BY <1>n, <1>10, <1>11 DEF IsMarked
  <1> QED BY <1>8, <1>12 DEF j

LEMMA MarkAsUsedIs ==
    ASSUME NEW h, Blocks(h), NEW k, k = h.blk, NEW b \in DOMAIN k, b \in Int,
           NEW n \in DOMAIN k, n = Nxt(k, b), n # b, NEW g, g = MarkAsUsed(h, b)
    PROVE  Reblocked(h, g, g.blk) /\ IsMarked(k, b, FALSE, g.blk)
  <1> DEFINE no == FALSE
             h1 == SetPrevFree(h, n, no)
             h2 == SetFree(h1, b, no)
             u == UserData
  <1>n. no \in BOOLEAN /\ no = FALSE /\ h1 = SetPrevFree(h, n, no) /\ u \in Int /\ u = UserData
    BY DEF UserData
  <1>1. BlockNext(h, b) = n  BY DEF BlockNext, Nxt, Size, HeaderOverhead
  <1>2. g = SetPrev(h2, n, u) /\ h2 = SetFree(h1, b, no)
    BY <1>1 DEF MarkAsUsed, SetFree, SetPrev
  <1> HIDE DEF h1, h2, no, u
  <1>3. /\ Reblocked(h, h1, h1.blk)
        /\ Altered(k, n, k[n].size, k[n].free, no, k[n].prev, h1.blk)
    BY <1>n, SetPrevFreeIs
  <1> DEFINE k1 == h1.blk
  <1>4. k1 = h1.blk /\ Blocks(h1) /\ b \in DOMAIN k1 /\ DOMAIN k1 = DOMAIN k
    BY <1>3 DEF Reblocked, Altered
  <1> HIDE DEF k1
  <1>5. /\ Reblocked(h1, h2, h2.blk)
        /\ Altered(k1, b, k1[b].size, no, k1[b].prevFree, k1[b].prev, h2.blk)
    BY <1>n, <1>2, <1>4, SetFreeIs
  <1> DEFINE k2 == h2.blk
  <1>6. k2 = h2.blk /\ Blocks(h2) /\ n \in DOMAIN k2 /\ DOMAIN k2 = DOMAIN k
    BY <1>4, <1>5 DEF Reblocked, Altered
  <1> HIDE DEF k2
  <1>7. /\ Reblocked(h2, g, g.blk)
        /\ Altered(k2, n, k2[n].size, k2[n].free, k2[n].prevFree, u, g.blk)
    BY <1>n, <1>2, <1>6, SetPrevIs
  <1> DEFINE j == g.blk
  <1>8. Reblocked(h, g, j)  BY <1>3, <1>5, <1>7, SameBoth
  <1>9. /\ Altered(k, n, k[n].size, k[n].free, no, k[n].prev, k1)
        /\ Altered(k1, b, k1[b].size, no, k1[b].prevFree, k1[b].prev, k2)
        /\ Altered(k2, n, k2[n].size, k2[n].free, k2[n].prevFree, u, j)
    BY <1>3, <1>4, <1>5, <1>6, <1>7
  <1> HIDE DEF j
  <1>10. /\ j \in [DOMAIN k -> Headers]
         /\ IsHdr(j[b], k[b].size, no, k[b].prevFree, k[b].prev)
         /\ IsHdr(j[n], k[n].size, k[n].free, no, u)
         /\ \A x \in DOMAIN k : x # b /\ x # n => j[x] = k[x]
    BY <1>4, <1>6, <1>9 DEF Altered, IsHdr
  <1>11. Link(b, FALSE) = UserData  BY DEF Link
  <1>12. IsMarked(k, b, FALSE, j)  BY <1>n, <1>10, <1>11 DEF IsMarked
  <1> QED BY <1>8, <1>12 DEF j

(***************************************************************************)
(* block_split leaves the second block free and its prevFree flag set; the *)
(* trims then make the flags true of what they do with the two blocks.     *)
(***************************************************************************)
WasSplit(k, b, s, m, n, j) ==
    /\ b \in DOMAIN k /\ b \in Nat /\ n \in DOMAIN k /\ n = Nxt(k, b) /\ Between(k, b, s, m)
    /\ j \in [DOMAIN k \union {m} -> Headers]
    /\ IsHdr(j[b], s, k[b].free, k[b].prevFree, k[b].prev)
    /\ IsHdr(j[m], k[b].size - s - 1, TRUE, TRUE, UserData)
    /\ IsHdr(j[n], k[n].size, k[n].free, TRUE, m)
    /\ \A x \in DOMAIN k : x # b /\ x # n => j[x] = k[x]

\* The second block has a header, the first its new size.
HeaderLaid(k, b, s, m, i) ==
    /\ i \in [DOMAIN k \union {m} -> Headers]
    /\ IsHdr(i[b], s, k[b].free, k[b].prevFree, k[b].prev)
    /\ IsHdr(i[m], k[b].size - s - 1, FALSE, TRUE, UserData)
    /\ \A x \in DOMAIN k : x # b => i[x] = k[x]

LEMMA SplitHeaders ==
    ASSUME NEW h, Blocks(h), NEW k, k = h.blk, NEW b \in DOMAIN k, NEW s \in Nat,
           NEW m, m = Remaining(b, s), Between(k, b, s, m), NEW g, g = Split(h, b, s)
    PROVE  \E h0, i : Reblocked(h, h0, i) /\ HeaderLaid(k, b, s, m, i) /\ g = MarkAsFree(h0, m)
  <1> DEFINE z == k[b].size - s - 1
             hd == [size |-> Size(h, b) - (s + HeaderOverhead), free |-> FALSE,
                    prevFree |-> TRUE, prev |-> UserData]
             a == [x \in DOMAIN k \union {m} |-> IF x = m THEN hd ELSE k[x]]
             i == [a EXCEPT ![b].size = s]
             h0 == [h EXCEPT !.blk = i]
  <1>1. /\ m \notin DOMAIN k /\ z \in Nat  BY DEF Between
  <1>2. g = MarkAsFree(h0, m)  BY DEF Split
  <1>3. k \in [DOMAIN k -> Headers] /\ Shape(h)  BY DEF Blocks
  <1>4. k[b] \in Headers /\ k[b].size \in Nat  BY <1>3 DEF Headers
  <1>5. hd = [size |-> z, free |-> FALSE, prevFree |-> TRUE, prev |-> UserData]
    <2>1. Size(h, b) - (s + HeaderOverhead) = z  BY <1>4 DEF Size, HeaderOverhead
    <2> QED BY <2>1
  <1> HIDE DEF z
  <1>6. hd \in Headers /\ IsHdr(hd, z, FALSE, TRUE, UserData)
    BY <1>1, <1>5 DEF Headers, IsHdr, UserData
  <1> HIDE DEF hd
  <1>7. a \in [DOMAIN k \union {m} -> Headers] /\ a[m] = hd /\ \A x \in DOMAIN k : a[x] = k[x]
    BY <1>1, <1>3, <1>6
  <1> HIDE DEF a
  <1> DEFINE v == [a[b] EXCEPT !.size = s]
  <1>8. v \in Headers /\ IsHdr(v, s, k[b].free, k[b].prevFree, k[b].prev)
    BY <1>4, <1>7 DEF Headers, IsHdr
  <1>9. i = [a EXCEPT ![b] = v]  OBVIOUS
  <1> HIDE DEF v, i
  <1>10. /\ i \in [DOMAIN k \union {m} -> Headers] /\ i[b] = v /\ i[m] = hd
         /\ \A x \in DOMAIN k : x # b => i[x] = k[x]
    BY <1>1, <1>7, <1>8, <1>9
  <1>11. HeaderLaid(k, b, s, m, i)  BY <1>6, <1>8, <1>10 DEF HeaderLaid, z
  <1>12. Reblocked(h, h0, i)
    <2> DEFINE D == DOMAIN k \union {m}
    <2>1. i \in [D -> Headers] /\ h0 = [h EXCEPT !.blk = i]  BY <1>10
    <2> HIDE DEF D, h0
    <2> QED BY <1>3, <2>1, Reblock
  <1> QED BY <1>2, <1>11, <1>12

LEMMA SplitIs ==
    ASSUME NEW h, Blocks(h), NEW k, k = h.blk, NEW b \in DOMAIN k, b \in Nat, NEW s \in Nat,
           NEW m, m = Remaining(b, s), Between(k, b, s, m),
           NEW n \in DOMAIN k, n = Nxt(k, b), NEW g, g = Split(h, b, s)
    PROVE  Reblocked(h, g, g.blk) /\ WasSplit(k, b, s, m, n, g.blk)
  <1>1. PICK h0, i : Reblocked(h, h0, i) /\ HeaderLaid(k, b, s, m, i) /\ g = MarkAsFree(h0, m)
    BY SplitHeaders
  <1>2. /\ m \in Nat /\ m > b /\ m < n /\ m \notin DOMAIN k
        /\ m + 1 + (k[b].size - s - 1) = n
    BY DEF Between
  <1>3. /\ i \in [DOMAIN k \union {m} -> Headers]
        /\ IsHdr(i[b], s, k[b].free, k[b].prevFree, k[b].prev)
        /\ IsHdr(i[m], k[b].size - s - 1, FALSE, TRUE, UserData)
        /\ \A x \in DOMAIN k : x # b => i[x] = k[x]
    BY <1>1 DEF HeaderLaid
  <1>4. Blocks(h0) /\ i = h0.blk /\ m \in DOMAIN i /\ n \in DOMAIN i /\ n # m /\ n # b
    BY <1>1, <1>2, <1>3 DEF Reblocked
  <1>5. n = Nxt(i, m)  BY <1>2, <1>3 DEF Nxt, IsHdr
  <1>6. m \in Int  BY <1>2
  <1>7. Reblocked(h0, g, g.blk) /\ IsMarked(i, m, TRUE, g.blk)
    BY <1>1, <1>4, <1>5, <1>6, MarkAsFreeIs
  <1>8. Reblocked(h, g, g.blk)  BY <1>1, <1>7, SameBoth
  <1> DEFINE j == g.blk
  <1>9. IsMarked(i, m, TRUE, j)  BY <1>7
  <1> HIDE DEF j
  <1>10. /\ j \in [DOMAIN i -> Headers]
         /\ IsHdr(j[m], i[m].size, TRUE, i[m].prevFree, i[m].prev)
         /\ IsHdr(j[n], i[n].size, i[n].free, TRUE, Link(m, TRUE))
         /\ \A x \in DOMAIN i : x # m /\ x # n => j[x] = i[x]
    BY <1>5, <1>9 DEF IsMarked
  <1>11. DOMAIN i = DOMAIN k \union {m} /\ Link(m, TRUE) = m  BY <1>3 DEF Link
  <1>12. j \in [DOMAIN k \union {m} -> Headers]  BY <1>10, <1>11
  <1>13. IsHdr(j[b], s, k[b].free, k[b].prevFree, k[b].prev)
    BY <1>2, <1>3, <1>4, <1>10, <1>11
  <1>14. IsHdr(j[m], k[b].size - s - 1, TRUE, TRUE, UserData)
    BY <1>3, <1>10 DEF IsHdr
  <1>15. IsHdr(j[n], k[n].size, k[n].free, TRUE, m)
    BY <1>3, <1>4, <1>10, <1>11, ZenonT(60) DEF IsHdr
  <1>16. \A x \in DOMAIN k : x # b /\ x # n => j[x] = k[x]
    BY <1>2, <1>3, <1>10, <1>11
  <1>17. WasSplit(k, b, s, m, n, j)  BY <1>12, <1>13, <1>14, <1>15, <1>16 DEF WasSplit
  <1> QED BY <1>8, <1>17 DEF j

\* Where the second block is.
Parted(k, b, s, m, n, j) ==
    /\ DOMAIN j = DOMAIN k \union {m} /\ b \in DOMAIN j /\ m \in DOMAIN j
    /\ m = Nxt(j, b) /\ b # m /\ n # m /\ n # b /\ m \notin DOMAIN k
    /\ m = b + 1 + s /\ n = Nxt(k, b)

LEMMA SplitParts ==
    ASSUME NEW k, NEW b, NEW s \in Nat, NEW m, NEW n, NEW j, WasSplit(k, b, s, m, n, j)
    PROVE  Parted(k, b, s, m, n, j)
  <1>1. m > b /\ m < n /\ m \notin DOMAIN k /\ m = b + 1 + s /\ m \in Nat /\ n = Nxt(k, b)
        /\ b \in DOMAIN k /\ n \in DOMAIN k /\ b \in Nat
    BY DEF Between, WasSplit
  <1>2. DOMAIN j = DOMAIN k \union {m} /\ j[b].size = s  BY DEF WasSplit, IsHdr
  <1>3. m = Nxt(j, b)  BY <1>1, <1>2 DEF Nxt
  <1> QED BY <1>1, <1>2, <1>3 DEF Parted

\* Either order in which the trims tell the second block of the first.
ToldOf(d, b, m, f, g) ==
    \/ g = SetPrevFree(LinkNext(d, b), m, f)
    \/ g = LinkNext(SetPrevFree(d, m, f), b)

LEMMA FreeCutIs ==
    ASSUME NEW h, Blocks(h), NEW k, k = h.blk, NEW b \in DOMAIN k, b \in Nat, k[b].free = TRUE,
           NEW s \in Nat, NEW m, m = Remaining(b, s), Between(k, b, s, m),
           NEW n \in DOMAIN k, n = Nxt(k, b),
           NEW d, d = Split(h, b, s), NEW g, ToldOf(d, b, m, TRUE, g)
    PROVE  Reblocked(h, g, g.blk) /\ IsCut(k, b, s, TRUE, TRUE, g.blk)
  <1> DEFINE i == d.blk
             yes == TRUE
             e1 == LinkNext(d, b)
             e2 == SetPrevFree(d, m, yes)
             k1 == e1.blk
             k2 == e2.blk
             j == g.blk
  <1>1. Reblocked(h, d, i) /\ WasSplit(k, b, s, m, n, i)  BY SplitIs
  <1>2. /\ yes \in BOOLEAN /\ yes = TRUE /\ i = d.blk /\ k1 = e1.blk /\ k2 = e2.blk /\ j = g.blk
        /\ e1 = LinkNext(d, b) /\ e2 = SetPrevFree(d, m, yes)
        /\ (g = SetPrevFree(e1, m, yes) \/ g = LinkNext(e2, b))
    BY DEF ToldOf
  <1> HIDE DEF i, yes, e1, e2, k1, k2, j
  <1>3. /\ DOMAIN i = DOMAIN k \union {m} /\ b \in DOMAIN i /\ m \in DOMAIN i
        /\ m = Nxt(i, b) /\ b # m /\ n # m /\ n # b /\ m \notin DOMAIN k
        /\ m = b + 1 + s /\ n = Nxt(k, b)
    <2>1. Parted(k, b, s, m, n, i)  BY <1>1, SplitParts
    <2> QED BY <2>1 DEF Parted
  <1>4. Blocks(d) /\ b \in Int  BY <1>1 DEF Reblocked
  <1>5. Reblocked(d, e1, k1) /\ Altered(i, m, i[m].size, i[m].free, i[m].prevFree, b, k1)
    BY <1>2, <1>3, <1>4, LinkNextIs
  <1>6. Reblocked(d, e2, k2) /\ Altered(i, m, i[m].size, i[m].free, yes, i[m].prev, k2)
    BY <1>2, <1>3, <1>4, SetPrevFreeIs
  <1>7. Blocks(e1) /\ Blocks(e2)  BY <1>5, <1>6 DEF Reblocked
  <1>8. ASSUME g = SetPrevFree(e1, m, yes)
        PROVE  Reblocked(h, g, j) /\ Altered(i, m, i[m].size, i[m].free, yes, b, j)
    <2>1. m \in DOMAIN k1  BY <1>3, <1>5 DEF Altered
    <2>2. Reblocked(e1, g, j) /\ Altered(k1, m, k1[m].size, k1[m].free, yes, k1[m].prev, j)
      BY <1>2, <1>7, <1>8, <2>1, SetPrevFreeIs
    <2>3. Reblocked(h, g, j)  BY <1>1, <1>5, <2>2, SameBoth
    <2>4. Altered(i, m, i[m].size, i[m].free, yes, b, j)
      BY <1>3, <1>5, <2>2 DEF Altered, IsHdr
    <2> QED BY <2>3, <2>4
  <1>9. ASSUME g = LinkNext(e2, b)
        PROVE  Reblocked(h, g, j) /\ Altered(i, m, i[m].size, i[m].free, yes, b, j)
    <2>1. m \in DOMAIN k2 /\ b \in DOMAIN k2 /\ k2[b] = i[b]
      BY <1>3, <1>6 DEF Altered
    <2>2. m = Nxt(k2, b)  BY <1>3, <2>1 DEF Nxt
    <2>3. Reblocked(e2, g, j) /\ Altered(k2, m, k2[m].size, k2[m].free, k2[m].prevFree, b, j)
      BY <1>2, <1>4, <1>7, <1>9, <2>1, <2>2, LinkNextIs
    <2>4. Reblocked(h, g, j)  BY <1>1, <1>6, <2>3, SameBoth
    <2>5. Altered(i, m, i[m].size, i[m].free, yes, b, j)
      BY <1>3, <1>6, <2>3 DEF Altered, IsHdr
    <2> QED BY <2>4, <2>5
  <1>10. Reblocked(h, g, j) /\ Altered(i, m, i[m].size, i[m].free, yes, b, j)
    BY <1>2, <1>8, <1>9
  <1>11. Link(b, TRUE) = b /\ Link(m, TRUE) = m  BY DEF Link
  <1>12. IsCut(k, b, s, TRUE, TRUE, j)
    <2>1. /\ j \in [DOMAIN k \union {m} -> Headers]
          /\ j[b] = i[b] /\ j[n] = i[n] /\ \A x \in DOMAIN k : j[x] = i[x]
      BY <1>3, <1>10 DEF Altered
    <2>2. IsHdr(j[m], k[b].size - s - 1, TRUE, TRUE, b)
      BY <1>1, <1>2, <1>10 DEF Altered, WasSplit, IsHdr
    <2>3. /\ IsHdr(i[b], s, TRUE, k[b].prevFree, k[b].prev)
          /\ IsHdr(i[n], k[n].size, k[n].free, TRUE, m)
          /\ \A x \in DOMAIN k : x # b /\ x # n => i[x] = k[x]
      BY <1>1 DEF WasSplit, IsHdr
    <2> QED BY <1>3, <1>11, <2>1, <2>2, <2>3 DEF IsCut
  <1> QED BY <1>10, <1>12 DEF j

LEMMA UsedCutIs ==
    ASSUME NEW h, Blocks(h), NEW k, k = h.blk, NEW b \in DOMAIN k, b \in Nat, k[b].free = FALSE,
           NEW s \in Nat, NEW m, m = Remaining(b, s), Between(k, b, s, m),
           NEW n \in DOMAIN k, n = Nxt(k, b),
           NEW g, g = SetPrevFree(Split(h, b, s), m, FALSE)
    PROVE  Reblocked(h, g, g.blk) /\ IsCut(k, b, s, FALSE, TRUE, g.blk)
  <1> DEFINE d == Split(h, b, s)
             i == d.blk
             no == FALSE
             j == g.blk
  <1>1. Reblocked(h, d, i) /\ WasSplit(k, b, s, m, n, i)  BY SplitIs
  <1>2. /\ no \in BOOLEAN /\ no = FALSE /\ i = d.blk /\ j = g.blk /\ g = SetPrevFree(d, m, no)
    OBVIOUS
  <1> HIDE DEF d, i, no, j
  <1>3. /\ DOMAIN i = DOMAIN k \union {m} /\ b \in DOMAIN i /\ m \in DOMAIN i
        /\ m = Nxt(i, b) /\ b # m /\ n # m /\ n # b /\ m \notin DOMAIN k
        /\ m = b + 1 + s /\ n = Nxt(k, b)
    <2>1. Parted(k, b, s, m, n, i)  BY <1>1, SplitParts
    <2> QED BY <2>1 DEF Parted
  <1>4. Blocks(d)  BY <1>1 DEF Reblocked
  <1>5. Reblocked(d, g, j) /\ Altered(i, m, i[m].size, i[m].free, no, i[m].prev, j)
    BY <1>2, <1>3, <1>4, SetPrevFreeIs
  <1>6. Reblocked(h, g, j)  BY <1>1, <1>5, SameBoth
  <1>11. Link(b, FALSE) = UserData /\ Link(m, TRUE) = m  BY DEF Link
  <1>12. IsCut(k, b, s, FALSE, TRUE, j)
    <2>1. /\ j \in [DOMAIN k \union {m} -> Headers]
          /\ j[b] = i[b] /\ j[n] = i[n] /\ \A x \in DOMAIN k : j[x] = i[x]
      BY <1>3, <1>5 DEF Altered
    <2>2. IsHdr(j[m], k[b].size - s - 1, TRUE, FALSE, UserData)
      BY <1>1, <1>2, <1>5 DEF Altered, WasSplit, IsHdr
    <2>3. /\ IsHdr(i[b], s, FALSE, k[b].prevFree, k[b].prev)
          /\ IsHdr(i[n], k[n].size, k[n].free, TRUE, m)
          /\ \A x \in DOMAIN k : x # b /\ x # n => i[x] = k[x]
      BY <1>1 DEF WasSplit, IsHdr
    <2> QED BY <1>3, <1>11, <2>1, <2>2, <2>3 DEF IsCut
  <1> QED BY <1>6, <1>12 DEF j

(***************************************************************************)
(* block_absorb makes two blocks one.                                      *)
(***************************************************************************)
Absorbed(k, p, c, n, j) ==
    /\ j \in [DOMAIN k \ {c} -> Headers]
    /\ IsHdr(j[p], k[p].size + 1 + k[c].size, k[p].free, k[p].prevFree, k[p].prev)
    /\ IsHdr(j[n], k[n].size, k[n].free, k[n].prevFree, p)
    /\ \A x \in DOMAIN k : x # p /\ x # c /\ x # n => j[x] = k[x]

\* The headers after the second block's is gone.
Swallowed(k, p, c, i) ==
    /\ i \in [DOMAIN k \ {c} -> Headers]
    /\ IsHdr(i[p], k[p].size + 1 + k[c].size, k[p].free, k[p].prevFree, k[p].prev)
    /\ \A x \in DOMAIN k : x # p /\ x # c => i[x] = k[x]

LEMMA AbsorbHeaders ==
    ASSUME NEW h, Blocks(h), NEW k, k = h.blk, NEW p \in DOMAIN k, NEW c \in DOMAIN k, c # p,
           NEW g, g = Absorb(h, p, c)
    PROVE  \E h0, i : Reblocked(h, h0, i) /\ Swallowed(k, p, c, i) /\ g = LinkNext(h0, p)
  <1> DEFINE z == k[p].size + k[c].size + 1
             v == [k[p] EXCEPT !.size = z]
             D == DOMAIN k \ {c}
             i == [x \in D |-> IF x = p THEN v ELSE k[x]]
             h0 == [h EXCEPT !.blk = i]
  <1>1. k \in [DOMAIN k -> Headers] /\ Shape(h)  BY DEF Blocks
  <1>2. k[p] \in Headers /\ k[p].size \in Nat /\ k[c].size \in Nat  BY <1>1 DEF Headers
  <1>3. z \in Nat /\ z = k[p].size + 1 + k[c].size  BY <1>2
  <1>4. g = LinkNext(h0, p)
    <2>1. i = [x \in D |-> IF x = p THEN [h.blk[x] EXCEPT !.size = @ + Size(h, c) + HeaderOverhead]
                                    ELSE h.blk[x]]
      BY DEF Size, HeaderOverhead
    <2> QED BY <2>1 DEF Absorb
  <1> HIDE DEF z
  <1>5. v \in Headers /\ IsHdr(v, z, k[p].free, k[p].prevFree, k[p].prev)
    BY <1>2, <1>3 DEF Headers, IsHdr
  <1> HIDE DEF v
  <1>6. /\ i \in [D -> Headers] /\ i[p] = v /\ \A x \in D : x # p => i[x] = k[x]
    BY <1>1, <1>5
  <1> HIDE DEF i
  <1>7. Swallowed(k, p, c, i)  BY <1>3, <1>5, <1>6 DEF Swallowed
  <1>8. Reblocked(h, h0, i)
    <2>1. h0 = [h EXCEPT !.blk = i]  OBVIOUS
    <2> HIDE DEF D, h0
    <2> QED BY <1>1, <1>6, <2>1, Reblock
  <1> QED BY <1>4, <1>7, <1>8

LEMMA AbsorbIs ==
    ASSUME NEW h, Blocks(h), NEW k, k = h.blk, NEW p \in DOMAIN k, NEW c, NEW n,
           Row3(k, p, c, n), NEW g, g = Absorb(h, p, c)
    PROVE  Reblocked(h, g, g.blk) /\ Absorbed(k, p, c, n, g.blk)
  <1>1. /\ p \in Nat /\ c \in Nat /\ n \in Nat /\ p < c /\ c < n /\ c # p
        /\ c = p + 1 + k[p].size /\ n = c + 1 + k[c].size
        /\ k[p].size \in Nat /\ k[c].size \in Nat /\ c \in DOMAIN k /\ n \in DOMAIN k
    BY DEF Row3
  <1>2. PICK h0, i : Reblocked(h, h0, i) /\ Swallowed(k, p, c, i) /\ g = LinkNext(h0, p)
    BY <1>1, AbsorbHeaders
  <1>3. /\ DOMAIN i = DOMAIN k \ {c}
        /\ IsHdr(i[p], k[p].size + 1 + k[c].size, k[p].free, k[p].prevFree, k[p].prev)
        /\ \A x \in DOMAIN k : x # p /\ x # c => i[x] = k[x]
    BY <1>2 DEF Swallowed
  <1>d. DOMAIN i = DOMAIN k \ {c}  BY <1>3
  <1>4. /\ Blocks(h0) /\ i = h0.blk /\ p \in DOMAIN i /\ n \in DOMAIN i /\ p \in Int
        /\ n # p /\ n # c
    <2>1. Blocks(h0) /\ i = h0.blk  BY <1>2 DEF Reblocked
    <2>2. n # p /\ n # c /\ p # c /\ p \in Int  BY <1>1
    <2>3. p \in DOMAIN i /\ n \in DOMAIN i
      <3>1. n \in DOMAIN k  BY <1>1
      <3> QED BY <1>d, <2>2, <3>1
    <2> QED BY <2>1, <2>2, <2>3
  <1>5. n = Nxt(i, p)
    <2>1. n = p + 1 + (k[p].size + 1 + k[c].size)  BY <1>1
    <2>2. i[p].size = k[p].size + 1 + k[c].size  BY <1>3 DEF IsHdr
    <2> QED BY <2>1, <2>2 DEF Nxt
  <1>6. Reblocked(h0, g, g.blk) /\ Altered(i, n, i[n].size, i[n].free, i[n].prevFree, p, g.blk)
    BY <1>2, <1>4, <1>5, LinkNextIs
  <1>7. Reblocked(h, g, g.blk)  BY <1>2, <1>6, SameBoth
  <1> DEFINE j == g.blk
  <1>8. Altered(i, n, i[n].size, i[n].free, i[n].prevFree, p, j)  BY <1>6
  <1> HIDE DEF j
  <1>9. /\ j \in [DOMAIN i -> Headers] /\ IsHdr(j[n], i[n].size, i[n].free, i[n].prevFree, p)
        /\ \A y \in DOMAIN i : y # n => j[y] = i[y]
    BY <1>8 DEF Altered
  <1>10. i[n] = k[n] /\ j[p] = i[p]
    <2>1. n \in DOMAIN k  BY <1>1
    <2>2. p \in DOMAIN i /\ n # p /\ n # c  BY <1>4
    <2>3. i[n] = k[n]  BY <1>3, <2>1, <2>2
    <2>4. j[p] = i[p]  BY <1>9, <2>2
    <2> QED BY <2>3, <2>4
  <1>11. Absorbed(k, p, c, n, j)
    <2>1. j \in [DOMAIN k \ {c} -> Headers]  BY <1>3, <1>9
    <2>2. IsHdr(j[p], k[p].size + 1 + k[c].size, k[p].free, k[p].prevFree, k[p].prev)
      BY <1>3, <1>10
    <2>3. IsHdr(j[n], k[n].size, k[n].free, k[n].prevFree, p)  BY <1>9, <1>10
    <2>4. ASSUME NEW x \in DOMAIN k, x # p, x # c, x # n
          PROVE  j[x] = k[x]
      <3>1. i[x] = k[x]  BY <1>3, <2>4
      <3>2. x \in DOMAIN i  BY <1>3, <2>4
      <3> QED BY <1>9, <2>4, <3>1, <3>2
    <2> HIDE DEF IsHdr
    <2> QED BY <2>1, <2>2, <2>3, <2>4 DEF Absorbed
  <1> QED BY <1>7, <1>11 DEF j

\* The owner of the first block gets the second.
LEMMA GrownIs ==
    ASSUME NEW h, Blocks(h), NEW k, k = h.blk, NEW p \in DOMAIN k, NEW c, c = Nxt(k, p),
           NEW n, n = Nxt(k, c), Row3(k, p, c, n), NEW e, e = Absorb(h, p, c),
           NEW g, g = MarkAsUsed(e, p)
    PROVE  Reblocked(h, g, g.blk) /\ IsFused(k, p, FALSE, g.blk)
  <1> DEFINE i == e.blk
             j == g.blk
  <1>1. Reblocked(h, e, i) /\ Absorbed(k, p, c, n, i)  BY AbsorbIs
  <1>n. i = e.blk /\ j = g.blk  OBVIOUS
  <1> HIDE DEF i, j
  <1>2. /\ p \in Nat /\ c \in Nat /\ n \in Nat /\ p < c /\ c < n /\ n # p
        /\ c = p + 1 + k[p].size /\ n = c + 1 + k[c].size
        /\ k[p].size \in Nat /\ k[c].size \in Nat /\ c \in DOMAIN k /\ n \in DOMAIN k
    BY DEF Row3
  <1>3. /\ DOMAIN i = DOMAIN k \ {c}
        /\ IsHdr(i[p], k[p].size + 1 + k[c].size, k[p].free, k[p].prevFree, k[p].prev)
        /\ IsHdr(i[n], k[n].size, k[n].free, k[n].prevFree, p)
        /\ \A x \in DOMAIN k : x # p /\ x # c /\ x # n => i[x] = k[x]
    BY <1>1 DEF Absorbed
  <1>d. DOMAIN i = DOMAIN k \ {c}  BY <1>3
  <1>4. Blocks(e) /\ p \in DOMAIN i /\ n \in DOMAIN i /\ p \in Int
    <2>1. Blocks(e)  BY <1>1 DEF Reblocked
    <2>2. p # c /\ n # c /\ p \in Int  BY <1>2
    <2>3. n \in DOMAIN k  BY <1>2
    <2>4. p \in DOMAIN i /\ n \in DOMAIN i  BY <1>d, <2>2, <2>3
    <2> QED BY <2>1, <2>2, <2>4
  <1>5. n = Nxt(i, p)
    <2>1. n = p + 1 + (k[p].size + 1 + k[c].size)  BY <1>2
    <2>2. i[p].size = k[p].size + 1 + k[c].size  BY <1>3 DEF IsHdr
    <2> QED BY <2>1, <2>2 DEF Nxt
  <1>6. Reblocked(e, g, j) /\ IsMarked(i, p, FALSE, j)
    BY <1>n, <1>2, <1>4, <1>5, MarkAsUsedIs
  <1>7. Reblocked(h, g, j)  BY <1>1, <1>6, SameBoth
  <1>8. /\ j \in [DOMAIN i -> Headers]
        /\ IsHdr(j[p], i[p].size, FALSE, i[p].prevFree, i[p].prev)
        /\ IsHdr(j[n], i[n].size, i[n].free, FALSE, Link(p, FALSE))
        /\ \A x \in DOMAIN i : x # p /\ x # n => j[x] = i[x]
    BY <1>5, <1>6 DEF IsMarked
  <1>9. IsHdr(j[p], k[p].size + 1 + k[c].size, FALSE, k[p].prevFree, k[p].prev)
    BY <1>3, <1>8 DEF IsHdr
  <1>10. IsHdr(j[n], k[n].size, k[n].free, FALSE, Link(p, FALSE))
    BY <1>3, <1>8 DEF IsHdr
  <1>11. \A x \in DOMAIN k : x # p /\ x # c /\ x # n => j[x] = k[x]  BY <1>3, <1>8
  <1>12. j \in [DOMAIN k \ {c} -> Headers]  BY <1>3, <1>8
  <1>13. IsFused(k, p, FALSE, j)  BY <1>9, <1>10, <1>11, <1>12 DEF IsFused
  <1> QED BY <1>n, <1>7, <1>13

\* Two free blocks become one.
LEMMA FreeFusedIs ==
    ASSUME NEW h, Blocks(h), NEW k, k = h.blk, NEW p \in DOMAIN k, NEW c, c = Nxt(k, p),
           NEW n, n = Nxt(k, c), Row3(k, p, c, n), k[p].free = TRUE, k[n].prevFree = TRUE,
           NEW g, g = Absorb(h, p, c)
    PROVE  Reblocked(h, g, g.blk) /\ IsFused(k, p, TRUE, g.blk)
  <1> DEFINE j == g.blk
  <1>1. Reblocked(h, g, j) /\ Absorbed(k, p, c, n, j)  BY AbsorbIs
  <1> HIDE DEF j
  <1>2. Link(p, TRUE) = p  BY DEF Link
  <1>3. IsFused(k, p, TRUE, j)  BY <1>1, <1>2 DEF Absorbed, IsFused, IsHdr
  <1> QED BY <1>1, <1>3 DEF j

(***************************************************************************)
(* What a block's prevFree flag says of the block before it.               *)
(***************************************************************************)
LEMMA Predecessor ==
    ASSUME NEW k, NEW F, NEW E, Tile(k, F, E), NEW b \in DOMAIN k
    PROVE  k[b].prev = UserData \/ k[b].prev \in DOMAIN k
  <1>1. CASE b \in F  BY <1>1 DEF Tile
  <1>2. CASE b \notin F
    <2>1. PICK a \in DOMAIN k \ E : Nxt(k, a) = b  BY <1>2 DEF Tile
    <2>2. NextIs(k, F, a, b)  BY <2>1, NextOf
    <2>3. k[b].prev = Link(a, k[a].free)  BY <2>2 DEF NextIs
    <2> QED BY <2>1, <2>3 DEF Link
  <1> QED BY <1>1, <1>2

IsBefore(k, E, p, b) ==
    p \in DOMAIN k /\ p \notin E /\ k[p].free = TRUE /\ Nxt(k, p) = b /\ p < b

LEMMA FreeBefore ==
    ASSUME NEW k, NEW F, NEW E, Tile(k, F, E), NEW b \in DOMAIN k, k[b].prevFree
    PROVE  IsBefore(k, E, k[b].prev, b)
  <1>1. b \notin F  BY DEF Tile
  <1>2. PICK a \in DOMAIN k \ E : Nxt(k, a) = b  BY <1>1 DEF Tile
  <1>3. NextIs(k, F, a, b)  BY <1>2, NextOf
  <1>4. k[b].prevFree = k[a].free /\ k[b].prev = Link(a, k[a].free) /\ a < b
    BY <1>3 DEF NextIs
  <1>5. k[a].free \in BOOLEAN  BY <1>2, HeaderIs
  <1>6. k[a].free = TRUE  BY <1>4, <1>5
  <1>7. k[b].prev = a  BY <1>4, <1>6 DEF Link
  <1> QED BY <1>2, <1>4, <1>6, <1>7 DEF IsBefore

LEMMA UsedBefore ==
    ASSUME NEW k, NEW F, NEW E, Tile(k, F, E), NEW b \in DOMAIN k, ~k[b].prevFree,
           NEW x \in DOMAIN k, x \notin E, Nxt(k, x) = b
    PROVE  ~k[x].free
  <1>1. NextIs(k, F, x, b)  BY NextOf
  <1> QED BY <1>1 DEF NextIs

FreeSet(k) == {b \in DOMAIN k : k[b].free}

LEMMA FreeIsBlock ==
    ASSUME NEW k, NEW F, NEW E, Tile(k, F, E), NEW b \in FreeSet(k)
    PROVE  b \in DOMAIN k \ E /\ k[b].free
  BY DEF Tile, FreeSet

\* Two free neighbours are a block of L with its next, or a block with one of R.
NoPair(k, E, L, R) ==
    \A b \in DOMAIN k \ E : k[b].free /\ k[Nxt(k, b)].free => b \in L \/ Nxt(k, b) \in R

(***************************************************************************)
(* The pools: each has a first block and a sentinel, and lies apart.       *)
(***************************************************************************)
First(p) == p.mem - 1
Stop(p) == p.mem + p.words - 2
Firsts(P) == {First(p) : p \in P}
Stops(P) == {Stop(p) : p \in P}
Homed(D, P) == \A b \in D : \E p \in P : First(p) <= b /\ b <= Stop(p)
Used(k, P) == {x \in DOMAIN k \ Stops(P) : ~k[x].free}

LEMMA PoolIs ==
    ASSUME NEW p \in Pools
    PROVE  /\ p.mem \in Nat /\ p.mem >= 2 /\ p.words \in Int
           /\ First(p) \in Nat /\ First(p) >= 1 /\ Stop(p) \in Nat
           /\ First(p) = p.mem - 1 /\ Stop(p) = p.mem + p.words - 2
           /\ Stop(p) = First(p) + 1 + PoolSize(p)
           /\ PoolSize(p) \in Nat /\ PoolSize(p) >= BlockSizeMin /\ PoolSize(p) < BlockSizeMax
           /\ First(p) = PoolBlock(p) /\ PoolSize(p) = p.words - 2
  <1>1. PoolAssumed(p)  BY PoolAssumption
  <1>2. BlockSizeMax \in Nat  BY Slots
  <1>3. /\ p.mem \in Nat \ {0, 1} /\ p.words \in Nat
        /\ PoolSize(p) \in BlockSizeMin .. BlockSizeMax - 1
    BY <1>1 DEF PoolAssumed
  <1>4. PoolSize(p) = p.words - 2  BY <1>3 DEF PoolSize, HeaderOverhead
  <1>5. BlockSizeMin = 3  BY DEF BlockSizeMin, HeaderSize
  <1>6. First(p) = p.mem - 1 /\ Stop(p) = p.mem + p.words - 2 /\ PoolBlock(p) = p.mem - 1
    BY DEF First, Stop, PoolBlock, HeaderOverhead
  <1> QED BY <1>2, <1>3, <1>4, <1>5, <1>6

LEMMA PoolsApart ==
    ASSUME NEW p \in Pools, NEW q \in Pools, p # q
    PROVE  Stop(q) < First(p) \/ Stop(p) < First(q)
  <1>1. Apart(p, q)  BY PoolAssumption
  <1>2. /\ p.mem \in Nat /\ p.words \in Int /\ First(p) = p.mem - 1
        /\ Stop(p) = p.mem + p.words - 2
    BY PoolIs
  <1>3. /\ q.mem \in Nat /\ q.words \in Int /\ First(q) = q.mem - 1
        /\ Stop(q) = q.mem + q.words - 2
    BY PoolIs
  <1> QED BY <1>1, <1>2, <1>3 DEF Apart

LEMMA HomeIs ==
    ASSUME NEW P, P \subseteq Pools, NEW k, Tile(k, Firsts(P), Stops(P)), Homed(DOMAIN k, P),
           NEW b \in DOMAIN k \ Stops(P)
    PROVE  \E p \in P : /\ First(p) \in Nat /\ Stop(p) \in Nat
                        /\ First(p) <= b /\ Nxt(k, b) <= Stop(p)
                        /\ Stop(p) \in DOMAIN k
                        /\ Stop(p) = First(p) + 1 + PoolSize(p)
                        /\ PoolSize(p) \in Nat /\ PoolSize(p) < BlockSizeMax
  <1> DEFINE F == Firsts(P)
             E == Stops(P)
             n == Nxt(k, b)
  <1>1. PICK p \in P : First(p) <= b /\ b <= Stop(p)  BY DEF Homed
  <1>2. p \in Pools  OBVIOUS
  <1>3. /\ First(p) \in Nat /\ Stop(p) \in Nat /\ Stop(p) = First(p) + 1 + PoolSize(p)
        /\ PoolSize(p) \in Nat /\ PoolSize(p) < BlockSizeMax
    BY <1>2, PoolIs
  <1>4. Stop(p) \in E  BY DEF Stops
  <1>5. Tile(k, F, E) /\ b \in DOMAIN k /\ b \notin E  OBVIOUS
  <1>n. n = Nxt(k, b)  OBVIOUS
  <1> HIDE DEF F, E, n
  <1>6. Stop(p) \in DOMAIN k  BY <1>4, <1>5 DEF Tile
  <1>7. NextIs(k, F, b, n)  BY <1>n, <1>5, NextOf
  <1>8. b \in Nat /\ n \in Nat /\ (Stop(p) <= b \/ Stop(p) >= n)  BY <1>6, <1>7 DEF NextIs
  <1>9. Stop(p) # b  BY <1>4, <1>5
  <1>10. n <= Stop(p)  BY <1>1, <1>3, <1>8, <1>9
  <1> QED BY <1>n, <1>1, <1>3, <1>6, <1>10

LEMMA SizeBound ==
    ASSUME NEW P, P \subseteq Pools, NEW k, Tile(k, Firsts(P), Stops(P)), Homed(DOMAIN k, P),
           NEW b \in DOMAIN k
    PROVE  k[b].size \in Nat /\ k[b].size < BlockSizeMax
  <1>0. BlockSizeMax \in Nat /\ BlockSizeMax >= 4  BY Slots
  <1>1. k[b].size \in Nat /\ b \in Nat  BY HeaderIs
  <1>2. CASE b \in Stops(P)
    <2>1. k[b].size = 0  BY <1>2 DEF Tile
    <2> QED BY <1>0, <2>1
  <1>3. CASE b \notin Stops(P)
    <2>1. PICK p \in P : /\ First(p) \in Nat /\ First(p) <= b /\ Nxt(k, b) <= Stop(p)
                         /\ Stop(p) = First(p) + 1 + PoolSize(p)
                         /\ PoolSize(p) \in Nat /\ PoolSize(p) < BlockSizeMax
      BY <1>3, HomeIs
    <2>2. Nxt(k, b) = b + 1 + k[b].size  BY DEF Nxt
    <2> QED BY <1>0, <1>1, <2>1, <2>2
  <1> QED BY <1>2, <1>3

(***************************************************************************)
(* A good heap: its blocks tile the pools of P, its free blocks but those  *)
(* of W are filed, and no two free blocks are neighbours but a block of L  *)
(* with its next and a block of R with its previous one.                   *)
(***************************************************************************)
Good(h, P, W, L, R) ==
    /\ P \subseteq Pools /\ Blocks(h)
    /\ Tile(h.blk, Firsts(P), Stops(P)) /\ Homed(DOMAIN h.blk, P)
    /\ W \subseteq FreeSet(h.blk) /\ Filed(h, FreeSet(h.blk) \ W)
    /\ NoPair(h.blk, Stops(P), L, R)

\* The block's size has a class.
Classed(h, b) ==
    /\ Size(h, b) \in Nat /\ Size(h, b) >= 3 /\ Size(h, b) < BlockSizeMax
    /\ At(h, b).fl \in Rows /\ At(h, b).sl \in Cols

LEMMA ClassedIs ==
    ASSUME NEW P, P \subseteq Pools, NEW h, NEW k, k = h.blk,
           Tile(k, Firsts(P), Stops(P)), Homed(DOMAIN k, P), NEW b \in FreeSet(k)
    PROVE  Classed(h, b) /\ b \in Nat /\ b # 0
  <1> DEFINE F == Firsts(P)
             E == Stops(P)
             n == Nxt(k, b)
             z == Size(h, b)
  <1>1. b \in DOMAIN k /\ b \notin E  BY FreeIsBlock
  <1>2. k[b].size \in Nat /\ k[b].size < BlockSizeMax  BY <1>1, SizeBound
  <1>3. NextIs(k, F, b, n)  BY <1>1, NextOf
  <1>4. k[b].size >= 3  BY <1>3 DEF NextIs
  <1>5. z = k[b].size  BY DEF Size
  <1>6. b \in Nat /\ b # 0  BY <1>1, HeaderIs
  <1> HIDE DEF z
  <1>7. z \in Nat /\ z >= 3 /\ z < BlockSizeMax /\ z < Pow2[Top]
    BY <1>2, <1>4, <1>5, Slots
  <1>8. ClassHas(z, MappingInsert(z))  BY <1>7, ClassOf
  <1>9. MappingInsert(z).fl \in Rows /\ MappingInsert(z).sl \in Cols
    BY <1>7, <1>8 DEF ClassHas, IsClass
  <1>10. At(h, b) = MappingInsert(z)  BY DEF At, z
  <1> QED BY <1>6, <1>7, <1>9, <1>10 DEF Classed, z

LEMMA GoodSized ==
    ASSUME NEW h, NEW P, NEW W, NEW L, NEW R, Good(h, P, W, L, R)
    PROVE  /\ Sized(h, FreeSet(h.blk)) /\ FreeSet(h.blk) \subseteq Int
           /\ \A x \in FreeSet(h.blk) : x \in Int
           /\ \A x \in FreeSet(h.blk) : Classed(h, x)
  <1> DEFINE k == h.blk
             S == FreeSet(k)
  <1>1. /\ k = h.blk /\ P \subseteq Pools /\ Tile(k, Firsts(P), Stops(P))
        /\ Homed(DOMAIN k, P)
    BY DEF Good
  <1> HIDE DEF k
  <1>2. \A x \in FreeSet(k) : Classed(h, x) /\ x \in Nat /\ x # 0  BY <1>1, ClassedIs
  <1>3. BlockSizeMax \in Nat  BY Slots
  <1>4. Sized(h, FreeSet(k))  BY <1>2, <1>3 DEF Classed, Sized
  <1>5. FreeSet(k) \subseteq Int /\ \A x \in FreeSet(k) : x \in Int  BY <1>2
  <1> QED BY <1>2, <1>4, <1>5 DEF k

LEMMA NoPairWider ==
    ASSUME NEW k, NEW E, NEW L, NEW R, NoPair(k, E, L, R), NEW A, NEW B,
           L \subseteq A, R \subseteq B
    PROVE  NoPair(k, E, A, B)
  BY DEF NoPair

\* Apart from W the free blocks of k are those of j apart from V.
Refiled(k, W, j, V) ==
    /\ V \subseteq FreeSet(j)
    /\ \A x : x \in FreeSet(j) /\ x \notin V <=> x \in FreeSet(k) /\ x \notin W
    /\ \A x \in FreeSet(k) : x \notin W => j[x].size = k[x].size

LEMMA ReblockGood ==
    ASSUME NEW h, NEW P, NEW W, NEW L, NEW R, Good(h, P, W, L, R),
           NEW g, NEW j, Reblocked(h, g, j),
           NEW Q, Q \subseteq Pools, Tile(j, Firsts(Q), Stops(Q)), Homed(DOMAIN j, Q),
           NEW V, Refiled(h.blk, W, j, V), NEW A, NEW B, NoPair(j, Stops(Q), A, B)
    PROVE  Good(g, Q, V, A, B)
  <1> DEFINE S == FreeSet(h.blk) \ W
             T == FreeSet(j) \ V
  <1>1. Filed(h, S)  BY DEF Good
  <1>2. S = T /\ V \subseteq FreeSet(j)  BY DEF Refiled
  <1>3. Blocks(g) /\ SameLists(h, g) /\ g.blk = j  BY DEF Reblocked
  <1>4. \A x \in S : Size(g, x) = Size(h, x)  BY <1>3 DEF Refiled, Size
  <1> HIDE DEF S
  <1>5. Filed(g, S)  BY <1>1, <1>3, <1>4, FiledSame DEF Blocks, Shape, SameLists
  <1> QED BY <1>2, <1>3, <1>5 DEF Good

LEMMA Relisting ==
    ASSUME NEW h, NEW P, NEW W, NEW L, NEW R, Good(h, P, W, L, R),
           NEW g, g.blk = h.blk, NEW V, V \subseteq FreeSet(h.blk),
           NEW T, Filed(g, T), T = FreeSet(h.blk) \ V
    PROVE  Good(g, P, V, L, R)
  <1>1. Shape(g)  BY DEF Filed, IsHeap, Shape
  <1>2. Blocks(g)  BY <1>1 DEF Good, Blocks
  <1> QED BY <1>2 DEF Good

LEMMA InsertGood ==
    ASSUME NEW h, NEW P, NEW W, NEW L, NEW R, Good(h, P, W, L, R), NEW b \in W,
           NEW V, \A x : x \in V <=> x \in W /\ x # b, NEW g, g = BlockInsert(h, b)
    PROVE  Good(g, P, V, L, R) /\ g.blk = h.blk
  <1> DEFINE S == FreeSet(h.blk) \ W
             T == FreeSet(h.blk) \ V
             c == At(h, b)
  <1>1. Filed(h, S) /\ W \subseteq FreeSet(h.blk)  BY DEF Good
  <1>2. b \in Int /\ Classed(h, b)  BY <1>1, GoodSized
  <1>3. c.fl \in Rows /\ c.sl \in Cols  BY <1>2 DEF Classed
  <1>4. g = InsertFreeBlock(h, b, c)  BY DEF BlockInsert, At
  <1>5. b \notin S /\ c = At(h, b) /\ T = S \union {b}  BY <1>1
  <1>6. T = FreeSet(h.blk) \ V /\ V \subseteq FreeSet(h.blk)  BY <1>1
  <1> HIDE DEF S, c, T
  <1>7. Filed(g, S \union {b}) /\ g.blk = h.blk  BY <1>1, <1>2, <1>3, <1>4, <1>5, Inserted
  <1>8. Filed(g, T)  BY <1>5, <1>7
  <1>9. Good(g, P, V, L, R)  BY <1>6, <1>7, <1>8, Relisting
  <1> QED BY <1>7, <1>9

LEMMA RemoveGood ==
    ASSUME NEW h, NEW P, NEW W, NEW L, NEW R, Good(h, P, W, L, R),
           NEW b \in FreeSet(h.blk), b \notin W,
           NEW V, \A x : x \in V <=> x \in W \/ x = b, NEW g, g = BlockRemove(h, b)
    PROVE  Good(g, P, V, L, R) /\ g.blk = h.blk
  <1> DEFINE S == FreeSet(h.blk) \ W
             T == FreeSet(h.blk) \ V
             c == At(h, b)
  <1>1. Filed(h, S) /\ W \subseteq FreeSet(h.blk)  BY DEF Good
  <1>3. c.fl = At(h, b).fl /\ c.sl = At(h, b).sl  OBVIOUS
  <1>4. g = RemoveFreeBlock(h, b, c)  BY DEF BlockRemove, At
  <1>5. b \in S /\ T = S \ {b}  BY <1>1
  <1>6. T = FreeSet(h.blk) \ V /\ V \subseteq FreeSet(h.blk)  BY <1>1
  <1> HIDE DEF S, c, T
  <1>7. Filed(g, S \ {b}) /\ g.blk = h.blk  BY <1>1, <1>3, <1>4, <1>5, Removed
  <1>8. Filed(g, T)  BY <1>5, <1>7
  <1>9. Good(g, P, V, L, R)  BY <1>6, <1>7, <1>8, Relisting
  <1> QED BY <1>7, <1>9

LEMMA LocateGood ==
    ASSUME NEW h, NEW P, Good(h, P, {}, {}, {}), NEW n \in Nat, n < BlockSizeMax,
           NEW b, b = Located(h, n), NEW g, g = LocateFree(h, n)
    PROVE  \/ b = NoBlock /\ g = h /\ NoneLocated(h, FreeSet(h.blk), n)
           \/ /\ b # NoBlock /\ b \in FreeSet(h.blk) /\ n >= 1 /\ n <= Size(h, b)
              /\ g.blk = h.blk /\ Good(g, P, {b}, {}, {})
  <1> DEFINE S == FreeSet(h.blk)
             none == {}
             V == {b}
  <1>1. Good(h, P, none, none, none)  OBVIOUS
  <1>2. none = {} /\ V = {b}  OBVIOUS
  <1> HIDE DEF none, V
  <1>3. Filed(h, S)
    <2>1. Filed(h, FreeSet(h.blk) \ none)  BY <1>1 DEF Good
    <2>2. FreeSet(h.blk) \ none = S  BY <1>2
    <2> QED BY <2>1, <2>2
  <1>4. Sized(h, S)  BY <1>1, GoodSized
  <1> HIDE DEF S
  <1>5. \/ b = NoBlock /\ g = h /\ NoneLocated(h, S, n)
        \/ b # NoBlock /\ BlockLocated(h, S, n, b, g)
    BY <1>3, <1>4, LocatedIs
  <1>6. ASSUME b # NoBlock, BlockLocated(h, S, n, b, g)
        PROVE  /\ b \in S /\ n >= 1 /\ n <= Size(h, b) /\ g.blk = h.blk
               /\ Good(g, P, V, none, none)
    <2>1. /\ b \in S /\ n >= 1 /\ n <= Size(h, b) /\ Filed(g, S \ V) /\ g.blk = h.blk
      BY <1>2, <1>6 DEF BlockLocated
    <2> DEFINE T == S \ V
    <2>2. T = FreeSet(h.blk) \ V /\ V \subseteq FreeSet(h.blk) /\ Filed(g, T)
      BY <1>2, <2>1 DEF S
    <2> HIDE DEF T
    <2>3. Good(g, P, V, none, none)  BY <1>1, <2>1, <2>2, Relisting
    <2> QED BY <2>1, <2>3
  <1>7. CASE b = NoBlock /\ g = h /\ NoneLocated(h, S, n)  BY <1>7 DEF S
  <1>8. CASE b # NoBlock /\ BlockLocated(h, S, n, b, g)
    <2>1. /\ b \in S /\ n >= 1 /\ n <= Size(h, b) /\ g.blk = h.blk
          /\ Good(g, P, V, none, none)
      BY <1>6, <1>8
    <2> QED BY <1>2, <1>8, <2>1 DEF S
  <1> QED BY <1>5, <1>7, <1>8

(***************************************************************************)
(* Marking a block as free or used.                                        *)
(***************************************************************************)
\* The fields that marking leaves alone.
Marks(k, b, f, j) ==
    /\ DOMAIN j = DOMAIN k /\ j[b].free = f
    /\ \A x \in DOMAIN k : /\ j[x].size = k[x].size /\ Nxt(j, x) = Nxt(k, x)
                           /\ x # b => j[x].free = k[x].free

LEMMA MarksIs ==
    ASSUME NEW k, NEW F, NEW E, Tile(k, F, E), NEW b \in DOMAIN k, b \notin E,
           NEW f \in BOOLEAN, NEW j, IsMarked(k, b, f, j)
    PROVE  Marks(k, b, f, j)
  <1> DEFINE n == Nxt(k, b)
  <1>1. /\ j \in [DOMAIN k -> Headers]
        /\ IsHdr(j[b], k[b].size, f, k[b].prevFree, k[b].prev)
        /\ IsHdr(j[n], k[n].size, k[n].free, f, Link(b, f))
        /\ \A x \in DOMAIN k : x # b /\ x # n => j[x] = k[x]
    BY DEF IsMarked
  <1> HIDE DEF n
  <1>2. DOMAIN j = DOMAIN k  BY <1>1
  <1> QED BY <1>1, <1>2 DEF Marks, IsHdr, Nxt

\* g is h with b free, in no list and not merged with its neighbours.
MarkedFreeGood(h, P, b, g) ==
    /\ Good(g, P, {b}, {b}, {b})
    /\ Used(g.blk, P) = Used(h.blk, P) \ {b}
    /\ \A x \in Used(h.blk, P) : g.blk[x].size = h.blk[x].size

LEMMA MarkFreeGood ==
    ASSUME NEW h, NEW P, Good(h, P, {}, {}, {}), NEW b \in Used(h.blk, P),
           NEW g, g = MarkAsFree(h, b)
    PROVE  MarkedFreeGood(h, P, b, g)
  <1> DEFINE k == h.blk
             j == g.blk
             F == Firsts(P)
             E == Stops(P)
             n == Nxt(k, b)
             none == {}
             V == {b}
  <1>1. Good(h, P, none, none, none)  OBVIOUS
  <1>2. /\ k = h.blk /\ j = g.blk /\ F = Firsts(P) /\ E = Stops(P) /\ n = Nxt(k, b)
        /\ none = {} /\ V = {b} /\ b \in DOMAIN k /\ b \notin E /\ ~k[b].free
    BY DEF Used
  <1> HIDE DEF k, j, F, E, n, none, V
  <1>3. P \subseteq Pools /\ Blocks(h) /\ Tile(k, F, E) /\ Homed(DOMAIN k, P)
        /\ NoPair(k, E, none, none)
    BY <1>1, <1>2 DEF Good
  <1>4. NextIs(k, F, b, n)  BY <1>2, <1>3, NextOf
  <1>5. n \in DOMAIN k /\ n # b /\ b \in Int  BY <1>4 DEF NextIs
  <1>6. Reblocked(h, g, j) /\ IsMarked(k, b, TRUE, j)
    BY <1>2, <1>3, <1>5, MarkAsFreeIs
  <1>7. PICK yes \in BOOLEAN : yes = TRUE  OBVIOUS
  <1>8. IsMarked(k, b, yes, j)  BY <1>6, <1>7
  <1>9. Tile(j, F, E) /\ Marks(k, b, yes, j)  BY <1>2, <1>3, <1>8, MarkedTile, MarksIs
  <1>10. /\ DOMAIN j = DOMAIN k /\ j[b].free
         /\ \A x \in DOMAIN k : /\ j[x].size = k[x].size /\ Nxt(j, x) = Nxt(k, x)
                                /\ x # b => j[x].free = k[x].free
    BY <1>7, <1>9 DEF Marks
  <1>11. NoPair(j, E, V, V)
    <2> SUFFICES ASSUME NEW x \in DOMAIN j \ E, j[x].free, j[Nxt(j, x)].free,
                        x # b, Nxt(j, x) # b
                 PROVE  FALSE
      BY <1>2 DEF NoPair
    <2> DEFINE y == Nxt(k, x)
    <2>1. x \in DOMAIN k /\ x \notin E /\ Nxt(j, x) = y /\ k[x].free  BY <1>10
    <2>2. NextIs(k, F, x, y)  BY <1>3, <2>1, NextOf
    <2>3. y \in DOMAIN k  BY <2>2 DEF NextIs
    <2>4. k[y].free  BY <1>10, <2>1, <2>3
    <2> QED BY <1>2, <1>3, <2>1, <2>4 DEF NoPair
  <1>12. Refiled(k, none, j, V)
    <2>1. V \subseteq FreeSet(j)  BY <1>2, <1>10 DEF FreeSet
    <2>2. \A x : x \in FreeSet(j) /\ x \notin V <=> x \in FreeSet(k) /\ x \notin none
      BY <1>2, <1>10 DEF FreeSet
    <2>3. \A x \in FreeSet(k) : j[x].size = k[x].size  BY <1>10 DEF FreeSet
    <2> QED BY <2>1, <2>2, <2>3 DEF Refiled
  <1>13. Good(g, P, V, V, V)
    <2>1. Homed(DOMAIN j, P)  BY <1>3, <1>10
    <2> QED BY <1>1, <1>2, <1>3, <1>6, <1>9, <1>11, <1>12, <2>1, ReblockGood
  <1>14. Used(j, P) = Used(k, P) \ {b}
    BY <1>2, <1>10 DEF Used
  <1>15. \A x \in Used(k, P) : j[x].size = k[x].size  BY <1>10 DEF Used
  <1>16. MarkedFreeGood(h, P, b, g)
    <2>1. Good(g, P, {b}, {b}, {b})  BY <1>2, <1>13
    <2> QED BY <1>2, <1>14, <1>15, <2>1 DEF MarkedFreeGood
  <1> QED BY <1>16

\* g is f with b, which was free and in no list, used.
MarkedUsedGood(f, P, b, g) ==
    /\ Good(g, P, {}, {}, {})
    /\ Used(g.blk, P) = Used(f.blk, P) \union {b} /\ b \notin Used(f.blk, P)
    /\ \A x \in DOMAIN f.blk : g.blk[x].size = f.blk[x].size

LEMMA MarkUsedGood ==
    ASSUME NEW h, NEW P, NEW b, NEW L, NEW R, Good(h, P, {b}, L, R),
           L \subseteq {b}, R \subseteq {b}, NEW g, g = MarkAsUsed(h, b)
    PROVE  MarkedUsedGood(h, P, b, g)
  <1> DEFINE k == h.blk
             j == g.blk
             F == Firsts(P)
             E == Stops(P)
             n == Nxt(k, b)
             none == {}
             W == {b}
  <1>1. Good(h, P, W, L, R)  OBVIOUS
  <1>2. /\ k = h.blk /\ j = g.blk /\ F = Firsts(P) /\ E = Stops(P) /\ n = Nxt(k, b)
        /\ none = {} /\ W = {b} /\ L \subseteq W /\ R \subseteq W
    OBVIOUS
  <1> HIDE DEF k, j, F, E, n, none, W
  <1>3. P \subseteq Pools /\ Blocks(h) /\ Tile(k, F, E) /\ Homed(DOMAIN k, P)
        /\ NoPair(k, E, L, R) /\ b \in FreeSet(k)
    BY <1>1, <1>2 DEF Good
  <1>3a. b \in DOMAIN k /\ b \notin E /\ k[b].free  BY <1>3, FreeIsBlock
  <1>4. NextIs(k, F, b, n)  BY <1>2, <1>3, <1>3a, NextOf
  <1>5. n \in DOMAIN k /\ n # b /\ b \in Int  BY <1>4 DEF NextIs
  <1>6. Reblocked(h, g, j) /\ IsMarked(k, b, FALSE, j)
    BY <1>2, <1>3, <1>3a, <1>5, MarkAsUsedIs
  <1>7. PICK no \in BOOLEAN : no = FALSE  OBVIOUS
  <1>8. IsMarked(k, b, no, j)  BY <1>6, <1>7
  <1>9. Tile(j, F, E) /\ Marks(k, b, no, j)  BY <1>3, <1>3a, <1>8, MarkedTile, MarksIs
  <1>10. /\ DOMAIN j = DOMAIN k /\ ~j[b].free
         /\ \A x \in DOMAIN k : /\ j[x].size = k[x].size /\ Nxt(j, x) = Nxt(k, x)
                                /\ x # b => j[x].free = k[x].free
    BY <1>7, <1>9 DEF Marks
  <1>11. NoPair(j, E, none, none)
    <2> SUFFICES ASSUME NEW x \in DOMAIN j \ E, j[x].free, j[Nxt(j, x)].free
                 PROVE  FALSE
      BY DEF NoPair
    <2> DEFINE y == Nxt(k, x)
    <2>1. x \in DOMAIN k /\ x \notin E /\ Nxt(j, x) = y /\ k[x].free /\ x # b  BY <1>10
    <2>2. NextIs(k, F, x, y)  BY <1>3, <2>1, NextOf
    <2>3. y \in DOMAIN k /\ y # b  BY <1>10, <2>1, <2>2 DEF NextIs
    <2>4. k[y].free  BY <1>10, <2>1, <2>3
    <2>5. x \in L \/ y \in R  BY <1>3, <2>1, <2>4 DEF NoPair
    <2> QED BY <1>2, <2>1, <2>3, <2>5
  <1>12. Refiled(k, W, j, none)
    <2>2. \A x : x \in FreeSet(j) /\ x \notin none <=> x \in FreeSet(k) /\ x \notin W
      BY <1>2, <1>10 DEF FreeSet
    <2>3. \A x \in FreeSet(k) : j[x].size = k[x].size  BY <1>10 DEF FreeSet
    <2> QED BY <1>2, <2>2, <2>3 DEF Refiled
  <1>13. Good(g, P, none, none, none)
    <2>1. Homed(DOMAIN j, P)  BY <1>3, <1>10
    <2> QED BY <1>1, <1>2, <1>3, <1>6, <1>9, <1>11, <1>12, <2>1, ReblockGood
  <1>14. Used(j, P) = Used(k, P) \union {b} /\ b \notin Used(k, P)
    BY <1>2, <1>3a, <1>10 DEF Used
  <1>15. \A x \in DOMAIN k : j[x].size = k[x].size  BY <1>10
  <1>16. MarkedUsedGood(h, P, b, g)
    <2>1. Good(g, P, {}, {}, {})  BY <1>2, <1>13
    <2> QED BY <1>2, <1>14, <1>15, <2>1 DEF MarkedUsedGood
  <1> QED BY <1>16

(***************************************************************************)
(* Cutting a block in two.                                                 *)
(***************************************************************************)
\* What the cut leaves of b, the second block m and the others.
CutSays(k, b, s, f, m, j) ==
    /\ DOMAIN j = DOMAIN k \union {m} /\ m \notin DOMAIN k /\ m \in Nat /\ m > b
    /\ j[b].size = s /\ j[b].free = f /\ Nxt(j, b) = m
    /\ j[m].size = k[b].size - s - 1 /\ j[m].free = TRUE /\ Nxt(j, m) = Nxt(k, b)
    /\ \A x \in DOMAIN k : x # b =>
           j[x].size = k[x].size /\ j[x].free = k[x].free /\ Nxt(j, x) = Nxt(k, x)

LEMMA CutSaysIs ==
    ASSUME NEW k, NEW F, NEW E, Tile(k, F, E), NEW b \in DOMAIN k, b \notin E,
           NEW s \in Nat, k[b].size >= s + 1, NEW f \in BOOLEAN, NEW m, m = b + 1 + s,
           NEW j, IsCut(k, b, s, f, TRUE, j)
    PROVE  CutSays(k, b, s, f, m, j) /\ Between(k, b, s, m)
  <1> DEFINE n == Nxt(k, b)
  <1>1. NextIs(k, F, b, n)  BY NextOf
  <1>2. Between(k, b, s, m)  BY CutBetween
  <1>3. /\ m \in Nat /\ m > b /\ m < n /\ m \notin DOMAIN k
        /\ m + 1 + (k[b].size - s - 1) = n
    BY <1>2 DEF Between
  <1>4. b \in Nat /\ n \in Nat /\ n # b /\ n # m  BY <1>1, <1>3 DEF NextIs
  <1>5. /\ j \in [DOMAIN k \union {m} -> Headers]
        /\ IsHdr(j[b], s, f, k[b].prevFree, k[b].prev)
        /\ IsHdr(j[m], k[b].size - s - 1, TRUE, f, Link(b, f))
        /\ IsHdr(j[n], k[n].size, k[n].free, TRUE, Link(m, TRUE))
        /\ \A x \in DOMAIN k : x # b /\ x # n => j[x] = k[x]
    BY DEF IsCut
  <1>6. Nxt(j, b) = m  BY <1>5 DEF Nxt, IsHdr
  <1>7. Nxt(j, m) = n  BY <1>3, <1>5 DEF Nxt, IsHdr
  <1>8. \A x \in DOMAIN k : x # b =>
            j[x].size = k[x].size /\ j[x].free = k[x].free /\ Nxt(j, x) = Nxt(k, x)
    BY <1>5 DEF Nxt, IsHdr
  <1>9. DOMAIN j = DOMAIN k \union {m}  BY <1>5
  <1>10. /\ j[b].size = s /\ j[b].free = f
         /\ j[m].size = k[b].size - s - 1 /\ j[m].free = TRUE
    BY <1>5 DEF IsHdr
  <1> HIDE DEF n
  <1>11. n = Nxt(k, b)  BY DEF n
  <1> QED BY <1>2, <1>3, <1>6, <1>7, <1>8, <1>9, <1>10, <1>11 DEF CutSays

LEMMA CutHomed ==
    ASSUME NEW P, P \subseteq Pools, NEW k, Tile(k, Firsts(P), Stops(P)), Homed(DOMAIN k, P),
           NEW b \in DOMAIN k \ Stops(P), NEW s, NEW m, Between(k, b, s, m)
    PROVE  Homed(DOMAIN k \union {m}, P)
  <1>1. PICK p \in P : First(p) \in Nat /\ Stop(p) \in Nat /\ First(p) <= b /\ Nxt(k, b) <= Stop(p)
    BY HomeIs
  <1>2. b \in Nat /\ Nxt(k, b) \in Nat  BY HeaderIs
  <1>3. m \in Nat /\ m > b /\ m < Nxt(k, b)  BY DEF Between
  <1>4. First(p) <= m /\ m <= Stop(p)  BY <1>1, <1>2, <1>3
  <1> QED BY <1>4 DEF Homed

\* The used blocks and their sizes are the same.
UsedKept(k, j, P) ==
    Used(j, P) = Used(k, P) /\ \A x \in Used(k, P) : j[x].size = k[x].size

\* Where a good heap has b, to be cut at s.
Cuttable(h, P, b, s) ==
    /\ b \in DOMAIN h.blk /\ b \notin Stops(P) /\ b \in Nat
    /\ s \in Nat /\ s >= 3 /\ h.blk[b].size >= s + 4 /\ h.blk[b].size \in Nat
    /\ P \subseteq Pools /\ Blocks(h) /\ Tile(h.blk, Firsts(P), Stops(P))
    /\ Homed(DOMAIN h.blk, P)

LEMMA CutWell ==
    ASSUME NEW h, NEW P, NEW b, NEW s, Cuttable(h, P, b, s), NEW m, m = b + 1 + s,
           NEW f \in BOOLEAN, NEW j, IsCut(h.blk, b, s, f, TRUE, j)
    PROVE  /\ Tile(j, Firsts(P), Stops(P)) /\ Homed(DOMAIN j, P)
           /\ CutSays(h.blk, b, s, f, m, j)
  <1> DEFINE k == h.blk
             F == Firsts(P)
             E == Stops(P)
  <1>1. /\ k = h.blk /\ F = Firsts(P) /\ E = Stops(P)
        /\ b \in DOMAIN k /\ b \notin E /\ b \in Nat
        /\ s \in Nat /\ s >= 3 /\ k[b].size >= s + 4 /\ k[b].size \in Nat
        /\ P \subseteq Pools /\ Tile(k, F, E) /\ Homed(DOMAIN k, P) /\ IsCut(k, b, s, f, TRUE, j)
    BY DEF Cuttable
  <1> HIDE DEF k, F, E
  <1>2. PICK yes \in BOOLEAN : yes = TRUE  OBVIOUS
  <1>3. IsCut(k, b, s, f, yes, j)  BY <1>1, <1>2
  <1>4. Tile(j, F, E)  BY <1>1, <1>3, CutTile
  <1>5. k[b].size >= s + 1  BY <1>1
  <1>6. CutSays(k, b, s, f, m, j) /\ Between(k, b, s, m)  BY <1>1, <1>5, CutSaysIs
  <1>7. Homed(DOMAIN k \union {m}, P)  BY <1>1, <1>6, CutHomed
  <1>8. Homed(DOMAIN j, P)  BY <1>6, <1>7 DEF CutSays
  <1> QED BY <1>1, <1>4, <1>6, <1>8

\* g is h with the free block b cut at s.
FreeCut(h, P, b, s, m, g) ==
    /\ Cuttable(h, P, b, s) /\ m = b + 1 + s
    /\ Reblocked(h, g, g.blk) /\ IsCut(h.blk, b, s, TRUE, TRUE, g.blk)

\* Before the cut b is in no list and not beside a free block, unless R says
\* so; after it m is in no list either, and A or B say that it is beside b.
CutSets(b, m, W, L, R, V, A, B) ==
    /\ \A x : x \in W <=> x = b
    /\ \A x : x \notin L
    /\ \A x : x \in V <=> x = b \/ x = m
    /\ R \subseteq W /\ R \subseteq B /\ (b \in A \/ m \in B)

\* A free block in no list is cut; the second block is in no list either.
LEMMA FreeCutGood ==
    ASSUME NEW h, NEW P, NEW b, NEW W, NEW L, NEW R, Good(h, P, W, L, R),
           NEW s, NEW m, NEW g, FreeCut(h, P, b, s, m, g),
           NEW V, NEW A, NEW B, CutSets(b, m, W, L, R, V, A, B)
    PROVE  Good(g, P, V, A, B) /\ UsedKept(h.blk, g.blk, P) /\ CutSays(h.blk, b, s, TRUE, m, g.blk)
  <1> DEFINE k == h.blk
             F == Firsts(P)
             E == Stops(P)
             n == Nxt(k, b)
             j == g.blk
  <1>1. /\ k = h.blk /\ F = Firsts(P) /\ E = Stops(P) /\ n = Nxt(k, b) /\ j = g.blk
        /\ Good(h, P, W, L, R)
    OBVIOUS
  <1>s. /\ \A x : x \in W <=> x = b
        /\ \A x : x \notin L
        /\ \A x : x \in V <=> x = b \/ x = m
        /\ R \subseteq W /\ R \subseteq B /\ (b \in A \/ m \in B)
    BY DEF CutSets
  <1>1a. /\ Cuttable(h, P, b, s) /\ m = b + 1 + s
         /\ Reblocked(h, g, j) /\ IsCut(h.blk, b, s, TRUE, TRUE, j)
    BY DEF FreeCut
  <1>2. PICK yes \in BOOLEAN : yes = TRUE  OBVIOUS
  <1>3. IsCut(h.blk, b, s, yes, TRUE, j)  BY <1>1a, <1>2
  <1>4. Tile(j, F, E) /\ Homed(DOMAIN j, P) /\ CutSays(k, b, s, yes, m, j)
    BY <1>1a, <1>3, CutWell
  <1> HIDE DEF k, F, E, n, j
  <1>5. /\ P \subseteq Pools /\ Tile(k, F, E) /\ NoPair(k, E, L, R) /\ b \in FreeSet(k)
    BY <1>1, <1>s DEF Good
  <1>6. b \in DOMAIN k /\ b \notin E /\ k[b].free  BY <1>5, FreeIsBlock
  <1>7. NextIs(k, F, b, n)  BY <1>1, <1>5, <1>6, NextOf
  <1>8. n \in DOMAIN k /\ n # b /\ b \in Nat  BY <1>7 DEF NextIs
  <1>9. /\ DOMAIN j = DOMAIN k \union {m} /\ m \notin DOMAIN k
        /\ j[b].free /\ Nxt(j, b) = m /\ j[m].free /\ Nxt(j, m) = n
        /\ \A x \in DOMAIN k : x # b =>
               j[x].size = k[x].size /\ j[x].free = k[x].free /\ Nxt(j, x) = Nxt(k, x)
    BY <1>1, <1>2, <1>4 DEF CutSays
  <1>10. m \notin E  BY <1>5, <1>9 DEF Tile
  <1>11. NoPair(j, E, A, B)
    <2> SUFFICES ASSUME NEW x \in DOMAIN j \ E, j[x].free, j[Nxt(j, x)].free
                 PROVE  x \in A \/ Nxt(j, x) \in B
      BY DEF NoPair
    <2>1. CASE x = b  BY <1>s, <1>9, <2>1
    <2>2. CASE x = m
      <3>1. k[n].free  BY <1>8, <1>9, <2>2
      <3>2. b \in L \/ n \in R  BY <1>1, <1>5, <1>6, <3>1 DEF NoPair
      <3> QED BY <1>s, <1>8, <3>2
    <2>3. CASE x # b /\ x # m
      <3> DEFINE y == Nxt(k, x)
      <3>1. x \in DOMAIN k /\ x \notin E /\ Nxt(j, x) = y /\ k[x].free  BY <1>9, <2>3
      <3>2. NextIs(k, F, x, y)  BY <1>5, <3>1, NextOf
      <3>3. y \in DOMAIN k  BY <3>2 DEF NextIs
      <3>4. k[y].free  BY <1>6, <1>9, <3>1, <3>3
      <3>5. x \in L \/ y \in R  BY <1>5, <3>1, <3>4 DEF NoPair
      <3> QED BY <1>s, <3>1, <3>5
    <2> QED BY <2>1, <2>2, <2>3
  <1>12. Refiled(k, W, j, V)
    <2>1. V \subseteq FreeSet(j)  BY <1>1, <1>s, <1>6, <1>9 DEF FreeSet
    <2>2. \A x : x \in FreeSet(j) /\ x \notin V <=> x \in FreeSet(k) /\ x \notin W
      BY <1>1, <1>s, <1>9 DEF FreeSet
    <2>3. \A x \in FreeSet(k) : x \notin W => j[x].size = k[x].size
      BY <1>1, <1>s, <1>9 DEF FreeSet
    <2> QED BY <2>1, <2>2, <2>3 DEF Refiled
  <1>13. Good(g, P, V, A, B)
    BY <1>1, <1>1a, <1>4, <1>5, <1>11, <1>12, ReblockGood
  <1>14. Used(j, P) = Used(k, P)  BY <1>6, <1>9, <1>10 DEF Used, E
  <1>15. \A x \in Used(k, P) : j[x].size = k[x].size  BY <1>6, <1>9 DEF Used
  <1>16. UsedKept(k, j, P)  BY <1>14, <1>15 DEF UsedKept
  <1>17. CutSays(k, b, s, TRUE, m, j)  BY <1>2, <1>4
  <1> QED BY <1>1, <1>13, <1>16, <1>17

\* Where a good heap has a block of W.
LEMMA GoodParts ==
    ASSUME NEW h, NEW P, NEW W, NEW L, NEW R, Good(h, P, W, L, R), NEW b \in FreeSet(h.blk)
    PROVE  /\ b \in DOMAIN h.blk /\ b \notin Stops(P) /\ b \in Nat
           /\ h.blk[b].size \in Nat /\ h.blk[b].size >= 3 /\ h.blk[b].size < BlockSizeMax
           /\ h.blk[b].free = TRUE
           /\ P \subseteq Pools /\ Blocks(h) /\ Tile(h.blk, Firsts(P), Stops(P))
           /\ Homed(DOMAIN h.blk, P)
  <1> DEFINE k == h.blk
             F == Firsts(P)
             E == Stops(P)
             n == Nxt(k, b)
  <1>1. /\ P \subseteq Pools /\ Blocks(h) /\ Tile(k, F, E) /\ Homed(DOMAIN k, P)
    BY DEF Good
  <1>2. b \in DOMAIN k /\ b \notin E /\ k[b].free  BY <1>1, FreeIsBlock
  <1>3. NextIs(k, F, b, n)  BY <1>1, <1>2, NextOf
  <1>4. b \in Nat /\ k[b].size \in Nat /\ k[b].size >= 3  BY <1>3 DEF NextIs
  <1>5. k[b].size < BlockSizeMax  BY <1>1, <1>2, SizeBound
  <1>6. k[b].free \in BOOLEAN  BY <1>1, <1>2, HeaderIs
  <1>7. k[b].free = TRUE  BY <1>2, <1>6
  <1> QED BY <1>1, <1>2, <1>4, <1>5, <1>7

\* The second block of a cut, whichever trim made it.
LEMMA TrimCut ==
    ASSUME NEW h, NEW P, NEW W, NEW L, NEW R, Good(h, P, W, L, R), NEW b \in FreeSet(h.blk),
           NEW s, s \in Nat, s >= 3, h.blk[b].size >= s + 4,
           NEW m, m = Remaining(b, s), NEW d, d = Split(h, b, s),
           NEW g, ToldOf(d, b, m, TRUE, g)
    PROVE  FreeCut(h, P, b, s, m, g)
  <1> DEFINE k == h.blk
             F == Firsts(P)
             E == Stops(P)
             n == Nxt(k, b)
             j == g.blk
  <1>n. k = h.blk /\ F = Firsts(P) /\ E = Stops(P) /\ n = Nxt(k, b) /\ j = g.blk  OBVIOUS
  <1> HIDE DEF k, F, E, n, j
  <1>1. /\ b \in DOMAIN k /\ b \notin E /\ b \in Nat /\ k[b].size \in Nat
        /\ k[b].free = TRUE /\ Blocks(h) /\ Tile(k, F, E)
        /\ P \subseteq Pools /\ Homed(DOMAIN k, P)
    BY <1>n, GoodParts
  <1>2. NextIs(k, F, b, n)  BY <1>n, <1>1, NextOf
  <1>3. n \in DOMAIN k  BY <1>2 DEF NextIs
  <1>4. m = b + 1 + s /\ k[b].size >= s + 4  BY <1>n, <1>1 DEF Remaining, HeaderOverhead
  <1>5. k[b].size >= s + 1  BY <1>1, <1>4
  <1>6. Between(k, b, s, m)  BY <1>1, <1>4, <1>5, CutBetween
  <1>7. Reblocked(h, g, j) /\ IsCut(k, b, s, TRUE, TRUE, j)
    BY <1>n, <1>1, <1>3, <1>6, FreeCutIs
  <1>8. Cuttable(h, P, b, s)  BY <1>n, <1>1, <1>4 DEF Cuttable
  <1> QED BY <1>n, <1>4, <1>7, <1>8 DEF FreeCut

\* b keeps at least s words, and what is left is filed.
Trims(h, P, b, R, s, g) ==
    /\ Good(g, P, {b}, {b}, R) /\ UsedKept(h.blk, g.blk, P)
    /\ Size(g, b) \in Nat /\ Size(g, b) >= s

LEMMA TrimFreeGood ==
    ASSUME NEW h, NEW P, NEW b, NEW L, NEW R, Good(h, P, {b}, L, R),
           \A x : x \notin L, R \subseteq {b},
           NEW s \in Nat, s >= 3, s <= Size(h, b), NEW g, g = TrimFree(h, b, s)
    PROVE  Trims(h, P, b, R, s, g)
  <1> DEFINE W == {b}
  <1>1. Good(h, P, W, L, R) /\ W = {b} /\ L \subseteq W /\ b \in FreeSet(h.blk)
    BY DEF Good
  <1> HIDE DEF W
  <1>2. h.blk[b].size \in Nat /\ Size(h, b) = h.blk[b].size
    BY <1>1, GoodParts DEF Size
  <1>3. CASE ~CanSplit(h, b, s)
    <2>1. g = h  BY <1>3 DEF TrimFree
    <2>2. Good(h, P, W, W, R)
      <3>1. R \subseteq R  OBVIOUS
      <3>2. NoPair(h.blk, Stops(P), W, R)  BY <1>1, <3>1, NoPairWider DEF Good
      <3> QED BY <1>1, <3>2 DEF Good
    <2> QED BY <1>1, <1>2, <2>1, <2>2 DEF Trims, UsedKept
  <1>4. CASE CanSplit(h, b, s)
    <2> DEFINE m == Remaining(b, s)
               d == Split(h, b, s)
               e == SetPrevFree(LinkNext(d, b), m, TRUE)
               j == e.blk
               V == {b, m}
    <2>1. g = BlockInsert(e, m)  BY <1>4 DEF TrimFree
    <2>2. ToldOf(d, b, m, TRUE, e)  BY DEF ToldOf
    <2>n. m = Remaining(b, s) /\ d = Split(h, b, s) /\ j = e.blk /\ V = {b, m}  OBVIOUS
    <2> HIDE DEF m, d, e, j, V
    <2>3. s \in Nat /\ h.blk[b].size >= s + 4  BY <1>2, <1>4 DEF CanSplit, HeaderSize
    <2>4. FreeCut(h, P, b, s, m, e)
      BY <1>1, <2>2, <2>n, <2>3, TrimCut
    <2>5. Good(e, P, V, W, R) /\ UsedKept(h.blk, j, P) /\ CutSays(h.blk, b, s, TRUE, m, j)
      <3>1. CutSets(b, m, W, L, R, V, W, R)  BY <1>1, <2>n DEF CutSets
      <3>5. Good(e, P, V, W, R) /\ UsedKept(h.blk, e.blk, P) /\ CutSays(h.blk, b, s, TRUE, m, e.blk)
        BY <1>1, <2>4, <3>1, FreeCutGood
      <3> QED BY <2>n, <3>5
    <2>6. m # b /\ j[b].size = s
      <3>1. b \in Nat  BY <2>4 DEF FreeCut, Cuttable
      <3> QED BY <2>5, <3>1 DEF CutSays
    <2>7. m \in V /\ \A x : x \in W <=> x \in V /\ x # m  BY <1>1, <2>n, <2>6
    <2>8. Good(g, P, W, W, R) /\ g.blk = e.blk  BY <2>1, <2>5, <2>7, InsertGood
    <2>9. Size(g, b) = s  BY <2>n, <2>6, <2>8 DEF Size
    <2> QED BY <1>1, <2>n, <2>5, <2>8, <2>9 DEF Trims
  <1> QED BY <1>3, <1>4

\* b, which was not used, is f's owner's and has at least s words.
Taken(g, P, b, s, f) ==
    /\ Good(f, P, {}, {}, {}) /\ Used(f.blk, P) = Used(g.blk, P) \union {b}
    /\ \A x \in Used(g.blk, P) : f.blk[x].size = g.blk[x].size
    /\ Size(f, b) \in Nat /\ Size(f, b) >= s /\ b \notin Used(g.blk, P)

LEMMA PrepareGood ==
    ASSUME NEW h, NEW P, NEW b, NEW R, Good(h, P, {b}, {}, R), R \subseteq {b},
           NEW n \in Nat, n >= BlockSizeMin, n <= Size(h, b), NEW g, g = PrepareUsed(h, b, n)
    PROVE  Taken(h, P, b, n, g)
  <1> DEFINE e == TrimFree(h, b, n)
             none == {}
             W == {b}
  <1>1. /\ e = TrimFree(h, b, n) /\ g = MarkAsUsed(e, b) /\ Good(h, P, W, none, R)
        /\ W = {b} /\ none = {}
    BY DEF PrepareUsed
  <1> HIDE DEF e, none, W
  <1>2. n >= 3  BY DEF BlockSizeMin, HeaderSize
  <1>3. Trims(h, P, b, R, n, e)  BY <1>1, <1>2, TrimFreeGood
  <1>4. Good(e, P, W, W, R) /\ UsedKept(h.blk, e.blk, P) /\ Size(e, b) \in Nat /\ Size(e, b) >= n
    BY <1>1, <1>3 DEF Trims
  <1>5. MarkedUsedGood(e, P, b, g)
    <2>1. W \subseteq W /\ R \subseteq W  BY <1>1
    <2> QED BY <1>1, <1>4, <2>1, MarkUsedGood
  <1>6. b \in DOMAIN e.blk  BY <1>1, <1>4 DEF Good, FreeSet
  <1>7. /\ Good(g, P, {}, {}, {})
        /\ Used(g.blk, P) = Used(e.blk, P) \union {b} /\ b \notin Used(e.blk, P)
        /\ \A x \in DOMAIN e.blk : g.blk[x].size = e.blk[x].size
    BY <1>5 DEF MarkedUsedGood
  <1>8. Size(g, b) = Size(e, b)  BY <1>6, <1>7 DEF Size
  <1>9. \A x \in Used(h.blk, P) : g.blk[x].size = h.blk[x].size
    BY <1>4, <1>7 DEF UsedKept, Used
  <1> QED BY <1>4, <1>7, <1>8, <1>9 DEF Taken, UsedKept

\* The front of a block is filed and m, the rest, is in no list.
LeadTrims(h, P, m, z, g) ==
    Good(g, P, {m}, {}, {m}) /\ UsedKept(h.blk, g.blk, P) /\ Size(g, m) = z

LEMMA LeadGood ==
    ASSUME NEW h, NEW P, NEW b, Good(h, P, {b}, {}, {}), NEW a \in Nat, a >= HeaderSize,
           CanSplit(h, b, a), NEW m, m = Trimmed(h, b, a), NEW g, g = TrimFreeLeading(h, b, a)
    PROVE  LeadTrims(h, P, m, Size(h, b) - a, g)
  <1> DEFINE W == {b}
             none == {}
             s == a - 1
             d == Split(h, b, s)
             e == LinkNext(SetPrevFree(d, m, TRUE), b)
             j == e.blk
             V == {b, m}
             U == {m}
  <1>1. Good(h, P, W, none, none) /\ b \in FreeSet(h.blk)  BY DEF Good
  <1>2. /\ a - HeaderOverhead = s /\ s \in Nat /\ s >= 3 /\ a = s + 1
    BY DEF HeaderOverhead, HeaderSize
  <1>3. m = Remaining(b, s)  BY <1>2 DEF Trimmed
  <1>4. g = BlockInsert(e, b)  BY <1>2 DEF TrimFreeLeading
  <1>5. ToldOf(d, b, m, TRUE, e)  BY DEF ToldOf
  <1>n. /\ d = Split(h, b, s) /\ j = e.blk /\ V = {b, m} /\ W = {b} /\ U = {m} /\ none = {}
    OBVIOUS
  <1> HIDE DEF s, d, e, j, V, W, U, none
  <1>6. h.blk[b].size \in Nat /\ Size(h, b) = h.blk[b].size
    BY <1>1, GoodParts DEF Size
  <1>7. s \in Nat /\ h.blk[b].size >= s + 4  BY <1>2, <1>6 DEF CanSplit, HeaderSize
  <1>8. FreeCut(h, P, b, s, m, e)
    BY <1>1, <1>2, <1>3, <1>5, <1>n, <1>7, TrimCut
  <1>9. Good(e, P, V, none, U) /\ UsedKept(h.blk, j, P) /\ CutSays(h.blk, b, s, TRUE, m, j)
    <2>1. CutSets(b, m, W, none, none, V, none, U)  BY <1>n DEF CutSets
    <2>2. Good(e, P, V, none, U) /\ UsedKept(h.blk, e.blk, P) /\ CutSays(h.blk, b, s, TRUE, m, e.blk)
      BY <1>1, <1>8, <2>1, FreeCutGood
    <2> QED BY <1>n, <2>2
  <1>10. m # b /\ j[m].size = h.blk[b].size - s - 1
    <2>1. b \in Nat  BY <1>8 DEF FreeCut, Cuttable
    <2> QED BY <1>9, <2>1 DEF CutSays
  <1>11. b \in V /\ \A x : x \in U <=> x \in V /\ x # b  BY <1>n, <1>10
  <1>12. Good(g, P, U, none, U) /\ g.blk = e.blk  BY <1>4, <1>9, <1>11, InsertGood
  <1>13. Size(g, m) = Size(h, b) - a
    <2>1. j[m].size = Size(h, b) - a  BY <1>2, <1>6, <1>10
    <2> QED BY <1>n, <1>12, <2>1 DEF Size
  <1> QED BY <1>n, <1>9, <1>12, <1>13 DEF LeadTrims

(***************************************************************************)
(* Making two blocks one.                                                  *)
(***************************************************************************)
\* What is left of p, whose next block c is gone, and of the others.
FuseSays(k, p, f, c, j) ==
    /\ DOMAIN j = DOMAIN k \ {c} /\ p \in DOMAIN j
    /\ j[p].size = k[p].size + 1 + k[c].size /\ j[p].free = f /\ Nxt(j, p) = Nxt(k, c)
    /\ \A x \in DOMAIN j : x # p =>
           j[x].size = k[x].size /\ j[x].free = k[x].free /\ Nxt(j, x) = Nxt(k, x)

LEMMA FuseSaysIs ==
    ASSUME NEW k, NEW F, NEW E, Tile(k, F, E), NEW p \in DOMAIN k, p \notin E,
           NEW c, c = Nxt(k, p), c \notin E, NEW f \in BOOLEAN, NEW j, IsFused(k, p, f, j)
    PROVE  FuseSays(k, p, f, c, j)
  <1> DEFINE n == Nxt(k, c)
  <1>1. Row3(k, p, c, n)  BY RowOf
  <1>2. /\ p \in Nat /\ c \in Nat /\ n \in Nat /\ p < c /\ c < n /\ n # p
        /\ c = p + 1 + k[p].size /\ n = c + 1 + k[c].size
        /\ k[p].size \in Nat /\ k[c].size \in Nat
    BY <1>1 DEF Row3
  <1>3. /\ j \in [DOMAIN k \ {c} -> Headers]
        /\ IsHdr(j[p], k[p].size + 1 + k[c].size, f, k[p].prevFree, k[p].prev)
        /\ IsHdr(j[n], k[n].size, k[n].free, f, Link(p, f))
        /\ \A x \in DOMAIN k : x # p /\ x # c /\ x # n => j[x] = k[x]
    BY DEF IsFused
  <1>n. n = Nxt(k, c)  OBVIOUS
  <1> HIDE DEF n
  <1>4. Nxt(j, p) = n
    <2>1. n = p + 1 + (k[p].size + 1 + k[c].size)  BY <1>2
    <2>2. j[p].size = k[p].size + 1 + k[c].size  BY <1>3 DEF IsHdr
    <2> QED BY <2>1, <2>2 DEF Nxt
  <1>5. DOMAIN j = DOMAIN k \ {c} /\ p \in DOMAIN j  BY <1>2, <1>3
  <1>6. \A x \in DOMAIN j : x # p =>
            j[x].size = k[x].size /\ j[x].free = k[x].free /\ Nxt(j, x) = Nxt(k, x)
    BY <1>3, <1>5 DEF Nxt, IsHdr
  <1>7. j[p].size = k[p].size + 1 + k[c].size /\ j[p].free = f  BY <1>3 DEF IsHdr
  <1> QED BY <1>n, <1>4, <1>5, <1>6, <1>7 DEF FuseSays

\* p and c are in no list if free; L and R name them only, and A names p if
\* it is free and may be beside a free block afterwards.
FuseSets(p, c, f, W, L, R, V, A) ==
    /\ \A x : x \in W <=> x = c \/ (x = p /\ f)
    /\ \A x : x \in V <=> x = p /\ f
    /\ \A x \in L : x = p \/ x = c
    /\ \A x \in R : x = c
    /\ f => p \in A \/ c \notin L

\* The used blocks are the same and so are their sizes, but for b's.
UsedBut(k, j, P, b) ==
    Used(j, P) = Used(k, P) /\ \A x \in Used(k, P) : x # b => j[x].size = k[x].size

LEMMA FuseGood ==
    ASSUME NEW h, NEW P, NEW W, NEW L, NEW R, Good(h, P, W, L, R),
           NEW p \in DOMAIN h.blk, p \notin Stops(P), NEW c, c = Nxt(h.blk, p),
           c \in FreeSet(h.blk), NEW f \in BOOLEAN, h.blk[p].free = f,
           NEW g, Reblocked(h, g, g.blk), IsFused(h.blk, p, f, g.blk),
           NEW V, NEW A, NEW B, FuseSets(p, c, f, W, L, R, V, A)
    PROVE  Good(g, P, V, A, B) /\ UsedBut(h.blk, g.blk, P, p) /\ FuseSays(h.blk, p, f, c, g.blk)
  <1> DEFINE k == h.blk
             j == g.blk
             F == Firsts(P)
             E == Stops(P)
             n == Nxt(k, c)
  <1>1. /\ k = h.blk /\ j = g.blk /\ F = Firsts(P) /\ E = Stops(P) /\ n = Nxt(k, c)
        /\ Good(h, P, W, L, R) /\ p \in DOMAIN k /\ p \notin E /\ c = Nxt(k, p)
        /\ c \in FreeSet(k) /\ k[p].free = f /\ Reblocked(h, g, j) /\ IsFused(k, p, f, j)
    OBVIOUS
  <1> HIDE DEF k, j, F, E, n
  <1>2. /\ P \subseteq Pools /\ Tile(k, F, E) /\ NoPair(k, E, L, R) /\ Homed(DOMAIN k, P)
    BY <1>1 DEF Good
  <1>3. c \in DOMAIN k /\ c \notin E /\ k[c].free  BY <1>1, <1>2, FreeIsBlock
  <1>4. Tile(j, F, E)
    <2>1. Nxt(k, p) \notin E  BY <1>1, <1>3
    <2> QED BY <1>1, <1>2, <2>1, FusedTile
  <1>5. FuseSays(k, p, f, c, j)  BY <1>1, <1>2, <1>3, FuseSaysIs
  <1>6. /\ DOMAIN j = DOMAIN k \ {c} /\ p \in DOMAIN j /\ j[p].free = f /\ Nxt(j, p) = n
        /\ \A x \in DOMAIN j : x # p =>
               j[x].size = k[x].size /\ j[x].free = k[x].free /\ Nxt(j, x) = Nxt(k, x)
    BY <1>1, <1>5 DEF FuseSays
  <1>7. Homed(DOMAIN j, P)  BY <1>2, <1>6 DEF Homed
  <1>8. /\ \A x : x \in W <=> x = c \/ (x = p /\ f)
        /\ \A x : x \in V <=> x = p /\ f
        /\ \A x \in L : x = p \/ x = c
        /\ \A x \in R : x = c
        /\ f => p \in A \/ c \notin L
    BY DEF FuseSets
  <1>9. NextIs(k, F, c, n)  BY <1>1, <1>2, <1>3, NextOf
  <1>10. n \in DOMAIN k /\ n # c  BY <1>9 DEF NextIs
  <1>11. p # c /\ n # p
    <2>1. NextIs(k, F, p, c)  BY <1>1, <1>2, NextOf
    <2> QED BY <1>9, <2>1 DEF NextIs
  <1>12. NoPair(j, E, A, B)
    <2> SUFFICES ASSUME NEW x \in DOMAIN j \ E, j[x].free, j[Nxt(j, x)].free
                 PROVE  x \in A
      BY DEF NoPair
    <2>1. CASE x = p
      <3>1. f  BY <1>6, <2>1
      <3>2. k[n].free  BY <1>6, <1>10, <1>11, <2>1
      <3>3. c \in L \/ n \in R  BY <1>1, <1>2, <1>3, <3>2 DEF NoPair
      <3> QED BY <1>8, <1>10, <2>1, <3>1, <3>3
    <2>2. CASE x # p
      <3> DEFINE y == Nxt(k, x)
      <3>1. x \in DOMAIN k /\ x \notin E /\ x # c /\ Nxt(j, x) = y /\ k[x].free
        BY <1>6, <2>2
      <3>2. NextIs(k, F, x, y)  BY <1>2, <3>1, NextOf
      <3>3. y \in DOMAIN k  BY <3>2 DEF NextIs
      <3>4. y # c  BY <1>1, <1>2, <2>2, <3>1, NextOnce
      <3>5. k[y].free
        <4>1. y = p => j[y].free = f /\ k[y].free = f  BY <1>1, <1>6
        <4>2. y # p => j[y].free = k[y].free  BY <1>6, <3>3, <3>4
        <4> QED BY <3>1, <4>1, <4>2
      <3>6. x \in L \/ y \in R  BY <1>2, <3>1, <3>5 DEF NoPair
      <3> QED BY <1>8, <2>2, <3>1, <3>4, <3>6
    <2> QED BY <2>1, <2>2
  <1>13. Refiled(k, W, j, V)
    <2>1. V \subseteq FreeSet(j)  BY <1>6, <1>8 DEF FreeSet
    <2>2. ASSUME NEW x
          PROVE  x \in FreeSet(j) /\ x \notin V <=> x \in FreeSet(k) /\ x \notin W
      <3>1. CASE x = p  BY <1>1, <1>6, <1>8, <1>11, <3>1 DEF FreeSet
      <3>2. CASE x = c  BY <1>6, <1>8, <3>2 DEF FreeSet
      <3>3. CASE x # p /\ x # c  BY <1>6, <1>8, <3>3 DEF FreeSet
      <3> QED BY <3>1, <3>2, <3>3
    <2>3. ASSUME NEW x \in FreeSet(k), x \notin W PROVE j[x].size = k[x].size
      <3>1. x \in DOMAIN k /\ k[x].free /\ x # c  BY <1>8, <2>3 DEF FreeSet
      <3>2. x # p  BY <1>1, <1>8, <2>3, <3>1
      <3> QED BY <1>6, <3>1, <3>2
    <2> QED BY <2>1, <2>2, <2>3 DEF Refiled
  <1>14. Good(g, P, V, A, B)
    BY <1>1, <1>2, <1>4, <1>7, <1>12, <1>13, ReblockGood
  <1>15. UsedBut(k, j, P, p)
    <2>1. ASSUME NEW x PROVE x \in Used(j, P) <=> x \in Used(k, P)
      <3>1. CASE x = p  BY <1>1, <1>6, <3>1 DEF Used
      <3>2. CASE x = c  BY <1>3, <1>6, <3>2 DEF Used
      <3>3. CASE x # p /\ x # c  BY <1>6, <3>3 DEF Used
      <3> QED BY <3>1, <3>2, <3>3
    <2>2. Used(j, P) = Used(k, P)  BY <2>1
    <2>3. ASSUME NEW x \in Used(k, P), x # p PROVE j[x].size = k[x].size
      <3>1. x \in DOMAIN k /\ x # c  BY <1>3 DEF Used
      <3> QED BY <1>6, <2>3, <3>1
    <2> QED BY <2>2, <2>3 DEF UsedBut
  <1> QED BY <1>1, <1>5, <1>14, <1>15

(***************************************************************************)
(* block_merge_next and block_merge_prev.                                  *)
(***************************************************************************)
\* w is free and in no list, and none of its neighbours is free.
Merged(h, P, w, g) == Good(g, P, {w}, {}, {}) /\ UsedKept(h.blk, g.blk, P)

\* A free block p takes in the free block c that follows it.
Fuses(h, P, p, V, A, B, g) == Good(g, P, V, A, B) /\ UsedKept(h.blk, g.blk, P)

\* Before, p and c are in no list; afterwards only p is free beside free blocks.
PairSets(p, c, W, L, R, V, A) ==
    /\ \A x : x \in W <=> x = c \/ x = p
    /\ \A x : x \in V <=> x = p
    /\ \A x \in L : x = p \/ x = c
    /\ \A x \in R : x = c
    /\ p \in A \/ c \notin L

LEMMA FreeFuseGood ==
    ASSUME NEW h, NEW P, NEW W, NEW L, NEW R, Good(h, P, W, L, R),
           NEW p \in FreeSet(h.blk), NEW c, c = Nxt(h.blk, p), c \in FreeSet(h.blk),
           NEW V, NEW A, NEW B, PairSets(p, c, W, L, R, V, A), NEW g, g = Absorb(h, p, c)
    PROVE  Fuses(h, P, p, V, A, B, g)
  <1> DEFINE k == h.blk
             j == g.blk
             F == Firsts(P)
             E == Stops(P)
             n == Nxt(k, c)
  <1>1. /\ k = h.blk /\ j = g.blk /\ F = Firsts(P) /\ E = Stops(P) /\ n = Nxt(k, c)
        /\ Good(h, P, W, L, R) /\ p \in FreeSet(k) /\ c = Nxt(k, p) /\ c \in FreeSet(k)
    OBVIOUS
  <1> HIDE DEF k, j, F, E, n
  <1>2. /\ p \in DOMAIN k /\ p \notin E /\ k[p].free = TRUE /\ Blocks(h) /\ Tile(k, F, E)
    BY <1>1, GoodParts
  <1>3. c \in DOMAIN k /\ c \notin E /\ k[c].free = TRUE  BY <1>1, GoodParts
  <1>4. Row3(k, p, c, n)  BY <1>1, <1>2, <1>3, RowOf
  <1>5. NextIs(k, F, c, n)  BY <1>1, <1>2, <1>3, NextOf
  <1>6. k[n].prevFree = TRUE  BY <1>3, <1>5 DEF NextIs
  <1>7. Reblocked(h, g, j) /\ IsFused(k, p, TRUE, j)
    BY <1>1, <1>2, <1>4, <1>6, FreeFusedIs
  <1>8. PICK yes \in BOOLEAN : yes = TRUE  OBVIOUS
  <1>9. IsFused(k, p, yes, j) /\ k[p].free = yes  BY <1>2, <1>7, <1>8
  <1>10. FuseSets(p, c, yes, W, L, R, V, A)  BY <1>8 DEF PairSets, FuseSets
  <1>11. Good(g, P, V, A, B) /\ UsedBut(k, j, P, p)
    <2>1. /\ p \in DOMAIN h.blk /\ p \notin Stops(P) /\ c = Nxt(h.blk, p)
          /\ c \in FreeSet(h.blk) /\ h.blk[p].free = yes /\ Reblocked(h, g, g.blk)
          /\ IsFused(h.blk, p, yes, g.blk)
      BY <1>1, <1>2, <1>7, <1>9
    <2>2. Good(g, P, V, A, B) /\ UsedBut(h.blk, g.blk, P, p)  BY <2>1, <1>10, FuseGood
    <2> QED BY <1>1, <2>2
  <1>12. p \notin Used(k, P)  BY <1>2 DEF Used
  <1>13. UsedKept(k, j, P)  BY <1>11, <1>12 DEF UsedBut, UsedKept
  <1> QED BY <1>1, <1>11, <1>13 DEF Fuses

LEMMA MergeNextGood ==
    ASSUME NEW h, NEW P, NEW b, Good(h, P, {b}, {b}, {}), NEW g, g = MergeNext(h, b)
    PROVE  Merged(h, P, b, g)
  <1> DEFINE k == h.blk
             E == Stops(P)
             F == Firsts(P)
             n == Nxt(k, b)
             W == {b}
             none == {}
             V == {b, n}
             e == BlockRemove(h, n)
  <1>1. /\ k = h.blk /\ F = Firsts(P) /\ E = Stops(P) /\ n = Nxt(k, b) /\ W = {b} /\ none = {}
        /\ V = {b, n} /\ e = BlockRemove(h, n) /\ Good(h, P, W, W, none)
    OBVIOUS
  <1>2. BlockNext(h, b) = n  BY DEF BlockNext, Nxt, Size, HeaderOverhead
  <1> HIDE DEF k, E, F, n, W, none, V, e
  <1>3. b \in FreeSet(k)  BY <1>1 DEF Good
  <1>4. /\ b \in DOMAIN k /\ b \notin E /\ Tile(k, F, E)
        /\ P \subseteq Pools
    BY <1>1, <1>3, GoodParts
  <1>5. NextIs(k, F, b, n)  BY <1>1, <1>4, NextOf
  <1>6. n \in DOMAIN k /\ n # b  BY <1>5 DEF NextIs
  <1>7. ASSUME ~k[n].free PROVE Merged(h, P, b, g)
    <2>1. g = h  BY <1>1, <1>2, <1>7 DEF MergeNext
    <2>2. NoPair(k, E, W, none)  BY <1>1 DEF Good
    <2>3. NoPair(k, E, none, none)  BY <1>1, <1>7, <2>2 DEF NoPair
    <2>4. Good(g, P, W, none, none)  BY <1>1, <2>1, <2>3 DEF Good
    <2>5. Good(g, P, {b}, {}, {})  BY <1>1, <2>4
    <2> QED BY <2>1, <2>5 DEF Merged, UsedKept
  <1>8. ASSUME k[n].free PROVE Merged(h, P, b, g)
    <2>1. g = Absorb(e, b, n)  BY <1>1, <1>2, <1>8 DEF MergeNext
    <2>2. n \in FreeSet(k)  BY <1>6, <1>8 DEF FreeSet
    <2>3. n \notin W /\ \A x : x \in V <=> x \in W \/ x = n  BY <1>1, <1>6
    <2>4. Good(e, P, V, W, none) /\ e.blk = k  BY <1>1, <2>2, <2>3, RemoveGood
    <2>5. PairSets(b, n, V, W, none, W, none)  BY <1>1, <1>6, <2>3 DEF PairSets
    <2>6. Fuses(e, P, b, W, none, none, g)
      BY <1>1, <1>3, <2>1, <2>2, <2>4, <2>5, FreeFuseGood
    <2>7. Good(g, P, W, none, none) /\ UsedKept(k, g.blk, P)  BY <2>4, <2>6 DEF Fuses
    <2>8. Good(g, P, {b}, {}, {})  BY <1>1, <2>7
    <2> QED BY <1>1, <2>7, <2>8 DEF Merged
  <1> QED BY <1>7, <1>8

\* w is free and in no list, and only the block after it may be free too.
PrevMerged(h, P, w, g) == Good(g, P, {w}, {w}, {}) /\ UsedKept(h.blk, g.blk, P)

LEMMA MergePrevGood ==
    ASSUME NEW h, NEW P, NEW b, Good(h, P, {b}, {b}, {b}), NEW w, w = MergedInto(h, b),
           NEW g, g = MergePrev(h, b)
    PROVE  PrevMerged(h, P, w, g)
  <1> DEFINE k == h.blk
             E == Stops(P)
             F == Firsts(P)
             p == k[b].prev
             W == {b}
             U == {p}
             none == {}
             V == {b, p}
             e == BlockRemove(h, p)
  <1>1. /\ k = h.blk /\ F = Firsts(P) /\ E = Stops(P) /\ W = {b} /\ none = {} /\ U = {p}
        /\ V = {b, p} /\ e = BlockRemove(h, p) /\ Good(h, P, W, W, W) /\ p = k[b].prev
    OBVIOUS
  <1>2. /\ ~k[b].prevFree => w = b /\ g = h
        /\ k[b].prevFree => w = p /\ g = Absorb(e, p, b)
    BY DEF MergedInto, MergePrev
  <1> HIDE DEF k, E, F, p, W, U, none, V, e
  <1>3. b \in FreeSet(k)  BY <1>1 DEF Good
  <1>4. /\ b \in DOMAIN k /\ b \notin E /\ Tile(k, F, E) /\ P \subseteq Pools
    BY <1>1, <1>3, GoodParts
  <1>5. NoPair(k, E, W, W)  BY <1>1 DEF Good
  <1>7. ASSUME ~k[b].prevFree PROVE PrevMerged(h, P, w, g)
    <2>1. g = h /\ w = b  BY <1>2, <1>7
    <2>2. \A x \in DOMAIN k : x \notin E /\ Nxt(k, x) = b => ~k[x].free
      BY <1>4, <1>7, UsedBefore
    <2>3. NoPair(k, E, W, none)  BY <1>1, <1>5, <2>2 DEF NoPair
    <2>4. Good(g, P, W, W, none)  BY <1>1, <2>1, <2>3 DEF Good
    <2>5. Good(g, P, {w}, {w}, {})  BY <1>1, <2>1, <2>4
    <2> QED BY <2>1, <2>5 DEF PrevMerged, UsedKept
  <1>8. ASSUME k[b].prevFree PROVE PrevMerged(h, P, w, g)
    <2>1. g = Absorb(e, p, b) /\ w = p  BY <1>2, <1>8
    <2>2. IsBefore(k, E, p, b)  BY <1>1, <1>4, <1>8, FreeBefore
    <2>3. b \in Nat /\ p \in Nat  BY <1>4, <2>2, HeaderIs DEF IsBefore
    <2>4. p \in FreeSet(k) /\ p # b /\ b = Nxt(k, p)  BY <2>2, <2>3 DEF IsBefore, FreeSet
    <2>5. p \notin W /\ \A x : x \in V <=> x \in W \/ x = p  BY <1>1, <2>4
    <2>6. Good(e, P, V, W, W) /\ e.blk = k
      <3>1. Good(h, P, W, W, W) /\ k = h.blk /\ e = BlockRemove(h, p)  BY <1>1
      <3> QED BY <2>4, <2>5, <3>1, RemoveGood
    <2>7. PairSets(p, b, V, W, W, U, U)  BY <1>1, <2>5 DEF PairSets
    <2>8. Fuses(e, P, p, U, U, none, g)
      <3>1. /\ p \in FreeSet(e.blk) /\ b = Nxt(e.blk, p) /\ b \in FreeSet(e.blk)
            /\ Good(e, P, V, W, W) /\ g = Absorb(e, p, b)
        BY <1>3, <2>1, <2>4, <2>6
      <3> QED BY <2>7, <3>1, FreeFuseGood
    <2>9. Good(g, P, U, U, none) /\ UsedKept(k, g.blk, P)  BY <2>6, <2>8 DEF Fuses
    <2>10. Good(g, P, {w}, {w}, {})  BY <1>1, <2>1, <2>9
    <2> QED BY <1>1, <2>9, <2>10 DEF PrevMerged
  <1> QED BY <1>7, <1>8

\* What was b is filed, in w.
Freed(h, P, w, g) ==
    Good(g, P, {}, {}, {}) /\ w \in DOMAIN g.blk /\ UsedKept(h.blk, g.blk, P)

LEMMA MergeGood ==
    ASSUME NEW h, NEW P, NEW b, Good(h, P, {b}, {b}, {b}), NEW w, w = MergedInto(h, b),
           NEW g, g = MergeAndInsert(h, b)
    PROVE  Freed(h, P, w, g)
  <1> DEFINE e == MergePrev(h, b)
             d == MergeNext(e, w)
             W == {w}
             none == {}
  <1>1. /\ e = MergePrev(h, b) /\ d = MergeNext(e, w) /\ W = {w} /\ none = {}
        /\ g = BlockInsert(d, w)
    BY DEF MergeAndInsert
  <1> HIDE DEF e, d, W, none
  <1>2. PrevMerged(h, P, w, e)  BY <1>1, MergePrevGood
  <1>3. Good(e, P, {w}, {w}, {}) /\ UsedKept(h.blk, e.blk, P)  BY <1>2 DEF PrevMerged
  <1>4. Merged(e, P, w, d)  BY <1>1, <1>3, MergeNextGood
  <1>5. Good(d, P, W, none, none) /\ UsedKept(e.blk, d.blk, P)  BY <1>1, <1>4 DEF Merged
  <1>6. w \in W /\ \A x : x \in none <=> x \in W /\ x # w  BY <1>1
  <1>7. Good(g, P, none, none, none) /\ g.blk = d.blk  BY <1>1, <1>5, <1>6, InsertGood
  <1>8. w \in DOMAIN g.blk  BY <1>1, <1>5, <1>7 DEF Good, FreeSet
  <1>9. UsedKept(h.blk, g.blk, P)  BY <1>3, <1>5, <1>7 DEF UsedKept
  <1>10. Good(g, P, {}, {}, {})  BY <1>1, <1>7
  <1> QED BY <1>8, <1>9, <1>10 DEF Freed

(***************************************************************************)
(* tlsf_realloc in place.                                                  *)
(***************************************************************************)
\* b keeps s words, and the rest is free, in no list, and merged with nothing.
UsedCut(h, P, b, s, m, g) ==
    /\ Good(g, P, {m}, {m}, {}) /\ Size(g, b) = s
    /\ Used(g.blk, P) = Used(h.blk, P)
    /\ \A x \in Used(h.blk, P) : x # b => g.blk[x].size = h.blk[x].size

\* g is what block_trim_used makes of h at first.
CutUsed(h, b, s, m, g) == g = SetPrevFree(Split(h, b, s), m, FALSE)

LEMMA UsedCutGood ==
    ASSUME NEW h, NEW P, Good(h, P, {}, {}, {}), NEW b \in Used(h.blk, P),
           NEW s \in Nat, s >= 3, CanSplit(h, b, s), NEW m, m = Remaining(b, s),
           NEW g, CutUsed(h, b, s, m, g)
    PROVE  UsedCut(h, P, b, s, m, g)
  <1> DEFINE k == h.blk
             j == g.blk
             F == Firsts(P)
             E == Stops(P)
             n == Nxt(k, b)
             none == {}
             V == {m}
  <1>1. /\ k = h.blk /\ j = g.blk /\ F = Firsts(P) /\ E = Stops(P) /\ n = Nxt(k, b)
        /\ none = {} /\ V = {m} /\ Good(h, P, none, none, none)
        /\ b \in DOMAIN k /\ b \notin E /\ ~k[b].free /\ k[b].size >= s + 4
    BY DEF Used, CanSplit, HeaderSize, Size
  <1> HIDE DEF k, j, F, E, n, none, V
  <1>2. /\ P \subseteq Pools /\ Blocks(h) /\ Tile(k, F, E) /\ Homed(DOMAIN k, P)
        /\ NoPair(k, E, none, none)
    BY <1>1 DEF Good
  <1>3. NextIs(k, F, b, n)  BY <1>1, <1>2, NextOf
  <1>4. n \in DOMAIN k /\ n # b /\ b \in Nat /\ k[b].size \in Nat  BY <1>3 DEF NextIs
  <1>5. k[b].free \in BOOLEAN  BY <1>1, <1>2, HeaderIs
  <1>6. k[b].free = FALSE  BY <1>1, <1>5
  <1>7. m = b + 1 + s /\ k[b].size >= s + 1  BY <1>1, <1>4 DEF Remaining, HeaderOverhead
  <1>8. Between(k, b, s, m)  BY <1>1, <1>2, <1>7, CutBetween
  <1>9. Reblocked(h, g, j) /\ IsCut(k, b, s, FALSE, TRUE, j)
    BY <1>1, <1>2, <1>4, <1>6, <1>8, UsedCutIs DEF CutUsed
  <1>10. PICK no \in BOOLEAN : no = FALSE  OBVIOUS
  <1>11. Cuttable(h, P, b, s)  BY <1>1, <1>2, <1>4 DEF Cuttable
  <1>12. Tile(j, F, E) /\ Homed(DOMAIN j, P) /\ CutSays(k, b, s, no, m, j)
    <2>1. IsCut(h.blk, b, s, no, TRUE, j)  BY <1>1, <1>9, <1>10
    <2> QED BY <1>1, <1>7, <1>11, <2>1, CutWell
  <1>13. /\ DOMAIN j = DOMAIN k \union {m} /\ m \notin DOMAIN k /\ j[b].size = s
         /\ ~j[b].free /\ j[m].free
         /\ \A x \in DOMAIN k : x # b =>
                j[x].size = k[x].size /\ j[x].free = k[x].free /\ Nxt(j, x) = Nxt(k, x)
    BY <1>10, <1>12 DEF CutSays
  <1>14. m \notin E  BY <1>2, <1>13 DEF Tile
  <1>15. NoPair(j, E, V, none)
    <2> SUFFICES ASSUME NEW x \in DOMAIN j \ E, j[x].free, j[Nxt(j, x)].free, x # m
                 PROVE  FALSE
      BY <1>1 DEF NoPair
    <2> DEFINE y == Nxt(k, x)
    <2>1. x \in DOMAIN k /\ x \notin E /\ x # b /\ Nxt(j, x) = y /\ k[x].free  BY <1>13
    <2>2. NextIs(k, F, x, y)  BY <1>2, <2>1, NextOf
    <2>3. y \in DOMAIN k /\ y # b  BY <1>13, <2>1, <2>2 DEF NextIs
    <2>4. k[y].free  BY <1>13, <2>1, <2>3
    <2> QED BY <1>1, <1>2, <2>1, <2>4 DEF NoPair
  <1>16. Refiled(k, none, j, V)
    <2>1. V \subseteq FreeSet(j)  BY <1>1, <1>13 DEF FreeSet
    <2>2. \A x : x \in FreeSet(j) /\ x \notin V <=> x \in FreeSet(k) /\ x \notin none
      BY <1>1, <1>13 DEF FreeSet
    <2>3. \A x \in FreeSet(k) : j[x].size = k[x].size  BY <1>1, <1>13 DEF FreeSet
    <2> QED BY <2>1, <2>2, <2>3 DEF Refiled
  <1>17. Good(g, P, V, V, none)
    BY <1>1, <1>2, <1>9, <1>12, <1>15, <1>16, ReblockGood
  <1>18. Used(j, P) = Used(k, P)
    <2>1. ASSUME NEW x PROVE x \in Used(j, P) <=> x \in Used(k, P)
      <3>1. CASE x = b  BY <1>1, <1>13, <3>1 DEF Used
      <3>2. CASE x = m  BY <1>13, <3>2 DEF Used
      <3>3. CASE x # b /\ x # m  BY <1>13, <3>3 DEF Used
      <3> QED BY <3>1, <3>2, <3>3
    <2> QED BY <2>1
  <1>19. \A x \in Used(k, P) : x # b => j[x].size = k[x].size  BY <1>13 DEF Used
  <1>20. Good(g, P, {m}, {m}, {})  BY <1>1, <1>17
  <1>21. Size(g, b) = s  BY <1>1, <1>13 DEF Size
  <1> QED BY <1>1, <1>18, <1>19, <1>20, <1>21 DEF UsedCut

\* b has another size, of at least n words, and nothing else has changed.
Resized(h, P, b, n, g) ==
    /\ Good(g, P, {}, {}, {}) /\ Size(g, b) \in Nat /\ Size(g, b) >= n
    /\ Used(g.blk, P) = Used(h.blk, P)
    /\ \A x \in Used(h.blk, P) : x # b => g.blk[x].size = h.blk[x].size

LEMMA TrimUsedGood ==
    ASSUME NEW h, NEW P, Good(h, P, {}, {}, {}), NEW b \in Used(h.blk, P),
           NEW n \in Nat, n >= 3, n <= Size(h, b), NEW g, g = TrimUsed(h, b, n)
    PROVE  Resized(h, P, b, n, g)
  <1> DEFINE m == Remaining(b, n)
             d == SetPrevFree(Split(h, b, n), m, FALSE)
             e == MergeNext(d, m)
             W == {m}
             none == {}
  <1>1. /\ m = Remaining(b, n) /\ CutUsed(h, b, n, m, d)
        /\ e = MergeNext(d, m) /\ W = {m} /\ none = {} /\ Good(h, P, none, none, none)
    BY DEF CutUsed
  <1>2. /\ ~CanSplit(h, b, n) => g = h
        /\ CanSplit(h, b, n) => g = BlockInsert(e, m)
    BY DEF TrimUsed
  <1> HIDE DEF m, d, e, W, none
  <1>3. b \in DOMAIN h.blk  BY DEF Used
  <1>4. Size(h, b) \in Nat
    <2>1. P \subseteq Pools /\ Tile(h.blk, Firsts(P), Stops(P))  BY <1>1 DEF Good
    <2> QED BY <1>3, <2>1, HeaderIs DEF Size
  <1>5. ASSUME ~CanSplit(h, b, n) PROVE Resized(h, P, b, n, g)
    BY <1>2, <1>4, <1>5 DEF Resized
  <1>6. ASSUME CanSplit(h, b, n) PROVE Resized(h, P, b, n, g)
    <2>1. g = BlockInsert(e, m)  BY <1>2, <1>6
    <2>2. UsedCut(h, P, b, n, m, d)  BY <1>1, <1>6, UsedCutGood
    <2>3. /\ Good(d, P, {m}, {m}, {}) /\ Size(d, b) = n /\ Used(d.blk, P) = Used(h.blk, P)
          /\ \A x \in Used(h.blk, P) : x # b => d.blk[x].size = h.blk[x].size
      BY <2>2 DEF UsedCut
    <2>4. Merged(d, P, m, e)  BY <1>1, <2>3, MergeNextGood
    <2>5. Good(e, P, W, none, none) /\ UsedKept(d.blk, e.blk, P)  BY <1>1, <2>4 DEF Merged
    <2>6. m \in W /\ \A x : x \in none <=> x \in W /\ x # m  BY <1>1
    <2>7. Good(g, P, none, none, none) /\ g.blk = e.blk  BY <2>1, <2>5, <2>6, InsertGood
    <2>8. Good(g, P, {}, {}, {})  BY <1>1, <2>7
    <2>9. Used(g.blk, P) = Used(h.blk, P)  BY <2>3, <2>5, <2>7 DEF UsedKept
    <2>10. \A x \in Used(h.blk, P) : g.blk[x].size = d.blk[x].size
      BY <2>3, <2>5, <2>7 DEF UsedKept
    <2>11. Size(g, b) = n  BY <2>3, <2>10 DEF Size
    <2> QED BY <2>3, <2>8, <2>9, <2>10, <2>11 DEF Resized
  <1> QED BY <1>5, <1>6

LEMMA GrowGood ==
    ASSUME NEW h, NEW P, Good(h, P, {}, {}, {}), NEW b \in Used(h.blk, P),
           NEW c, c = Nxt(h.blk, b), c \in FreeSet(h.blk),
           NEW n \in Nat, n <= Size(h, b) + 1 + Size(h, c),
           NEW g, g = MarkAsUsed(Absorb(BlockRemove(h, c), b, c), b)
    PROVE  Resized(h, P, b, n, g)
  <1> DEFINE k == h.blk
             j == g.blk
             F == Firsts(P)
             E == Stops(P)
             y == Nxt(k, c)
             none == {}
             W == {c}
             d == BlockRemove(h, c)
             e == Absorb(d, b, c)
  <1>1. /\ k = h.blk /\ j = g.blk /\ F = Firsts(P) /\ E = Stops(P) /\ y = Nxt(k, c)
        /\ none = {} /\ W = {c} /\ Good(h, P, none, none, none) /\ d = BlockRemove(h, c)
        /\ e = Absorb(d, b, c) /\ g = MarkAsUsed(e, b) /\ c = Nxt(k, b) /\ c \in FreeSet(k)
    OBVIOUS
  <1>2. b \in DOMAIN k /\ b \notin E /\ ~k[b].free  BY DEF Used
  <1> HIDE DEF k, j, F, E, y, none, W, d, e
  <1>3. c \in DOMAIN k /\ c \notin E /\ c \in Nat /\ k[c].size \in Nat /\ Tile(k, F, E)
    BY <1>1, GoodParts
  <1>4. c \notin none /\ \A x : x \in W <=> x \in none \/ x = c  BY <1>1
  <1>5. Good(d, P, W, none, none) /\ d.blk = k  BY <1>1, <1>4, RemoveGood
  <1>6. Row3(k, b, c, y)  BY <1>1, <1>2, <1>3, RowOf
  <1>7. k = d.blk /\ Blocks(d)  BY <1>5 DEF Good
  <1>8. Reblocked(d, g, j) /\ IsFused(k, b, FALSE, j)
    BY <1>1, <1>2, <1>6, <1>7, GrownIs
  <1>9. PICK no \in BOOLEAN : no = FALSE  OBVIOUS
  <1>10. k[b].free = no
    <2>1. k[b].free \in BOOLEAN  BY <1>2, <1>3, HeaderIs
    <2> QED BY <1>2, <1>9, <2>1
  <1>11. FuseSets(b, c, no, W, none, none, none, none)  BY <1>1, <1>9 DEF FuseSets
  <1>12. Good(g, P, none, none, none) /\ UsedBut(k, j, P, b) /\ FuseSays(k, b, no, c, j)
    <2>1. /\ b \in DOMAIN d.blk /\ b \notin Stops(P) /\ c = Nxt(d.blk, b)
          /\ c \in FreeSet(d.blk) /\ d.blk[b].free = no /\ Reblocked(d, g, g.blk)
          /\ IsFused(d.blk, b, no, g.blk)
      BY <1>1, <1>2, <1>7, <1>8, <1>9, <1>10
    <2>2. /\ Good(g, P, none, none, none) /\ UsedBut(d.blk, g.blk, P, b)
          /\ FuseSays(d.blk, b, no, c, g.blk)
      BY <1>5, <1>11, <2>1, FuseGood
    <2> QED BY <1>1, <1>7, <2>2
  <1>13. j[b].size = k[b].size + 1 + k[c].size /\ k[b].size \in Nat /\ k[c].size \in Nat
    BY <1>6, <1>12 DEF FuseSays, Row3
  <1>14. Size(g, b) \in Nat /\ Size(g, b) >= n  BY <1>1, <1>13 DEF Size
  <1>15. Good(g, P, {}, {}, {})  BY <1>1, <1>12
  <1> QED BY <1>1, <1>12, <1>14, <1>15 DEF Resized, UsedBut

LEMMA ReallocGood ==
    ASSUME NEW h, NEW P, Good(h, P, {}, {}, {}), NEW b \in Used(h.blk, P),
           NEW n \in Nat, n >= BlockSizeMin, ~MustMove(h, b, n),
           NEW g, g = ReallocInPlace(h, b, n)
    PROVE  Resized(h, P, b, n, g)
  <1> DEFINE c == Nxt(h.blk, b)
             e == MarkAsUsed(MergeNext(h, b), b)
  <1>1. n >= 3 /\ c = BlockNext(h, b)
    BY DEF BlockSizeMin, HeaderSize, BlockNext, Nxt, Size, HeaderOverhead
  <1>2. c = Nxt(h.blk, b) /\ e = MarkAsUsed(MergeNext(h, b), b)  OBVIOUS
  <1>3. b \in DOMAIN h.blk /\ b \notin Stops(P) /\ Tile(h.blk, Firsts(P), Stops(P))
    BY DEF Used, Good
  <1> HIDE DEF c, e
  <1>4. NextIs(h.blk, Firsts(P), b, c)  BY <1>2, <1>3, NextOf
  <1>5. c \in DOMAIN h.blk /\ Size(h, b) \in Nat  BY <1>4 DEF NextIs, Size
  <1>5a. Size(h, c) \in Nat  BY <1>3, <1>5, HeaderIs DEF Size
  <1>6. CASE n <= Size(h, b)
    <2>1. g = TrimUsed(h, b, n)  BY <1>5, <1>6 DEF ReallocInPlace
    <2> QED BY <1>1, <1>6, <2>1, TrimUsedGood
  <1>7. CASE n > Size(h, b)
    <2>1. g = TrimUsed(e, b, n)  BY <1>2, <1>7 DEF ReallocInPlace
    <2>2. h.blk[c].free /\ ~(n > Size(h, b) + Size(h, c) + HeaderOverhead)
      BY <1>1, <1>7 DEF MustMove
    <2>3. n <= Size(h, b) + 1 + Size(h, c)  BY <1>5, <1>5a, <2>2 DEF HeaderOverhead
    <2>4. c \in FreeSet(h.blk)  BY <1>5, <2>2 DEF FreeSet
    <2>5. MergeNext(h, b) = Absorb(BlockRemove(h, c), b, c)  BY <1>1, <2>2 DEF MergeNext
    <2>6. Resized(h, P, b, n, e)  BY <1>2, <2>3, <2>4, <2>5, GrowGood
    <2>7. /\ Good(e, P, {}, {}, {}) /\ Size(e, b) \in Nat /\ Size(e, b) >= n
          /\ Used(e.blk, P) = Used(h.blk, P)
          /\ \A x \in Used(h.blk, P) : x # b => e.blk[x].size = h.blk[x].size
      BY <2>6 DEF Resized
    <2>8. b \in Used(e.blk, P) /\ n <= Size(e, b)  BY <2>7
    <2>9. Resized(e, P, b, n, g)  BY <1>1, <2>1, <2>7, <2>8, TrimUsedGood
    <2> QED BY <2>7, <2>9 DEF Resized
  <1> QED BY <1>5, <1>6, <1>7

(***************************************************************************)
(* tlsf_malloc and tlsf_memalign.                                          *)
(***************************************************************************)
\* Either no block is found and nothing changes, or b is the caller's.
Served(h, P, b, n, g) ==
    \/ b = NoBlock /\ g = h
    \/ b # NoBlock /\ n >= 1 /\ Taken(h, P, b, n, g)

\* After block_locate_free: a block was found, of at least m words.
Found(h, P, b, m, f) ==
    /\ b # NoBlock /\ b \in FreeSet(h.blk) /\ b \in Nat /\ m >= 1 /\ m <= Size(h, b)
    /\ Size(h, b) \in Nat /\ f.blk = h.blk /\ Good(f, P, {b}, {}, {})

LEMMA LocateServes ==
    ASSUME NEW h, NEW P, Good(h, P, {}, {}, {}), NEW m \in Nat, m < BlockSizeMax,
           NEW b, b = Located(h, m), b # NoBlock, NEW f, f = LocateFree(h, m)
    PROVE  Found(h, P, b, m, f)
  <1> DEFINE none == {}
  <1>1. Good(h, P, none, none, none)  OBVIOUS
  <1>2. /\ b \in FreeSet(h.blk) /\ m >= 1 /\ m <= Size(h, b) /\ f.blk = h.blk
        /\ Good(f, P, {b}, {}, {})
    BY LocateGood
  <1> HIDE DEF none
  <1>3. b \in Nat /\ Size(h, b) \in Nat  BY <1>1, <1>2, GoodParts DEF Size
  <1> QED BY <1>2, <1>3 DEF Found

LEMMA TakenSame ==
    ASSUME NEW h, NEW f, f.blk = h.blk, NEW P, NEW b, NEW n, NEW g, Taken(f, P, b, n, g)
    PROVE  Taken(h, P, b, n, g)
  BY DEF Taken

LEMMA MallocGood ==
    ASSUME NEW h, NEW P, Good(h, P, {}, {}, {}), NEW n \in Nat, n < BlockSizeMax,
           n = 0 \/ n >= BlockSizeMin
    PROVE  Served(h, P, Located(h, n), n, Malloc(h, n))
  <1> DEFINE b == Located(h, n)
             f == LocateFree(h, n)
             g == Malloc(h, n)
             none == {}
  <1>1. /\ b = Located(h, n) /\ f = LocateFree(h, n) /\ none = {}
        /\ (b = NoBlock => g = h) /\ (b # NoBlock => g = PrepareUsed(f, b, n))
    BY DEF Malloc
  <1> HIDE DEF b, f, g, none
  <1>2. CASE b = NoBlock  BY <1>1, <1>2 DEF Served, b, g
  <1>3. CASE b # NoBlock
    <2>1. Found(h, P, b, n, f)  BY <1>1, <1>3, LocateServes
    <2>2. /\ n >= 1 /\ n <= Size(h, b) /\ f.blk = h.blk /\ Good(f, P, {b}, {}, {})
      BY <2>1 DEF Found
    <2>3. n >= BlockSizeMin  BY <2>2
    <2>4. n <= Size(f, b)  BY <2>2 DEF Size
    <2>5. Good(f, P, {b}, {}, none) /\ none \subseteq {b} /\ g = PrepareUsed(f, b, n)
      BY <1>1, <1>3, <2>2
    <2>6. Taken(f, P, b, n, g)  BY <2>3, <2>4, <2>5, PrepareGood
    <2>7. Taken(h, P, b, n, g)  BY <2>2, <2>6, TakenSame
    <2> QED BY <1>3, <2>2, <2>7 DEF Served, b, g
  <1> QED BY <1>2, <1>3

\* A block of m words is found for n words behind a gap of a words at most.
Roomy(n, a, m) ==
    /\ m \in Nat /\ m < BlockSizeMax
    /\ m # 0 => n # 0 /\ m >= n /\ m >= 1 /\ (a > 1 => m >= n + a + HeaderSize)

LEMMA LeadTaken ==
    ASSUME NEW h, NEW P, NEW b, NEW z \in Nat, NEW f, Found(h, P, b, z, f),
           NEW n \in Nat, n >= BlockSizeMin, NEW u \in Nat, u >= HeaderSize,
           z >= n + u + 1, NEW m, m = Trimmed(h, b, u), CanSplit(h, b, u),
           NEW g, g = PrepareUsed(TrimFreeLeading(f, b, u), m, n)
    PROVE  m # NoBlock /\ Taken(h, P, m, n, g)
  <1> DEFINE e == TrimFreeLeading(f, b, u)
             R == {m}
             v == Size(f, b) - u
  <1>1. /\ b \in Nat /\ b \in FreeSet(h.blk) /\ z <= Size(h, b) /\ Size(h, b) \in Nat
        /\ f.blk = h.blk /\ Good(f, P, {b}, {}, {})
    BY DEF Found
  <1>2. Size(f, b) = Size(h, b) /\ CanSplit(f, b, u) /\ m = Trimmed(f, b, u)
    BY <1>1 DEF Size, CanSplit, Trimmed
  <1>3. e = TrimFreeLeading(f, b, u) /\ R = {m} /\ v = Size(f, b) - u
        /\ g = PrepareUsed(e, m, n)
    OBVIOUS
  <1> HIDE DEF e, R, v
  <1>4. LeadTrims(f, P, m, v, e)
    BY <1>1, <1>2, <1>3, LeadGood
  <1>5. Good(e, P, {m}, {}, {m}) /\ UsedKept(f.blk, e.blk, P) /\ Size(e, m) = v
    BY <1>4 DEF LeadTrims
  <1>6. n <= Size(e, m)  BY <1>1, <1>2, <1>3, <1>5
  <1>7. Good(e, P, {m}, {}, R) /\ R \subseteq {m}  BY <1>3, <1>5
  <1>8. Taken(e, P, m, n, g)  BY <1>3, <1>6, <1>7, PrepareGood
  <1>9. Taken(h, P, m, n, g)
    BY <1>1, <1>5, <1>8 DEF Taken, UsedKept
  <1>10. m # NoBlock
    <2>1. m = b + 1 + (u - 1)
      BY <1>1 DEF Trimmed, Remaining, HeaderOverhead
    <2>2. m >= 1  BY <1>1, <2>1 DEF HeaderSize
    <2> QED BY <2>2 DEF NoBlock
  <1> QED BY <1>9, <1>10

LEMMA MemalignGood ==
    ASSUME NEW h, NEW P, Good(h, P, {}, {}, {}), NEW n \in Nat, n < BlockSizeMax,
           n = 0 \/ n >= BlockSizeMin, NEW a \in Nat, a >= 1
    PROVE  Served(h, P, MemalignBlock(h, a, n), n, Memalign(h, a, n))
  <1> DEFINE z == AlignedSize(n, a)
             b == Located(h, z)
             f == LocateFree(h, z)
             u == Gap(b, a)
             m == MemalignBlock(h, a, n)
             g == Memalign(h, a, n)
             none == {}
  <1>1. /\ z = AlignedSize(n, a) /\ b = Located(h, z) /\ f = LocateFree(h, z)
        /\ u = Gap(b, a) /\ none = {}
    OBVIOUS
  <1>2. /\ b = NoBlock => m = b /\ g = h
        /\ b # NoBlock /\ u = 0 => m = b /\ g = PrepareUsed(f, m, n)
        /\ b # NoBlock /\ u # 0 =>
               m = Trimmed(h, b, u) /\ g = PrepareUsed(TrimFreeLeading(f, b, u), m, n)
    BY DEF MemalignBlock, Memalign
  <1>3. Roomy(n, a, z)  BY AlignedFits DEF Roomy
  <1> HIDE DEF z, b, f, u, m, g, none
  <1>4. CASE b = NoBlock
    <2>1. Served(h, P, m, n, g)  BY <1>2, <1>4 DEF Served
    <2> QED BY <2>1 DEF m, g
  <1>5. CASE b # NoBlock
    <2>1. z \in Nat /\ z < BlockSizeMax  BY <1>3 DEF Roomy
    <2>2. Found(h, P, b, z, f)  BY <1>1, <1>5, <2>1, LocateServes
    <2>3. /\ b \in Nat /\ z >= 1 /\ z <= Size(h, b) /\ Size(h, b) \in Nat
          /\ f.blk = h.blk /\ Good(f, P, {b}, {}, {})
      BY <2>2 DEF Found
    <2>4. n # 0 /\ z >= n /\ (a > 1 => z >= n + a + HeaderSize)
      BY <1>3, <2>3 DEF Roomy
    <2>5. n >= BlockSizeMin /\ n >= 1  BY <2>4
    <2>6. u \in Nat /\ (u = 0 \/ u >= HeaderSize) /\ u < a + HeaderSize
      BY <1>1, <2>3, GapIs
    <2>7. CASE u = 0
      <3>1. m = b /\ g = PrepareUsed(f, b, n)  BY <1>2, <1>5, <2>7
      <3>2. n <= Size(f, b)
        <4>1. n <= Size(h, b)  BY <2>1, <2>3, <2>4
        <4> QED BY <2>3, <4>1 DEF Size
      <3>3. Good(f, P, {b}, {}, none) /\ none \subseteq {b}  BY <1>1, <2>3
      <3>4. Taken(f, P, b, n, g)  BY <2>5, <3>1, <3>2, <3>3, PrepareGood
      <3>5. Taken(h, P, b, n, g)  BY <2>3, <3>4, TakenSame
      <3>6. Served(h, P, m, n, g)  BY <1>5, <2>5, <3>1, <3>5 DEF Served
      <3> QED BY <3>6 DEF m, g
    <2>8. CASE u # 0
      <3>1. m = Trimmed(h, b, u) /\ g = PrepareUsed(TrimFreeLeading(f, b, u), m, n)
        BY <1>2, <1>5, <2>8
      <3>2. a > 1
        <4>1. CASE a = 1
          <5>1. u = 0  BY <1>1, <2>3, <4>1, NoGap
          <5> QED BY <2>8, <5>1
        <4> QED BY <4>1
      <3>3. u >= HeaderSize /\ z >= n + u + 1  BY <2>1, <2>4, <2>6, <2>8, <3>2 DEF HeaderSize
      <3>4. CanSplit(h, b, u)
        <4>1. n >= 3  BY <2>5 DEF BlockSizeMin, HeaderSize
        <4>2. Size(h, b) >= HeaderSize + u
          BY <2>1, <2>3, <2>6, <3>3, <4>1 DEF HeaderSize
        <4> QED BY <4>2 DEF CanSplit
      <3>5. m # NoBlock /\ Taken(h, P, m, n, g)
        BY <2>1, <2>2, <2>5, <2>6, <3>1, <3>3, <3>4, LeadTaken
      <3>6. Served(h, P, m, n, g)  BY <2>5, <3>5 DEF Served
      <3> QED BY <3>6 DEF m, g
    <2> QED BY <2>7, <2>8
  <1> QED BY <1>4, <1>5

(***************************************************************************)
(* tlsf_add_pool and tlsf_remove_pool.                                     *)
(***************************************************************************)
LEMMA EmptyFiled == Filed(EmptyHeap, {})
  <1> DEFINE h == EmptyHeap
             none == {}
             row == [sl \in Cols |-> <<>>]
  <1>1. /\ h = [blk |-> [b \in {} |-> 0], flMap |-> {}, slMap |-> [fl \in Rows |-> {}],
               list |-> [fl \in Rows |-> row]]
    BY DEF EmptyHeap, Rows, Cols
  <1>2. row \in [Cols -> Seq(Int)] /\ \A j \in Cols : row[j] = <<>>  OBVIOUS
  <1> HIDE DEF row
  <1>3. /\ h.flMap = {} /\ h.slMap = [fl \in Rows |-> {}] /\ h.list = [fl \in Rows |-> row]
        /\ h = [blk |-> h.blk, flMap |-> h.flMap, slMap |-> h.slMap, list |-> h.list]
    BY <1>1
  <1>4. /\ h.list \in [Rows -> [Cols -> Seq(Int)]] /\ h.slMap \in [Rows -> SUBSET Cols]
        /\ h.flMap \in SUBSET Rows
    BY <1>2, <1>3
  <1>5. /\ \A i \in Rows : h.slMap[i] = {}
        /\ \A i \in Rows, j \in Cols : h.list[i][j] = <<>>
    BY <1>2, <1>3
  <1> HIDE DEF h
  <1>6. IsHeap(h)  BY <1>3, <1>4 DEF IsHeap
  <1>7. MapsExact(h)  BY <1>3, <1>5 DEF MapsExact
  <1>8. DOMAIN <<>> = {}  OBVIOUS
  <1>9. \A i \in Rows, j \in Cols : ListExact(h, i, j, none)
    BY <1>5, <1>8 DEF ListExact, Once, Holds
  <1>10. Filed(h, none)  BY <1>6, <1>7, <1>9 DEF Filed
  <1> QED BY <1>10 DEF h

\* The heap before the first pool.
LEMMA EmptyGood == Good(EmptyHeap, {}, {}, {}, {})
  <1> DEFINE h == EmptyHeap
             k == h.blk
             none == {}
  <1>1. k = [b \in {} |-> 0]  BY DEF EmptyHeap
  <1>2. Filed(h, none)  BY EmptyFiled
  <1> HIDE DEF h
  <1>3. DOMAIN k = none /\ k \in [DOMAIN k -> Headers]  BY <1>1
  <1>4. Blocks(h)  BY <1>2, <1>3 DEF Filed, IsHeap, Blocks, Shape
  <1> HIDE DEF k
  <1>5. Firsts(none) = none /\ Stops(none) = none  BY DEF Firsts, Stops
  <1>6. Tile(k, none, none) /\ Homed(DOMAIN k, none) /\ NoPair(k, none, none, none)
    BY <1>3 DEF Tile, Homed, NoPair
  <1>7. FreeSet(k) = none  BY <1>3 DEF FreeSet
  <1>8. k = h.blk /\ none \subseteq Pools /\ FreeSet(k) \ none = none  BY <1>7 DEF k
  <1> HIDE DEF none
  <1>9. Good(h, none, none, none, none)
    BY <1>2, <1>4, <1>5, <1>6, <1>7, <1>8 DEF Good
  <1> QED BY <1>9 DEF none, h

\* No block of k is, or reaches, between b and l.
Clear(k, E, b, l) ==
    /\ \A x \in DOMAIN k : x < b \/ x > l
    /\ \A x \in DOMAIN k \ E : Nxt(k, x) < b \/ x > l

LEMMA ClearIs ==
    ASSUME NEW P, P \subseteq Pools, NEW k, Tile(k, Firsts(P), Stops(P)), Homed(DOMAIN k, P),
           NEW p \in Pools, p \notin P
    PROVE  Clear(k, Stops(P), First(p), Stop(p))
  <1> DEFINE b == First(p)
             l == Stop(p)
             F == Firsts(P)
             E == Stops(P)
  <1>1. b = First(p) /\ l = Stop(p) /\ F = Firsts(P) /\ E = Stops(P) /\ b \in Nat /\ l \in Nat
    BY PoolIs
  <1> HIDE DEF b, l, F, E
  <1>2. ASSUME NEW x \in DOMAIN k PROVE x < b \/ x > l
    <2>1. PICK q \in P : First(q) <= x /\ x <= Stop(q)  BY DEF Homed
    <2>2. q \in Pools /\ q # p  OBVIOUS
    <2>3. First(q) \in Nat /\ Stop(q) \in Nat  BY <2>2, PoolIs
    <2>4. Stop(q) < b \/ l < First(q)  BY <1>1, <2>2, PoolsApart
    <2>5. x \in Nat  BY <1>1, HeaderIs
    <2> QED BY <1>1, <2>1, <2>3, <2>4, <2>5
  <1>3. ASSUME NEW x \in DOMAIN k \ E PROVE Nxt(k, x) < b \/ x > l
    <2>1. PICK q \in P : /\ First(q) \in Nat /\ Stop(q) \in Nat /\ First(q) <= x
                         /\ Nxt(k, x) <= Stop(q)
      BY <1>1, HomeIs
    <2>2. q \in Pools /\ q # p  OBVIOUS
    <2>3. Stop(q) < b \/ l < First(q)  BY <1>1, <2>2, PoolsApart
    <2>4. x \in Nat /\ Nxt(k, x) \in Nat  BY <1>1, HeaderIs
    <2> QED BY <1>1, <2>1, <2>3, <2>4
  <1> QED BY <1>1, <1>2, <1>3 DEF Clear

\* j is k with a free block b and a sentinel l behind it.
Enlarged(k, b, l, z, j) ==
    /\ j \in [DOMAIN k \union {b, l} -> Headers]
    /\ IsHdr(j[b], z, TRUE, FALSE, UserData)
    /\ IsHdr(j[l], 0, FALSE, TRUE, b)
    /\ \A x \in DOMAIN k : j[x] = k[x]

LEMMA EnlargedTile ==
    ASSUME NEW k, NEW F, NEW E, Tile(k, F, E), NEW b \in Nat, b >= 1, NEW z \in Nat, z >= 3,
           NEW l, l = b + 1 + z, Clear(k, E, b, l), NEW j, Enlarged(k, b, l, z, j),
           NEW F2, \A x : x \in F2 <=> x \in F \/ x = b,
           NEW E2, \A x : x \in E2 <=> x \in E \/ x = l
    PROVE  Tile(j, F2, E2)
  <1>1. /\ k \in [DOMAIN k -> Headers] /\ \A x \in DOMAIN k : x \in Nat /\ x # 0
        /\ F \subseteq DOMAIN k /\ E \subseteq DOMAIN k
        /\ \A e \in E : k[e].size = 0 /\ ~k[e].free
        /\ \A f \in F : ~k[f].prevFree /\ k[f].prev = UserData
        /\ \A x \in DOMAIN k \ F : \E y \in DOMAIN k \ E : Nxt(k, y) = x
    BY DEF Tile
  <1>2. /\ DOMAIN j = DOMAIN k \union {b, l} /\ j \in [DOMAIN j -> Headers]
        /\ j[b].size = z /\ j[b].free = TRUE /\ j[b].prevFree = FALSE /\ j[b].prev = UserData
        /\ j[l].size = 0 /\ j[l].free = FALSE /\ j[l].prevFree = TRUE /\ j[l].prev = b
        /\ \A x \in DOMAIN k : j[x] = k[x]
    BY DEF Enlarged, IsHdr
  <1>3. /\ \A x \in DOMAIN k : x < b \/ x > l
        /\ \A x \in DOMAIN k \ E : Nxt(k, x) < b \/ x > l
    BY DEF Clear
  <1>4. l \in Nat /\ l > b /\ b # l /\ l >= b + 4  OBVIOUS
  <1>5. b \notin DOMAIN k /\ l \notin DOMAIN k  BY <1>1, <1>3, <1>4
  <1>6. \A x \in DOMAIN k : Nxt(j, x) = Nxt(k, x)  BY <1>2 DEF Nxt
  <1>7. Nxt(j, b) = l  BY <1>2 DEF Nxt
  <1>8. DOMAIN j \subseteq Nat \ {0}  BY <1>1, <1>2, <1>4
  <1>9. F2 \subseteq DOMAIN j /\ E2 \subseteq DOMAIN j  BY <1>1, <1>2
  <1>10. \A e \in E2 : j[e].size = 0 /\ ~j[e].free
    <2> TAKE e \in E2
    <2>1. CASE e = l  BY <1>2, <2>1
    <2>2. CASE e # l  BY <1>1, <1>2, <2>2
    <2> QED BY <2>1, <2>2
  <1>11. \A f \in F2 : ~j[f].prevFree /\ j[f].prev = UserData
    <2> TAKE f \in F2
    <2>1. CASE f = b  BY <1>2, <2>1
    <2>2. CASE f # b  BY <1>1, <1>2, <2>2
    <2> QED BY <2>1, <2>2
  <1>12. \A x \in DOMAIN j \ E2 : Fitted(j, F2, x)
    <2> TAKE x \in DOMAIN j \ E2
    <2>1. CASE x = b
      <3>1. \A y \in DOMAIN j : y <= b \/ y >= l
        <4> TAKE y \in DOMAIN j
        <4>1. CASE y \in {b, l}  BY <1>4, <4>1
        <4>2. CASE y \in DOMAIN k  BY <1>1, <1>3, <1>4, <4>2
        <4> QED BY <1>2, <4>1, <4>2
      <3>2. l \notin F2  BY <1>1, <1>4, <1>5
      <3>3. Link(b, TRUE) = b  BY DEF Link
      <3>4. BlockSizeMin = 3  BY DEF BlockSizeMin, HeaderSize
      <3> QED BY <1>2, <1>7, <2>1, <3>1, <3>2, <3>3, <3>4 DEF Fitted
    <2>2. CASE x # b
      <3> DEFINE n == Nxt(k, x)
      <3>1. x \in DOMAIN k /\ x \notin E  BY <1>2, <2>2
      <3>2. NextIs(k, F, x, n)  BY <3>1, NextOf
      <3>3. Fitted(k, F, x)  BY <3>1 DEF Tile
      <3>4. Nxt(j, x) = n  BY <1>6, <3>1
      <3>5. x \in Nat /\ n \in Nat /\ n > x /\ n \in DOMAIN k /\ n \notin F
        BY <3>2 DEF NextIs
      <3>6. n \notin F2  BY <1>5, <3>5
      <3>7. \A y \in DOMAIN j : y <= x \/ y >= n
        <4> TAKE y \in DOMAIN j
        <4>1. CASE y \in {b, l}
          <5>1. n < b \/ x > l  BY <1>3, <3>1
          <5> QED BY <1>4, <3>5, <4>1, <5>1
        <4>2. CASE y \in DOMAIN k  BY <3>2, <4>2 DEF NextIs
        <4> QED BY <1>2, <4>1, <4>2
      <3>8. j[x] = k[x] /\ j[n] = k[n] /\ Nxt(j, x) = n /\ n \in DOMAIN j
        BY <1>2, <1>6, <3>1, <3>5
      <3>9. /\ k[x].size >= BlockSizeMin /\ k[n].prevFree = k[x].free
            /\ k[n].prev = Link(x, k[x].free)
        BY <3>3 DEF Fitted
      <3> HIDE DEF n
      <3> QED BY <3>6, <3>7, <3>8, <3>9 DEF Fitted
    <2> QED BY <2>1, <2>2
  <1>13. \A x \in DOMAIN j \ F2 : \E y \in DOMAIN j \ E2 : Nxt(j, y) = x
    <2> TAKE x \in DOMAIN j \ F2
    <2>1. CASE x = l
      <3>1. b \in DOMAIN j \ E2  BY <1>1, <1>2, <1>4, <1>5
      <3> QED BY <1>7, <2>1, <3>1
    <2>2. CASE x # l
      <3>1. x \in DOMAIN k \ F  BY <1>2, <2>2
      <3>2. PICK y \in DOMAIN k \ E : Nxt(k, y) = x  BY <1>1, <3>1
      <3>3. y \in DOMAIN j \ E2  BY <1>2, <1>5
      <3> QED BY <1>6, <3>2, <3>3
    <2> QED BY <2>1, <2>2
  <1> QED BY <1>2, <1>8, <1>9, <1>10, <1>11, <1>12, <1>13 DEF Tile

\* The pools are those of Q, and the used blocks are as they were.
Repooled(h, P, Q, g) ==
    /\ Good(g, Q, {}, {}, {}) /\ Used(g.blk, Q) = Used(h.blk, P)
    /\ \A x \in Used(h.blk, P) : g.blk[x].size = h.blk[x].size

\* g is h with the headers of a new pool, whose block is in no list yet.
Pooled(h, b, l, z, g) == Reblocked(h, g, g.blk) /\ Enlarged(h.blk, b, l, z, g.blk)

LEMMA PooledIs ==
    ASSUME NEW h, Blocks(h), NEW p \in Pools,
           First(p) \notin DOMAIN h.blk, Stop(p) \notin DOMAIN h.blk, NEW g, g = AddPool(h, p)
    PROVE  \E e : Pooled(h, First(p), Stop(p), PoolSize(p), e) /\ g = BlockInsert(e, First(p))
  <1> DEFINE k == h.blk
             b == First(p)
             l == Stop(p)
             z == PoolSize(p)
             u == [size |-> z, free |-> TRUE, prevFree |-> FALSE, prev |-> UserData]
             v == [size |-> 0, free |-> FALSE, prevFree |-> TRUE, prev |-> b]
             D == DOMAIN k \union {b, l}
             j == [x \in D |-> CASE x = b -> u [] x = l -> v [] OTHER -> k[x]]
             e == [h EXCEPT !.blk = j]
  <1>1. b = PoolBlock(p) /\ l = b + HeaderOverhead + PoolSize(p) /\ z \in Nat /\ b \in Nat
        /\ l \in Nat /\ l # b
    BY PoolIs DEF HeaderOverhead
  <1>2. g = BlockInsert(e, b)
    BY <1>1 DEF AddPool
  <1>3. UserData \in Int  BY DEF UserData
  <1>4. IsHdr(u, z, TRUE, FALSE, UserData) /\ IsHdr(v, 0, FALSE, TRUE, b)
    BY <1>1, <1>3 DEF IsHdr, Headers
  <1>5. k \in [DOMAIN k -> Headers] /\ Shape(h)  BY DEF Blocks
  <1>6. b \notin DOMAIN k /\ l \notin DOMAIN k  OBVIOUS
  <1> HIDE DEF u, v, k, b, l, z
  <1>7. u \in Headers /\ v \in Headers  BY <1>4 DEF IsHdr
  <1>8. j \in [D -> Headers]  BY <1>5, <1>7
  <1>9. j[b] = u /\ j[l] = v /\ \A x \in DOMAIN k : j[x] = k[x]  BY <1>1, <1>6
  <1>10. D = DOMAIN k \union {b, l} /\ e = [h EXCEPT !.blk = j]  OBVIOUS
  <1> HIDE DEF j, D, e
  <1>11. Reblocked(h, e, j)  BY <1>5, <1>8, <1>10, Reblock
  <1>12. e.blk = j  BY <1>11 DEF Reblocked
  <1>13. Enlarged(k, b, l, z, j)  BY <1>4, <1>8, <1>9, <1>10 DEF Enlarged
  <1>14. Pooled(h, b, l, z, e)  BY <1>11, <1>12, <1>13 DEF Pooled, k
  <1> QED BY <1>2, <1>14 DEF b, l, z

LEMMA AddPoolGood ==
    ASSUME NEW h, NEW P, Good(h, P, {}, {}, {}), NEW p \in Pools, p \notin P,
           NEW Q, Q = P \union {p}, NEW g, g = AddPool(h, p)
    PROVE  Repooled(h, P, Q, g)
  <1> DEFINE k == h.blk
             F == Firsts(P)
             E == Stops(P)
             F2 == Firsts(Q)
             E2 == Stops(Q)
             b == First(p)
             l == Stop(p)
             z == PoolSize(p)
             none == {}
             V == {b}
  <1>1. /\ k = h.blk /\ F = Firsts(P) /\ E = Stops(P) /\ F2 = Firsts(Q) /\ E2 = Stops(Q)
        /\ b = First(p) /\ l = Stop(p) /\ z = PoolSize(p) /\ none = {} /\ V = {b}
        /\ Good(h, P, none, none, none) /\ Q = P \union {p}
    OBVIOUS
  <1>2. b \in Nat /\ b >= 1 /\ l \in Nat /\ l = b + 1 + z /\ z \in Nat /\ z >= 3
    BY PoolIs DEF BlockSizeMin, HeaderSize
  <1>3. /\ \A x : x \in F2 <=> x \in F \/ x = b
        /\ \A x : x \in E2 <=> x \in E \/ x = l
    BY DEF Firsts, Stops
  <1> HIDE DEF k, F, E, F2, E2, b, l, z, none, V
  <1>4. /\ P \subseteq Pools /\ Blocks(h) /\ Tile(k, F, E) /\ Homed(DOMAIN k, P)
        /\ NoPair(k, E, none, none)
    BY <1>1 DEF Good
  <1>5. Clear(k, E, b, l)  BY <1>1, <1>4, ClearIs
  <1>6. b \notin DOMAIN k /\ l \notin DOMAIN k
    <2>1. \A x \in DOMAIN k : x < b \/ x > l  BY <1>5 DEF Clear
    <2> QED BY <1>2, <2>1
  <1>7. PICK e : Pooled(h, b, l, z, e) /\ g = BlockInsert(e, b)
    BY <1>1, <1>4, <1>6, PooledIs
  <1> DEFINE j == e.blk
  <1>8. Reblocked(h, e, j) /\ Enlarged(k, b, l, z, j) /\ j = e.blk  BY <1>1, <1>7 DEF Pooled
  <1> HIDE DEF j
  <1>9. Tile(j, F2, E2)  BY <1>2, <1>3, <1>4, <1>5, <1>8, EnlargedTile
  <1>10. /\ DOMAIN j = DOMAIN k \union {b, l} /\ j[b].free = TRUE /\ j[l].free = FALSE
         /\ j[b].size = z /\ \A x \in DOMAIN k : j[x] = k[x]
    BY <1>8 DEF Enlarged, IsHdr
  <1>11. Q \subseteq Pools  BY <1>1, <1>4
  <1>12. Homed(DOMAIN j, Q)
    <2> SUFFICES ASSUME NEW x \in DOMAIN j PROVE \E q \in Q : First(q) <= x /\ x <= Stop(q)
      BY DEF Homed
    <2>1. CASE x \in DOMAIN k  BY <1>1, <1>4, <2>1 DEF Homed
    <2>2. CASE x \in {b, l}
      <3>1. p \in Q  BY <1>1
      <3>2. First(p) <= x /\ x <= Stop(p)  BY <1>1, <1>2, <2>2
      <3> QED BY <3>1, <3>2
    <2> QED BY <1>10, <2>1, <2>2
  <1>13. NoPair(j, E2, none, none)
    <2> SUFFICES ASSUME NEW x \in DOMAIN j \ E2, j[x].free, j[Nxt(j, x)].free
                 PROVE  FALSE
      BY DEF NoPair
    <2>1. CASE x = b
      <3>1. Nxt(j, x) = l  BY <1>2, <1>10, <2>1 DEF Nxt
      <3> QED BY <1>10, <3>1
    <2>2. CASE x # b
      <3> DEFINE y == Nxt(k, x)
      <3>1. x \in DOMAIN k /\ x \notin E /\ j[x] = k[x]  BY <1>3, <1>10, <2>2
      <3>2. Nxt(j, x) = y  BY <3>1 DEF Nxt
      <3>3. NextIs(k, F, x, y)  BY <1>4, <3>1, NextOf
      <3>4. y \in DOMAIN k  BY <3>3 DEF NextIs
      <3>5. k[x].free /\ k[y].free  BY <1>10, <3>1, <3>2, <3>4
      <3> QED BY <1>1, <1>4, <3>1, <3>5 DEF NoPair
    <2> QED BY <2>1, <2>2
  <1>14. Refiled(k, none, j, V)
    <2>1. V \subseteq FreeSet(j)  BY <1>1, <1>10 DEF FreeSet
    <2>2. ASSUME NEW x
          PROVE  x \in FreeSet(j) /\ x \notin V <=> x \in FreeSet(k) /\ x \notin none
      <3>1. CASE x \in DOMAIN k  BY <1>1, <1>6, <1>10, <3>1 DEF FreeSet
      <3>2. CASE x \notin DOMAIN k  BY <1>1, <1>10, <3>2 DEF FreeSet
      <3> QED BY <3>1, <3>2
    <2>3. \A x \in FreeSet(k) : j[x].size = k[x].size  BY <1>10 DEF FreeSet
    <2> QED BY <2>1, <2>2, <2>3 DEF Refiled
  <1>15. Good(e, Q, V, none, none)
    BY <1>1, <1>4, <1>8, <1>9, <1>11, <1>12, <1>13, <1>14, ReblockGood
  <1>16. b \in V /\ \A x : x \in none <=> x \in V /\ x # b  BY <1>1
  <1>17. Good(g, Q, none, none, none) /\ g.blk = j  BY <1>7, <1>8, <1>15, <1>16, InsertGood
  <1>18. Used(j, Q) = Used(k, P)
    <2>1. ASSUME NEW x PROVE x \in Used(j, Q) <=> x \in Used(k, P)
      <3>1. CASE x \in DOMAIN k  BY <1>1, <1>3, <1>6, <1>10, <3>1 DEF Used
      <3>2. CASE x \notin DOMAIN k  BY <1>1, <1>3, <1>10, <3>2 DEF Used
      <3> QED BY <3>1, <3>2
    <2> QED BY <2>1
  <1>19. \A x \in Used(k, P) : j[x].size = k[x].size  BY <1>10 DEF Used
  <1>20. Good(g, Q, {}, {}, {})  BY <1>1, <1>17
  <1> QED BY <1>1, <1>17, <1>18, <1>19, <1>20 DEF Repooled

\* j is k without a pool that was one free block b and its sentinel l.
Shrunk(k, b, l, j) == j = [x \in DOMAIN k \ {b, l} |-> k[x]]

\* The first blocks and the sentinels that are left.
ShrunkEnds(F, E, b, l, F2, E2) ==
    /\ \A x : x \in F2 <=> x \in F /\ x # b
    /\ \A x : x \in E2 <=> x \in E /\ x # l

LEMMA ShrunkTile ==
    ASSUME NEW k, NEW F, NEW E, Tile(k, F, E), NEW b \in F, b \notin E,
           NEW l \in E, l = Nxt(k, b), NEW j, Shrunk(k, b, l, j),
           NEW F2, NEW E2, ShrunkEnds(F, E, b, l, F2, E2)
    PROVE  Tile(j, F2, E2)
  <1>0. /\ \A x : x \in F2 <=> x \in F /\ x # b
        /\ \A x : x \in E2 <=> x \in E /\ x # l
    BY DEF ShrunkEnds
  <1>1. /\ k \in [DOMAIN k -> Headers] /\ DOMAIN k \subseteq Nat \ {0}
        /\ F \subseteq DOMAIN k /\ E \subseteq DOMAIN k
        /\ \A e \in E : k[e].size = 0 /\ ~k[e].free
        /\ \A f \in F : ~k[f].prevFree /\ k[f].prev = UserData
        /\ \A x \in DOMAIN k \ F : \E y \in DOMAIN k \ E : Nxt(k, y) = x
    BY DEF Tile
  <1>2. NextIs(k, F, b, l)  BY <1>1, NextOf
  <1>3. l \notin F /\ b \in DOMAIN k /\ l \in DOMAIN k  BY <1>1, <1>2 DEF NextIs
  <1>4. /\ DOMAIN j = DOMAIN k \ {b, l} /\ \A x \in DOMAIN j : j[x] = k[x]
    BY DEF Shrunk
  <1>5. j \in [DOMAIN j -> Headers]
    <2>1. \A x \in DOMAIN j : k[x] \in Headers  BY <1>1, <1>4
    <2>2. j = [x \in DOMAIN j |-> k[x]]  BY <1>4 DEF Shrunk
    <2> QED BY <2>1, <2>2
  <1>6. \A x \in DOMAIN j : Nxt(j, x) = Nxt(k, x)  BY <1>4 DEF Nxt
  <1>7. DOMAIN j \subseteq Nat \ {0}  BY <1>1, <1>4
  <1>8. F2 \subseteq DOMAIN j /\ E2 \subseteq DOMAIN j  BY <1>0, <1>1, <1>3, <1>4
  <1>9. \A e \in E2 : j[e].size = 0 /\ ~j[e].free  BY <1>0, <1>1, <1>4, <1>8
  <1>10. \A f \in F2 : ~j[f].prevFree /\ j[f].prev = UserData  BY <1>0, <1>1, <1>4, <1>8
  <1>11. \A x \in DOMAIN j \ E2 : Fitted(j, F2, x)
    <2> TAKE x \in DOMAIN j \ E2
    <2> DEFINE n == Nxt(k, x)
    <2>1. x \in DOMAIN k /\ x \notin E /\ x # b  BY <1>0, <1>4
    <2>2. NextIs(k, F, x, n)  BY <2>1, NextOf
    <2>3. Fitted(k, F, x)  BY <2>1 DEF Tile
    <2>4. n \in DOMAIN k /\ n \notin F  BY <2>2 DEF NextIs
    <2>5. n # b  BY <2>4
    <2>6. n # l  BY <1>3, <2>1, NextOnce
    <2>7. n \in DOMAIN j /\ n \notin F2 /\ Nxt(j, x) = n /\ j[n] = k[n] /\ j[x] = k[x]
      BY <1>0, <1>4, <1>6, <2>4, <2>5, <2>6
    <2>8. /\ k[x].size >= BlockSizeMin /\ k[n].prevFree = k[x].free
          /\ k[n].prev = Link(x, k[x].free) /\ \A y \in DOMAIN k : y <= x \/ y >= n
      BY <2>3 DEF Fitted
    <2>9. \A y \in DOMAIN j : y <= x \/ y >= n  BY <1>4, <2>8
    <2> HIDE DEF n
    <2> QED BY <2>7, <2>8, <2>9 DEF Fitted
  <1>12. \A x \in DOMAIN j \ F2 : \E y \in DOMAIN j \ E2 : Nxt(j, y) = x
    <2> TAKE x \in DOMAIN j \ F2
    <2>1. x \in DOMAIN k \ F /\ x # l  BY <1>0, <1>4
    <2>2. PICK y \in DOMAIN k \ E : Nxt(k, y) = x  BY <1>1, <2>1
    <2>3. y # b /\ y # l  BY <2>1, <2>2
    <2>4. y \in DOMAIN j \ E2  BY <1>0, <1>4, <2>3
    <2> QED BY <1>6, <2>2, <2>4
  <1> QED BY <1>5, <1>7, <1>8, <1>9, <1>10, <1>11, <1>12 DEF Tile

LEMMA RemovePoolGood ==
    ASSUME NEW h, NEW P, Good(h, P, {}, {}, {}), NEW p \in P, PoolBlock(p) \in FreeSet(h.blk),
           Size(h, PoolBlock(p)) = PoolSize(p), NEW Q, Q = P \ {p}, NEW g, g = RemovePool(h, p)
    PROVE  Repooled(h, P, Q, g)
  <1> DEFINE k == h.blk
             F == Firsts(P)
             E == Stops(P)
             F2 == Firsts(Q)
             E2 == Stops(Q)
             b == First(p)
             l == Stop(p)
             none == {}
             W == {b}
             d == BlockRemove(h, b)
             D == DOMAIN k \ {b, l}
             j == [x \in D |-> k[x]]
  <1>1. /\ k = h.blk /\ F = Firsts(P) /\ E = Stops(P) /\ F2 = Firsts(Q) /\ E2 = Stops(Q)
        /\ b = First(p) /\ l = Stop(p) /\ none = {} /\ W = {b} /\ d = BlockRemove(h, b)
        /\ Good(h, P, none, none, none) /\ Q = P \ {p}
        /\ D = DOMAIN k \ {b, l} /\ j = [x \in D |-> k[x]]
    OBVIOUS
  <1>2. P \subseteq Pools /\ p \in Pools  BY DEF Good
  <1>3. /\ b \in Nat /\ b >= 1 /\ l \in Nat /\ l = b + 1 + PoolSize(p) /\ b = PoolBlock(p)
        /\ PoolSize(p) \in Nat /\ PoolSize(p) >= 3
    BY <1>2, PoolIs DEF BlockSizeMin, HeaderSize
  <1>4. b \in FreeSet(k) /\ k[b].size = PoolSize(p)  BY <1>3 DEF Size
  <1>5. l = Nxt(k, b) /\ l = BlockNext(h, b)
    BY <1>3, <1>4 DEF Nxt, BlockNext, Size, HeaderOverhead
  <1>6. g = [d EXCEPT !.blk = j]
    BY <1>3, <1>5 DEF RemovePool
  <1>7. \A q \in P : q # p => First(q) # b /\ Stop(q) # l
    <2> TAKE q \in P
    <2> HAVE q # p
    <2>1. First(q) \in Nat /\ Stop(q) \in Nat /\ First(q) <= Stop(q)
      BY <1>2, PoolIs
    <2>2. Stop(q) < First(p) \/ Stop(p) < First(q)  BY <1>2, PoolsApart
    <2> QED BY <1>3, <2>1, <2>2
  <1>8. /\ \A x : x \in F2 <=> x \in F /\ x # b
        /\ \A x : x \in E2 <=> x \in E /\ x # l
        /\ b \in F /\ l \in E
    BY <1>7 DEF Firsts, Stops
  <1> HIDE DEF k, F, E, F2, E2, b, l, none, W, d, D, j
  <1>9. /\ Blocks(h) /\ Tile(k, F, E) /\ Homed(DOMAIN k, P) /\ NoPair(k, E, none, none)
        /\ b \in DOMAIN k /\ b \notin E /\ k[b].free = TRUE
    <2>1. NoPair(k, E, none, none)  BY <1>1 DEF Good
    <2> QED BY <1>1, <1>4, <2>1, GoodParts
  <1>10. b \notin none /\ \A x : x \in W <=> x \in none \/ x = b  BY <1>1
  <1>11. Good(d, P, W, none, none) /\ d.blk = k  BY <1>1, <1>4, <1>10, RemoveGood
  <1>12. Shape(d) /\ k \in [DOMAIN k -> Headers]  BY <1>9, <1>11 DEF Good, Blocks, Tile
  <1>13. j \in [D -> Headers] /\ DOMAIN j = D /\ \A x \in D : j[x] = k[x]  BY <1>1, <1>12
  <1>14. Reblocked(d, g, j)  BY <1>6, <1>12, <1>13, Reblock
  <1>15. g.blk = j  BY <1>14 DEF Reblocked
  <1>16. Shrunk(k, b, l, j)  BY <1>1 DEF Shrunk
  <1>17. Tile(j, F2, E2)
    <2>1. ShrunkEnds(F, E, b, l, F2, E2)  BY <1>8 DEF ShrunkEnds
    <2> QED BY <1>5, <1>8, <1>9, <1>16, <2>1, ShrunkTile
  <1>18. NextIs(k, F, b, l)  BY <1>5, <1>9, NextOf
  <1>19. \A x \in DOMAIN k : x <= b \/ x >= l  BY <1>18 DEF NextIs
  <1>20. Homed(DOMAIN j, Q)
    <2> SUFFICES ASSUME NEW x \in DOMAIN j PROVE \E q \in Q : First(q) <= x /\ x <= Stop(q)
      BY DEF Homed
    <2>1. x \in DOMAIN k /\ x # b /\ x # l  BY <1>1, <1>13
    <2>2. PICK q \in P : First(q) <= x /\ x <= Stop(q)  BY <1>9, <2>1 DEF Homed
    <2>3. x \in Nat  BY <1>9, <2>1, HeaderIs
    <2>4. x < b \/ x > l  BY <1>3, <1>19, <2>1, <2>3
    <2>5. q # p
      <3> SUFFICES ASSUME q = p PROVE FALSE  OBVIOUS
      <3>1. b <= x /\ x <= l  BY <1>1, <2>2
      <3> QED BY <1>3, <2>3, <2>4, <3>1
    <2> QED BY <1>1, <2>2, <2>5
  <1>21. NoPair(j, E2, none, none)
    <2> SUFFICES ASSUME NEW x \in DOMAIN j \ E2, j[x].free, j[Nxt(j, x)].free
                 PROVE  FALSE
      BY DEF NoPair
    <2> DEFINE y == Nxt(k, x)
    <2>1. x \in DOMAIN k /\ x \notin E /\ x # b /\ j[x] = k[x]  BY <1>1, <1>8, <1>13
    <2>2. Nxt(j, x) = y  BY <2>1 DEF Nxt
    <2>3. NextIs(k, F, x, y)  BY <1>9, <2>1, NextOf
    <2>4. y \in DOMAIN k /\ y # b  BY <1>8, <2>3 DEF NextIs
    <2>5. y # l  BY <1>5, <1>9, <2>1, NextOnce
    <2>6. k[x].free /\ k[y].free  BY <1>1, <1>13, <2>1, <2>2, <2>4, <2>5
    <2> QED BY <1>1, <1>9, <2>1, <2>6 DEF NoPair
  <1>22. l \in DOMAIN k /\ k[l].free = FALSE /\ l # b
    <2>1. l \in DOMAIN k /\ ~k[l].free  BY <1>8, <1>9 DEF Tile
    <2>2. k[l].free \in BOOLEAN  BY <1>9, <2>1, HeaderIs
    <2> QED BY <1>8, <1>9, <2>1, <2>2
  <1>23. Refiled(k, W, j, none)
    <2>1. none \subseteq FreeSet(j)  BY <1>1
    <2>2. ASSUME NEW x
          PROVE  x \in FreeSet(j) /\ x \notin none <=> x \in FreeSet(k) /\ x \notin W
      <3>1. CASE x \in D  BY <1>1, <1>13, <3>1 DEF FreeSet
      <3>2. CASE x \notin D  BY <1>1, <1>13, <1>22, <3>2 DEF FreeSet
      <3> QED BY <3>1, <3>2
    <2>3. ASSUME NEW x \in FreeSet(k), x \notin W PROVE j[x].size = k[x].size
      <3>1. x \in D  BY <1>1, <1>22, <2>3 DEF FreeSet
      <3> QED BY <1>13, <3>1
    <2> QED BY <2>1, <2>2, <2>3 DEF Refiled
  <1>24. Good(g, Q, none, none, none)
    <2>1. Q \subseteq Pools  BY <1>1, <1>2
    <2> QED BY <1>1, <1>11, <1>14, <1>17, <1>20, <1>21, <1>23, <2>1, ReblockGood
  <1>25. Used(j, Q) = Used(k, P)
    <2>1. ASSUME NEW x PROVE x \in Used(j, Q) <=> x \in Used(k, P)
      <3>1. CASE x \in D  BY <1>1, <1>8, <1>13, <3>1 DEF Used
      <3>2. CASE x \notin D  BY <1>1, <1>8, <1>9, <1>13, <3>2 DEF Used
      <3> QED BY <3>1, <3>2
    <2> QED BY <2>1
  <1>26. \A x \in Used(k, P) : j[x].size = k[x].size
    <2> TAKE x \in Used(k, P)
    <2>1. x \in D  BY <1>1, <1>8, <1>9 DEF Used
    <2> QED BY <1>13, <2>1
  <1>27. Good(g, Q, {}, {}, {})  BY <1>1, <1>24
  <1> QED BY <1>1, <1>15, <1>25, <1>26, <1>27 DEF Repooled
--------------------------------------------------------------------------------
(***************************************************************************)
(* Who has the used blocks: H[c] are the regions c holds, and N[c] the     *)
(* block, if any, that c has given up and tlsf_free has yet to mark.       *)
(***************************************************************************)
RegionSet == [ptr : Nat, words : Nat]

Fits(k, P, r) ==
    /\ FromPtr(r.ptr) \in Used(k, P)
    /\ 1 <= r.words /\ r.words <= k[FromPtr(r.ptr)].size

Owns(k, P, H, N) ==
    /\ H \in [Callers -> SUBSET RegionSet] /\ N \in [Callers -> SUBSET Int]
    /\ \A c \in Callers : \A r \in H[c] : Fits(k, P, r)
    /\ \A c, d \in Callers : \A r \in H[c], s \in H[d] : r.ptr = s.ptr => c = d /\ r = s
    /\ \A c, d \in Callers : \A x \in N[c] : x \in Used(k, P) /\ (x \in N[d] => c = d)
    /\ \A c, d \in Callers : \A x \in N[c], r \in H[d] : FromPtr(r.ptr) # x
    /\ \A x \in Used(k, P) :
           \E c \in Callers : x \in N[c] \/ \E r \in H[c] : FromPtr(r.ptr) = x

\* The used blocks are the same.
LEMMA OwnsKept ==
    ASSUME NEW k, NEW P, NEW H, NEW N, Owns(k, P, H, N), NEW j, NEW Q,
           Used(j, Q) = Used(k, P), \A x \in Used(k, P) : j[x].size = k[x].size
    PROVE  Owns(j, Q, H, N)
  <1>1. \A r : Fits(k, P, r) => Fits(j, Q, r)  BY DEF Fits
  <1> QED BY <1>1 DEF Owns

\* A block becomes used and c holds its data.
LEMMA OwnsGain ==
    ASSUME NEW k, NEW P, NEW H, NEW N, Owns(k, P, H, N), NEW c \in Callers,
           NEW j, NEW b \in Nat, b \notin Used(k, P), Used(j, P) = Used(k, P) \union {b},
           \A x \in Used(k, P) : j[x].size = k[x].size,
           NEW n \in Nat, 1 <= n, n <= j[b].size,
           NEW r, r = [ptr |-> ToPtr(b), words |-> n],
           NEW G, G = [H EXCEPT ![c] = H[c] \union {r}]
    PROVE  Owns(j, P, G, N)
  <1>1. r \in RegionSet /\ FromPtr(r.ptr) = b /\ r.words = n /\ r.ptr = b + 2
    BY DEF RegionSet, FromPtr, ToPtr
  <1>2. /\ H \in [Callers -> SUBSET RegionSet] /\ N \in [Callers -> SUBSET Int]
        /\ \A d \in Callers : \A s \in H[d] : Fits(k, P, s) /\ s \in RegionSet
    BY DEF Owns
  <1>3. G \in [Callers -> SUBSET RegionSet]
        /\ \A d \in Callers : G[d] = IF d = c THEN H[c] \union {r} ELSE H[d]
    BY <1>1, <1>2
  <1>4. \A d \in Callers : \A s \in G[d] : s \in H[d] \/ (d = c /\ s = r)
    BY <1>3
  <1>5. \A s : Fits(k, P, s) => Fits(j, P, s) /\ FromPtr(s.ptr) # b
    BY DEF Fits
  <1>6. Fits(j, P, r)  BY <1>1 DEF Fits
  <1>7. \A d \in Callers : \A s \in H[d] : s.ptr # r.ptr /\ FromPtr(s.ptr) # b
    <2> TAKE d \in Callers
    <2> TAKE s \in H[d]
    <2>1. FromPtr(s.ptr) # b  BY <1>2, <1>5
    <2> QED BY <1>1, <2>1
  <1>8. \A d, e \in Callers : \A s \in G[d], t \in G[e] : s.ptr = t.ptr => d = e /\ s = t
    <2> TAKE d, e \in Callers
    <2> TAKE s \in G[d], t \in G[e]
    <2>1. s \in H[d] /\ t \in H[e] /\ s.ptr = t.ptr => d = e /\ s = t  BY DEF Owns
    <2> QED BY <1>4, <1>7, <2>1
  <1>9. \A d, e \in Callers : \A x \in N[d] : x \in Used(j, P) /\ (x \in N[e] => d = e)
    BY DEF Owns
  <1>10. \A d, e \in Callers : \A x \in N[d], s \in G[e] : FromPtr(s.ptr) # x
    BY <1>1, <1>4 DEF Owns
  <1>11. \A x \in Used(j, P) :
             \E d \in Callers : x \in N[d] \/ \E s \in G[d] : FromPtr(s.ptr) = x
    <2> TAKE x \in Used(j, P)
    <2>1. CASE x = b
      <3>1. r \in G[c]  BY <1>3
      <3> QED BY <1>1, <2>1, <3>1
    <2>2. CASE x # b
      <3>1. PICK d \in Callers : x \in N[d] \/ \E s \in H[d] : FromPtr(s.ptr) = x
        BY <2>2 DEF Owns
      <3>2. \A s \in H[d] : s \in G[d]  BY <1>3
      <3> QED BY <3>1, <3>2
    <2> QED BY <2>1, <2>2
  <1>12. \A d \in Callers : \A s \in G[d] : Fits(j, P, s)
    BY <1>2, <1>4, <1>5, <1>6
  <1> QED BY <1>2, <1>3, <1>8, <1>9, <1>10, <1>11, <1>12 DEF Owns

\* c gives up what it holds.
LEMMA OwnsGiveUp ==
    ASSUME NEW k, NEW P, NEW H, NEW N, Owns(k, P, H, N), NEW c \in Callers, N[c] = {},
           NEW r \in H[c], NEW b, b = FromPtr(r.ptr),
           NEW G, G = [H EXCEPT ![c] = H[c] \ {r}], NEW M, M = [N EXCEPT ![c] = {b}]
    PROVE  Owns(k, P, G, M)
  <1>1. /\ H \in [Callers -> SUBSET RegionSet] /\ N \in [Callers -> SUBSET Int]
        /\ r \in RegionSet /\ b \in Used(k, P)
    BY DEF Owns, Fits
  <1>2. r.ptr \in Nat /\ b \in Int  BY <1>1 DEF RegionSet, FromPtr
  <1>3. /\ G \in [Callers -> SUBSET RegionSet] /\ M \in [Callers -> SUBSET Int]
        /\ \A d \in Callers : G[d] = IF d = c THEN H[c] \ {r} ELSE H[d]
        /\ \A d \in Callers : M[d] = IF d = c THEN {b} ELSE N[d]
    <2>1. G \in [Callers -> SUBSET RegionSet]
      BY <1>1
    <2>2. \A d \in Callers : G[d] = IF d = c THEN H[c] \ {r} ELSE H[d]
      BY <1>1
    <2>3. M \in [Callers -> SUBSET Int]
      BY <1>1, <1>2
    <2>4. M[c] = {b} /\ \A d \in Callers : d # c => M[d] = N[d]
      BY <1>1
    <2> QED BY <2>1, <2>2, <2>3, <2>4
  <1>4. \A d \in Callers : \A s \in G[d] : s \in H[d] /\ (d = c => s # r)  BY <1>3
  <1>5. \A d \in Callers : \A x \in M[d] : (d = c /\ x = b) \/ x \in N[d]
    BY <1>3
  <1>6. \A d \in Callers : \A s \in H[d] : FromPtr(s.ptr) = b => d = c /\ s = r
    <2> TAKE d \in Callers
    <2> TAKE s \in H[d]
    <2>1. s.ptr = r.ptr => d = c /\ s = r  BY DEF Owns
    <2>2. s.ptr \in Nat  BY <1>1 DEF RegionSet
    <2> QED BY <1>2, <2>1, <2>2 DEF FromPtr
  <1>7. \A d \in Callers : b \notin N[d]  BY DEF Owns
  <1>8. \A d, e \in Callers : \A x \in M[d] : x \in Used(k, P) /\ (x \in M[e] => d = e)
    BY <1>1, <1>5, <1>7 DEF Owns
  <1>9. \A d, e \in Callers : \A x \in M[d], s \in G[e] : FromPtr(s.ptr) # x
    BY <1>4, <1>5, <1>6 DEF Owns
  <1>10. \A x \in Used(k, P) :
             \E d \in Callers : x \in M[d] \/ \E s \in G[d] : FromPtr(s.ptr) = x
    <2> TAKE x \in Used(k, P)
    <2>1. CASE x = b
      <3>1. b \in M[c]  BY <1>3
      <3> QED BY <2>1, <3>1
    <2>2. CASE x # b
      <3>1. PICK d \in Callers : x \in N[d] \/ \E s \in H[d] : FromPtr(s.ptr) = x
        BY DEF Owns
      <3>2. \A s \in H[d] : FromPtr(s.ptr) = x => s \in G[d]  BY <1>3, <2>2
      <3>3. x \in N[d] => x \in M[d]  BY <1>3
      <3> QED BY <3>1, <3>2, <3>3
    <2> QED BY <2>1, <2>2
  <1>11. \A d \in Callers : \A s \in G[d] : Fits(k, P, s)  BY <1>4 DEF Owns
  <1>12. \A d, e \in Callers : \A s \in G[d], t \in G[e] : s.ptr = t.ptr => d = e /\ s = t
    BY <1>4 DEF Owns
  <1> QED BY <1>3, <1>8, <1>9, <1>10, <1>11, <1>12 DEF Owns

\* The block c gave up is no longer used.
Loses(k, P, N, c, b, j, M) ==
    /\ N[c] = {b} /\ M = [N EXCEPT ![c] = {}] /\ Used(j, P) = Used(k, P) \ {b}
    /\ \A x \in Used(k, P) : x # b => j[x].size = k[x].size

LEMMA OwnsLose ==
    ASSUME NEW k, NEW P, NEW H, NEW N, Owns(k, P, H, N), NEW c \in Callers, NEW b,
           NEW j, NEW M, Loses(k, P, N, c, b, j, M)
    PROVE  Owns(j, P, H, M)
  <1>0. /\ N[c] = {b} /\ Used(j, P) = Used(k, P) \ {b} /\ M = [N EXCEPT ![c] = {}]
        /\ \A x \in Used(k, P) : x # b => j[x].size = k[x].size
    BY DEF Loses
  <1>1. H \in [Callers -> SUBSET RegionSet] /\ N \in [Callers -> SUBSET Int]
    BY DEF Owns
  <1>2. M \in [Callers -> SUBSET Int]
        /\ \A d \in Callers : M[d] = IF d = c THEN {} ELSE N[d]
    BY <1>0, <1>1
  <1>3. \A d \in Callers : \A s \in H[d] : FromPtr(s.ptr) # b  BY <1>0 DEF Owns
  <1>4. \A d \in Callers : \A s \in H[d] : Fits(j, P, s)  BY <1>0, <1>3 DEF Owns, Fits
  <1>5. \A d, e \in Callers : \A x \in M[d] : x \in Used(j, P) /\ (x \in M[e] => d = e)
    BY <1>0, <1>2 DEF Owns
  <1>6. \A d, e \in Callers : \A x \in M[d], s \in H[e] : FromPtr(s.ptr) # x
    BY <1>2 DEF Owns
  <1>7. \A x \in Used(j, P) :
            \E d \in Callers : x \in M[d] \/ \E s \in H[d] : FromPtr(s.ptr) = x
    <2> TAKE x \in Used(j, P)
    <2>1. x \in Used(k, P) /\ x # b  BY <1>0
    <2>2. PICK d \in Callers : x \in N[d] \/ \E s \in H[d] : FromPtr(s.ptr) = x
      BY <2>1 DEF Owns
    <2>3. x \in N[d] => x \in M[d]  BY <1>0, <1>2, <2>1
    <2> QED BY <2>2, <2>3
  <1>8. \A d, e \in Callers : \A r \in H[d], s \in H[e] : r.ptr = s.ptr => d = e /\ r = s
    BY DEF Owns
  <1> QED BY <1>1, <1>2, <1>4, <1>5, <1>6, <1>7, <1>8 DEF Owns

\* c has another size of the data it holds.
LEMMA OwnsResized ==
    ASSUME NEW k, NEW P, NEW H, NEW N, Owns(k, P, H, N), NEW c \in Callers,
           NEW r \in H[c], NEW b, b = FromPtr(r.ptr), NEW j, Used(j, P) = Used(k, P),
           \A x \in Used(k, P) : x # b => j[x].size = k[x].size,
           NEW n \in Nat, 1 <= n, n <= j[b].size,
           NEW t, t = [ptr |-> r.ptr, words |-> n],
           NEW G, G = [H EXCEPT ![c] = (H[c] \ {r}) \union {t}]
    PROVE  Owns(j, P, G, N)
  <1>1. /\ H \in [Callers -> SUBSET RegionSet] /\ N \in [Callers -> SUBSET Int]
        /\ r \in RegionSet /\ b \in Used(k, P)
        /\ \A d \in Callers : \A s \in H[d] : s \in RegionSet
    BY DEF Owns, Fits
  <1>2. /\ t \in RegionSet /\ t.ptr = r.ptr /\ FromPtr(t.ptr) = b /\ t.words = n
    BY <1>1 DEF RegionSet
  <1>3. G \in [Callers -> SUBSET RegionSet]
        /\ \A d \in Callers : G[d] = IF d = c THEN (H[c] \ {r}) \union {t} ELSE H[d]
    BY <1>1, <1>2
  <1>4. \A d \in Callers : \A s \in G[d] : (s \in H[d] /\ (d = c => s # r)) \/ (d = c /\ s = t)
    BY <1>3
  <1>5. \A d \in Callers : \A s \in H[d] : s.ptr = r.ptr => d = c /\ s = r
    BY DEF Owns
  <1>6. \A d \in Callers : \A s \in H[d] : FromPtr(s.ptr) = b => d = c /\ s = r
    <2> TAKE d \in Callers
    <2> TAKE s \in H[d]
    <2>1. s.ptr \in Nat /\ r.ptr \in Nat  BY <1>1 DEF RegionSet
    <2> QED BY <1>5, <2>1 DEF FromPtr
  <1>7. \A d \in Callers : \A s \in G[d] : Fits(j, P, s)
    <2> TAKE d \in Callers
    <2> TAKE s \in G[d]
    <2>1. CASE d = c /\ s = t  BY <1>1, <1>2, <2>1 DEF Fits
    <2>2. CASE s \in H[d] /\ (d = c => s # r)
      <3>1. FromPtr(s.ptr) # b  BY <1>6, <2>2
      <3>2. Fits(k, P, s)  BY <2>2 DEF Owns
      <3> QED BY <3>1, <3>2 DEF Fits
    <2> QED BY <1>4, <2>1, <2>2
  <1>8. \A d, e \in Callers : \A s \in G[d], u \in G[e] : s.ptr = u.ptr => d = e /\ s = u
    <2> TAKE d, e \in Callers
    <2> TAKE s \in G[d], u \in G[e]
    <2>1. s \in H[d] /\ u \in H[e] /\ s.ptr = u.ptr => d = e /\ s = u  BY DEF Owns
    <2> QED BY <1>2, <1>4, <1>5, <2>1
  <1>9. \A d, e \in Callers : \A x \in N[d] : x \in Used(j, P) /\ (x \in N[e] => d = e)
    BY DEF Owns
  <1>10. \A d, e \in Callers : \A x \in N[d], s \in G[e] : FromPtr(s.ptr) # x
    BY <1>2, <1>4 DEF Owns
  <1>11. \A x \in Used(j, P) :
             \E d \in Callers : x \in N[d] \/ \E s \in G[d] : FromPtr(s.ptr) = x
    <2> TAKE x \in Used(j, P)
    <2>1. PICK d \in Callers : x \in N[d] \/ \E s \in H[d] : FromPtr(s.ptr) = x
      BY DEF Owns
    <2>2. \A s \in H[d] : s = r \/ s \in G[d]  BY <1>3
    <2>3. t \in G[c]  BY <1>3
    <2> QED BY <1>2, <2>1, <2>2, <2>3
  <1> QED BY <1>1, <1>3, <1>7, <1>8, <1>9, <1>10, <1>11 DEF Owns

\* What a caller holds lies in a pool and apart from what others hold.
LEMMA RegionWithin ==
    ASSUME NEW P, P \subseteq Pools, NEW k, Tile(k, Firsts(P), Stops(P)), Homed(DOMAIN k, P),
           NEW r \in RegionSet, Fits(k, P, r)
    PROVE  /\ r.ptr \in HeapOf!Words(r)
           /\ \E p \in P : HeapOf!Within(r, p)
  <1> DEFINE b == FromPtr(r.ptr)
  <1>1. b \in DOMAIN k \ Stops(P) /\ 1 <= r.words /\ r.words <= k[b].size
    BY DEF Fits, Used
  <1>2. r.ptr \in Nat /\ r.words \in Nat /\ r.ptr = b + 2
    BY DEF RegionSet, FromPtr
  <1> HIDE DEF b
  <1>3. PICK p \in P : First(p) <= b /\ Nxt(k, b) <= Stop(p)  BY <1>1, HomeIs
  <1>4. /\ p.mem \in Nat /\ p.words \in Int /\ First(p) = p.mem - 1
        /\ Stop(p) = p.mem + p.words - 2
    <2>1. p \in Pools  OBVIOUS
    <2> QED BY <2>1, PoolIs DEF First, Stop
  <1>5. b \in Nat /\ k[b].size \in Nat /\ Nxt(k, b) = b + 1 + k[b].size
    BY <1>1, HeaderIs DEF Nxt
  <1>6. HeapOf!Words(r) = r.ptr .. r.ptr + r.words - 1  BY DEF HeapOf!Words
  <1>7. \A x \in r.ptr .. r.ptr + r.words - 1 : x \in p.mem .. p.mem + p.words - 1
    BY <1>1, <1>2, <1>3, <1>4, <1>5
  <1>8. HeapOf!Within(r, p)  BY <1>6, <1>7 DEF HeapOf!Within
  <1>9. r.ptr \in r.ptr .. r.ptr + r.words - 1  BY <1>1, <1>2
  <1> QED BY <1>6, <1>8, <1>9

LEMMA RegionsApart ==
    ASSUME NEW P, NEW k, Tile(k, Firsts(P), Stops(P)),
           NEW r \in RegionSet, Fits(k, P, r), NEW s \in RegionSet, Fits(k, P, s),
           r.ptr # s.ptr
    PROVE  HeapOf!Words(r) \intersect HeapOf!Words(s) = {}
  <1> DEFINE b == FromPtr(r.ptr)
             a == FromPtr(s.ptr)
  <1>1. /\ b \in DOMAIN k \ Stops(P) /\ r.words <= k[b].size
        /\ a \in DOMAIN k \ Stops(P) /\ s.words <= k[a].size
    BY DEF Fits, Used
  <1>2. /\ r.ptr \in Nat /\ r.words \in Nat /\ r.ptr = b + 2
        /\ s.ptr \in Nat /\ s.words \in Nat /\ s.ptr = a + 2
    BY DEF RegionSet, FromPtr
  <1> HIDE DEF a, b
  <1>3. (a <= b \/ a >= Nxt(k, b)) /\ (b <= a \/ b >= Nxt(k, a))
    BY <1>1 DEF Tile, Fitted
  <1>4. /\ b \in Nat /\ k[b].size \in Nat /\ Nxt(k, b) = b + 1 + k[b].size
        /\ a \in Nat /\ k[a].size \in Nat /\ Nxt(k, a) = a + 1 + k[a].size
    BY <1>1, HeaderIs DEF Nxt
  <1>5. ASSUME NEW x \in r.ptr .. r.ptr + r.words - 1, x \in s.ptr .. s.ptr + s.words - 1
        PROVE  FALSE
    BY <1>1, <1>2, <1>3, <1>4, <1>5
  <1> QED BY <1>5 DEF HeapOf!Words

\* Every region of R lies in a pool of P and apart from the others.
SeparateIn(P, R) ==
    /\ \A r \in R : r.ptr \in HeapOf!Words(r) /\ \E p \in P : HeapOf!Within(r, p)
    /\ \A r, s \in R : r # s =>
           r.ptr # s.ptr /\ HeapOf!Words(r) \intersect HeapOf!Words(s) = {}

LEMMA AllApart ==
    ASSUME NEW k, NEW P, P \subseteq Pools, Tile(k, Firsts(P), Stops(P)), Homed(DOMAIN k, P),
           NEW H, NEW N, Owns(k, P, H, N),
           NEW R, \A r \in R : \E c \in Callers : r \in H[c]
    PROVE  SeparateIn(P, R)
  <1>2. \A r \in R : r \in RegionSet /\ Fits(k, P, r)  BY DEF Owns
  <1>3. \A r, s \in R : r # s => r.ptr # s.ptr  BY DEF Owns
  <1>4. \A r \in R : r.ptr \in HeapOf!Words(r) /\ \E p \in P : HeapOf!Within(r, p)
    BY <1>2, RegionWithin
  <1>5. \A r, s \in R : r # s => HeapOf!Words(r) \intersect HeapOf!Words(s) = {}
    BY <1>2, <1>3, RegionsApart
  <1> QED BY <1>3, <1>4, <1>5 DEF SeparateIn

--------------------------------------------------------------------------------
(***************************************************************************)
(* tlsf_check and tlsf_check_pool find nothing wrong with a good heap.     *)
(***************************************************************************)
LEMMA ListsGood ==
    ASSUME NEW h, NEW P, Good(h, P, {}, {}, {})
    PROVE  ListsConsistent(h)
  <1> DEFINE k == h.blk
             E == Stops(P)
             F == Firsts(P)
             S == FreeSet(k)
             none == {}
  <1>1. /\ P \subseteq Pools /\ Tile(k, F, E) /\ Homed(DOMAIN k, P)
        /\ NoPair(k, E, none, none) /\ Filed(h, S)
    <2>1. S \ none = S  OBVIOUS
    <2> QED BY <2>1 DEF Good
  <1>2. \A x \in S : Classed(h, x)  BY GoodSized
  <1>3. IsHeap(h) /\ MapsExact(h) /\ \A i \in Rows, j \in Cols : ListExact(h, i, j, S)
    BY <1>1 DEF Filed
  <1> HIDE DEF F, E, S
  <1>4. ASSUME NEW i \in Rows, NEW j \in Cols, NEW m \in DOMAIN h.list[i][j],
               NEW b, b = h.list[i][j][m]
        PROVE  /\ b \in FreeBlocks(h) /\ ~h.blk[b].prevFree
               /\ ~h.blk[BlockNext(h, b)].free
               /\ h.blk[BlockNext(h, b)].prevFree
               /\ Size(h, b) >= BlockSizeMin
               /\ MappingInsert(Size(h, b)) = [fl |-> i, sl |-> j]
    <2>1. b \in S /\ In(h, b, i, j)  BY <1>3, <1>4 DEF ListExact, Holds
    <2>2. b \in DOMAIN k \ E /\ k[b].free  BY <1>1, <2>1, FreeIsBlock DEF S
    <2> DEFINE n == Nxt(k, b)
    <2>3. BlockNext(h, b) = n  BY DEF BlockNext, Nxt, Size, HeaderOverhead
    <2>4. Fitted(k, F, b)  BY <1>1, <2>2 DEF Tile
    <2>5. k[n].prevFree  BY <2>2, <2>4 DEF Fitted
    <2>6. ~k[n].free  BY <1>1, <2>2 DEF NoPair
    <2>7. ~k[b].prevFree
      <3>1. CASE b \in F  BY <1>1, <3>1 DEF Tile
      <3>2. CASE b \notin F
        <4>1. PICK a \in DOMAIN k \ E : Nxt(k, a) = b  BY <1>1, <2>2, <3>2 DEF Tile
        <4>2. Fitted(k, F, a)  BY <1>1, <4>1 DEF Tile
        <4>3. k[b].prevFree = k[a].free  BY <4>1, <4>2 DEF Fitted
        <4>4. ~k[a].free  BY <1>1, <2>2, <4>1 DEF NoPair
        <4> QED BY <4>3, <4>4
      <3> QED BY <3>1, <3>2
    <2>8. MappingInsert(Size(h, b)) = [fl |-> i, sl |-> j]
      <3>1. Classed(h, b)  BY <1>2, <2>1
      <3>2. Size(h, b) \in Nat /\ Size(h, b) >= 1 /\ Size(h, b) < Pow2[Top]
        BY <3>1, Slots DEF Classed
      <3>3. IsClass(MappingInsert(Size(h, b)))
        <4> DEFINE z == Size(h, b)
        <4> HIDE DEF z
        <4>1. z \in Nat /\ z >= 1 /\ z < Pow2[Top]  BY <3>2 DEF z
        <4>2. IsClass(MappingInsert(z))
          <5> HIDE DEF z
          <5>1. z \in Nat /\ z < Pow2[Top]  BY <4>1
          <5>2. ClassHas(z, MappingInsert(z))  BY <5>1, ClassOf
          <5> QED BY <5>2 DEF ClassHas
        <4> QED BY <4>2 DEF z
      <3> QED BY <2>1, <3>3 DEF IsClass, In, At
    <2>9. Size(h, b) >= BlockSizeMin  BY <2>4 DEF Fitted, Size
    <2>10. b \in FreeBlocks(h)  BY <2>2 DEF FreeBlocks
    <2> QED BY <2>3, <2>5, <2>6, <2>7, <2>8, <2>9, <2>10
  <1>5. \A i \in Rows, j \in Cols :
            (i \notin h.flMap => j \notin h.slMap[i]) /\ (j \in h.slMap[i] <=> h.list[i][j] # <<>>)
    BY <1>3 DEF MapsExact
  <1> QED BY <1>4, <1>5 DEF ListsConsistent, Rows, Cols

LEMMA PoolGood ==
    ASSUME NEW h, NEW P, Good(h, P, {}, {}, {}), NEW p \in P
    PROVE  PoolConsistent(h, p)
  <1> DEFINE k == h.blk
             E == Stops(P)
             F == Firsts(P)
             b == First(p)
             l == Stop(p)
             I == {x \in DOMAIN k : x >= b /\ x < l}
             none == {}
  <1>1. P \subseteq Pools /\ Tile(k, F, E) /\ Homed(DOMAIN k, P)  BY DEF Good
  <1>2. p \in Pools  BY <1>1
  <1>3. /\ b = PoolBlock(p) /\ l = b + 1 + PoolSize(p) /\ b \in Nat /\ l \in Nat
        /\ PoolSize(p) \in Nat
    BY <1>2, PoolIs
  <1>4. b \in F /\ l \in E  BY DEF Firsts, Stops
  <1>5. /\ b \in DOMAIN k /\ ~k[b].prevFree /\ l \in DOMAIN k /\ k[l].size = 0 /\ ~k[l].free
    BY <1>1, <1>4 DEF Tile
  <1>6. b \in I  BY <1>3, <1>5
  <1>7. ASSUME NEW x \in I
        PROVE  LET next == Nxt(k, x)
               IN  /\ next \in I \union {l}
                   /\ \A y \in I : y <= x \/ y >= next
                   /\ k[next].prevFree = k[x].free
                   /\ k[x].free => k[next].prev = x
    <2> DEFINE n == Nxt(k, x)
    <2>0. DOMAIN k \subseteq Nat  BY <1>1 DEF Tile
    <2>1. x \in DOMAIN k /\ b <= x /\ x < l /\ x \in Nat
      <3>1. x \in DOMAIN k /\ x >= b /\ x < l  OBVIOUS
      <3> HIDE DEF b, l, k
      <3>2. x \in Nat  BY <2>0, <3>1
      <3> QED BY <1>3, <3>1, <3>2
    <2>2. ASSUME NEW q \in P, First(q) <= x, x <= Stop(q) PROVE q = p
      <3>1. q # p => Stop(q) < First(p) \/ Stop(p) < First(q)
        BY <1>1, <1>2, PoolsApart
      <3>2. First(q) \in Nat /\ Stop(q) \in Nat  BY <1>1, PoolIs
      <3> QED BY <1>3, <2>1, <2>2, <3>1, <3>2
    <2>3. x \notin E
      <3> SUFFICES ASSUME NEW q \in P, x = Stop(q) PROVE FALSE
        BY DEF Stops
      <3>1. Stop(q) = First(q) + 1 + PoolSize(q) /\ PoolSize(q) \in Nat
            /\ First(q) \in Nat
        BY <1>1, PoolIs
      <3>2. q = p  BY <2>2, <3>1
      <3> QED BY <2>1, <3>2
    <2>4. Fitted(k, F, x)  BY <1>1, <2>1, <2>3 DEF Tile
    <2>5. n <= l
      <3>1. x \in DOMAIN k \ E  BY <2>1, <2>3
      <3>2. PICK q \in P : /\ First(q) \in Nat /\ Stop(q) \in Nat /\ First(q) <= x
                           /\ Nxt(k, x) <= Stop(q)
        <4> HIDE DEF E, F
        <4> QED BY <1>1, <3>1, HomeIs DEF E, F
      <3>3. n \in Nat /\ n > x  BY <1>1, <2>1, HeaderIs
      <3>4. q = p  BY <2>1, <2>2, <3>2, <3>3
      <3> QED BY <3>2, <3>4
    <2>6. n \in DOMAIN k /\ n > x /\ n \in Nat
      BY <1>1, <2>1, <2>4, HeaderIs DEF Fitted
    <2>7. n \in I \union {l}  BY <1>3, <2>1, <2>5, <2>6
    <2>8. \A y \in I : y <= x \/ y >= n  BY <2>4 DEF Fitted
    <2>9. k[n].prevFree = k[x].free /\ (k[x].free => k[n].prev = x)
      BY <2>4 DEF Fitted, Link
    <2> QED BY <2>7, <2>8, <2>9
  <1>8. \A x : BlockNext(h, x) = Nxt(k, x)  BY DEF BlockNext, Nxt, Size, HeaderOverhead
  <1>9. PoolBlock(p) + HeaderOverhead + PoolSize(p) = l  BY <1>3 DEF HeaderOverhead
  <1> HIDE DEF b, l
  <1> QED BY <1>3, <1>5, <1>6, <1>7, <1>8, <1>9 DEF PoolConsistent

--------------------------------------------------------------------------------
(***************************************************************************)
(* The inductive invariant.  One caller at most is past the lock; what the *)
(* heap is like depends on where that caller is: it is good unless the     *)
(* caller is between the two halves of an operation, and then it is good   *)
(* but for the block that caller has at hand.                              *)
(***************************************************************************)
Ops == {"malloc", "memalign", "free", "realloc", "add", "remove"}
Places == Ops \union {"idle", "acquire", "prepare", "merge", "release"}
CallSet == [op : Ops \union {"none"}, size : 0 .. BlockSizeMax - 1, align : Nat \ {0}]

Freeing(c) == pc[c] \in {"acquire", "free"} /\ call[c].op = "free"
Pending == [c \in Callers |-> IF Freeing(c) THEN {block[c]} ELSE {}]

Inside(c) == pc[c] \notin {"idle", "acquire"}

Typed ==
    /\ pc \in [Callers -> Places] /\ call \in [Callers -> CallSet]
    /\ block \in [Callers -> Int] /\ isInit \in BOOLEAN /\ lock \in BOOLEAN

OneInside ==
    /\ \A c \in Callers : Inside(c) => lock
    /\ \A c, d \in Callers : Inside(c) /\ Inside(d) => c = d

NotYet ==
    ~isInit => pools = {} /\ \A c \in Callers : pc[c] = "idle" /\ held[c] = {}

\* Between the halves of tlsf_malloc: b is the block it takes, if there is one.
Ready(h, P, b, n) ==
    \/ b = NoBlock /\ Good(h, P, {}, {}, {}) /\ NoneLocated(h, FreeSet(h.blk), n)
    \/ /\ b # NoBlock /\ Good(h, P, {b}, {}, {})
       /\ n \in Nat /\ n >= BlockSizeMin /\ n <= Size(h, b)

\* Between the halves of tlsf_free: b is free, in no list and not yet merged.
Loose(h, P, b) == Good(h, P, {b}, {b}, {b})

HeapAt(c) ==
    /\ pc[c] = "prepare" =>
           Ready(heap, pools, block[c], AdjustRequestSize(call[c].size, 1))
    /\ pc[c] = "merge" => Loose(heap, pools, block[c])
    /\ pc[c] = "release" => block[c] \in DOMAIN heap.blk \union {NoBlock}

Calm == \A c \in Callers : pc[c] \notin {"prepare", "merge"}
Whole == Calm => Good(heap, pools, {}, {}, {})

CallIs(c) ==
    /\ pc[c] = "idle" => block[c] = NoBlock
    /\ pc[c] = "acquire" => call[c].op \in Ops
    /\ pc[c] \in Ops => call[c].op = pc[c]
    /\ pc[c] \in Ops \union {"acquire"} /\ call[c].op \notin {"free", "realloc"} =>
           block[c] = NoBlock
    /\ pc[c] \in {"acquire", "realloc"} /\ call[c].op = "realloc" =>
           call[c].size >= 1 /\ \E r \in held[c] : FromPtr(r.ptr) = block[c]

IInv ==
    /\ Typed /\ OneInside /\ NotYet /\ Whole
    /\ \A c \in Callers : HeapAt(c) /\ CallIs(c)
    /\ Owns(heap.blk, pools, held, Pending)

LEMMA OthersOut ==
    ASSUME IInv, NEW c \in Callers, Inside(c)
    PROVE  /\ isInit /\ lock /\ pc[c] \in Places
           /\ \A d \in Callers : d # c => pc[d] \in {"idle", "acquire"}
  <1>1. pc[c] # "idle"  BY DEF Inside
  <1>2. isInit  BY <1>1 DEF IInv, NotYet
  <1>3. pc[c] \in Places  BY DEF IInv, Typed
  <1> QED BY <1>2, <1>3 DEF IInv, OneInside, Inside

\* c's place, call and block change.
Moves(c, to, x, b) ==
    /\ pc' = [pc EXCEPT ![c] = to] /\ call' = [call EXCEPT ![c] = x]
    /\ block' = [block EXCEPT ![c] = b]

LEMMA MovesTyped ==
    ASSUME Typed, NEW c \in Callers, NEW to \in Places, NEW x \in CallSet, NEW b \in Int,
           Moves(c, to, x, b), isInit' \in BOOLEAN, lock' \in BOOLEAN
    PROVE  /\ Typed' /\ pc'[c] = to /\ call'[c] = x /\ block'[c] = b
           /\ \A d \in Callers : d # c =>
                  pc'[d] = pc[d] /\ call'[d] = call[d] /\ block'[d] = block[d]
  <1> USE DEF Typed, Moves
  <1>1. pc' \in [Callers -> Places] /\ pc'[c] = to
        /\ \A d \in Callers : d # c => pc'[d] = pc[d]
    OBVIOUS
  <1>2. call' \in [Callers -> CallSet] /\ call'[c] = x
        /\ \A d \in Callers : d # c => call'[d] = call[d]
    <2> HIDE DEF CallSet
    <2> QED OBVIOUS
  <1>3. block' \in [Callers -> Int] /\ block'[c] = b
        /\ \A d \in Callers : d # c => block'[d] = block[d]
    OBVIOUS
  <1> QED BY <1>1, <1>2, <1>3

LEMMA PendingMoves ==
    ASSUME Typed, NEW c \in Callers, NEW to \in Places, NEW x \in CallSet, NEW b \in Int,
           Moves(c, to, x, b), isInit' \in BOOLEAN, lock' \in BOOLEAN
    PROVE  /\ to \notin {"acquire", "free"} => Pending' = [Pending EXCEPT ![c] = {}]
           /\ to \in {"acquire", "free"} /\ x.op = "free" =>
                  Pending' = [Pending EXCEPT ![c] = {b}]
           /\ x.op # "free" => Pending' = [Pending EXCEPT ![c] = {}]
           /\ (~Freeing(c) => Pending[c] = {}) /\ (Freeing(c) => Pending[c] = {block[c]})
           /\ DOMAIN Pending = Callers
  <1>1. /\ pc'[c] = to /\ call'[c] = x /\ block'[c] = b
        /\ \A d \in Callers : d # c =>
               pc'[d] = pc[d] /\ call'[d] = call[d] /\ block'[d] = block[d]
    BY MovesTyped
  <1>2. DOMAIN Pending = Callers /\ DOMAIN Pending' = Callers
        /\ Pending = [d \in Callers |-> Pending[d]]
        /\ Pending' = [d \in Callers |-> Pending'[d]]
    BY DEF Pending
  <1>3. \A d \in Callers : d # c => Pending'[d] = Pending[d]
    BY <1>1 DEF Pending, Freeing
  <1>4. Pending'[c] = IF to \in {"acquire", "free"} /\ x.op = "free" THEN {b} ELSE {}
    BY <1>1 DEF Pending, Freeing
  <1>5. (~Freeing(c) => Pending[c] = {}) /\ (Freeing(c) => Pending[c] = {block[c]})
    BY DEF Pending
  <1>6. ASSUME NEW v, Pending'[c] = v PROVE Pending' = [Pending EXCEPT ![c] = v]
    <2> DEFINE p == Pending
               q == Pending'
    <2>1. /\ DOMAIN p = Callers /\ p = [d \in Callers |-> p[d]]
          /\ q = [d \in Callers |-> q[d]] /\ q[c] = v
          /\ \A d \in Callers : d # c => q[d] = p[d]
      BY <1>2, <1>3, <1>6
    <2> HIDE DEF p, q
    <2>2. q = [p EXCEPT ![c] = v]  BY <2>1
    <2> QED BY <2>2 DEF p, q
  <1>7. to \notin {"acquire", "free"} => Pending'[c] = {}  BY <1>4
  <1>8. to \in {"acquire", "free"} /\ x.op = "free" => Pending'[c] = {b}  BY <1>4
  <1>9. x.op # "free" => Pending'[c] = {}  BY <1>4
  <1> QED BY <1>2, <1>5, <1>6, <1>7, <1>8, <1>9

\* A step of the caller past the lock: what is left to show is about its own.
LEMMA InsideStep ==
    ASSUME IInv, NEW c \in Callers, Inside(c), NEW to \in Places, to # "acquire",
           NEW x \in CallSet, NEW b \in Int, Moves(c, to, x, b), isInit' = isInit,
           lock' = IF to = "idle" THEN FALSE ELSE lock,
           \A d \in Callers : d # c => held'[d] = held[d],
           HeapAt(c)', CallIs(c)', to \notin {"prepare", "merge"} => Good(heap, pools, {}, {}, {})',
           Owns(heap.blk, pools, held, Pending)'
    PROVE  IInv'
  <1>1. isInit /\ lock /\ \A d \in Callers : d # c => pc[d] \in {"idle", "acquire"}
    BY OthersOut
  <1>2. Typed /\ lock \in BOOLEAN /\ isInit \in BOOLEAN  BY DEF IInv, Typed
  <1>3. isInit' \in BOOLEAN /\ lock' \in BOOLEAN  BY <1>2
  <1>4. /\ Typed' /\ pc'[c] = to /\ call'[c] = x /\ block'[c] = b
        /\ \A d \in Callers : d # c =>
               pc'[d] = pc[d] /\ call'[d] = call[d] /\ block'[d] = block[d]
    BY <1>2, <1>3, MovesTyped
  <1>5. OneInside'
    BY <1>1, <1>4 DEF OneInside, Inside
  <1>6. NotYet'  BY <1>1 DEF NotYet
  <1>7. Whole'
    <2>1. Calm' => to \notin {"prepare", "merge"}  BY <1>4 DEF Calm
    <2> QED BY <2>1 DEF Whole
  <1>8. ASSUME NEW d \in Callers PROVE HeapAt(d)' /\ CallIs(d)'
    <2>1. CASE d = c  BY <2>1
    <2>2. CASE d # c
      <3>1. /\ pc'[d] = pc[d] /\ call'[d] = call[d] /\ block'[d] = block[d]
            /\ held'[d] = held[d] /\ pc[d] \in {"idle", "acquire"}
        BY <1>1, <1>4, <2>2
      <3>2. HeapAt(d)'  BY <3>1 DEF HeapAt
      <3>3. CallIs(d)  BY DEF IInv
      <3>4. CallIs(d)'  BY <3>1, <3>3 DEF CallIs
      <3> QED BY <3>2, <3>4
    <2> QED BY <2>1, <2>2
  <1> QED BY <1>4, <1>5, <1>6, <1>7, <1>8 DEF IInv

\* A step that leaves the heap alone and starts or lets in a call.
LEMMA OutsideStep ==
    ASSUME IInv, NEW c \in Callers, pc[c] \in {"idle", "acquire"}, isInit,
           NEW to \in Ops \union {"acquire"}, NEW x \in CallSet, NEW b \in Int,
           Moves(c, to, x, b), UNCHANGED <<heap, pools, isInit>>,
           to = "acquire" => lock' = lock, to # "acquire" => ~lock /\ lock' = TRUE,
           \A d \in Callers : d # c => held'[d] = held[d],
           CallIs(c)', Owns(heap.blk, pools, held, Pending)'
    PROVE  IInv'
  <1>1. Typed /\ OneInside /\ Whole /\ lock \in BOOLEAN /\ isInit \in BOOLEAN
        /\ \A d \in Callers : HeapAt(d) /\ CallIs(d)
    BY DEF IInv, Typed
  <1>2. isInit' \in BOOLEAN /\ lock' \in BOOLEAN /\ to \in Places  BY <1>1 DEF Places
  <1>3. /\ Typed' /\ pc'[c] = to /\ call'[c] = x /\ block'[c] = b
        /\ \A d \in Callers : d # c =>
               pc'[d] = pc[d] /\ call'[d] = call[d] /\ block'[d] = block[d]
    BY <1>1, <1>2, MovesTyped
  <1>4. OneInside'
    <2>1. CASE to = "acquire"  BY <1>1, <1>3, <2>1 DEF OneInside, Inside
    <2>2. CASE to # "acquire"
      <3>1. \A d \in Callers : ~Inside(d)  BY <1>1, <2>2 DEF OneInside
      <3>2. \A d \in Callers : Inside(d)' => d = c  BY <1>3, <3>1 DEF Inside
      <3> QED BY <2>2, <3>2 DEF OneInside
    <2> QED BY <2>1, <2>2
  <1>5. NotYet'  BY DEF NotYet
  <1>6. Whole'
    <2>1. to \notin {"prepare", "merge"}  BY DEF Ops
    <2>2. Calm' => Calm  BY <1>3, <2>1 DEF Calm
    <2> QED BY <1>1, <2>2 DEF Whole
  <1>7. ASSUME NEW d \in Callers PROVE HeapAt(d)' /\ CallIs(d)'
    <2>1. CASE d = c
      <3>1. to \notin {"prepare", "merge", "release"}  BY DEF Ops
      <3> QED BY <1>3, <2>1, <3>1 DEF HeapAt
    <2>2. CASE d # c
      <3>1. /\ pc'[d] = pc[d] /\ call'[d] = call[d] /\ block'[d] = block[d]
            /\ held'[d] = held[d]
        BY <1>3, <2>2
      <3>2. HeapAt(d)'  BY <1>1, <3>1 DEF HeapAt
      <3>3. CallIs(d)'  BY <1>1, <3>1 DEF CallIs
      <3> QED BY <3>2, <3>3
    <2> QED BY <2>1, <2>2
  <1> QED BY <1>3, <1>4, <1>5, <1>6, <1>7 DEF IInv
--------------------------------------------------------------------------------
(***************************************************************************)
(* The invariant holds after each step: calls.                             *)
(***************************************************************************)
LEMMA OpIn ==
    ASSUME NEW op \in Ops, NEW n \in 0 .. BlockSizeMax - 1, NEW a \in Nat \ {0},
           NEW x, x = Op(op, n, a)
    PROVE  x \in CallSet /\ x.op = op /\ x.size = n
  BY DEF Op, CallSet

LEMMA RequestsIn ==
    /\ 0 \in 0 .. BlockSizeMax - 1 /\ Requests \subseteq 0 .. BlockSizeMax - 1
    /\ Alignments \subseteq Nat \ {0} /\ 1 \in Nat \ {0}
  <1>1. BlockSizeMax \in Nat /\ BlockSizeMax >= 4  BY Slots
  <1>2. \A n \in 0 .. FlIndexMax : Pow2[n] \in Nat \ {0}
    <2>1. \A n \in 0 .. FlIndexMax : n \in 0 .. Top  BY Indices
    <2> QED BY <2>1, PowerStep
  <1> QED BY <1>1, <1>2, RequestAssumption

LEMMA BeginStep ==
    ASSUME IInv, NEW c \in Callers, isInit, NEW op \in {"malloc", "memalign", "add", "remove"},
           NEW n \in 0 .. BlockSizeMax - 1, NEW a \in Nat \ {0},
           Begin(c, Op(op, n, a), NoBlock), UNCHANGED held
    PROVE  IInv'
  <1> DEFINE x == Op(op, n, a)
             t == "acquire"
             b == NoBlock
  <1>1. op \in Ops /\ op \notin {"free", "realloc"}  BY DEF Ops
  <1>2. x \in CallSet /\ x.op = op  BY <1>1, OpIn
  <1>3. /\ pc[c] = "idle" /\ Moves(c, t, x, b) /\ UNCHANGED <<heap, pools, isInit, lock>>
    BY DEF Begin, Goto, Moves
  <1>4. Typed /\ Owns(heap.blk, pools, held, Pending) /\ isInit \in BOOLEAN /\ lock \in BOOLEAN
    BY DEF IInv, Typed
  <1>5. t \in Places /\ t \in Ops \union {"acquire"} /\ b \in Int  BY DEF Places, NoBlock
  <1> HIDE DEF x, b
  <1>6. Pending' = Pending
    <2>1. ~Freeing(c)  BY <1>3 DEF Freeing
    <2>2. Pending' = [Pending EXCEPT ![c] = {}] /\ Pending[c] = {} /\ DOMAIN Pending = Callers
      BY <1>1, <1>2, <1>3, <1>4, <1>5, <2>1, PendingMoves
    <2> DEFINE p == Pending
    <2>3. p = [d \in Callers |-> p[d]]  BY DEF Pending
    <2>4. p[c] = {} /\ Pending' = [p EXCEPT ![c] = {}]  BY <2>2
    <2> HIDE DEF p
    <2>5. Pending' = p  BY <2>3, <2>4
    <2> QED BY <2>5 DEF p
  <1>7. Owns(heap.blk, pools, held, Pending)'  BY <1>3, <1>4, <1>6
  <1>8. pc'[c] = t /\ call'[c] = x /\ block'[c] = b
    BY <1>2, <1>3, <1>4, <1>5, MovesTyped
  <1>9. CallIs(c)'  BY <1>1, <1>2, <1>8 DEF CallIs, b, Ops
  <1> QED BY <1>2, <1>3, <1>5, <1>7, <1>9, OutsideStep

LEMMA CallFreeStep ==
    ASSUME IInv, NEW c \in Callers, CallFree(c)
    PROVE  IInv'
  <1> DEFINE x == Op("free", 0, 1)
             t == "acquire"
  <1>1. PICK r \in held[c] : /\ Begin(c, x, FromPtr(r.ptr))
                             /\ held' = [held EXCEPT ![c] = held[c] \ {r}]
    BY DEF CallFree
  <1> DEFINE b == FromPtr(r.ptr)
  <1>2. "free" \in Ops  BY DEF Ops
  <1>3. x \in CallSet /\ x.op = "free"
    BY <1>2, RequestsIn, OpIn
  <1>4. /\ pc[c] = "idle" /\ Moves(c, t, x, b) /\ UNCHANGED <<heap, pools, isInit, lock>>
    BY <1>1 DEF Begin, Goto, Moves
  <1>5. Typed /\ Owns(heap.blk, pools, held, Pending) /\ isInit \in BOOLEAN /\ lock \in BOOLEAN
    BY DEF IInv, Typed
  <1>6. t \in Places /\ t \in Ops \union {"acquire"}  BY DEF Places
  <1>7. held \in [Callers -> SUBSET RegionSet] /\ r.ptr \in Nat
    BY <1>5 DEF Owns, RegionSet
  <1>8. b \in Int  BY <1>7 DEF FromPtr
  <1> HIDE DEF x, b
  <1>9. Pending' = [Pending EXCEPT ![c] = {b}] /\ Pending[c] = {}
    <2>1. ~Freeing(c)  BY <1>4 DEF Freeing
    <2> QED BY <1>3, <1>4, <1>5, <1>6, <1>8, <2>1, PendingMoves
  <1>10. Owns(heap.blk, pools, held', Pending')
    BY <1>1, <1>5, <1>9, OwnsGiveUp DEF b
  <1>11. Owns(heap.blk, pools, held, Pending)'  BY <1>4, <1>10
  <1>12. pc'[c] = t /\ call'[c] = x /\ block'[c] = b
    BY <1>3, <1>4, <1>5, <1>6, <1>8, MovesTyped
  <1>13. CallIs(c)'  BY <1>2, <1>3, <1>12 DEF CallIs, Ops
  <1>14. isInit  BY <1>1 DEF IInv, NotYet
  <1>15. \A d \in Callers : d # c => held'[d] = held[d]  BY <1>1, <1>7
  <1> QED BY <1>3, <1>4, <1>6, <1>8, <1>11, <1>13, <1>14, <1>15, OutsideStep

LEMMA CallReallocStep ==
    ASSUME IInv, NEW c \in Callers, CallRealloc(c)
    PROVE  IInv'
  <1> DEFINE t == "acquire"
  <1>1. PICK r \in held[c], n \in Requests \ {0} :
            Begin(c, Op("realloc", n, 1), FromPtr(r.ptr)) /\ UNCHANGED held
    BY DEF CallRealloc
  <1> DEFINE b == FromPtr(r.ptr)
             x == Op("realloc", n, 1)
  <1>2. "realloc" \in Ops  BY DEF Ops
  <1>3. x \in CallSet /\ x.op = "realloc" /\ x.size >= 1
    <2>1. n \in 0 .. BlockSizeMax - 1 /\ n >= 1  BY RequestsIn, Slots
    <2> QED BY <1>2, <2>1, RequestsIn, OpIn
  <1>4. /\ pc[c] = "idle" /\ Moves(c, t, x, b) /\ UNCHANGED <<heap, pools, isInit, lock, held>>
    BY <1>1 DEF Begin, Goto, Moves
  <1>5. Typed /\ Owns(heap.blk, pools, held, Pending) /\ isInit \in BOOLEAN /\ lock \in BOOLEAN
    BY DEF IInv, Typed
  <1>6. t \in Places /\ t \in Ops \union {"acquire"}  BY DEF Places
  <1>7. r.ptr \in Nat  BY <1>5 DEF Owns, RegionSet
  <1>8. b \in Int  BY <1>7 DEF FromPtr
  <1> HIDE DEF x, b
  <1>9. Pending' = Pending
    <2>1. ~Freeing(c)  BY <1>4 DEF Freeing
    <2>2. Pending' = [Pending EXCEPT ![c] = {}] /\ Pending[c] = {} /\ DOMAIN Pending = Callers
      BY <1>3, <1>4, <1>5, <1>6, <1>8, <2>1, PendingMoves
    <2> DEFINE p == Pending
    <2>3. p = [d \in Callers |-> p[d]]  BY DEF Pending
    <2>4. p[c] = {} /\ Pending' = [p EXCEPT ![c] = {}]  BY <2>2
    <2> HIDE DEF p
    <2>5. Pending' = p  BY <2>3, <2>4
    <2> QED BY <2>5 DEF p
  <1>10. Owns(heap.blk, pools, held, Pending)'  BY <1>4, <1>5, <1>9
  <1>11. pc'[c] = t /\ call'[c] = x /\ block'[c] = b
    BY <1>3, <1>4, <1>5, <1>6, <1>8, MovesTyped
  <1>12. \E s \in held'[c] : FromPtr(s.ptr) = b  BY <1>4 DEF b
  <1>13. CallIs(c)'  BY <1>2, <1>3, <1>11, <1>12 DEF CallIs, Ops
  <1>14. isInit  BY DEF IInv, NotYet
  <1> QED BY <1>3, <1>4, <1>6, <1>8, <1>10, <1>13, <1>14, OutsideStep

LEMMA CallsStep ==
    ASSUME IInv, NEW c \in Callers, Calls(c)
    PROVE  IInv'
  <1>1. CASE CallAllocate(c)
    <2>1. PICK n \in Requests : Begin(c, Op("malloc", n, 1), NoBlock)
      BY <1>1 DEF CallAllocate
    <2>2. isInit /\ UNCHANGED held  BY <1>1 DEF CallAllocate
    <2> QED BY <2>1, <2>2, RequestsIn, BeginStep
  <1>2. CASE CallMemalign(c)
    <2>1. PICK n \in Requests, a \in Alignments : Begin(c, Op("memalign", n, a), NoBlock)
      BY <1>2 DEF CallMemalign
    <2>2. isInit /\ UNCHANGED held  BY <1>2 DEF CallMemalign
    <2> QED BY <2>1, <2>2, RequestsIn, BeginStep
  <1>3. CASE CallFree(c)  BY <1>3, CallFreeStep
  <1>4. CASE CallRealloc(c)  BY <1>4, CallReallocStep
  <1>5. CASE CallPools(c)
    <2>1. PICK op \in {"add", "remove"} : Begin(c, Op(op, 0, 1), NoBlock)
      BY <1>5 DEF CallPools
    <2>2. isInit /\ UNCHANGED held  BY <1>5 DEF CallPools
    <2> QED BY <2>1, <2>2, RequestsIn, BeginStep
  <1> QED BY <1>1, <1>2, <1>3, <1>4, <1>5 DEF Calls

LEMMA AcquireStep ==
    ASSUME IInv, NEW c \in Callers, Acquire(c)
    PROVE  IInv'
  <1> DEFINE x == call[c]
             t == x.op
             b == block[c]
  <1>1. /\ ~lock /\ pc[c] = "acquire" /\ pc' = [pc EXCEPT ![c] = t] /\ lock' = TRUE
        /\ UNCHANGED <<heap, pools, isInit, call, block, held>>
    BY DEF Acquire, Goto
  <1>2. Typed /\ Owns(heap.blk, pools, held, Pending) /\ isInit \in BOOLEAN /\ lock \in BOOLEAN
    BY DEF IInv, Typed
  <1>3. x \in CallSet /\ b \in Int  BY <1>2 DEF Typed
  <1>4. CallIs(c)  BY DEF IInv
  <1>5. t \in Ops  BY <1>1, <1>4 DEF CallIs
  <1>6. t \in Places /\ t \in Ops \union {"acquire"}  BY <1>5 DEF Places
  <1>7. Moves(c, t, x, b)
    <2>1. call = [d \in Callers |-> call[d]] /\ block = [d \in Callers |-> block[d]]
      BY <1>2 DEF Typed
    <2> QED BY <1>1, <2>1 DEF Moves
  <1>8. pc' \in [Callers -> Places] /\ pc'[c] = t
    BY <1>1, <1>2, <1>6 DEF Typed
  <1>9. Pending' = Pending
    <2>1. ASSUME NEW d \in Callers PROVE Freeing(d)' <=> Freeing(d)
      <3>1. CASE d = c  BY <1>1, <1>4, <1>5, <1>8, <3>1 DEF Freeing, Ops
      <3>2. CASE d # c  BY <1>1, <1>2, <3>2 DEF Freeing, Typed
      <3> QED BY <3>1, <3>2
    <2> QED BY <1>1, <2>1 DEF Pending
  <1>10. Owns(heap.blk, pools, held, Pending)'  BY <1>1, <1>2, <1>9
  <1>11. CallIs(c)'  BY <1>1, <1>4, <1>5, <1>8 DEF CallIs, Ops
  <1>12. isInit  BY <1>1 DEF IInv, NotYet
  <1>13. t # "acquire"  BY <1>5 DEF Ops
  <1> HIDE DEF x, b, t
  <1> QED BY <1>1, <1>3, <1>6, <1>7, <1>10, <1>11, <1>12, <1>13, OutsideStep

\* kiPoolInit: the first pool.
LEMMA PoolInitStep ==
    ASSUME IInv, PoolInit
    PROVE  IInv'
  <1> DEFINE p == RootPool
             none == {}
             Q == {RootPool}
  <1>1. /\ ~isInit /\ heap' = AddPool(heap, p) /\ pools' = Q /\ isInit' = TRUE
        /\ UNCHANGED <<lock, pc, call, block, held>>
    BY DEF PoolInit
  <1>2. pools = none /\ \A c \in Callers : pc[c] = "idle"  BY <1>1 DEF IInv, NotYet
  <1>3. Good(heap, none, none, none, none)  BY <1>2 DEF IInv, Whole, Calm
  <1>4. p \in Pools /\ p \notin none /\ Q = none \union {p}  BY DEF Pools
  <1>5. Repooled(heap, none, Q, heap')
    <2> HIDE DEF none, Q, p
    <2>1. Good(heap, none, {}, {}, {})  BY <1>3 DEF none
    <2> QED BY <1>1, <1>4, <2>1, AddPoolGood
  <1>6. /\ Good(heap', Q, {}, {}, {}) /\ Used(heap'.blk, Q) = Used(heap.blk, none)
        /\ \A x \in Used(heap.blk, none) : heap'.blk[x].size = heap.blk[x].size
    BY <1>5 DEF Repooled
  <1>7. Pending' = Pending  BY <1>1 DEF Pending, Freeing
  <1>8. Owns(heap.blk, pools, held, Pending)'
    <2>1. Owns(heap.blk, none, held, Pending)  BY <1>2 DEF IInv
    <2> HIDE DEF none, Q
    <2>2. Owns(heap'.blk, Q, held, Pending)  BY <1>6, <2>1, OwnsKept
    <2> QED BY <1>1, <1>7, <2>2
  <1>9. Typed' /\ OneInside' /\ NotYet'
    BY <1>1 DEF IInv, Typed, OneInside, Inside, NotYet
  <1>10. Whole'  BY <1>1, <1>6 DEF Whole
  <1>11. \A c \in Callers : HeapAt(c)' /\ CallIs(c)'
    BY <1>1, <1>2 DEF IInv, HeapAt, CallIs
  <1> QED BY <1>8, <1>9, <1>10, <1>11 DEF IInv

(***************************************************************************)
(* Steps of the caller past the lock.                                      *)
(***************************************************************************)
LEMMA CalmGood ==
    ASSUME IInv, NEW c \in Callers, Inside(c), pc[c] \notin {"prepare", "merge"}
    PROVE  Good(heap, pools, {}, {}, {})
  <1>1. \A d \in Callers : d # c => pc[d] \in {"idle", "acquire"}  BY OthersOut
  <1>2. Calm  BY <1>1 DEF Calm
  <1> QED BY <1>2 DEF IInv, Whole

LEMMA CallSize ==
    ASSUME Typed, NEW c \in Callers, NEW n, n = AdjustRequestSize(call[c].size, 1)
    PROVE  /\ call[c] \in CallSet /\ block[c] \in Int /\ call[c].size \in Nat
           /\ call[c].align \in Nat /\ call[c].align >= 1
           /\ n \in Nat /\ n < BlockSizeMax /\ (n = 0 \/ n >= BlockSizeMin)
           /\ n # 0 => call[c].size >= 1 /\ call[c].size <= n
           /\ call[c].size >= 1 => n # 0
  <1> DEFINE s == call[c].size
  <1>1. call[c] \in CallSet /\ block[c] \in Int  BY DEF Typed
  <1>2. BlockSizeMax \in Nat /\ BlockSizeMax >= 4 /\ BlockSizeMin = 3
    BY Slots DEF BlockSizeMin, HeaderSize
  <1>3. s \in Nat /\ s < BlockSizeMax /\ call[c].align \in Nat \ {0}
    BY <1>1, <1>2 DEF CallSet
  <1> HIDE DEF s
  <1>4. n = 0 \/ (n \in Nat /\ n >= BlockSizeMin /\ n >= s /\ s >= 1 /\ n < BlockSizeMax)
    <2>1. n = AdjustRequestSize(s, 1)  BY DEF s
    <2> QED BY <1>3, <2>1, Adjusted
  <1>5. s >= 1 => n # 0
    <2>1. s >= 1 => AdjustRequestSize(s, 1) # 0  BY <1>3, AdjustedByOne
    <2> QED BY <2>1 DEF s
  <1> QED BY <1>1, <1>2, <1>3, <1>4, <1>5 DEF s

LEMMA Stays ==
    ASSUME Typed, NEW c \in Callers, NEW to \in Places \ {"acquire", "free"}, NEW b \in Int,
           pc' = [pc EXCEPT ![c] = to], block' = [block EXCEPT ![c] = b],
           UNCHANGED <<isInit, lock, call>>
    PROVE  /\ Moves(c, to, call[c], b) /\ pc'[c] = to /\ block'[c] = b
           /\ lock' = IF to = "idle" THEN lock' ELSE lock
           /\ Pending' = [Pending EXCEPT ![c] = {}]
           /\ ~Freeing(c) => Pending' = Pending
           /\ Freeing(c) => Pending[c] = {block[c]}
  <1> DEFINE x == call[c]
  <1>1. call = [call EXCEPT ![c] = x]
    <2>1. call = [d \in Callers |-> call[d]]  BY DEF Typed
    <2> QED BY <2>1
  <1>2. Moves(c, to, x, b)  BY <1>1 DEF Moves
  <1>3. x \in CallSet /\ isInit' \in BOOLEAN /\ lock' \in BOOLEAN  BY DEF Typed
  <1>4. to \in Places /\ to \notin {"acquire", "free"}  OBVIOUS
  <1> HIDE DEF x
  <1>5. /\ Pending' = [Pending EXCEPT ![c] = {}] /\ DOMAIN Pending = Callers
        /\ (~Freeing(c) => Pending[c] = {}) /\ (Freeing(c) => Pending[c] = {block[c]})
    BY <1>2, <1>3, <1>4, PendingMoves
  <1>6. ASSUME ~Freeing(c) PROVE Pending' = Pending
    <2> DEFINE p == Pending
    <2>1. p = [d \in Callers |-> p[d]]  BY DEF Pending
    <2>2. p[c] = {} /\ Pending' = [p EXCEPT ![c] = {}]  BY <1>5, <1>6
    <2> HIDE DEF p
    <2>3. Pending' = p  BY <2>1, <2>2
    <2> QED BY <2>3 DEF p
  <1>7. pc'[c] = to /\ block'[c] = b  BY <1>2, <1>3, <1>4, MovesTyped
  <1> QED BY <1>2, <1>5, <1>6, <1>7 DEF x

LEMMA LocateStep ==
    ASSUME IInv, NEW c \in Callers, Locate(c)
    PROVE  IInv'
  <1> DEFINE n == AdjustRequestSize(call[c].size, 1)
             b == Located(heap, n)
             g == LocateFree(heap, n)
             t == "prepare"
  <1>1. /\ pc[c] = "malloc" /\ pc' = [pc EXCEPT ![c] = t] /\ heap' = g
        /\ block' = [block EXCEPT ![c] = b]
        /\ UNCHANGED <<isInit, lock, call, pools, held>>
    BY DEF Locate, Goto, Become
  <1>2. Typed /\ Inside(c) /\ Owns(heap.blk, pools, held, Pending) /\ ~Freeing(c)
    BY <1>1 DEF IInv, Inside, Freeing
  <1>3. Good(heap, pools, {}, {}, {})  BY <1>1, <1>2, CalmGood
  <1>4. n \in Nat /\ n < BlockSizeMax /\ call[c] \in CallSet /\ (n = 0 \/ n >= BlockSizeMin)
    BY <1>2, CallSize
  <1>5. \/ b = NoBlock /\ g = heap /\ NoneLocated(heap, FreeSet(heap.blk), n)
        \/ /\ b # NoBlock /\ b \in FreeSet(heap.blk) /\ n >= 1 /\ n <= Size(heap, b)
           /\ g.blk = heap.blk /\ Good(g, pools, {b}, {}, {})
    <2> HIDE DEF n
    <2> QED BY <1>3, <1>4, LocateGood
  <1> HIDE DEF n, b, g
  <1>6. g.blk = heap.blk /\ b \in Int
    <2>1. \A x \in FreeSet(heap.blk) : x \in Int  BY <1>3, GoodSized
    <2> QED BY <1>5, <2>1 DEF NoBlock
  <1>7. Size(g, b) = Size(heap, b)  BY <1>6 DEF Size
  <1>8. Ready(g, pools, b, n)
    <2>1. CASE b = NoBlock  BY <1>3, <1>5, <2>1 DEF Ready
    <2>2. CASE b # NoBlock  BY <1>4, <1>5, <1>7, <2>2 DEF Ready
    <2> QED BY <2>1, <2>2
  <1>9. t \in Places \ {"acquire", "free"} /\ t \in Places /\ t # "acquire" /\ t # "idle"
    BY DEF Places
  <1>10. Moves(c, t, call[c], b) /\ pc'[c] = t /\ block'[c] = b /\ Pending' = Pending
    BY <1>1, <1>2, <1>6, <1>9, Stays
  <1>11. HeapAt(c)'
    <2>1. Ready(heap', pools', block'[c], AdjustRequestSize(call'[c].size, 1))
      BY <1>1, <1>8, <1>10 DEF n
    <2> QED BY <1>10, <2>1 DEF HeapAt
  <1>12. CallIs(c)'  BY <1>10 DEF CallIs, Ops
  <1>13. Owns(heap.blk, pools, held, Pending)'  BY <1>1, <1>2, <1>6, <1>10
  <1> QED BY <1>1, <1>2, <1>4, <1>6, <1>9, <1>10, <1>11, <1>12, <1>13, InsideStep

\* The region of s words at the data of b.
IsRegion(r, b, s) == r = [ptr |-> ToPtr(b), words |-> s]

\* The heap is good and its used blocks have their owners.
Moved(P, G, N, b, g) ==
    /\ Owns(g.blk, P, G, N) /\ Good(g, P, {}, {}, {})
    /\ b \in DOMAIN g.blk /\ b \in Nat

\* c takes the block b for n words and holds its data.
LEMMA TakenOwns ==
    ASSUME NEW h, NEW P, NEW H, NEW N, Owns(h.blk, P, H, N), NEW c \in Callers,
           NEW b, NEW n \in Nat, NEW g, Taken(h, P, b, n, g),
           NEW s \in Nat, 1 <= s, s <= n, NEW r, IsRegion(r, b, s),
           NEW G, G = [H EXCEPT ![c] = H[c] \union {r}]
    PROVE  Moved(P, G, N, b, g)
  <1>1. /\ Good(g, P, {}, {}, {})
        /\ Used(g.blk, P) = Used(h.blk, P) \union {b}
        /\ \A x \in Used(h.blk, P) : g.blk[x].size = h.blk[x].size
        /\ g.blk[b].size \in Nat /\ g.blk[b].size >= n /\ b \notin Used(h.blk, P)
    BY DEF Taken, Size
  <1>2. b \in DOMAIN g.blk  BY <1>1 DEF Used
  <1>3. b \in Nat
    <2>1. Tile(g.blk, Firsts(P), Stops(P))  BY <1>1 DEF Good
    <2> QED BY <1>2, <2>1, HeaderIs
  <1>4. s <= g.blk[b].size  BY <1>1
  <1>r. r = [ptr |-> ToPtr(b), words |-> s]  BY DEF IsRegion
  <1>5. Owns(g.blk, P, G, N)
    <2> DEFINE k == h.blk
               j == g.blk
    <2>1. /\ Owns(k, P, H, N) /\ b \notin Used(k, P) /\ Used(j, P) = Used(k, P) \union {b}
          /\ \A x \in Used(k, P) : j[x].size = k[x].size
          /\ s <= j[b].size
      BY <1>1, <1>4
    <2> HIDE DEF k, j
    <2>2. Owns(j, P, G, N)  BY <1>3, <1>r, <2>1, OwnsGain
    <2> QED BY <2>2 DEF j
  <1> QED BY <1>1, <1>2, <1>3, <1>5 DEF Moved

\* A call that returns b: what c holds then, if b is not NULL.
LEMMA GainIs ==
    ASSUME NEW c \in Callers, NEW b, Gain(c, b), held \in [Callers -> SUBSET RegionSet],
           NEW r, r = Region(c, b)
    PROVE  /\ b = NoBlock => held' = held
           /\ b # NoBlock => held' = [held EXCEPT ![c] = held[c] \union {r}]
           /\ \A d \in Callers : d # c => held'[d] = held[d]
  <1> DEFINE v == IF b = NoBlock THEN {} ELSE {Region(c, b)}
  <1>1. held' = [held EXCEPT ![c] = held[c] \union v]  BY DEF Gain
  <1>2. held = [d \in Callers |-> held[d]]  OBVIOUS
  <1>3. \A d \in Callers : d # c => held'[d] = held[d]
    <2> HIDE DEF v
    <2> QED BY <1>1, <1>2
  <1>4. b = NoBlock => held' = held
    <2> HAVE b = NoBlock
    <2>1. held[c] \union v = held[c]  OBVIOUS
    <2> HIDE DEF v
    <2> QED BY <1>1, <1>2, <2>1
  <1>5. b # NoBlock => held' = [held EXCEPT ![c] = held[c] \union {r}]
    <2> HAVE b # NoBlock
    <2>1. v = {r}  OBVIOUS
    <2> HIDE DEF v
    <2> QED BY <1>1, <2>1
  <1> QED BY <1>3, <1>4, <1>5

LEMMA GainStep ==
    ASSUME IInv, NEW c \in Callers, Inside(c), ~Freeing(c), pc' = [pc EXCEPT ![c] = "release"],
           NEW b, NEW g, heap' = g, block' = [block EXCEPT ![c] = b],
           UNCHANGED <<isInit, lock, call, pools>>, Gain(c, b),
           NEW n, n = AdjustRequestSize(call[c].size, 1),
           \/ b = NoBlock /\ g = heap /\ Good(g, pools, {}, {}, {})
           \/ b # NoBlock /\ n >= 1 /\ Taken(heap, pools, b, n, g)
    PROVE  IInv'
  <1> DEFINE t == "release"
             r == Region(c, b)
             s == call[c].size
  <1>1. Typed /\ Owns(heap.blk, pools, held, Pending)  BY DEF IInv
  <1>2. /\ n \in Nat /\ call[c] \in CallSet /\ s \in Nat /\ (n # 0 => s >= 1 /\ s <= n)
    BY <1>1, CallSize
  <1>3. held \in [Callers -> SUBSET RegionSet]  BY <1>1 DEF Owns
  <1>4. /\ b = NoBlock => held' = held
        /\ b # NoBlock => held' = [held EXCEPT ![c] = held[c] \union {r}]
        /\ \A d \in Callers : d # c => held'[d] = held[d]
    BY <1>3, GainIs
  <1>5. IsRegion(r, b, s)  BY DEF Region, IsRegion
  <1> HIDE DEF r
  <1>6. /\ Owns(g.blk, pools, held', Pending) /\ Good(g, pools, {}, {}, {})
        /\ b \in DOMAIN g.blk \union {NoBlock} /\ b \in Int
    <2>1. CASE b = NoBlock  BY <1>1, <1>4, <2>1 DEF NoBlock
    <2>2. CASE b # NoBlock
      <3>1. n >= 1 /\ Taken(heap, pools, b, n, g)  BY <2>2
      <3>2. 1 <= s /\ s <= n  BY <1>2, <3>1
      <3> HIDE DEF s
      <3> DEFINE G == held'
                 N == Pending
      <3>3. G = [held EXCEPT ![c] = held[c] \union {r}] /\ Owns(heap.blk, pools, held, N)
        BY <1>1, <1>4, <2>2
      <3> HIDE DEF G, N
      <3>4. Moved(pools, G, N, b, g)  BY <1>2, <1>5, <3>1, <3>2, <3>3, TakenOwns
      <3> QED BY <3>4 DEF G, N, Moved
    <2> QED BY <2>1, <2>2
  <1>7. t \in Places \ {"acquire", "free"} /\ t \in Places /\ t # "acquire" /\ t # "idle"
    BY DEF Places
  <1>8. Moves(c, t, call[c], b) /\ pc'[c] = t /\ block'[c] = b /\ Pending' = Pending
    BY <1>1, <1>6, <1>7, Stays
  <1>9. HeapAt(c)'  BY <1>6, <1>8 DEF HeapAt
  <1>10. CallIs(c)'  BY <1>8 DEF CallIs, Ops
  <1>11. Owns(heap.blk, pools, held, Pending)' /\ Good(heap, pools, {}, {}, {})'
    BY <1>6, <1>8
  <1> QED BY <1>2, <1>4, <1>6, <1>7, <1>8, <1>9, <1>10, <1>11, InsideStep

LEMMA PrepareStep ==
    ASSUME IInv, NEW c \in Callers, Prepare(c)
    PROVE  IInv'
  <1> DEFINE n == AdjustRequestSize(call[c].size, 1)
             b == block[c]
             g == IF b = NoBlock THEN heap ELSE PrepareUsed(heap, b, n)
             none == {}
  <1>1. /\ pc[c] = "prepare" /\ pc' = [pc EXCEPT ![c] = "release"] /\ heap' = g
        /\ block' = [block EXCEPT ![c] = b] /\ Gain(c, b)
        /\ UNCHANGED <<isInit, lock, call, pools>>
    BY DEF Prepare, Goto, Become
  <1>2. Inside(c) /\ ~Freeing(c)  BY <1>1 DEF Inside, Freeing
  <1>3. Ready(heap, pools, b, n)  BY <1>1 DEF IInv, HeapAt
  <1>4. \/ b = NoBlock /\ g = heap /\ Good(g, pools, {}, {}, {})
        \/ b # NoBlock /\ n >= 1 /\ Taken(heap, pools, b, n, g)
    <2>1. CASE b = NoBlock  BY <1>3, <2>1 DEF Ready
    <2>2. CASE b # NoBlock
      <3>1. Good(heap, pools, {b}, {}, {}) /\ n \in Nat /\ n >= BlockSizeMin
            /\ n <= Size(heap, b)
        BY <1>3, <2>2 DEF Ready
      <3>2. g = PrepareUsed(heap, b, n) /\ none \subseteq {b}  BY <2>2
      <3>3. Good(heap, pools, {b}, {}, none)  BY <3>1
      <3>4. n >= 1  BY <3>1 DEF BlockSizeMin, HeaderSize
      <3> HIDE DEF g, n, b, none
      <3>5. Taken(heap, pools, b, n, g)  BY <3>1, <3>2, <3>3, PrepareGood
      <3> QED BY <2>2, <3>4, <3>5
    <2> QED BY <2>1, <2>2
  <1> HIDE DEF g, b
  <1> QED BY <1>1, <1>2, <1>4, GainStep

LEMMA MemalignStep ==
    ASSUME IInv, NEW c \in Callers, DoMemalign(c)
    PROVE  IInv'
  <1> DEFINE n == AdjustRequestSize(call[c].size, 1)
             a == call[c].align
             b == MemalignBlock(heap, a, n)
             g == Memalign(heap, a, n)
  <1>1. /\ pc[c] = "memalign" /\ pc' = [pc EXCEPT ![c] = "release"] /\ heap' = g
        /\ block' = [block EXCEPT ![c] = b] /\ Gain(c, b)
        /\ UNCHANGED <<isInit, lock, call, pools>>
    BY DEF DoMemalign, Goto, Become
  <1>2. Inside(c) /\ ~Freeing(c) /\ Typed  BY <1>1 DEF Inside, Freeing, IInv
  <1>3. Good(heap, pools, {}, {}, {})  BY <1>1, <1>2, CalmGood
  <1>4. /\ a \in Nat /\ a >= 1 /\ n \in Nat /\ n < BlockSizeMax
        /\ (n = 0 \/ n >= BlockSizeMin)
    BY <1>2, CallSize
  <1>5. Served(heap, pools, b, n, g)
    <2> HIDE DEF n, a
    <2> QED BY <1>3, <1>4, MemalignGood
  <1>6. \/ b = NoBlock /\ g = heap /\ Good(g, pools, {}, {}, {})
        \/ b # NoBlock /\ n >= 1 /\ Taken(heap, pools, b, n, g)
    <2> HIDE DEF b, g, n, a
    <2> QED BY <1>3, <1>5 DEF Served
  <1> HIDE DEF g, b
  <1> QED BY <1>1, <1>2, <1>6, GainStep

LEMMA UsedIs ==
    ASSUME NEW h, NEW P, NEW W, NEW L, NEW R, Good(h, P, W, L, R), NEW b \in Used(h.blk, P)
    PROVE  b \in DOMAIN h.blk /\ b \in Nat
  <1>1. Tile(h.blk, Firsts(P), Stops(P)) /\ b \in DOMAIN h.blk  BY DEF Good, Used
  <1> QED BY <1>1, HeaderIs

LEMMA MarkFreeStep ==
    ASSUME IInv, NEW c \in Callers, MarkFree(c)
    PROVE  IInv'
  <1> DEFINE b == block[c]
             g == MarkAsFree(heap, b)
             t == "merge"
             N == Pending
  <1>1. /\ pc[c] = "free" /\ pc' = [pc EXCEPT ![c] = t] /\ heap' = g
        /\ block' = [block EXCEPT ![c] = b]
        /\ UNCHANGED <<isInit, lock, call, pools, held>>
    BY DEF MarkFree, Goto, Become
  <1>2. Typed /\ Inside(c) /\ Owns(heap.blk, pools, held, N) /\ CallIs(c)
    BY <1>1 DEF IInv, Inside
  <1>3. Freeing(c)  BY <1>1, <1>2 DEF Freeing, CallIs, Ops
  <1>4. t \in Places \ {"acquire", "free"} /\ t \in Places /\ t # "acquire" /\ t # "idle"
    BY DEF Places
  <1>5. b \in Int /\ call[c] \in CallSet  BY <1>2, CallSize
  <1> HIDE DEF b, g, N
  <1>6. /\ Moves(c, t, call[c], b) /\ pc'[c] = t /\ block'[c] = b
        /\ Pending' = [N EXCEPT ![c] = {}] /\ N[c] = {b}
    BY <1>1, <1>2, <1>3, <1>4, <1>5, Stays DEF b, N
  <1>7. b \in Used(heap.blk, pools)  BY <1>2, <1>6 DEF Owns
  <1>8. Good(heap, pools, {}, {}, {})  BY <1>1, <1>2, CalmGood
  <1>9. MarkedFreeGood(heap, pools, b, g)  BY <1>7, <1>8, MarkFreeGood DEF g
  <1>10. /\ Loose(g, pools, b) /\ Used(g.blk, pools) = Used(heap.blk, pools) \ {b}
         /\ \A x \in Used(heap.blk, pools) : g.blk[x].size = heap.blk[x].size
    BY <1>9 DEF MarkedFreeGood, Loose, Used
  <1>11. Owns(g.blk, pools, held, Pending')
    <2> DEFINE k == heap.blk
               j == g.blk
               M == Pending'
    <2>1. /\ Owns(k, pools, held, N) /\ Used(j, pools) = Used(k, pools) \ {b}
          /\ \A x \in Used(k, pools) : x # b => j[x].size = k[x].size
          /\ M = [N EXCEPT ![c] = {}] /\ N[c] = {b}
      BY <1>2, <1>6, <1>10
    <2> HIDE DEF k, j, M
    <2>2. Owns(j, pools, held, M)
      <3>1. Loses(k, pools, N, c, b, j, M)  BY <2>1 DEF Loses
      <3> QED BY <2>1, <3>1, OwnsLose
    <2> QED BY <2>2 DEF j, M
  <1>12. Owns(heap.blk, pools, held, Pending)'  BY <1>1, <1>11
  <1>13. HeapAt(c)'
    <2>1. Loose(heap', pools', block'[c])  BY <1>1, <1>6, <1>10
    <2> QED BY <1>6, <2>1 DEF HeapAt
  <1>14. CallIs(c)'  BY <1>6 DEF CallIs, Ops
  <1> QED BY <1>1, <1>2, <1>4, <1>5, <1>6, <1>12, <1>13, <1>14, InsideStep

LEMMA MergeFreeStep ==
    ASSUME IInv, NEW c \in Callers, MergeFree(c)
    PROVE  IInv'
  <1> DEFINE b == block[c]
             g == MergeAndInsert(heap, b)
             w == MergedInto(heap, b)
             t == "release"
  <1>1. /\ pc[c] = "merge" /\ pc' = [pc EXCEPT ![c] = t] /\ heap' = g
        /\ block' = [block EXCEPT ![c] = w]
        /\ UNCHANGED <<isInit, lock, call, pools, held>>
    BY DEF MergeFree, Goto, Become
  <1>2. Typed /\ Inside(c) /\ Owns(heap.blk, pools, held, Pending) /\ ~Freeing(c)
    BY <1>1 DEF IInv, Inside, Freeing
  <1>3. Good(heap, pools, {b}, {b}, {b})  BY <1>1 DEF IInv, HeapAt, Loose
  <1> HIDE DEF b
  <1>4. Freed(heap, pools, w, g)  BY <1>3, MergeGood
  <1>5. /\ Good(g, pools, {}, {}, {}) /\ w \in DOMAIN g.blk
        /\ Used(g.blk, pools) = Used(heap.blk, pools)
        /\ \A x \in Used(heap.blk, pools) : g.blk[x].size = heap.blk[x].size
    BY <1>4 DEF Freed, UsedKept
  <1> HIDE DEF w, g
  <1>6. w \in Int
    <2>1. Tile(g.blk, Firsts(pools), Stops(pools))  BY <1>5 DEF Good
    <2>2. w \in Nat  BY <1>5, <2>1, HeaderIs
    <2> QED BY <2>2
  <1>7. t \in Places \ {"acquire", "free"} /\ t \in Places /\ t # "acquire" /\ t # "idle"
    BY DEF Places
  <1>8. Moves(c, t, call[c], w) /\ pc'[c] = t /\ block'[c] = w /\ Pending' = Pending
    BY <1>1, <1>2, <1>6, <1>7, Stays
  <1>9. Owns(g.blk, pools, held, Pending)
    <2> DEFINE k == heap.blk
               j == g.blk
    <2>1. /\ Owns(k, pools, held, Pending) /\ Used(j, pools) = Used(k, pools)
          /\ \A x \in Used(k, pools) : j[x].size = k[x].size
      BY <1>2, <1>5
    <2> HIDE DEF k, j
    <2>2. Owns(j, pools, held, Pending)  BY <2>1, OwnsKept
    <2> QED BY <2>2 DEF j
  <1>10. Owns(heap.blk, pools, held, Pending)' /\ Good(heap, pools, {}, {}, {})'
    BY <1>1, <1>5, <1>8, <1>9
  <1>11. HeapAt(c)'  BY <1>1, <1>5, <1>8 DEF HeapAt
  <1>12. CallIs(c)'  BY <1>8 DEF CallIs, Ops
  <1>13. call[c] \in CallSet  BY <1>2, CallSize
  <1> QED BY <1>1, <1>2, <1>6, <1>7, <1>8, <1>10, <1>11, <1>12, <1>13, InsideStep

LEMMA PoolsStep ==
    ASSUME IInv, NEW c \in Callers, DoPools(c)
    PROVE  IInv'
  <1> DEFINE t == "release"
             b == NoBlock
             none == {}
  <1>1. /\ pc[c] \in {"add", "remove"} /\ pc' = [pc EXCEPT ![c] = t]
        /\ UNCHANGED <<isInit, lock, call, held>>
    BY DEF DoPools, Goto, Become
  <1>2. Typed /\ Inside(c) /\ Owns(heap.blk, pools, held, Pending) /\ ~Freeing(c)
        /\ CallIs(c)
    BY <1>1 DEF IInv, Inside, Freeing
  <1>3. Good(heap, pools, none, none, none)  BY <1>1, <1>2, CalmGood
  <1>4. block' = [block EXCEPT ![c] = b]
    <2>1. block[c] = NoBlock  BY <1>1, <1>2 DEF CallIs, Ops
    <2>2. block = [d \in Callers |-> block[d]]  BY <1>2 DEF Typed
    <2>3. block = [block EXCEPT ![c] = NoBlock]  BY <2>1, <2>2
    <2> QED BY <2>3 DEF DoPools, Become
  <1>5. Repooled(heap, pools, pools', heap')
    <2>1. CASE \E pool \in MorePools \ pools :
                   heap' = AddPool(heap, pool) /\ pools' = pools \union {pool}
      <3>1. PICK p \in MorePools \ pools :
                heap' = AddPool(heap, p) /\ pools' = pools \union {p}
        BY <2>1
      <3>2. p \in Pools /\ p \notin pools  BY DEF Pools
      <3> HIDE DEF none
      <3>3. Good(heap, pools, {}, {}, {})  BY <1>3 DEF none
      <3> QED BY <3>1, <3>2, <3>3, AddPoolGood
    <2>2. CASE \E pool \in pools \intersect MorePools :
                   /\ PoolBlock(pool) \in FreeBlocks(heap)
                   /\ Size(heap, PoolBlock(pool)) = PoolSize(pool)
                   /\ heap' = RemovePool(heap, pool) /\ pools' = pools \ {pool}
      <3>1. PICK p \in pools \intersect MorePools :
                   /\ PoolBlock(p) \in FreeBlocks(heap)
                   /\ Size(heap, PoolBlock(p)) = PoolSize(p)
                   /\ heap' = RemovePool(heap, p) /\ pools' = pools \ {p}
        BY <2>2
      <3>2. PoolBlock(p) \in FreeSet(heap.blk)  BY <3>1 DEF FreeBlocks, FreeSet
      <3>3. p \in pools  OBVIOUS
      <3> HIDE DEF none
      <3>4. Good(heap, pools, {}, {}, {})  BY <1>3 DEF none
      <3> QED BY <3>1, <3>2, <3>3, <3>4, RemovePoolGood
    <2>3. CASE UNCHANGED <<heap, pools>>  BY <1>3, <2>3 DEF Repooled
    <2> QED BY <2>1, <2>2, <2>3 DEF DoPools, Become
  <1>6. /\ Good(heap', pools', {}, {}, {}) /\ Used(heap'.blk, pools') = Used(heap.blk, pools)
        /\ \A x \in Used(heap.blk, pools) : heap'.blk[x].size = heap.blk[x].size
    BY <1>5 DEF Repooled
  <1>7. t \in Places \ {"acquire", "free"} /\ t \in Places /\ t # "acquire" /\ t # "idle"
        /\ b \in Int
    BY DEF Places, NoBlock
  <1> HIDE DEF b
  <1>8. Moves(c, t, call[c], b) /\ pc'[c] = t /\ block'[c] = b /\ Pending' = Pending
    BY <1>1, <1>2, <1>4, <1>7, Stays
  <1>9. Owns(heap'.blk, pools', held, Pending)
    <2> DEFINE k == heap.blk
               j == heap'.blk
               Q == pools'
    <2>1. /\ Owns(k, pools, held, Pending) /\ Used(j, Q) = Used(k, pools)
          /\ \A x \in Used(k, pools) : j[x].size = k[x].size
      BY <1>2, <1>6
    <2> HIDE DEF k, j, Q
    <2>2. Owns(j, Q, held, Pending)  BY <2>1, OwnsKept
    <2> QED BY <2>2 DEF j, Q
  <1>10. Owns(heap.blk, pools, held, Pending)' /\ Good(heap, pools, {}, {}, {})'
    BY <1>1, <1>6, <1>8, <1>9
  <1>11. HeapAt(c)'  BY <1>8 DEF HeapAt, b
  <1>12. CallIs(c)'  BY <1>8 DEF CallIs, Ops
  <1>13. call[c] \in CallSet  BY <1>2, CallSize
  <1> QED BY <1>1, <1>2, <1>7, <1>8, <1>10, <1>11, <1>12, <1>13, InsideStep

LEMMA ReleaseStep ==
    ASSUME IInv, NEW c \in Callers, Release(c)
    PROVE  IInv'
  <1> DEFINE t == "idle"
             x == NoCall
             b == NoBlock
  <1>1. /\ pc[c] = "release" /\ Moves(c, t, x, b) /\ lock' = FALSE
        /\ UNCHANGED <<heap, pools, isInit, held>>
    BY DEF Release, Goto, Moves
  <1>2. Typed /\ Inside(c) /\ Owns(heap.blk, pools, held, Pending) /\ ~Freeing(c)
    BY <1>1 DEF IInv, Inside, Freeing
  <1>3. Good(heap, pools, {}, {}, {})  BY <1>1, <1>2, CalmGood
  <1>4. x \in CallSet /\ x.op = "none"  BY RequestsIn DEF NoCall, CallSet
  <1>5. t \in Places /\ b \in Int /\ t \notin {"acquire", "free"}  BY DEF Places, NoBlock
  <1>6. isInit' \in BOOLEAN /\ lock' \in BOOLEAN  BY <1>1, <1>2 DEF Typed
  <1> HIDE DEF x, b
  <1>7. pc'[c] = t /\ call'[c] = x /\ block'[c] = b
    BY <1>1, <1>2, <1>4, <1>5, <1>6, MovesTyped
  <1>8. Pending' = Pending
    <2> DEFINE p == Pending
    <2>1. Pending' = [p EXCEPT ![c] = {}] /\ p[c] = {}
      BY <1>1, <1>2, <1>4, <1>5, <1>6, PendingMoves
    <2>2. p = [d \in Callers |-> p[d]]  BY DEF Pending
    <2> HIDE DEF p
    <2>3. Pending' = p  BY <2>1, <2>2
    <2> QED BY <2>3 DEF p
  <1>9. Owns(heap.blk, pools, held, Pending)' /\ Good(heap, pools, {}, {}, {})'
    BY <1>1, <1>2, <1>3, <1>8
  <1>10. HeapAt(c)'  BY <1>7 DEF HeapAt
  <1>11. CallIs(c)'  BY <1>7 DEF CallIs, Ops, b
  <1>12. t # "acquire" /\ lock' = IF t = "idle" THEN FALSE ELSE lock  BY <1>1
  <1> HIDE DEF t
  <1> QED BY <1>1, <1>2, <1>4, <1>5, <1>7, <1>9, <1>10, <1>11, <1>12, InsideStep

(***************************************************************************)
(* tlsf_realloc.                                                           *)
(***************************************************************************)
\* Only r among what c holds has r's address.
LEMMA AllBut ==
    ASSUME NEW k, NEW P, NEW H, NEW N, Owns(k, P, H, N), NEW c \in Callers,
           NEW r \in H[c], NEW b, b = FromPtr(r.ptr)
    PROVE  /\ {x \in H[c] : x.ptr # ToPtr(b)} = H[c] \ {r} /\ r.ptr = ToPtr(b)
           /\ b \in Used(k, P) /\ r \in RegionSet
  <1>1. r \in RegionSet /\ b \in Used(k, P)  BY DEF Owns, Fits
  <1>2. r.ptr \in Nat  BY <1>1 DEF RegionSet
  <1>3. r.ptr = ToPtr(b)  BY <1>2 DEF ToPtr, FromPtr
  <1>4. \A x \in H[c] : x.ptr = r.ptr => x = r  BY DEF Owns
  <1> QED BY <1>1, <1>3, <1>4

\* What Replace puts in the place of the region at b.
Replaced(H, c, b, t, G) ==
    G = [H EXCEPT ![c] = {x \in H[c] : x.ptr # ToPtr(b)} \union {t}]

LEMMA MovedOwns ==
    ASSUME NEW h, NEW P, NEW H, NEW N, Owns(h.blk, P, H, N), NEW c \in Callers, N[c] = {},
           NEW r \in H[c], NEW b, b = FromPtr(r.ptr),
           NEW new, NEW n \in Nat, NEW m, Taken(h, P, new, n, m),
           NEW s \in Nat, 1 <= s, s <= n, NEW t, IsRegion(t, new, s),
           NEW G, Replaced(H, c, b, t, G),
           NEW g, g = Free(m, b)
    PROVE  Moved(P, G, N, new, g)
  <1> DEFINE f == MarkAsFree(m, b)
             w == MergedInto(f, b)
             H1 == [H EXCEPT ![c] = H[c] \union {t}]
             H2 == [H1 EXCEPT ![c] = H1[c] \ {r}]
             N1 == [N EXCEPT ![c] = {b}]
             N2 == [N1 EXCEPT ![c] = {}]
  <1>1. g = MergeAndInsert(f, b)  BY DEF Free
  <1> HIDE DEF f, w, H1, H2, N1, N2
  <1>2. /\ H \in [Callers -> SUBSET RegionSet] /\ N \in [Callers -> SUBSET Int]
        /\ {x \in H[c] : x.ptr # ToPtr(b)} = H[c] \ {r} /\ b \in Used(h.blk, P)
    <2>1. H \in [Callers -> SUBSET RegionSet] /\ N \in [Callers -> SUBSET Int]
      BY DEF Owns
    <2> DEFINE k == h.blk
    <2>2. Owns(k, P, H, N)  OBVIOUS
    <2> HIDE DEF k
    <2>3. {x \in H[c] : x.ptr # ToPtr(b)} = H[c] \ {r} /\ b \in Used(k, P)
      BY <2>2, AllBut
    <2> QED BY <2>1, <2>3 DEF k
  <1>3. /\ Owns(m.blk, P, H1, N) /\ new \in Nat /\ new \in Used(m.blk, P)
        /\ Good(m, P, {}, {}, {})
    <2>2. H1 = [H EXCEPT ![c] = H[c] \union {t}]  BY DEF H1
    <2>3. Moved(P, H1, N, new, m)  BY <2>2, TakenOwns
    <2>4. new \in Used(m.blk, P)  BY DEF Taken
    <2> QED BY <2>3, <2>4 DEF Moved
  <1>4. b \in Used(m.blk, P) /\ b # new  BY <1>2 DEF Taken
  <1>5. H1[c] = H[c] \union {t} /\ r \in H1[c]  BY <1>2 DEF H1
  <1>6. Owns(m.blk, P, H2, N1)
    <2> DEFINE k == m.blk
    <2>1. Owns(k, P, H1, N)  BY <1>3
    <2>2. H2 = [H1 EXCEPT ![c] = H1[c] \ {r}] /\ N1 = [N EXCEPT ![c] = {b}]
      BY DEF H2, N1
    <2> HIDE DEF k
    <2>3. Owns(k, P, H2, N1)  BY <1>5, <2>1, <2>2, OwnsGiveUp
    <2> QED BY <2>3 DEF k
  <1>7. MarkedFreeGood(m, P, b, f)  BY <1>3, <1>4, MarkFreeGood DEF f
  <1>8. /\ Good(f, P, {b}, {b}, {b}) /\ Used(f.blk, P) = Used(m.blk, P) \ {b}
        /\ \A x \in Used(m.blk, P) : f.blk[x].size = m.blk[x].size
    BY <1>7 DEF MarkedFreeGood, Used
  <1>9. N1[c] = {b}
    <2>1. N = [d \in Callers |-> N[d]]  BY <1>2
    <2> QED BY <2>1 DEF N1
  <1>10. Owns(f.blk, P, H2, N2)
    <2> DEFINE k == m.blk
               j == f.blk
    <2>1. /\ Owns(k, P, H2, N1) /\ Used(j, P) = Used(k, P) \ {b} /\ N1[c] = {b}
          /\ \A x \in Used(k, P) : x # b => j[x].size = k[x].size
          /\ N2 = [N1 EXCEPT ![c] = {}]
      BY <1>6, <1>8, <1>9 DEF N2
    <2> HIDE DEF k, j
    <2>2. Owns(j, P, H2, N2)
      <3>1. Loses(k, P, N1, c, b, j, N2)  BY <2>1 DEF Loses
      <3> QED BY <2>1, <3>1, OwnsLose
    <2> QED BY <2>2 DEF j
  <1>11. Freed(f, P, w, g)  BY <1>1, <1>8, MergeGood DEF w
  <1>12. /\ Good(g, P, {}, {}, {}) /\ Used(g.blk, P) = Used(f.blk, P)
         /\ \A x \in Used(f.blk, P) : g.blk[x].size = f.blk[x].size
    BY <1>11 DEF Freed, UsedKept
  <1>13. Owns(g.blk, P, H2, N2)
    <2> DEFINE k == f.blk
               j == g.blk
    <2>1. /\ Owns(k, P, H2, N2) /\ Used(j, P) = Used(k, P)
          /\ \A x \in Used(k, P) : j[x].size = k[x].size
      BY <1>10, <1>12
    <2> HIDE DEF k, j
    <2>2. Owns(j, P, H2, N2)  BY <2>1, OwnsKept
    <2> QED BY <2>2 DEF j
  <1>14. N2 = N
    <2>1. N = [d \in Callers |-> N[d]]  BY <1>2
    <2> QED BY <2>1 DEF N2, N1
  <1>15. H2 = G
    <2> DEFINE A == H[c] \ {r}
               V == {x \in H[c] : x.ptr # ToPtr(b)}
    <2>1. t # r
      <3>1. t.ptr = ToPtr(new)  BY DEF IsRegion
      <3>2. r.ptr = ToPtr(b) /\ b \in Int /\ new \in Int
        <4> DEFINE k == h.blk
        <4>1. Owns(k, P, H, N)  OBVIOUS
        <4> HIDE DEF k
        <4>2. r.ptr = ToPtr(b) /\ r \in RegionSet  BY <4>1, AllBut
        <4>3. r.ptr \in Nat  BY <4>2 DEF RegionSet
        <4> QED BY <1>3, <4>2, <4>3 DEF FromPtr
      <3>3. ToPtr(b) # ToPtr(new)  BY <1>4, <3>2 DEF ToPtr
      <3> QED BY <3>1, <3>2, <3>3
    <2>2. H1[c] \ {r} = A \union {t}  BY <1>5, <2>1
    <2>3. V = A  BY <1>2
    <2>4. H2 = [H EXCEPT ![c] = H1[c] \ {r}]
      <3>1. H = [d \in Callers |-> H[d]]  BY <1>2
      <3> QED BY <3>1 DEF H1, H2
    <2>5. G = [H EXCEPT ![c] = V \union {t}]  BY DEF Replaced
    <2> HIDE DEF A, V
    <2> QED BY <2>2, <2>3, <2>4, <2>5
  <1>16. new \in DOMAIN g.blk
    <2>1. new \in Used(g.blk, P)  BY <1>3, <1>4, <1>8, <1>12
    <2> QED BY <2>1 DEF Used
  <1> QED BY <1>3, <1>12, <1>13, <1>14, <1>15, <1>16 DEF Moved

LEMMA ResizedOwns ==
    ASSUME NEW h, NEW P, NEW H, NEW N, Owns(h.blk, P, H, N), NEW c \in Callers,
           NEW r \in H[c], NEW b, b = FromPtr(r.ptr),
           NEW n \in Nat, NEW g, Resized(h, P, b, n, g),
           NEW s \in Nat, 1 <= s, s <= n, NEW t, IsRegion(t, b, s),
           NEW G, Replaced(H, c, b, t, G)
    PROVE  Moved(P, G, N, b, g)
  <1> DEFINE k == h.blk
             j == g.blk
             V == {x \in H[c] : x.ptr # ToPtr(b)}
             A == H[c] \ {r}
  <1>1. Owns(k, P, H, N)  OBVIOUS
  <1>2. /\ Good(g, P, {}, {}, {}) /\ Used(j, P) = Used(k, P)
        /\ \A x \in Used(k, P) : x # b => j[x].size = k[x].size
        /\ j[b].size \in Nat /\ j[b].size >= n
    BY DEF Resized, Size
  <1>3. G = [H EXCEPT ![c] = V \union {t}]  BY DEF Replaced
  <1> HIDE DEF k, j
  <1>4. V = A /\ r.ptr = ToPtr(b) /\ b \in Used(k, P)  BY <1>1, AllBut
  <1> HIDE DEF V
  <1>5. G = [H EXCEPT ![c] = A \union {t}] /\ t = [ptr |-> r.ptr, words |-> s]
        /\ s <= j[b].size
    <2>1. G = [H EXCEPT ![c] = A \union {t}]  BY <1>3, <1>4
    <2>2. t = [ptr |-> r.ptr, words |-> s]  BY <1>4 DEF IsRegion
    <2>3. s <= j[b].size  BY <1>2
    <2> QED BY <2>1, <2>2, <2>3
  <1>6. Owns(j, P, G, N)  BY <1>1, <1>2, <1>5, OwnsResized
  <1>7. b \in DOMAIN j /\ b \in Nat
    <2>1. b \in Used(j, P)  BY <1>2, <1>4
    <2> QED BY <1>2, <2>1, UsedIs DEF j
  <1> QED BY <1>2, <1>6, <1>7 DEF Moved, j

LEMMA ReallocStep ==
    ASSUME IInv, NEW c \in Callers, DoRealloc(c)
    PROVE  IInv'
  <1> DEFINE b == block[c]
             n == AdjustRequestSize(call[c].size, 1)
             new == Located(heap, n)
             s == call[c].size
             t == "release"
             N == Pending
  <1>1. pc[c] = "realloc" /\ pc' = [pc EXCEPT ![c] = t] /\ UNCHANGED <<isInit, lock, call, pools>>
    BY DEF DoRealloc, Goto, Become
  <1>2. Typed /\ Inside(c) /\ Owns(heap.blk, pools, held, N) /\ ~Freeing(c) /\ CallIs(c)
    BY <1>1 DEF IInv, Inside, Freeing
  <1>3. Good(heap, pools, {}, {}, {})  BY <1>1, <1>2, CalmGood
  <1>4. /\ n \in Nat /\ n < BlockSizeMax /\ call[c] \in CallSet /\ s \in Nat
        /\ (n = 0 \/ n >= BlockSizeMin) /\ (n # 0 => s >= 1 /\ s <= n)
        /\ (s >= 1 => n # 0)
    BY <1>2, CallSize
  <1>5. call[c].op = "realloc"  BY <1>1, <1>2 DEF CallIs, Ops
  <1>6. s >= 1 /\ \E r \in held[c] : FromPtr(r.ptr) = b  BY <1>1, <1>2, <1>5 DEF CallIs
  <1>7. PICK r \in held[c] : FromPtr(r.ptr) = b  BY <1>6
  <1>8. n >= 1 /\ n >= BlockSizeMin /\ s <= n /\ 1 <= s
    BY <1>4, <1>6 DEF BlockSizeMin, HeaderSize
  <1>9. t \in Places \ {"acquire", "free"} /\ t \in Places /\ t # "acquire" /\ t # "idle"
    BY DEF Places
  <1>10. held \in [Callers -> SUBSET RegionSet]  BY <1>2 DEF Owns
  <1>11. N[c] = {}
    <2>1. b \in Int  BY <1>2, CallSize
    <2> QED BY <1>2 DEF Pending
  <1> DEFINE g == heap'
             G == held'
             v == block'[c]
  <1>12. b \in Used(heap.blk, pools) /\ b \in DOMAIN heap.blk /\ b \in Nat
    <2>1. \A x \in held[c] : FromPtr(x.ptr) \in Used(heap.blk, pools)
      BY <1>2 DEF Owns, Fits
    <2>2. b \in Used(heap.blk, pools)  BY <1>7, <2>1
    <2> QED BY <1>3, <2>2, UsedIs
  <1>13. PICK x \in Int : /\ block' = [block EXCEPT ![c] = x]
                          /\ Moved(pools, G, N, x, g)
                          /\ \A d \in Callers : d # c => held'[d] = held[d]
    <2>1. CASE MustMove(heap, b, n) /\ new = NoBlock /\ Become(c, heap, b) /\ UNCHANGED held
      <3>1. g = heap /\ G = held /\ block' = [block EXCEPT ![c] = b]  BY <2>1 DEF Become
      <3>2. Moved(pools, G, N, b, g)  BY <1>2, <1>3, <1>12, <3>1 DEF Moved
      <3>3. b \in Int  BY <1>12
      <3> QED BY <3>1, <3>2, <3>3
    <2>2. CASE /\ MustMove(heap, b, n) /\ new # NoBlock
               /\ Become(c, Free(Malloc(heap, n), b), new)
               /\ Replace(c, b, Region(c, new))
      <3> DEFINE m == Malloc(heap, n)
                 r2 == Region(c, new)
                 y == new
      <3>1. /\ g = Free(m, b) /\ block' = [block EXCEPT ![c] = y] /\ y # NoBlock
            /\ Replaced(held, c, b, r2, G)
        BY <2>2 DEF Become, Replace, Replaced
      <3>2. IsRegion(r2, y, s)  BY DEF Region, IsRegion
      <3>3. Served(heap, pools, y, n, m)
        <4> HIDE DEF n
        <4> QED BY <1>3, <1>4, MallocGood
      <3> HIDE DEF m, r2, y, n, b, s, g, G, N
      <3>4. Taken(heap, pools, y, n, m)  BY <3>1, <3>3 DEF Served
      <3>5. b = FromPtr(r.ptr)  BY <1>7
      <3>6. Moved(pools, G, N, y, g)
        BY <1>2, <1>4, <1>8, <1>11, <3>1, <3>2, <3>4, <3>5, MovedOwns
      <3>7. y \in Int  BY <3>6 DEF Moved
      <3>8. \A d \in Callers : d # c => held'[d] = held[d]
        BY <1>10, <3>1 DEF G, Replaced
      <3> QED BY <3>1, <3>6, <3>7, <3>8
    <2>3. CASE /\ ~MustMove(heap, b, n) /\ Become(c, ReallocInPlace(heap, b, n), b)
               /\ Replace(c, b, Region(c, b))
      <3> DEFINE r2 == Region(c, b)
      <3>1. /\ g = ReallocInPlace(heap, b, n) /\ block' = [block EXCEPT ![c] = b]
            /\ Replaced(held, c, b, r2, G)
        BY <2>3 DEF Become, Replace, Replaced
      <3>2. IsRegion(r2, b, s)  BY DEF Region, IsRegion
      <3>m. ~MustMove(heap, b, n)  BY <2>3
      <3> HIDE DEF r2, n, b, s, g, G, N
      <3>3. Resized(heap, pools, b, n, g)
        BY <1>3, <1>4, <1>8, <1>12, <3>1, <3>m, ReallocGood
      <3>5. b = FromPtr(r.ptr)  BY <1>7
      <3>6. Moved(pools, G, N, b, g)
        BY <1>2, <1>4, <1>8, <3>1, <3>2, <3>3, <3>5, ResizedOwns
      <3>7. b \in Int  BY <1>12
      <3>8. \A d \in Callers : d # c => held'[d] = held[d]
        BY <1>10, <3>1 DEF G, Replaced
      <3> QED BY <3>1, <3>6, <3>7, <3>8
    <2> QED BY <2>1, <2>2, <2>3 DEF DoRealloc
  <1> HIDE DEF n, s, new, b
  <1>14. Moves(c, t, call[c], x) /\ pc'[c] = t /\ block'[c] = x /\ Pending' = Pending
    BY <1>1, <1>2, <1>9, <1>13, Stays
  <1>15. Owns(heap.blk, pools, held, Pending)' /\ Good(heap, pools, {}, {}, {})'
         /\ x \in DOMAIN heap'.blk
    BY <1>1, <1>13, <1>14 DEF Moved, N
  <1>16. HeapAt(c)'  BY <1>14, <1>15 DEF HeapAt
  <1>17. CallIs(c)'  BY <1>14 DEF CallIs, Ops
  <1> QED BY <1>1, <1>2, <1>4, <1>9, <1>13, <1>14, <1>15, <1>16, <1>17, InsideStep
--------------------------------------------------------------------------------
(***************************************************************************)
(* The invariant is inductive.                                             *)
(***************************************************************************)
LEMMA Starts ==
    ASSUME Init
    PROVE  IInv
  <1> DEFINE none == {}
             N == Pending
  <1>1. /\ heap = EmptyHeap /\ pools = none /\ isInit = FALSE /\ lock = FALSE
        /\ pc = [c \in Callers |-> "idle"] /\ call = [c \in Callers |-> NoCall]
        /\ block = [c \in Callers |-> NoBlock] /\ held = [c \in Callers |-> none]
    BY DEF Init
  <1>2. Good(heap, pools, {}, {}, {})  BY <1>1, EmptyGood
  <1>3. NoCall \in CallSet  BY RequestsIn DEF NoCall, CallSet
  <1>4. "idle" \in Places /\ NoBlock \in Int  BY DEF Places, NoBlock
  <1>5. Typed
    <2>1. call \in [Callers -> CallSet]
      <3> HIDE DEF CallSet
      <3> QED BY <1>1, <1>3
    <2> QED BY <1>1, <1>4, <2>1 DEF Typed
  <1>6. \A c \in Callers : pc[c] = "idle" /\ block[c] = NoBlock /\ held[c] = none
    BY <1>1
  <1>7. OneInside /\ NotYet  BY <1>1, <1>6 DEF OneInside, NotYet, Inside
  <1>8. \A c \in Callers : HeapAt(c) /\ CallIs(c)  BY <1>6 DEF HeapAt, CallIs, Ops
  <1>9. N = [c \in Callers |-> none]  BY <1>6 DEF Pending, Freeing
  <1>10. Used(heap.blk, pools) = none
    <2>1. heap.blk = [b \in {} |-> 0]  BY <1>1 DEF EmptyHeap
    <2>2. DOMAIN heap.blk = {}  BY <2>1
    <2> QED BY <2>2 DEF Used
  <1>11. Owns(heap.blk, pools, held, N)
    <2> DEFINE U == Used(heap.blk, pools)
    <2>1. U = none  BY <1>10
    <2>2. \A c \in Callers : N[c] = none /\ held[c] = none  BY <1>1, <1>9
    <2>3. held \in [Callers -> SUBSET RegionSet] /\ N \in [Callers -> SUBSET Int]
      BY <1>1, <1>9
    <2> HIDE DEF N, U
    <2> QED BY <2>1, <2>2, <2>3 DEF Owns, U
  <1> QED BY <1>2, <1>5, <1>7, <1>8, <1>11 DEF IInv, Whole

LEMMA StepsStep ==
    ASSUME IInv, NEW c \in Callers, Steps(c)
    PROVE  IInv'
  <1>1. CASE Acquire(c)  BY <1>1, AcquireStep
  <1>2. CASE Locate(c)  BY <1>2, LocateStep
  <1>3. CASE Prepare(c)  BY <1>3, PrepareStep
  <1>4. CASE MarkFree(c)  BY <1>4, MarkFreeStep
  <1>5. CASE MergeFree(c)  BY <1>5, MergeFreeStep
  <1>6. CASE DoMemalign(c)  BY <1>6, MemalignStep
  <1>7. CASE DoRealloc(c)  BY <1>7, ReallocStep
  <1>8. CASE DoPools(c)  BY <1>8, PoolsStep
  <1>9. CASE Release(c)  BY <1>9, ReleaseStep
  <1> QED BY <1>1, <1>2, <1>3, <1>4, <1>5, <1>6, <1>7, <1>8, <1>9 DEF Steps

LEMMA Goes ==
    ASSUME IInv, [Next]_vars
    PROVE  IInv'
  <1>1. CASE PoolInit  BY <1>1, PoolInitStep
  <1>2. CASE \E c \in Callers : Calls(c) \/ Steps(c)
    <2>1. PICK c \in Callers : Calls(c) \/ Steps(c)  BY <1>2
    <2> QED BY <2>1, CallsStep, StepsStep
  <1>3. CASE UNCHANGED vars
    <2>1. UNCHANGED <<heap, pools, isInit, lock, pc, call, block, held>>
      BY <1>3 DEF vars
    <2>2. Pending' = Pending  BY <2>1 DEF Pending, Freeing
    <2>3. Typed' /\ OneInside' /\ NotYet' /\ Whole'
      BY <2>1 DEF IInv, Typed, OneInside, NotYet, Whole, Calm, Inside
    <2>4. \A c \in Callers : HeapAt(c)' /\ CallIs(c)'
      BY <2>1 DEF IInv, HeapAt, CallIs
    <2>5. Owns(heap.blk, pools, held, Pending)'  BY <2>1, <2>2 DEF IInv
    <2> QED BY <2>3, <2>4, <2>5 DEF IInv
  <1> QED BY <1>1, <1>2, <1>3 DEF Next

(***************************************************************************)
(* IInv holds in every state: the callers' calls, one at a time past the   *)
(* lock, leave the heap good whenever none is between two halves.          *)
(***************************************************************************)
THEOREM Inductive == Spec => []IInv
  <1>1. Init => IInv  BY Starts
  <1>2. IInv /\ [Next]_vars => IInv'  BY Goes
  <1> QED BY <1>1, <1>2, PTL DEF Spec

--------------------------------------------------------------------------------
(***************************************************************************)
(* What the invariant implies.                                             *)
(***************************************************************************)
\* The blocks tile the pools, also between the halves of an operation.
Laid(k, P) ==
    P \subseteq Pools /\ Tile(k, Firsts(P), Stops(P)) /\ Homed(DOMAIN k, P)

LEMMA IsLaid ==
    ASSUME IInv
    PROVE  Laid(heap.blk, pools)
  <1>0. \A W, L, R : Good(heap, pools, W, L, R) => Laid(heap.blk, pools)
    BY DEF Good, Laid
  <1>1. CASE Calm  BY <1>0, <1>1 DEF IInv, Whole
  <1>2. CASE ~Calm
    <2>1. PICK c \in Callers : pc[c] \in {"prepare", "merge"}  BY <1>2 DEF Calm
    <2>2. HeapAt(c)  BY DEF IInv
    <2>3. CASE pc[c] = "prepare"
      <3>1. Ready(heap, pools, block[c], AdjustRequestSize(call[c].size, 1))
        BY <2>2, <2>3 DEF HeapAt
      <3> QED BY <1>0, <3>1 DEF Ready
    <2>4. CASE pc[c] = "merge"  BY <1>0, <2>2, <2>4 DEF HeapAt, Loose
    <2> QED BY <2>1, <2>3, <2>4
  <1> QED BY <1>1, <1>2

\* A block that a caller's call is about is in the heap.
LEMMA BlockIn ==
    ASSUME IInv, NEW c \in Callers
    PROVE  block[c] \in DOMAIN heap.blk \union {NoBlock}
  <1> DEFINE b == block[c]
             U == Used(heap.blk, pools)
             N == Pending
  <1>1. /\ HeapAt(c) /\ CallIs(c) /\ pc[c] \in Places /\ Owns(heap.blk, pools, held, N)
    BY DEF IInv, Typed
  <1>2. U \subseteq DOMAIN heap.blk  BY DEF Used
  <1>3. \A k : \A x \in FreeSet(k) : x \in DOMAIN k  BY DEF FreeSet
  <1>4. CASE pc[c] = "idle"  BY <1>1, <1>4 DEF CallIs
  <1>5. CASE pc[c] \in Ops \union {"acquire"} /\ call[c].op \notin {"free", "realloc"}
    BY <1>1, <1>5 DEF CallIs
  <1>6. CASE pc[c] \in Ops \union {"acquire"} /\ call[c].op = "realloc"
    <2>1. pc[c] \in {"acquire", "realloc"}  BY <1>1, <1>6 DEF CallIs
    <2>2. PICK r \in held[c] : FromPtr(r.ptr) = b  BY <1>1, <1>6, <2>1 DEF CallIs
    <2>3. b \in U  BY <1>1, <2>2 DEF Owns, Fits
    <2> QED BY <1>2, <2>3
  <1>7. CASE pc[c] \in Ops \union {"acquire"} /\ call[c].op = "free"
    <2>1. pc[c] \in {"acquire", "free"}  BY <1>1, <1>7 DEF CallIs
    <2>2. N[c] = {b}  BY <1>7, <2>1 DEF Pending, Freeing
    <2>3. b \in U
      <3> HIDE DEF N, b, U
      <3> QED BY <1>1, <2>2 DEF Owns, U
    <2> QED BY <1>2, <2>3
  <1>8. CASE pc[c] = "prepare"
    <2>1. Ready(heap, pools, b, AdjustRequestSize(call[c].size, 1))
      BY <1>1, <1>8 DEF HeapAt
    <2>2. b = NoBlock \/ Good(heap, pools, {b}, {}, {})  BY <2>1 DEF Ready
    <2> QED BY <1>3, <2>2 DEF Good
  <1>9. CASE pc[c] = "merge"
    <2>1. Good(heap, pools, {b}, {b}, {b})  BY <1>1, <1>9 DEF HeapAt, Loose
    <2> QED BY <1>3, <2>1 DEF Good
  <1>10. CASE pc[c] = "release"  BY <1>1, <1>10 DEF HeapAt
  <1> QED BY <1>1, <1>4, <1>5, <1>6, <1>7, <1>8, <1>9, <1>10 DEF Places

(***************************************************************************)
(* Type correctness: a header's size, flags and pointer are always of a    *)
(* block of the pools, the pointer one that exists or the owner's data.    *)
(***************************************************************************)
THEOREM TypeCorrect == Spec => []TypeOK
  <1>1. ASSUME IInv PROVE TypeOK
    <2>1. Laid(heap.blk, pools)  BY <1>1, IsLaid
    <2>2. BlockSizeMax \in Nat  BY Slots
    <2>3. ASSUME NEW b \in DOMAIN heap.blk
          PROVE  /\ heap.blk[b].size \in 0 .. BlockSizeMax
                 /\ heap.blk[b].free \in BOOLEAN /\ heap.blk[b].prevFree \in BOOLEAN
                 /\ heap.blk[b].prev \in DOMAIN heap.blk \union {NoBlock, UserData}
      <3> DEFINE k == heap.blk
                 F == Firsts(pools)
                 E == Stops(pools)
      <3>1. pools \subseteq Pools /\ Tile(k, F, E) /\ Homed(DOMAIN k, pools)
        BY <2>1 DEF Laid
      <3>2. k[b].size \in Nat /\ k[b].size < BlockSizeMax  BY <3>1, SizeBound
      <3>3. k[b].free \in BOOLEAN /\ k[b].prevFree \in BOOLEAN
        <4> HIDE DEF k, F, E
        <4> QED BY <3>1, HeaderIs DEF k
      <3>4. k[b].prev = UserData \/ k[b].prev \in DOMAIN k
        <4> HIDE DEF F, E
        <4> QED BY <3>1, Predecessor
      <3> QED BY <2>2, <3>2, <3>3, <3>4
    <2>4. pools \subseteq Pools  BY <2>1 DEF Laid
    <2>5. isInit \in BOOLEAN /\ lock \in BOOLEAN  BY <1>1 DEF IInv, Typed
    <2>6. \A c \in Callers : block[c] \in DOMAIN heap.blk \union {NoBlock}
      BY <1>1, BlockIn
    <2> QED BY <2>3, <2>4, <2>5, <2>6 DEF TypeOK
  <1>2. IInv => TypeOK  BY <1>1
  <1> QED BY <1>2, Inductive, PTL

LEMMA CalmUnlocked ==
    ASSUME IInv, ~lock
    PROVE  Good(heap, pools, {}, {}, {})
  <1>1. \A c \in Callers : ~Inside(c)  BY DEF IInv, OneInside
  <1>2. Calm  BY <1>1 DEF Calm, Inside
  <1> QED BY <1>2 DEF IInv, Whole

(***************************************************************************)
(* tlsf_check and tlsf_check_pool find nothing wrong whenever the lock is  *)
(* free, after any calls of any number of callers.                         *)
(***************************************************************************)
THEOREM Consistent == Spec => []HeapConsistent
  <1>1. ASSUME IInv PROVE HeapConsistent
    <2> SUFFICES ASSUME ~lock
                 PROVE  ListsConsistent(heap) /\ \A p \in pools : PoolConsistent(heap, p)
      BY DEF HeapConsistent
    <2>1. Good(heap, pools, {}, {}, {})  BY <1>1, CalmUnlocked
    <2>2. ListsConsistent(heap)  BY <2>1, ListsGood
    <2>3. \A p \in pools : PoolConsistent(heap, p)  BY <2>1, PoolGood
    <2> QED BY <2>2, <2>3
  <1>2. IInv => HeapConsistent  BY <1>1
  <1> QED BY <1>2, Inductive, PTL

\* A free block of a good heap is in one place of one list.
LEMMA ListedOnce ==
    ASSUME Good(heap, pools, {}, {}, {}), NEW b \in FreeSet(heap.blk)
    PROVE  Cardinality(Listed(b)) = 1
  <1> DEFINE S == FreeSet(heap.blk)
             i == At(heap, b).fl
             j == At(heap, b).sl
             none == {}
  <1>1. S \ none = S  OBVIOUS
  <1>2. Filed(heap, S)  BY <1>1 DEF Good
  <1>3. i \in Rows /\ j \in Cols  BY <1>2 DEF Filed
  <1>4. \A m \in Rows, n \in Cols : ListExact(heap, m, n, S)  BY <1>2 DEF Filed
  <1> HIDE DEF S
  <1>5. Holds(heap.list[i][j], b)
    <2>1. In(heap, b, i, j) /\ b \in S  BY DEF In, S
    <2> QED BY <1>3, <1>4, <2>1 DEF ListExact
  <1>6. PICK k \in DOMAIN heap.list[i][j] : heap.list[i][j][k] = b  BY <1>5 DEF Holds
  <1>7. \A m \in Rows, n \in Cols : \A l \in DOMAIN heap.list[m][n] :
            heap.list[m][n][l] = b => m = i /\ n = j /\ l = k
    <2> TAKE m \in Rows, n \in Cols
    <2> TAKE l \in DOMAIN heap.list[m][n]
    <2> HAVE heap.list[m][n][l] = b
    <2>1. In(heap, b, m, n)  BY <1>4 DEF ListExact, Holds
    <2>2. m = i /\ n = j  BY <2>1 DEF In
    <2>3. Once(heap.list[i][j])  BY <1>3, <1>4 DEF ListExact
    <2> QED BY <1>6, <2>2, <2>3 DEF Once
  <1> HIDE DEF i, j
  <1> DEFINE K(m, n) == {l \in DOMAIN heap.list[m][n] : heap.list[m][n][l] = b}
  <1>8. Listed(b) = UNION {{m} \X {n} \X K(m, n) : m \in Rows, n \in Cols}
    BY DEF Listed, Rows, Cols
  <1>9. K(i, j) = {k}  BY <1>3, <1>6, <1>7
  <1>10. \A m \in Rows, n \in Cols : \A l \in K(m, n) : m = i /\ n = j /\ l = k
    BY <1>7
  <1> HIDE DEF K
  <1>11. \A t : t \in Listed(b) => t = <<i, j, k>>
    <2> TAKE t
    <2> HAVE t \in Listed(b)
    <2>1. PICK m \in Rows, n \in Cols : t \in {m} \X {n} \X K(m, n)  BY <1>8
    <2>2. PICK l \in K(m, n) : t = <<m, n, l>>  BY <2>1
    <2> QED BY <1>10, <2>2
  <1>12. <<i, j, k>> \in Listed(b)
    <2> DEFINE t == <<i, j, k>>
               V == {i} \X {j} \X K(i, j)
    <2>1. t \in V  BY <1>9
    <2>2. V \in {{m} \X {n} \X K(m, n) : m \in Rows, n \in Cols}  BY <1>3
    <2> HIDE DEF t, V
    <2>3. t \in Listed(b)  BY <1>8, <2>1, <2>2
    <2> QED BY <2>3 DEF t
  <1>13. Listed(b) = {<<i, j, k>>}  BY <1>11, <1>12
  <1> QED BY <1>13, FS_Singleton

(***************************************************************************)
(* No memory leaks, whatever is allocated, freed, moved and resized by     *)
(* whom: each free block is in one place of one list, and each used block  *)
(* has an owner who asked for no more than it holds.                       *)
(***************************************************************************)
THEOREM NoLeak == Spec => []NothingLost
  <1>1. ASSUME IInv PROVE NothingLost
    <2> DEFINE k == heap.blk
               N == Pending
    <2> SUFFICES ASSUME ~lock, NEW b \in DOMAIN k
                 PROVE  IF k[b].free THEN Cardinality(Listed(b)) = 1
                        ELSE k[b].size = 0 \/ Owned(b)
      BY DEF NothingLost
    <2>1. Good(heap, pools, {}, {}, {})  BY <1>1, CalmUnlocked
    <2>2. CASE k[b].free
      <3>1. b \in FreeSet(heap.blk)  BY <2>2 DEF FreeSet
      <3> QED BY <2>1, <2>2, <3>1, ListedOnce
    <2>3. CASE ~k[b].free /\ b \in Stops(pools)
      <3>1. Tile(k, Firsts(pools), Stops(pools))  BY <2>1 DEF Good
      <3>2. k[b].size = 0  BY <2>3, <3>1 DEF Tile
      <3> QED BY <2>3, <3>2
    <2>4. CASE ~k[b].free /\ b \notin Stops(pools)
      <3>1. Owns(k, pools, held, N)  BY <1>1 DEF IInv
      <3>2. b \in Used(k, pools)  BY <2>4 DEF Used
      <3>3. PICK c \in Callers : b \in N[c] \/ \E r \in held[c] : FromPtr(r.ptr) = b
        BY <3>1, <3>2 DEF Owns
      <3>4. CASE b \in N[c]
        <4>1. Freeing(c) /\ block[c] = b  BY <3>4 DEF Pending
        <4> QED BY <2>4, <4>1 DEF Freeing, Owned
      <3>5. CASE \E r \in held[c] : FromPtr(r.ptr) = b
        <4>1. PICK r \in held[c] : FromPtr(r.ptr) = b  BY <3>5
        <4>2. r \in RegionSet /\ Fits(k, pools, r)  BY <3>1 DEF Owns
        <4>3. r.ptr \in Nat  BY <4>2 DEF RegionSet
        <4>4. r.ptr = ToPtr(b) /\ r.words <= Size(heap, b)
          BY <4>1, <4>2, <4>3 DEF FromPtr, ToPtr, Fits, Size
        <4> QED BY <2>4, <4>4 DEF Owned
      <3> QED BY <3>3, <3>4, <3>5
    <2> QED BY <2>2, <2>3, <2>4
  <1>2. IInv => NothingLost  BY <1>1
  <1> QED BY <1>2, Inductive, PTL

(***************************************************************************)
(* exAllocatePool returns NULL only if no free block is as large as the    *)
(* class rounding asks, whatever other callers wait for the lock.          *)
(***************************************************************************)
THEOREM RefusedRightly == Spec => []RefusedOnlyWithoutBlock
  <1>1. ASSUME IInv PROVE RefusedOnlyWithoutBlock
    <2> SUFFICES ASSUME NEW c \in Callers, pc[c] = "prepare", block[c] = NoBlock,
                        call[c].size > 0, NEW b \in FreeBlocks(heap)
                 PROVE  Size(heap, b) < RoundedUp(AdjustRequestSize(call[c].size, 1))
      BY DEF RefusedOnlyWithoutBlock
    <2> DEFINE n == AdjustRequestSize(call[c].size, 1)
    <2>1. HeapAt(c) /\ Typed  BY <1>1 DEF IInv
    <2>2. Ready(heap, pools, block[c], n)  BY <2>1 DEF HeapAt
    <2>3. NoneLocated(heap, FreeSet(heap.blk), n)  BY <2>2 DEF Ready
    <2>4. n # 0
      <3>1. call[c].size \in Nat /\ (call[c].size >= 1 => n # 0)
        <4> HIDE DEF n
        <4> QED BY <2>1, CallSize DEF n
      <3> QED BY <3>1
    <2>5. b \in FreeSet(heap.blk)  BY DEF FreeBlocks, FreeSet
    <2> QED BY <2>3, <2>4, <2>5 DEF NoneLocated
  <1>2. IInv => RefusedOnlyWithoutBlock  BY <1>1
  <1> QED BY <1>2, Inductive, PTL
--------------------------------------------------------------------------------
(***************************************************************************)
(* The heap implements Heap: each step is one of Heap's or none.           *)
(***************************************************************************)
Separate == SeparateIn(pools, Regions)

LEMMA IsSeparate ==
    ASSUME IInv
    PROVE  Separate
  <1> DEFINE k == heap.blk
             N == Pending
             R == Regions
  <1>1. Laid(k, pools)  BY IsLaid
  <1>2. Owns(k, pools, held, N)  BY DEF IInv
  <1>3. \A r \in R : \E c \in Callers : r \in held[c]  BY DEF Regions
  <1> HIDE DEF k, N, R
  <1>5. pools \subseteq Pools /\ Tile(k, Firsts(pools), Stops(pools)) /\ Homed(DOMAIN k, pools)
    BY <1>1 DEF Laid
  <1>4. SeparateIn(pools, R)  BY <1>2, <1>3, <1>5, AllApart
  <1> QED BY <1>4 DEF Separate, R

LEMMA Stutters ==
    ASSUME UNCHANGED <<pools, held>>
    PROVE  UNCHANGED HeapOf!vars
  <1>1. Regions' = Regions  BY DEF Regions
  <1> QED BY <1>1 DEF HeapOf!vars

\* c holds one more region.
LEMMA RegionsGain ==
    ASSUME NEW c \in Callers, held \in [Callers -> SUBSET RegionSet], NEW r,
           held' = [held EXCEPT ![c] = held[c] \union {r}]
    PROVE  Regions' = Regions \union {r}
  <1>1. /\ held'[c] = held[c] \union {r}
        /\ \A d \in Callers : d # c => held'[d] = held[d]
    OBVIOUS
  <1>2. \A s : s \in Regions <=> \E d \in Callers : s \in held[d]  BY DEF Regions
  <1>3. \A s : s \in Regions' <=> \E d \in Callers : s \in held'[d]  BY DEF Regions
  <1>4. ASSUME NEW s PROVE s \in Regions' <=> s \in Regions \union {r}
    <2>1. ASSUME s \in Regions' PROVE s \in Regions \union {r}
      <3>1. PICK d \in Callers : s \in held'[d]  BY <1>3, <2>1
      <3>2. s \in held[d] \/ s = r  BY <1>1, <3>1
      <3> QED BY <1>2, <3>2
    <2>2. ASSUME s \in Regions PROVE s \in Regions'
      <3>1. PICK d \in Callers : s \in held[d]  BY <1>2, <2>2
      <3>2. s \in held'[d]  BY <1>1, <3>1
      <3> QED BY <1>3, <3>2
    <2>3. r \in Regions'  BY <1>1, <1>3
    <2> QED BY <2>1, <2>2, <2>3
  <1> QED BY <1>4

\* c holds T instead of r, that it alone held.
LEMMA RegionsReplaced ==
    ASSUME NEW c \in Callers, held \in [Callers -> SUBSET RegionSet], NEW r \in held[c],
           \A d \in Callers : r \in held[d] => d = c,
           NEW T, held' = [held EXCEPT ![c] = (held[c] \ {r}) \union T]
    PROVE  r \in Regions /\ Regions' = (Regions \ {r}) \union T
  <1>1. /\ held'[c] = (held[c] \ {r}) \union T
        /\ \A d \in Callers : d # c => held'[d] = held[d]
    OBVIOUS
  <1>2. \A s : s \in Regions <=> \E d \in Callers : s \in held[d]  BY DEF Regions
  <1>3. \A s : s \in Regions' <=> \E d \in Callers : s \in held'[d]  BY DEF Regions
  <1>4. ASSUME NEW s PROVE s \in Regions' <=> s \in (Regions \ {r}) \union T
    <2>1. ASSUME s \in Regions' PROVE s \in (Regions \ {r}) \union T
      <3>1. PICK d \in Callers : s \in held'[d]  BY <1>3, <2>1
      <3>2. (s \in held[d] /\ s # r) \/ s \in T  BY <1>1, <3>1
      <3> QED BY <1>2, <3>2
    <2>2. ASSUME s \in Regions, s # r PROVE s \in Regions'
      <3>1. PICK d \in Callers : s \in held[d]  BY <1>2, <2>2
      <3>2. s \in held'[d]  BY <1>1, <2>2, <3>1
      <3> QED BY <1>3, <3>2
    <2>3. s \in T => s \in Regions'  BY <1>1, <1>3
    <2> QED BY <2>1, <2>2, <2>3
  <1>5. r \in Regions  BY <1>2
  <1> QED BY <1>4, <1>5

LEMMA HeldAlone ==
    ASSUME IInv, NEW c \in Callers, NEW r \in held[c]
    PROVE  /\ held \in [Callers -> SUBSET RegionSet] /\ r.ptr \in Nat
           /\ \A d \in Callers : r \in held[d] => d = c
           /\ {s \in held[c] : s.ptr # r.ptr} = held[c] \ {r}
  <1> DEFINE N == Pending
  <1>1. Owns(heap.blk, pools, held, N)  BY DEF IInv
  <1> HIDE DEF N
  <1>2. held \in [Callers -> SUBSET RegionSet]  BY <1>1 DEF Owns
  <1>3. r.ptr \in Nat  BY <1>2 DEF RegionSet
  <1>4. \A d \in Callers : r \in held[d] => d = c  BY <1>1 DEF Owns
  <1>5. \A s \in held[c] : s.ptr = r.ptr => s = r  BY <1>1 DEF Owns
  <1> QED BY <1>2, <1>3, <1>4, <1>5

\* A call that returns a block hands out a region.
LEMMA GainAllocates ==
    ASSUME IInv, Separate', NEW c \in Callers, NEW b, Gain(c, b), UNCHANGED pools
    PROVE  HeapOf!Allocate \/ UNCHANGED HeapOf!vars
  <1> DEFINE r == Region(c, b)
             N == Pending
  <1>1. held \in [Callers -> SUBSET RegionSet]
    <2>1. Owns(heap.blk, pools, held, N)  BY DEF IInv
    <2> QED BY <2>1 DEF Owns
  <1>2. /\ b = NoBlock => held' = held
        /\ b # NoBlock => held' = [held EXCEPT ![c] = held[c] \union {r}]
    BY <1>1, GainIs
  <1> HIDE DEF r
  <1>3. CASE b = NoBlock  BY <1>2, <1>3, Stutters
  <1>4. CASE b # NoBlock
    <2>1. Regions' = Regions \union {r}  BY <1>1, <1>2, <1>4, RegionsGain
    <2>2. CASE r \in Regions
      <3>1. Regions' = Regions  BY <2>1, <2>2
      <3> QED BY <3>1 DEF HeapOf!vars
    <2>3. CASE r \notin Regions
      <3>1. \E p \in pools : HeapOf!Within(r, p)  BY <2>1 DEF Separate, SeparateIn
      <3>2. \A s \in Regions : HeapOf!Words(r) \intersect HeapOf!Words(s) = {}
        BY <2>1, <2>3 DEF Separate, SeparateIn
      <3>3. HeapOf!MayAdd(r, Regions)  BY <3>1, <3>2 DEF HeapOf!MayAdd
      <3> QED BY <2>1, <2>3, <3>3 DEF HeapOf!Allocate
    <2> QED BY <2>2, <2>3
  <1> QED BY <1>3, <1>4

LEMMA CallFreeFrees ==
    ASSUME IInv, NEW c \in Callers, CallFree(c)
    PROVE  HeapOf!Free
  <1>1. PICK r \in held[c] : /\ held' = [held EXCEPT ![c] = held[c] \ {r}]
                             /\ UNCHANGED pools
    BY DEF CallFree, Begin
  <1> DEFINE T == {}
  <1>2. held' = [held EXCEPT ![c] = (held[c] \ {r}) \union T]
    <2>1. (held[c] \ {r}) \union T = held[c] \ {r}  OBVIOUS
    <2> HIDE DEF T
    <2> QED BY <1>1, <2>1
  <1> HIDE DEF T
  <1>3. r \in Regions /\ Regions' = (Regions \ {r}) \union T
    BY <1>2, HeldAlone, RegionsReplaced, ZenonT(60)
  <1>4. Regions' = Regions \ {r}  BY <1>3 DEF T
  <1> QED BY <1>1, <1>3, <1>4 DEF HeapOf!Free

LEMMA ReallocMoves ==
    ASSUME IInv, Separate', NEW c \in Callers, DoRealloc(c)
    PROVE  HeapOf!Reallocate \/ HeapOf!Free \/ UNCHANGED HeapOf!vars
  <1> DEFINE b == block[c]
  <1>1. pc[c] = "realloc" /\ UNCHANGED pools  BY DEF DoRealloc, Goto
  <1>2. CASE UNCHANGED held  BY <1>1, <1>2, Stutters
  <1>3. CASE \E t : Replace(c, b, t)
    <2>1. PICK t : Replace(c, b, t)  BY <1>3
    <2>2. CallIs(c)  BY DEF IInv
    <2>3. call[c].op = "realloc"  BY <1>1, <2>2 DEF CallIs, Ops
    <2>4. PICK r \in held[c] : FromPtr(r.ptr) = b  BY <1>1, <2>2, <2>3 DEF CallIs
    <2> DEFINE A == held[c] \ {r}
               V == {s \in held[c] : s.ptr # ToPtr(b)}
               T == {t}
    <2> HIDE DEF b
    <2>5. V = A
      <3>1. r.ptr \in Nat /\ {s \in held[c] : s.ptr # r.ptr} = A  BY HeldAlone
      <3>2. r.ptr = ToPtr(b)  BY <2>4, <3>1 DEF FromPtr, ToPtr
      <3> QED BY <3>1, <3>2
    <2>6. held' = [held EXCEPT ![c] = V \union T]  BY <2>1 DEF Replace
    <2>7. held' = [held EXCEPT ![c] = A \union T]
      <3> HIDE DEF V, A
      <3> QED BY <2>5, <2>6
    <2> HIDE DEF T, V
    <2>8. r \in Regions /\ Regions' = (Regions \ {r}) \union T
      BY <2>7, HeldAlone, RegionsReplaced
    <2>9. CASE t \in Regions \ {r}
      <3>1. Regions' = Regions \ {r}  BY <2>8, <2>9 DEF T
      <3> QED BY <1>1, <2>8, <3>1 DEF HeapOf!Free
    <2>10. CASE t \notin Regions \ {r}
      <3>1. Regions' = (Regions \ {r}) \union {t}  BY <2>8 DEF T
      <3>2. \E p \in pools : HeapOf!Within(t, p)  BY <1>1, <3>1 DEF Separate, SeparateIn
      <3>3. \A s \in Regions \ {r} : HeapOf!Words(t) \intersect HeapOf!Words(s) = {}
        BY <2>10, <3>1 DEF Separate, SeparateIn
      <3>4. HeapOf!MayAdd(t, Regions \ {r})  BY <3>2, <3>3 DEF HeapOf!MayAdd
      <3>5. t \in Regions'  BY <3>1
      <3> QED BY <1>1, <2>8, <3>1, <3>4, <3>5 DEF HeapOf!Reallocate
    <2> QED BY <2>9, <2>10
  <1> QED BY <1>2, <1>3 DEF DoRealloc

LEMMA PoolsMove ==
    ASSUME IInv, Separate', NEW c \in Callers, DoPools(c)
    PROVE  HeapOf!AddPool \/ HeapOf!RemovePool \/ UNCHANGED HeapOf!vars
  <1>1. UNCHANGED held  BY DEF DoPools
  <1>2. Regions' = Regions  BY <1>1 DEF Regions
  <1>3. CASE \E p \in MorePools \ pools : pools' = pools \union {p}
    <2>1. PICK p \in MorePools \ pools : pools' = pools \union {p}  BY <1>3
    <2>2. p \in pools' \ pools  BY <2>1
    <2> QED BY <1>2, <2>1, <2>2 DEF HeapOf!AddPool
  <1>4. CASE \E p \in pools : pools' = pools \ {p}
    <2>1. PICK p \in pools : pools' = pools \ {p}  BY <1>4
    <2>2. pools \subseteq Pools  BY IsLaid DEF Laid
    <2>3. ASSUME NEW r \in Regions, HeapOf!Within(r, p) PROVE FALSE
      <3>1. PICK q \in pools' : HeapOf!Within(r, q)  BY <1>2 DEF Separate, SeparateIn
      <3>2. r.ptr \in HeapOf!Words(r)  BY <1>2 DEF Separate, SeparateIn
      <3>3. r.ptr \in p.mem .. p.mem + p.words - 1 /\ r.ptr \in q.mem .. q.mem + q.words - 1
        BY <2>3, <3>1, <3>2 DEF HeapOf!Within
      <3>4. p \in Pools /\ q \in Pools /\ p # q  BY <2>1, <2>2
      <3>5. Apart(p, q)  BY <3>4, PoolAssumption
      <3>6. p.mem \in Nat /\ p.words \in Int /\ q.mem \in Nat /\ q.words \in Int
        BY <3>4, PoolIs
      <3> QED BY <3>3, <3>5, <3>6 DEF Apart
    <2> QED BY <1>2, <2>1, <2>3 DEF HeapOf!RemovePool
  <1>5. CASE UNCHANGED pools  BY <1>1, <1>5, Stutters
  <1> QED BY <1>3, <1>4, <1>5 DEF DoPools

LEMMA StepImplements ==
    ASSUME IInv, Separate', [Next]_vars
    PROVE  HeapOf!Next \/ UNCHANGED HeapOf!vars
  <1>1. CASE PoolInit
    <2>1. pools = {}  BY <1>1 DEF PoolInit, IInv, NotYet
    <2>2. RootPool \in pools' \ pools /\ pools' = pools \union {RootPool} /\ UNCHANGED held
      BY <1>1, <2>1 DEF PoolInit
    <2>3. Regions' = Regions  BY <2>2 DEF Regions
    <2> QED BY <2>2, <2>3 DEF HeapOf!Next, HeapOf!AddPool
  <1>2. ASSUME NEW c \in Callers, Calls(c) PROVE HeapOf!Next \/ UNCHANGED HeapOf!vars
    <2>1. CASE CallFree(c)  BY <2>1, CallFreeFrees DEF HeapOf!Next
    <2>2. CASE ~CallFree(c)
      <3>1. UNCHANGED <<pools, held>>
        BY <1>2, <2>2 DEF Calls, CallAllocate, CallMemalign, CallRealloc, CallPools, Begin
      <3> QED BY <3>1, Stutters
    <2> QED BY <2>1, <2>2
  <1>3. ASSUME NEW c \in Callers, Steps(c) PROVE HeapOf!Next \/ UNCHANGED HeapOf!vars
    <2>1. CASE Prepare(c)
      <3>1. Gain(c, block[c]) /\ UNCHANGED pools  BY <2>1 DEF Prepare
      <3> QED BY <3>1, GainAllocates DEF HeapOf!Next
    <2>2. CASE DoMemalign(c)
      <3>1. PICK b : Gain(c, b) /\ UNCHANGED pools  BY <2>2 DEF DoMemalign
      <3> QED BY <3>1, GainAllocates DEF HeapOf!Next
    <2>3. CASE DoRealloc(c)  BY <2>3, ReallocMoves DEF HeapOf!Next
    <2>4. CASE DoPools(c)  BY <2>4, PoolsMove DEF HeapOf!Next
    <2>5. CASE Acquire(c) \/ Locate(c) \/ MarkFree(c) \/ MergeFree(c) \/ Release(c)
      <3>1. UNCHANGED <<pools, held>>
        BY <2>5 DEF Acquire, Locate, MarkFree, MergeFree, Release
      <3> QED BY <3>1, Stutters
    <2> QED BY <1>3, <2>1, <2>2, <2>3, <2>4, <2>5 DEF Steps
  <1>4. CASE UNCHANGED vars
    <2>1. UNCHANGED <<pools, held>>  BY <1>4 DEF vars
    <2> QED BY <2>1, Stutters
  <1> QED BY <1>1, <1>2, <1>3, <1>4 DEF Next

(***************************************************************************)
(* To its callers the kernel heap is the abstract one: memory of a pool    *)
(* that nobody else holds, handed out, moved and given back in one step    *)
(* each, however the calls of the cores interleave.                        *)
(***************************************************************************)
THEOREM Implements == Spec => ImplementsHeap
  <1>1. Init => HeapOf!Init
    <2> SUFFICES ASSUME Init PROVE HeapOf!Init
      OBVIOUS
    <2>1. pools = {} /\ \A c \in Callers : held[c] = {}  BY DEF Init
    <2>2. Regions = {}  BY <2>1 DEF Regions
    <2> QED BY <2>1, <2>2 DEF HeapOf!Init
  <1>2. IInv /\ Separate' /\ [Next]_vars => [HeapOf!Next]_(HeapOf!vars)
    BY StepImplements
  <1>3. IInv => Separate  BY IsSeparate
  <1> QED BY <1>1, <1>2, <1>3, Inductive, PTL DEF Spec, ImplementsHeap, HeapOf!Spec
===============================================================================
