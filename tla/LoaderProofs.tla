------------------------------ MODULE LoaderProofs ------------------------------
(***************************************************************************)
(* What page tables and frames are to Loader, for any number of levels,    *)
(* entries, frames, processes and programs, and whatever free frames hold: *)
(* every frame has one use, the tables of the address spaces are trees     *)
(* that share nothing, what a process is started with is what its program  *)
(* says, and the tables implement AddressSpaces.                           *)
(*                                                                         *)
(* The walks over the levels of the tables are recursive functions; what   *)
(* is shown of them level by level rests on Down (OmarProofs) and Iterates. *)
(***************************************************************************)
EXTENDS Loader, OmarProofs

EntryType == [frame : Frames, flags : SUBSET {"P", "RW", "US", "NX"}]
TableType == [0 .. Fan - 1 -> EntryType]
MemType == [free : SUBSET Frames, tab : [Frames -> TableType]]

\* The table entry i of table t leads to, or 0.
Follow(m, t, i) == IF Present(m.tab[t][i]) THEN m.tab[t][i].frame ELSE 0

\* The tables on the way to page p.
IsWalk(m, r, p, w) ==
    /\ w \in [0 .. Top -> Frames] /\ w[Top] = r
    /\ \A l \in 0 .. Top - 1 : w[l] = Follow(m, w[l + 1], LevelIdx(p, l + 1))

Walk(m, r, p) == CHOOSE w : IsWalk(m, r, p, w)

Leaf(m, t, p) ==
    IF Present(m.tab[t][LevelIdx(p, 0)]) THEN m.tab[t][LevelIdx(p, 0)] ELSE Nothing

\* Entry i of table t belongs to the user half of the space of root r.
Slot(m, r, t, i) == Present(m.tab[t][i]) /\ (t = r => i < Fan \div 2)

\* The tables of a space, level by level.
Below(m, r, S) ==
    {f \in Frames : \E t \in S, i \in 0 .. Fan - 1 :
        /\ Present(m.tab[t][i]) /\ m.tab[t][i].frame = f
        /\ t = r => i < Fan \div 2}

IsUnder(m, r, u) ==
    /\ u \in [0 .. Top -> SUBSET Frames] /\ u[Top] = {r}
    /\ \A l \in 0 .. Top - 1 : u[l] = Below(m, r, u[l + 1])

Under(m, r) == CHOOSE u : IsUnder(m, r, u)

\* Every table belongs to one place in one space.
Forest(m, R) ==
    /\ \A r, s \in R : \A k, l \in 0 .. Top : \A f \in Frames :
          f \in Under(m, r)[k] /\ f \in Under(m, s)[l] => r = s /\ k = l
    /\ \A r \in R : \A l \in 0 .. Top - 1 : \A t, v \in Under(m, r)[l + 1] :
          \A i, j \in 0 .. Fan - 1 :
              Slot(m, r, t, i) /\ Slot(m, r, v, j) /\ m.tab[t][i].frame = m.tab[v][j].frame
              => t = v /\ i = j

Wf(m, R) ==
    /\ m \in MemType /\ R \subseteq Frames
    /\ m.free \intersect KernelFrames = {}
    /\ m.tab[0] = ClearTable
    /\ \A r \in R : \A l \in 0 .. Top :
          Under(m, r)[l] \intersect (m.free \union KernelFrames) = {}
    /\ Forest(m, R)
    /\ \A r \in R : \A i \in UpperHalf : m.tab[r][i] = m.tab[KernelRoot][i]

\* What a recursive function over the levels is: g gives each value from the
\* one above it.
Iterate(n, X, x0, g, f) ==
    /\ f \in [0 .. n -> X] /\ f[n] = x0
    /\ \A l \in 0 .. n - 1 : f[l] = g[l][f[l + 1]]

--------------------------------------------------------------------------------

\* A function of the levels, each value computed from the one above, exists.
LEMMA Iterates ==
    ASSUME NEW n \in Nat, NEW X, NEW x0 \in X, NEW g, g \in [0 .. n - 1 -> [X -> X]]
    PROVE  \E f : Iterate(n, X, x0, g, f)
  <1> DEFINE Good(k, f) == /\ f \in [k .. n -> X] /\ f[n] = x0
                           /\ \A l \in k .. n - 1 : f[l] = g[l][f[l + 1]]
             S == {k \in 0 .. n : \E f : Good(k, f)}
  <1>1. n \in S
    <2> DEFINE h == [k \in n .. n |-> x0]
    <2>1. h \in [n .. n -> X] /\ n \in n .. n  OBVIOUS
    <2>2. h[n] = x0  BY <2>1
    <2>3. n .. n - 1 = {}  OBVIOUS
    <2>4. Good(n, h)  BY <2>1, <2>2, <2>3
    <2> HIDE DEF Good, h
    <2> QED BY <2>4
  <1>2. ASSUME NEW l \in 0 .. n - 1, l + 1 \in S PROVE l \in S
    <2>1. PICK f : Good(l + 1, f)  BY <1>2
    <2> DEFINE h == [k \in l .. n |-> IF k = l THEN g[l][f[l + 1]] ELSE f[k]]
    <2>2. l + 1 \in l + 1 .. n /\ f[l + 1] \in X  BY <2>1
    <2>3. g[l][f[l + 1]] \in X  BY <2>2
    <2>4. h \in [l .. n -> X]
      <3>1. ASSUME NEW k \in l .. n PROVE h[k] \in X
        <4>1. k # l => k \in l + 1 .. n  OBVIOUS
        <4> QED BY <2>1, <2>3, <4>1
      <3> QED BY <3>1
    <2>5. h[n] = x0  BY <2>1
    <2>6. ASSUME NEW k \in l .. n - 1 PROVE h[k] = g[k][h[k + 1]]
      <3>1. k + 1 \in l .. n /\ k \in l .. n /\ k + 1 # l  OBVIOUS
      <3>2. h[k + 1] = f[k + 1]  BY <3>1
      <3>3. k # l => k \in l + 1 .. n - 1  OBVIOUS
      <3> QED BY <2>1, <3>1, <3>2, <3>3
    <2>7. Good(l, h)  BY <2>4, <2>5, <2>6
    <2> HIDE DEF Good, h
    <2> QED BY <2>7
  <1>3. 0 .. n \subseteq S
    <2> HIDE DEF S
    <2> QED BY <1>1, <1>2, Down
  <1> QED BY <1>3 DEF Iterate

--------------------------------------------------------------------------------

(***************************************************************************)
(* Pages and their indices (mmuGetLevelIdx).                               *)
(***************************************************************************)
\* Division.
LEMMA Remainders ==
    ASSUME NEW a \in Nat, NEW b \in Nat \ {0}
    PROVE  a = b * (a \div b) + (a % b)
  OBVIOUS

LEMMA Quotients ==
    ASSUME NEW a \in Nat, NEW b \in Nat \ {0}, NEW c \in Nat \ {0}
    PROVE  (a \div b) \div c = a \div (b * c)
  OBVIOUS

LEMMA CoversFacts ==
    /\ Covers[0] = 1
    /\ \A l \in 0 .. Top : Covers[l + 1] = Fan * Covers[l]
    /\ \A l \in 0 .. Top + 1 : Covers[l] \in Nat \ {0}
  <1> DEFINE n == Top + 1
             X == Nat \ {0}
             g == [l \in 0 .. n - 1 |-> [x \in X |-> Fan * x]]
             Is(c) == c = [level \in 0 .. Top + 1 |-> IF level = 0 THEN 1 ELSE Fan * c[level - 1]]
  <1>1. \A x \in X : Fan * x \in X  BY MmuAssumption
  <1>2. g \in [0 .. n - 1 -> [X -> X]]  BY <1>1
  <1>3. n \in Nat /\ 1 \in X  BY MmuAssumption
  <1>4. PICK h : h \in [0 .. n -> X] /\ h[n] = 1 /\ \A l \in 0 .. n - 1 : h[l] = g[l][h[l + 1]]
    <2> DEFINE one == 1
    <2>1. one \in X  OBVIOUS
    <2>2. \E f : Iterate(n, X, one, g, f)
      <3> HIDE DEF n, X, g, one
      <3> QED BY <1>2, <1>3, <2>1, Iterates
    <2> QED BY <2>2 DEF Iterate
  <1> DEFINE c == [level \in 0 .. Top + 1 |-> h[n - level]]
  <1>5. \A level \in 0 .. Top + 1 : n - level \in 0 .. n  BY MmuAssumption
  <1>6. \A level \in 0 .. Top + 1 : c[level] = IF level = 0 THEN 1 ELSE Fan * c[level - 1]
    <2> SUFFICES ASSUME NEW level \in 0 .. Top + 1
                 PROVE  c[level] = IF level = 0 THEN 1 ELSE Fan * c[level - 1]
      OBVIOUS
    <2>0. CASE level = 0
      <3>1. 0 \in 0 .. Top + 1 /\ n - 0 = n  BY MmuAssumption
      <3> QED BY <1>4, <2>0, <3>1
    <2> SUFFICES ASSUME level # 0 PROVE c[level] = Fan * c[level - 1]  BY <2>0
    <2>1. n - level \in 0 .. n - 1 /\ (n - level) + 1 = n - (level - 1) /\ n - (level - 1) \in 0 .. n
          /\ level - 1 \in 0 .. Top + 1
      BY MmuAssumption
    <2>2. h[n - level] = g[n - level][h[n - (level - 1)]]  BY <1>4, <2>1
    <2>3. h[n - (level - 1)] \in X  BY <1>4, <2>1
    <2>4. h[n - level] = Fan * h[n - (level - 1)]  BY <2>1, <2>2, <2>3
    <2> QED BY <2>1, <2>4
  <1>7. Is(c)
    <2>1. c = [level \in 0 .. Top + 1 |-> c[level]]  OBVIOUS
    <2> HIDE DEF c
    <2> QED BY <1>6, <2>1
  <1>8. Is(Covers)
    <2>1. Covers = CHOOSE e : Is(e)  BY DEF Covers
    <2> HIDE DEF Is
    <2> QED BY <1>7, <2>1
  <1> DEFINE S == {l \in Nat : l <= Top + 1 => Covers[l] \in X}
  <1>9. \A l \in 0 .. Top + 1 : Covers[l] = IF l = 0 THEN 1 ELSE Fan * Covers[l - 1]
    BY <1>8
  <1>10. 0 \in S  BY <1>9, MmuAssumption
  <1>11. ASSUME NEW k \in Nat, k \in S PROVE k + 1 \in S
    <2> SUFFICES ASSUME k + 1 <= Top + 1 PROVE Covers[k + 1] \in X  OBVIOUS
    <2>1. Covers[k] \in X /\ k + 1 \in 0 .. Top + 1 /\ k + 1 # 0 /\ (k + 1) - 1 = k
      BY <1>11, MmuAssumption
    <2>2. Covers[k + 1] = Fan * Covers[k]  BY <1>9, <2>1
    <2> QED BY <1>1, <2>1, <2>2
  <1>12. Nat \subseteq S
    <2> HIDE DEF S
    <2> QED BY <1>10, <1>11, Up
  <1>13. \A l \in 0 .. Top + 1 : l \in S /\ l <= Top + 1  BY <1>12, MmuAssumption
  <1>14. ASSUME NEW l \in 0 .. Top PROVE Covers[l + 1] = Fan * Covers[l]
    <2>1. l + 1 \in 0 .. Top + 1 /\ l + 1 # 0 /\ (l + 1) - 1 = l  BY MmuAssumption
    <2> HIDE DEF Is
    <2> QED BY <1>9, <2>1
  <1>15. Covers[0] = 1  BY <1>9, MmuAssumption
  <1> QED BY <1>13, <1>14, <1>15

\* An index is one of its table; that of a user page, one of the lower half
\* of its root; and the indices give the page.
LEMMA Indices ==
    /\ \A p \in Pages : \A l \in 0 .. Top : LevelIdx(p, l) \in 0 .. Fan - 1
    /\ UserPages \subseteq Pages
    /\ \A p \in UserPages : LevelIdx(p, Top) < Fan \div 2
    /\ \A p, q \in Pages : (\A l \in 0 .. Top : LevelIdx(p, l) = LevelIdx(q, l)) => p = q
  <1>1. Pages \subseteq Nat  BY CoversFacts, MmuAssumption DEF Pages
  <1>2. ASSUME NEW p \in Pages, NEW l \in 0 .. Top PROVE LevelIdx(p, l) \in 0 .. Fan - 1
    <2>1. Covers[l] \in Nat \ {0} /\ Fan \in Nat \ {0} /\ p \in Nat
      BY <1>1, CoversFacts, MmuAssumption
    <2>2. p \div Covers[l] \in Nat  BY <2>1
    <2> QED BY <2>1, <2>2 DEF LevelIdx
  <1>3. ASSUME NEW p, p \in UserPages PROVE LevelIdx(p, Top) < Fan \div 2
    <2> DEFINE c == Covers[Top]
               h == Fan \div 2
    <2>1. c \in Nat \ {0} /\ h \in Nat /\ Fan = 2 * h /\ p \in Nat
          /\ Covers[Top + 1] = Fan * c /\ p < Covers[Top + 1] \div 2
      BY <1>1, <1>3, CoversFacts, MmuAssumption DEF UserPages
    <2> HIDE DEF c, h
    <2>2. h * c \in Nat  BY <2>1
    <2>3. Fan * c = 2 * (h * c)  BY <2>1
    <2>4. (2 * (h * c)) \div 2 = h * c  BY <2>2
    <2>5. p < h * c  BY <2>1, <2>3, <2>4
    <2>6. p \div c < h /\ p \div c \in Nat  BY <2>1, <2>5
    <2>7. (p \div c) % Fan = p \div c  BY <2>1, <2>6
    <2> QED BY <2>6, <2>7 DEF LevelIdx, c, h
  <1>4. ASSUME NEW p \in Pages, NEW q \in Pages,
               \A l \in 0 .. Top : LevelIdx(p, l) = LevelIdx(q, l)
        PROVE  p = q
    <2> DEFINE S == {l \in 0 .. Top + 1 : p \div Covers[l] = q \div Covers[l]}
    <2>1. Top + 1 \in S
      <3>1. Covers[Top + 1] \in Nat \ {0} /\ p \in Nat /\ q \in Nat
            /\ p < Covers[Top + 1] /\ q < Covers[Top + 1] /\ Top + 1 \in 0 .. Top + 1
        BY <1>1, CoversFacts, MmuAssumption DEF Pages
      <3>2. p \div Covers[Top + 1] = 0 /\ q \div Covers[Top + 1] = 0  BY <3>1
      <3> QED BY <3>1, <3>2
    <2>2. ASSUME NEW l \in 0 .. Top, l + 1 \in S PROVE l \in S
      <3> DEFINE c == Covers[l]
                 x == p \div c
                 y == q \div c
      <3>1. c \in Nat \ {0} /\ Covers[l + 1] = Fan * c /\ l \in 0 .. Top + 1
            /\ p \in Nat /\ q \in Nat /\ Fan \in Nat \ {0}
        BY <1>1, CoversFacts, MmuAssumption
      <3>2. p \div (Fan * c) = q \div (Fan * c)  BY <2>2, <3>1
      <3>3. x % Fan = y % Fan  BY <1>4 DEF LevelIdx
      <3> HIDE DEF c
      <3>4. x \in Nat /\ y \in Nat  BY <3>1
      <3>5. Fan * c = c * Fan  BY <3>1
      <3>6. x \div Fan = p \div (c * Fan) /\ y \div Fan = q \div (c * Fan)
        BY <3>1, Quotients
      <3> HIDE DEF x, y
      <3>7. x \div Fan = y \div Fan  BY <3>2, <3>5, <3>6
      <3>8. x = Fan * (x \div Fan) + (x % Fan)
        BY <3>1, <3>4, Remainders
      <3>10. y = Fan * (y \div Fan) + (y % Fan)
        BY <3>1, <3>4, Remainders
      <3>9. x = y  BY <3>3, <3>7, <3>8, <3>10
      <3> QED BY <3>1, <3>9 DEF x, y, c
    <2>3. 0 .. Top + 1 \subseteq S
      <3>1. Top + 1 \in Nat /\ (Top + 1) - 1 = Top  BY MmuAssumption
      <3> HIDE DEF S
      <3> QED BY <2>1, <2>2, <3>1, Down
    <2>4. p \div 1 = q \div 1  BY <2>3, CoversFacts, MmuAssumption
    <2> QED BY <1>1, <2>4
  <1>5. UserPages \subseteq Pages  BY DEF UserPages
  <1> QED BY <1>2, <1>3, <1>4, <1>5

--------------------------------------------------------------------------------

(***************************************************************************)
(* Walks and trees.                                                        *)
(***************************************************************************)
LEMMA FollowType ==
    ASSUME NEW m, m \in MemType, NEW t, t \in Frames, NEW i, i \in 0 .. Fan - 1
    PROVE  /\ m.tab[t] \in TableType /\ m.tab[t][i] \in EntryType
           /\ m.tab[t][i].frame \in Frames /\ Follow(m, t, i) \in Frames
  <1>1. m.tab \in [Frames -> TableType] /\ 0 \in Frames
    BY FrameAssumption, MmuAssumption DEF MemType, Frames
  <1>2. m.tab[t] \in TableType  BY <1>1
  <1>3. m.tab[t][i] \in EntryType  BY <1>2 DEF TableType
  <1>4. m.tab[t][i].frame \in Frames  BY <1>3 DEF EntryType
  <1> QED BY <1>1, <1>2, <1>3, <1>4 DEF Follow

LEMMA WalkIs ==
    ASSUME NEW m, m \in MemType, NEW r, r \in Frames, NEW p, p \in Pages
    PROVE  IsWalk(m, r, p, Walk(m, r, p))
  <1> DEFINE step == [l \in 0 .. Top - 1 |-> [t \in Frames |-> Follow(m, t, LevelIdx(p, l + 1))]]
  <1>1. ASSUME NEW l \in 0 .. Top - 1 PROVE LevelIdx(p, l + 1) \in 0 .. Fan - 1
    BY Indices, MmuAssumption
  <1>2. ASSUME NEW l \in 0 .. Top - 1
        PROVE  [t \in Frames |-> Follow(m, t, LevelIdx(p, l + 1))] \in [Frames -> Frames]
    BY <1>1, FollowType
  <1>3. step \in [0 .. Top - 1 -> [Frames -> Frames]]  BY <1>2
  <1>4. PICK w : Iterate(Top, Frames, r, step, w)
    <2> HIDE DEF step
    <2> QED BY <1>3, Iterates, MmuAssumption
  <1>5. IsWalk(m, r, p, w)
    <2>1. w \in [0 .. Top -> Frames] /\ w[Top] = r  BY <1>4 DEF Iterate
    <2>2. ASSUME NEW l \in 0 .. Top - 1 PROVE w[l] = Follow(m, w[l + 1], LevelIdx(p, l + 1))
      <3>1. w[l + 1] \in Frames  BY <2>1, MmuAssumption
      <3>2. w[l] = step[l][w[l + 1]]  BY <1>4 DEF Iterate
      <3> QED BY <3>1, <3>2
    <2> QED BY <2>1, <2>2 DEF IsWalk
  <1> QED BY <1>5 DEF Walk

LEMMA UnderIs ==
    ASSUME NEW m, NEW r, r \in Frames
    PROVE  IsUnder(m, r, Under(m, r))
  <1> DEFINE X == SUBSET Frames
             one == {r}
             step == [l \in 0 .. Top - 1 |-> [S \in X |-> Below(m, r, S)]]
  <1>1. \A S : Below(m, r, S) \in X  BY DEF Below
  <1>2. one \in X  OBVIOUS
  <1>3. step \in [0 .. Top - 1 -> [X -> X]]  BY <1>1
  <1>4. PICK u : Iterate(Top, X, one, step, u)
    <2> HIDE DEF step, X, one
    <2> QED BY <1>2, <1>3, Iterates, MmuAssumption
  <1>5. IsUnder(m, r, u)
    <2>1. u \in [0 .. Top -> X] /\ u[Top] = one  BY <1>4 DEF Iterate
    <2>2. ASSUME NEW l \in 0 .. Top - 1 PROVE u[l] = Below(m, r, u[l + 1])
      <3>1. u[l + 1] \in X  BY <2>1, MmuAssumption
      <3>2. u[l] = step[l][u[l + 1]]  BY <1>4 DEF Iterate
      <3> QED BY <3>1, <3>2
    <2> QED BY <2>1, <2>2 DEF IsUnder
  <1> QED BY <1>5 DEF Under

LEMMA UnderOnce ==
    ASSUME NEW m, NEW r, r \in Frames, NEW u, IsUnder(m, r, u)
    PROVE  u = Under(m, r)
  <1> DEFINE v == Under(m, r)
             S == {l \in 0 .. Top : u[l] = v[l]}
  <1>1. IsUnder(m, r, v)  BY UnderIs
  <1> HIDE DEF v
  <1>2. Top \in S
    <2>1. u[Top] = {r} /\ v[Top] = {r}  BY <1>1 DEF IsUnder
    <2>2. Top \in 0 .. Top  BY MmuAssumption
    <2> QED BY <2>1, <2>2
  <1>3. ASSUME NEW l \in 0 .. Top - 1, l + 1 \in S PROVE l \in S
    <2>1. u[l] = Below(m, r, u[l + 1]) /\ v[l] = Below(m, r, v[l + 1])  BY <1>1 DEF IsUnder
    <2>2. u[l + 1] = v[l + 1] /\ l \in 0 .. Top  BY <1>3, MmuAssumption
    <2> QED BY <2>1, <2>2
  <1>4. 0 .. Top \subseteq S
    <2> HIDE DEF S
    <2> QED BY <1>2, <1>3, Down, MmuAssumption
  <1>5. u \in [0 .. Top -> SUBSET Frames] /\ v \in [0 .. Top -> SUBSET Frames]
    BY <1>1 DEF IsUnder
  <1>6. u = [l \in 0 .. Top |-> u[l]] /\ v = [l \in 0 .. Top |-> v[l]]  BY <1>5
  <1>7. \A l \in 0 .. Top : u[l] = v[l]  BY <1>4
  <1>8. u = v  BY <1>6, <1>7
  <1> QED BY <1>8 DEF v

LEMMA WalkFacts ==
    ASSUME NEW m, m \in MemType, NEW r, r \in Frames, NEW p, p \in Pages
    PROVE  /\ Walk(m, r, p)[Top] = r
           /\ \A l \in 0 .. Top : Walk(m, r, p)[l] \in Frames
           /\ \A l \in 0 .. Top - 1 :
                 Walk(m, r, p)[l] = Follow(m, Walk(m, r, p)[l + 1], LevelIdx(p, l + 1))
  <1>1. IsWalk(m, r, p, Walk(m, r, p))  BY WalkIs
  <1> QED BY <1>1 DEF IsWalk

LEMMA UnderFacts ==
    ASSUME NEW m, NEW r, r \in Frames
    PROVE  /\ Under(m, r) \in [0 .. Top -> SUBSET Frames]
           /\ Under(m, r)[Top] = {r}
           /\ \A l \in 0 .. Top - 1 : Under(m, r)[l] = Below(m, r, Under(m, r)[l + 1])
  <1>1. IsUnder(m, r, Under(m, r))  BY UnderIs
  <1> QED BY <1>1 DEF IsUnder

\* What a well formed memory says of its frames.
LEMMA WfFacts ==
    ASSUME NEW m, NEW R, Wf(m, R)
    PROVE  /\ m \in MemType /\ R \subseteq Frames
           /\ m.free \subseteq Frames /\ 0 \notin m.free /\ 0 \in Frames
           /\ m.tab[0] = ClearTable
           /\ \A r \in R : \A l \in 0 .. Top : \A f \in Under(m, r)[l] :
                 f \in Frames /\ f \notin m.free /\ f \notin KernelFrames
           /\ \A r \in R : \A l \in 0 .. Top - 1 : r \in Under(m, r)[l + 1] => l + 1 = Top
  <1>1. m \in MemType /\ R \subseteq Frames /\ m.free \subseteq Frames  BY DEF Wf, MemType
  <1>2. 0 \in Frames /\ 0 \in KernelFrames /\ KernelRoot # 0 /\ KernelRoot \in KernelFrames
    BY FrameAssumption, MmuAssumption DEF KernelFrames, Frames
  <1>3. ASSUME NEW r \in R, NEW l \in 0 .. Top, NEW f \in Under(m, r)[l]
        PROVE  f \in Frames /\ f \notin m.free /\ f \notin KernelFrames
    <2>1. Under(m, r) \in [0 .. Top -> SUBSET Frames]  BY <1>1, UnderFacts
    <2>2. f \in Frames  BY <2>1
    <2> QED BY <2>2 DEF Wf
  <1>4. m.tab[0] = ClearTable  BY DEF Wf
  <1>5. ASSUME NEW r \in R, NEW l \in 0 .. Top - 1, r \in Under(m, r)[l + 1] PROVE l + 1 = Top
    <2>1. r \in Under(m, r)[Top] /\ Top \in 0 .. Top /\ l + 1 \in 0 .. Top /\ r \in Frames
      BY <1>1, UnderFacts, MmuAssumption
    <2> QED BY <1>5, <2>1 DEF Wf, Forest
  <1>6. 0 \notin m.free  BY <1>2 DEF Wf
  <1> QED BY <1>1, <1>2, <1>3, <1>4, <1>5, <1>6

\* The walk to a user page stays in its space, or is at 0.
LEMMA WalkUnder ==
    ASSUME NEW m, NEW R, Wf(m, R), NEW r, r \in R, NEW p, p \in UserPages
    PROVE  \A l \in 0 .. Top : Walk(m, r, p)[l] \in Under(m, r)[l] \union {0}
  <1> DEFINE w == Walk(m, r, p)
             u == Under(m, r)
             S == {l \in 0 .. Top : w[l] \in u[l] \union {0}}
  <1>1. p \in Pages /\ r \in Frames /\ m \in MemType /\ m.tab[0] = ClearTable  BY Indices, WfFacts
  <1>2. Top \in S  BY <1>1, WalkFacts, UnderFacts, MmuAssumption
  <1>3. ASSUME NEW l \in 0 .. Top - 1, l + 1 \in S PROVE l \in S
    <2> DEFINE i == LevelIdx(p, l + 1)
               t == w[l + 1]
    <2>1. l \in 0 .. Top /\ l + 1 \in 0 .. Top /\ i \in 0 .. Fan - 1  BY <1>1, Indices, MmuAssumption
    <2>2. t \in Frames /\ w[l] = Follow(m, t, i) /\ u[l] = Below(m, r, u[l + 1])
      BY <1>1, <2>1, WalkFacts, UnderFacts
    <2>3. t \in u[l + 1] \union {0}  BY <1>3
    <2> HIDE DEF t, i, w, u
    <2>4. CASE t = 0
      <3>1. m.tab[t][i] = Nothing  BY <1>1, <2>1, <2>4 DEF ClearTable
      <3>2. w[l] = 0  BY <2>2, <3>1 DEF Follow, Present, Nothing
      <3> QED BY <2>1, <3>2
    <2>5. CASE t \in u[l + 1] /\ ~Present(m.tab[t][i])
      BY <2>1, <2>2, <2>5 DEF Follow
    <2>6. CASE t \in u[l + 1] /\ Present(m.tab[t][i])
      <3>1. w[l] = m.tab[t][i].frame /\ w[l] \in Frames
        BY <1>1, <2>1, <2>2, <2>6, FollowType DEF Follow
      <3>2. t = r => i < Fan \div 2
        <4>1. t = r => l + 1 = Top  BY <2>6, WfFacts DEF u
        <4>2. l + 1 = Top => i < Fan \div 2  BY Indices DEF i
        <4> QED BY <4>1, <4>2
      <3>3. w[l] \in Below(m, r, u[l + 1])  BY <2>1, <2>6, <3>1, <3>2 DEF Below
      <3> QED BY <2>1, <2>2, <3>3
    <2> QED BY <2>3, <2>4, <2>5, <2>6
  <1>4. 0 .. Top \subseteq S
    <2> HIDE DEF S
    <2> QED BY <1>2, <1>3, Down, MmuAssumption
  <1> QED BY <1>4

--------------------------------------------------------------------------------

(***************************************************************************)
(* A new table, which is clear, is entered (mmuGetLevelPhys).              *)
(***************************************************************************)
LinkEntry(n) == [frame |-> n, flags |-> TableFlags]

IsLink(m, R, r, l, t, i, n, m2) ==
    /\ Wf(m, R) /\ r \in R /\ l \in 0 .. Top - 1
    /\ t \in Under(m, r)[l + 1] /\ i \in 0 .. Fan - 1
    /\ ~Present(m.tab[t][i]) /\ (t = r => i < Fan \div 2)
    /\ n \in m.free /\ m.tab[n] = ClearTable
    /\ m2 = [free |-> m.free \ {n}, tab |-> [m.tab EXCEPT ![t][i] = LinkEntry(n)]]

Written(tab, t, i, e) == [tab EXCEPT ![t][i] = e]

LEMMA EntryWritten ==
    ASSUME NEW tab, tab \in [Frames -> TableType], NEW t, t \in Frames,
           NEW i, i \in 0 .. Fan - 1, NEW e, e \in EntryType
    PROVE  /\ Written(tab, t, i, e) \in [Frames -> TableType]
           /\ Written(tab, t, i, e)[t][i] = e
           /\ \A j \in 0 .. Fan - 1 : j # i => Written(tab, t, i, e)[t][j] = tab[t][j]
           /\ \A f \in Frames : f # t => Written(tab, t, i, e)[f] = tab[f]
  <1> DEFINE tab2 == Written(tab, t, i, e)
  <1> DEFINE row == [tab[t] EXCEPT ![i] = e]
  <1>1. tab2 = [tab EXCEPT ![t] = row]  BY DEF Written
  <1>2. tab[t] \in [0 .. Fan - 1 -> EntryType]  BY DEF TableType
  <1>3. row \in [0 .. Fan - 1 -> EntryType] /\ row[i] = e
        /\ \A j \in 0 .. Fan - 1 : j # i => row[j] = tab[t][j]
    BY <1>2
  <1>4. row \in TableType  BY <1>3 DEF TableType
  <1> HIDE DEF row, tab2
  <1>5. tab2[t] = row /\ \A f \in Frames : f # t => tab2[f] = tab[f]  BY <1>1
  <1>6. tab2 \in [Frames -> TableType]  BY <1>1, <1>4
  <1> QED BY <1>3, <1>5, <1>6 DEF tab2

LEMMA BelowSame ==
    ASSUME NEW m, NEW m2, NEW s, NEW S, \A f \in S : m2.tab[f] = m.tab[f]
    PROVE  Below(m2, s, S) = Below(m, s, S)
  BY DEF Below

LEMMA BelowAdd ==
    ASSUME NEW m, NEW s, NEW S, NEW n, m.tab[n] = ClearTable
    PROVE  Below(m, s, S \union {n}) = Below(m, s, S)
  <1>1. \A i \in 0 .. Fan - 1 : ~Present(m.tab[n][i])
    BY DEF ClearTable, Nothing, Present
  <1> QED BY <1>1 DEF Below

LEMMA LinkTab ==
    ASSUME NEW m, NEW R, NEW r, NEW l, NEW t, NEW i, NEW n, NEW m2,
           IsLink(m, R, r, l, t, i, n, m2)
    PROVE  /\ m2 \in MemType /\ m2.free = m.free \ {n} /\ n \in Frames /\ n # t /\ n # 0
           /\ t \in Frames /\ t \notin KernelFrames /\ r \in Frames
           /\ l \in 0 .. Top /\ l + 1 \in 0 .. Top
           /\ m2.tab[t][i] = LinkEntry(n) /\ Present(m2.tab[t][i]) /\ m2.tab[t][i].frame = n
           /\ \A j \in 0 .. Fan - 1 : j # i => m2.tab[t][j] = m.tab[t][j]
           /\ \A f \in Frames : f # t => m2.tab[f] = m.tab[f]
           /\ m2.tab[n] = ClearTable
  <1>1. /\ m \in MemType /\ m.free \subseteq Frames /\ 0 \notin m.free
        /\ m.tab[n] = ClearTable
        /\ R \subseteq Frames
    BY WfFacts DEF IsLink
  <1>2. l \in 0 .. Top /\ l + 1 \in 0 .. Top  BY MmuAssumption DEF IsLink
  <1>3. t \in Frames /\ t \notin m.free /\ t \notin KernelFrames
    BY <1>2, WfFacts DEF IsLink
  <1>4. n \in Frames /\ n # t /\ n # 0 /\ n \in m.free /\ r \in Frames  BY <1>1, <1>3 DEF IsLink
  <1>5. LinkEntry(n) \in EntryType  BY <1>4 DEF LinkEntry, EntryType, TableFlags
  <1>6. m.tab \in [Frames -> TableType]  BY <1>1 DEF MemType
  <1> DEFINE tab == m.tab
             tab2 == m2.tab
             e == LinkEntry(n)
  <1>7. tab2 = Written(tab, t, i, e) /\ i \in 0 .. Fan - 1  BY DEF IsLink, Written
  <1>8. /\ tab2 \in [Frames -> TableType] /\ tab2[t][i] = e
        /\ \A j \in 0 .. Fan - 1 : j # i => tab2[t][j] = tab[t][j]
        /\ \A f \in Frames : f # t => tab2[f] = tab[f]
    <2>1. tab \in [Frames -> TableType] /\ e \in EntryType  BY <1>5, <1>6
    <2> HIDE DEF tab, tab2, e
    <2> QED BY <1>3, <1>7, <2>1, EntryWritten, SMTT(60)
  <1>9. m2.free = m.free \ {n} /\ m2.free \subseteq Frames  BY <1>1 DEF IsLink
  <1>10. m2 \in MemType
    <2>1. m2 = [free |-> m2.free, tab |-> m2.tab]  BY DEF IsLink
    <2> QED BY <1>8, <1>9, <2>1 DEF MemType
  <1>11. Present(m2.tab[t][i]) /\ m2.tab[t][i].frame = n
    BY <1>8 DEF Present, LinkEntry, TableFlags
  <1>12. m2.tab[n] = ClearTable  BY <1>1, <1>4, <1>8
  <1> QED BY <1>2, <1>3, <1>4, <1>8, <1>9, <1>10, <1>11, <1>12

\* A table of a well formed memory is at one level of one space.
LEMMA OnePlace ==
    ASSUME NEW m, NEW R, Wf(m, R), NEW r, r \in R, NEW s, s \in R,
           NEW k, k \in 0 .. Top, NEW l, l \in 0 .. Top,
           NEW f, f \in Under(m, r)[k], f \in Under(m, s)[l]
    PROVE  r = s /\ k = l
  <1>1. f \in Frames  BY WfFacts
  <1> QED BY <1>1 DEF Wf, Forest

LEMMA LinkUnder ==
    ASSUME NEW m, NEW R, NEW r, NEW l, NEW t, NEW i, NEW n, NEW m2,
           IsLink(m, R, r, l, t, i, n, m2), NEW s, s \in R
    PROVE  Under(m2, s) = IF s = r THEN [Under(m, r) EXCEPT ![l] = @ \union {n}]
                          ELSE Under(m, s)
  <1> DEFINE u == Under(m, s)
             v == IF s = r THEN [u EXCEPT ![l] = @ \union {n}] ELSE u
  <1>1. s \in Frames /\ Wf(m, R) /\ r \in R /\ l \in 0 .. Top - 1 /\ t \in Under(m, r)[l + 1]
    BY WfFacts DEF IsLink
  <1>2. u \in [0 .. Top -> SUBSET Frames] /\ u[Top] = {s}
        /\ \A k \in 0 .. Top - 1 : u[k] = Below(m, s, u[k + 1])
    BY <1>1, UnderFacts
  <1>3. l \in 0 .. Top /\ l + 1 \in 0 .. Top /\ Top \in 0 .. Top /\ l # Top
        /\ \A k \in 0 .. Top - 1 : k \in 0 .. Top /\ k + 1 \in 0 .. Top
    BY <1>1, MmuAssumption
  <1>4. n \in Frames /\ m2.tab[n] = ClearTable /\ n # t  BY LinkTab
  <1>5. \A k \in 0 .. Top : v[k] = IF s = r /\ k = l THEN u[k] \union {n} ELSE u[k]
    BY <1>2
  <1>6. v \in [0 .. Top -> SUBSET Frames]
    <2>1. u[l] \union {n} \in SUBSET Frames  BY <1>2, <1>3, <1>4
    <2> QED BY <1>2, <2>1
  <1>7. v[Top] = {s}  BY <1>2, <1>3, <1>5
  <1>8. ASSUME NEW k \in 0 .. Top - 1 PROVE v[k] = Below(m2, s, v[k + 1])
    <2>0. k \in 0 .. Top /\ k + 1 \in 0 .. Top  BY <1>3
    <2>1. u[k + 1] \subseteq Frames /\ u[k] = Below(m, s, u[k + 1])  BY <1>2, <2>0
    <2>2. CASE s = r /\ k = l
      <3>1. v[k] = u[k] \union {n} /\ v[k + 1] = u[k + 1]
        BY <1>5, <2>0, <2>2
      <3>2. t \in u[k + 1] /\ ~Present(m.tab[t][i]) /\ (t = s => i < Fan \div 2) /\ i \in 0 .. Fan - 1
        BY <2>2 DEF IsLink
      <3>3. /\ Present(m2.tab[t][i]) /\ m2.tab[t][i].frame = n
            /\ \A j \in 0 .. Fan - 1 : j # i => m2.tab[t][j] = m.tab[t][j]
            /\ \A f \in Frames : f # t => m2.tab[f] = m.tab[f]
        BY LinkTab
      <3> HIDE DEF u, v
      <3>4. Below(m2, s, u[k + 1]) = Below(m, s, u[k + 1]) \union {n}
        <4> DEFINE S == u[k + 1]
        <4>1. S \subseteq Frames /\ t \in S  BY <2>1, <3>2
        <4> HIDE DEF S
        <4>2. n \in Below(m2, s, S)  BY <1>4, <3>2, <3>3, <4>1 DEF Below
        <4>3. ASSUME NEW f \in Below(m2, s, S), f # n PROVE f \in Below(m, s, S)
          <5>1. PICK a \in S, j \in 0 .. Fan - 1 :
                   Present(m2.tab[a][j]) /\ m2.tab[a][j].frame = f /\ (a = s => j < Fan \div 2)
            BY DEF Below
          <5>2. m2.tab[a][j] = m.tab[a][j]
            <6>1. CASE a = t
              <7>1. j # i  BY <3>3, <4>3, <5>1, <6>1
              <7> QED BY <3>3, <6>1, <7>1
            <6>2. CASE a # t  BY <3>3, <4>1, <6>2
            <6> QED BY <6>1, <6>2
          <5>3. f \in Frames  BY DEF Below
          <5> QED BY <5>1, <5>2, <5>3 DEF Below
        <4>4. ASSUME NEW f \in Below(m, s, S) PROVE f \in Below(m2, s, S)
          <5>1. PICK a \in S, j \in 0 .. Fan - 1 :
                   Present(m.tab[a][j]) /\ m.tab[a][j].frame = f /\ (a = s => j < Fan \div 2)
            BY DEF Below
          <5>2. m2.tab[a][j] = m.tab[a][j]
            <6>1. CASE a = t
              <7>1. j # i  BY <3>2, <5>1, <6>1
              <7> QED BY <3>3, <6>1, <7>1
            <6>2. CASE a # t  BY <3>3, <4>1, <6>2
            <6> QED BY <6>1, <6>2
          <5>3. f \in Frames  BY DEF Below
          <5> QED BY <5>1, <5>2, <5>3 DEF Below
        <4>5. Below(m2, s, S) = Below(m, s, S) \union {n}  BY <4>2, <4>3, <4>4
        <4> QED BY <4>5 DEF S
      <3> QED BY <2>1, <3>1, <3>4
    <2>3. CASE ~(s = r /\ k = l)
      <3>1. v[k] = u[k]  BY <1>5, <2>0, <2>3
      <3>2. \A f \in u[k + 1] : f # t
        <4> SUFFICES ASSUME t \in u[k + 1] PROVE FALSE  OBVIOUS
        <4>1. r = s /\ l + 1 = k + 1
          <5>1. t \in Under(m, r)[l + 1] /\ t \in Under(m, s)[k + 1]  BY <1>1
          <5> QED BY <1>1, <1>3, <2>0, <5>1, OnePlace
        <4> QED BY <1>1, <2>0, <2>3, <4>1
      <3>3. \A f \in u[k + 1] : m2.tab[f] = m.tab[f]  BY <2>1, <3>2, LinkTab
      <3>4. Below(m2, s, u[k + 1]) = u[k]
        <4> HIDE DEF u
        <4> QED BY <2>1, <3>3, BelowSame
      <3>5. v[k + 1] = u[k + 1] \/ v[k + 1] = u[k + 1] \union {n}  BY <1>5, <2>0
      <3>6. Below(m2, s, v[k + 1]) = Below(m2, s, u[k + 1])
        <4> DEFINE S == u[k + 1]
                   T == v[k + 1]
        <4>1. T = S \/ T = S \union {n}  BY <3>5
        <4> HIDE DEF S, T
        <4>2. Below(m2, s, S \union {n}) = Below(m2, s, S)  BY <1>4, BelowAdd
        <4>3. Below(m2, s, T) = Below(m2, s, S)  BY <4>1, <4>2
        <4> QED BY <4>3 DEF S, T
      <3> QED BY <3>1, <3>4, <3>6
    <2> QED BY <2>2, <2>3
  <1>9. IsUnder(m2, s, v)
    <2> HIDE DEF v
    <2> QED BY <1>6, <1>7, <1>8 DEF IsUnder
  <1>10. v = Under(m2, s)
    <2> HIDE DEF v
    <2> QED BY <1>1, <1>9, UnderOnce
  <1> QED BY <1>10

LEMMA LinkGives ==
    ASSUME NEW m, NEW R, NEW r, NEW l, NEW t, NEW i, NEW n, NEW m2,
           IsLink(m, R, r, l, t, i, n, m2)
    PROVE  /\ Wf(m, R) /\ r \in R /\ l \in 0 .. Top - 1
           /\ t \in Under(m, r)[l + 1] /\ i \in 0 .. Fan - 1
           /\ ~Present(m.tab[t][i]) /\ (t = r => i < Fan \div 2)
           /\ n \in m.free
  BY DEF IsLink

LEMMA ClearRow ==
    ASSUME NEW m, NEW f, m.tab[f] = ClearTable
    PROVE  /\ \A i \in 0 .. Fan - 1 : ~Present(m.tab[f][i]) /\ Follow(m, f, i) = 0
           /\ \A p \in Pages : Leaf(m, f, p) = Nothing
  <1>1. \A i \in 0 .. Fan - 1 : ~Present(m.tab[f][i])  BY DEF ClearTable, Nothing, Present
  <1>2. \A p \in Pages : LevelIdx(p, 0) \in 0 .. Fan - 1  BY Indices, MmuAssumption
  <1> QED BY <1>1, <1>2 DEF Follow, Leaf

LEMMA LinkIn ==
    ASSUME NEW m, NEW R, NEW r, NEW l, NEW t, NEW i, NEW n, NEW m2,
           IsLink(m, R, r, l, t, i, n, m2), NEW s, s \in R, NEW k, k \in 0 .. Top, NEW f
    PROVE  f \in Under(m2, s)[k] <=> f \in Under(m, s)[k] \/ (s = r /\ k = l /\ f = n)
  <1>1. Wf(m, R) /\ r \in R /\ l \in 0 .. Top /\ r \in Frames  BY LinkTab, LinkGives
  <1>2. Under(m, r) \in [0 .. Top -> SUBSET Frames]  BY <1>1, UnderFacts
  <1>3. Under(m2, s) = IF s = r THEN [Under(m, r) EXCEPT ![l] = @ \union {n}] ELSE Under(m, s)
    BY LinkUnder
  <1> DEFINE u == Under(m, r)
  <1>4. CASE s = r
    <2>1. Under(m2, s) = [u EXCEPT ![l] = @ \union {n}]  BY <1>3, <1>4
    <2> HIDE DEF u
    <2>2. Under(m2, s)[k] = IF k = l THEN u[k] \union {n} ELSE u[k]  BY <1>1, <1>2, <2>1 DEF u
    <2> QED BY <1>4, <2>2 DEF u
  <1>5. CASE s # r  BY <1>3, <1>5
  <1> QED BY <1>4, <1>5

LEMMA LinkWf ==
    ASSUME NEW m, NEW R, NEW r, NEW l, NEW t, NEW i, NEW n, NEW m2,
           IsLink(m, R, r, l, t, i, n, m2)
    PROVE  Wf(m2, R)
  <1>1. /\ Wf(m, R) /\ r \in R /\ l \in 0 .. Top - 1 /\ l \in 0 .. Top /\ l + 1 \in 0 .. Top
        /\ t \in Under(m, r)[l + 1] /\ i \in 0 .. Fan - 1 /\ n \in m.free
        /\ ~Present(m.tab[t][i]) /\ (t = r => i < Fan \div 2)
    BY LinkTab, LinkGives
  <1>2. /\ m2 \in MemType /\ m2.free = m.free \ {n} /\ n # t /\ n \in Frames
        /\ t \in Frames /\ t \notin KernelFrames
        /\ Present(m2.tab[t][i]) /\ m2.tab[t][i].frame = n
        /\ \A j \in 0 .. Fan - 1 : j # i => m2.tab[t][j] = m.tab[t][j]
        /\ \A f \in Frames : f # t => m2.tab[f] = m.tab[f]
        /\ m2.tab[n] = ClearTable
    BY LinkTab
  <1>3. /\ m \in MemType /\ R \subseteq Frames
        /\ \A s \in R : \A k \in 0 .. Top : \A f \in Under(m, s)[k] :
              f \in Frames /\ f \notin m.free /\ f \notin KernelFrames
    BY <1>1, WfFacts
  <1>4. \A s \in R : \A k \in 0 .. Top : \A f :
           f \in Under(m2, s)[k] <=> f \in Under(m, s)[k] \/ (s = r /\ k = l /\ f = n)
    BY LinkIn
  <1>5. m2.free \intersect KernelFrames = {} /\ n \notin KernelFrames  BY <1>1, <1>2 DEF Wf
  <1>6. m2.tab[0] = ClearTable
    <2>1. 0 \in KernelFrames /\ 0 \in Frames /\ m.tab[0] = ClearTable
      BY <1>1, WfFacts DEF KernelFrames
    <2> QED BY <1>2, <2>1
  <1>7. ASSUME NEW s \in R, NEW k \in 0 .. Top
        PROVE  Under(m2, s)[k] \intersect (m2.free \union KernelFrames) = {}
    <2> SUFFICES ASSUME NEW f \in Under(m2, s)[k] PROVE f \notin m2.free /\ f \notin KernelFrames
      OBVIOUS
    <2>1. f \in Under(m, s)[k] \/ f = n  BY <1>4
    <2> QED BY <1>2, <1>3, <1>5, <2>1
  <1>8. ASSUME NEW s \in R, NEW v \in R, NEW k \in 0 .. Top, NEW j \in 0 .. Top, NEW f \in Frames,
               f \in Under(m2, s)[k], f \in Under(m2, v)[j]
        PROVE  s = v /\ k = j
    <2>1. CASE f = n
      <3>1. f \notin Under(m, s)[k] /\ f \notin Under(m, v)[j]  BY <1>1, <1>3, <2>1
      <3> QED BY <1>4, <1>8, <3>1
    <2>2. CASE f # n
      <3>1. f \in Under(m, s)[k] /\ f \in Under(m, v)[j]  BY <1>4, <1>8, <2>2
      <3> QED BY <1>1, <3>1, OnePlace
    <2> QED BY <2>1, <2>2
  <1>9. ASSUME NEW s \in R, NEW k \in 0 .. Top - 1, NEW a \in Under(m2, s)[k + 1],
               NEW b \in Under(m2, s)[k + 1], NEW c \in 0 .. Fan - 1, NEW d \in 0 .. Fan - 1,
               Slot(m2, s, a, c), Slot(m2, s, b, d), m2.tab[a][c].frame = m2.tab[b][d].frame
        PROVE  a = b /\ c = d
    <2>1. k \in 0 .. Top /\ k + 1 \in 0 .. Top  BY MmuAssumption
    <2>2. a # n /\ b # n  BY <1>2, <1>9, ClearRow DEF Slot
    <2>3. a \in Under(m, s)[k + 1] /\ b \in Under(m, s)[k + 1] /\ a \in Frames /\ b \in Frames
      BY <1>3, <1>4, <2>1, <2>2
    <2>4. \A e \in Frames : \A x \in 0 .. Fan - 1 :
             (e = t /\ x = i) \/ m2.tab[e][x] = m.tab[e][x]
      BY <1>2
    <2>5. ASSUME NEW e, NEW x, e \in Under(m, s)[k + 1], e \in Frames, x \in 0 .. Fan - 1,
                 Slot(m2, s, e, x), m2.tab[e][x].frame = n
          PROVE  e = t /\ x = i
      <3> SUFFICES ASSUME ~(e = t /\ x = i) PROVE FALSE  OBVIOUS
      <3>1. Slot(m, s, e, x) /\ m.tab[e][x].frame = n  BY <2>4, <2>5 DEF Slot
      <3>2. n \in Below(m, s, Under(m, s)[k + 1])  BY <1>2, <2>5, <3>1 DEF Below, Slot
      <3>3. s \in Frames  BY <1>3
      <3>4. n \in Under(m, s)[k]  BY <3>2, <3>3, UnderFacts
      <3> QED BY <1>1, <1>3, <2>1, <3>4
    <2>6. CASE m2.tab[a][c].frame = n
      <3>1. a = t /\ c = i  BY <1>9, <2>3, <2>5, <2>6
      <3>2. b = t /\ d = i  BY <1>9, <2>3, <2>5, <2>6
      <3> QED BY <3>1, <3>2
    <2>7. CASE m2.tab[a][c].frame # n
      <3>1. m2.tab[a][c] = m.tab[a][c]  BY <1>2, <2>3, <2>4, <2>7
      <3>2. m2.tab[b][d] = m.tab[b][d]  BY <1>2, <1>9, <2>3, <2>4, <2>7
      <3>3. Slot(m, s, a, c) /\ Slot(m, s, b, d) /\ m.tab[a][c].frame = m.tab[b][d].frame
        BY <1>9, <3>1, <3>2 DEF Slot
      <3> QED BY <1>1, <2>3, <3>3 DEF Wf, Forest
    <2> QED BY <2>6, <2>7
  <1>10. ASSUME NEW s \in R, NEW j \in UpperHalf PROVE m2.tab[s][j] = m2.tab[KernelRoot][j]
    <2>1. KernelRoot \in Frames /\ KernelRoot # t /\ s \in Frames /\ j \in 0 .. Fan - 1
          /\ ~(j < Fan \div 2)
      BY <1>2, <1>3, FrameAssumption, MmuAssumption DEF KernelFrames, UpperHalf
    <2>2. m2.tab[KernelRoot] = m.tab[KernelRoot]  BY <1>2, <2>1
    <2>3. m.tab[s][j] = m.tab[KernelRoot][j]  BY <1>1 DEF Wf
    <2>4. m2.tab[s][j] = m.tab[s][j]
      <3>1. CASE s # t  BY <1>2, <2>1, <3>1
      <3>2. CASE s = t
        <4>1. s \in Under(m, s)[Top] /\ Top \in 0 .. Top  BY <2>1, UnderFacts, MmuAssumption
        <4>2. r = s  BY <1>1, <3>2, <4>1, OnePlace
        <4>3. j # i  BY <1>1, <2>1, <3>2, <4>2
        <4> QED BY <1>2, <2>1, <3>2, <4>3
      <3> QED BY <3>1, <3>2
    <2> QED BY <2>2, <2>3, <2>4
  <1>11. Forest(m2, R)  BY <1>8, <1>9 DEF Forest
  <1> QED BY <1>2, <1>3, <1>5, <1>6, <1>7, <1>10, <1>11 DEF Wf

\* Walks go on as before, but one that ended at that entry goes on to the
\* new table.
LEMMA LinkWalk ==
    ASSUME NEW m, NEW R, NEW r, NEW l, NEW t, NEW i, NEW n, NEW m2,
           IsLink(m, R, r, l, t, i, n, m2), NEW s, s \in R, NEW q, q \in UserPages
    PROVE  \A k \in 0 .. Top :
              \/ Walk(m2, s, q)[k] = Walk(m, s, q)[k]
              \/ Walk(m, s, q)[k] = 0 /\ Walk(m2, s, q)[k] = n
  <1> DEFINE w == Walk(m, s, q)
             w2 == Walk(m2, s, q)
             S == {k \in 0 .. Top : w2[k] = w[k] \/ (w[k] = 0 /\ w2[k] = n)}
  <1>1. /\ Wf(m, R) /\ r \in R /\ l \in 0 .. Top - 1 /\ l \in 0 .. Top /\ l + 1 \in 0 .. Top
        /\ t \in Under(m, r)[l + 1] /\ i \in 0 .. Fan - 1 /\ ~Present(m.tab[t][i])
    BY LinkTab, LinkGives
  <1>2. /\ m \in MemType /\ m2 \in MemType /\ s \in Frames /\ m.tab[0] = ClearTable /\ q \in Pages
        /\ t \notin KernelFrames /\ m2.tab[n] = ClearTable
        /\ Present(m2.tab[t][i]) /\ m2.tab[t][i].frame = n
        /\ \A j \in 0 .. Fan - 1 : j # i => m2.tab[t][j] = m.tab[t][j]
        /\ \A f \in Frames : f # t => m2.tab[f] = m.tab[f]
    BY <1>1, LinkTab, WfFacts, Indices
  <1>3. Top \in S
    <2>1. w[Top] = s /\ w2[Top] = s  BY <1>2, WalkFacts
    <2>2. Top \in 0 .. Top  BY MmuAssumption
    <2> QED BY <2>1, <2>2
  <1>4. ASSUME NEW k \in 0 .. Top - 1, k + 1 \in S PROVE k \in S
    <2> DEFINE j == LevelIdx(q, k + 1)
               a == w[k + 1]
               a2 == w2[k + 1]
    <2>1. k \in 0 .. Top /\ k + 1 \in 0 .. Top /\ j \in 0 .. Fan - 1  BY <1>2, Indices, MmuAssumption
    <2>2. a \in Frames /\ w[k] = Follow(m, a, j) /\ w2[k] = Follow(m2, a2, j)
      BY <1>2, <2>1, WalkFacts
    <2>3. a \in Under(m, s)[k + 1] \union {0}  BY <1>1, <2>1, WalkUnder
    <2>4. a2 = a \/ (a = 0 /\ a2 = n)  BY <1>4
    <2> SUFFICES w2[k] = w[k] \/ (w[k] = 0 /\ w2[k] = n)  BY <2>1
    <2> HIDE DEF j, a, a2, w, w2
    <2>5. CASE a = 0 /\ a2 = n
      <3>1. w[k] = 0 /\ w2[k] = 0  BY <1>2, <2>1, <2>2, <2>5, ClearRow
      <3> QED BY <2>1, <3>1
    <2>6. CASE a2 = a /\ a # t
      <3>1. m2.tab[a] = m.tab[a]  BY <1>2, <2>2, <2>6
      <3>2. w2[k] = w[k]  BY <2>2, <2>6, <3>1 DEF Follow
      <3> QED BY <2>1, <3>2
    <2>7. CASE a2 = a /\ a = t /\ j # i
      <3>1. m2.tab[a][j] = m.tab[a][j]  BY <1>2, <2>1, <2>7
      <3>2. w2[k] = w[k]  BY <2>2, <2>7, <3>1 DEF Follow
      <3> QED BY <2>1, <3>2
    <2>8. CASE a2 = a /\ a = t /\ j = i
      <3>1. w[k] = 0  BY <1>1, <2>2, <2>8 DEF Follow
      <3>2. w2[k] = n  BY <1>2, <2>2, <2>8 DEF Follow
      <3> QED BY <2>1, <3>1, <3>2
    <2> QED BY <2>4, <2>5, <2>6, <2>7, <2>8
  <1>5. 0 .. Top \subseteq S
    <2> HIDE DEF S
    <2> QED BY <1>3, <1>4, Down, MmuAssumption
  <1> QED BY <1>5

\* What a page is mapped to.
Map(m, r, p) == Leaf(m, Walk(m, r, p)[0], p)

LEMMA LinkMaps ==
    ASSUME NEW m, NEW R, NEW r, NEW l, NEW t, NEW i, NEW n, NEW m2,
           IsLink(m, R, r, l, t, i, n, m2), NEW s, s \in R, NEW q, q \in UserPages
    PROVE  Map(m2, s, q) = Map(m, s, q)
  <1> DEFINE a == Walk(m, s, q)[0]
             a2 == Walk(m2, s, q)[0]
  <1>1. /\ Wf(m, R) /\ r \in R /\ l \in 0 .. Top - 1 /\ l + 1 \in 0 .. Top /\ 0 \in 0 .. Top
        /\ t \in Under(m, r)[l + 1]
    BY LinkTab, LinkGives, MmuAssumption
  <1>2. /\ m \in MemType /\ s \in Frames /\ m.tab[0] = ClearTable /\ q \in Pages
        /\ t \notin KernelFrames /\ m2.tab[n] = ClearTable
        /\ \A f \in Frames : f # t => m2.tab[f] = m.tab[f]
    BY <1>1, LinkTab, WfFacts, Indices
  <1>3. a2 = a \/ (a = 0 /\ a2 = n)
    <2>1. \A k \in 0 .. Top :
             \/ Walk(m2, s, q)[k] = Walk(m, s, q)[k]
             \/ Walk(m, s, q)[k] = 0 /\ Walk(m2, s, q)[k] = n
      BY LinkWalk
    <2> QED BY <1>1, <2>1
  <1>4. a \in Under(m, s)[0] \union {0} /\ a \in Frames  BY <1>1, <1>2, WalkUnder, WalkFacts
  <1>5. a # t
    <2>1. t # 0  BY <1>2 DEF KernelFrames
    <2> SUFFICES ASSUME t \in Under(m, s)[0] PROVE FALSE  BY <1>4, <2>1
    <2>2. l + 1 = 0  BY <1>1, OnePlace
    <2> QED BY <1>1, <2>2
  <1>6. m2.tab[a] = m.tab[a]  BY <1>2, <1>4, <1>5
  <1> HIDE DEF a, a2
  <1>7. Leaf(m2, a2, q) = Leaf(m, a, q)
    <2>1. CASE a2 = a  BY <1>6, <2>1 DEF Leaf
    <2>2. CASE a = 0 /\ a2 = n  BY <1>2, <2>2, ClearRow
    <2> QED BY <1>3, <2>1, <2>2
  <1> QED BY <1>7 DEF Map, a, a2

LEMMA WalkOnce ==
    ASSUME NEW m, m \in MemType, NEW r, r \in Frames, NEW p, p \in Pages,
           NEW w, IsWalk(m, r, p, w), NEW l, l \in 0 .. Top
    PROVE  Walk(m, r, p)[l] = w[l]
  <1> DEFINE v == Walk(m, r, p)
             S == {k \in 0 .. Top : w[k] = v[k]}
  <1>1. IsWalk(m, r, p, v)  BY WalkIs
  <1> HIDE DEF v
  <1>2. Top \in S
    <2>1. w[Top] = r /\ v[Top] = r  BY <1>1 DEF IsWalk
    <2>2. Top \in 0 .. Top  BY MmuAssumption
    <2> QED BY <2>1, <2>2
  <1>3. ASSUME NEW k \in 0 .. Top - 1, k + 1 \in S PROVE k \in S
    <2>1. /\ w[k] = Follow(m, w[k + 1], LevelIdx(p, k + 1))
          /\ v[k] = Follow(m, v[k + 1], LevelIdx(p, k + 1))
      BY <1>1 DEF IsWalk
    <2>2. w[k + 1] = v[k + 1] /\ k \in 0 .. Top  BY <1>3, MmuAssumption
    <2> QED BY <2>1, <2>2
  <1>4. 0 .. Top \subseteq S
    <2> HIDE DEF S
    <2> QED BY <1>2, <1>3, Down, MmuAssumption
  <1> QED BY <1>4 DEF v

\* Walks that stay clear of what was changed are the same.
LEMMA SameWalk ==
    ASSUME NEW m, m \in MemType, NEW m2, m2 \in MemType, NEW r, r \in Frames, NEW p, p \in Pages,
           \A k \in 0 .. Top - 1 : m2.tab[Walk(m, r, p)[k + 1]] = m.tab[Walk(m, r, p)[k + 1]],
           NEW l, l \in 0 .. Top
    PROVE  Walk(m2, r, p)[l] = Walk(m, r, p)[l]
  <1> DEFINE w == Walk(m, r, p)
  <1>1. IsWalk(m, r, p, w)  BY WalkIs
  <1>2. \A k \in 0 .. Top - 1 : m2.tab[w[k + 1]] = m.tab[w[k + 1]]  OBVIOUS
  <1> HIDE DEF w
  <1>3. IsWalk(m2, r, p, w)  BY <1>1, <1>2 DEF IsWalk, Follow
  <1>4. Walk(m2, r, p)[l] = w[l]  BY <1>3, WalkOnce
  <1> QED BY <1>4 DEF w

\* Trees that stay clear of what was changed are the same.
LEMMA SameUnder ==
    ASSUME NEW m, NEW m2, NEW r, r \in Frames,
           \A k \in 0 .. Top - 1 : \A f \in Under(m, r)[k + 1] : m2.tab[f] = m.tab[f]
    PROVE  Under(m2, r) = Under(m, r)
  <1> DEFINE u == Under(m, r)
  <1>1. IsUnder(m, r, u)  BY UnderIs
  <1>2. ASSUME NEW k \in 0 .. Top - 1 PROVE u[k] = Below(m2, r, u[k + 1])
    <2>1. u[k] = Below(m, r, u[k + 1])  BY <1>1 DEF IsUnder
    <2>2. \A f \in u[k + 1] : m2.tab[f] = m.tab[f]  OBVIOUS
    <2> HIDE DEF u
    <2> QED BY <2>1, <2>2, BelowSame
  <1> HIDE DEF u
  <1>3. IsUnder(m2, r, u)  BY <1>1, <1>2 DEF IsUnder
  <1>4. u = Under(m2, r)  BY <1>3, UnderOnce
  <1> QED BY <1>4 DEF u

\* Only frames that are free, or will be, change.
LEMMA FreeWf ==
    ASSUME NEW m, NEW R, Wf(m, R), NEW m2, m2 \in MemType,
           \A f \in Frames \ m.free : m2.tab[f] = m.tab[f],
           m2.free \intersect KernelFrames = {},
           \A r \in R : \A l \in 0 .. Top : Under(m, r)[l] \intersect m2.free = {}
    PROVE  /\ Wf(m2, R)
           /\ \A r \in R : Under(m2, r) = Under(m, r)
           /\ \A r \in R : \A p \in UserPages : \A l \in 0 .. Top :
                 Walk(m2, r, p)[l] = Walk(m, r, p)[l]
           /\ \A r \in R : \A p \in UserPages : Map(m2, r, p) = Map(m, r, p)
  <1>1. m \in MemType /\ R \subseteq Frames /\ m.tab[0] = ClearTable /\ 0 \in Frames /\ 0 \notin m.free
    BY WfFacts
  <1>2. \A r \in R : \A l \in 0 .. Top : \A f \in Under(m, r)[l] :
           f \in Frames /\ m2.tab[f] = m.tab[f]
    BY WfFacts
  <1>3. m2.tab[0] = ClearTable  BY <1>1
  <1>4. \A r \in R : Under(m2, r) = Under(m, r)
    <2>1. \A k \in 0 .. Top - 1 : k + 1 \in 0 .. Top  BY MmuAssumption
    <2> QED BY <1>1, <1>2, <2>1, SameUnder
  <1>5. ASSUME NEW r \in R, NEW p \in UserPages, NEW l \in 0 .. Top
        PROVE  /\ Walk(m2, r, p)[l] = Walk(m, r, p)[l]
               /\ m2.tab[Walk(m, r, p)[l]] = m.tab[Walk(m, r, p)[l]]
    <2>1. r \in Frames /\ p \in Pages  BY <1>1, Indices
    <2>2. ASSUME NEW k \in 0 .. Top PROVE m2.tab[Walk(m, r, p)[k]] = m.tab[Walk(m, r, p)[k]]
      <3>1. Walk(m, r, p)[k] \in Under(m, r)[k] \union {0}  BY WalkUnder
      <3> QED BY <1>1, <1>2, <1>3, <3>1
    <2>3. \A k \in 0 .. Top - 1 : m2.tab[Walk(m, r, p)[k + 1]] = m.tab[Walk(m, r, p)[k + 1]]
      BY <2>2, MmuAssumption
    <2>4. Walk(m2, r, p)[l] = Walk(m, r, p)[l]  BY <1>1, <2>1, <2>3, SameWalk
    <2> QED BY <2>2, <2>4
  <1>6. ASSUME NEW r \in R, NEW p \in UserPages PROVE Map(m2, r, p) = Map(m, r, p)
    <2>1. 0 \in 0 .. Top  BY MmuAssumption
    <2> QED BY <1>5, <2>1 DEF Map, Leaf
  <1>7. Forest(m2, R)
    <2>1. Forest(m, R)  BY DEF Wf
    <2>2. \A r, s \in R : \A k, l \in 0 .. Top : \A f \in Frames :
             f \in Under(m2, r)[k] /\ f \in Under(m2, s)[l] => r = s /\ k = l
      BY <1>4, <2>1 DEF Forest
    <2>3. ASSUME NEW r \in R, NEW l \in 0 .. Top - 1, NEW t \in Under(m2, r)[l + 1],
                 NEW v \in Under(m2, r)[l + 1], NEW i \in 0 .. Fan - 1, NEW j \in 0 .. Fan - 1,
                 Slot(m2, r, t, i), Slot(m2, r, v, j), m2.tab[t][i].frame = m2.tab[v][j].frame
          PROVE  t = v /\ i = j
      <3>1. t \in Under(m, r)[l + 1] /\ v \in Under(m, r)[l + 1] /\ l + 1 \in 0 .. Top
        BY <1>4, MmuAssumption
      <3>2. m2.tab[t] = m.tab[t] /\ m2.tab[v] = m.tab[v]  BY <1>2, <3>1
      <3>3. Slot(m, r, t, i) /\ Slot(m, r, v, j) /\ m.tab[t][i].frame = m.tab[v][j].frame
        BY <2>3, <3>2 DEF Slot
      <3> QED BY <2>1, <3>1, <3>3 DEF Forest
    <2> QED BY <2>2, <2>3 DEF Forest
  <1>8. ASSUME NEW r \in R, NEW l \in 0 .. Top
        PROVE  Under(m2, r)[l] \intersect (m2.free \union KernelFrames) = {}
    <2>1. Under(m2, r)[l] = Under(m, r)[l]  BY <1>4
    <2>2. Under(m, r)[l] \intersect m2.free = {}  OBVIOUS
    <2>3. Under(m, r)[l] \intersect (m.free \union KernelFrames) = {}  BY DEF Wf
    <2> QED BY <2>1, <2>2, <2>3
  <1>9. ASSUME NEW r \in R, NEW i \in UpperHalf PROVE m2.tab[r][i] = m2.tab[KernelRoot][i]
    <2>1. m2.tab[KernelRoot] = m.tab[KernelRoot]
      <3>1. KernelRoot \in Frames /\ KernelRoot \notin m.free  BY FrameAssumption DEF Wf, KernelFrames
      <3> QED BY <3>1
    <2>2. r \in Under(m, r)[Top] /\ Top \in 0 .. Top  BY <1>1, UnderFacts, MmuAssumption
    <2>3. m2.tab[r] = m.tab[r]  BY <1>2, <2>2
    <2>4. m.tab[r][i] = m.tab[KernelRoot][i]  BY DEF Wf
    <2> QED BY <2>1, <2>3, <2>4
  <1>10. Wf(m2, R)  BY <1>1, <1>3, <1>7, <1>8, <1>9 DEF Wf
  <1> QED BY <1>4, <1>5, <1>6, <1>10

(***************************************************************************)
(* An entry of a page table is written (mmuMapSingle, mmuUnmapSingle).     *)
(***************************************************************************)
IsSet(m, R, r, t, i, e, m2) ==
    /\ Wf(m, R) /\ r \in R /\ t \in Under(m, r)[0] /\ i \in 0 .. Fan - 1 /\ e \in EntryType
    /\ m2 = [free |-> m.free, tab |-> Written(m.tab, t, i, e)]

LEMMA SetTab ==
    ASSUME NEW m, NEW R, NEW r, NEW t, NEW i, NEW e, NEW m2, IsSet(m, R, r, t, i, e, m2)
    PROVE  /\ Wf(m, R) /\ r \in R /\ t \in Under(m, r)[0] /\ i \in 0 .. Fan - 1
           /\ m2 \in MemType /\ m2.free = m.free
           /\ t \in Frames /\ t \notin KernelFrames
           /\ m2.tab[t][i] = e
           /\ \A j \in 0 .. Fan - 1 : j # i => m2.tab[t][j] = m.tab[t][j]
           /\ \A f \in Frames : f # t => m2.tab[f] = m.tab[f]
           /\ \A s \in R : \A k \in 0 .. Top - 1 : t \notin Under(m, s)[k + 1]
           /\ \A s \in R : s # t
  <1>1. /\ Wf(m, R) /\ r \in R /\ t \in Under(m, r)[0] /\ i \in 0 .. Fan - 1 /\ e \in EntryType
        /\ m2.free = m.free /\ m2.tab = Written(m.tab, t, i, e)
        /\ m2 = [free |-> m2.free, tab |-> m2.tab]
    BY DEF IsSet
  <1>2. 0 \in 0 .. Top  BY MmuAssumption
  <1>3. m \in MemType /\ R \subseteq Frames /\ t \in Frames /\ t \notin KernelFrames
    BY <1>1, <1>2, WfFacts
  <1>4. m.tab \in [Frames -> TableType]  BY <1>3 DEF MemType
  <1>5. /\ m2.tab \in [Frames -> TableType] /\ m2.tab[t][i] = e
        /\ \A j \in 0 .. Fan - 1 : j # i => m2.tab[t][j] = m.tab[t][j]
        /\ \A f \in Frames : f # t => m2.tab[f] = m.tab[f]
    BY <1>1, <1>3, <1>4, EntryWritten
  <1>6. m2 \in MemType  BY <1>1, <1>3, <1>5 DEF MemType
  <1>7. ASSUME NEW s \in R, NEW k \in 0 .. Top - 1 PROVE t \notin Under(m, s)[k + 1]
    <2> SUFFICES ASSUME t \in Under(m, s)[k + 1] PROVE FALSE  OBVIOUS
    <2>1. k + 1 \in 0 .. Top /\ k + 1 # 0  BY MmuAssumption
    <2>2. 0 = k + 1  BY <1>1, <1>2, <2>1, OnePlace
    <2> QED BY <2>1, <2>2
  <1>8. ASSUME NEW s \in R PROVE s # t
    <2>1. s \in Under(m, s)[Top] /\ Top - 1 \in 0 .. Top - 1 /\ (Top - 1) + 1 = Top
      BY <1>3, UnderFacts, MmuAssumption
    <2>2. t \notin Under(m, s)[(Top - 1) + 1]  BY <1>7, <2>1
    <2> QED BY <2>1, <2>2
  <1> QED BY <1>1, <1>3, <1>5, <1>6, <1>7, <1>8

LEMMA SetWf ==
    ASSUME NEW m, NEW R, NEW r, NEW t, NEW i, NEW e, NEW m2, IsSet(m, R, r, t, i, e, m2)
    PROVE  Wf(m2, R) /\ \A s \in R : Under(m2, s) = Under(m, s)
  <1>1. /\ Wf(m, R) /\ r \in R /\ t \in Under(m, r)[0] /\ i \in 0 .. Fan - 1
        /\ m2 \in MemType /\ m2.free = m.free
        /\ t \in Frames /\ t \notin KernelFrames
        /\ \A f \in Frames : f # t => m2.tab[f] = m.tab[f]
        /\ \A s \in R : \A k \in 0 .. Top - 1 : t \notin Under(m, s)[k + 1]
        /\ \A s \in R : s # t
    BY SetTab
  <1>2. /\ R \subseteq Frames
        /\ \A s \in R : \A k \in 0 .. Top - 1 : Under(m, s)[k + 1] \subseteq Frames
    <2>1. R \subseteq Frames  BY <1>1, WfFacts
    <2>2. ASSUME NEW s \in R, NEW k \in 0 .. Top - 1 PROVE Under(m, s)[k + 1] \subseteq Frames
      <3>1. k + 1 \in 0 .. Top /\ s \in Frames  BY <2>1, MmuAssumption
      <3>2. Under(m, s) \in [0 .. Top -> SUBSET Frames]  BY <3>1, UnderFacts
      <3> QED BY <3>1, <3>2
    <2> QED BY <2>1, <2>2
  <1>3. \A s \in R : \A k \in 0 .. Top - 1 : \A f \in Under(m, s)[k + 1] :
           f # t /\ m2.tab[f] = m.tab[f]
    BY <1>1, <1>2
  <1>4. \A s \in R : Under(m2, s) = Under(m, s)  BY <1>2, <1>3, SameUnder
  <1>5. Forest(m2, R)
    <2>1. Forest(m, R)  BY <1>1 DEF Wf
    <2>2. \A s, v \in R : \A k, l \in 0 .. Top : \A f \in Frames :
             f \in Under(m2, s)[k] /\ f \in Under(m2, v)[l] => s = v /\ k = l
      BY <1>4, <2>1 DEF Forest
    <2>3. ASSUME NEW s \in R, NEW l \in 0 .. Top - 1, NEW a \in Under(m2, s)[l + 1],
                 NEW b \in Under(m2, s)[l + 1], NEW c \in 0 .. Fan - 1, NEW d \in 0 .. Fan - 1,
                 Slot(m2, s, a, c), Slot(m2, s, b, d), m2.tab[a][c].frame = m2.tab[b][d].frame
          PROVE  a = b /\ c = d
      <3>1. a \in Under(m, s)[l + 1] /\ b \in Under(m, s)[l + 1]  BY <1>4
      <3>2. m2.tab[a] = m.tab[a] /\ m2.tab[b] = m.tab[b]  BY <1>3, <3>1
      <3>3. Slot(m, s, a, c) /\ Slot(m, s, b, d) /\ m.tab[a][c].frame = m.tab[b][d].frame
        BY <2>3, <3>2 DEF Slot
      <3> QED BY <2>1, <3>1, <3>3 DEF Forest
    <2> QED BY <2>2, <2>3 DEF Forest
  <1>6. m2.tab[0] = ClearTable
    <2>1. 0 \in KernelFrames /\ 0 \in Frames /\ m.tab[0] = ClearTable
      BY <1>1, WfFacts DEF KernelFrames
    <2> QED BY <1>1, <2>1
  <1>7. \A s \in R : \A l \in 0 .. Top :
           Under(m2, s)[l] \intersect (m2.free \union KernelFrames) = {}
    BY <1>1, <1>4 DEF Wf
  <1>8. ASSUME NEW s \in R, NEW j \in UpperHalf PROVE m2.tab[s][j] = m2.tab[KernelRoot][j]
    <2>1. KernelRoot \in Frames /\ KernelRoot # t /\ s \in Frames /\ s # t
      BY <1>1, <1>2, FrameAssumption DEF KernelFrames
    <2>2. m2.tab[s] = m.tab[s] /\ m2.tab[KernelRoot] = m.tab[KernelRoot]  BY <1>1, <2>1
    <2>3. m.tab[s][j] = m.tab[KernelRoot][j]  BY <1>1 DEF Wf
    <2> QED BY <2>2, <2>3
  <1>9. m2.free \intersect KernelFrames = {}  BY <1>1 DEF Wf
  <1>10. Wf(m2, R)  BY <1>1, <1>2, <1>5, <1>6, <1>7, <1>8, <1>9 DEF Wf
  <1> QED BY <1>4, <1>10

\* The way to a page table leaves from the way to another nowhere.
LEMMA SameStep ==
    ASSUME NEW m, NEW R, Wf(m, R), NEW r, r \in R, NEW p, p \in UserPages, NEW q, q \in UserPages,
           NEW k, k \in 0 .. Top - 1, Walk(m, r, p)[k] = Walk(m, r, q)[k], Walk(m, r, p)[k] # 0
    PROVE  /\ Walk(m, r, p)[k + 1] = Walk(m, r, q)[k + 1] /\ Walk(m, r, p)[k + 1] # 0
           /\ LevelIdx(p, k + 1) = LevelIdx(q, k + 1)
  <1> DEFINE t == Walk(m, r, p)[k + 1]
             v == Walk(m, r, q)[k + 1]
             i == LevelIdx(p, k + 1)
             j == LevelIdx(q, k + 1)
             f == Walk(m, r, p)[k]
  <1>1. /\ p \in Pages /\ q \in Pages /\ r \in Frames /\ m \in MemType /\ m.tab[0] = ClearTable
        /\ k + 1 \in 0 .. Top /\ k \in 0 .. Top
    BY Indices, WfFacts, MmuAssumption
  <1>2. i \in 0 .. Fan - 1 /\ j \in 0 .. Fan - 1  BY <1>1, Indices
  <1>3. f = Follow(m, t, i) /\ f = Follow(m, v, j)  BY <1>1, WalkFacts
  <1>4. t \in Under(m, r)[k + 1] \union {0} /\ v \in Under(m, r)[k + 1] \union {0}
    BY <1>1, WalkUnder
  <1>5. f # 0  OBVIOUS
  <1>6. (t = r => i < Fan \div 2) /\ (v = r => j < Fan \div 2)
    <2>1. r \in Under(m, r)[k + 1] => k + 1 = Top  BY WfFacts
    <2>2. r # 0
      <3>1. r \in Under(m, r)[Top] /\ Top \in 0 .. Top  BY <1>1, UnderFacts, MmuAssumption
      <3>2. r \notin KernelFrames  BY <3>1, WfFacts
      <3> QED BY <3>2 DEF KernelFrames
    <2>3. t = r \/ v = r => k + 1 = Top  BY <1>4, <2>1, <2>2
    <2>4. LevelIdx(p, Top) < Fan \div 2 /\ LevelIdx(q, Top) < Fan \div 2  BY Indices
    <2> QED BY <2>3, <2>4
  <1> HIDE DEF t, v, i, j, f
  <1>7. t # 0 /\ v # 0  BY <1>1, <1>2, <1>3, <1>5, ClearRow
  <1>8. /\ Present(m.tab[t][i]) /\ m.tab[t][i].frame = f
        /\ Present(m.tab[v][j]) /\ m.tab[v][j].frame = f
    BY <1>3, <1>5 DEF Follow
  <1>9. Slot(m, r, t, i) /\ Slot(m, r, v, j)  BY <1>6, <1>8 DEF Slot
  <1>10. t = v /\ i = j
    <2>1. \A x, y \in Under(m, r)[k + 1] : \A a, b \in 0 .. Fan - 1 :
             Slot(m, r, x, a) /\ Slot(m, r, y, b) /\ m.tab[x][a].frame = m.tab[y][b].frame
             => x = y /\ a = b
      BY DEF Wf, Forest
    <2> QED BY <1>2, <1>4, <1>7, <1>8, <1>9, <2>1
  <1> QED BY <1>7, <1>10 DEF t, v, i, j

LEMMA SameTable ==
    ASSUME NEW m, NEW R, Wf(m, R), NEW r, r \in R, NEW p, p \in UserPages, NEW q, q \in UserPages,
           Walk(m, r, p)[0] = Walk(m, r, q)[0], Walk(m, r, p)[0] # 0,
           LevelIdx(p, 0) = LevelIdx(q, 0)
    PROVE  p = q
  <1> DEFINE Same(k) == Walk(m, r, p)[k] = Walk(m, r, q)[k] /\ Walk(m, r, p)[k] # 0
                        /\ LevelIdx(p, k) = LevelIdx(q, k)
             S == {k \in Nat : k <= Top => Same(k)}
  <1>1. 0 \in S  OBVIOUS
  <1>2. ASSUME NEW k \in Nat, k \in S PROVE k + 1 \in S
    <2> SUFFICES ASSUME k + 1 <= Top PROVE Same(k + 1)  OBVIOUS
    <2>1. k \in 0 .. Top - 1 /\ k <= Top  BY MmuAssumption
    <2>2. Same(k)  BY <1>2, <2>1
    <2> QED BY <2>1, <2>2, SameStep
  <1>3. Nat \subseteq S
    <2> HIDE DEF S
    <2> QED BY <1>1, <1>2, Up
  <1>4. ASSUME NEW k \in 0 .. Top PROVE LevelIdx(p, k) = LevelIdx(q, k)
    <2>1. k \in Nat /\ k <= Top  BY MmuAssumption
    <2> QED BY <1>3, <2>1
  <1> QED BY <1>4, Indices

\* What writing an entry maps, and what it leaves.
LEMMA SetMaps ==
    ASSUME NEW m, NEW R, NEW r, NEW t, NEW i, NEW e, NEW m2, IsSet(m, R, r, t, i, e, m2),
           NEW p, p \in UserPages, t = Walk(m, r, p)[0], i = LevelIdx(p, 0)
    PROVE  /\ Map(m2, r, p) = IF Present(e) THEN e ELSE Nothing
           /\ \A s \in R, q \in UserPages : s # r \/ q # p => Map(m2, s, q) = Map(m, s, q)
  <1>1. /\ Wf(m, R) /\ r \in R /\ t \in Under(m, r)[0]
        /\ m \in MemType /\ m2 \in MemType /\ R \subseteq Frames
        /\ t \in Frames /\ t \notin KernelFrames /\ t # 0
        /\ m2.tab[t][i] = e
        /\ \A j \in 0 .. Fan - 1 : j # i => m2.tab[t][j] = m.tab[t][j]
        /\ \A f \in Frames : f # t => m2.tab[f] = m.tab[f]
        /\ \A s \in R : \A k \in 0 .. Top - 1 : t \notin Under(m, s)[k + 1]
    BY SetTab, WfFacts DEF KernelFrames
  <1>2. 0 \in 0 .. Top  BY MmuAssumption
  <1>3. ASSUME NEW s, s \in R, NEW q, q \in UserPages PROVE Walk(m2, s, q)[0] = Walk(m, s, q)[0]
    <2>1. s \in Frames /\ q \in Pages  BY <1>1, <1>3, Indices
    <2>2. ASSUME NEW k \in 0 .. Top - 1
          PROVE  m2.tab[Walk(m, s, q)[k + 1]] = m.tab[Walk(m, s, q)[k + 1]]
      <3>1. k + 1 \in 0 .. Top  BY MmuAssumption
      <3>2. Walk(m, s, q)[k + 1] \in Under(m, s)[k + 1] \union {0}  BY <1>1, <1>3, <3>1, WalkUnder
      <3>3. Walk(m, s, q)[k + 1] \in Frames  BY <1>1, <2>1, <3>1, WalkFacts
      <3> QED BY <1>1, <1>3, <3>2, <3>3
    <2> QED BY <1>1, <1>2, <2>1, <2>2, SameWalk
  <1>4. Map(m2, r, p) = IF Present(e) THEN e ELSE Nothing
    <2>1. Walk(m2, r, p)[0] = t  BY <1>1, <1>3
    <2> QED BY <1>1, <2>1 DEF Map, Leaf
  <1>5. ASSUME NEW s, s \in R, NEW q, q \in UserPages, s # r \/ q # p
        PROVE  Map(m2, s, q) = Map(m, s, q)
    <2> DEFINE a == Walk(m, s, q)[0]
               j == LevelIdx(q, 0)
    <2>1. s \in Frames /\ q \in Pages /\ p \in Pages  BY <1>1, <1>5, Indices
    <2>2. a \in Frames /\ a \in Under(m, s)[0] \union {0} /\ j \in 0 .. Fan - 1
      BY <1>1, <1>2, <1>5, <2>1, WalkFacts, WalkUnder, Indices
    <2>3. Walk(m2, s, q)[0] = a  BY <1>3, <1>5
    <2>4. a # t \/ j # i
      <3> SUFFICES ASSUME a = t, j = i PROVE FALSE  OBVIOUS
      <3>1. t \in Under(m, s)[0]  BY <1>1, <2>2
      <3>2. s = r  BY <1>1, <1>2, <1>5, <3>1, OnePlace
      <3>3. q = p
        <4>1. Walk(m, r, p)[0] = Walk(m, r, q)[0] /\ Walk(m, r, p)[0] # 0  BY <1>1, <3>2
        <4>2. LevelIdx(p, 0) = LevelIdx(q, 0)  OBVIOUS
        <4> QED BY <1>1, <1>5, <4>1, <4>2, SameTable
      <3> QED BY <1>5, <3>2, <3>3
    <2> HIDE DEF a, j
    <2>5. m2.tab[a][j] = m.tab[a][j]  BY <1>1, <2>2, <2>4
    <2> QED BY <2>3, <2>5 DEF Map, Leaf, a, j
  <1> QED BY <1>4, <1>5

(***************************************************************************)
(* A root is made (mmuCreateVas).                                          *)
(***************************************************************************)
NewRow(m, cur) ==
    [i \in 0 .. Fan - 1 |-> IF i < Fan \div 2 THEN Nothing ELSE m.tab[cur][i]]

IsRoot(m, R, cur, n, m2) ==
    /\ Wf(m, R) /\ cur \in {KernelRoot} \union R /\ n \in m.free
    /\ m2 = [free |-> m.free \ {n}, tab |-> [m.tab EXCEPT ![n] = NewRow(m, cur)]]

LEMMA RootTab ==
    ASSUME NEW m, NEW R, NEW cur, NEW n, NEW m2, IsRoot(m, R, cur, n, m2)
    PROVE  /\ Wf(m, R) /\ n \in m.free /\ n \notin R /\ n \in Frames /\ n \notin KernelFrames
           /\ m \in MemType /\ m2 \in MemType /\ R \subseteq Frames /\ m2.free = m.free \ {n}
           /\ \A f \in Frames : f # n => m2.tab[f] = m.tab[f]
           /\ \A i \in 0 .. Fan - 1 : i < Fan \div 2 => m2.tab[n][i] = Nothing
           /\ \A i \in UpperHalf : m2.tab[n][i] = m.tab[KernelRoot][i]
           /\ \A s \in R : \A l \in 0 .. Top : n \notin Under(m, s)[l]
  <1> DEFINE row == NewRow(m, cur)
             tab == m.tab
             tab2 == m2.tab
  <1>1. /\ Wf(m, R) /\ cur \in {KernelRoot} \union R /\ n \in m.free
        /\ m2.free = m.free \ {n} /\ tab2 = [tab EXCEPT ![n] = row]
        /\ m2 = [free |-> m2.free, tab |-> tab2]
    BY DEF IsRoot
  <1>2. /\ m \in MemType /\ R \subseteq Frames /\ m.free \subseteq Frames
        /\ m.free \intersect KernelFrames = {}
        /\ \A s \in R : \A l \in 0 .. Top : \A f \in Under(m, s)[l] : f \notin m.free
    BY <1>1, WfFacts DEF Wf
  <1>3. tab \in [Frames -> TableType] /\ m.free \in SUBSET Frames  BY <1>2 DEF MemType
  <1>4. cur \in Frames /\ KernelRoot \in Frames  BY <1>1, <1>2, FrameAssumption
  <1>5. tab[cur] \in [0 .. Fan - 1 -> EntryType]  BY <1>3, <1>4 DEF TableType
  <1>6. Nothing \in EntryType  BY FrameAssumption, MmuAssumption DEF Nothing, EntryType, Frames
  <1>7. /\ row \in TableType
        /\ \A i \in 0 .. Fan - 1 : row[i] = IF i < Fan \div 2 THEN Nothing ELSE tab[cur][i]
    BY <1>5, <1>6 DEF NewRow, TableType
  <1>8. UpperHalf \subseteq 0 .. Fan - 1 /\ \A i \in UpperHalf : ~(i < Fan \div 2)
    BY MmuAssumption, Z3 DEF UpperHalf
  <1>9. \A i \in UpperHalf : tab[cur][i] = tab[KernelRoot][i]  BY <1>1 DEF Wf
  <1>10. n \notin R
    <2> SUFFICES ASSUME n \in R PROVE FALSE  OBVIOUS
    <2>1. n \in Under(m, n)[Top] /\ Top \in 0 .. Top  BY <1>2, UnderFacts, MmuAssumption
    <2> QED BY <1>1, <1>2, <2>1
  <1> HIDE DEF row, tab, tab2
  <1>11. /\ tab2 \in [Frames -> TableType] /\ tab2[n] = row
         /\ \A f \in Frames : f # n => tab2[f] = tab[f]
    BY <1>1, <1>2, <1>3, <1>7
  <1>12. m2 \in MemType  BY <1>1, <1>3, <1>11 DEF MemType
  <1>13. \A i \in 0 .. Fan - 1 : i < Fan \div 2 => tab2[n][i] = Nothing  BY <1>7, <1>11
  <1>14. \A i \in UpperHalf : tab2[n][i] = tab[KernelRoot][i]  BY <1>7, <1>8, <1>9, <1>11
  <1> QED BY <1>1, <1>2, <1>10, <1>11, <1>12, <1>13, <1>14 DEF tab, tab2

LEMMA RootUnder ==
    ASSUME NEW m, NEW R, NEW cur, NEW n, NEW m2, IsRoot(m, R, cur, n, m2)
    PROVE  /\ \A s \in R : Under(m2, s) = Under(m, s)
           /\ \A l \in 0 .. Top : Under(m2, n)[l] = IF l = Top THEN {n} ELSE {}
  <1>1. /\ n \in Frames /\ R \subseteq Frames
        /\ \A f \in Frames : f # n => m2.tab[f] = m.tab[f]
        /\ \A i \in 0 .. Fan - 1 : i < Fan \div 2 => m2.tab[n][i] = Nothing
        /\ \A s \in R : \A l \in 0 .. Top : n \notin Under(m, s)[l]
    BY RootTab
  <1>2. ASSUME NEW s \in R PROVE Under(m2, s) = Under(m, s)
    <2>1. s \in Frames  BY <1>1
    <2>2. Under(m, s) \in [0 .. Top -> SUBSET Frames]  BY <2>1, UnderFacts
    <2>3. ASSUME NEW k \in 0 .. Top - 1, NEW f \in Under(m, s)[k + 1] PROVE m2.tab[f] = m.tab[f]
      <3>1. k + 1 \in 0 .. Top  BY MmuAssumption
      <3> QED BY <1>1, <2>2, <3>1
    <2> QED BY <2>1, <2>3, SameUnder
  <1> DEFINE u == [l \in 0 .. Top |-> IF l = Top THEN {n} ELSE {}]
  <1>3. IsUnder(m2, n, u)
    <2>1. u \in [0 .. Top -> SUBSET Frames] /\ u[Top] = {n}  BY <1>1, MmuAssumption
    <2>2. Below(m2, n, {}) = {}  BY DEF Below
    <2>3. Below(m2, n, {n}) = {}  BY <1>1 DEF Below, Nothing, Present
    <2>4. ASSUME NEW l \in 0 .. Top - 1 PROVE u[l] = Below(m2, n, u[l + 1])
      <3>1. l \in 0 .. Top /\ l + 1 \in 0 .. Top /\ l # Top  BY MmuAssumption
      <3>2. u[l] = {} /\ (u[l + 1] = {n} \/ u[l + 1] = {})  BY <3>1
      <3> HIDE DEF u
      <3> QED BY <2>2, <2>3, <3>2
    <2> HIDE DEF u
    <2> QED BY <2>1, <2>4 DEF IsUnder
  <1>4. u = Under(m2, n)
    <2> HIDE DEF u
    <2> QED BY <1>1, <1>3, UnderOnce
  <1> QED BY <1>2, <1>4

LEMMA RootWf ==
    ASSUME NEW m, NEW R, NEW cur, NEW n, NEW m2, IsRoot(m, R, cur, n, m2)
    PROVE  Wf(m2, R \union {n})
  <1>1. /\ Wf(m, R) /\ n \in m.free /\ n \notin R /\ n \in Frames /\ n \notin KernelFrames
        /\ m \in MemType /\ m2 \in MemType /\ R \subseteq Frames /\ m2.free = m.free \ {n}
        /\ \A f \in Frames : f # n => m2.tab[f] = m.tab[f]
        /\ \A i \in 0 .. Fan - 1 : i < Fan \div 2 => m2.tab[n][i] = Nothing
        /\ \A i \in UpperHalf : m2.tab[n][i] = m.tab[KernelRoot][i]
        /\ \A s \in R : \A l \in 0 .. Top : n \notin Under(m, s)[l]
    BY RootTab
  <1>2. /\ \A s \in R : Under(m2, s) = Under(m, s)
        /\ \A l \in 0 .. Top : Under(m2, n)[l] = IF l = Top THEN {n} ELSE {}
    BY RootUnder
  <1>3. /\ m.tab[0] = ClearTable /\ 0 \in Frames /\ 0 \notin m.free
        /\ \A r \in R : \A l \in 0 .. Top :
              Under(m, r)[l] \intersect (m.free \union KernelFrames) = {}
        /\ Forest(m, R)
        /\ \A r \in R : \A i \in UpperHalf : m.tab[r][i] = m.tab[KernelRoot][i]
        /\ m.free \intersect KernelFrames = {}
    BY <1>1, WfFacts DEF Wf
  <1>4. m2.tab[0] = ClearTable  BY <1>1, <1>3
  <1>5. ASSUME NEW r \in R \union {n}, NEW l \in 0 .. Top
        PROVE  Under(m2, r)[l] \intersect (m2.free \union KernelFrames) = {}
    <2>1. CASE r = n  BY <1>1, <1>2, <2>1
    <2>2. CASE r \in R  BY <1>1, <1>2, <1>3, <2>2
    <2> QED BY <2>1, <2>2
  <1>6. ASSUME NEW r \in R \union {n}, NEW i \in UpperHalf PROVE m2.tab[r][i] = m2.tab[KernelRoot][i]
    <2>1. KernelRoot # n /\ KernelRoot \in Frames  BY <1>1, FrameAssumption DEF KernelFrames
    <2>2. m2.tab[KernelRoot] = m.tab[KernelRoot]  BY <1>1, <2>1
    <2>3. CASE r = n  BY <1>1, <2>2, <2>3
    <2>4. CASE r \in R
      <3>1. m2.tab[r] = m.tab[r]  BY <1>1, <2>4
      <3> QED BY <1>3, <2>2, <2>4, <3>1
    <2> QED BY <2>3, <2>4
  <1>7. Forest(m2, R \union {n})
    <2>1. ASSUME NEW r \in R \union {n}, NEW s \in R \union {n}, NEW k \in 0 .. Top,
                 NEW l \in 0 .. Top, NEW f \in Frames, f \in Under(m2, r)[k], f \in Under(m2, s)[l]
          PROVE  r = s /\ k = l
      <3>1. CASE r = n /\ s = n  BY <1>2, <2>1, <3>1
      <3>2. CASE r = n /\ s \in R  BY <1>1, <1>2, <2>1, <3>2
      <3>3. CASE r \in R /\ s = n  BY <1>1, <1>2, <2>1, <3>3
      <3>4. CASE r \in R /\ s \in R
        <4>1. f \in Under(m, r)[k] /\ f \in Under(m, s)[l]  BY <1>2, <2>1, <3>4
        <4> QED BY <1>1, <3>4, <4>1, OnePlace
      <3> QED BY <3>1, <3>2, <3>3, <3>4
    <2>2. ASSUME NEW s \in R \union {n}, NEW l \in 0 .. Top - 1,
                 NEW t \in Under(m2, s)[l + 1], NEW v \in Under(m2, s)[l + 1],
                 NEW i \in 0 .. Fan - 1, NEW j \in 0 .. Fan - 1,
                 Slot(m2, s, t, i), Slot(m2, s, v, j), m2.tab[t][i].frame = m2.tab[v][j].frame
          PROVE  t = v /\ i = j
      <3>1. l + 1 \in 0 .. Top  BY MmuAssumption
      <3>2. CASE s = n
        <4>1. t = n  BY <1>2, <3>1, <3>2
        <4>2. Present(m2.tab[n][i]) /\ i < Fan \div 2  BY <2>2, <3>2, <4>1 DEF Slot
        <4> QED BY <1>1, <4>2 DEF Nothing, Present
      <3>3. CASE s \in R
        <4>1. t \in Under(m, s)[l + 1] /\ v \in Under(m, s)[l + 1]  BY <1>2, <3>3
        <4>2. t \in Frames /\ v \in Frames /\ t # n /\ v # n  BY <1>1, <3>1, <3>3, <4>1, WfFacts
        <4>3. m2.tab[t] = m.tab[t] /\ m2.tab[v] = m.tab[v]  BY <1>1, <4>2
        <4>4. Slot(m, s, t, i) /\ Slot(m, s, v, j) /\ m.tab[t][i].frame = m.tab[v][j].frame
          BY <2>2, <4>3 DEF Slot
        <4> QED BY <1>3, <3>3, <4>1, <4>4 DEF Forest
      <3> QED BY <3>2, <3>3
    <2> QED BY <2>1, <2>2 DEF Forest
  <1> QED BY <1>1, <1>3, <1>4, <1>5, <1>6, <1>7 DEF Wf

LEMMA RootMaps ==
    ASSUME NEW m, NEW R, NEW cur, NEW n, NEW m2, IsRoot(m, R, cur, n, m2),
           NEW q, q \in UserPages
    PROVE  /\ \A s \in R : Map(m2, s, q) = Map(m, s, q)
           /\ Map(m2, n, q) = Nothing
  <1>1. /\ Wf(m, R) /\ n \in m.free /\ n \in Frames /\ n \notin KernelFrames
        /\ m \in MemType /\ m2 \in MemType /\ R \subseteq Frames
        /\ \A f \in Frames : f # n => m2.tab[f] = m.tab[f]
        /\ \A s \in R : \A l \in 0 .. Top : n \notin Under(m, s)[l]
    BY RootTab
  <1>2. q \in Pages /\ 0 \in 0 .. Top /\ 0 # Top  BY Indices, MmuAssumption
  <1>3. ASSUME NEW s, s \in R PROVE Map(m2, s, q) = Map(m, s, q)
    <2>1. ASSUME NEW k \in 0 .. Top PROVE m2.tab[Walk(m, s, q)[k]] = m.tab[Walk(m, s, q)[k]]
      <3>1. Walk(m, s, q)[k] \in Under(m, s)[k] \union {0}  BY <1>1, <1>3, WalkUnder
      <3>2. Walk(m, s, q)[k] \in Frames  BY <1>1, <1>2, <1>3, WalkFacts
      <3>3. n # 0  BY <1>1 DEF KernelFrames
      <3> QED BY <1>1, <1>3, <3>1, <3>2, <3>3
    <2>2. \A k \in 0 .. Top - 1 : k + 1 \in 0 .. Top  BY MmuAssumption
    <2>3. s \in Frames  BY <1>1, <1>3
    <2>4. \A k \in 0 .. Top - 1 : m2.tab[Walk(m, s, q)[k + 1]] = m.tab[Walk(m, s, q)[k + 1]]
      BY <2>1, <2>2
    <2>5. Walk(m2, s, q)[0] = Walk(m, s, q)[0]  BY <1>1, <1>2, <2>3, <2>4, SameWalk
    <2> QED BY <1>2, <2>1, <2>5 DEF Map, Leaf
  <1>4. Map(m2, n, q) = Nothing
    <2>1. Wf(m2, R \union {n}) /\ n \in R \union {n}  BY RootWf
    <2>2. Walk(m2, n, q)[0] \in Under(m2, n)[0] \union {0}  BY <1>2, <2>1, WalkUnder
    <2>3. Under(m2, n)[0] = {}  BY <1>2, RootUnder
    <2>4. m2.tab[0] = ClearTable  BY <2>1, WfFacts
    <2> QED BY <1>2, <2>2, <2>3, <2>4, ClearRow DEF Map
  <1> QED BY <1>3, <1>4

(***************************************************************************)
(* What the allocator gives (mmAllocFrame): a run of free frames.          *)
(***************************************************************************)
Wiped(tab, S) == [f \in Frames |-> IF f \in S THEN ClearTable ELSE tab[f]]

LEMMA WipedTab ==
    ASSUME NEW tab, tab \in [Frames -> TableType], NEW S
    PROVE  /\ Wiped(tab, S) \in [Frames -> TableType]
           /\ \A f \in Frames : Wiped(tab, S)[f] = IF f \in S THEN ClearTable ELSE tab[f]
  <1>1. Nothing \in EntryType  BY FrameAssumption, MmuAssumption DEF Nothing, EntryType, Frames
  <1>2. ClearTable \in TableType  BY <1>1 DEF ClearTable, TableType
  <1> QED BY <1>2 DEF Wiped

LEMMA AllocFacts ==
    ASSUME NEW m, m \in MemType, NEW count, count \in Nat \ {0}
    PROVE  LET a == AllocFrame(m, count)
               run == Run(a.base, count)
           IN  /\ a.base \in Frames /\ a.mem \in MemType
               /\ a.base = 0 => a.mem = m
               /\ a.base # 0 => /\ a.base \in m.free /\ run \subseteq m.free
                                /\ a.mem = [free |-> m.free \ run, tab |-> Wiped(m.tab, run)]
  <1> DEFINE a == AllocFrame(m, count)
             starts == {s \in Frames : FirstFit(Frames \ m.free, NFrames, count, s)}
             base == FirstBase(m, count)
             run == Run(base, count)
  <1>1. a.base = base /\ a.mem = IF base = 0 THEN m ELSE Cleared(Take(m, run), run)
    BY DEF AllocFrame
  <1>2. base \in Frames /\ (base # 0 => base \in starts)
    <2>1. starts \subseteq Frames  OBVIOUS
    <2>2. 0 \in Frames  BY FrameAssumption, MmuAssumption DEF Frames
    <2>3. base = IF starts = {} THEN 0 ELSE CHOOSE s \in starts : TRUE  BY DEF FirstBase
    <2> HIDE DEF starts, base
    <2>4. CASE starts = {}  BY <2>2, <2>3, <2>4
    <2>5. CASE starts # {}
      <3>1. (CHOOSE s \in starts : TRUE) \in starts  BY <2>5
      <3> QED BY <2>1, <2>3, <2>5, <3>1
    <2> QED BY <2>4, <2>5
  <1>3. m.free \subseteq Frames /\ m = [free |-> m.free, tab |-> m.tab] /\ m.tab \in [Frames -> TableType]
    BY DEF MemType
  <1>4. ASSUME base # 0 PROVE base \in m.free /\ run \subseteq m.free
    <2>1. Run(base, count + 1) \subseteq (0 .. NFrames - 1) \ (Frames \ m.free)
      <3> HIDE DEF base
      <3> QED BY <1>2, <1>4 DEF FirstFit, Fits
    <2>2. Run(base, count + 1) \subseteq m.free  BY <2>1 DEF Frames
    <2>3. base \in Nat  BY <1>2, MmuAssumption DEF Frames
    <2> HIDE DEF base
    <2>4. base \in Run(base, count + 1) /\ Run(base, count) \subseteq Run(base, count + 1)
      BY <2>3 DEF Run
    <2> QED BY <2>2, <2>4
  <1> HIDE DEF base, starts, run
  <1>5. ASSUME base # 0 PROVE a.mem = [free |-> m.free \ run, tab |-> Wiped(m.tab, run)]
    <2>1. a.mem = Cleared(Take(m, run), run)  BY <1>1, <1>5
    <2>2. Take(m, run) = [free |-> m.free \ run, tab |-> m.tab]  BY <1>3 DEF Take
    <2> DEFINE taken0 == [free |-> m.free \ run, tab |-> m.tab]
    <2>3. Cleared(taken0, run) = [free |-> m.free \ run, tab |-> Wiped(m.tab, run)]
      BY DEF Cleared, Wiped
    <2> QED BY <2>1, <2>2, <2>3
  <1>6. a.mem \in MemType
    <2>1. CASE base = 0  BY <1>1, <2>1
    <2>2. CASE base # 0
      <3>1. m.free \ run \in SUBSET Frames  BY <1>3
      <3>2. Wiped(m.tab, run) \in [Frames -> TableType]  BY <1>3, WipedTab
      <3> QED BY <1>5, <2>2, <3>1, <3>2 DEF MemType
    <2> QED BY <2>1, <2>2
  <1> QED BY <1>1, <1>2, <1>4, <1>5, <1>6 DEF run

LEMMA AllocOne ==
    ASSUME NEW m, m \in MemType
    PROVE  LET a == AllocFrame(m, 1)
           IN  /\ a.base \in Frames /\ a.mem \in MemType
               /\ a.base = 0 => a.mem = m
               /\ a.base # 0 => /\ a.base \in m.free
                                /\ a.mem = [free |-> m.free \ {a.base},
                                            tab |-> Wiped(m.tab, {a.base})]
  <1> DEFINE one == 1
             a == AllocFrame(m, one)
             run == Run(a.base, one)
  <1>1. one \in Nat \ {0}  OBVIOUS
  <1> HIDE DEF one
  <1>2. /\ a.base \in Frames /\ a.mem \in MemType
        /\ a.base = 0 => a.mem = m
        /\ a.base # 0 => /\ a.base \in m.free
                         /\ a.mem = [free |-> m.free \ run, tab |-> Wiped(m.tab, run)]
    BY <1>1, AllocFacts
  <1>3. run = {a.base}
    <2>1. a.base \in Int  BY <1>2, MmuAssumption DEF Frames
    <2> HIDE DEF a
    <2> QED BY <2>1 DEF Run, one
  <1> QED BY <1>2, <1>3 DEF one

LEMMA SetEntryIs ==
    ASSUME NEW m, m \in MemType, NEW t, NEW i, NEW e
    PROVE  SetEntry(m, t, i, e) = [free |-> m.free, tab |-> Written(m.tab, t, i, e)]
  BY DEF MemType, SetEntry, Written

\* Entries on the way to a user page are in the user half of the root.
LEMMA SlotOf ==
    ASSUME NEW m, NEW R, Wf(m, R), NEW r, r \in R, NEW p, p \in UserPages,
           NEW k, k \in 0 .. Top - 1, NEW t, t \in Under(m, r)[k + 1]
    PROVE  /\ t \in Frames /\ t # 0 /\ t \notin KernelFrames
           /\ LevelIdx(p, k + 1) \in 0 .. Fan - 1
           /\ t = r => LevelIdx(p, k + 1) < Fan \div 2
           /\ Present(m.tab[t][LevelIdx(p, k + 1)]) =>
                 /\ m.tab[t][LevelIdx(p, k + 1)].frame \in Under(m, r)[k]
                 /\ m.tab[t][LevelIdx(p, k + 1)].frame # 0
  <1> DEFINE i == LevelIdx(p, k + 1)
             f == m.tab[t][i].frame
  <1>1. k + 1 \in 0 .. Top /\ k \in 0 .. Top /\ p \in Pages /\ r \in Frames /\ m \in MemType
    BY Indices, WfFacts, MmuAssumption
  <1>2. t \in Frames /\ t \notin KernelFrames /\ t # 0  BY <1>1, WfFacts DEF KernelFrames
  <1>3. i \in 0 .. Fan - 1  BY <1>1, Indices
  <1>4. t = r => i < Fan \div 2
    <2>1. t = r => k + 1 = Top  BY WfFacts
    <2> QED BY <2>1, Indices
  <1>5. ASSUME Present(m.tab[t][i]) PROVE f \in Under(m, r)[k] /\ f # 0
    <2>1. f \in Frames  BY <1>1, <1>2, <1>3, FollowType
    <2>2. f \in Below(m, r, Under(m, r)[k + 1])
      <3> HIDE DEF i
      <3> QED BY <1>3, <1>4, <1>5, <2>1 DEF Below
    <2>3. f \in Under(m, r)[k]  BY <1>1, <2>2, UnderFacts
    <2>4. f \notin KernelFrames  BY <1>1, <2>3, WfFacts
    <2> QED BY <2>3, <2>4 DEF KernelFrames
  <1> QED BY <1>2, <1>3, <1>4, <1>5

--------------------------------------------------------------------------------
(***************************************************************************)
(* The descent of mmuGetLevelPhys, level by level.                         *)
(***************************************************************************)
Descent(m, root, p, alloc) ==
    CHOOSE at : at = [level \in 0 .. Top |->
        IF level = Top THEN [mem |-> m, table |-> root, ok |-> TRUE]
        ELSE Deeper(at[level + 1], LevelIdx(p, level + 1), alloc)]

StateType == [mem : MemType, table : Frames, ok : BOOLEAN]

LEMMA DeeperType ==
    ASSUME NEW x, x \in StateType, NEW i, i \in 0 .. Fan - 1, NEW alloc, alloc \in BOOLEAN
    PROVE  Deeper(x, i, alloc) \in StateType
  <1> DEFINE m == x.mem
             t == x.table
             e == m.tab[t][i]
             a == AllocFrame(m, 1)
             am == a.mem
             n == a.base
             link == [frame |-> n, flags |-> TableFlags]
  <1>1. x = [mem |-> m, table |-> t, ok |-> x.ok] /\ m \in MemType /\ t \in Frames /\ x.ok \in BOOLEAN
    BY DEF StateType
  <1>2. e.frame \in Frames  BY <1>1, FollowType
  <1>3. n \in Frames /\ am \in MemType  BY <1>1, AllocOne
  <1>4. link \in EntryType  BY <1>3 DEF EntryType, TableFlags
  <1>5. SetEntry(am, t, i, link) \in MemType
    <2>1. am.tab \in [Frames -> TableType] /\ am.free \in SUBSET Frames  BY <1>3 DEF MemType
    <2> HIDE DEF link, am, t
    <2>2. Written(am.tab, t, i, link) \in [Frames -> TableType]  BY <1>1, <1>4, <2>1, EntryWritten
    <2>3. SetEntry(am, t, i, link) = [free |-> am.free, tab |-> Written(am.tab, t, i, link)]
      BY <1>3, SetEntryIs
    <2> QED BY <2>1, <2>2, <2>3 DEF MemType
  <1>6. Deeper(x, i, alloc) =
          CASE ~x.ok -> x
            [] x.ok /\ Present(e) -> [x EXCEPT !.table = e.frame]
            [] x.ok /\ ~Present(e) /\ (~alloc \/ n = 0) -> [x EXCEPT !.ok = FALSE]
            [] OTHER -> [mem |-> SetEntry(am, t, i, link), table |-> n, ok |-> TRUE]
    BY DEF Deeper
  <1> HIDE DEF m, t, e, a, am, n, link
  <1>7. CASE ~x.ok  BY <1>6, <1>7
  <1>8. CASE x.ok /\ Present(e)
    <2>1. Deeper(x, i, alloc) = [x EXCEPT !.table = e.frame]  BY <1>6, <1>8
    <2> QED BY <1>1, <1>2, <2>1 DEF StateType
  <1>9. CASE x.ok /\ ~Present(e) /\ (~alloc \/ n = 0)
    <2>1. Deeper(x, i, alloc) = [x EXCEPT !.ok = FALSE]  BY <1>6, <1>9
    <2> QED BY <1>1, <2>1 DEF StateType
  <1>10. CASE x.ok /\ ~Present(e) /\ ~(~alloc \/ n = 0)
    <2>1. Deeper(x, i, alloc) = [mem |-> SetEntry(am, t, i, link), table |-> n, ok |-> TRUE]
      BY <1>6, <1>10
    <2> QED BY <1>3, <1>5, <2>1 DEF StateType
  <1> QED BY <1>1, <1>7, <1>8, <1>9, <1>10

LEMMA DescentIs ==
    ASSUME NEW m, m \in MemType, NEW r, r \in Frames, NEW p, p \in Pages,
           NEW alloc, alloc \in BOOLEAN
    PROVE  LET d == Descent(m, r, p, alloc)
           IN  /\ Descend(m, r, p, alloc) = d[0]
               /\ d \in [0 .. Top -> StateType]
               /\ d[Top] = [mem |-> m, table |-> r, ok |-> TRUE]
               /\ \A l \in 0 .. Top - 1 : d[l] = Deeper(d[l + 1], LevelIdx(p, l + 1), alloc)
  <1> DEFINE x0 == [mem |-> m, table |-> r, ok |-> TRUE]
             g == [l \in 0 .. Top - 1 |-> [x \in StateType |-> Deeper(x, LevelIdx(p, l + 1), alloc)]]
             Is(at) == at = [level \in 0 .. Top |->
                          IF level = Top THEN x0
                          ELSE Deeper(at[level + 1], LevelIdx(p, level + 1), alloc)]
             d == Descent(m, r, p, alloc)
  <1>1. x0 \in StateType  BY DEF StateType
  <1>2. ASSUME NEW l \in 0 .. Top - 1
        PROVE  [x \in StateType |-> Deeper(x, LevelIdx(p, l + 1), alloc)] \in [StateType -> StateType]
    <2>1. LevelIdx(p, l + 1) \in 0 .. Fan - 1  BY Indices, MmuAssumption
    <2>2. \A x \in StateType : Deeper(x, LevelIdx(p, l + 1), alloc) \in StateType
      BY <2>1, DeeperType
    <2> QED BY <2>2
  <1>3. g \in [0 .. Top - 1 -> [StateType -> StateType]]  BY <1>2
  <1>4. PICK h : Iterate(Top, StateType, x0, g, h)
    <2> HIDE DEF g, x0
    <2> QED BY <1>1, <1>3, Iterates, MmuAssumption
  <1>5. h \in [0 .. Top -> StateType] /\ h[Top] = x0  BY <1>4 DEF Iterate
  <1>6. ASSUME NEW l \in 0 .. Top - 1 PROVE h[l] = Deeper(h[l + 1], LevelIdx(p, l + 1), alloc)
    <2>1. h[l] = g[l][h[l + 1]]  BY <1>4 DEF Iterate
    <2>2. l + 1 \in 0 .. Top  BY MmuAssumption
    <2>3. h[l + 1] \in StateType  BY <1>5, <2>2
    <2> QED BY <2>1, <2>3
  <1>7. Is(h)
    <2> HIDE DEF x0
    <2>1. \A l \in 0 .. Top : h[l] = IF l = Top THEN x0
                                     ELSE Deeper(h[l + 1], LevelIdx(p, l + 1), alloc)
      BY <1>5, <1>6, MmuAssumption
    <2>2. h = [l \in 0 .. Top |-> h[l]]  BY <1>5
    <2> QED BY <2>1, <2>2
  <1>8. d = CHOOSE at : Is(at)  BY DEF Descent
  <1>9. Is(d)
    <2> HIDE DEF Is, d
    <2> QED BY <1>7, <1>8
  <1> HIDE DEF d
  <1>10. Top \in 0 .. Top /\ \A l \in 0 .. Top - 1 : l \in 0 .. Top /\ l # Top /\ l + 1 \in 0 .. Top
    BY MmuAssumption
  <1>11. d[Top] = x0
    <2> HIDE DEF x0
    <2> QED BY <1>9, <1>10
  <1>12. \A l \in 0 .. Top - 1 : d[l] = Deeper(d[l + 1], LevelIdx(p, l + 1), alloc)
    <2> HIDE DEF x0
    <2> QED BY <1>9, <1>10
  <1>13. \A l \in 0 .. Top : d[l] \in StateType
    <2> DEFINE S == {l \in 0 .. Top : d[l] \in StateType}
    <2>1. Top \in S
      <3> HIDE DEF x0
      <3> QED BY <1>1, <1>10, <1>11
    <2>2. ASSUME NEW l \in 0 .. Top - 1, l + 1 \in S PROVE l \in S
      <3>1. d[l + 1] \in StateType  BY <2>2
      <3>2. LevelIdx(p, l + 1) \in 0 .. Fan - 1  BY <1>10, Indices
      <3>3. d[l] \in StateType  BY <1>12, <3>1, <3>2, DeeperType
      <3> QED BY <1>10, <3>3
    <2>3. 0 .. Top \subseteq S
      <3> HIDE DEF S
      <3> QED BY <2>1, <2>2, Down, MmuAssumption
    <2> QED BY <2>3
  <1>14. d \in [0 .. Top -> StateType]
    <2> HIDE DEF x0
    <2>1. d = [l \in 0 .. Top |-> d[l]]  BY <1>9
    <2> QED BY <1>13, <2>1
  <1>15. Descend(m, r, p, alloc) = d[0]  BY DEF Descend, Descent, d
  <1> QED BY <1>11, <1>12, <1>14, <1>15 DEF d

\* What one level of the descent may do.
DeeperIs(x, i, alloc) ==
    LET m == x.mem
        t == x.table
        n == AllocFrame(m, 1).base
        y == Deeper(x, i, alloc)
    IN  /\ ~x.ok => y = x
        /\ x.ok /\ Present(m.tab[t][i]) => y.ok /\ y.mem = m /\ y.table = m.tab[t][i].frame
        /\ x.ok /\ ~Present(m.tab[t][i]) /\ (~alloc \/ n = 0) => ~y.ok /\ y.mem = m
        /\ x.ok /\ ~Present(m.tab[t][i]) /\ alloc /\ n # 0 =>
              /\ y.ok /\ y.table = n /\ n \in m.free
              /\ y.mem = [free |-> m.free \ {n},
                          tab |-> Written(Wiped(m.tab, {n}), t, i, LinkEntry(n))]

LEMMA DeeperCases ==
    ASSUME NEW x, x \in StateType, NEW i, NEW alloc, alloc \in BOOLEAN
    PROVE  DeeperIs(x, i, alloc)
  <1> DEFINE m == x.mem
             t == x.table
             e == m.tab[t][i]
             a == AllocFrame(m, 1)
             am == a.mem
             n == a.base
             link == LinkEntry(n)
             y == Deeper(x, i, alloc)
  <1>1. x = [mem |-> m, table |-> t, ok |-> x.ok] /\ m \in MemType /\ t \in Frames /\ x.ok \in BOOLEAN
    BY DEF StateType
  <1>2. /\ n \in Frames /\ am \in MemType
        /\ n # 0 => n \in m.free /\ am = [free |-> m.free \ {n}, tab |-> Wiped(m.tab, {n})]
    BY <1>1, AllocOne
  <1>3. y = CASE ~x.ok -> x
              [] x.ok /\ Present(e) -> [x EXCEPT !.table = e.frame]
              [] x.ok /\ ~Present(e) /\ (~alloc \/ n = 0) -> [x EXCEPT !.ok = FALSE]
              [] OTHER -> [mem |-> SetEntry(am, t, i, link), table |-> n, ok |-> TRUE]
    BY DEF Deeper, LinkEntry
  <1> HIDE DEF m, t, e, a, am, n, link, y
  <1>4. ~x.ok => y = x  BY <1>3
  <1>5. x.ok /\ Present(e) => y.ok /\ y.mem = m /\ y.table = e.frame
    <2> SUFFICES ASSUME x.ok, Present(e) PROVE y.ok /\ y.mem = m /\ y.table = e.frame  OBVIOUS
    <2>1. y = [x EXCEPT !.table = e.frame]  BY <1>3
    <2> QED BY <1>1, <2>1
  <1>6. x.ok /\ ~Present(e) /\ (~alloc \/ n = 0) => ~y.ok /\ y.mem = m
    <2> SUFFICES ASSUME x.ok, ~Present(e), ~alloc \/ n = 0 PROVE ~y.ok /\ y.mem = m  OBVIOUS
    <2>1. y = [x EXCEPT !.ok = FALSE]  BY <1>3
    <2> QED BY <1>1, <2>1
  <1>7. x.ok /\ ~Present(e) /\ alloc /\ n # 0 =>
           /\ y.ok /\ y.table = n /\ n \in m.free
           /\ y.mem = [free |-> m.free \ {n}, tab |-> Written(Wiped(m.tab, {n}), t, i, link)]
    <2> SUFFICES ASSUME x.ok, ~Present(e), alloc, n # 0
                 PROVE  /\ y.ok /\ y.table = n /\ n \in m.free
                        /\ y.mem = [free |-> m.free \ {n},
                                    tab |-> Written(Wiped(m.tab, {n}), t, i, link)]
      OBVIOUS
    <2>1. y = [mem |-> SetEntry(am, t, i, link), table |-> n, ok |-> TRUE]  BY <1>3
    <2>2. SetEntry(am, t, i, link) = [free |-> am.free, tab |-> Written(am.tab, t, i, link)]
      BY <1>2, SetEntryIs
    <2>3. am.free = m.free \ {n} /\ am.tab = Wiped(m.tab, {n})  BY <1>2
    <2> QED BY <1>2, <2>1, <2>2, <2>3
  <1> QED BY <1>4, <1>5, <1>6, <1>7 DEF DeeperIs, m, t, e, a, n, link, y

\* What a descent that allocates nothing has found at level l.
LookedUp(m, r, p, l, x) ==
    /\ x.mem = m
    /\ x.ok => x.table = Walk(m, r, p)[l] /\ x.table \in Under(m, r)[l]
    /\ ~x.ok => Walk(m, r, p)[l] = 0

LEMMA LookedUpStep ==
    ASSUME NEW m, NEW R, Wf(m, R), NEW r, r \in R, NEW p, p \in UserPages,
           NEW l, l \in 0 .. Top - 1, NEW x, x \in StateType, LookedUp(m, r, p, l + 1, x)
    PROVE  LookedUp(m, r, p, l, Deeper(x, LevelIdx(p, l + 1), FALSE))
  <1> DEFINE i == LevelIdx(p, l + 1)
             y == Deeper(x, i, FALSE)
             t == x.table
             w == Walk(m, r, p)
  <1>1. x.mem = m /\ (x.ok => t = w[l + 1] /\ t \in Under(m, r)[l + 1]) /\ (~x.ok => w[l + 1] = 0)
    BY DEF LookedUp
  <1>2. m \in MemType /\ r \in Frames /\ p \in Pages /\ m.tab[0] = ClearTable /\ l + 1 \in 0 .. Top
    BY WfFacts, Indices, MmuAssumption
  <1>3. w[l] = Follow(m, w[l + 1], i) /\ i \in 0 .. Fan - 1  BY <1>2, WalkFacts, Indices
  <1>4. x.ok /\ Present(m.tab[t][i]) => m.tab[t][i].frame \in Under(m, r)[l]
    BY <1>1, SlotOf
  <1>5. /\ ~x.ok => y = x
        /\ x.ok /\ Present(m.tab[t][i]) => y.ok /\ y.mem = m /\ y.table = m.tab[t][i].frame
        /\ x.ok /\ ~Present(m.tab[t][i]) => ~y.ok /\ y.mem = m
    <2>1. DeeperIs(x, i, FALSE)
      <3> DEFINE no == FALSE
      <3>1. no \in BOOLEAN  OBVIOUS
      <3> HIDE DEF no, i
      <3>2. DeeperIs(x, i, no)  BY <3>1, DeeperCases
      <3> QED BY <3>2 DEF no
    <2> HIDE DEF i
    <2> QED BY <1>1, <2>1 DEF DeeperIs
  <1> HIDE DEF i, y, t, w
  <1>6. CASE ~x.ok
    <2>1. w[l] = 0  BY <1>1, <1>2, <1>3, <1>6, ClearRow
    <2> QED BY <1>1, <1>5, <1>6, <2>1 DEF LookedUp, w, y, i
  <1>7. CASE x.ok /\ Present(m.tab[t][i])
    <2>1. w[l] = m.tab[t][i].frame  BY <1>1, <1>3, <1>7 DEF Follow
    <2>2. y.ok /\ y.mem = m /\ y.table = w[l] /\ y.table \in Under(m, r)[l]  BY <1>4, <1>5, <1>7, <2>1
    <2> QED BY <2>2 DEF LookedUp, w, y, i
  <1>8. CASE x.ok /\ ~Present(m.tab[t][i])
    <2>1. w[l] = 0  BY <1>1, <1>3, <1>8 DEF Follow
    <2> QED BY <1>5, <1>8, <2>1 DEF LookedUp, w, y, i
  <1> QED BY <1>6, <1>7, <1>8

LEMMA LookedUpAll ==
    ASSUME NEW m, NEW R, Wf(m, R), NEW r, r \in R, NEW p, p \in UserPages
    PROVE  /\ Descend(m, r, p, FALSE) \in StateType
           /\ LookedUp(m, r, p, 0, Descend(m, r, p, FALSE))
  <1> DEFINE no == FALSE
             d == Descent(m, r, p, no)
             S == {l \in 0 .. Top : LookedUp(m, r, p, l, d[l])}
  <1>1. m \in MemType /\ r \in Frames /\ p \in Pages /\ Top \in 0 .. Top /\ 0 \in 0 .. Top
        /\ \A l \in 0 .. Top - 1 : l \in 0 .. Top /\ l + 1 \in 0 .. Top
    BY WfFacts, Indices, MmuAssumption
  <1>2. no \in BOOLEAN  OBVIOUS
  <1>3. /\ Descend(m, r, p, no) = d[0]
        /\ d \in [0 .. Top -> StateType]
        /\ d[Top] = [mem |-> m, table |-> r, ok |-> TRUE]
        /\ \A l \in 0 .. Top - 1 : d[l] = Deeper(d[l + 1], LevelIdx(p, l + 1), no)
    <2> HIDE DEF no
    <2> QED BY <1>1, <1>2, DescentIs
  <1> HIDE DEF d
  <1>4. Top \in S
    <2>1. Walk(m, r, p)[Top] = r /\ r \in Under(m, r)[Top]  BY <1>1, WalkFacts, UnderFacts
    <2>2. d[Top].mem = m /\ d[Top].table = r /\ d[Top].ok  BY <1>3
    <2>3. LookedUp(m, r, p, Top, d[Top])  BY <2>1, <2>2 DEF LookedUp
    <2> QED BY <1>1, <2>3
  <1>5. ASSUME NEW l \in 0 .. Top - 1, l + 1 \in S PROVE l \in S
    <2>1. LookedUp(m, r, p, l + 1, d[l + 1]) /\ d[l + 1] \in StateType  BY <1>1, <1>3, <1>5
    <2>2. LookedUp(m, r, p, l, Deeper(d[l + 1], LevelIdx(p, l + 1), FALSE))  BY <2>1, LookedUpStep
    <2> QED BY <1>1, <1>3, <2>2
  <1>6. 0 .. Top \subseteq S
    <2> HIDE DEF S
    <2> QED BY <1>4, <1>5, Down, MmuAssumption
  <1>7. LookedUp(m, r, p, 0, d[0])  BY <1>1, <1>6
  <1> QED BY <1>1, <1>3, <1>7

\* The processor finds what the tables say.
LEMMA TranslateIs ==
    ASSUME NEW m, NEW R, Wf(m, R), NEW r, r \in R, NEW p, p \in UserPages
    PROVE  Translate(m, r, p) = Map(m, r, p)
  <1> DEFINE d == Descend(m, r, p, FALSE)
             e == m.tab[d.table][LevelIdx(p, 0)]
             w == Walk(m, r, p)[0]
  <1>1. d \in StateType /\ LookedUp(m, r, p, 0, d)  BY LookedUpAll
  <1>2. (d.ok => d.table = w) /\ (~d.ok => w = 0) /\ d.ok \in BOOLEAN
    BY <1>1 DEF LookedUp, StateType
  <1>3. m.tab[0] = ClearTable /\ p \in Pages  BY WfFacts, Indices
  <1>4. Translate(m, r, p) = IF d.ok /\ Present(e) THEN e ELSE Nothing  BY DEF Translate
  <1>5. Map(m, r, p) = Leaf(m, w, p)  BY DEF Map
  <1>6. CASE d.ok
    <2> HIDE DEF d, w
    <2> QED BY <1>2, <1>4, <1>5, <1>6 DEF Leaf
  <1>7. CASE ~d.ok
    <2> HIDE DEF d, w
    <2> QED BY <1>2, <1>3, <1>4, <1>5, <1>7, ClearRow
  <1> QED BY <1>2, <1>6, <1>7

\* mmuUnmapSingle takes one page away, or finds nothing to take.
LEMMA UnmapFacts ==
    ASSUME NEW m, NEW R, Wf(m, R), NEW r, r \in R, NEW p, p \in UserPages
    PROVE  LET x == UnmapSingle(m, r, p)
           IN  /\ Wf(x, R) /\ x.free = m.free
               /\ \A s \in R : Under(x, s) = Under(m, s)
               /\ Map(x, r, p) = Nothing
               /\ \A s \in R, q \in UserPages : s # r \/ q # p => Map(x, s, q) = Map(m, s, q)
  <1> DEFINE x == UnmapSingle(m, r, p)
             d == Descend(m, r, p, FALSE)
             i == LevelIdx(p, 0)
             w == Walk(m, r, p)[0]
  <1>1. d \in StateType /\ LookedUp(m, r, p, 0, d)  BY LookedUpAll
  <1>2. /\ d.ok => d.table = w /\ w \in Under(m, r)[0]
        /\ ~d.ok => w = 0
        /\ d.ok \in BOOLEAN
    BY <1>1 DEF LookedUp, StateType
  <1>3. m.tab[0] = ClearTable /\ p \in Pages /\ m \in MemType /\ R \subseteq Frames /\ 0 \in 0 .. Top
    BY WfFacts, Indices, MmuAssumption
  <1>4. i \in 0 .. Fan - 1  BY <1>3, Indices
  <1>5. x = IF d.ok THEN SetEntry(m, d.table, i, Nothing) ELSE m  BY DEF UnmapSingle
  <1>6. CASE d.ok
    <2>1. x = [free |-> m.free, tab |-> Written(m.tab, w, i, Nothing)]  BY <1>2, <1>3, <1>5, <1>6, SetEntryIs
    <2>2. Nothing \in EntryType  BY FrameAssumption, MmuAssumption DEF Nothing, EntryType, Frames
    <2>3. IsSet(m, R, r, w, i, Nothing, x)
      <3> HIDE DEF w, i, x
      <3> QED BY <1>2, <1>4, <1>6, <2>1, <2>2 DEF IsSet
    <2> DEFINE e == Nothing
    <2>4. ~Present(e)  BY DEF Nothing, Present
    <2>5. IsSet(m, R, r, w, i, e, x)  BY <2>3
    <2> HIDE DEF e, x
    <2>6. Wf(x, R) /\ x.free = m.free /\ \A s \in R : Under(x, s) = Under(m, s)
      <3> HIDE DEF w, i
      <3> QED BY <2>5, SetWf, SetTab
    <2>7. /\ Map(x, r, p) = IF Present(e) THEN e ELSE Nothing
          /\ \A s \in R, q \in UserPages : s # r \/ q # p => Map(x, s, q) = Map(m, s, q)
      BY <2>5, SetMaps
    <2> QED BY <2>4, <2>6, <2>7 DEF x
  <1>7. CASE ~d.ok
    <2>1. x = m  BY <1>5, <1>7
    <2>2. Map(m, r, p) = Nothing
      <3>1. w = 0  BY <1>2, <1>7
      <3> QED BY <1>3, <3>1, ClearRow DEF Map
    <2> HIDE DEF x
    <2> QED BY <2>1, <2>2 DEF x
  <1> QED BY <1>2, <1>6, <1>7

--------------------------------------------------------------------------------
(***************************************************************************)
(* What entering tables does to the spaces: nothing to what is mapped; the *)
(* frames taken are tables of the space at hand.                           *)
(***************************************************************************)
TablesOf(m, r) == UNION {Under(m, r)[l] : l \in 0 .. Top}

Grows(m, R, r, m2) ==
    /\ Wf(m2, R) /\ m2.free \subseteq m.free
    /\ \A s \in R, q \in UserPages : Map(m2, s, q) = Map(m, s, q)
    /\ \A s \in R, f \in Frames :
          f \in TablesOf(m2, s) <=> f \in TablesOf(m, s) \/ (s = r /\ f \in m.free \ m2.free)

LEMMA GrowsNot ==
    ASSUME NEW m, NEW R, NEW r, Wf(m, R)
    PROVE  Grows(m, R, r, m)
  BY DEF Grows

LEMMA GrowsTrans ==
    ASSUME NEW m, NEW R, NEW r, NEW m1, NEW m2, Grows(m, R, r, m1), Grows(m1, R, r, m2)
    PROVE  Grows(m, R, r, m2)
  <1>1. /\ m1.free \subseteq m.free
        /\ \A s \in R, q \in UserPages : Map(m1, s, q) = Map(m, s, q)
        /\ \A s \in R, f \in Frames :
              f \in TablesOf(m1, s) <=> f \in TablesOf(m, s) \/ (s = r /\ f \in m.free \ m1.free)
    BY DEF Grows
  <1>2. /\ Wf(m2, R) /\ m2.free \subseteq m1.free
        /\ \A s \in R, q \in UserPages : Map(m2, s, q) = Map(m1, s, q)
        /\ \A s \in R, f \in Frames :
              f \in TablesOf(m2, s) <=> f \in TablesOf(m1, s) \/ (s = r /\ f \in m1.free \ m2.free)
    BY DEF Grows
  <1>3. \A s \in R, f \in Frames :
           f \in TablesOf(m2, s) <=> f \in TablesOf(m, s) \/ (s = r /\ f \in m.free \ m2.free)
    BY <1>1, <1>2
  <1>4. \A s \in R, q \in UserPages : Map(m2, s, q) = Map(m, s, q)  BY <1>1, <1>2
  <1> QED BY <1>1, <1>2, <1>3, <1>4 DEF Grows

\* Clearing free frames changes no space.
IsWiped(m, S, m2) == S \subseteq m.free /\ m2 = [free |-> m.free, tab |-> Wiped(m.tab, S)]

SameTrees(m, R, r, S, m2) ==
    /\ Grows(m, R, r, m2)
    /\ \A f \in Frames : m2.tab[f] = IF f \in S THEN ClearTable ELSE m.tab[f]
    /\ \A s \in R : Under(m2, s) = Under(m, s)
    /\ \A s \in R : \A p \in UserPages : \A l \in 0 .. Top :
          Walk(m2, s, p)[l] = Walk(m, s, p)[l]

LEMMA WipedGrows ==
    ASSUME NEW m, NEW R, Wf(m, R), NEW r, NEW S, NEW m2, IsWiped(m, S, m2)
    PROVE  SameTrees(m, R, r, S, m2)
  <1>0. S \subseteq m.free /\ m2 = [free |-> m.free, tab |-> Wiped(m.tab, S)]  BY DEF IsWiped
  <1>1. m \in MemType /\ m.tab \in [Frames -> TableType] /\ m.free \in SUBSET Frames
    BY WfFacts DEF MemType
  <1>2. \A f \in Frames : m2.tab[f] = IF f \in S THEN ClearTable ELSE m.tab[f]  BY <1>0, <1>1, WipedTab
  <1>3. m2 \in MemType  BY <1>0, <1>1, WipedTab DEF MemType
  <1>4. m2.free = m.free /\ m.free \intersect KernelFrames = {}  BY <1>0 DEF Wf
  <1>5. \A s \in R : \A l \in 0 .. Top : Under(m, s)[l] \intersect m2.free = {}
    BY <1>4 DEF Wf
  <1>6. \A f \in Frames \ m.free : m2.tab[f] = m.tab[f]  BY <1>0, <1>2
  <1>7. /\ Wf(m2, R)
        /\ \A s \in R : Under(m2, s) = Under(m, s)
        /\ \A s \in R : \A p \in UserPages : \A l \in 0 .. Top :
              Walk(m2, s, p)[l] = Walk(m, s, p)[l]
        /\ \A s \in R : \A p \in UserPages : Map(m2, s, p) = Map(m, s, p)
    BY <1>3, <1>4, <1>5, <1>6, FreeWf
  <1>8. \A s \in R : TablesOf(m2, s) = TablesOf(m, s)  BY <1>7 DEF TablesOf
  <1>9. Grows(m, R, r, m2)  BY <1>4, <1>7, <1>8 DEF Grows
  <1> QED BY <1>2, <1>7, <1>9 DEF SameTrees

LEMMA LinkGrows ==
    ASSUME NEW m, NEW R, NEW r, NEW l, NEW t, NEW i, NEW n, NEW m2,
           IsLink(m, R, r, l, t, i, n, m2)
    PROVE  Grows(m, R, r, m2)
  <1>1. Wf(m, R) /\ Wf(m2, R) /\ m2.free = m.free \ {n} /\ n \in m.free /\ r \in R /\ l \in 0 .. Top
    BY LinkWf, LinkTab, LinkGives
  <1>2. \A s \in R, q \in UserPages : Map(m2, s, q) = Map(m, s, q)  BY LinkMaps
  <1>3. ASSUME NEW s, s \in R, NEW f, f \in Frames
        PROVE  f \in TablesOf(m2, s) <=> f \in TablesOf(m, s) \/ (s = r /\ f \in m.free \ m2.free)
    <2>1. \A k \in 0 .. Top :
             f \in Under(m2, s)[k] <=> f \in Under(m, s)[k] \/ (s = r /\ k = l /\ f = n)
      BY <1>3, LinkIn
    <2>2. f \in m.free \ m2.free <=> f = n  BY <1>1
    <2> QED BY <1>1, <2>1, <2>2 DEF TablesOf
  <1> QED BY <1>1, <1>2, <1>3 DEF Grows

\* What a descent that may allocate has done at level l.
Grown(m, R, r, p, l, x) ==
    /\ Grows(m, R, r, x.mem)
    /\ x.ok => x.table = Walk(x.mem, r, p)[l] /\ x.table \in Under(x.mem, r)[l]

LEMMA GrownStep ==
    ASSUME NEW m, NEW R, NEW r, r \in R, NEW p, p \in UserPages,
           NEW l, l \in 0 .. Top - 1, NEW x, x \in StateType, Grown(m, R, r, p, l + 1, x)
    PROVE  Grown(m, R, r, p, l, Deeper(x, LevelIdx(p, l + 1), TRUE))
  <1> DEFINE i == LevelIdx(p, l + 1)
             y == Deeper(x, i, TRUE)
             t == x.table
             c == x.mem
             n == AllocFrame(c, 1).base
             row == c.tab[t]
  <1>1. Grows(m, R, r, c) /\ Wf(c, R)
        /\ (x.ok => t = Walk(c, r, p)[l + 1] /\ t \in Under(c, r)[l + 1])
    BY DEF Grown, Grows
  <1>2. c \in MemType /\ r \in Frames /\ p \in Pages /\ l + 1 \in 0 .. Top /\ l \in 0 .. Top
    BY <1>1, WfFacts, Indices, MmuAssumption
  <1>3. Walk(c, r, p)[l] = Follow(c, Walk(c, r, p)[l + 1], i) /\ i \in 0 .. Fan - 1
    BY <1>2, WalkFacts, Indices
  <1>4. x.ok => /\ t \in Frames /\ t # 0 /\ (t = r => i < Fan \div 2)
                /\ Present(row[i]) => row[i].frame \in Under(c, r)[l]
    BY <1>1, SlotOf
  <1>5. DeeperIs(x, i, TRUE)
    <2> DEFINE yes == TRUE
    <2>1. yes \in BOOLEAN  OBVIOUS
    <2> HIDE DEF yes, i
    <2>2. DeeperIs(x, i, yes)  BY <2>1, DeeperCases
    <2> QED BY <2>2 DEF yes
  <1>6. /\ ~x.ok => y = x
        /\ x.ok /\ Present(row[i]) => y.ok /\ y.mem = c /\ y.table = row[i].frame
        /\ x.ok /\ ~Present(row[i]) /\ n = 0 => ~y.ok /\ y.mem = c
        /\ x.ok /\ ~Present(row[i]) /\ n # 0 =>
              /\ y.ok /\ y.table = n /\ n \in c.free
              /\ y.mem = [free |-> c.free \ {n},
                          tab |-> Written(Wiped(c.tab, {n}), t, i, LinkEntry(n))]
    BY <1>5 DEF DeeperIs
  <1>7. row = c.tab[t]  OBVIOUS
  <1> HIDE DEF i, y, t, c, n, row
  <1>8. CASE ~x.ok
    <2>1. y = x  BY <1>6, <1>8
    <2> QED BY <1>1, <1>8, <2>1 DEF Grown, y, i, c
  <1>9. CASE x.ok /\ Present(row[i])
    <2>1. y.ok /\ y.mem = c /\ y.table = row[i].frame /\ y.table \in Under(c, r)[l]  BY <1>4, <1>6, <1>9
    <2>2. y.table = Walk(c, r, p)[l]  BY <1>1, <1>3, <1>7, <1>9, <2>1 DEF Follow
    <2> QED BY <1>1, <2>1, <2>2 DEF Grown, y, i
  <1>10. CASE x.ok /\ ~Present(row[i]) /\ n = 0
    <2>1. ~y.ok /\ y.mem = c  BY <1>6, <1>10
    <2> QED BY <1>1, <2>1 DEF Grown, y, i
  <1>11. CASE x.ok /\ ~Present(row[i]) /\ n # 0
    <2> DEFINE m2 == y.mem
               b == [free |-> c.free, tab |-> Wiped(c.tab, {n})]
    <2>1. /\ y.ok /\ y.table = n /\ n \in c.free /\ n \in Frames
          /\ m2 = [free |-> c.free \ {n}, tab |-> Written(Wiped(c.tab, {n}), t, i, LinkEntry(n))]
      BY <1>1, <1>6, <1>11, WfFacts
    <2>2. b.free = c.free /\ b.tab = Wiped(c.tab, {n})  OBVIOUS
    <2>3. b = [free |-> c.free, tab |-> Wiped(c.tab, {n})]  OBVIOUS
    <2> HIDE DEF m2, b
    <2>4. /\ Grows(c, R, r, b)
          /\ \A f \in Frames : b.tab[f] = IF f \in {n} THEN ClearTable ELSE c.tab[f]
          /\ \A s \in R : Under(b, s) = Under(c, s)
          /\ \A s \in R : \A q \in UserPages : \A k \in 0 .. Top :
                Walk(b, s, q)[k] = Walk(c, s, q)[k]
      <3> DEFINE S == {n}
      <3>1. Wf(c, R) /\ IsWiped(c, S, b)  BY <1>1, <2>1, <2>3 DEF IsWiped
      <3> HIDE DEF S
      <3>2. SameTrees(c, R, r, S, b)  BY <3>1, WipedGrows
      <3> QED BY <3>2 DEF S, SameTrees
    <2>5. t \in Frames /\ t # 0 /\ t # n /\ (t = r => i < Fan \div 2) /\ t \in Under(c, r)[l + 1]
          /\ t = Walk(c, r, p)[l + 1]
      BY <1>1, <1>2, <1>4, <1>11, <2>1, WfFacts
    <2>6. IsLink(b, R, r, l, t, i, n, m2)
      <3>1. ~Present(b.tab[t][i])  BY <1>7, <1>11, <2>4, <2>5
      <3>2. Wf(b, R) /\ b.tab[n] = ClearTable  BY <2>1, <2>4 DEF Grows
      <3>3. m2 = [free |-> b.free \ {n}, tab |-> [b.tab EXCEPT ![t][i] = LinkEntry(n)]]
        BY <2>1, <2>2 DEF Written
      <3>4. t \in Under(b, r)[l + 1] /\ n \in b.free  BY <2>1, <2>2, <2>4, <2>5
      <3>5. r \in R /\ l \in 0 .. Top - 1 /\ i \in 0 .. Fan - 1 /\ (t = r => i < Fan \div 2)
        BY <1>3, <2>5
      <3> QED BY <3>1, <3>2, <3>3, <3>4, <3>5 DEF IsLink
    <2>7. Grows(m, R, r, m2)  BY <1>1, <2>4, <2>6, LinkGrows, GrowsTrans
    <2>8. Walk(m2, r, p)[l + 1] = t
      <3>1. \A k \in 0 .. Top : \/ Walk(m2, r, p)[k] = Walk(b, r, p)[k]
                                \/ Walk(b, r, p)[k] = 0 /\ Walk(m2, r, p)[k] = n
        BY <2>6, LinkWalk
      <3>2. Walk(b, r, p)[l + 1] = t  BY <1>2, <2>4, <2>5
      <3> QED BY <1>2, <2>5, <3>1, <3>2
    <2>9. Walk(m2, r, p)[l] = n
      <3>1. m2 \in MemType /\ Present(m2.tab[t][i]) /\ m2.tab[t][i].frame = n  BY <2>6, LinkTab
      <3>2. Walk(m2, r, p)[l] = Follow(m2, t, i)  BY <1>2, <2>8, <3>1, WalkFacts DEF i
      <3> QED BY <3>1, <3>2 DEF Follow
    <2>10. n \in Under(m2, r)[l]  BY <1>2, <2>6, LinkIn
    <2> QED BY <2>1, <2>7, <2>9, <2>10 DEF Grown, y, i, m2
  <1>12. x.ok \in BOOLEAN  BY DEF StateType
  <1> QED BY <1>8, <1>9, <1>10, <1>11, <1>12

LEMMA GrownAll ==
    ASSUME NEW m, NEW R, Wf(m, R), NEW r, r \in R, NEW p, p \in UserPages
    PROVE  /\ Descend(m, r, p, TRUE) \in StateType
           /\ Grown(m, R, r, p, 0, Descend(m, r, p, TRUE))
  <1> DEFINE yes == TRUE
             d == Descent(m, r, p, yes)
             S == {l \in 0 .. Top : Grown(m, R, r, p, l, d[l])}
  <1>1. m \in MemType /\ r \in Frames /\ p \in Pages /\ Top \in 0 .. Top /\ 0 \in 0 .. Top
        /\ \A l \in 0 .. Top - 1 : l \in 0 .. Top /\ l + 1 \in 0 .. Top
    BY WfFacts, Indices, MmuAssumption
  <1>2. yes \in BOOLEAN  OBVIOUS
  <1>3. /\ Descend(m, r, p, yes) = d[0]
        /\ d \in [0 .. Top -> StateType]
        /\ d[Top] = [mem |-> m, table |-> r, ok |-> TRUE]
        /\ \A l \in 0 .. Top - 1 : d[l] = Deeper(d[l + 1], LevelIdx(p, l + 1), yes)
    <2> HIDE DEF yes
    <2> QED BY <1>1, <1>2, DescentIs
  <1> HIDE DEF d
  <1>4. Top \in S
    <2>1. Walk(m, r, p)[Top] = r /\ r \in Under(m, r)[Top]  BY <1>1, WalkFacts, UnderFacts
    <2>2. d[Top].mem = m /\ d[Top].table = r /\ d[Top].ok  BY <1>3
    <2>3. Grown(m, R, r, p, Top, d[Top])  BY <2>1, <2>2, GrowsNot DEF Grown
    <2> QED BY <1>1, <2>3
  <1>5. ASSUME NEW l \in 0 .. Top - 1, l + 1 \in S PROVE l \in S
    <2>1. Grown(m, R, r, p, l + 1, d[l + 1]) /\ d[l + 1] \in StateType  BY <1>1, <1>3, <1>5
    <2>2. Grown(m, R, r, p, l, Deeper(d[l + 1], LevelIdx(p, l + 1), TRUE))  BY <2>1, GrownStep
    <2> QED BY <1>1, <1>3, <2>2
  <1>6. 0 .. Top \subseteq S
    <2> HIDE DEF S
    <2> QED BY <1>4, <1>5, Down, MmuAssumption
  <1>7. Grown(m, R, r, p, 0, d[0])  BY <1>1, <1>6
  <1> QED BY <1>1, <1>3, <1>7

\* mmuMapSingle maps one page, or nothing; what it takes from the free frames
\* is tables of that space.
LEMMA MapFacts ==
    ASSUME NEW m, NEW R, Wf(m, R), NEW r, r \in R, NEW p, p \in UserPages,
           NEW frame, frame \in Frames,
           NEW prot, prot \in {"PAGE_USER_READWRITE", "PAGE_USER_EXEC_READ"}
    PROVE  LET x == MapSingle(m, r, p, frame, prot)
           IN  /\ x.ok \in BOOLEAN /\ Wf(x.mem, R) /\ x.mem.free \subseteq m.free
               /\ \A s \in R, f \in Frames :
                     f \in TablesOf(x.mem, s) <=>
                        f \in TablesOf(m, s) \/ (s = r /\ f \in m.free \ x.mem.free)
               /\ Map(x.mem, r, p) = IF x.ok THEN [frame |-> frame, flags |-> TableFlagsOf(prot)]
                                     ELSE Map(m, r, p)
               /\ \A s \in R, q \in UserPages : s # r \/ q # p => Map(x.mem, s, q) = Map(m, s, q)
  <1> DEFINE x == MapSingle(m, r, p, frame, prot)
             d == Descend(m, r, p, TRUE)
             c == d.mem
             t == d.table
             i == LevelIdx(p, 0)
             e == [frame |-> frame, flags |-> TableFlagsOf(prot)]
             y == x.mem
  <1>1. d \in StateType /\ Grown(m, R, r, p, 0, d)  BY GrownAll
  <1>2. /\ d.ok \in BOOLEAN /\ Grows(m, R, r, c)
        /\ d.ok => t = Walk(c, r, p)[0] /\ t \in Under(c, r)[0]
    BY <1>1 DEF Grown, StateType
  <1>3. /\ Wf(c, R) /\ c.free \subseteq m.free
        /\ \A s \in R, q \in UserPages : Map(c, s, q) = Map(m, s, q)
        /\ \A s \in R, f \in Frames :
              f \in TablesOf(c, s) <=> f \in TablesOf(m, s) \/ (s = r /\ f \in m.free \ c.free)
    BY <1>2 DEF Grows
  <1>4. x.ok = d.ok /\ y = IF ~d.ok THEN c ELSE SetEntry(c, t, i, e)  BY DEF MapSingle
  <1>5. c \in MemType /\ i \in 0 .. Fan - 1 /\ 0 \in 0 .. Top
    <2>1. 0 \in 0 .. Top /\ p \in Pages  BY Indices, MmuAssumption
    <2> QED BY <1>3, <2>1, WfFacts, Indices
  <1>6. e \in EntryType /\ Present(e)  BY DEF EntryType, TableFlagsOf, Present
  <1>7. CASE d.ok
    <2>1. y = [free |-> c.free, tab |-> Written(c.tab, t, i, e)]
      <3>1. SetEntry(c, t, i, e) = [free |-> c.free, tab |-> Written(c.tab, t, i, e)]
        <4> HIDE DEF c, t, i, e
        <4> QED BY <1>5, SetEntryIs
      <3> QED BY <1>4, <1>7, <3>1
    <2>2. x.ok  BY <1>4, <1>7
    <2>3. t = Walk(c, r, p)[0] /\ t \in Under(c, r)[0]  BY <1>2, <1>7
    <2>4. i = LevelIdx(p, 0)  OBVIOUS
    <2> HIDE DEF c, t, i, e, y
    <2>5. IsSet(c, R, r, t, i, e, y)  BY <1>3, <1>5, <1>6, <2>1, <2>3 DEF IsSet
    <2>6. Wf(y, R) /\ y.free = c.free /\ \A s \in R : Under(y, s) = Under(c, s)
      BY <2>5, SetWf, SetTab
    <2>7. /\ Map(y, r, p) = IF Present(e) THEN e ELSE Nothing
          /\ \A s \in R, q \in UserPages : s # r \/ q # p => Map(y, s, q) = Map(c, s, q)
      BY <2>3, <2>4, <2>5, SetMaps
    <2>8. \A s \in R : TablesOf(y, s) = TablesOf(c, s)  BY <2>6 DEF TablesOf
    <2>9. \A s \in R, q \in UserPages : s # r \/ q # p => Map(y, s, q) = Map(m, s, q)
      BY <1>3, <2>7
    <2>10. Map(y, r, p) = e  BY <1>6, <2>7
    <2>11. \A s \in R, f \in Frames :
              f \in TablesOf(y, s) <=> f \in TablesOf(m, s) \/ (s = r /\ f \in m.free \ y.free)
      BY <1>3, <2>6, <2>8
    <2>12. x.ok \in BOOLEAN  BY <1>2, <1>4
    <2>13. y.free \subseteq m.free  BY <1>3, <2>6
    <2> QED BY <2>2, <2>6, <2>9, <2>10, <2>11, <2>12, <2>13 DEF y, e
  <1>8. CASE ~d.ok
    <2>1. y = c /\ ~x.ok /\ x.ok \in BOOLEAN  BY <1>2, <1>4, <1>8
    <2> HIDE DEF c, y, x
    <2> QED BY <1>3, <2>1 DEF y, x
  <1> QED BY <1>2, <1>7, <1>8

LEMMA CreateVasIs ==
    ASSUME NEW m, NEW R, Wf(m, R), NEW cur, cur \in {KernelRoot} \union R
    PROVE  LET c == CreateVas(m, cur)
           IN  /\ c.root = AllocFrame(m, 1).base
               /\ c.root = 0 => c.mem = m
               /\ c.root # 0 => IsRoot(m, R, cur, c.root, c.mem)
  <1> DEFINE a == AllocFrame(m, 1)
             am == a.mem
             n == a.base
             c == CreateVas(m, cur)
             row == NewRow(m, cur)
  <1>1. m \in MemType /\ KernelRoot \notin m.free  BY WfFacts DEF Wf, KernelFrames
  <1>2. /\ n \in Frames
        /\ n # 0 => n \in m.free /\ am = [free |-> m.free \ {n}, tab |-> Wiped(m.tab, {n})]
    BY <1>1, AllocOne
  <1>3. c.root = n /\ c.mem = IF n = 0 THEN m ELSE [am EXCEPT !.tab[n] = row]
    BY DEF CreateVas, NewRow
  <1>4. ASSUME n # 0 PROVE IsRoot(m, R, cur, n, c.mem)
    <2>1. c.mem = [am EXCEPT !.tab[n] = row]  BY <1>3, <1>4
    <2>2. n \in m.free /\ am = [free |-> m.free \ {n}, tab |-> Wiped(m.tab, {n})]  BY <1>2, <1>4
    <2>3. m.tab \in [Frames -> TableType]  BY <1>1 DEF MemType
    <2> HIDE DEF am, n, c, row
    <2>4. c.mem = [free |-> m.free \ {n}, tab |-> [Wiped(m.tab, {n}) EXCEPT ![n] = row]]
      BY <2>1, <2>2
    <2>5. [Wiped(m.tab, {n}) EXCEPT ![n] = row] = [m.tab EXCEPT ![n] = row]  BY <2>3 DEF Wiped
    <2> QED BY <2>2, <2>4, <2>5 DEF IsRoot, row
  <1> QED BY <1>3, <1>4

\* What making an address space does to the others, and what is in it.
RootMade(m, R, n, m2) ==
    /\ Wf(m2, R \union {n})
    /\ n \in m.free /\ n \notin R /\ m2.free = m.free \ {n}
    /\ \A s \in R : TablesOf(m2, s) = TablesOf(m, s)
    /\ TablesOf(m2, n) = {n}
    /\ \A q \in UserPages : Map(m2, n, q) = Nothing
    /\ \A s \in R, q \in UserPages : Map(m2, s, q) = Map(m, s, q)

LEMMA RootFacts ==
    ASSUME NEW m, NEW R, NEW cur, NEW n, NEW m2, IsRoot(m, R, cur, n, m2)
    PROVE  RootMade(m, R, n, m2)
  <1>1. IsRoot(m, R, cur, n, m2)  OBVIOUS
  <1>2. Wf(m2, R \union {n}) /\ n \in m.free /\ n \notin R /\ m2.free = m.free \ {n}
    BY <1>1, RootWf, RootTab
  <1>3. /\ \A s \in R : Under(m2, s) = Under(m, s)
        /\ \A l \in 0 .. Top : Under(m2, n)[l] = IF l = Top THEN {n} ELSE {}
    BY <1>1, RootUnder
  <1>4. \A s \in R : TablesOf(m2, s) = TablesOf(m, s)  BY <1>3 DEF TablesOf
  <1>5. TablesOf(m2, n) = {n}
    <2>1. Top \in 0 .. Top  BY MmuAssumption
    <2> QED BY <1>3, <2>1 DEF TablesOf
  <1>6. /\ \A q \in UserPages : Map(m2, n, q) = Nothing
        /\ \A s \in R, q \in UserPages : Map(m2, s, q) = Map(m, s, q)
    BY <1>1, RootMaps
  <1> QED BY <1>2, <1>4, <1>5, <1>6 DEF RootMade

LEMMA CreateVasFacts ==
    ASSUME NEW m, NEW R, Wf(m, R), NEW cur, cur \in {KernelRoot} \union R,
           NEW n, n = CreateVas(m, cur).root, NEW m2, m2 = CreateVas(m, cur).mem, n # 0
    PROVE  RootMade(m, R, n, m2)
  <1>1. IsRoot(m, R, cur, n, m2)  BY CreateVasIs
  <1> QED BY <1>1, RootFacts

\* The tables the processor reaches.
LEMMA TablesIs ==
    ASSUME NEW m, NEW r, r \in Frames
    PROVE  Tables(m, r) = TablesOf(m, r)
  <1> DEFINE Is(u) == u = [level \in 0 .. Top |->
                 IF level = Top THEN {r}
                 ELSE {f \in Frames : \E t \in u[level + 1], i \in 0 .. Fan - 1 :
                         /\ Present(m.tab[t][i]) /\ m.tab[t][i].frame = f
                         /\ t = r => i < Fan \div 2}]
             v == CHOOSE u : Is(u)
             w == Under(m, r)
  <1>1. IsUnder(m, r, w)  BY UnderIs
  <1>2. Top \in 0 .. Top /\ \A l \in 0 .. Top - 1 : l \in 0 .. Top /\ l + 1 \in 0 .. Top /\ l # Top
    BY MmuAssumption
  <1>3. Is(w)
    <2> HIDE DEF w
    <2>1. w \in [0 .. Top -> SUBSET Frames] /\ w[Top] = {r}
          /\ \A l \in 0 .. Top - 1 : w[l] = Below(m, r, w[l + 1])
      BY <1>1 DEF IsUnder
    <2>2. \A l \in 0 .. Top : w[l] = IF l = Top THEN {r} ELSE Below(m, r, w[l + 1])
      BY <2>1, MmuAssumption
    <2>3. w = [l \in 0 .. Top |-> w[l]]  BY <2>1
    <2>4. w = [l \in 0 .. Top |-> IF l = Top THEN {r} ELSE Below(m, r, w[l + 1])]  BY <2>2, <2>3
    <2> QED BY <2>4 DEF Below
  <1>4. Is(v)
    <2> HIDE DEF Is, w
    <2> QED BY <1>3
  <1>5. IsUnder(m, r, v)
    <2> HIDE DEF v
    <2>1. v = [l \in 0 .. Top |-> IF l = Top THEN {r} ELSE Below(m, r, v[l + 1])]  BY <1>4 DEF Below
    <2>2. v[Top] = {r}  BY <1>2, <2>1
    <2>3. \A l \in 0 .. Top - 1 : v[l] = Below(m, r, v[l + 1])  BY <1>2, <2>1
    <2>4. \A l \in 0 .. Top : v[l] \in SUBSET Frames
      <3>1. \A S : Below(m, r, S) \in SUBSET Frames  BY DEF Below
      <3>2. {r} \in SUBSET Frames  OBVIOUS
      <3> QED BY <2>1, <3>1, <3>2
    <2>5. v \in [0 .. Top -> SUBSET Frames]  BY <2>1, <2>4
    <2> QED BY <2>2, <2>3, <2>5 DEF IsUnder
  <1>6. v = w
    <2> HIDE DEF v, w
    <2> QED BY <1>5, UnderOnce DEF w
  <1>7. Tables(m, r) = UNION {v[level] : level \in 0 .. Top}  BY DEF Tables
  <1> HIDE DEF v
  <1> QED BY <1>6, <1>7 DEF TablesOf

--------------------------------------------------------------------------------
(***************************************************************************)
(* Counting uses: every frame that is not in the set F of free frames has  *)
(* exactly one use in U.                                                   *)
(***************************************************************************)
Exact(U, F) ==
    /\ F \subseteq Frames
    /\ \A u \in U : u[3] \in Frames \ F
    /\ \A f \in Frames \ F : \E u \in U : u[3] = f
    /\ \A u, v \in U : u[3] = v[3] => u = v

LEMMA ExactAdd ==
    ASSUME NEW U, NEW F, NEW A, NEW G, Exact(U, F), G \subseteq F,
           \A u \in A : u[3] \in G, \A f \in G : \E u \in A : u[3] = f,
           \A u, v \in A : u[3] = v[3] => u = v
    PROVE  Exact(U \union A, F \ G)
  <1>1. /\ F \subseteq Frames
        /\ \A u \in U : u[3] \in Frames \ F
        /\ \A f \in Frames \ F : \E u \in U : u[3] = f
        /\ \A u, v \in U : u[3] = v[3] => u = v
    BY DEF Exact
  <1>2. \A u \in U \union A : u[3] \in Frames \ (F \ G)  BY <1>1
  <1>3. \A f \in Frames \ (F \ G) : \E u \in U \union A : u[3] = f  BY <1>1
  <1>4. \A u, v \in U \union A : u[3] = v[3] => u = v  BY <1>1
  <1> QED BY <1>1, <1>2, <1>3, <1>4 DEF Exact

LEMMA ExactDrop ==
    ASSUME NEW U, NEW F, NEW x, Exact(U \union {x}, F), x \notin U
    PROVE  Exact(U, F \union {x[3]})
  <1>1. /\ F \subseteq Frames
        /\ \A u \in U \union {x} : u[3] \in Frames \ F
        /\ \A f \in Frames \ F : \E u \in U \union {x} : u[3] = f
        /\ \A u, v \in U \union {x} : u[3] = v[3] => u = v
    BY DEF Exact
  <1>2. \A u \in U : u[3] \in Frames \ (F \union {x[3]})  BY <1>1
  <1>3. \A f \in Frames \ (F \union {x[3]}) : \E u \in U : u[3] = f  BY <1>1
  <1> QED BY <1>1, <1>2, <1>3 DEF Exact

LEMMA ExactMove ==
    ASSUME NEW U, NEW F, NEW x, NEW y, Exact(U \union {x}, F), x \notin U, x[3] = y[3]
    PROVE  Exact(U \union {y}, F)
  <1>1. /\ F \subseteq Frames
        /\ \A u \in U \union {x} : u[3] \in Frames \ F
        /\ \A f \in Frames \ F : \E u \in U \union {x} : u[3] = f
        /\ \A u, v \in U \union {x} : u[3] = v[3] => u = v
    BY DEF Exact
  <1>2. \A u \in U \union {y} : u[3] \in Frames \ F  BY <1>1
  <1>3. \A f \in Frames \ F : \E u \in U \union {y} : u[3] = f
    <2> TAKE f \in Frames \ F
    <2>1. PICK u \in U \union {x} : u[3] = f  BY <1>1
    <2>2. CASE u = x  BY <2>1, <2>2
    <2>3. CASE u \in U  BY <2>1, <2>3
    <2> QED BY <2>1, <2>2, <2>3
  <1>4. \A u, v \in U \union {y} : u[3] = v[3] => u = v  BY <1>1
  <1> QED BY <1>1, <1>2, <1>3, <1>4 DEF Exact

LEMMA ExactCounts ==
    ASSUME NEW U, NEW F, Exact(U, F)
    PROVE  {u[3] : u \in U} = Frames \ F /\ Cardinality(U) = Cardinality(Frames \ F)
  <1>1. /\ \A u \in U : u[3] \in Frames \ F
        /\ \A f \in Frames \ F : \E u \in U : u[3] = f
        /\ \A u, v \in U : u[3] = v[3] => u = v
    BY DEF Exact
  <1>2. {u[3] : u \in U} = Frames \ F  BY <1>1
  <1> DEFINE T == Frames \ F
             third == [u \in U |-> u[3]]
  <1>3. IsFiniteSet(Frames)
    <2> DEFINE a == 0
               b == NFrames - 1
    <2>1. a \in Int /\ b \in Int  BY MmuAssumption
    <2> HIDE DEF a, b
    <2>2. IsFiniteSet(a .. b)  BY <2>1, FS_Interval
    <2> QED BY <2>2 DEF a, b, Frames
  <1>4. IsFiniteSet(T)  BY <1>3, FS_Subset
  <1>5. third \in Injection(U, T) /\ third \in Surjection(U, T)
    <2>1. third \in [U -> T]  BY <1>1
    <2>2. third \in Injection(U, T)  BY <1>1, <2>1 DEF Injection, IsInjective
    <2>3. third \in Surjection(U, T)  BY <1>1, <2>1 DEF Surjection
    <2> QED BY <2>2, <2>3
  <1>6. Cardinality(U) = Cardinality(T)
    <2> HIDE DEF T, third
    <2> QED BY <1>4, <1>5, FS_Injection
  <1> QED BY <1>2, <1>6

\* The uses, part by part.
KernelUses == {<<"kernel", 0, f>> : f \in KernelFrames}
TakenUses(tk) == {<<"taken", 0, f>> : f \in tk}
StackUses(ps) == {<<"stack", i, ps[i].stack>> : i \in DOMAIN ps}
NewUses(ns) == {<<"new", 0, f>> : f \in ns}
BoxUses(bs) ==
    UNION {{<<"box", i, f>> : f \in Run(bs[i].base, bs[i].pages)} : i \in DOMAIN bs}
TableUses(T) == UNION {{<<"table", r, f>> : f \in T[r]} : r \in DOMAIN T}

UsesOf(tk, ps, ns, bs, T) ==
    KernelUses \union TakenUses(tk) \union StackUses(ps) \union NewUses(ns)
    \union BoxUses(bs) \union TableUses(T)

Tagged(tag, k, G) == {<<tag, k, f>> : f \in G}
Adds(V, U, A) == V = U \union A
TableGrown(T, T2, r, G) ==
    /\ DOMAIN T2 = DOMAIN T \union {r}
    /\ \A s \in DOMAIN T : s # r => T2[s] = T[s]
    /\ T2[r] = (IF r \in DOMAIN T THEN T[r] ELSE {}) \union G

LEMMA TaggedFacts ==
    ASSUME NEW tag, NEW k, NEW G
    PROVE  /\ \A u \in Tagged(tag, k, G) : u[3] \in G
           /\ \A f \in G : \E u \in Tagged(tag, k, G) : u[3] = f
           /\ \A u, v \in Tagged(tag, k, G) : u[3] = v[3] => u = v
  <1>1. \A u \in Tagged(tag, k, G) : u[3] \in G /\ u = <<tag, k, u[3]>>
    <2> TAKE u \in Tagged(tag, k, G)
    <2>1. PICK f \in G : u = <<tag, k, f>>  BY DEF Tagged
    <2> QED BY <2>1
  <1>2. ASSUME NEW f, f \in G PROVE \E u \in Tagged(tag, k, G) : u[3] = f
    <2>1. <<tag, k, f>> \in Tagged(tag, k, G)  BY <1>2 DEF Tagged
    <2>2. <<tag, k, f>>[3] = f  OBVIOUS
    <2> QED BY <2>1, <2>2
  <1>3. ASSUME NEW u, u \in Tagged(tag, k, G), NEW v, v \in Tagged(tag, k, G), u[3] = v[3]
        PROVE u = v
    <2>1. u = <<tag, k, u[3]>> /\ v = <<tag, k, v[3]>>  BY <1>1, <1>3
    <2> QED BY <1>3, <2>1
  <1> QED BY <1>1, <1>2, <1>3

\* A use more for each frame of G; a use less; another use of the same frame.
LEMMA ExactGrow ==
    ASSUME NEW U, NEW V, NEW F, NEW tag, NEW k, NEW G, NEW H,
           Exact(U, F), G \subseteq F, H = F \ G, Adds(V, U, Tagged(tag, k, G))
    PROVE  Exact(V, H)
  <1> DEFINE A == Tagged(tag, k, G)
  <1>1. /\ \A u \in A : u[3] \in G
        /\ \A f \in G : \E u \in A : u[3] = f
        /\ \A u, v \in A : u[3] = v[3] => u = v
    BY TaggedFacts
  <1>2. V = U \union A  BY DEF Adds
  <1> HIDE DEF A
  <1>3. Exact(U \union A, F \ G)  BY <1>1, ExactAdd
  <1> QED BY <1>2, <1>3

LEMMA ExactBack ==
    ASSUME NEW U, NEW V, NEW F, NEW tag, NEW k, NEW f, NEW H,
           Exact(V, F), Adds(V, U, Tagged(tag, k, {f})), <<tag, k, f>> \notin U, H = F \union {f}
    PROVE  Exact(U, H) /\ f \in Frames \ F /\ \A u \in U : u[3] # f
  <1> DEFINE x == <<tag, k, f>>
  <1>1. V = U \union {x} /\ x[3] = f  BY DEF Adds, Tagged
  <1> HIDE DEF x
  <1>2. Exact(U \union {x}, F) /\ x \notin U  BY <1>1 DEF x
  <1>3. Exact(U, F \union {x[3]})  BY <1>2, ExactDrop
  <1>4. f \in Frames \ F /\ \A u \in U : u[3] = x[3] => u = x  BY <1>1, <1>2 DEF Exact
  <1> QED BY <1>1, <1>2, <1>3, <1>4

LEMMA ExactOther ==
    ASSUME NEW U, NEW V, NEW W, NEW F, NEW tag, NEW k, NEW tag2, NEW k2, NEW f,
           Exact(V, F), Adds(V, U, Tagged(tag, k, {f})), <<tag, k, f>> \notin U,
           Adds(W, U, Tagged(tag2, k2, {f}))
    PROVE  Exact(W, F)
  <1> DEFINE x == <<tag, k, f>>
             y == <<tag2, k2, f>>
  <1>1. V = U \union {x} /\ W = U \union {y} /\ x[3] = f /\ y[3] = f  BY DEF Adds, Tagged
  <1>2. x \notin U  OBVIOUS
  <1> HIDE DEF x, y
  <1>3. Exact(U \union {y}, F)  BY <1>1, <1>2, ExactMove
  <1> QED BY <1>1, <1>3

LEMMA UsesTags ==
    ASSUME NEW tk, NEW ps, NEW bs, NEW T, NEW f
    PROVE  /\ <<"new", 0, f>> \notin UsesOf(tk, ps, {}, bs, T)
           /\ \A g \in KernelFrames : <<"kernel", 0, g>> \in UsesOf(tk, ps, {}, bs, T)
           /\ \A r \in DOMAIN T : \A g \in T[r] : <<"table", r, g>> \in UsesOf(tk, ps, {}, bs, T)
           /\ \A i \in DOMAIN bs : \A g \in Run(bs[i].base, bs[i].pages) :
                 <<"box", i, g>> \in UsesOf(tk, ps, {}, bs, T)
  <1>1. /\ <<"new", 0, f>> \notin KernelUses /\ <<"new", 0, f>> \notin TakenUses(tk)
        /\ <<"new", 0, f>> \notin StackUses(ps) /\ <<"new", 0, f>> \notin NewUses({})
    BY DEF KernelUses, TakenUses, StackUses, NewUses
  <1>2. <<"new", 0, f>> \notin BoxUses(bs)  BY DEF BoxUses
  <1>3. <<"new", 0, f>> \notin TableUses(T)  BY DEF TableUses
  <1>4. \A g \in KernelFrames : <<"kernel", 0, g>> \in KernelUses  BY DEF KernelUses
  <1>5. \A r \in DOMAIN T : \A g \in T[r] : <<"table", r, g>> \in TableUses(T)  BY DEF TableUses
  <1>6. \A i \in DOMAIN bs : \A g \in Run(bs[i].base, bs[i].pages) : <<"box", i, g>> \in BoxUses(bs)
    BY DEF BoxUses
  <1> QED BY <1>1, <1>2, <1>3, <1>4, <1>5, <1>6 DEF UsesOf

LEMMA UsesTaken ==
    ASSUME NEW tk, NEW ps, NEW ns, NEW bs, NEW T, NEW B, NEW tk2, tk2 = tk \union B
    PROVE  Adds(UsesOf(tk2, ps, ns, bs, T), UsesOf(tk, ps, ns, bs, T), Tagged("taken", 0, B))
  <1>1. TakenUses(tk2) = TakenUses(tk) \union Tagged("taken", 0, B)  BY DEF TakenUses, Tagged
  <1> QED BY <1>1 DEF UsesOf, Adds

LEMMA UsesNew ==
    ASSUME NEW tk, NEW ps, NEW bs, NEW T, NEW B
    PROVE  Adds(UsesOf(tk, ps, B, bs, T), UsesOf(tk, ps, {}, bs, T), Tagged("new", 0, B))
  <1>1. NewUses(B) = Tagged("new", 0, B) /\ NewUses({}) = {}  BY DEF NewUses, Tagged
  <1> QED BY <1>1 DEF UsesOf, Adds

LEMMA UsesStack ==
    ASSUME NEW tk, NEW X, NEW ps, ps \in Seq(X), NEW p, NEW bs, NEW T,
           NEW ps2, ps2 = Append(ps, p), NEW k, k = Len(ps) + 1, NEW f, f = p.stack
    PROVE  Adds(UsesOf(tk, ps2, {}, bs, T), UsesOf(tk, ps, {}, bs, T), Tagged("stack", k, {f}))
  <1> DEFINE qs == Append(ps, p)
             n == Len(ps)
  <1>1. /\ DOMAIN ps = 1 .. n /\ DOMAIN qs = 1 .. n + 1 /\ n \in Nat
        /\ qs[n + 1] = p /\ \A i \in 1 .. n : qs[i] = ps[i]
    OBVIOUS
  <1> HIDE DEF qs, n
  <1>2. 1 .. n + 1 = (1 .. n) \union {n + 1}  BY <1>1
  <1>3. StackUses(qs) = {<<"stack", i, qs[i].stack>> : i \in (1 .. n) \union {n + 1}}
    BY <1>1, <1>2 DEF StackUses
  <1>4. StackUses(qs) = {<<"stack", i, qs[i].stack>> : i \in 1 .. n} \union {<<"stack", n + 1, qs[n + 1].stack>>}
    BY <1>3
  <1>5. StackUses(ps) = {<<"stack", i, qs[i].stack>> : i \in 1 .. n}  BY <1>1 DEF StackUses
  <1>6. StackUses(qs) = StackUses(ps) \union {<<"stack", n + 1, p.stack>>}  BY <1>1, <1>4, <1>5
  <1>7. StackUses(ps2) = StackUses(ps) \union Tagged("stack", k, {f})  BY <1>6 DEF Tagged, qs, n
  <1> QED BY <1>7 DEF UsesOf, Adds

LEMMA UsesSameStacks ==
    ASSUME NEW tk, NEW ps, NEW qs, NEW ns, NEW bs, NEW T,
           DOMAIN qs = DOMAIN ps, \A i \in DOMAIN ps : qs[i].stack = ps[i].stack
    PROVE  UsesOf(tk, qs, ns, bs, T) = UsesOf(tk, ps, ns, bs, T)
  <1>1. StackUses(qs) = StackUses(ps)  BY DEF StackUses
  <1> QED BY <1>1 DEF UsesOf

LEMMA UsesBox ==
    ASSUME NEW tk, NEW ps, NEW ns, NEW X, NEW bs, bs \in Seq(X), NEW b, NEW T,
           NEW bs2, bs2 = Append(bs, b), NEW k, k = Len(bs) + 1, NEW G, G = Run(b.base, b.pages)
    PROVE  Adds(UsesOf(tk, ps, ns, bs2, T), UsesOf(tk, ps, ns, bs, T), Tagged("box", k, G))
  <1> DEFINE cs == Append(bs, b)
             n == Len(bs)
             Of(i) == {<<"box", i, f>> : f \in Run(cs[i].base, cs[i].pages)}
  <1>1. /\ DOMAIN bs = 1 .. n /\ DOMAIN cs = 1 .. n + 1 /\ n \in Nat
        /\ cs[n + 1] = b /\ \A i \in 1 .. n : cs[i] = bs[i]
    OBVIOUS
  <1> HIDE DEF cs, n
  <1>2. 1 .. n + 1 = (1 .. n) \union {n + 1}  BY <1>1
  <1>3. BoxUses(cs) = UNION {Of(i) : i \in (1 .. n) \union {n + 1}}  BY <1>1, <1>2 DEF BoxUses
  <1>4. BoxUses(bs) = UNION {Of(i) : i \in 1 .. n}
    <2>1. BoxUses(bs) = UNION {{<<"box", i, f>> : f \in Run(bs[i].base, bs[i].pages)} : i \in 1 .. n}
      BY <1>1 DEF BoxUses
    <2>2. \A i \in 1 .. n : Of(i) = {<<"box", i, f>> : f \in Run(bs[i].base, bs[i].pages)}
      BY <1>1
    <2> HIDE DEF Of
    <2> QED BY <2>1, <2>2
  <1>5. Of(n + 1) = {<<"box", n + 1, f>> : f \in Run(b.base, b.pages)}  BY <1>1
  <1>6. BoxUses(cs) = BoxUses(bs) \union {<<"box", n + 1, f>> : f \in Run(b.base, b.pages)}
    <2> HIDE DEF Of
    <2>1. UNION {Of(i) : i \in (1 .. n) \union {n + 1}}
          = (UNION {Of(i) : i \in 1 .. n}) \union Of(n + 1)
      OBVIOUS
    <2> QED BY <1>3, <1>4, <1>5, <2>1
  <1>7. BoxUses(bs2) = BoxUses(bs) \union Tagged("box", k, G)  BY <1>6 DEF Tagged, cs, n
  <1> QED BY <1>7 DEF UsesOf, Adds

LEMMA UsesTables ==
    ASSUME NEW tk, NEW ps, NEW ns, NEW bs, NEW T, NEW T2, NEW r, NEW G,
           TableGrown(T, T2, r, G)
    PROVE  Adds(UsesOf(tk, ps, ns, bs, T2), UsesOf(tk, ps, ns, bs, T), Tagged("table", r, G))
  <1>0. /\ DOMAIN T2 = DOMAIN T \union {r}
        /\ \A s \in DOMAIN T : s # r => T2[s] = T[s]
        /\ T2[r] = (IF r \in DOMAIN T THEN T[r] ELSE {}) \union G
    BY DEF TableGrown
  <1>1. ASSUME NEW u, u \in TableUses(T2)
        PROVE  u \in TableUses(T) \union {<<"table", r, f>> : f \in G}
    <2>1. PICK s \in DOMAIN T2 : \E f \in T2[s] : u = <<"table", s, f>>  BY <1>1 DEF TableUses
    <2>2. PICK f \in T2[s] : u = <<"table", s, f>>  BY <2>1
    <2>3. CASE s = r /\ f \in G  BY <2>2, <2>3
    <2>4. CASE ~(s = r /\ f \in G)
      <3>1. s \in DOMAIN T /\ f \in T[s]  BY <1>0, <2>4
      <3> QED BY <2>2, <3>1 DEF TableUses
    <2> QED BY <2>3, <2>4
  <1>2. ASSUME NEW u, u \in TableUses(T) PROVE u \in TableUses(T2)
    <2>1. PICK s \in DOMAIN T : \E f \in T[s] : u = <<"table", s, f>>  BY <1>2 DEF TableUses
    <2>2. PICK f \in T[s] : u = <<"table", s, f>>  BY <2>1
    <2>3. s \in DOMAIN T2 /\ f \in T2[s]  BY <1>0
    <2> QED BY <2>2, <2>3 DEF TableUses
  <1>3. {<<"table", r, f>> : f \in G} \subseteq TableUses(T2)
    <2>1. r \in DOMAIN T2 /\ G \subseteq T2[r]  BY <1>0
    <2> QED BY <2>1 DEF TableUses
  <1>4. TableUses(T2) = TableUses(T) \union Tagged("table", r, G)  BY <1>1, <1>2, <1>3 DEF Tagged
  <1> QED BY <1>4 DEF UsesOf, Adds

--------------------------------------------------------------------------------
(***************************************************************************)
(* The invariant.                                                          *)
(***************************************************************************)
ProcType == [stack : Frames, root : Frames, ip : {-1} \union {Image(p).entry : p \in Paths}]
BoxType == [base : Frames, pages : Nat]

StackFlags == TableFlagsOf("PAGE_USER_READWRITE")
ExecFlags == TableFlagsOf("PAGE_USER_EXEC_READ")

\* The space of a process is made; it is loaded or run.
Runs == {"switch", "lookup", "verify", "section", "map", "kick", "user"}
Loads == {"section", "map", "kick", "user"}
LastProc == procs[Len(procs)]

InHand == IF pc \in {"vas", "mapstack"} THEN {new.stack} ELSE {}
TablesNow == [r \in roots |-> TablesOf(mem, r)]
Accounted == Exact(UsesOf(taken, procs, InHand, boxes, TablesNow), mem.free)

Types ==
    /\ cr3 \in {KernelRoot} \union roots /\ leftover \in roots \union {0}
    /\ new \in [stack : Frames, root : Frames]
    /\ procs \in Seq(ProcType) /\ box \in Seq(BoxType) /\ boxes \in Seq(BoxType)
    /\ page \in 0 .. Cardinality(UserPages)

Blank(m, r) == \A q \in UserPages : Map(m, r, q) = Nothing

\* A root left behind by a process that could not be made maps nothing; a
\* process without a root finds no frame either.
Starting ==
    /\ leftover # 0 => Blank(mem, leftover)
    /\ pc \in Runs => leftover = 0
    /\ pc = "mapstack" => /\ new.root \in roots \union {0}
                          /\ new.root # 0 => Blank(mem, new.root)
                          /\ new.root = 0 => AllocFrame(mem, 1).base = 0

Running ==
    pc \in Runs =>
        /\ Len(procs) > 0 /\ LastProc.root = new.root /\ new.root \in roots
        /\ pc # "switch" => cr3 = new.root
        /\ Map(mem, new.root, StackPage) = [frame |-> LastProc.stack, flags |-> StackFlags]
        /\ pc \notin Loads => \A q \in UserPages \ {StackPage} : Map(mem, new.root, q) = Nothing

\* What page j of section i holds.
Content(i, j) == IF j < Sections[i].raw THEN <<path, i, j>> ELSE Zeroed

\* Section i is in frames of its own; those of its pages that are to be
\* mapped by now are.
InBox(i) ==
    /\ \E k \in DOMAIN boxes : boxes[k] = box[i]
    /\ box[i].pages = Sections[i].pages
    /\ \A j \in 0 .. Sections[i].pages - 1 : data[box[i].base + j] = Content(i, j)

Mapped(i) ==
    \A j \in 0 .. Sections[i].pages - 1 :
        (pc = "map" /\ i = Len(box) => j < page) =>
            Map(mem, new.root, Sections[i].page + j) = [frame |-> box[i].base + j, flags |-> ExecFlags]

Loading ==
    /\ pc = "verify" => path \in Paths /\ box = <<>> /\ missed = {}
    /\ pc \in Loads =>
        /\ path \in Paths /\ Len(box) <= Len(Sections)
        /\ \A q \in UserPages \ (SectionPages \union {StackPage}) : Map(mem, new.root, q) = Nothing
        /\ \A i \in DOMAIN box : InBox(i) /\ (i \notin missed => Mapped(i))
        /\ pc = "map" => Len(box) > 0 /\ page < box[Len(box)].pages /\ Len(box) \notin missed
        /\ pc \in {"section", "map"} => missed \subseteq DOMAIN box
        /\ pc \in {"kick", "user"} => DOMAIN Sections \ missed \subseteq DOMAIN box
        /\ pc = "user" => LastProc.ip = Image(path).entry

IInv == Wf(mem, roots) /\ Accounted /\ Types /\ Starting /\ Running /\ Loading

\* What a step does to the spaces.
SameSpaces ==
    roots' = roots /\ \A r \in roots, p \in UserPages : Map(mem', r, p) = Map(mem, r, p)

ChangedOne ==
    /\ roots' = roots
    /\ \E r \in roots, p \in UserPages : \A s \in roots, q \in UserPages :
          s # r \/ q # p => Map(mem', s, q) = Map(mem, s, q)

MadeOne ==
    \E n \in Frames \ roots :
        /\ roots' = roots \union {n}
        /\ Blank(mem', n)
        /\ \A r \in roots, p \in UserPages : Map(mem', r, p) = Map(mem, r, p)

SpaceStep == SameSpaces \/ ChangedOne \/ MadeOne

--------------------------------------------------------------------------------
\* A step that leaves the memory and its uses alone.
LEMMA QuietStep ==
    ASSUME Wf(mem, roots), Accounted,
           mem' = mem, roots' = roots, taken' = taken, boxes' = boxes, InHand' = InHand,
           DOMAIN procs' = DOMAIN procs, \A i \in DOMAIN procs : procs'[i].stack = procs[i].stack
    PROVE  Wf(mem, roots)' /\ Accounted' /\ SpaceStep
  <1>1. Wf(mem, roots)'  OBVIOUS
  <1>2. TablesNow' = TablesNow  BY DEF TablesNow
  <1>3. Accounted'
    <2>1. UsesOf(taken, procs', InHand, boxes, TablesNow) = UsesOf(taken, procs, InHand, boxes, TablesNow)
      BY UsesSameStacks
    <2> QED BY <1>2, <2>1 DEF Accounted
  <1>4. SameSpaces  BY DEF SameSpaces
  <1> QED BY <1>1, <1>3, <1>4 DEF SpaceStep

LEMMA CreateProcessStep ==
    ASSUME IInv, CreateProcess
    PROVE  IInv' /\ SpaceStep
  <1>1. /\ pc = "main" /\ pc' = "stack" /\ new' = NoProc
        /\ UNCHANGED <<mem, data, tree, cr3, leftover, procs, taken, roots, boxes>>
        /\ UNCHANGED <<path, found, box, page, missed>>
    BY DEF CreateProcess, Goto, loading, history
  <1>2. Wf(mem, roots) /\ Accounted /\ Types /\ Starting  BY DEF IInv
  <1>3. Wf(mem, roots)' /\ Accounted' /\ SpaceStep
    <2>1. InHand' = InHand  BY <1>1 DEF InHand
    <2> QED BY <1>1, <1>2, <2>1, QuietStep
  <1>4. Types'
    <2>1. 0 \in Frames  BY FrameAssumption, MmuAssumption DEF Frames
    <2> QED BY <1>1, <1>2, <2>1 DEF Types, NoProc
  <1>5. Starting'  BY <1>1, <1>2 DEF Starting, Blank, Runs
  <1>6. Running'  BY <1>1 DEF Running, Runs
  <1>7. Loading'  BY <1>1 DEF Loading, Loads
  <1> QED BY <1>3, <1>4, <1>5, <1>6, <1>7 DEF IInv

LEMMA SwitchVasStep ==
    ASSUME IInv, SwitchVas
    PROVE  IInv' /\ SpaceStep
  <1>1. /\ pc = "switch" /\ pc' = "lookup" /\ cr3' = new.root
        /\ UNCHANGED <<mem, data, tree, leftover, procs, new, taken, roots, boxes>>
        /\ UNCHANGED <<path, found, box, page, missed>>
    BY DEF SwitchVas, Goto, loading, history
  <1>2. Wf(mem, roots) /\ Accounted /\ Types /\ Starting /\ Running  BY DEF IInv
  <1>3. Wf(mem, roots)' /\ Accounted' /\ SpaceStep
    <2>1. InHand' = InHand  BY <1>1 DEF InHand
    <2> QED BY <1>1, <1>2, <2>1, QuietStep
  <1>4. Types'
    <2>1. new.root \in roots  BY <1>1, <1>2 DEF Running, Runs
    <2> QED BY <1>1, <1>2, <2>1 DEF Types
  <1>5. Starting'  BY <1>1, <1>2 DEF Starting, Blank, Runs
  <1>6. Running'  BY <1>1, <1>2 DEF Running, Runs, LastProc, Loads
  <1>7. Loading'  BY <1>1 DEF Loading, Loads
  <1> QED BY <1>3, <1>4, <1>5, <1>6, <1>7 DEF IInv

LEMMA ReturnStep ==
    ASSUME IInv, Return
    PROVE  IInv' /\ SpaceStep
  <1>1. /\ pc = "user" /\ pc' = "main"
        /\ UNCHANGED <<mem, data, tree, cr3, leftover, procs, new, taken, roots, boxes>>
        /\ UNCHANGED <<path, found, box, page, missed>>
    BY DEF Return, Goto, loading, history
  <1>2. Wf(mem, roots) /\ Accounted /\ Types /\ Starting  BY DEF IInv
  <1>3. Wf(mem, roots)' /\ Accounted' /\ SpaceStep
    <2>1. InHand' = InHand  BY <1>1 DEF InHand
    <2> QED BY <1>1, <1>2, <2>1, QuietStep
  <1>4. Types'  BY <1>1, <1>2 DEF Types
  <1>5. Starting'  BY <1>1, <1>2 DEF Starting, Blank, Runs
  <1>6. Running'  BY <1>1 DEF Running, Runs
  <1>7. Loading'  BY <1>1 DEF Loading, Loads
  <1> QED BY <1>3, <1>4, <1>5, <1>6, <1>7 DEF IInv

LEMMA UserPagesFinite == IsFiniteSet(UserPages) /\ Cardinality(UserPages) \in Nat
  <1> DEFINE a == 0
             b == Covers[Top + 1] - 1
  <1>1. a \in Int /\ b \in Int  BY CoversFacts, MmuAssumption
  <1>2. UserPages \subseteq a .. b  BY Indices DEF Pages
  <1> HIDE DEF a, b
  <1>3. IsFiniteSet(a .. b)  BY <1>1, FS_Interval
  <1>4. IsFiniteSet(UserPages)  BY <1>2, <1>3, FS_Subset
  <1> QED BY <1>4, FS_CardinalityType

\* The sections of a program, for any path.
LEMMA SectionsAre ==
    ASSUME NEW p, p \in Paths
    PROVE  /\ Image(p).sections \in Seq([page : Nat, pages : Nat, raw : Nat])
           /\ \A i \in DOMAIN Image(p).sections : SectionOk(Image(p).sections[i])
           /\ \A i, j \in DOMAIN Image(p).sections : i # j =>
                 Run(Image(p).sections[i].page, Image(p).sections[i].pages)
                     \intersect Run(Image(p).sections[j].page, Image(p).sections[j].pages) = {}
  BY ImageAssumption

LEMMA LookupStep ==
    ASSUME IInv, Lookup
    PROVE  IInv' /\ SpaceStep
  <1>1. /\ pc = "lookup" /\ pc' \in {"main", "verify"} /\ path' \in Paths
        /\ box' = <<>> /\ page' = 0 /\ missed' = {}
        /\ UNCHANGED <<mem, data, tree, cr3, leftover, procs, new, taken, roots, boxes>>
    BY DEF Lookup, Goto, loading, history
  <1>2. Wf(mem, roots) /\ Accounted /\ Types /\ Starting /\ Running  BY DEF IInv
  <1>3. Wf(mem, roots)' /\ Accounted' /\ SpaceStep
    <2>1. InHand' = InHand  BY <1>1 DEF InHand
    <2> QED BY <1>1, <1>2, <2>1, QuietStep
  <1>4. Types'
    <2>1. box' \in Seq(BoxType)  BY <1>1
    <2>2. page' \in 0 .. Cardinality(UserPages)  BY <1>1, UserPagesFinite
    <2> QED BY <1>1, <1>2, <2>1, <2>2 DEF Types
  <1>5. Starting'  BY <1>1, <1>2 DEF Starting, Blank, Runs
  <1>6. Running'  BY <1>1, <1>2 DEF Running, Runs, Loads, LastProc
  <1>7. Loading'  BY <1>1 DEF Loading, Loads
  <1> QED BY <1>3, <1>4, <1>5, <1>6, <1>7 DEF IInv

LEMMA VerifyStep ==
    ASSUME IInv, Verify
    PROVE  IInv' /\ SpaceStep
  <1>1. /\ pc = "verify" /\ pc' \in {"main", "section"}
        /\ UNCHANGED <<mem, data, tree, cr3, leftover, procs, new, taken, roots, boxes>>
        /\ UNCHANGED <<path, found, box, page, missed>>
    BY DEF Verify, Goto, loading, history
  <1>2. Wf(mem, roots) /\ Accounted /\ Types /\ Starting /\ Running /\ Loading  BY DEF IInv
  <1>3. Wf(mem, roots)' /\ Accounted' /\ SpaceStep
    <2>1. InHand' = InHand  BY <1>1 DEF InHand
    <2> QED BY <1>1, <1>2, <2>1, QuietStep
  <1>4. Types'  BY <1>1, <1>2 DEF Types
  <1>5. Starting'  BY <1>1, <1>2 DEF Starting, Blank, Runs
  <1>6. Running'  BY <1>1, <1>2 DEF Running, Runs, Loads, LastProc
  <1>7. Loading'
    <2>1. path \in Paths /\ box = <<>> /\ missed = {}  BY <1>1, <1>2 DEF Loading
    <2>2. \A q \in UserPages \ {StackPage} : Map(mem, new.root, q) = Nothing
      BY <1>1, <1>2 DEF Running, Runs, Loads
    <2>3. Len(box) = 0 /\ DOMAIN box = {} /\ Len(Sections) \in Nat
      BY <2>1, SectionsAre DEF Sections
    <2> QED BY <1>1, <2>1, <2>2, <2>3 DEF Loading, Loads, Sections, SectionPages
  <1> QED BY <1>3, <1>4, <1>5, <1>6, <1>7 DEF IInv

LEMMA BoxRefusedStep ==
    ASSUME IInv, BoxRefused
    PROVE  IInv' /\ SpaceStep
  <1>1. /\ pc = "section" /\ pc' = (IF box = <<>> THEN "kick" ELSE "fault")
        /\ At \in DOMAIN Sections /\ missed' = missed \union {i \in DOMAIN Sections : i >= At}
        /\ UNCHANGED <<mem, data, tree, cr3, leftover, procs, new, taken, roots, boxes>>
        /\ UNCHANGED <<path, found, box, page>>
    BY DEF BoxRefused, Goto, loading, history
  <1>2. Wf(mem, roots) /\ Accounted /\ Types /\ Starting /\ Running /\ Loading  BY DEF IInv
  <1>3. Wf(mem, roots)' /\ Accounted' /\ SpaceStep
    <2>1. InHand' = InHand  BY <1>1 DEF InHand
    <2> QED BY <1>1, <1>2, <2>1, QuietStep
  <1>4. Types'  BY <1>1, <1>2 DEF Types
  <1>5. Starting'  BY <1>1, <1>2 DEF Starting, Blank, Runs
  <1>6. Running'  BY <1>1, <1>2 DEF Running, Runs, Loads, LastProc
  <1>7. Loading'
    <2>1. CASE box # <<>>  BY <1>1, <2>1 DEF Loading, Loads
    <2>2. CASE box = <<>>
      <3>1. path \in Paths /\ Len(box) <= Len(Sections)
            /\ \A q \in UserPages \ (SectionPages \union {StackPage}) : Map(mem, new.root, q) = Nothing
        BY <1>1, <1>2 DEF Loading, Loads
      <3>2. Len(box) = 0 /\ DOMAIN box = {} /\ DOMAIN Sections \subseteq Nat \ {0}
        BY <2>2, <3>1, SectionsAre, SMTT(60) DEF Sections
      <3>3. DOMAIN Sections \ missed' = {}  BY <1>1, <3>2 DEF At
      <3> QED BY <1>1, <2>2, <3>1, <3>2, <3>3 DEF Loading, Loads, Sections, SectionPages
    <2> QED BY <2>1, <2>2
  <1> QED BY <1>3, <1>4, <1>5, <1>6, <1>7 DEF IInv

LEMMA SectionsDoneStep ==
    ASSUME IInv, SectionsDone
    PROVE  IInv' /\ SpaceStep
  <1>1. /\ pc = "section" /\ pc' = "kick" /\ At \notin DOMAIN Sections
        /\ UNCHANGED <<mem, data, tree, cr3, leftover, procs, new, taken, roots, boxes>>
        /\ UNCHANGED <<path, found, box, page, missed>>
    BY DEF SectionsDone, Goto, loading, history
  <1>2. Wf(mem, roots) /\ Accounted /\ Types /\ Starting /\ Running /\ Loading  BY DEF IInv
  <1>3. Wf(mem, roots)' /\ Accounted' /\ SpaceStep
    <2>1. InHand' = InHand  BY <1>1 DEF InHand
    <2> QED BY <1>1, <1>2, <2>1, QuietStep
  <1>4. Types'  BY <1>1, <1>2 DEF Types
  <1>5. Starting'  BY <1>1, <1>2 DEF Starting, Blank, Runs
  <1>6. Running'  BY <1>1, <1>2 DEF Running, Runs, Loads, LastProc
  <1>7. Loading'
    <2>1. /\ path \in Paths /\ Len(box) <= Len(Sections)
          /\ \A q \in UserPages \ (SectionPages \union {StackPage}) : Map(mem, new.root, q) = Nothing
          /\ \A i \in DOMAIN box : InBox(i) /\ (i \notin missed => Mapped(i))
      BY <1>1, <1>2 DEF Loading, Loads
    <2>2. DOMAIN Sections \subseteq DOMAIN box
      <3>1. /\ DOMAIN Sections = 1 .. Len(Sections) /\ Len(Sections) \in Nat
            /\ DOMAIN box = 1 .. Len(box) /\ Len(box) \in Nat
        <4>1. Sections \in Seq([page : Nat, pages : Nat, raw : Nat])  BY <2>1, SectionsAre DEF Sections
        <4>2. box \in Seq(BoxType)  BY <1>2 DEF Types
        <4> QED BY <4>1, <4>2
      <3>2. Len(box) + 1 \notin 1 .. Len(Sections)  BY <1>1, <3>1 DEF At
      <3> QED BY <2>1, <3>1, <3>2
    <2>3. \A i \in DOMAIN box : InBox(i)' /\ (i \notin missed => Mapped(i)')
      BY <1>1, <2>1 DEF InBox, Content, Mapped, Sections
    <2> QED BY <1>1, <2>1, <2>2, <2>3 DEF Loading, Loads, Sections, SectionPages
  <1> QED BY <1>3, <1>4, <1>5, <1>6, <1>7 DEF IInv

LEMMA KickStep ==
    ASSUME IInv, Kick
    PROVE  IInv' /\ SpaceStep
  <1> DEFINE n == Len(procs)
             entry == Image(path).entry
  <1>1. /\ pc = "kick" /\ pc' = "user"
        /\ procs' = [procs EXCEPT ![n].ip = entry] /\ cr3' = procs[n].root
        /\ UNCHANGED <<mem, data, tree, leftover, new, taken, roots, boxes>>
        /\ UNCHANGED <<path, found, box, page, missed>>
    BY DEF Kick, Goto, loading, history
  <1>2. Wf(mem, roots) /\ Accounted /\ Types /\ Starting /\ Running /\ Loading  BY DEF IInv
  <1>3. /\ n > 0 /\ procs[n].root = new.root /\ new.root \in roots /\ cr3 = new.root
        /\ Map(mem, new.root, StackPage) = [frame |-> procs[n].stack, flags |-> StackFlags]
    BY <1>1, <1>2 DEF Running, Runs, LastProc
  <1>4. path \in Paths  BY <1>1, <1>2 DEF Loading, Loads
  <1>5. procs \in Seq(ProcType)  BY <1>2 DEF Types
  <1>6. n \in Nat /\ DOMAIN procs = 1 .. n /\ n \in 1 .. n /\ procs[n] \in ProcType
    BY <1>3, <1>5
  <1>7. /\ procs' \in Seq(ProcType) /\ Len(procs') = n /\ DOMAIN procs' = 1 .. n
        /\ procs'[n].ip = entry /\ procs'[n].stack = procs[n].stack /\ procs'[n].root = procs[n].root
        /\ \A i \in 1 .. n : procs'[i].stack = procs[i].stack
    <2> DEFINE p == [procs[n] EXCEPT !.ip = entry]
    <2>1. p \in ProcType /\ p.ip = entry /\ p.stack = procs[n].stack /\ p.root = procs[n].root
      BY <1>4, <1>6 DEF ProcType
    <2>2. procs' = [procs EXCEPT ![n] = p]  BY <1>1
    <2> HIDE DEF p, n
    <2>3. procs' \in Seq(ProcType) /\ Len(procs') = Len(procs) /\ DOMAIN procs' = DOMAIN procs
      BY <1>5, <1>6, <2>1, <2>2
    <2>4. procs'[n] = p /\ \A i \in 1 .. n : i # n => procs'[i] = procs[i]
      BY <1>5, <1>6, <2>2
    <2>5. \A i \in 1 .. n : procs'[i].stack = procs[i].stack  BY <2>1, <2>4
    <2> QED BY <1>6, <2>1, <2>3, <2>4, <2>5, ZenonT(60) DEF n
  <1>8. Wf(mem, roots)' /\ Accounted' /\ SpaceStep
    <2>1. InHand' = InHand  BY <1>1 DEF InHand
    <2> QED BY <1>1, <1>2, <1>6, <1>7, <2>1, QuietStep
  <1> HIDE DEF n, entry
  <1>9. Types'  BY <1>1, <1>2, <1>3, <1>7 DEF Types
  <1>10. Starting'  BY <1>1, <1>2 DEF Starting, Blank, Runs
  <1>11. Running'
    <2>1. LastProc' = procs'[n]  BY <1>7 DEF LastProc
    <2> QED BY <1>1, <1>3, <1>6, <1>7, <2>1 DEF Running, Runs, Loads
  <1>12. Loading'
    <2>1. /\ path \in Paths /\ Len(box) <= Len(Sections)
          /\ \A q \in UserPages \ (SectionPages \union {StackPage}) : Map(mem, new.root, q) = Nothing
          /\ \A i \in DOMAIN box : InBox(i) /\ (i \notin missed => Mapped(i))
          /\ DOMAIN Sections \ missed \subseteq DOMAIN box
      BY <1>1, <1>2 DEF Loading, Loads
    <2>2. \A i \in DOMAIN box : InBox(i)' /\ (i \notin missed => Mapped(i)')
      BY <1>1, <2>1 DEF InBox, Content, Mapped, Sections
    <2>3. LastProc'.ip = entry  BY <1>7 DEF LastProc
    <2> QED BY <1>1, <2>1, <2>2, <2>3 DEF Loading, Loads, Sections, SectionPages, entry
  <1> QED BY <1>8, <1>9, <1>10, <1>11, <1>12 DEF IInv

\* An allocation changes no space.
LEMMA AllocWf ==
    ASSUME NEW m, NEW R, Wf(m, R), NEW count, count \in Nat \ {0}
    PROVE  LET a == AllocFrame(m, count)
           IN  /\ a.base \in Frames /\ Wf(a.mem, R)
               /\ a.base = 0 => a.mem = m
               /\ a.base # 0 => /\ a.base \in m.free /\ Run(a.base, count) \subseteq m.free
                                /\ a.mem.free = m.free \ Run(a.base, count)
               /\ \A r \in R : TablesOf(a.mem, r) = TablesOf(m, r)
               /\ \A r \in R, p \in UserPages : Map(a.mem, r, p) = Map(m, r, p)
  <1> DEFINE a == AllocFrame(m, count)
             m2 == a.mem
             n == a.base
  <1>1. m \in MemType /\ m.free \intersect KernelFrames = {}
        /\ \A r \in R : \A l \in 0 .. Top : Under(m, r)[l] \intersect (m.free \union KernelFrames) = {}
    BY WfFacts DEF Wf
  <1>2. /\ n \in Frames /\ m2 \in MemType
        /\ n = 0 => m2 = m
        /\ n # 0 => /\ n \in m.free /\ Run(n, count) \subseteq m.free
                    /\ m2 = [free |-> m.free \ Run(n, count), tab |-> Wiped(m.tab, Run(n, count))]
    BY <1>1, AllocFacts
  <1> HIDE DEF a, m2, n
  <1>3. m2.free \subseteq m.free /\ \A f \in Frames \ m.free : m2.tab[f] = m.tab[f]
    <2>1. m.tab \in [Frames -> TableType]  BY <1>1 DEF MemType
    <2>2. CASE n = 0  BY <1>2, <2>2
    <2>3. CASE n # 0
      <3>1. m2.free = m.free \ Run(n, count) /\ m2.tab = Wiped(m.tab, Run(n, count))
            /\ Run(n, count) \subseteq m.free
        BY <1>2, <2>3
      <3> QED BY <2>1, <3>1, WipedTab
    <2> QED BY <2>2, <2>3
  <1>4. /\ Wf(m2, R)
        /\ \A r \in R : Under(m2, r) = Under(m, r)
        /\ \A r \in R : \A p \in UserPages : Map(m2, r, p) = Map(m, r, p)
    BY <1>1, <1>2, <1>3, FreeWf
  <1>5. \A r \in R : TablesOf(m2, r) = TablesOf(m, r)  BY <1>4 DEF TablesOf
  <1>6. n # 0 => m2.free = m.free \ Run(n, count)  BY <1>2
  <1> QED BY <1>2, <1>4, <1>5, <1>6 DEF a, m2, n

LEMMA AllocOneWf ==
    ASSUME NEW m, NEW R, Wf(m, R)
    PROVE  LET a == AllocFrame(m, 1)
           IN  /\ a.base \in Frames /\ Wf(a.mem, R)
               /\ a.base = 0 => a.mem = m
               /\ a.base # 0 => a.base \in m.free /\ a.mem.free = m.free \ {a.base}
               /\ \A r \in R : TablesOf(a.mem, r) = TablesOf(m, r)
               /\ \A r \in R, p \in UserPages : Map(a.mem, r, p) = Map(m, r, p)
  <1> DEFINE one == 1
             a == AllocFrame(m, one)
  <1>1. one \in Nat \ {0}  OBVIOUS
  <1> HIDE DEF one
  <1>2. /\ a.base \in Frames /\ Wf(a.mem, R)
        /\ a.base = 0 => a.mem = m
        /\ a.base # 0 => a.base \in m.free /\ a.mem.free = m.free \ Run(a.base, one)
        /\ \A r \in R : TablesOf(a.mem, r) = TablesOf(m, r)
        /\ \A r \in R, p \in UserPages : Map(a.mem, r, p) = Map(m, r, p)
    BY <1>1, AllocWf
  <1>3. Run(a.base, one) = {a.base}
    <2>1. a.base \in Int  BY <1>2, MmuAssumption DEF Frames
    <2> HIDE DEF a
    <2> QED BY <2>1 DEF Run, one
  <1> QED BY <1>2, <1>3 DEF one

\* The parts that look at the memory through what is mapped.
LEMMA SameMaps ==
    ASSUME Types, Starting, Running, Loading, FrameAssumption,
           \A r \in roots, p \in UserPages : Map(mem', r, p) = Map(mem, r, p),
           AllocFrame(mem', 1).base = AllocFrame(mem, 1).base \/ pc # "mapstack" \/ new.root # 0,
           UNCHANGED <<data, cr3, leftover, procs, new, pc, path, box, page, missed, roots, boxes>>
    PROVE  Types' /\ Starting' /\ Running' /\ Loading'
  <1>1. Types'  BY DEF Types
  <1>2. Starting'  BY DEF Starting, Types, Blank
  <1>3. StackPage \in UserPages  BY FrameAssumption
  <1>4. Running'  BY <1>3 DEF Running, LastProc
  <1>5. Loading'
    <2>1. CASE pc \in Loads
      <3>1. new.root \in roots  BY <2>1 DEF Running, Loads, Runs
      <3>2. \A i : InBox(i) => InBox(i)'  BY DEF InBox, Content, Sections
      <3>3. path \in Paths /\ Len(box) <= Len(Sections)  BY <2>1 DEF Loading
      <3>4. ASSUME NEW i \in DOMAIN box, Mapped(i) PROVE Mapped(i)'
        <4>1. i \in DOMAIN Sections
          <5>1. Sections \in Seq([page : Nat, pages : Nat, raw : Nat])  BY <3>3, SectionsAre DEF Sections
          <5>2. box \in Seq(BoxType)  BY DEF Types
          <5> QED BY <3>3, <5>1, <5>2
        <4>2. Run(Sections[i].page, Sections[i].pages) \subseteq UserPages
          BY <3>3, <4>1, SectionsAre DEF Sections, SectionOk
        <4>3. \A j \in 0 .. Sections[i].pages - 1 : Sections[i].page + j \in UserPages
          <5>1. Sections[i].page \in Nat /\ Sections[i].pages \in Nat
            <6>1. Sections \in Seq([page : Nat, pages : Nat, raw : Nat])
              BY <3>3, SectionsAre DEF Sections
            <6> DEFINE secs == Sections
                       X == [page : Nat, pages : Nat, raw : Nat]
            <6>2. secs \in Seq(X) /\ i \in DOMAIN secs  BY <4>1, <6>1
            <6>3. secs[i] \in X
              <7> HIDE DEF secs, X
              <7> QED BY <6>2
            <6> QED BY <6>3
          <5>2. \A j \in 0 .. Sections[i].pages - 1 :
                   Sections[i].page + j \in Run(Sections[i].page, Sections[i].pages)
            BY <5>1 DEF Run
          <5> QED BY <4>2, <5>2
        <4>4. Sections' = Sections /\ new.root' = new.root /\ pc' = pc /\ page' = page /\ box' = box
          BY DEF Sections
        <4> DEFINE secs == Sections
                   r == new.root
        <4>5. \A j \in 0 .. secs[i].pages - 1 :
                 Map(mem', r, secs[i].page + j) = Map(mem, r, secs[i].page + j)
          BY <3>1, <4>3
        <4>6. \A j \in 0 .. secs[i].pages - 1 : (pc = "map" /\ i = Len(box) => j < page) =>
                 Map(mem, r, secs[i].page + j) = [frame |-> box[i].base + j, flags |-> ExecFlags]
          BY <3>4 DEF Mapped
        <4> HIDE DEF secs, r
        <4>7. \A j \in 0 .. secs[i].pages - 1 : (pc = "map" /\ i = Len(box) => j < page) =>
                 Map(mem', r, secs[i].page + j) = [frame |-> box[i].base + j, flags |-> ExecFlags]
          BY <4>5, <4>6
        <4> QED BY <4>4, <4>7 DEF Mapped, secs, r
      <3>5. Sections' = Sections /\ SectionPages' = SectionPages  BY DEF Sections, SectionPages
      <3>6. \A q \in UserPages \ (SectionPages \union {StackPage}) : Map(mem', new.root, q) = Nothing
        BY <2>1, <3>1 DEF Loading
      <3>7. \A i \in DOMAIN box : InBox(i)' /\ (i \notin missed => Mapped(i)')
        BY <2>1, <3>2, <3>4 DEF Loading
      <3>8. LastProc' = LastProc  BY DEF LastProc
      <3> QED BY <2>1, <3>3, <3>5, <3>6, <3>7, <3>8 DEF Loading
    <2>2. CASE pc \notin Loads  BY <2>2 DEF Loading
    <2> QED BY <2>1, <2>2
  <1> QED BY <1>1, <1>2, <1>4, <1>5

LEMMA TakeFrameStep ==
    ASSUME IInv, TakeFrame
    PROVE  IInv' /\ SpaceStep
  <1> DEFINE b == AllocFrame(mem, 1).base
             U == UsesOf(taken, procs, InHand, boxes, TablesNow)
  <1>1. /\ b # 0 /\ mem' = AllocFrame(mem, 1).mem /\ taken' = taken \union {b}
        /\ UNCHANGED <<data, tree, cr3, leftover, procs, new, pc, roots, boxes>>
        /\ UNCHANGED <<path, found, box, page, missed>>
    BY DEF TakeFrame, loading, history
  <1>2. Wf(mem, roots) /\ Accounted /\ Types /\ Starting /\ Running /\ Loading  BY DEF IInv
  <1>3. /\ Wf(mem', roots) /\ b \in mem.free /\ mem'.free = mem.free \ {b}
        /\ \A r \in roots : TablesOf(mem', r) = TablesOf(mem, r)
        /\ \A r \in roots, p \in UserPages : Map(mem', r, p) = Map(mem, r, p)
    BY <1>1, <1>2, AllocOneWf
  <1> HIDE DEF b
  <1>4. Accounted'
    <2>1. TablesNow' = TablesNow /\ InHand' = InHand  BY <1>1, <1>3 DEF TablesNow, InHand
    <2>2. Exact(U, mem.free)  BY <1>2 DEF Accounted
    <2>3. Exact(UsesOf(taken \union {b}, procs, InHand, boxes, TablesNow), mem.free \ {b})
      <3> DEFINE N == TablesNow
                 H == InHand
                 B == {b}
                 tk2 == taken \union B
                 free2 == mem.free \ B
                 V == UsesOf(tk2, procs, H, boxes, N)
      <3>1. B \subseteq mem.free  BY <1>3
      <3> HIDE DEF N, H, B
      <3>2. Adds(V, UsesOf(taken, procs, H, boxes, N), Tagged("taken", 0, B))
        <4>1. tk2 = taken \union B  OBVIOUS
        <4> HIDE DEF tk2
        <4> QED BY <4>1, UsesTaken
      <3>3. Exact(V, free2)
        <4>1. UsesOf(taken, procs, H, boxes, N) = U /\ free2 = mem.free \ B  BY DEF N, H
        <4>2. Adds(V, U, Tagged("taken", 0, B))  BY <3>2, <4>1
        <4> HIDE DEF V, U, free2
        <4> QED BY <2>2, <3>1, <4>1, <4>2, ExactGrow
      <3> QED BY <3>3 DEF N, H, B
    <2> QED BY <1>1, <1>3, <2>1, <2>3 DEF Accounted
  <1>5. Types' /\ Starting' /\ Running' /\ Loading'
    <2>1. pc # "mapstack" \/ new.root # 0  BY <1>1, <1>2 DEF Starting, b
    <2> QED BY <1>1, <1>2, <1>3, <2>1, SameMaps, FrameAssumption
  <1>6. SpaceStep  BY <1>1, <1>3 DEF SpaceStep, SameSpaces
  <1>7. Wf(mem, roots)'  BY <1>1, <1>3
  <1> QED BY <1>4, <1>5, <1>6, <1>7 DEF IInv

LEMMA AllocStackStep ==
    ASSUME IInv, AllocStack
    PROVE  IInv' /\ SpaceStep
  <1> DEFINE b == AllocFrame(mem, 1).base
             U == UsesOf(taken, procs, {}, boxes, TablesNow)
  <1>1. /\ pc = "stack" /\ pc' = (IF b = 0 THEN "main" ELSE "vas")
        /\ mem' = AllocFrame(mem, 1).mem /\ new' = [new EXCEPT !.stack = b]
        /\ UNCHANGED <<data, tree, cr3, leftover, procs, taken, roots, boxes>>
        /\ UNCHANGED <<path, found, box, page, missed>>
    BY DEF AllocStack, Goto, loading, history
  <1>2. Wf(mem, roots) /\ Accounted /\ Types /\ Starting  BY DEF IInv
  <1>3. /\ Wf(mem', roots) /\ b \in Frames
        /\ b = 0 => mem' = mem
        /\ b # 0 => b \in mem.free /\ mem'.free = mem.free \ {b}
        /\ \A r \in roots : TablesOf(mem', r) = TablesOf(mem, r)
        /\ \A r \in roots, p \in UserPages : Map(mem', r, p) = Map(mem, r, p)
    BY <1>1, <1>2, AllocOneWf
  <1> HIDE DEF b
  <1>4. new' \in [stack : Frames, root : Frames] /\ new'.stack = b  BY <1>1, <1>2, <1>3 DEF Types
  <1>5. Accounted'
    <2>1. TablesNow' = TablesNow  BY <1>1, <1>3 DEF TablesNow
    <2>2. Exact(U, mem.free)
      <3>1. InHand = {}  BY <1>1 DEF InHand
      <3> QED BY <1>2, <3>1 DEF Accounted
    <2>3. CASE b = 0
      <3>1. InHand' = {}  BY <1>1, <2>3 DEF InHand
      <3> QED BY <1>1, <1>3, <2>1, <2>2, <2>3, <3>1 DEF Accounted
    <2>4. CASE b # 0
      <3>1. InHand' = {b}  BY <1>1, <1>4, <2>4 DEF InHand
      <3>2. Exact(UsesOf(taken, procs, {b}, boxes, TablesNow), mem.free \ {b})
        <4> DEFINE N == TablesNow
                   B == {b}
                   free2 == mem.free \ B
                   V == UsesOf(taken, procs, B, boxes, N)
        <4>1. B \subseteq mem.free /\ free2 = mem.free \ B  BY <1>3, <2>4
        <4> HIDE DEF N, B
        <4>2. Adds(V, UsesOf(taken, procs, {}, boxes, N), Tagged("new", 0, B))  BY UsesNew
        <4>3. Adds(V, U, Tagged("new", 0, B))  BY <4>2 DEF N
        <4>4. Exact(V, free2)
          <5> HIDE DEF V, U, free2
          <5> QED BY <2>2, <4>1, <4>3, ExactGrow
        <4> QED BY <4>4 DEF N, B
      <3> QED BY <1>1, <1>3, <2>1, <2>4, <3>1, <3>2 DEF Accounted
    <2> QED BY <2>3, <2>4
  <1>6. Types'  BY <1>1, <1>2, <1>4 DEF Types
  <1>7. Starting'  BY <1>1, <1>2, <1>3 DEF Starting, Types, Blank, Runs
  <1>8. Running'  BY <1>1 DEF Running, Runs
  <1>9. Loading'  BY <1>1 DEF Loading, Loads
  <1>10. SpaceStep  BY <1>1, <1>3 DEF SpaceStep, SameSpaces
  <1>11. Wf(mem, roots)'  BY <1>1, <1>3
  <1> QED BY <1>5, <1>6, <1>7, <1>8, <1>9, <1>10, <1>11 DEF IInv

--------------------------------------------------------------------------------
\* The uses when tables are entered, when a root is made, when the stack of a
\* process that could not be made goes back.
TablesAll(m, R) == [r \in R |-> TablesOf(m, r)]

LEMMA TablesOfFrames ==
    ASSUME NEW m, NEW R, Wf(m, R), NEW r, r \in R
    PROVE  /\ TablesOf(m, r) \subseteq Frames
           /\ TablesOf(m, r) \intersect (m.free \union KernelFrames) = {}
           /\ \A l \in 0 .. Top : Under(m, r)[l] \subseteq TablesOf(m, r)
  <1>1. r \in Frames  BY WfFacts
  <1>2. Under(m, r) \in [0 .. Top -> SUBSET Frames]  BY <1>1, UnderFacts
  <1>3. \A l \in 0 .. Top : Under(m, r)[l] \intersect (m.free \union KernelFrames) = {}  BY DEF Wf
  <1> QED BY <1>2, <1>3 DEF TablesOf

LEMMA GrowUses ==
    ASSUME NEW m, NEW R, NEW r, r \in R, NEW m2, Wf(m, R), Wf(m2, R), m2.free \subseteq m.free,
           NEW tk, NEW ps, NEW ns, NEW bs,
           Exact(UsesOf(tk, ps, ns, bs, TablesAll(m, R)), m.free),
           \A s \in R, f \in Frames :
              f \in TablesOf(m2, s) <=> f \in TablesOf(m, s) \/ (s = r /\ f \in m.free \ m2.free)
    PROVE  Exact(UsesOf(tk, ps, ns, bs, TablesAll(m2, R)), m2.free)
  <1> DEFINE G == m.free \ m2.free
             T == TablesAll(m, R)
             T2 == TablesAll(m2, R)
             U == UsesOf(tk, ps, ns, bs, T)
             V == UsesOf(tk, ps, ns, bs, T2)
             F == m.free
             H == m2.free
  <1>1. \A s \in R : TablesOf(m, s) \subseteq Frames /\ TablesOf(m2, s) \subseteq Frames
    BY TablesOfFrames
  <1>2. F \subseteq Frames  BY WfFacts
  <1>3. DOMAIN T = R /\ DOMAIN T2 = R /\ \A s \in R : T[s] = TablesOf(m, s) /\ T2[s] = TablesOf(m2, s)
    BY DEF TablesAll
  <1>4. G \subseteq Frames /\ G \subseteq F /\ H = F \ G  BY <1>2
  <1>5. \A s \in R : s # r => T2[s] = T[s]  BY <1>1, <1>3
  <1>6. T2[r] = T[r] \union G  BY <1>1, <1>3, <1>4
  <1>7. Exact(U, F)  OBVIOUS
  <1> HIDE DEF G, T, T2, F, H
  <1>8. TableGrown(T, T2, r, G)  BY <1>3, <1>5, <1>6 DEF TableGrown
  <1>9. Adds(V, U, Tagged("table", r, G))  BY <1>8, UsesTables
  <1> HIDE DEF U, V
  <1>10. Exact(V, H)  BY <1>4, <1>7, <1>9, ExactGrow
  <1> QED BY <1>10 DEF V, T2, H

LEMMA RootUses ==
    ASSUME NEW m, NEW R, NEW n, n \notin R, n \in m.free, NEW m2, m2.free = m.free \ {n},
           NEW tk, NEW ps, NEW ns, NEW bs,
           Exact(UsesOf(tk, ps, ns, bs, TablesAll(m, R)), m.free),
           \A s \in R : TablesOf(m2, s) = TablesOf(m, s), TablesOf(m2, n) = {n}
    PROVE  Exact(UsesOf(tk, ps, ns, bs, TablesAll(m2, R \union {n})), m2.free)
  <1> DEFINE G == {n}
             T == TablesAll(m, R)
             T2 == TablesAll(m2, R \union {n})
             U == UsesOf(tk, ps, ns, bs, T)
             V == UsesOf(tk, ps, ns, bs, T2)
             F == m.free
             H == m2.free
  <1>1. DOMAIN T = R /\ DOMAIN T2 = R \union {n} /\ T2[n] = {n} /\ \A s \in R : T2[s] = T[s]
    BY DEF TablesAll
  <1>2. G \subseteq F /\ H = F \ G /\ T2[n] = G  BY <1>1
  <1>3. Exact(U, F)  OBVIOUS
  <1> HIDE DEF G, T, T2, F, H
  <1>4. TableGrown(T, T2, n, G)  BY <1>1, <1>2 DEF TableGrown
  <1>5. Adds(V, U, Tagged("table", n, G))  BY <1>4, UsesTables
  <1> HIDE DEF U, V
  <1>6. Exact(V, H)  BY <1>2, <1>3, <1>5, ExactGrow
  <1> QED BY <1>6 DEF V, T2, H

LEMMA GiveBack ==
    ASSUME NEW m, NEW R, Wf(m, R), NEW b, NEW tk, NEW ps, NEW bs,
           Exact(UsesOf(tk, ps, {b}, bs, TablesAll(m, R)), m.free)
    PROVE  LET m2 == FreeFrame(m, b)
           IN  /\ Wf(m2, R) /\ m2.free = m.free \union {b}
               /\ \A r \in R, p \in UserPages : Map(m2, r, p) = Map(m, r, p)
               /\ Exact(UsesOf(tk, ps, {}, bs, TablesAll(m2, R)), m2.free)
  <1> DEFINE m2 == FreeFrame(m, b)
             T == TablesAll(m, R)
             T2 == TablesAll(m2, R)
             B == {b}
             U == UsesOf(tk, ps, {}, bs, T)
             V == UsesOf(tk, ps, B, bs, T)
             x == <<"new", 0, b>>
             F == m.free
  <1>1. /\ m \in MemType /\ F \subseteq Frames /\ F \intersect KernelFrames = {}
        /\ \A r \in R : \A l \in 0 .. Top : Under(m, r)[l] \intersect (F \union KernelFrames) = {}
    BY WfFacts DEF Wf
  <1>2. m.tab \in [Frames -> TableType]  BY <1>1 DEF MemType
  <1>3. m2.free = F \union {b} /\ m2.tab = m.tab /\ m2 = [free |-> m2.free, tab |-> m2.tab]
    BY <1>1 DEF FreeFrame, MemType
  <1>4. x \notin U /\ (\A g \in KernelFrames : <<"kernel", 0, g>> \in U)
        /\ \A r \in DOMAIN T : \A g \in T[r] : <<"table", r, g>> \in U
    <2> HIDE DEF T
    <2> QED BY UsesTags
  <1>5. Adds(V, U, Tagged("new", 0, B))
    <2> HIDE DEF T, B
    <2> QED BY UsesNew
  <1>6. Exact(V, F)  OBVIOUS
  <1>7. Exact(U, F \union {b}) /\ b \in Frames \ F /\ \A u \in U : u[3] # b
    <2> DEFINE H == F \union {b}
    <2>1. H = F \union {b}  OBVIOUS
    <2> HIDE DEF U, F, V, H
    <2>2. Exact(U, H) /\ b \in Frames \ F /\ \A u \in U : u[3] # b
      BY <1>4, <1>5, <1>6, <2>1, ExactBack
    <2> QED BY <2>1, <2>2
  <1>8. b \notin KernelFrames
    <2> SUFFICES ASSUME b \in KernelFrames PROVE FALSE  OBVIOUS
    <2> DEFINE y == <<"kernel", 0, b>>
    <2>1. y[3] = b  OBVIOUS
    <2>2. y \in U  BY <1>4
    <2> HIDE DEF U, y
    <2> QED BY <1>7, <2>1, <2>2
  <1>9. \A r \in R : b \notin TablesOf(m, r)
    <2> SUFFICES ASSUME NEW r \in R, b \in TablesOf(m, r) PROVE FALSE  OBVIOUS
    <2>1. r \in DOMAIN T /\ b \in T[r]  BY DEF TablesAll
    <2> DEFINE y == <<"table", r, b>>
    <2>2. y[3] = b  OBVIOUS
    <2>3. y \in U
      <3> HIDE DEF U, T
      <3> QED BY <1>4, <2>1
    <2> HIDE DEF U, y
    <2> QED BY <1>7, <2>2, <2>3
  <1>10. b \in Frames  BY <1>7
  <1> HIDE DEF m2, x, U, F
  <1>11. m2 \in MemType  BY <1>1, <1>2, <1>3, <1>10 DEF MemType
  <1>12. \A r \in R : \A l \in 0 .. Top : Under(m, r)[l] \intersect m2.free = {}
    <2>1. \A r \in R : \A l \in 0 .. Top : b \notin Under(m, r)[l]  BY <1>9 DEF TablesOf
    <2> QED BY <1>1, <1>3, <2>1
  <1>13. m2.free \intersect KernelFrames = {}  BY <1>1, <1>3, <1>8
  <1>14. /\ Wf(m2, R)
         /\ \A r \in R : Under(m2, r) = Under(m, r)
         /\ \A r \in R : \A p \in UserPages : Map(m2, r, p) = Map(m, r, p)
    BY <1>3, <1>11, <1>12, <1>13, FreeWf
  <1>15. T2 = T  BY <1>14 DEF TablesAll, TablesOf
  <1>16. Exact(UsesOf(tk, ps, {}, bs, T2), m2.free)  BY <1>3, <1>7, <1>15 DEF U, F
  <1> QED BY <1>3, <1>14, <1>16 DEF m2, F

\* Without a root and without a frame nothing is mapped (process.c:98).
LEMMA NoRoot ==
    ASSUME NEW m, NEW R, Wf(m, R), NEW p, p \in UserPages, AllocFrame(m, 1).base = 0,
           NEW frame, NEW prot
    PROVE  ~MapSingle(m, 0, p, frame, prot).ok /\ MapSingle(m, 0, p, frame, prot).mem = m
  <1> DEFINE yes == TRUE
             zero == 0
             d == Descent(m, zero, p, yes)
             S == {l \in 0 .. Top - 1 : ~d[l].ok /\ d[l].mem = m}
  <1>1. /\ m \in MemType /\ zero \in Frames /\ p \in Pages /\ Top - 1 \in Nat /\ m.tab[0] = ClearTable
        /\ \A l \in 0 .. Top - 1 : l \in 0 .. Top /\ l + 1 \in 0 .. Top
        /\ Top - 1 \in 0 .. Top - 1 /\ (Top - 1) + 1 = Top /\ 0 \in 0 .. Top - 1
    BY WfFacts, Indices, MmuAssumption
  <1>2. yes \in BOOLEAN  OBVIOUS
  <1>3. /\ Descend(m, zero, p, yes) = d[0]
        /\ d \in [0 .. Top -> StateType]
        /\ d[Top] = [mem |-> m, table |-> zero, ok |-> TRUE]
        /\ \A l \in 0 .. Top - 1 : d[l] = Deeper(d[l + 1], LevelIdx(p, l + 1), yes)
    <2> HIDE DEF yes, zero
    <2> QED BY <1>1, <1>2, DescentIs
  <1> HIDE DEF d
  <1>4. ASSUME NEW l \in 0 .. Top - 1 PROVE DeeperIs(d[l + 1], LevelIdx(p, l + 1), yes)
    <2>1. d[l + 1] \in StateType  BY <1>1, <1>3
    <2> HIDE DEF yes
    <2> QED BY <1>2, <2>1, DeeperCases
  <1>5. Top - 1 \in S
    <2> DEFINE k == Top - 1
               i == LevelIdx(p, Top)
    <2>1. DeeperIs(d[Top], i, yes) /\ d[k] = Deeper(d[Top], i, yes)  BY <1>1, <1>3, <1>4
    <2>2. d[Top].ok /\ d[Top].mem = m /\ d[Top].table = 0  BY <1>3
    <2>3. ~Present(m.tab[0][i])
      <3>1. i \in 0 .. Fan - 1  BY <1>1, Indices, MmuAssumption
      <3> HIDE DEF i
      <3> QED BY <1>1, <3>1, ClearRow
    <2> HIDE DEF i, k
    <2>4. ~d[k].ok /\ d[k].mem = m  BY <2>1, <2>2, <2>3 DEF DeeperIs
    <2> QED BY <1>1, <2>4 DEF k
  <1>6. ASSUME NEW l \in 0 .. (Top - 1) - 1, l + 1 \in S PROVE l \in S
    <2>1. l \in 0 .. Top - 1  BY MmuAssumption
    <2>2. DeeperIs(d[l + 1], LevelIdx(p, l + 1), yes) /\ d[l] = Deeper(d[l + 1], LevelIdx(p, l + 1), yes)
      BY <1>3, <1>4, <2>1
    <2>3. ~d[l + 1].ok /\ d[l + 1].mem = m  BY <1>6
    <2>4. d[l] = d[l + 1]  BY <2>2, <2>3 DEF DeeperIs
    <2> QED BY <2>1, <2>3, <2>4
  <1>7. 0 .. Top - 1 \subseteq S
    <2> HIDE DEF S
    <2> QED BY <1>1, <1>5, <1>6, Down
  <1>8. ~d[0].ok /\ d[0].mem = m  BY <1>1, <1>7
  <1> QED BY <1>3, <1>8 DEF MapSingle

--------------------------------------------------------------------------------
LEMMA NewVasStep ==
    ASSUME IInv, NewVas
    PROVE  IInv' /\ SpaceStep
  <1> DEFINE c == CreateVas(mem, cr3)
             n == CreateVas(mem, cr3).root
  <1>1. /\ pc = "vas" /\ pc' = "mapstack" /\ mem' = c.mem
        /\ new' = [new EXCEPT !.root = IF n = 0 THEN leftover ELSE n]
        /\ roots' = roots \union ({n} \ {0})
        /\ UNCHANGED <<data, tree, cr3, leftover, procs, taken, boxes>>
        /\ UNCHANGED <<path, found, box, page, missed>>
    BY DEF NewVas, Goto, loading
  <1>2. Wf(mem, roots) /\ Accounted /\ Types /\ Starting  BY DEF IInv
  <1>3. cr3 \in {KernelRoot} \union roots /\ leftover \in roots \union {0}
        /\ new \in [stack : Frames, root : Frames]
    BY <1>2 DEF Types
  <1>4. n = AllocFrame(mem, 1).base /\ (n = 0 => mem' = mem)  BY <1>1, <1>2, <1>3, CreateVasIs
  <1>5. Running' /\ Loading'  BY <1>1 DEF Running, Runs, Loading, Loads
  <1>6. CASE n = 0
    <2>1. mem' = mem /\ roots' = roots  BY <1>1, <1>4, <1>6
    <2>2. new'.stack = new.stack /\ new'.root = leftover /\ new' \in [stack : Frames, root : Frames]
      <3>1. leftover \in Frames  BY <1>2, <1>3, WfFacts
      <3> HIDE DEF n
      <3> QED BY <1>1, <1>3, <1>6, <3>1
    <2>3. InHand' = InHand  BY <1>1, <2>2 DEF InHand
    <2>4. Wf(mem, roots)' /\ Accounted' /\ SpaceStep  BY <1>1, <1>2, <2>1, <2>3, QuietStep
    <2>5. Types'  BY <1>1, <1>2, <2>1, <2>2 DEF Types
    <2>6. Starting'
      <3>1. leftover # 0 => Blank(mem, leftover)  BY <1>2 DEF Starting
      <3>2. AllocFrame(mem', 1).base = 0  BY <1>4, <1>6, <2>1
      <3> QED BY <1>1, <1>3, <2>1, <2>2, <3>1, <3>2 DEF Starting, Blank, Runs
    <2> QED BY <1>5, <2>4, <2>5, <2>6 DEF IInv
  <1>7. CASE n # 0
    <2>1. /\ Wf(mem', roots \union {n})
          /\ n \in mem.free /\ n \notin roots /\ mem'.free = mem.free \ {n}
          /\ \A s \in roots : TablesOf(mem', s) = TablesOf(mem, s)
          /\ TablesOf(mem', n) = {n}
          /\ \A q \in UserPages : Map(mem', n, q) = Nothing
          /\ \A s \in roots, q \in UserPages : Map(mem', s, q) = Map(mem, s, q)
      <3> DEFINE m2 == CreateVas(mem, cr3).mem
      <3>1. mem' = m2  BY <1>1
      <3>2. /\ Wf(m2, roots \union {n})
            /\ n \in mem.free /\ n \notin roots /\ m2.free = mem.free \ {n}
            /\ \A s \in roots : TablesOf(m2, s) = TablesOf(mem, s)
            /\ TablesOf(m2, n) = {n}
            /\ \A q \in UserPages : Map(m2, n, q) = Nothing
            /\ \A s \in roots, q \in UserPages : Map(m2, s, q) = Map(mem, s, q)
        <4> DEFINE cur == cr3
                   X == {KernelRoot} \union roots
        <4>1. cur \in X /\ n = CreateVas(mem, cur).root /\ m2 = CreateVas(mem, cur).mem  BY <1>3
        <4> HIDE DEF cur, n, m2
        <4>2. RootMade(mem, roots, n, m2)  BY <1>2, <1>7, <4>1, CreateVasFacts
        <4> QED BY <4>2 DEF RootMade
      <3> HIDE DEF m2, n
      <3> QED BY <3>1, <3>2
    <2> HIDE DEF n, c
    <2>2. roots' = roots \union {n}  BY <1>1, <1>7
    <2>3. n \in Frames  BY <1>2, <2>1, WfFacts
    <2>4. new'.stack = new.stack /\ new'.root = n /\ new' \in [stack : Frames, root : Frames]
      BY <1>1, <1>3, <1>7, <2>3
    <2>5. Accounted'
      <3>1. InHand' = InHand  BY <1>1, <2>4 DEF InHand
      <3>2. Exact(UsesOf(taken, procs, InHand, boxes, TablesAll(mem, roots)), mem.free)
        BY <1>2 DEF Accounted, TablesNow, TablesAll
      <3>3. Exact(UsesOf(taken, procs, InHand, boxes, TablesAll(mem', roots \union {n})), mem'.free)
        BY <2>1, <3>2, RootUses
      <3> QED BY <1>1, <2>2, <3>1, <3>3 DEF Accounted, TablesNow, TablesAll
    <2>6. Types'  BY <1>1, <1>2, <2>2, <2>4 DEF Types
    <2>7. Starting'
      <3>1. leftover # 0 => Blank(mem, leftover)  BY <1>2 DEF Starting
      <3> QED BY <1>1, <1>3, <1>7, <2>1, <2>2, <2>4, <3>1 DEF Starting, Blank, Runs
    <2>8. SpaceStep  BY <2>1, <2>2, <2>3 DEF SpaceStep, MadeOne, Blank
    <2>9. Wf(mem, roots)'  BY <2>1, <2>2
    <2> QED BY <1>5, <2>5, <2>6, <2>7, <2>8, <2>9 DEF IInv
  <1> QED BY <1>6, <1>7

\* The stack is mapped, or it goes back (process.c:98-106).
LEMMA StackMapped ==
    ASSUME NEW m, NEW R, Wf(m, R), NEW r, r \in R, NEW b, b \in Frames
    PROVE  LET x == MapSingle(m, r, StackPage, b, "PAGE_USER_READWRITE")
           IN  /\ x.ok \in BOOLEAN /\ Wf(x.mem, R) /\ x.mem.free \subseteq m.free
               /\ \A s \in R, f \in Frames :
                     f \in TablesOf(x.mem, s) <=>
                        f \in TablesOf(m, s) \/ (s = r /\ f \in m.free \ x.mem.free)
               /\ Map(x.mem, r, StackPage) = IF x.ok THEN [frame |-> b, flags |-> StackFlags]
                                             ELSE Map(m, r, StackPage)
               /\ \A s \in R, q \in UserPages : s # r \/ q # StackPage => Map(x.mem, s, q) = Map(m, s, q)
  <1> DEFINE prot == "PAGE_USER_READWRITE"
  <1>1. prot \in {"PAGE_USER_READWRITE", "PAGE_USER_EXEC_READ"} /\ TableFlagsOf(prot) = StackFlags
    BY DEF StackFlags
  <1>2. StackPage \in UserPages  BY FrameAssumption
  <1> DEFINE x == MapSingle(m, r, StackPage, b, prot)
  <1> HIDE DEF prot
  <1>3. /\ x.ok \in BOOLEAN /\ Wf(x.mem, R) /\ x.mem.free \subseteq m.free
        /\ \A s \in R, f \in Frames :
              f \in TablesOf(x.mem, s) <=>
                 f \in TablesOf(m, s) \/ (s = r /\ f \in m.free \ x.mem.free)
        /\ Map(x.mem, r, StackPage) = IF x.ok THEN [frame |-> b, flags |-> TableFlagsOf(prot)]
                                      ELSE Map(m, r, StackPage)
        /\ \A s \in R, q \in UserPages : s # r \/ q # StackPage => Map(x.mem, s, q) = Map(m, s, q)
    BY <1>1, <1>2, MapFacts
  <1> QED BY <1>1, <1>3 DEF prot

LEMMA MapStackStep ==
    ASSUME IInv, MapStack
    PROVE  IInv' /\ SpaceStep
  <1> DEFINE r == new.root
             b == new.stack
             x == MapSingle(mem, new.root, StackPage, new.stack, "PAGE_USER_READWRITE")
             m == MapSingle(mem, new.root, StackPage, new.stack, "PAGE_USER_READWRITE").mem
  <1>1. /\ pc = "mapstack" /\ pc' = (IF x.ok THEN "switch" ELSE "main")
        /\ mem' = (IF x.ok THEN m ELSE FreeFrame(m, b))
        /\ leftover' = (IF x.ok THEN 0 ELSE r)
        /\ procs' = (IF x.ok THEN Append(procs, NotKicked(new)) ELSE procs)
        /\ UNCHANGED <<data, tree, cr3, new, taken, roots, boxes>>
        /\ UNCHANGED <<path, found, box, page, missed>>
    BY DEF MapStack, Goto, loading, history
  <1>2. Wf(mem, roots) /\ Accounted /\ Types /\ Starting  BY DEF IInv
  <1>3. /\ r \in roots \union {0} /\ (r # 0 => Blank(mem, r))
        /\ r = 0 => AllocFrame(mem, 1).base = 0
    BY <1>1, <1>2 DEF Starting
  <1>4. b \in Frames /\ r \in Frames  BY <1>2 DEF Types
  <1>5. StackPage \in UserPages  BY FrameAssumption
  <1>6. Exact(UsesOf(taken, procs, {b}, boxes, TablesAll(mem, roots)), mem.free)
    <2>1. InHand = {b}  BY <1>1 DEF InHand
    <2> QED BY <1>2, <2>1 DEF Accounted, TablesNow, TablesAll
  <1>7. /\ r = 0 => ~x.ok /\ m = mem
        /\ r \in roots => /\ x.ok \in BOOLEAN /\ m.free \subseteq mem.free
                          /\ \A s \in roots, f \in Frames :
                                f \in TablesOf(m, s) <=>
                                   f \in TablesOf(mem, s) \/ (s = r /\ f \in mem.free \ m.free)
                          /\ Map(m, r, StackPage) = IF x.ok THEN [frame |-> b, flags |-> StackFlags]
                                                    ELSE Map(mem, r, StackPage)
        /\ Wf(m, roots)
        /\ \A s \in roots, q \in UserPages : s # r \/ q # StackPage => Map(m, s, q) = Map(mem, s, q)
    <2>1. CASE r = 0
      <3>1. 0 \notin roots
        <4>1. Top \in 0 .. Top  BY MmuAssumption
        <4> QED BY <1>2, <4>1, WfFacts, UnderFacts DEF KernelFrames
      <3>2. ~x.ok /\ m = mem  BY <1>2, <1>3, <1>5, <2>1, NoRoot
      <3> QED BY <1>2, <2>1, <3>1, <3>2
    <2>2. CASE r \in roots
      <3>1. r # 0
        <4>1. Top \in 0 .. Top  BY MmuAssumption
        <4> QED BY <1>2, <2>2, <4>1, WfFacts, UnderFacts DEF KernelFrames
      <3> QED BY <1>2, <1>4, <2>2, <3>1, StackMapped
    <2> QED BY <1>3, <2>1, <2>2
  <1> HIDE DEF x, m
  <1>8. Exact(UsesOf(taken, procs, {b}, boxes, TablesAll(m, roots)), m.free)
    <2>1. CASE r = 0  BY <1>6, <1>7, <2>1
    <2>2. CASE r \in roots
      <3> DEFINE ns == {b}
      <3> HIDE DEF ns, b, r
      <3>1. Exact(UsesOf(taken, procs, ns, boxes, TablesAll(mem, roots)), mem.free)  BY <1>6 DEF ns
      <3>2. Exact(UsesOf(taken, procs, ns, boxes, TablesAll(m, roots)), m.free)
        BY <1>2, <1>7, <2>2, <3>1, GrowUses
      <3> QED BY <3>2 DEF ns
    <2> QED BY <1>3, <2>1, <2>2
  <1>9. Loading'  BY <1>1 DEF Loading, Loads
  <1>10. CASE ~x.ok
    <2>1. /\ Wf(mem', roots)
          /\ \A s \in roots, q \in UserPages : Map(mem', s, q) = Map(m, s, q)
          /\ Exact(UsesOf(taken, procs, {}, boxes, TablesAll(mem', roots)), mem'.free)
      <3> DEFINE g == FreeFrame(m, b)
      <3>1. mem' = g  BY <1>1, <1>10
      <3> HIDE DEF b
      <3>2. /\ Wf(g, roots)
            /\ \A s \in roots, q \in UserPages : Map(g, s, q) = Map(m, s, q)
            /\ Exact(UsesOf(taken, procs, {}, boxes, TablesAll(g, roots)), g.free)
        BY <1>7, <1>8, GiveBack, SMTT(60)
      <3> HIDE DEF g
      <3> QED BY <3>1, <3>2
    <2>2. \A s \in roots, q \in UserPages : Map(mem', s, q) = Map(mem, s, q)
      BY <1>3, <1>7, <1>10, <2>1
    <2>3. pc' = "main" /\ procs' = procs /\ leftover' = r /\ roots' = roots  BY <1>1, <1>10
    <2>4. Accounted'
      <3>1. InHand' = {}  BY <2>3 DEF InHand
      <3> QED BY <1>1, <2>1, <2>3, <3>1 DEF Accounted, TablesNow, TablesAll
    <2>5. Types'  BY <1>1, <1>2, <1>3, <2>3 DEF Types
    <2>6. Starting'  BY <1>1, <1>3, <2>2, <2>3 DEF Starting, Blank, Runs
    <2>7. Running'  BY <2>3 DEF Running, Runs
    <2>8. SpaceStep  BY <2>2, <2>3 DEF SpaceStep, SameSpaces
    <2>9. Wf(mem, roots)'  BY <2>1, <2>3
    <2> QED BY <1>9, <2>4, <2>5, <2>6, <2>7, <2>8, <2>9 DEF IInv
  <1>11. CASE x.ok
    <2> DEFINE p == NotKicked(new)
    <2>1. /\ pc' = "switch" /\ procs' = Append(procs, p) /\ leftover' = 0 /\ roots' = roots
          /\ mem' = m /\ r \in roots
      BY <1>1, <1>3, <1>7, <1>11
    <2>2. procs \in Seq(ProcType) /\ p \in ProcType /\ p.stack = b /\ p.root = r
      BY <1>2, <1>4 DEF NotKicked, ProcType, Types
    <2>3. new' = new  BY <1>1
    <2> HIDE DEF p, b, r
    <2>4. procs' \in Seq(ProcType) /\ Len(procs') > 0 /\ procs'[Len(procs')] = p
      BY <2>1, <2>2
    <2>5. Accounted'
      <3> DEFINE T == TablesAll(m, roots)
                 k == Len(procs) + 1
                 B == {b}
                 U == UsesOf(taken, procs, {}, boxes, T)
                 V == UsesOf(taken, procs, B, boxes, T)
                 W == UsesOf(taken, procs', {}, boxes, T)
                 F == m.free
      <3>1. InHand' = {}  BY <2>1 DEF InHand
      <3>2. Exact(V, F)  BY <1>8
      <3>3. k = Len(procs) + 1  OBVIOUS
      <3> HIDE DEF T, k
      <3>4. Adds(V, U, Tagged("new", 0, {b}))
        <4>1. Adds(V, U, Tagged("new", 0, B))
          <5> HIDE DEF B
          <5> QED BY UsesNew
        <4> QED BY <4>1
      <3>5. Adds(W, U, Tagged("stack", k, {b}))  BY <2>1, <2>2, <3>3, UsesStack
      <3>6. <<"new", 0, b>> \notin U  BY UsesTags
      <3>7. Exact(W, F)
        <4> HIDE DEF U, V, W, F
        <4> QED BY <3>2, <3>4, <3>5, <3>6, ExactOther
      <3> QED BY <1>1, <2>1, <3>1, <3>7 DEF Accounted, TablesNow, TablesAll, T
    <2>6. Types'  BY <1>1, <1>2, <2>1, <2>4 DEF Types
    <2>7. Starting'  BY <2>1 DEF Starting, Runs
    <2>8. Running'
      <3>1. r # 0
        <4>1. Top \in 0 .. Top  BY MmuAssumption
        <4> QED BY <1>2, <2>1, <4>1, WfFacts, UnderFacts DEF KernelFrames
      <3>2. Map(mem', r, StackPage) = [frame |-> b, flags |-> StackFlags]  BY <1>7, <1>11, <2>1
      <3>3. \A q \in UserPages \ {StackPage} : Map(mem', r, q) = Nothing
        BY <1>3, <1>7, <2>1, <3>1 DEF Blank
      <3>4. LastProc' = p /\ new'.root = r  BY <2>3, <2>4 DEF LastProc, r
      <3>5. LastProc'.stack = b /\ LastProc'.root = r  BY <2>2, <3>4
      <3> QED BY <2>1, <2>4, <3>2, <3>3, <3>4, <3>5 DEF Running
    <2>9. SpaceStep
      <3>1. \A s \in roots, q \in UserPages : s # r \/ q # StackPage => Map(mem', s, q) = Map(mem, s, q)
        BY <1>7, <2>1
      <3> QED BY <1>5, <2>1, <3>1 DEF SpaceStep, ChangedOne
    <2>10. Wf(mem, roots)'  BY <1>7, <2>1
    <2> QED BY <1>9, <2>5, <2>6, <2>7, <2>8, <2>9, <2>10 DEF IInv
  <1> QED BY <1>10, <1>11

LEMMA UnmapStep ==
    ASSUME IInv, Unmap
    PROVE  IInv' /\ SpaceStep
  <1>1. /\ pc = "main" /\ cr3 # KernelRoot
        /\ \E p \in UserPages : mem' = UnmapSingle(mem, cr3, p)
        /\ UNCHANGED <<data, tree, cr3, leftover, procs, new, pc, taken, roots, boxes>>
        /\ UNCHANGED <<path, found, box, page, missed>>
    BY DEF Unmap, loading, history
  <1>2. PICK p \in UserPages : mem' = UnmapSingle(mem, cr3, p)  BY <1>1
  <1>3. Wf(mem, roots) /\ Accounted /\ Types /\ Starting  BY DEF IInv
  <1>4. cr3 \in roots  BY <1>1, <1>3 DEF Types
  <1>5. /\ Wf(mem', roots) /\ mem'.free = mem.free
        /\ \A s \in roots : Under(mem', s) = Under(mem, s)
        /\ Map(mem', cr3, p) = Nothing
        /\ \A s \in roots, q \in UserPages : s # cr3 \/ q # p => Map(mem', s, q) = Map(mem, s, q)
    BY <1>2, <1>3, <1>4, UnmapFacts
  <1>6. Accounted'
    <2>1. TablesNow' = TablesNow  BY <1>1, <1>5 DEF TablesNow, TablesOf
    <2>2. InHand' = InHand  BY <1>1 DEF InHand
    <2> QED BY <1>1, <1>3, <1>5, <2>1, <2>2 DEF Accounted
  <1>7. Types'  BY <1>1, <1>3 DEF Types
  <1>8. Starting'
    <2>1. leftover \in roots \union {0} /\ (leftover # 0 => Blank(mem, leftover))
      BY <1>3 DEF Types, Starting
    <2>2. leftover # 0 => Blank(mem', leftover)  BY <1>5, <2>1 DEF Blank
    <2> QED BY <1>1, <2>2 DEF Starting, Runs
  <1>9. Running'  BY <1>1 DEF Running, Runs
  <1>10. Loading'  BY <1>1 DEF Loading, Loads
  <1>11. SpaceStep  BY <1>1, <1>4, <1>5 DEF SpaceStep, ChangedOne
  <1>12. Wf(mem, roots)'  BY <1>1, <1>5
  <1> QED BY <1>6, <1>7, <1>8, <1>9, <1>10, <1>11, <1>12 DEF IInv

--------------------------------------------------------------------------------
\* The pages of the sections of the program at hand, and the frames of boxes.
LEMMA SectionPage ==
    ASSUME path \in Paths, NEW i, i \in DOMAIN Sections
    PROVE  /\ Sections[i] \in [page : Nat, pages : Nat, raw : Nat]
           /\ Sections[i].raw <= Sections[i].pages
           /\ \A j \in 0 .. Sections[i].pages - 1 :
                 /\ Sections[i].page + j \in UserPages
                 /\ Sections[i].page + j # StackPage
                 /\ Sections[i].page + j \in SectionPages
           /\ \A k \in DOMAIN Sections : k # i =>
                 \A j \in 0 .. Sections[i].pages - 1, l \in 0 .. Sections[k].pages - 1 :
                    Sections[k].page + l # Sections[i].page + j
           /\ Sections[i].pages <= Cardinality(UserPages)
  <1> DEFINE secs == Sections
             X == [page : Nat, pages : Nat, raw : Nat]
             RunOf(k) == Run(secs[k].page, secs[k].pages)
  <1>1. /\ secs \in Seq(X)
        /\ \A k \in DOMAIN secs : SectionOk(secs[k])
        /\ \A k, l \in DOMAIN secs : k # l => RunOf(k) \intersect RunOf(l) = {}
    BY SectionsAre DEF Sections
  <1>2. \A k \in DOMAIN secs : secs[k] \in X
    <2> HIDE DEF X, secs
    <2> QED BY <1>1
  <1>3. SectionPages = UNION {RunOf(k) : k \in DOMAIN secs}  BY DEF SectionPages
  <1>4. i \in DOMAIN secs  OBVIOUS
  <1> HIDE DEF secs
  <1>5. secs[i].raw <= secs[i].pages /\ RunOf(i) \subseteq UserPages \ {StackPage}
    BY <1>1, <1>4 DEF SectionOk
  <1>6. \A k \in DOMAIN secs : \A j \in 0 .. secs[k].pages - 1 : secs[k].page + j \in RunOf(k)
    BY <1>2 DEF Run
  <1>7. ASSUME NEW k \in DOMAIN secs, k # i, NEW j \in 0 .. secs[i].pages - 1,
               NEW l \in 0 .. secs[k].pages - 1
        PROVE  secs[k].page + l # secs[i].page + j
    <2>1. secs[k].page + l \in RunOf(k) /\ secs[i].page + j \in RunOf(i)  BY <1>4, <1>6
    <2>2. RunOf(k) \intersect RunOf(i) = {}  BY <1>1, <1>4, <1>7
    <2> HIDE DEF RunOf
    <2> QED BY <2>1, <2>2
  <1>8. \A j \in 0 .. secs[i].pages - 1 : secs[i].page + j \in SectionPages
    <2>1. \A j \in 0 .. secs[i].pages - 1 : secs[i].page + j \in RunOf(i)  BY <1>4, <1>6
    <2> HIDE DEF RunOf
    <2> QED BY <1>3, <1>4, <2>1
  <1>9. secs[i].pages <= Cardinality(UserPages)
    <2> DEFINE a == secs[i].page
               n == secs[i].pages
               b == a + n - 1
    <2>1. a \in Nat /\ n \in Nat  BY <1>2, <1>4
    <2> HIDE DEF a, n
    <2>2. a .. b \subseteq UserPages
      <3>1. \A x \in a .. b : x \in Run(a, n)  BY <2>1 DEF Run
      <3> QED BY <1>5, <3>1 DEF a, n
    <2>3. a \in Int /\ b \in Int  BY <2>1
    <2>4. Cardinality(a .. b) = n
      <3> HIDE DEF b
      <3>1. Cardinality(a .. b) = IF a > b THEN 0 ELSE b - a + 1  BY <2>3, FS_Interval
      <3> QED BY <2>1, <2>3, <3>1 DEF b
    <2>5. Cardinality(a .. b) <= Cardinality(UserPages)
      <3> HIDE DEF b
      <3> QED BY <2>2, UserPagesFinite, FS_Subset
    <2> QED BY <2>4, <2>5 DEF n
  <1> QED BY <1>2, <1>4, <1>5, <1>6, <1>7, <1>8, <1>9 DEF secs

LEMMA BoxFrames ==
    ASSUME Accounted, Types, InHand = {}, NEW k, k \in DOMAIN boxes,
           NEW j, j \in 0 .. boxes[k].pages - 1
    PROVE  boxes[k].base + j \in Frames \ mem.free
  <1> DEFINE N == TablesNow
             U == UsesOf(taken, procs, {}, boxes, N)
             f == boxes[k].base + j
             F == mem.free
  <1>1. Exact(U, F)  BY DEF Accounted
  <1>2. boxes[k] \in BoxType
    <2>1. boxes \in Seq(BoxType)  BY DEF Types
    <2> QED BY <2>1
  <1>3. f \in Run(boxes[k].base, boxes[k].pages)
    <2>1. boxes[k].base \in Int /\ boxes[k].pages \in Nat  BY <1>2, MmuAssumption DEF BoxType, Frames
    <2> QED BY <2>1 DEF Run
  <1> HIDE DEF N, f
  <1>4. <<"box", k, f>> \in U  BY <1>3, UsesTags
  <1> DEFINE u == <<"box", k, f>>
  <1>5. u \in U /\ u[3] = f  BY <1>4
  <1> HIDE DEF U, u, F
  <1>6. f \in Frames \ F  BY <1>1, <1>5 DEF Exact
  <1> QED BY <1>6 DEF f, F

LEMMA BoxAllocateStep ==
    ASSUME IInv, BoxAllocate
    PROVE  IInv' /\ SpaceStep
  <1>0. PICK c \in Nat : c = Len(box) + 1
    <2>1. box \in Seq(BoxType)  BY DEF IInv, Types
    <2> QED BY <2>1
  <1> DEFINE count == Sections[c].pages
             n == AllocFrame(mem, count).base
             b == [base |-> n, pages |-> count]
             r == new.root
  <1>1. /\ pc = "section" /\ c \in DOMAIN Sections /\ count > 0 /\ n # 0
        /\ mem' = AllocFrame(mem, count).mem
        /\ data' = Copied(Sections[c], n)
        /\ box' = Append(box, b) /\ boxes' = Append(boxes, b)
        /\ page' = 0 /\ pc' = "map"
        /\ UNCHANGED <<tree, cr3, leftover, procs, new, path, found, missed, taken, roots>>
    BY <1>0 DEF BoxAllocate, At
  <1>2. Wf(mem, roots) /\ Accounted /\ Types /\ Starting /\ Running /\ Loading  BY DEF IInv
  <1>3. /\ path \in Paths /\ Len(box) <= Len(Sections)
        /\ \A q \in UserPages \ (SectionPages \union {StackPage}) : Map(mem, r, q) = Nothing
        /\ \A i \in DOMAIN box : InBox(i) /\ (i \notin missed => Mapped(i))
        /\ missed \subseteq DOMAIN box
    BY <1>1, <1>2 DEF Loading, Loads
  <1>4. /\ Len(procs) > 0 /\ LastProc.root = r /\ r \in roots /\ cr3 = r
        /\ Map(mem, r, StackPage) = [frame |-> LastProc.stack, flags |-> StackFlags]
    BY <1>1, <1>2 DEF Running, Runs, Loads
  <1>5. count \in Nat \ {0} /\ Sections[c].raw \in Nat /\ Sections[c].raw <= count
    BY <1>1, <1>3, SectionPage
  <1> HIDE DEF count
  <1>6. /\ Wf(mem', roots) /\ n \in Frames
        /\ n \in mem.free /\ Run(n, count) \subseteq mem.free /\ mem'.free = mem.free \ Run(n, count)
        /\ \A s \in roots : TablesOf(mem', s) = TablesOf(mem, s)
        /\ \A s \in roots, q \in UserPages : Map(mem', s, q) = Map(mem, s, q)
    BY <1>1, <1>2, <1>5, AllocWf
  <1> HIDE DEF n
  <1>7. /\ box \in Seq(BoxType) /\ boxes \in Seq(BoxType) /\ b \in BoxType
        /\ b.base = n /\ b.pages = count
    BY <1>2, <1>5, <1>6 DEF Types, BoxType
  <1> HIDE DEF b
  <1>8. /\ Len(box) \in Nat /\ DOMAIN box = 1 .. Len(box)
        /\ box' \in Seq(BoxType) /\ Len(box') = c /\ DOMAIN box' = 1 .. c /\ box'[c] = b
        /\ \A i \in DOMAIN box : box'[i] = box[i] /\ i # c
    BY <1>0, <1>1, <1>7
  <1>9. /\ boxes' \in Seq(BoxType)
        /\ \A k \in DOMAIN boxes : k \in DOMAIN boxes' /\ boxes'[k] = boxes[k]
        /\ \E k \in DOMAIN boxes' : boxes'[k] = b
    <2>1. /\ boxes' \in Seq(BoxType) /\ DOMAIN boxes = 1 .. Len(boxes) /\ Len(boxes) \in Nat
          /\ DOMAIN boxes' = 1 .. Len(boxes) + 1 /\ boxes'[Len(boxes) + 1] = b
          /\ \A k \in 1 .. Len(boxes) : boxes'[k] = boxes[k]
      BY <1>1, <1>7
    <2> QED BY <2>1
  <1>10. InHand = {} /\ InHand' = {}  BY <1>1 DEF InHand
  <1>11. Accounted'
    <2> DEFINE N == TablesNow
               G == Run(b.base, b.pages)
               U == UsesOf(taken, procs, {}, boxes, N)
               V == UsesOf(taken, procs, {}, boxes', N)
               F == mem.free
               H == mem'.free
               k == Len(boxes) + 1
    <2>1. TablesNow' = N  BY <1>1, <1>6 DEF TablesNow
    <2>2. Exact(U, F)  BY <1>2, <1>10 DEF Accounted
    <2>3. G \subseteq F /\ H = F \ G /\ G = Run(b.base, b.pages) /\ k = Len(boxes) + 1  BY <1>6, <1>7
    <2> HIDE DEF N, G, k
    <2>4. Adds(V, U, Tagged("box", k, G))  BY <1>1, <1>7, <2>3, UsesBox
    <2>5. Exact(V, H)
      <3> HIDE DEF U, V, F, H
      <3> QED BY <2>2, <2>3, <2>4, ExactGrow
    <2> QED BY <1>1, <1>10, <2>1, <2>5 DEF Accounted
  <1>12. Types'  BY <1>1, <1>2, <1>8, <1>9, UserPagesFinite DEF Types
  <1>13. Starting'  BY <1>1, <1>2 DEF Starting, Runs
  <1>14. StackPage \in UserPages  BY FrameAssumption
  <1>15. Running'  BY <1>1, <1>4, <1>6, <1>14 DEF Running, LastProc, Loads
  <1>16. Sections' = Sections /\ SectionPages' = SectionPages  BY <1>1 DEF Sections, SectionPages
  <1>17. ASSUME NEW i \in DOMAIN box PROVE InBox(i)' /\ (i \notin missed => Mapped(i)')
    <2>1. i \in DOMAIN Sections
      <3>1. Sections \in Seq([page : Nat, pages : Nat, raw : Nat])  BY <1>3, SectionsAre DEF Sections
      <3>2. DOMAIN Sections = 1 .. Len(Sections) /\ Len(Sections) \in Nat  BY <3>1
      <3> QED BY <1>3, <1>8, <3>2
    <2>2. /\ box'[i] = box[i] /\ i # Len(box')  BY <1>8
    <2>3. PICK k \in DOMAIN boxes : boxes[k] = box[i]  BY <1>3 DEF InBox
    <2>4. /\ box[i].pages = Sections[i].pages
          /\ \A j \in 0 .. Sections[i].pages - 1 : data[box[i].base + j] = Content(i, j)
      BY <1>3 DEF InBox
    <2>5. /\ Sections[i].raw \in Nat /\ Sections[i].pages \in Nat
          /\ Sections[i].raw <= Sections[i].pages
          /\ \A j \in 0 .. Sections[i].pages - 1 : Sections[i].page + j \in UserPages
      BY <1>3, <2>1, SectionPage
    <2>6. ASSUME NEW j \in 0 .. Sections[i].pages - 1 PROVE data'[box[i].base + j] = Content(i, j)
      <3>1. j \in 0 .. boxes[k].pages - 1  BY <2>3, <2>4, <2>5
      <3>2. box[i].base + j \in Frames \ mem.free  BY <1>2, <1>10, <2>3, <3>1, BoxFrames
      <3>3. /\ box[i].base + j \notin Run(n, Sections[c].raw)
            /\ box[i].base + j \notin Run(n, Sections[c].pages)
        <4>1. n \in Int  BY <1>6, MmuAssumption DEF Frames
        <4>2. Run(n, Sections[c].raw) \subseteq Run(n, count)  BY <1>5, <4>1 DEF Run
        <4>3. Run(n, Sections[c].pages) = Run(n, count)  BY DEF count
        <4> QED BY <1>6, <3>2, <4>2, <4>3
      <3>4. data'[box[i].base + j] = data[box[i].base + j]  BY <1>1, <3>2, <3>3 DEF Copied
      <3> QED BY <2>4, <3>4
    <2>7. InBox(i)'
      <3>1. k \in DOMAIN boxes' /\ boxes'[k] = box'[i]  BY <1>9, <2>2, <2>3
      <3>2. \A j \in 0 .. Sections[i].pages - 1 : Content(i, j)' = Content(i, j)
        BY <1>1, <1>16 DEF Content
      <3> QED BY <1>1, <1>16, <2>2, <2>4, <2>6, <3>1, <3>2 DEF InBox
    <2>8. ASSUME i \notin missed PROVE Mapped(i)'
      <3> DEFINE secs == Sections
                 x == box[i].base
      <3>1. \A j \in 0 .. secs[i].pages - 1 :
                Map(mem, r, secs[i].page + j) = [frame |-> x + j, flags |-> ExecFlags]
        BY <1>1, <1>3, <2>8 DEF Mapped
      <3>2. \A j \in 0 .. secs[i].pages - 1 : Map(mem', r, secs[i].page + j) = Map(mem, r, secs[i].page + j)
        BY <1>4, <1>6, <2>5
      <3>3. Sections' = secs /\ box'[i].base = x /\ new'.root = r  BY <1>1, <1>16, <2>2
      <3> HIDE DEF secs, x, r
      <3>4. \A j \in 0 .. secs[i].pages - 1 :
                Map(mem', r, secs[i].page + j) = [frame |-> x + j, flags |-> ExecFlags]
        BY <3>1, <3>2
      <3> QED BY <3>3, <3>4 DEF Mapped
    <2> QED BY <2>7, <2>8
  <1>18. InBox(c)' /\ Mapped(c)'
    <2>1. box'[c] = b /\ Len(box') = c  BY <1>8
    <2>2. ASSUME NEW j \in 0 .. Sections[c].pages - 1 PROVE data'[n + j] = Content(c, j)
      <3> DEFINE f == n + j
                 raw == Sections[c].raw
      <3>1. n \in Int /\ raw \in Nat /\ j \in Nat /\ j \in 0 .. count - 1
        BY <1>5, <1>6, MmuAssumption DEF Frames, count
      <3>2. f \in Run(n, count) /\ (f \in Run(n, raw) <=> j < raw) /\ f - n = j
        <4> HIDE DEF raw
        <4> QED BY <1>5, <3>1 DEF Run
      <3>3. f \in Frames  BY <1>2, <1>6, <3>2, WfFacts
      <3>4. data'[f] = IF f \in Run(n, raw) THEN <<path, c, f - n>> ELSE Zeroed
        <4>1. Run(n, Sections[c].pages) = Run(n, count)  BY DEF count
        <4>2. data'[f] = CASE f \in Run(n, raw) -> <<path, c, f - n>>
                           [] f \in Run(n, count) \ Run(n, raw) -> Zeroed
                           [] OTHER -> data[f]
          BY <1>0, <1>1, <3>3, <4>1 DEF Copied, At
        <4> HIDE DEF f, raw
        <4> QED BY <3>2, <4>2
      <3> HIDE DEF f
      <3>5. data'[f] = IF j < raw THEN <<path, c, j>> ELSE Zeroed  BY <3>2, <3>4
      <3> QED BY <3>5 DEF Content, f
    <2>3. InBox(c)'
      <3>1. \E k \in DOMAIN boxes' : boxes'[k] = box'[c]  BY <1>9, <2>1
      <3>2. box'[c].pages = Sections[c].pages  BY <1>7, <2>1 DEF count
      <3>3. \A j \in 0 .. Sections[c].pages - 1 : Content(c, j)' = Content(c, j)
        BY <1>1, <1>16 DEF Content
      <3> QED BY <1>1, <1>7, <1>16, <2>1, <2>2, <3>1, <3>2, <3>3 DEF InBox
    <2>4. Mapped(c)'
      <3>1. Sections[c].pages \in Nat  BY <1>5 DEF count
      <3> QED BY <1>1, <1>16, <2>1, <3>1 DEF Mapped
    <2> QED BY <2>3, <2>4
  <1>19. Loading'
    <2>1. path' \in Paths /\ Len(box') <= Len(Sections')
      <3>1. Sections \in Seq([page : Nat, pages : Nat, raw : Nat])  BY <1>3, SectionsAre DEF Sections
      <3>2. DOMAIN Sections = 1 .. Len(Sections) /\ Len(Sections) \in Nat  BY <3>1
      <3> QED BY <1>1, <1>3, <1>8, <1>16, <3>2
    <2>2. \A q \in UserPages' \ (SectionPages' \union {StackPage}) : Map(mem', new'.root, q) = Nothing
      BY <1>1, <1>3, <1>4, <1>6, <1>16
    <2>3. \A i \in DOMAIN box' : InBox(i)' /\ (i \notin missed' => Mapped(i)')
      BY <1>1, <1>8, <1>17, <1>18
    <2>4. Len(box') > 0 /\ page' < box'[Len(box')].pages /\ Len(box') \notin missed'
      BY <1>1, <1>3, <1>5, <1>7, <1>8
    <2>5. missed' \subseteq DOMAIN box'  BY <1>1, <1>3, <1>8
    <2> QED BY <1>1, <2>1, <2>2, <2>3, <2>4, <2>5 DEF Loading, Loads
  <1>20. SpaceStep  BY <1>1, <1>6 DEF SpaceStep, SameSpaces
  <1>21. Wf(mem, roots)'  BY <1>1, <1>6
  <1> QED BY <1>11, <1>12, <1>13, <1>15, <1>19, <1>20, <1>21 DEF IInv

\* A page of a section is mapped, or no table can be had for it.
LEMMA PageMapped ==
    ASSUME NEW m, NEW R, Wf(m, R), NEW r, r \in R, NEW p, p \in UserPages, NEW f, f \in Frames
    PROVE  LET x == MapSingle(m, r, p, f, "PAGE_USER_EXEC_READ")
           IN  /\ Wf(x.mem, R) /\ x.mem.free \subseteq m.free
               /\ \A s \in R, g \in Frames :
                     g \in TablesOf(x.mem, s) <=>
                        g \in TablesOf(m, s) \/ (s = r /\ g \in m.free \ x.mem.free)
               /\ x.ok => Map(x.mem, r, p) = [frame |-> f, flags |-> ExecFlags]
               /\ \A s \in R, q \in UserPages : s # r \/ q # p => Map(x.mem, s, q) = Map(m, s, q)
  <1> DEFINE prot == "PAGE_USER_EXEC_READ"
  <1>1. prot \in {"PAGE_USER_READWRITE", "PAGE_USER_EXEC_READ"} /\ TableFlagsOf(prot) = ExecFlags
    BY DEF ExecFlags
  <1> DEFINE x == MapSingle(m, r, p, f, prot)
  <1> HIDE DEF prot
  <1>2. /\ Wf(x.mem, R) /\ x.mem.free \subseteq m.free
        /\ \A s \in R, g \in Frames :
              g \in TablesOf(x.mem, s) <=>
                 g \in TablesOf(m, s) \/ (s = r /\ g \in m.free \ x.mem.free)
        /\ Map(x.mem, r, p) = IF x.ok THEN [frame |-> f, flags |-> TableFlagsOf(prot)]
                              ELSE Map(m, r, p)
        /\ \A s \in R, q \in UserPages : s # r \/ q # p => Map(x.mem, s, q) = Map(m, s, q)
    BY <1>1, MapFacts
  <1> QED BY <1>1, <1>2 DEF prot

LEMMA MapPageStep ==
    ASSUME IInv, MapPage
    PROVE  IInv' /\ SpaceStep
  <1>0. PICK i \in Nat : i = Len(box)
    <2>1. box \in Seq(BoxType)  BY DEF IInv, Types
    <2> QED BY <2>1
  <1>1. PICK r : r = new.root  OBVIOUS
  <1>2. Wf(mem, roots) /\ Accounted /\ Types /\ Starting /\ Running /\ Loading  BY DEF IInv
  <1>3. pc = "map" /\ pc \in Runs /\ pc \in Loads  BY DEF MapPage, Runs, Loads
  <1>4. /\ path \in Paths /\ Len(box) <= Len(Sections)
        /\ \A q \in UserPages \ (SectionPages \union {StackPage}) : Map(mem, r, q) = Nothing
        /\ \A k \in DOMAIN box : InBox(k) /\ (k \notin missed => Mapped(k))
        /\ missed \subseteq DOMAIN box
        /\ i > 0 /\ page < box[i].pages /\ i \notin missed
    BY <1>0, <1>1, <1>2, <1>3 DEF Loading
  <1>5. /\ Len(procs) > 0 /\ LastProc.root = r /\ r \in roots /\ cr3 = r
        /\ Map(mem, r, StackPage) = [frame |-> LastProc.stack, flags |-> StackFlags]
    BY <1>1, <1>2, <1>3 DEF Running
  <1>6. box \in Seq(BoxType) /\ boxes \in Seq(BoxType) /\ page \in Nat
    BY <1>2, UserPagesFinite DEF Types
  <1>7. DOMAIN box = 1 .. i /\ i \in DOMAIN box /\ \A k \in DOMAIN box : k \in DOMAIN Sections
    <2>1. Sections \in Seq([page : Nat, pages : Nat, raw : Nat])  BY <1>4, SectionsAre DEF Sections
    <2>2. DOMAIN Sections = 1 .. Len(Sections) /\ Len(Sections) \in Nat  BY <2>1
    <2> QED BY <1>0, <1>4, <1>6, <2>2
  <1>8. PICK pg : pg = Sections[i].page + page  OBVIOUS
  <1>9. PICK f : f = box[i].base + page  OBVIOUS
  <1>10. InHand = {}  BY <1>3 DEF InHand
  <1>11. /\ page \in 0 .. Sections[i].pages - 1 /\ box[i].pages = Sections[i].pages
         /\ Sections[i].pages \in Nat
    <2>1. box[i].pages = Sections[i].pages  BY <1>4, <1>7 DEF InBox
    <2>2. Sections[i].pages \in Nat  BY <1>4, <1>7, SectionPage
    <2> QED BY <1>4, <1>6, <2>1, <2>2
  <1>12. /\ pg \in UserPages /\ pg # StackPage /\ pg \in SectionPages
         /\ Sections[i].pages <= Cardinality(UserPages)
    BY <1>4, <1>7, <1>8, <1>11, SectionPage
  <1>13. f \in Frames
    <2>1. PICK k \in DOMAIN boxes : boxes[k] = box[i]  BY <1>4, <1>7 DEF InBox
    <2>2. boxes[k].base + page \in Frames \ mem.free  BY <1>2, <1>10, <1>11, <2>1, BoxFrames
    <2> QED BY <1>9, <2>1, <2>2
  <1> DEFINE x == MapSingle(mem, r, pg, f, "PAGE_USER_EXEC_READ")
             m == x.mem
  <1>14. /\ mem' = m /\ page' = page + 1
         /\ missed' = (IF x.ok THEN missed ELSE missed \union {i})
         /\ pc' = (IF x.ok /\ page + 1 < box[i].pages THEN "map" ELSE "section")
         /\ UNCHANGED <<data, tree, cr3, leftover, procs, new, path, found, box, taken, roots, boxes>>
    BY <1>0, <1>5, <1>8, <1>9 DEF MapPage, history
  <1>15. /\ Wf(m, roots) /\ m.free \subseteq mem.free
         /\ \A s \in roots, g \in Frames :
               g \in TablesOf(m, s) <=>
                  g \in TablesOf(mem, s) \/ (s = r /\ g \in mem.free \ m.free)
         /\ x.ok => Map(m, r, pg) = [frame |-> f, flags |-> ExecFlags]
         /\ \A s \in roots, q \in UserPages : s # r \/ q # pg => Map(m, s, q) = Map(mem, s, q)
    BY <1>2, <1>5, <1>12, <1>13, PageMapped
  <1> HIDE DEF x, m
  <1>16. pc' \in {"map", "section"} /\ InHand' = {}  BY <1>14 DEF InHand
  <1>17. Accounted'
    <2>1. Exact(UsesOf(taken, procs, {}, boxes, TablesAll(mem, roots)), mem.free)
      BY <1>2, <1>10 DEF Accounted, TablesNow, TablesAll
    <2>2. Exact(UsesOf(taken, procs, {}, boxes, TablesAll(m, roots)), m.free)
      BY <1>2, <1>5, <1>15, <2>1, GrowUses
    <2> QED BY <1>14, <1>16, <2>2 DEF Accounted, TablesNow, TablesAll
  <1>18. Types'
    <2>1. page' \in 0 .. Cardinality(UserPages)  BY <1>11, <1>12, <1>14, UserPagesFinite
    <2> QED BY <1>2, <1>14, <2>1 DEF Types
  <1>19. Starting'
    <2>1. leftover = 0  BY <1>2, <1>3 DEF Starting
    <2> QED BY <1>14, <1>16, <2>1 DEF Starting
  <1>20. Running'
    <2>1. StackPage \in UserPages  BY FrameAssumption
    <2>2. LastProc' = LastProc  BY <1>14 DEF LastProc
    <2>3. Map(mem', r, StackPage) = Map(mem, r, StackPage)  BY <1>5, <1>12, <1>14, <1>15, <2>1
    <2>4. pc' \in Loads  BY <1>16 DEF Loads
    <2> QED BY <1>1, <1>5, <1>14, <2>2, <2>3, <2>4 DEF Running
  <1>21. Sections' = Sections /\ SectionPages' = SectionPages  BY <1>14 DEF Sections, SectionPages
  <1>22. \A k \in DOMAIN box : InBox(k)'  BY <1>4, <1>14, <1>21 DEF InBox, Content
  <1>23. ASSUME NEW k \in DOMAIN box, k \notin missed' PROVE Mapped(k)'
    <2> DEFINE secs == Sections
               b == box[k].base
               Done(j) == pc' = "map" /\ k = i => j < page + 1
    <2>1. k \in DOMAIN secs /\ k \notin missed /\ (k = i => x.ok)  BY <1>7, <1>14, <1>23
    <2>2. \A j \in 0 .. secs[k].pages - 1 : (k = i => j < page) =>
              Map(mem, r, secs[k].page + j) = [frame |-> b + j, flags |-> ExecFlags]
      BY <1>0, <1>1, <1>4, <2>1 DEF Mapped
    <2>3. \A j \in 0 .. secs[k].pages - 1 : secs[k].page + j \in UserPages
      BY <1>4, <2>1, SectionPage
    <2>4. secs[k].page \in Nat /\ secs[k].pages \in Nat  BY <1>4, <2>1, SectionPage
    <2>5. Sections' = secs /\ box' = box /\ new'.root = r  BY <1>1, <1>14, <1>21
    <2>6. CASE k # i
      <3>1. \A j \in 0 .. secs[k].pages - 1 : secs[k].page + j # pg
        BY <1>4, <1>7, <1>8, <1>11, <2>1, <2>6, SectionPage
      <3> HIDE DEF secs, b
      <3>2. \A j \in 0 .. secs[k].pages - 1 :
                Map(mem', r, secs[k].page + j) = [frame |-> b + j, flags |-> ExecFlags]
        BY <1>5, <1>14, <1>15, <2>2, <2>3, <2>6, <3>1
      <3> QED BY <2>5, <3>2 DEF Mapped, secs, b
    <2>7. CASE k = i
      <3>1. pg = secs[k].page + page /\ f = b + page /\ x.ok  BY <1>8, <1>9, <2>1, <2>7
      <3>2. ASSUME NEW j \in 0 .. secs[k].pages - 1, j < page + 1
            PROVE  Map(mem', r, secs[k].page + j) = [frame |-> b + j, flags |-> ExecFlags]
        <4>1. CASE j = page  BY <1>14, <1>15, <3>1, <4>1
        <4>2. CASE j # page
          <5>1. j < page  BY <1>6, <3>2, <4>2
          <5>2. secs[k].page + j # pg  BY <1>6, <2>4, <3>1, <5>1, SMTT(60)
          <5> HIDE DEF secs, b
          <5> QED BY <1>5, <1>14, <1>15, <2>2, <2>3, <5>1, <5>2
        <4> QED BY <4>1, <4>2
      <3>3. \A j \in 0 .. secs[k].pages - 1 : (pc' = "map" => j < page + 1) => j < page + 1
        BY <1>6, <1>11, <1>14, <2>4, <2>7, <3>1
      <3>4. page' = page + 1 /\ Len(box') = i  BY <1>0, <1>14
      <3> HIDE DEF secs, b
      <3>5. \A j \in 0 .. secs[k].pages - 1 : (pc' = "map" => j < page + 1) =>
                Map(mem', r, secs[k].page + j) = [frame |-> b + j, flags |-> ExecFlags]
        BY <3>2, <3>3
      <3> QED BY <2>5, <2>7, <3>4, <3>5 DEF Mapped, secs, b
    <2> QED BY <2>6, <2>7
  <1>24. Loading'
    <2>1. path' \in Paths /\ Len(box') <= Len(Sections')  BY <1>4, <1>14, <1>21
    <2>2. \A q \in UserPages' \ (SectionPages' \union {StackPage}) : Map(mem', new'.root, q) = Nothing
      BY <1>1, <1>4, <1>5, <1>12, <1>14, <1>15, <1>21
    <2>3. \A k \in DOMAIN box' : InBox(k)' /\ (k \notin missed' => Mapped(k)')
      BY <1>14, <1>22, <1>23
    <2>4. pc' = "map" => Len(box') > 0 /\ page' < box'[Len(box')].pages /\ Len(box') \notin missed'
      BY <1>0, <1>4, <1>14
    <2>5. missed' \subseteq DOMAIN box'  BY <1>4, <1>7, <1>14
    <2>6. /\ pc' \notin {"kick", "user"} /\ pc' # "user" /\ pc' # "verify"  BY <1>16
    <2> QED BY <2>1, <2>2, <2>3, <2>4, <2>5, <2>6 DEF Loading
  <1>25. SpaceStep  BY <1>5, <1>12, <1>14, <1>15 DEF SpaceStep, ChangedOne
  <1>26. Wf(mem, roots)'  BY <1>14, <1>15
  <1> QED BY <1>17, <1>18, <1>19, <1>20, <1>24, <1>25, <1>26 DEF IInv

--------------------------------------------------------------------------------
LEMMA StutterStep ==
    ASSUME IInv, UNCHANGED vars
    PROVE  IInv' /\ SpaceStep
  <1>1. /\ UNCHANGED <<mem, data, tree, cr3, leftover, procs, new, pc, taken, roots, boxes>>
        /\ UNCHANGED <<path, found, box, page, missed>>
    BY DEF vars, loading, history
  <1>2. Wf(mem, roots) /\ Accounted /\ Types /\ Starting /\ Running /\ Loading  BY DEF IInv
  <1>3. Wf(mem, roots)' /\ Accounted' /\ SpaceStep
    <2>1. InHand' = InHand  BY <1>1 DEF InHand
    <2> QED BY <1>1, <1>2, <2>1, QuietStep
  <1>4. Types' /\ Starting' /\ Running' /\ Loading'
    <2>1. \A r \in roots, p \in UserPages : Map(mem', r, p) = Map(mem, r, p)  BY <1>1
    <2>2. AllocFrame(mem', 1).base = AllocFrame(mem, 1).base  BY <1>1
    <2> QED BY <1>1, <1>2, <2>1, <2>2, SameMaps, FrameAssumption
  <1> QED BY <1>3, <1>4 DEF IInv

LEMMA NextStep ==
    ASSUME IInv, [Next]_vars
    PROVE  IInv' /\ SpaceStep
  BY TakeFrameStep, CreateProcessStep, AllocStackStep, NewVasStep, MapStackStep, SwitchVasStep,
     LookupStep, VerifyStep, BoxAllocateStep, BoxRefusedStep, MapPageStep, SectionsDoneStep,
     KickStep, ReturnStep, UnmapStep, StutterStep DEF Next

LEMMA InitIInv ==
    ASSUME Init
    PROVE  IInv
  <1>1. /\ \E t \in BootTables :
              mem = [free |-> Frames \ KernelFrames,
                     tab |-> [f \in Frames |-> IF f = KernelRoot THEN RootTable
                                               ELSE IF f \in KernelFrames THEN ClearTable ELSE t]]
        /\ cr3 = KernelRoot /\ leftover = 0 /\ procs = <<>> /\ new = NoProc /\ pc = "main"
        /\ box = <<>> /\ page = 0 /\ missed = {} /\ taken = {} /\ roots = {} /\ boxes = <<>>
    BY DEF Init
  <1>2. 0 \in Frames /\ KernelRoot \in Frames /\ KernelTable \in Frames /\ KernelFrames \subseteq Frames
    BY FrameAssumption, MmuAssumption DEF Frames, KernelFrames
  <1>3. RootTable \in TableType /\ ClearTable \in TableType
    <2>1. Nothing \in EntryType  BY <1>2 DEF Nothing, EntryType
    <2>2. [frame |-> KernelTable, flags |-> TableFlags] \in EntryType
      BY <1>2 DEF EntryType, TableFlags
    <2> QED BY <2>1, <2>2 DEF RootTable, ClearTable, TableType
  <1>4. Wf(mem, roots)
    <2>1. PICK t \in BootTables :
             mem = [free |-> Frames \ KernelFrames,
                    tab |-> [f \in Frames |-> IF f = KernelRoot THEN RootTable
                                              ELSE IF f \in KernelFrames THEN ClearTable ELSE t]]
      BY <1>1
    <2>2. t \in TableType
      <3> DEFINE X == [frame : Frames, flags : SUBSET TableFlags]
      <3>1. X \subseteq EntryType  BY DEF EntryType, TableFlags
      <3>2. t \in [0 .. Fan - 1 -> X]  BY FrameAssumption
      <3> HIDE DEF X
      <3>3. t \in [0 .. Fan - 1 -> EntryType]  BY <3>1, <3>2
      <3> QED BY <3>3 DEF TableType
    <2>3. mem \in MemType  BY <1>3, <2>1, <2>2 DEF MemType
    <2>4. mem.tab[0] = ClearTable
      <3>1. 0 # KernelRoot /\ 0 \in KernelFrames  BY FrameAssumption DEF KernelFrames
      <3> QED BY <1>2, <2>1, <3>1
    <2>5. mem.free \intersect KernelFrames = {}  BY <2>1
    <2> QED BY <1>1, <2>3, <2>4, <2>5 DEF Wf, Forest
  <1>5. Accounted
    <2> DEFINE U == UsesOf(taken, procs, InHand, boxes, TablesNow)
    <2>1. InHand = {} /\ DOMAIN TablesNow = {} /\ DOMAIN procs = {} /\ DOMAIN boxes = {}
      BY <1>1 DEF InHand, TablesNow
    <2>2. TableUses(TablesNow) = {} /\ StackUses(procs) = {} /\ BoxUses(boxes) = {}
          /\ TakenUses(taken) = {} /\ NewUses(InHand) = {}
      BY <1>1, <2>1 DEF TableUses, StackUses, BoxUses, TakenUses, NewUses
    <2>3. U = KernelUses  BY <2>2 DEF UsesOf
    <2>4. KernelUses = Tagged("kernel", 0, KernelFrames)  BY DEF KernelUses, Tagged
    <2> DEFINE F == mem.free
    <2>5. F = Frames \ KernelFrames  BY <1>1
    <2> HIDE DEF U, F
    <2>6. /\ \A u \in U : u[3] \in KernelFrames
          /\ \A f \in KernelFrames : \E u \in U : u[3] = f
          /\ \A u, v \in U : u[3] = v[3] => u = v
      BY <2>3, <2>4, TaggedFacts
    <2>7. Exact(U, F)  BY <1>2, <2>5, <2>6 DEF Exact
    <2> QED BY <2>7 DEF Accounted, U, F
  <1>6. Types
    <2>1. procs \in Seq(ProcType) /\ box \in Seq(BoxType) /\ boxes \in Seq(BoxType)  BY <1>1
    <2>2. page \in 0 .. Cardinality(UserPages)  BY <1>1, UserPagesFinite
    <2> QED BY <1>1, <1>2, <2>1, <2>2 DEF Types, NoProc
  <1>7. Starting  BY <1>1 DEF Starting, Runs
  <1>8. Running  BY <1>1 DEF Running, Runs
  <1>9. Loading  BY <1>1 DEF Loading, Loads
  <1> QED BY <1>4, <1>5, <1>6, <1>7, <1>8, <1>9 DEF IInv

(***************************************************************************)
(* The invariant holds of every step from exCreateProcess to halProcKick,  *)
(* granted or refused.                                                     *)
(***************************************************************************)
THEOREM LoaderInvariant == Spec => []IInv
  <1>1. Init => IInv  BY InitIInv
  <1>2. IInv /\ [Next]_vars => IInv'  BY NextStep
  <1> QED BY <1>1, <1>2, PTL DEF Spec

\* Types; a frame the kernel holds is never free, and every table entry is one
\* mmuMapSingle, mmuGetLevelPhys or mmuCreateVas writes.
THEOREM LoaderTypes == Spec => []TypeOK
  <1>1. IInv => TypeOK
    <2> SUFFICES ASSUME IInv PROVE TypeOK  OBVIOUS
    <2>1. Wf(mem, roots) /\ Types  BY DEF IInv
    <2>2. mem \in MemType /\ mem.free \intersect KernelFrames = {}  BY <2>1 DEF Wf
    <2>3. mem.free \subseteq Frames \ KernelFrames  BY <2>2 DEF MemType
    <2>4. mem.tab \in [Frames -> TableType]  BY <2>2 DEF MemType
    <2>5. \A f \in Frames, i \in 0 .. Fan - 1 : mem.tab[f][i] \in EntryType
      BY <2>4 DEF TableType
    <2> QED BY <2>1, <2>3, <2>5 DEF TypeOK, Types, EntryType
  <1> QED BY <1>1, LoaderInvariant, PTL

(***************************************************************************)
(* Every frame that is not free has exactly one use, at every step of the  *)
(* making and loading of any number of processes and whatever is refused   *)
(* on the way (mmuGetLevelPhys, mmuCreateVas, halInitPcb and its error     *)
(* path, exBoxAllocate): no frame is given twice and none is lost.         *)
(***************************************************************************)
THEOREM LoaderFrames == Spec => []FramesAccounted
  <1>1. IInv => FramesAccounted
    <2> SUFFICES ASSUME IInv PROVE FramesAccounted  OBVIOUS
    <2> DEFINE U == UsesOf(taken, procs, InHand, boxes, TablesNow)
               F == mem.free
    <2>1. Wf(mem, roots) /\ Exact(U, F)  BY DEF IInv, Accounted
    <2>2. \A r \in roots : Tables(mem, r) = TablesNow[r]
      BY <2>1, WfFacts, TablesIs DEF TablesNow
    <2>3. Uses = U
      <3>1. UNION {{<<"table", r, f>> : f \in Tables(mem, r)} : r \in roots} = TableUses(TablesNow)
        <4>1. DOMAIN TablesNow = roots  BY DEF TablesNow
        <4> QED BY <2>2, <4>1 DEF TableUses
      <3> QED BY <3>1 DEF Uses, UsesOf, KernelUses, TakenUses, StackUses, NewUses, BoxUses, InHand
    <2> HIDE DEF U, F
    <2>4. {u[3] : u \in U} = Frames \ F /\ Cardinality(U) = Cardinality(Frames \ F)
      BY <2>1, ExactCounts
    <2> QED BY <2>3, <2>4 DEF FramesAccounted, F
  <1> QED BY <1>1, LoaderInvariant, PTL

(***************************************************************************)
(* A process is started in its own space, with the kernel in its upper     *)
(* half, its stack, and every page of every section that was not refused,  *)
(* executable and holding that part of the file, or zeros; nothing else is *)
(* mapped (keLoadFromBootPack, mmDoAllocFrames, mmMapPages, halProcKick).  *)
(***************************************************************************)
THEOREM LoaderLoads == Spec => []LoadedExactly
  <1>1. IInv => LoadedExactly
    <2> SUFFICES ASSUME IInv, pc = "user" PROVE LoadedExactly  BY DEF LoadedExactly
    <2> DEFINE r == new.root
    <2>1. Wf(mem, roots) /\ Running /\ Loading  BY DEF IInv
    <2>2. /\ Len(procs) > 0 /\ LastProc.root = r /\ r \in roots /\ cr3 = r
          /\ Map(mem, r, StackPage) = [frame |-> LastProc.stack, flags |-> StackFlags]
      BY <2>1 DEF Running, Runs
    <2>3. /\ path \in Paths
          /\ \A q \in UserPages \ (SectionPages \union {StackPage}) : Map(mem, r, q) = Nothing
          /\ \A i \in DOMAIN box : InBox(i) /\ (i \notin missed => Mapped(i))
          /\ DOMAIN Sections \ missed \subseteq DOMAIN box
          /\ LastProc.ip = Image(path).entry
      BY <2>1 DEF Loading, Loads
    <2>4. \A q \in UserPages : Translate(mem, cr3, q) = Map(mem, r, q)
      BY <2>1, <2>2, TranslateIs
    <2>5. \A i \in UpperHalf : mem.tab[cr3][i] = mem.tab[KernelRoot][i]  BY <2>1, <2>2 DEF Wf
    <2>6. ASSUME NEW i \in DOMAIN Sections \ missed, NEW j \in 0 .. Sections[i].pages - 1
          PROVE  Holds(i, j)
      <3>1. i \in DOMAIN box /\ InBox(i) /\ Mapped(i)  BY <2>3
      <3>2. Sections[i].page + j \in UserPages  BY <2>3, SectionPage
      <3>3. Map(mem, r, Sections[i].page + j) = [frame |-> box[i].base + j, flags |-> ExecFlags]
        BY <3>1 DEF Mapped
      <3>4. Translate(mem, cr3, Sections[i].page + j) = [frame |-> box[i].base + j, flags |-> ExecFlags]
        BY <2>4, <3>2, <3>3
      <3>5. data[box[i].base + j] = Content(i, j)  BY <3>1 DEF InBox
      <3> QED BY <3>4, <3>5 DEF Holds, Content, ExecFlags
    <2>7. StackPage \in UserPages  BY FrameAssumption
    <2>8. Translate(mem, cr3, StackPage) =
              [frame |-> LastProc.stack, flags |-> TableFlagsOf("PAGE_USER_READWRITE")]
      BY <2>2, <2>4, <2>7 DEF StackFlags
    <2>9. \A q \in UserPages \ (SectionPages \union {StackPage}) : Translate(mem, cr3, q) = Nothing
      BY <2>3, <2>4
    <2> QED BY <2>2, <2>3, <2>5, <2>6, <2>8, <2>9 DEF LoadedExactly, LastProc
  <1> QED BY <1>1, LoaderInvariant, PTL

(***************************************************************************)
(* The tables implement address spaces.                                    *)
(***************************************************************************)
LEMMA MappingsAre ==
    ASSUME IInv
    PROVE  Mappings = [r \in roots |-> [p \in UserPages |-> Map(mem, r, p)]]
  <1>1. Wf(mem, roots)  BY DEF IInv
  <1>2. \A r \in roots, p \in UserPages : Translate(mem, r, p) = Map(mem, r, p)
    BY <1>1, TranslateIs
  <1> QED BY <1>2 DEF Mappings

\* Functions of two arguments that differ in one place.
OnTwo(g, A, B) == g = [a \in A |-> [b \in B |-> g[a][b]]]
OneChanged(g, h, x, y) == h = [g EXCEPT ![x][y] = h[x][y]]

LEMMA OnePlaceChanged ==
    ASSUME NEW A, NEW B, NEW g, NEW h, OnTwo(g, A, B), OnTwo(h, A, B),
           NEW x, x \in A, NEW y, y \in B,
           \A a \in A, b \in B : a # x \/ b # y => h[a][b] = g[a][b]
    PROVE  OneChanged(g, h, x, y)
  <1>0. g = [a \in A |-> [b \in B |-> g[a][b]]] /\ h = [a \in A |-> [b \in B |-> h[a][b]]]
    BY DEF OnTwo
  <1> DEFINE k == [g EXCEPT ![x][y] = h[x][y]]
  <1>1. DOMAIN g = A /\ DOMAIN h = A /\ g[x] = [b \in B |-> g[x][b]] /\ h[x] = [b \in B |-> h[x][b]]
    BY <1>0
  <1>2. k = [a \in A |-> IF a = x THEN [g[x] EXCEPT ![y] = h[x][y]] ELSE g[a]]
    BY <1>1
  <1>3. [g[x] EXCEPT ![y] = h[x][y]] = h[x]
    <2>1. [g[x] EXCEPT ![y] = h[x][y]] = [b \in B |-> IF b = y THEN h[x][y] ELSE g[x][b]]
      BY <1>1
    <2>2. \A b \in B : (IF b = y THEN h[x][y] ELSE g[x][b]) = h[x][b]  OBVIOUS
    <2> QED BY <1>1, <2>1, <2>2
  <1>4. \A a \in A : a # x => g[a] = h[a]
    <2> TAKE a \in A
    <2> HAVE a # x
    <2>1. g[a] = [b \in B |-> g[a][b]] /\ h[a] = [b \in B |-> h[a][b]]  BY <1>0
    <2>2. \A b \in B : g[a][b] = h[a][b]  OBVIOUS
    <2> QED BY <2>1, <2>2
  <1>5. h = [a \in A |-> h[a]]  BY <1>0
  <1> HIDE DEF k
  <1>6. k = h  BY <1>2, <1>3, <1>4, <1>5
  <1> QED BY <1>6 DEF k, OneChanged

LEMMA SpacesStep ==
    ASSUME IInv, IInv', SpaceStep
    PROVE  [SpacesOf!Next]_Mappings
  <1> DEFINE g == Mappings
             h == Mappings'
             R == roots
             S == roots'
             M(r, p) == Map(mem, r, p)
             N(r, p) == Map(mem', r, p)
  <1>1. g = [r \in R |-> [p \in UserPages |-> M(r, p)]]  BY MappingsAre
  <1>2. h = [r \in S |-> [p \in UserPages |-> N(r, p)]]
    <2>1. Wf(mem', roots')  BY DEF IInv
    <2>2. \A r \in roots', p \in UserPages : Translate(mem', r, p) = Map(mem', r, p)
      BY <2>1, TranslateIs
    <2> QED BY <2>2 DEF Mappings
  <1> HIDE DEF g, h, R, S, M, N
  <1>3. CASE SameSpaces
    <2>1. S = R /\ \A r \in R, p \in UserPages : N(r, p) = M(r, p)  BY <1>3 DEF SameSpaces, R, S, M, N
    <2>2. h = g  BY <1>1, <1>2, <2>1
    <2> QED BY <2>2 DEF g, h
  <1>4. CASE ChangedOne
    <2>1. S = R /\ \E r \in R, p \in UserPages : \A s \in R, q \in UserPages :
                      s # r \/ q # p => N(s, q) = M(s, q)
      BY <1>4 DEF ChangedOne, R, S, M, N
    <2>2. PICK r \in R, p \in UserPages : \A s \in R, q \in UserPages :
                  s # r \/ q # p => N(s, q) = M(s, q)
      BY <2>1
    <2>3. /\ g = [a \in R |-> [b \in UserPages |-> g[a][b]]]
          /\ h = [a \in R |-> [b \in UserPages |-> h[a][b]]]
          /\ \A a \in R, b \in UserPages : g[a][b] = M(a, b) /\ h[a][b] = N(a, b)
      BY <1>1, <1>2, <2>1
    <2>4. h = [g EXCEPT ![r][p] = h[r][p]]
      <3>1. \A a \in R, b \in UserPages : a # r \/ b # p => h[a][b] = g[a][b]  BY <2>2, <2>3
      <3>2. r \in R /\ p \in UserPages  OBVIOUS
      <3>3. OnTwo(g, R, UserPages) /\ OnTwo(h, R, UserPages)  BY <2>3 DEF OnTwo
      <3>4. OneChanged(g, h, r, p)  BY <3>1, <3>2, <3>3, OnePlaceChanged
      <3> QED BY <3>4 DEF OneChanged
    <2>5. r \in DOMAIN g /\ p \in DOMAIN g[r]  BY <1>1
    <2>6. \E s \in DOMAIN g : \E q \in DOMAIN g[s] : h = [g EXCEPT ![s][q] = h[s][q]]
      BY <2>4, <2>5
    <2> QED BY <2>6 DEF SpacesOf!Next, SpacesOf!Change, g, h
  <1>5. CASE MadeOne
    <2>1. PICK n \in Frames \ roots :
              /\ roots' = roots \union {n}
              /\ Blank(mem', n)
              /\ \A r \in roots, p \in UserPages : Map(mem', r, p) = Map(mem, r, p)
      BY <1>5 DEF MadeOne
    <2>2. /\ S = R \union {n} /\ n \notin R
          /\ \A p \in UserPages : N(n, p) = Nothing
          /\ \A r \in R, p \in UserPages : N(r, p) = M(r, p)
      BY <2>1 DEF Blank, R, S, M, N
    <2>3. DOMAIN g = R /\ DOMAIN h = R \union {n}  BY <1>1, <1>2, <2>2
    <2>4. \A r \in R : h[r] = g[r]
      <3> TAKE r \in R
      <3>1. g[r] = [p \in UserPages |-> M(r, p)] /\ h[r] = [p \in UserPages |-> N(r, p)]
        BY <1>1, <1>2, <2>2
      <3> QED BY <2>2, <3>1
    <2>5. DOMAIN h[n] = UserPages /\ \A p \in UserPages : h[n][p] = Nothing  BY <1>2, <2>2
    <2>6. n \in DOMAIN h \ DOMAIN g /\ DOMAIN h = DOMAIN g \union {n}  BY <2>2, <2>3
    <2>7. \E s \in DOMAIN h \ DOMAIN g :
              /\ DOMAIN h = DOMAIN g \union {s}
              /\ \A t \in DOMAIN g : h[t] = g[t]
              /\ \A p \in DOMAIN h[s] : h[s][p] = Nothing
      BY <2>3, <2>4, <2>5, <2>6
    <2> QED BY <2>7 DEF SpacesOf!Next, SpacesOf!Create, g, h
  <1> QED BY <1>3, <1>4, <1>5 DEF SpaceStep

(***************************************************************************)
(* Each process has a mapping of its own: a step maps or unmaps one page   *)
(* in one space, a new space maps no user page, and nothing that is done   *)
(* to one space (mmuMapSingle, mmuUnmapSingle, the tables they allocate),  *)
(* no allocation and no error path moves a page of another.                *)
(***************************************************************************)
THEOREM LoaderImplementsSpaces == Spec => ImplementsAddressSpaces
  <1>1. Init => SpacesOf!Init
    <2> SUFFICES ASSUME Init PROVE SpacesOf!Init  OBVIOUS
    <2>1. DOMAIN Mappings = {}  BY DEF Init, Mappings
    <2> QED BY <2>1 DEF SpacesOf!Init
  <1>2. IInv /\ IInv' /\ [Next]_vars => [SpacesOf!Next]_Mappings  BY NextStep, SpacesStep
  <1> QED BY <1>1, <1>2, LoaderInvariant, PTL DEF Spec, ImplementsAddressSpaces, SpacesOf!Spec

--------------------------------------------------------------------------------
(***************************************************************************)
(* The archive.                                                            *)
(***************************************************************************)
\* What keBootPackGet returned is what the reader finds in the archive.
PackInv ==
    /\ tree \in Trees
    /\ path = "" \/ found = GetFile(Archive(tree), path)

LEMMA PackExact ==
    ASSUME PackInv
    PROVE  BootPackExact
  <1> DEFINE t == tree
  <1>1. IsTree(t)  BY TreeAssumption DEF PackInv
  <1>2. t \in Seq(TreeEntry)  BY <1>1 DEF IsTree
  <1> HIDE DEF t
  <1>3. DOMAIN t = 1 .. Len(t) /\ \A i \in DOMAIN t : t[i] \in TreeEntry  BY <1>2
  <1>4. ASSUME NEW i \in Files PROVE ReadBack(t, i)
    <2>1. i \in DOMAIN t /\ ~t[i].dir /\ \A j \in 1 .. i : t[j].dir \/ t[j].len > 0
      BY DEF Files, Intact, t
    <2>2. \A j \in 1 .. i : ~EmptyFile(t[j])
      <3>1. \A j \in 1 .. i : j \in DOMAIN t  BY <1>3, <2>1
      <3>2. \A j \in 1 .. i : t[j].len \in Nat  BY <3>1, <1>3 DEF TreeEntry
      <3> QED BY <2>1, <3>2 DEF EmptyFile
    <2> QED BY <1>1, <2>1, <2>2, FilesReadBack
  <1>5. ASSUME path # "" PROVE found = GetFile(Archive(t), path)  BY <1>5 DEF PackInv, t
  <1>6. ASSUME path # "", NEW i \in Files, t[i].path = path
        PROVE  SubSeq(Archive(t), found + 1, found + t[i].len) = Data(t[i])
    BY <1>4, <1>5, <1>6 DEF ReadBack
  <1>7. ASSUME path # "", \A i \in DOMAIN t : t[i].path # path PROVE found = NoData
    BY <1>1, <1>3, <1>5, <1>7, FindsNoOther
  <1>8. \A i \in Files : [path |-> t[i].path, data |-> Data(t[i])] \in Extract(Archive(t))
    BY <1>4 DEF ReadBack
  <1> QED BY <1>6, <1>7, <1>8 DEF BootPackExact, t

LEMMA PackStep ==
    ASSUME PackInv, [Next]_vars
    PROVE  PackInv'
  <1> USE DEF PackInv
  <1>1. ASSUME tree' = tree, path' = path, found' = found PROVE PackInv'  BY <1>1
  <1>2. CASE Lookup  BY <1>2 DEF Lookup
  <1>3. CASE UNCHANGED vars  BY <1>1, <1>3 DEF vars, loading
  <1>4. CASE TakeFrame  BY <1>1, <1>4 DEF TakeFrame, loading
  <1>5. CASE CreateProcess  BY <1>1, <1>5 DEF CreateProcess, loading
  <1>6. CASE AllocStack  BY <1>1, <1>6 DEF AllocStack, loading
  <1>7. CASE NewVas  BY <1>1, <1>7 DEF NewVas, loading
  <1>8. CASE MapStack  BY <1>1, <1>8 DEF MapStack, loading
  <1>9. CASE SwitchVas  BY <1>1, <1>9 DEF SwitchVas, loading
  <1>10. CASE Verify  BY <1>1, <1>10 DEF Verify, loading
  <1>11. CASE BoxAllocate  BY <1>1, <1>11 DEF BoxAllocate, loading
  <1>12. CASE BoxRefused  BY <1>1, <1>12 DEF BoxRefused, loading
  <1>13. CASE MapPage  BY <1>1, <1>13 DEF MapPage, loading
  <1>14. CASE SectionsDone  BY <1>1, <1>14 DEF SectionsDone, loading
  <1>15. CASE Kick  BY <1>1, <1>15 DEF Kick, loading
  <1>16. CASE Return  BY <1>1, <1>16 DEF Return, loading
  <1>17. CASE Unmap  BY <1>1, <1>17 DEF Unmap, loading
  <1> QED BY <1>2, <1>3, <1>4, <1>5, <1>6, <1>7, <1>8, <1>9, <1>10, <1>11, <1>12, <1>13,
             <1>14, <1>15, <1>16, <1>17 DEF Next

(***************************************************************************)
(* keBootPackGet (bootPack.c) finds what omar packed: a file that no empty *)
(* file precedes where omar put it, all of it, and nothing for a path that *)
(* the tree does not have; omar -x restores the same files.  For every     *)
(* tree, and every size of header and block.                               *)
(***************************************************************************)
THEOREM PackReadBack == Spec => []BootPackExact
  <1>1. Init => PackInv  BY DEF Init, PackInv
  <1>2. PackInv /\ [Next]_vars => PackInv'  BY PackStep
  <1>3. PackInv => BootPackExact  BY PackExact
  <1> QED BY <1>1, <1>2, <1>3, PTL DEF Spec
===============================================================================
