------------------------------ MODULE OmarProofs ------------------------------
(***************************************************************************)
(* Proofs about Omar: the readers of an archive find in it what the writer *)
(* put there.  The functions by which both are defined are recursive; that *)
(* they have the values their equations give rests on Up, Down and Jumps.  *)
(***************************************************************************)
EXTENDS Omar, FiniteSetTheorems, SequenceTheorems, WellFoundedInduction, TLAPS

EmptyFile(e) == ~e.dir /\ e.len = 0

\* Induction over the natural numbers, by the least number not in a set.
LEMMA Up ==
    ASSUME NEW S, 0 \in S, \A k \in Nat : k \in S => k + 1 \in S
    PROVE  Nat \subseteq S
  <1> DEFINE T == Nat \ S
             R == {ss \in Nat \X Nat : ss[1] < ss[2]}
  <1>1. IsWellFoundedOn(R, Nat)  BY NatLessThanWellFounded DEF OpToRel
  <1>2. ASSUME T # {} PROVE FALSE
    <2>1. PICK x \in T : \A y \in T : ~ (<<y, x>> \in R)
      <3>1. T \subseteq Nat  OBVIOUS
      <3> HIDE DEF T, R
      <3> QED BY <1>1, <1>2, <3>1, WFMin
    <2>2. x \in Nat /\ x # 0 /\ x - 1 \in Nat  OBVIOUS
    <2>3. <<x - 1, x>> \in R  BY <2>2, Z3
    <2>4. x - 1 \notin T  BY <2>1, <2>3
    <2> QED BY <2>2, <2>4
  <1> QED BY <1>2

\* And from the root down.
LEMMA Down ==
    ASSUME NEW n \in Nat, NEW S, n \in S, \A l \in 0 .. n - 1 : l + 1 \in S => l \in S
    PROVE  0 .. n \subseteq S
  <1> DEFINE U == {k \in Nat : k <= n => n - k \in S}
  <1>1. 0 \in U  OBVIOUS
  <1>2. ASSUME NEW k \in Nat, k \in U PROVE k + 1 \in U
    <2> SUFFICES ASSUME k + 1 <= n PROVE n - (k + 1) \in S  OBVIOUS
    <2>1. n - k \in S  BY <1>2
    <2>2. n - (k + 1) \in 0 .. n - 1 /\ (n - (k + 1)) + 1 = n - k  OBVIOUS
    <2> QED BY <2>1, <2>2
  <1>3. Nat \subseteq U
    <2> HIDE DEF U
    <2> QED BY <1>1, <1>2, Up
  <1>4. ASSUME NEW l \in 0 .. n PROVE l \in S
    <2>1. n - l \in U /\ n - l \in Nat /\ n - l <= n /\ n - (n - l) = l  BY <1>3
    <2> QED BY <2>1
  <1> QED BY <1>4

\* What a recursive function over 0 .. n is that looks further up: g gives the
\* value at p from the one at next[p], which lies above p.
Jump(n, lo, X, stop, base, next, g, f) ==
    /\ f \in [lo .. n -> X]
    /\ \A p \in lo .. n : f[p] = IF p \in stop THEN base[p] ELSE g[p][f[next[p]]]

\* Such a function exists.
LEMMA Jumps ==
    ASSUME NEW n \in Nat, NEW X, NEW stop, NEW base, NEW next, NEW g,
           base \in [0 .. n -> X], g \in [0 .. n -> [X -> X]],
           \A p \in 0 .. n : p \notin stop => next[p] \in p + 1 .. n
    PROVE  \E f : Jump(n, 0, X, stop, base, next, g, f)
  <1> DEFINE S == {k \in 0 .. n : \E f : Jump(n, k, X, stop, base, next, g, f)}
  <1>1. n \in S
    <2> DEFINE h == [p \in n .. n |-> base[p]]
    <2>1. n \in stop
      <3> SUFFICES ASSUME n \notin stop PROVE FALSE  OBVIOUS
      <3>1. n \in 0 .. n  OBVIOUS
      <3>2. next[n] \in n + 1 .. n  BY <3>1
      <3> QED BY <3>2
    <2>2. \A p \in n .. n : p = n /\ p \in 0 .. n  OBVIOUS
    <2>3. h \in [n .. n -> X]  BY <2>2
    <2>4. Jump(n, n, X, stop, base, next, g, h)  BY <2>1, <2>2, <2>3 DEF Jump
    <2> HIDE DEF h
    <2> QED BY <2>4
  <1>2. ASSUME NEW l \in 0 .. n - 1, l + 1 \in S PROVE l \in S
    <2>1. PICK f : Jump(n, l + 1, X, stop, base, next, g, f)  BY <1>2
    <2> DEFINE v == IF l \in stop THEN base[l] ELSE g[l][f[next[l]]]
               h == [p \in l .. n |-> IF p = l THEN v ELSE f[p]]
    <2>2. f \in [l + 1 .. n -> X]  BY <2>1 DEF Jump
    <2>3. l \in 0 .. n /\ g[l] \in [X -> X] /\ base[l] \in X  OBVIOUS
    <2>4. l \notin stop => next[l] \in l + 1 .. n  BY <2>3
    <2>5. v \in X  BY <2>2, <2>3, <2>4
    <2>6. \A p \in l .. n : p # l => p \in l + 1 .. n  OBVIOUS
    <2>7. h \in [l .. n -> X]
      <3> HIDE DEF v
      <3> QED BY <2>2, <2>5, <2>6
    <2>8. ASSUME NEW p \in l .. n
          PROVE  h[p] = IF p \in stop THEN base[p] ELSE g[p][h[next[p]]]
      <3>1. CASE p \in stop
        <4>1. CASE p = l  BY <3>1, <4>1
        <4>2. CASE p # l  BY <3>1, <4>2, <2>1, <2>6 DEF Jump
        <4> QED BY <4>1, <4>2
      <3>2. CASE p \notin stop
        <4>1. p \in 0 .. n  OBVIOUS
        <4>2. next[p] \in p + 1 .. n  BY <4>1, <3>2
        <4>3. next[p] \in l .. n /\ next[p] # l  BY <4>2
        <4>4. h[next[p]] = f[next[p]]  BY <4>3
        <4>5. CASE p = l  BY <3>2, <4>4, <4>5
        <4>6. CASE p # l
          <5>1. h[p] = f[p]  BY <4>6
          <5>2. f[p] = g[p][f[next[p]]]  BY <3>2, <4>6, <2>1, <2>6 DEF Jump
          <5> QED BY <3>2, <4>4, <5>1, <5>2
        <4> QED BY <4>5, <4>6
      <3> QED BY <3>1, <3>2
    <2>9. Jump(n, l, X, stop, base, next, g, h)
      <3> HIDE DEF h
      <3> QED BY <2>7, <2>8 DEF Jump
    <2> HIDE DEF h
    <2> QED BY <2>9
  <1>3. 0 .. n \subseteq S
    <2> HIDE DEF S
    <2> QED BY <1>1, <1>2, Down
  <1>4. 0 \in 0 .. n  OBVIOUS
  <1> QED BY <1>3, <1>4

--------------------------------------------------------------------------------
(***************************************************************************)
(* The writer.                                                             *)
(***************************************************************************)
LEMMA Rounding ==
    ASSUME NEW x \in Nat
    PROVE  /\ (-x) % BlockLen \in 0 .. BlockLen - 1
           /\ AlignUp(x) = x + ((-x) % BlockLen)
  <1> DEFINE b == BlockLen
             q == (x + b - 1) \div b
             r == (x + b - 1) % b
             m == (-x) % b
             n == (-x) \div b
  <1>1. b \in Nat /\ b > 0  BY OmarAssumption
  <1> HIDE DEF b
  <1>2. q \in Int /\ r \in 0 .. b - 1 /\ x + b - 1 = q * b + r  BY <1>1
  <1>3. n \in Int /\ m \in 0 .. b - 1 /\ -x = n * b + m  BY <1>1
  <1> HIDE DEF q, r, m, n
  <1>4. (q + n) * b = b - 1 - r - m  BY <1>1, <1>2, <1>3
  <1>5. q + n = 0
    <2>1. CASE q + n >= 1
      <3>1. (q + n) * b >= b  BY <2>1, <1>1, <1>2, <1>3
      <3> QED BY <3>1, <1>1, <1>2, <1>3, <1>4
    <2>2. CASE q + n <= -1
      <3>1. (q + n) * b <= -b  BY <2>2, <1>1, <1>2, <1>3
      <3> QED BY <3>1, <1>1, <1>2, <1>3, <1>4
    <2> QED BY <2>1, <2>2, <1>2, <1>3
  <1>6. q * b = x + m
    <2>1. q = -n  BY <1>5, <1>2, <1>3
    <2>2. q * b = -(n * b)  BY <2>1, <1>1, <1>2, <1>3
    <2> QED BY <2>2, <1>1, <1>2, <1>3
  <1> QED BY <1>3, <1>6 DEF AlignUp, b, q, m

Cells ==
    {<<"rest">>, <<"zero">>, <<"RAMO">>} \union {<<"OMAR", e>> : e \in TreeEntry}
        \union ({"data"} \X STRING \X Nat)

LEMMA Repeated ==
    ASSUME NEW n \in Nat, NEW C, NEW c \in C
    PROVE  /\ Repeat(n, c) \in Seq(C) /\ Len(Repeat(n, c)) = n
           /\ \A k \in 1 .. n : Repeat(n, c)[k] = c
  BY DEF Repeat

Join(C, s, t, u) ==
    /\ u \in Seq(C) /\ Len(u) = Len(s) + Len(t)
    /\ \A k \in 1 .. Len(s) : u[k] = s[k]
    /\ \A k \in 1 .. Len(t) : u[Len(s) + k] = t[k]

LEMMA Joined ==
    ASSUME NEW C, NEW s \in Seq(C), NEW t \in Seq(C), NEW u, u = s \o t
    PROVE  Join(C, s, t, u)
  BY DEF Join

LEMMA Headed ==
    ASSUME NEW e \in TreeEntry
    PROVE  /\ Header(e) \in Seq(Cells) /\ Len(Header(e)) = HdrLen + e.nameLen
           /\ Header(e)[1] = <<"OMAR", e>>
           /\ \A k \in 2 .. HdrLen + e.nameLen : Header(e)[k] = <<"rest">>
  <1> DEFINE n == HdrLen - 1 + e.nameLen
             c == <<"OMAR", e>>
             d == <<"rest">>
             s == Repeat(n, d)
  <1>1. n \in Nat /\ n + 1 = HdrLen + e.nameLen  BY OmarAssumption DEF TreeEntry
  <1>2. c \in Cells /\ d \in Cells  BY DEF Cells
  <1> HIDE DEF n, d, c
  <1>3. s \in Seq(Cells) /\ Len(s) = n /\ \A k \in 1 .. n : s[k] = d
    BY <1>1, <1>2, Repeated
  <1>4. Header(e) = <<c>> \o s  BY DEF Header, c, d, n
  <1> HIDE DEF s
  <1>5. /\ Header(e) \in Seq(Cells) /\ Len(Header(e)) = n + 1
        /\ Header(e)[1] = c
        /\ \A k \in 2 .. n + 1 : Header(e)[k] = s[k - 1]
    BY <1>1, <1>2, <1>3, <1>4
  <1>6. \A k \in 2 .. n + 1 : k - 1 \in 1 .. n  BY <1>1
  <1> QED BY <1>1, <1>3, <1>5, <1>6 DEF c, d

\* What the writer puts into the archive for an entry.
OfEntry(s, e) ==
    /\ s \in Seq(Cells) /\ Len(s) >= HdrLen + e.nameLen
    /\ s[1] = <<"OMAR", e>>
    /\ \A k \in 2 .. Len(s) : s[k][1] # "OMAR"
    /\ ~EmptyFile(e) => Len(s) = Skip(e)
    /\ Skip(e) \in 1 .. Len(s) + BlockLen
    /\ ~e.dir => \A k \in 1 .. e.len : s[HdrLen + e.nameLen + k] = <<"data", e.path, k>>

LEMMA Pushed ==
    ASSUME NEW e \in TreeEntry, e.dir => HdrLen + e.nameLen < BlockLen
    PROVE  OfEntry(Push(e), e)
  <1> DEFINE h == HdrLen + e.nameLen
             H == Header(e)
  <1>1. /\ e.nameLen \in Nat /\ e.len \in Nat /\ e.dir \in BOOLEAN /\ e.path \in STRING
        /\ HdrLen \in Nat /\ HdrLen > 0 /\ BlockLen \in Nat /\ BlockLen > 0
        /\ h \in Nat /\ h > 0
    BY OmarAssumption DEF TreeEntry
  <1>2. H \in Seq(Cells) /\ Len(H) = h /\ H[1] = <<"OMAR", e>>
        /\ \A k \in 2 .. h : H[k] = <<"rest">>
    BY Headed
  <1>3. \A k \in 2 .. h : H[k][1] # "OMAR"  BY <1>2
  <1> DEFINE z == <<"zero">>
  <1>4. z \in Cells /\ z[1] # "OMAR"  BY DEF Cells
  <1> HIDE DEF H, z
  <1>5. CASE EmptyFile(e)
    <2>1. Push(e) = H  BY <1>5 DEF Push, H, EmptyFile
    <2>2. Skip(e) = AlignUp(h)  BY <1>1, <1>5 DEF Skip, EmptyFile
    <2> HIDE DEF h
    <2>3. AlignUp(h) \in 1 .. h + BlockLen  BY <1>1, Rounding
    <2>4. e.len = 0 /\ 1 .. 0 = {}  BY <1>5 DEF EmptyFile
    <2> QED BY <1>1, <1>2, <1>3, <1>5, <2>1, <2>2, <2>3, <2>4, SMTT(60) DEF OfEntry, h
  <1>6. CASE e.dir
    <2> DEFINE n == Padding(e)
               R == Repeat(n, z)
    <2>1. n = BlockLen - h
      <3>1. h % BlockLen = h  BY <1>1, <1>6
      <3> QED BY <3>1, <1>6 DEF Padding
    <2>2. n \in Nat  BY <1>1, <1>6, <2>1
    <2>3. Push(e) = H \o R  
      <3>1. Push(e) = (H \o <<>>) \o R  BY <1>6 DEF Push, H, z
      <3>2. H \o <<>> = H  BY <1>2
      <3> QED BY <3>1, <3>2
    <2> HIDE DEF n
    <2>4. R \in Seq(Cells) /\ Len(R) = n /\ \A k \in 1 .. n : R[k] = z
      BY <1>4, <2>2, Repeated
    <2> HIDE DEF R, h
    <2>5. Push(e) \in Seq(Cells) /\ Len(Push(e)) = BlockLen /\ Push(e)[1] = H[1]
      <3>1. 1 \in 1 .. h  BY <1>1
      <3>2. /\ Push(e) \in Seq(Cells) /\ Len(Push(e)) = Len(H) + Len(R)
            /\ \A k \in 1 .. Len(H) : Push(e)[k] = H[k]
        <4>1. Join(Cells, H, R, Push(e))
          <5> DEFINE C == Cells
                     u == Push(e)
          <5>1. H \in Seq(C) /\ R \in Seq(C) /\ u = H \o R  BY <1>2, <2>3, <2>4
          <5> HIDE DEF C, u
          <5>2. Join(C, H, R, u)  BY <5>1, Joined
          <5> QED BY <5>2 DEF C, u
        <4> QED BY <4>1 DEF Join
      <3> QED BY <3>1, <3>2, <1>1, <1>2, <2>1, <2>2, <2>4
    <2>6. ASSUME NEW k \in 2 .. Len(Push(e)) PROVE Push(e)[k][1] # "OMAR"
      <3>1. CASE k <= h  BY <3>1, <1>1, <1>2, <1>3, <2>1, <2>2, <2>3, <2>4, <2>5
      <3>2. CASE k > h
        <4>1. k - h \in 1 .. n  BY <3>2, <1>1, <2>1, <2>2, <2>5
        <4>2. Push(e)[k] = R[k - h]  BY <4>1, <3>2, <1>1, <1>2, <2>3, <2>4
        <4> QED BY <4>1, <4>2, <1>4, <2>4
      <3> QED BY <3>1, <3>2, <1>1
    <2>7. Skip(e) = BlockLen  BY <1>6 DEF Skip
    <2> QED BY <1>1, <1>2, <1>6, <2>1, <2>2, <2>5, <2>6, <2>7 DEF OfEntry, h
  <1>7. CASE ~e.dir /\ e.len # 0
    <2> DEFINE n == Padding(e)
               R == Repeat(n, z)
               D == Data(e)
    <2>1. h + e.len \in Nat  BY <1>1
    <2>2. n = (-(h + e.len)) % BlockLen  BY <1>7 DEF Padding
    <2>3. n \in 0 .. BlockLen - 1 /\ Skip(e) = h + e.len + n
      <3>1. Skip(e) = AlignUp(h + e.len)  BY <1>7 DEF Skip
      <3> HIDE DEF n, h
      <3> QED BY <3>1, <2>1, <2>2, Rounding
    <2>4. Push(e) = (H \o D) \o R  
      <3>1. e.dir = FALSE  BY <1>1, <1>7
      <3>2. Push(e) = (Header(e) \o Data(e)) \o Repeat(Padding(e), <<"zero">>)
        BY <3>1, <1>7 DEF Push
      <3> QED BY <3>2 DEF H, z
    <2>5. D \in Seq(Cells) /\ Len(D) = e.len /\ \A k \in 1 .. e.len : D[k] = <<"data", e.path, k>>
      <3>1. \A k \in 1 .. e.len : <<"data", e.path, k>> \in Cells  BY <1>1 DEF Cells
      <3> QED BY <1>1, <3>1, SMTT(60) DEF Data
    <2> HIDE DEF n, D
    <2>6. n \in Nat  BY <2>3, <1>1
    <2>7. R \in Seq(Cells) /\ Len(R) = n /\ \A k \in 1 .. n : R[k] = z
      BY <1>4, <2>6, Repeated
    <2> HIDE DEF R, h
    <2>8. H \o D \in Seq(Cells) /\ Len(H \o D) = h + e.len
          /\ (\A k \in 1 .. h : (H \o D)[k] = H[k])
          /\ (\A k \in 1 .. e.len : (H \o D)[h + k] = D[k])
      <3> DEFINE C == Cells
                 u == H \o D
      <3>1. H \in Seq(C) /\ D \in Seq(C) /\ u = H \o D  BY <1>2, <2>5
      <3> HIDE DEF C, u
      <3>2. Join(C, H, D, u)  BY <3>1, Joined
      <3> QED BY <3>2, <1>2, <2>5 DEF C, u, Join
    <2> DEFINE P == H \o D
    <2> HIDE DEF P
    <2>9. P \in Seq(Cells) /\ Len(P) = h + e.len
          /\ (\A k \in 1 .. h : P[k] = H[k]) /\ (\A k \in 1 .. e.len : P[h + k] = D[k])
      BY <2>8 DEF P
    <2>10. Push(e) = P \o R  BY <2>4 DEF P
    <2>11. Push(e) \in Seq(Cells) /\ Len(Push(e)) = h + e.len + n
           /\ (\A k \in 1 .. h + e.len : Push(e)[k] = P[k])
           /\ (\A k \in 1 .. n : Push(e)[h + e.len + k] = R[k])
      <3> DEFINE C == Cells
                 u == Push(e)
      <3>1. P \in Seq(C) /\ R \in Seq(C) /\ u = P \o R  BY <2>7, <2>9, <2>10
      <3> HIDE DEF C, u
      <3>2. Join(C, P, R, u)  BY <3>1, Joined
      <3> QED BY <3>2, <2>7, <2>9 DEF C, u, Join
    <2>12. \A k \in 1 .. e.len : Push(e)[h + k] = <<"data", e.path, k>>
      <3>1. \A k \in 1 .. e.len : h + k \in 1 .. h + e.len  BY <1>1
      <3> QED BY <3>1, <2>5, <2>9, <2>11
    <2>13. ASSUME NEW k \in 2 .. Len(Push(e)) PROVE Push(e)[k][1] # "OMAR"
      <3>1. CASE k <= h
        <4>1. k \in 1 .. h /\ k \in 1 .. h + e.len /\ k \in 2 .. h  BY <3>1, <1>1
        <4> QED BY <4>1, <1>3, <2>9, <2>11
      <3>2. CASE k > h /\ k <= h + e.len
        <4>1. k - h \in 1 .. e.len /\ h + (k - h) = k  BY <3>2, <1>1
        <4>2. Push(e)[k] = <<"data", e.path, k - h>>  BY <4>1, <2>12
        <4> QED BY <4>2
      <3>3. CASE k > h + e.len
        <4>1. k - (h + e.len) \in 1 .. n /\ h + e.len + (k - (h + e.len)) = k
          BY <3>3, <1>1, <2>6, <2>11
        <4>2. Push(e)[k] = R[k - (h + e.len)]  BY <4>1, <2>11
        <4> QED BY <4>1, <4>2, <1>4, <2>7
      <3> QED BY <3>1, <3>2, <3>3, <1>1
    <2>14. Push(e)[1] = H[1]
      <3>1. 1 \in 1 .. h /\ 1 \in 1 .. h + e.len  BY <1>1
      <3> QED BY <3>1, <2>9, <2>11
    <2> QED BY <1>1, <1>2, <1>7, <2>3, <2>6, <2>11, <2>12, <2>13, <2>14, SMTT(60) DEF OfEntry, h
  <1> QED BY <1>1, <1>5, <1>6, <1>7 DEF EmptyFile

\* Induction up to n.
LEMMA Rising ==
    ASSUME NEW n \in Nat, NEW S, 0 \in S, \A l \in 0 .. n - 1 : l \in S => l + 1 \in S
    PROVE  0 .. n \subseteq S
  <1> DEFINE U == {k \in Nat : k <= n => k \in S}
  <1>1. 0 \in U  OBVIOUS
  <1>2. ASSUME NEW k \in Nat, k \in U PROVE k + 1 \in U
    <2> SUFFICES ASSUME k + 1 <= n PROVE k + 1 \in S  OBVIOUS
    <2>1. k \in 0 .. n - 1 /\ k \in S  BY <1>2
    <2> QED BY <2>1
  <1>3. Nat \subseteq U
    <2> HIDE DEF U
    <2> QED BY <1>1, <1>2, Up
  <1>4. ASSUME NEW l \in 0 .. n PROVE l \in S
    <2>1. l \in U  BY <1>3
    <2> QED BY <2>1
  <1> QED BY <1>4

\* f gives what is written up to and including each entry.
Writing(n, C, parts, f) ==
    /\ f \in [0 .. n -> Seq(C)] /\ f[0] = <<>>
    /\ \A i \in 1 .. n : f[i] = f[i - 1] \o parts[i]

LEMMA WritingExists ==
    ASSUME NEW n \in Nat, NEW C, NEW parts, parts \in [1 .. n -> Seq(C)]
    PROVE  \E f : Writing(n, C, parts, f)
  <1> DEFINE X == Seq(C)
             base == [p \in 0 .. n |-> <<>>]
             next == [p \in 0 .. n |-> p + 1]
             g == [p \in 0 .. n |-> IF p = n THEN [x \in X |-> x]
                                    ELSE [x \in X |-> x \o parts[n - p]]]
             stop == {n}
  <1>1. base \in [0 .. n -> X]  OBVIOUS
  <1>2. g \in [0 .. n -> [X -> X]]
    <2>1. ASSUME NEW p \in 0 .. n, p # n PROVE [x \in X |-> x \o parts[n - p]] \in [X -> X]
      <3>1. n - p \in 1 .. n  BY <2>1
      <3>2. parts[n - p] \in Seq(C)  BY <3>1
      <3> QED BY <3>2
    <2> QED BY <2>1
  <1>3. \A p \in 0 .. n : p \notin stop => next[p] \in p + 1 .. n  OBVIOUS
  <1>4. PICK F : Jump(n, 0, X, stop, base, next, g, F)
    <2> HIDE DEF X, base, next, g, stop
    <2> QED BY <1>1, <1>2, <1>3, Jumps
  <1>5. F \in [0 .. n -> X]  BY <1>4 DEF Jump
  <1> DEFINE f == [i \in 0 .. n |-> F[n - i]]
  <1>6. \A i \in 0 .. n : n - i \in 0 .. n  OBVIOUS
  <1>7. f \in [0 .. n -> X]  BY <1>5, <1>6
  <1>8. f[0] = <<>>
    <2>1. n \in 0 .. n /\ n - 0 = n /\ 0 \in 0 .. n  OBVIOUS
    <2>2. F[n] = base[n]  BY <1>4, <2>1 DEF Jump
    <2> QED BY <2>1, <2>2
  <1>9. ASSUME NEW i \in 1 .. n PROVE f[i] = f[i - 1] \o parts[i]
    <2> DEFINE p == n - i
    <2>1. p \in 0 .. n /\ p # n /\ n - p = i /\ n - (i - 1) = p + 1 /\ p + 1 \in 0 .. n
          /\ i \in 0 .. n /\ i - 1 \in 0 .. n
      OBVIOUS
    <2>2. F[p] = g[p][F[next[p]]]  BY <1>4, <2>1 DEF Jump
    <2>3. next[p] = p + 1 /\ F[p + 1] \in X  BY <1>5, <2>1
    <2>4. g[p][F[p + 1]] = F[p + 1] \o parts[n - p]  BY <2>1, <2>3
    <2>5. f[i] = F[p] /\ f[i - 1] = F[p + 1]  BY <2>1
    <2> HIDE DEF f, p, g, next
    <2> QED BY <2>1, <2>2, <2>3, <2>4, <2>5
  <1> HIDE DEF f
  <1>10. Writing(n, C, parts, f)  BY <1>7, <1>8, <1>9 DEF Writing
  <1> QED BY <1>10

\* FlattenSeq puts the parts one behind the other.
LEMMA Flattened ==
    ASSUME NEW C, NEW parts \in Seq(Seq(C))
    PROVE  \E f : Writing(Len(parts), C, parts, f) /\ f[Len(parts)] = FlattenSeq(parts)
  <1> DEFINE n == Len(parts)
  <1>1. n \in Nat /\ parts \in [1 .. n -> Seq(C)]  OBVIOUS
  <1>2. CASE n = 0
    <2>1. PICK f : Writing(n, C, parts, f)
      <3> HIDE DEF n
      <3> QED BY <1>1, WritingExists
    <2>2. f[0] = <<>>  BY <2>1 DEF Writing
    <2>3. FlattenSeq(parts) = parts  BY <1>2 DEF FlattenSeq
    <2>4. parts = <<>>  BY <1>2
    <2> QED BY <1>2, <2>1, <2>2, <2>3, <2>4
  <1>3. CASE n # 0
    <2> DEFINE Is(u) == u = [i \in 1 .. n |-> IF i = 1 THEN parts[i] ELSE u[i - 1] \o parts[i]]
    <2>1. PICK f : Writing(n, C, parts, f)
      <3> HIDE DEF n
      <3> QED BY <1>1, WritingExists
    <2>2. f \in [0 .. n -> Seq(C)] /\ f[0] = <<>>
          /\ \A i \in 1 .. n : f[i] = f[i - 1] \o parts[i]
      <3> HIDE DEF n
      <3> QED BY <2>1 DEF Writing
    <2> DEFINE h == [i \in 1 .. n |-> f[i]]
    <2>3. Is(h)
      <3>1. ASSUME NEW i \in 1 .. n
            PROVE  h[i] = IF i = 1 THEN parts[i] ELSE h[i - 1] \o parts[i]
        <4>1. CASE i = 1
          <5>1. parts[1] \in Seq(C) /\ 1 \in 1 .. n  BY <1>1, <4>1
          <5>2. f[1] = <<>> \o parts[1]
            <6>1. 1 - 1 = 0  OBVIOUS
            <6> HIDE DEF n
            <6>2. f[1] = f[1 - 1] \o parts[1]  BY <2>2, <5>1
            <6> QED BY <2>2, <6>1, <6>2
          <5> QED BY <4>1, <5>1, <5>2
        <4>2. CASE i # 1
          <5>1. i - 1 \in 1 .. n  BY <1>1, <4>2
          <5> QED BY <4>2, <5>1, <2>2
        <4> QED BY <4>1, <4>2
      <3>2. h = [i \in 1 .. n |-> h[i]]  OBVIOUS
      <3> HIDE DEF h, n
      <3> QED BY <3>1, <3>2
    <2> DEFINE u == CHOOSE v : Is(v)
    <2>4. Is(u)
      <3> HIDE DEF Is, h
      <3> QED BY <2>3
    <2>5. FlattenSeq(parts) = u[n]  BY <1>3 DEF FlattenSeq
    <2> HIDE DEF u
    <2>6. \A i \in 1 .. n : u[i] = IF i = 1 THEN parts[i] ELSE u[i - 1] \o parts[i]
      <3> HIDE DEF n
      <3> QED BY <2>4
    <2> HIDE DEF n, h, Is
    <2> DEFINE S == {i \in 0 .. n : i = 0 \/ u[i] = f[i]}
    <2>7. 0 \in S  BY <1>1
    <2>8. ASSUME NEW l \in 0 .. n - 1, l \in S PROVE l + 1 \in S
      <3>1. l + 1 \in 1 .. n /\ (l + 1) - 1 = l /\ l + 1 \in 0 .. n  BY <1>1
      <3>2. f[l + 1] = f[l] \o parts[l + 1]  BY <2>2, <3>1
      <3>3. CASE l = 0
        <4>1. parts[1] \in Seq(C)  BY <1>1, <3>1, <3>3
        <4>2. f[1] = parts[1]
          <5>1. l + 1 = 1  BY <3>3
          <5>2. f[1] = f[0] \o parts[1]  BY <3>2, <3>3, <5>1
          <5> QED BY <2>2, <4>1, <5>2
        <4> QED BY <2>6, <3>1, <3>3, <4>2
      <3>4. CASE l # 0
        <4>1. u[l + 1] = u[l] \o parts[l + 1]
          <5>1. l + 1 # 1  BY <3>4
          <5> QED BY <2>6, <3>1, <5>1
        <4>2. u[l] = f[l]  BY <2>8, <3>4
        <4> QED BY <3>1, <3>2, <4>1, <4>2
      <3> QED BY <3>3, <3>4
    <2>9. 0 .. n \subseteq S
      <3> HIDE DEF S, n
      <3> QED BY <1>1, <2>7, <2>8, Rising
    <2>10. n \in 0 .. n  BY <1>1
    <2>11. n \in S  BY <2>9, <2>10
    <2>12. u[n] = f[n]  BY <1>3, <2>11
    <2> QED BY <2>1, <2>5, <2>12 DEF n
  <1> QED BY <1>2, <1>3

\* The parts lie where what is written before them ends, and nothing else is
\* written.
Apart(n, parts, f, i) ==
    /\ \A j \in 1 .. i : \A k \in 1 .. Len(parts[j]) :
          /\ Len(f[j - 1]) + k \in 1 .. Len(f[i])
          /\ f[i][Len(f[j - 1]) + k] = parts[j][k]
    /\ \A q \in 1 .. Len(f[i]) :
          \E j \in 1 .. i : \E k \in 1 .. Len(parts[j]) : q = Len(f[j - 1]) + k

LEMMA PartsApart ==
    ASSUME NEW n \in Nat, NEW C, NEW parts, parts \in [1 .. n -> Seq(C)],
           NEW f, Writing(n, C, parts, f)
    PROVE  \A i \in 0 .. n : Apart(n, parts, f, i)
  <1> DEFINE S == {i \in 0 .. n : Apart(n, parts, f, i)}
  <1>1. f \in [0 .. n -> Seq(C)] /\ f[0] = <<>>
        /\ \A i \in 1 .. n : f[i] = f[i - 1] \o parts[i]
    BY DEF Writing
  <1>2. 0 \in S
    <2>1. 0 \in 0 .. n /\ Len(f[0]) = 0  BY <1>1
    <2> QED BY <2>1 DEF Apart
  <1>3. ASSUME NEW l \in 0 .. n - 1, l \in S PROVE l + 1 \in S
    <2>1. l + 1 \in 1 .. n /\ (l + 1) - 1 = l /\ l + 1 \in 0 .. n /\ l \in 0 .. n  OBVIOUS
    <2> DEFINE s == f[l]
               t == parts[l + 1]
               u == f[l + 1]
    <2>2. s \in Seq(C) /\ t \in Seq(C) /\ u = s \o t  BY <1>1, <2>1
    <2>3. Apart(n, parts, f, l)  BY <1>3
    <2>4. Join(C, s, t, u)
      <3> HIDE DEF s, t, u
      <3> QED BY <2>2, Joined
    <2>5. u \in Seq(C) /\ Len(u) = Len(s) + Len(t) /\ Len(s) \in Nat /\ Len(t) \in Nat
          /\ (\A k \in 1 .. Len(s) : u[k] = s[k])
          /\ (\A k \in 1 .. Len(t) : u[Len(s) + k] = t[k])
      <3> HIDE DEF s, t, u
      <3> QED BY <2>2, <2>4 DEF Join
    <2>6. ASSUME NEW j \in 1 .. l + 1, NEW k \in 1 .. Len(parts[j])
          PROVE  /\ Len(f[j - 1]) + k \in 1 .. Len(u)
                 /\ u[Len(f[j - 1]) + k] = parts[j][k]
      <3>1. CASE j = l + 1
        <4>1. f[j - 1] = s /\ parts[j] = t  BY <2>1, <3>1
        <4> HIDE DEF s, t, u
        <4> QED BY <2>5, <4>1
      <3>2. CASE j # l + 1
        <4>1. j \in 1 .. l  BY <3>2
        <4>2. Len(f[j - 1]) + k \in 1 .. Len(s) /\ s[Len(f[j - 1]) + k] = parts[j][k]
          BY <2>3, <4>1 DEF Apart
        <4> HIDE DEF s, t, u
        <4> QED BY <2>5, <4>2
      <3> QED BY <3>1, <3>2
    <2>7. ASSUME NEW q \in 1 .. Len(u)
          PROVE  \E j \in 1 .. l + 1 : \E k \in 1 .. Len(parts[j]) : q = Len(f[j - 1]) + k
      <3>1. CASE q <= Len(s)
        <4>1. q \in 1 .. Len(s)  BY <3>1, <2>5
        <4>2. PICK j \in 1 .. l : \E k \in 1 .. Len(parts[j]) : q = Len(f[j - 1]) + k
          BY <2>3, <4>1 DEF Apart
        <4>3. j \in 1 .. l + 1  OBVIOUS
        <4> QED BY <4>2, <4>3
      <3>2. CASE q > Len(s)
        <4>1. q - Len(s) \in 1 .. Len(t) /\ q = Len(s) + (q - Len(s))
          <5> HIDE DEF s, t, u
          <5> QED BY <3>2, <2>5
        <4>2. l + 1 \in 1 .. l + 1  OBVIOUS
        <4> QED BY <2>1, <4>1, <4>2
      <3> QED BY <3>1, <3>2, <2>5
    <2>8. Apart(n, parts, f, l + 1)  BY <2>6, <2>7 DEF Apart
    <2> QED BY <2>1, <2>8
  <1>4. 0 .. n \subseteq S
    <2> HIDE DEF S
    <2> QED BY <1>2, <1>3, Rising
  <1> QED BY <1>4

\* How the archive a of a tree is laid out: entry i starts at s[i], and only
\* where an entry starts a header does.
Layout(t, a, s) ==
    /\ s \in [1 .. Len(t) + 1 -> Nat] /\ s[1] = 0
    /\ a \in Seq(Cells)
    /\ \A i \in 1 .. Len(t) :
          /\ s[i + 1] = s[i] + Len(Push(t[i]))
          /\ \A k \in 1 .. Len(Push(t[i])) :
                s[i] + k \in 1 .. Len(a) /\ a[s[i] + k] = Push(t[i])[k]
    /\ \A p \in 0 .. Len(a) - 1 : a[p + 1][1] = "OMAR" => \E i \in 1 .. Len(t) : p = s[i]

LEMMA LaidOut ==
    ASSUME NEW t, IsTree(t)
    PROVE  \E s : Layout(t, Archive(t), s)
  <1> DEFINE n == Len(t)
             parts == [i \in DOMAIN t |-> Push(t[i])]
             C == Cells
             A == FlattenSeq(parts)
             a == Archive(t)
  <1>1. n \in Nat /\ DOMAIN t = 1 .. n /\ \A i \in 1 .. n : t[i] \in TreeEntry
    BY DEF IsTree
  <1>2. ASSUME NEW i \in 1 .. n PROVE OfEntry(Push(t[i]), t[i])
    <2>1. t[i].dir => HdrLen + t[i].nameLen < BlockLen  BY <1>1 DEF IsTree
    <2> QED BY <1>1, <2>1, Pushed
  <1>3. \A i \in 1 .. n : Push(t[i]) \in Seq(C)  BY <1>2 DEF OfEntry
  <1>4. \A i \in 1 .. n : parts[i] = Push(t[i])  BY <1>1
  <1>5. parts \in [1 .. n -> Seq(C)]  BY <1>1, <1>3
  <1> HIDE DEF C, n, parts
  <1>6. parts \in Seq(Seq(C)) /\ Len(parts) = n  BY <1>1, <1>5
  <1>7. PICK f : Writing(n, C, parts, f) /\ f[n] = FlattenSeq(parts)
    <2>1. \E f : Writing(Len(parts), C, parts, f) /\ f[Len(parts)] = FlattenSeq(parts)
      BY <1>6, Flattened
    <2> QED BY <1>6, <2>1
  <1>8. Apart(n, parts, f, n) 
    <2>1. n \in 0 .. n  BY <1>1
    <2>2. \A i \in 0 .. n : Apart(n, parts, f, i)  BY <1>1, <1>5, <1>7, PartsApart
    <2> QED BY <2>1, <2>2
  <1>9. f \in [0 .. n -> Seq(C)] /\ f[0] = <<>>
        /\ \A i \in 1 .. n : f[i] = f[i - 1] \o parts[i]
    BY <1>7 DEF Writing
  <1>10. A \in Seq(C) /\ A = f[n]
    <2>1. n \in 0 .. n  BY <1>1
    <2> QED BY <2>1, <1>7, <1>9
  <1> DEFINE E == Eof
  <1>11. E \in Seq(C) /\ Len(E) = HdrLen + 1 /\ \A k \in 1 .. Len(E) : E[k][1] # "OMAR"
    <2> DEFINE c == <<"RAMO">>
               d == <<"rest">>
               R == Repeat(HdrLen, d)
    <2>1. c \in Cells /\ d \in Cells /\ c[1] # "OMAR" /\ d[1] # "OMAR" /\ HdrLen \in Nat
      BY OmarAssumption DEF Cells
    <2>2. E = <<c>> \o R  BY DEF Eof
    <2> HIDE DEF c, d, E
    <2>3. R \in Seq(Cells) /\ Len(R) = HdrLen /\ \A k \in 1 .. HdrLen : R[k] = d
      BY <2>1, Repeated
    <2> HIDE DEF R
    <2>4. E \in Seq(Cells) /\ Len(E) = HdrLen + 1 /\ E[1] = c
          /\ \A k \in 2 .. HdrLen + 1 : E[k] = R[k - 1]
      BY <2>1, <2>2, <2>3
    <2>5. \A k \in 2 .. HdrLen + 1 : k - 1 \in 1 .. HdrLen  BY <2>1
    <2> QED BY <2>1, <2>3, <2>4, <2>5 DEF C
  <1>12. a = A \o E  BY DEF Archive, parts
  <1>13. Join(C, A, E, a)
    <2> HIDE DEF A, E, a
    <2> QED BY <1>10, <1>11, <1>12, Joined
  <1> DEFINE s == [i \in 1 .. n + 1 |-> Len(f[i - 1])]
  <1>14. \A i \in 1 .. n + 1 : i - 1 \in 0 .. n /\ f[i - 1] \in Seq(C)  BY <1>1, <1>9
  <1>15. s \in [1 .. n + 1 -> Nat]  BY <1>14
  <1>16. s[1] = 0
    <2>1. 1 \in 1 .. n + 1 /\ 1 - 1 = 0  BY <1>1
    <2> QED BY <2>1, <1>9
  <1> HIDE DEF A, E, a
  <1>17. /\ a \in Seq(C) /\ Len(a) = Len(A) + Len(E) /\ Len(A) \in Nat /\ Len(E) \in Nat
         /\ (\A k \in 1 .. Len(A) : a[k] = A[k])
         /\ (\A k \in 1 .. Len(E) : a[Len(A) + k] = E[k])
    BY <1>10, <1>11, <1>13 DEF Join
  <1>18. ASSUME NEW i \in 1 .. n
         PROVE  /\ s[i + 1] = s[i] + Len(Push(t[i]))
                /\ \A k \in 1 .. Len(Push(t[i])) :
                      s[i] + k \in 1 .. Len(a) /\ a[s[i] + k] = Push(t[i])[k]
    <2>1. i + 1 \in 1 .. n + 1 /\ i \in 1 .. n + 1 /\ (i + 1) - 1 = i  BY <1>1
    <2>2. s[i] = Len(f[i - 1]) /\ s[i + 1] = Len(f[i])  BY <2>1
    <2> DEFINE x == f[i - 1]
               y == parts[i]
               z == f[i]
    <2>3. x \in Seq(C) /\ y \in Seq(C) /\ z = x \o y  BY <1>5, <1>9, <1>14, <2>1
    <2>4. Len(z) = Len(x) + Len(y)
      <3> HIDE DEF x, y, z
      <3> QED BY <2>3
    <2>5. ASSUME NEW k \in 1 .. Len(Push(t[i]))
          PROVE  s[i] + k \in 1 .. Len(a) /\ a[s[i] + k] = Push(t[i])[k]
      <3>1. k \in 1 .. Len(parts[i])  BY <1>4
      <3>2. Len(f[i - 1]) + k \in 1 .. Len(f[n]) /\ f[n][Len(f[i - 1]) + k] = parts[i][k]
        BY <3>1, <1>8 DEF Apart
      <3>3. s[i] + k \in 1 .. Len(A) /\ A[s[i] + k] = parts[i][k]  BY <3>2, <2>2, <1>10
      <3> HIDE DEF s
      <3>4. s[i] + k \in 1 .. Len(a)  BY <3>3, <1>17
      <3> QED BY <3>3, <3>4, <1>4, <1>17
    <2> QED BY <1>4, <2>2, <2>4, <2>5
  <1>19. ASSUME NEW p \in 0 .. Len(a) - 1, a[p + 1][1] = "OMAR"
         PROVE  \E i \in 1 .. n : p = s[i]
    <2>1. p + 1 \in 1 .. Len(a)  BY <1>17
    <2>2. CASE p + 1 > Len(A)
      <3>1. (p + 1) - Len(A) \in 1 .. Len(E) /\ Len(A) + ((p + 1) - Len(A)) = p + 1
        BY <2>1, <2>2, <1>17
      <3>2. a[p + 1] = E[(p + 1) - Len(A)]  BY <3>1, <1>17
      <3> QED BY <3>1, <3>2, <1>11, <1>19
    <2>3. CASE p + 1 <= Len(A)
      <3>1. p + 1 \in 1 .. Len(A)  BY <2>1, <2>3, <1>17
      <3>2. PICK j \in 1 .. n : \E k \in 1 .. Len(parts[j]) : p + 1 = Len(f[j - 1]) + k
        BY <3>1, <1>8, <1>10 DEF Apart
      <3>3. PICK k \in 1 .. Len(parts[j]) : p + 1 = Len(f[j - 1]) + k  BY <3>2
      <3>4. j \in 1 .. n + 1 /\ s[j] = Len(f[j - 1]) /\ s[j] \in Nat  BY <1>1, <1>15
      <3>5. k \in 1 .. Len(Push(t[j]))  BY <1>4
      <3>6. a[s[j] + k] = Push(t[j])[k]  BY <3>5, <1>18
      <3> HIDE DEF s
      <3>7. k = 1
        <4> SUFFICES ASSUME k # 1 PROVE FALSE  OBVIOUS
        <4>1. k \in 2 .. Len(Push(t[j]))  BY <3>5
        <4>2. Push(t[j])[k][1] # "OMAR"  BY <4>1, <1>2 DEF OfEntry
        <4>3. p + 1 = s[j] + k  BY <3>3, <3>4
        <4> QED BY <4>2, <4>3, <3>6, <1>19
      <3>8. p = s[j]  BY <3>3, <3>4, <3>7
      <3> QED BY <3>8
    <2> QED BY <2>1, <2>2, <2>3, <1>17
  <1>20. Layout(t, a, s)
    <2> HIDE DEF s
    <2> QED BY <1>15, <1>16, <1>17, <1>18, <1>19 DEF Layout, n, C
  <1> HIDE DEF s
  <1> QED BY <1>20 DEF a

--------------------------------------------------------------------------------
(***************************************************************************)
(* The readers.                                                            *)
(***************************************************************************)
\* A header stands where an entry starts, and the next place lies further on
\* in the archive or at most a block behind it.
LEMMA Headers ==
    ASSUME NEW t, IsTree(t), NEW a, NEW s, Layout(t, a, s)
    PROVE  /\ \A i \in 1 .. Len(t) :
                  /\ s[i] \in Offsets(a) /\ HasHeader(a, s[i]) /\ HeaderAt(a, s[i]) = t[i]
                  /\ OfEntry(Push(t[i]), t[i]) /\ t[i] \in TreeEntry
           /\ \A p \in Offsets(a) : HasHeader(a, p) =>
                  /\ \E i \in 1 .. Len(t) : p = s[i]
                  /\ p + Skip(HeaderAt(a, p)) \in p + 1 .. Len(a) + BlockLen
  <1>1. Len(t) \in Nat /\ DOMAIN t = 1 .. Len(t)
        /\ \A i \in 1 .. Len(t) : t[i] \in TreeEntry
    BY DEF IsTree
  <1>2. ASSUME NEW i \in 1 .. Len(t) PROVE OfEntry(Push(t[i]), t[i])
    <2>1. t[i].dir => HdrLen + t[i].nameLen < BlockLen  BY <1>1 DEF IsTree
    <2> QED BY <1>1, <2>1, Pushed
  <1>3. Len(a) \in Nat /\ BlockLen \in Nat  BY OmarAssumption DEF Layout
  <1>4. ASSUME NEW i \in 1 .. Len(t)
        PROVE  /\ s[i] \in Nat /\ Len(Push(t[i])) \in Nat /\ Len(Push(t[i])) >= 1
               /\ s[i] + Len(Push(t[i])) <= Len(a)
               /\ a[s[i] + 1] = <<"OMAR", t[i]>>
    <2> DEFINE x == Push(t[i])
    <2>1. i \in 1 .. Len(t) + 1  BY <1>1
    <2>2. s[i] \in Nat  BY <2>1 DEF Layout
    <2>3. t[i].nameLen \in Nat /\ HdrLen \in Nat /\ HdrLen >= 1
      BY <1>1, OmarAssumption DEF TreeEntry
    <2>4. x \in Seq(Cells) /\ Len(x) >= HdrLen + t[i].nameLen /\ x[1] = <<"OMAR", t[i]>>
      BY <1>2 DEF OfEntry
    <2>5. \A k \in 1 .. Len(x) : s[i] + k \in 1 .. Len(a) /\ a[s[i] + k] = x[k]
      BY DEF Layout
    <2> HIDE DEF x
    <2>6. Len(x) \in Nat /\ Len(x) >= 1  BY <2>3, <2>4
    <2>7. Len(x) \in 1 .. Len(x) /\ 1 \in 1 .. Len(x)  BY <2>6
    <2>8. s[i] + Len(x) \in 1 .. Len(a) /\ a[s[i] + 1] = x[1]  BY <2>5, <2>7
    <2>9. s[i] + Len(x) <= Len(a)  BY <2>8, <2>2, <2>6, <1>3
    <2> QED BY <2>2, <2>4, <2>6, <2>8, <2>9 DEF x
  <1>5. ASSUME NEW i \in 1 .. Len(t)
        PROVE  s[i] \in Offsets(a) /\ HasHeader(a, s[i]) /\ HeaderAt(a, s[i]) = t[i]
    <2>1. s[i] < Len(a)  BY <1>4, <1>3
    <2>2. s[i] \in Offsets(a)  BY <2>1, <1>3, <1>4 DEF Offsets
    <2>3. a[s[i] + 1][1] = "OMAR" /\ a[s[i] + 1][2] = t[i]  BY <1>4
    <2> QED BY <2>1, <2>2, <2>3 DEF HasHeader, HeaderAt
  <1>6. ASSUME NEW p \in Offsets(a), HasHeader(a, p)
        PROVE  /\ \E i \in 1 .. Len(t) : p = s[i]
               /\ p + Skip(HeaderAt(a, p)) \in p + 1 .. Len(a) + BlockLen
    <2>1. p \in 0 .. Len(a) - 1 /\ a[p + 1][1] = "OMAR"
      BY <1>3, <1>6 DEF HasHeader, Offsets
    <2>2. PICK i \in 1 .. Len(t) : p = s[i]  BY <2>1 DEF Layout
    <2>3. Skip(t[i]) \in 1 .. Len(Push(t[i])) + BlockLen  BY <1>2 DEF OfEntry
    <2>4. HeaderAt(a, p) = t[i]  BY <2>2, <1>5
    <2> QED BY <2>2, <2>3, <2>4, <1>3, <1>4, SMTT(60)
  <1> QED BY <1>1, <1>2, <1>5, <1>6

\* archive_extract visits what follows a place after the header there.
VisitsFrom(a, v) ==
    /\ Visited(a) = v[0]
    /\ \A p \in Offsets(a) :
          v[p] = IF HasHeader(a, p) THEN {p} \union v[p + Skip(HeaderAt(a, p))] ELSE {}

LEMMA VisitedByStep ==
    ASSUME NEW t, IsTree(t), NEW a, NEW s, Layout(t, a, s)
    PROVE  \E v : VisitsFrom(a, v)
  <1> DEFINE O == Offsets(a)
             X == SUBSET O
             n == Len(a) + BlockLen
             Is(v) == v = [p \in O |-> IF HasHeader(a, p)
                                       THEN {p} \union v[p + Skip(HeaderAt(a, p))] ELSE {}]
             stop == {p \in O : ~HasHeader(a, p)}
             base == [p \in O |-> {}]
             next == [p \in O |-> p + Skip(HeaderAt(a, p))]
             g == [p \in O |-> [x \in X |-> {p} \union x]]
  <1>1. n \in Nat /\ O = 0 .. n  BY OmarAssumption DEF Layout, Offsets
  <1>2. \A p \in O : HasHeader(a, p) => p + Skip(HeaderAt(a, p)) \in p + 1 .. n
    BY Headers
  <1>3. \A p \in O : p \notin stop => next[p] \in p + 1 .. n  BY <1>2
  <1>4. base \in [O -> X]  OBVIOUS
  <1>5. g \in [O -> [X -> X]]  OBVIOUS
  <1> HIDE DEF n, O
  <1>6. PICK f : Jump(n, 0, X, stop, base, next, g, f)
    <2> HIDE DEF X, stop, base, next, g
    <2>1. base \in [0 .. n -> X] /\ g \in [0 .. n -> [X -> X]]
          /\ \A p \in 0 .. n : p \notin stop => next[p] \in p + 1 .. n
      BY <1>1, <1>3, <1>4, <1>5
    <2> QED BY <1>1, <2>1, Jumps
  <1>7. f \in [O -> X] /\ \A p \in O : f[p] = IF p \in stop THEN base[p] ELSE g[p][f[next[p]]]
    BY <1>1, <1>6 DEF Jump
  <1>8. ASSUME NEW p \in O
        PROVE  f[p] = IF HasHeader(a, p) THEN {p} \union f[p + Skip(HeaderAt(a, p))] ELSE {}
    <2>1. CASE HasHeader(a, p)
      <3>1. p \notin stop  BY <2>1
      <3>2. next[p] = p + Skip(HeaderAt(a, p))  OBVIOUS
      <3>3. next[p] \in 0 .. n
        <4>1. next[p] \in p + 1 .. n  BY <3>1, <1>3
        <4>2. p \in 0 .. n  BY <1>1
        <4> HIDE DEF next
        <4> QED BY <4>1, <4>2, <1>1
      <3>4. f[next[p]] \in X  BY <3>3, <1>1, <1>7
      <3>5. f[p] = g[p][f[next[p]]]  BY <3>1, <1>7
      <3> HIDE DEF next, X
      <3>6. g[p][f[next[p]]] = {p} \union f[next[p]]  BY <3>4
      <3> QED BY <2>1, <3>2, <3>5, <3>6
    <2>2. CASE ~HasHeader(a, p)
      <3>1. p \in stop  BY <2>2
      <3>2. f[p] = base[p]  BY <3>1, <1>7
      <3> QED BY <2>2, <3>2
    <2> QED BY <2>1, <2>2
  <1>9. Is(f)
    <2>1. f = [p \in O |-> f[p]]  BY <1>7
    <2> HIDE DEF X
    <2> QED BY <1>8, <2>1
  <1> DEFINE v == CHOOSE w : Is(w)
  <1>10. Is(v)
    <2> HIDE DEF Is
    <2> QED BY <1>9
  <1>11. Visited(a) = v[0]  BY DEF Visited, O
  <1> HIDE DEF v
  <1>12. \A p \in O : v[p] = IF HasHeader(a, p)
                             THEN {p} \union v[p + Skip(HeaderAt(a, p))] ELSE {}
    BY <1>10
  <1> QED BY <1>11, <1>12 DEF VisitsFrom, O

\* bootPackGetFile goes on after a header with another path.
FindsFrom(a, path, v) ==
    /\ GetFile(a, path) = v[0]
    /\ \A p \in Offsets(a) :
          v[p] = CASE ~HasHeader(a, p) -> NoData
                   [] HasHeader(a, p) /\ HeaderAt(a, p).path = path -> DataAt(a, p)
                   [] OTHER -> v[p + Skip(HeaderAt(a, p))]

LEMMA FoundByStep ==
    ASSUME NEW t, IsTree(t), NEW a, NEW s, Layout(t, a, s), NEW path
    PROVE  \E v : FindsFrom(a, path, v)
  <1> DEFINE O == Offsets(a)
             n == Len(a) + BlockLen
             Is(v) == v = [p \in O |->
                            CASE ~HasHeader(a, p) -> NoData
                              [] HasHeader(a, p) /\ HeaderAt(a, p).path = path -> DataAt(a, p)
                              [] OTHER -> v[p + Skip(HeaderAt(a, p))]]
             Hit(p) == HasHeader(a, p) /\ HeaderAt(a, p).path = path
             val(p) == IF Hit(p) THEN DataAt(a, p) ELSE NoData
             X == {val(p) : p \in O}
             stop == {p \in O : ~HasHeader(a, p) \/ Hit(p)}
             base == [p \in O |-> val(p)]
             next == [p \in O |-> p + Skip(HeaderAt(a, p))]
             g == [p \in O |-> [x \in X |-> x]]
  <1>1. n \in Nat /\ O = 0 .. n  BY OmarAssumption DEF Layout, Offsets
  <1>2. \A p \in O : HasHeader(a, p) => p + Skip(HeaderAt(a, p)) \in p + 1 .. n
    BY Headers
  <1>3. \A p \in O : p \notin stop => next[p] \in p + 1 .. n  BY <1>2
  <1> HIDE DEF val
  <1>4. base \in [O -> X]  OBVIOUS
  <1>5. g \in [O -> [X -> X]]  OBVIOUS
  <1> HIDE DEF n, O
  <1>6. PICK f : Jump(n, 0, X, stop, base, next, g, f)
    <2> HIDE DEF X, stop, base, next, g
    <2>1. base \in [0 .. n -> X] /\ g \in [0 .. n -> [X -> X]]
          /\ \A p \in 0 .. n : p \notin stop => next[p] \in p + 1 .. n
      BY <1>1, <1>3, <1>4, <1>5
    <2> QED BY <1>1, <2>1, Jumps
  <1>7. f \in [O -> X] /\ \A p \in O : f[p] = IF p \in stop THEN base[p] ELSE g[p][f[next[p]]]
    BY <1>1, <1>6 DEF Jump
  <1>8. ASSUME NEW p \in O
        PROVE  f[p] = CASE ~HasHeader(a, p) -> NoData
                        [] HasHeader(a, p) /\ HeaderAt(a, p).path = path -> DataAt(a, p)
                        [] OTHER -> f[p + Skip(HeaderAt(a, p))]
    <2>1. CASE HasHeader(a, p) /\ ~Hit(p)
      <3>1. p \notin stop  BY <2>1
      <3>2. next[p] = p + Skip(HeaderAt(a, p))  OBVIOUS
      <3>3. next[p] \in 0 .. n
        <4>1. next[p] \in p + 1 .. n  BY <3>1, <1>3
        <4>2. p \in 0 .. n  BY <1>1
        <4> HIDE DEF next
        <4> QED BY <4>1, <4>2, <1>1
      <3>4. f[next[p]] \in X  BY <3>3, <1>1, <1>7
      <3>5. f[p] = g[p][f[next[p]]]  BY <3>1, <1>7
      <3>6. HeaderAt(a, p).path # path  BY <2>1
      <3> HIDE DEF next, X
      <3>7. g[p][f[next[p]]] = f[next[p]]  BY <3>4
      <3> QED BY <2>1, <3>2, <3>5, <3>6, <3>7
    <2>2. CASE ~HasHeader(a, p)
      <3>1. p \in stop /\ ~Hit(p)  BY <2>2
      <3>2. f[p] = base[p]  BY <3>1, <1>7
      <3>3. base[p] = NoData  BY <3>1 DEF val
      <3> QED BY <2>2, <3>2, <3>3
    <2>3. CASE Hit(p)
      <3>1. p \in stop  BY <2>3
      <3>2. f[p] = base[p]  BY <3>1, <1>7
      <3>3. base[p] = DataAt(a, p)  BY <2>3 DEF val
      <3> QED BY <2>3, <3>2, <3>3
    <2> QED BY <2>1, <2>2, <2>3
  <1>9. Is(f)
    <2>1. f = [p \in O |-> f[p]]  BY <1>7
    <2> HIDE DEF X
    <2> QED BY <1>8, <2>1
  <1> DEFINE v == CHOOSE w : Is(w)
  <1>10. Is(v)
    <2> HIDE DEF Is
    <2> QED BY <1>9
  <1>11. GetFile(a, path) = v[0]  BY DEF GetFile, O
  <1> HIDE DEF v
  <1>12. \A p \in O : v[p] = CASE ~HasHeader(a, p) -> NoData
                               [] HasHeader(a, p) /\ HeaderAt(a, p).path = path -> DataAt(a, p)
                               [] OTHER -> v[p + Skip(HeaderAt(a, p))]
    BY <1>10
  <1> QED BY <1>11, <1>12 DEF FindsFrom, O

\* No entry before i is an empty file: the reader gets from one to the next.
Reached(t, i) == \A j \in 1 .. i - 1 : ~EmptyFile(t[j])

LEMMA NextEntry ==
    ASSUME NEW t, IsTree(t), NEW a, NEW s, Layout(t, a, s),
           NEW i \in 1 .. Len(t), ~EmptyFile(t[i])
    PROVE  s[i + 1] = s[i] + Skip(HeaderAt(a, s[i]))
  <1>1. s[i + 1] = s[i] + Len(Push(t[i]))  BY DEF Layout
  <1>2. HeaderAt(a, s[i]) = t[i] /\ OfEntry(Push(t[i]), t[i])  BY Headers
  <1>3. Len(Push(t[i])) = Skip(t[i])  BY <1>2 DEF OfEntry
  <1> QED BY <1>1, <1>2, <1>3

\* archive_extract visits each such entry.
LEMMA VisitsReached ==
    ASSUME NEW t, IsTree(t), NEW a, NEW s, Layout(t, a, s),
           NEW i \in 1 .. Len(t), Reached(t, i)
    PROVE  s[i] \in Visited(a)
  <1>1. PICK v : VisitsFrom(a, v)  BY VisitedByStep
  <1>2. Visited(a) = v[0]
        /\ \A p \in Offsets(a) :
              v[p] = IF HasHeader(a, p) THEN {p} \union v[p + Skip(HeaderAt(a, p))] ELSE {}
    BY <1>1 DEF VisitsFrom
  <1>3. \A j \in 1 .. Len(t) :
           s[j] \in Offsets(a) /\ HasHeader(a, s[j]) /\ HeaderAt(a, s[j]) = t[j]
    BY Headers
  <1>4. Len(t) \in Nat /\ s[1] = 0  BY DEF IsTree, Layout
  <1> DEFINE S == {k \in 0 .. i - 1 : v[s[k + 1]] \subseteq v[0]}
  <1>5. 0 \in S
    <2>1. 0 \in 0 .. i - 1 /\ s[0 + 1] = 0  BY <1>4
    <2> QED BY <2>1
  <1>6. ASSUME NEW l \in 0 .. (i - 1) - 1, l \in S PROVE l + 1 \in S
    <2> DEFINE j == l + 1
    <2>1. j \in 1 .. i - 1 /\ j \in 1 .. Len(t) /\ j \in 0 .. i - 1  BY <1>4
    <2>2. v[s[j]] \subseteq v[0]  BY <1>6
    <2> HIDE DEF j
    <2>3. ~EmptyFile(t[j])  BY <2>1 DEF Reached
    <2>4. s[j + 1] = s[j] + Skip(HeaderAt(a, s[j]))  BY <2>1, <2>3, NextEntry
    <2>5. v[s[j]] = {s[j]} \union v[s[j + 1]]  BY <2>1, <2>4, <1>2, <1>3
    <2>6. v[s[j + 1]] \subseteq v[0]  BY <2>2, <2>5
    <2>7. j \in S  BY <2>1, <2>6
    <2> QED BY <2>7 DEF j
  <1>7. i - 1 \in Nat /\ i - 1 \in 0 .. i - 1 /\ (i - 1) + 1 = i  BY <1>4
  <1>8. 0 .. i - 1 \subseteq S
    <2> HIDE DEF S
    <2> QED BY <1>5, <1>6, <1>7, Rising
  <1>9. v[s[i]] \subseteq v[0]
    <2>1. i - 1 \in S  BY <1>7, <1>8
    <2> QED BY <2>1, <1>7
  <1>10. v[s[i]] = {s[i]} \union v[s[i] + Skip(HeaderAt(a, s[i]))]  BY <1>2, <1>3
  <1> QED BY <1>2, <1>9, <1>10

\* bootPackGetFile finds each such entry by its path.
LEMMA FindsReached ==
    ASSUME NEW t, IsTree(t), NEW a, NEW s, Layout(t, a, s),
           NEW i \in 1 .. Len(t), Reached(t, i)
    PROVE  GetFile(a, t[i].path) = s[i] + HdrLen + t[i].nameLen
  <1> DEFINE path == t[i].path
  <1>1. PICK v : FindsFrom(a, path, v)
    <2> HIDE DEF path
    <2> QED BY FoundByStep
  <1>2. GetFile(a, path) = v[0]
        /\ \A p \in Offsets(a) :
              v[p] = CASE ~HasHeader(a, p) -> NoData
                       [] HasHeader(a, p) /\ HeaderAt(a, p).path = path -> DataAt(a, p)
                       [] OTHER -> v[p + Skip(HeaderAt(a, p))]
    BY <1>1 DEF FindsFrom
  <1>3. \A j \in 1 .. Len(t) :
           s[j] \in Offsets(a) /\ HasHeader(a, s[j]) /\ HeaderAt(a, s[j]) = t[j]
    BY Headers
  <1>4. Len(t) \in Nat /\ s[1] = 0 /\ DOMAIN t = 1 .. Len(t)
        /\ \A j \in 1 .. Len(t) : t[j].path = path => i = j
    BY SMTT(60) DEF IsTree, Layout
  <1> HIDE DEF path
  <1> DEFINE S == {k \in 0 .. i - 1 : v[s[k + 1]] = v[0]}
  <1>5. 0 \in S
    <2>1. 0 \in 0 .. i - 1 /\ s[0 + 1] = 0  BY <1>4
    <2> QED BY <2>1
  <1>6. ASSUME NEW l \in 0 .. (i - 1) - 1, l \in S PROVE l + 1 \in S
    <2> DEFINE j == l + 1
    <2>1. j \in 1 .. i - 1 /\ j \in 1 .. Len(t) /\ j \in 0 .. i - 1 /\ j # i  BY <1>4
    <2>2. v[s[j]] = v[0]  BY <1>6
    <2> HIDE DEF j
    <2>3. ~EmptyFile(t[j])  BY <2>1 DEF Reached
    <2>4. s[j + 1] = s[j] + Skip(HeaderAt(a, s[j]))  BY <2>1, <2>3, NextEntry
    <2>5. HeaderAt(a, s[j]).path # path  BY <2>1, <1>3, <1>4
    <2>6. v[s[j]] = v[s[j] + Skip(HeaderAt(a, s[j]))]  BY <2>1, <2>5, <1>2, <1>3
    <2>7. v[s[j + 1]] = v[0]  BY <2>2, <2>4, <2>6
    <2>8. j \in S  BY <2>1, <2>7
    <2> QED BY <2>8 DEF j
  <1>7. i - 1 \in Nat /\ i - 1 \in 0 .. i - 1 /\ (i - 1) + 1 = i  BY <1>4
  <1>8. 0 .. i - 1 \subseteq S
    <2> HIDE DEF S
    <2> QED BY <1>5, <1>6, <1>7, Rising
  <1>9. v[s[i]] = v[0]
    <2>1. i - 1 \in S  BY <1>7, <1>8
    <2> QED BY <2>1, <1>7
  <1>10. HeaderAt(a, s[i]).path = path  BY <1>3 DEF path
  <1>11. v[s[i]] = DataAt(a, s[i])  BY <1>2, <1>3, <1>10
  <1>12. DataAt(a, s[i]) = s[i] + HdrLen + t[i].nameLen  BY <1>3 DEF DataAt
  <1> QED BY <1>2, <1>9, <1>11, <1>12 DEF path

\* It finds nothing for a path that no entry has, whatever stops it.
LEMMA FindsNoOther ==
    ASSUME NEW t, IsTree(t), NEW path, \A i \in 1 .. Len(t) : t[i].path # path
    PROVE  GetFile(Archive(t), path) = NoData
  <1> DEFINE a == Archive(t)
             O == Offsets(a)
             n == Len(a) + BlockLen
  <1>1. PICK s : Layout(t, a, s)  BY LaidOut
  <1> HIDE DEF a
  <1>2. PICK v : FindsFrom(a, path, v)  BY <1>1, FoundByStep
  <1>3. GetFile(a, path) = v[0]
        /\ \A p \in O :
              v[p] = CASE ~HasHeader(a, p) -> NoData
                       [] HasHeader(a, p) /\ HeaderAt(a, p).path = path -> DataAt(a, p)
                       [] OTHER -> v[p + Skip(HeaderAt(a, p))]
    BY <1>2 DEF FindsFrom
  <1>4. \A p \in O : HasHeader(a, p) =>
            /\ HeaderAt(a, p).path # path
            /\ p + Skip(HeaderAt(a, p)) \in p + 1 .. n
    <2>1. \A i \in 1 .. Len(t) : HeaderAt(a, s[i]) = t[i]  BY <1>1, Headers
    <2>2. \A p \in O : HasHeader(a, p) =>
             /\ \E i \in 1 .. Len(t) : p = s[i]
             /\ p + Skip(HeaderAt(a, p)) \in p + 1 .. n
      BY <1>1, Headers
    <2> HIDE DEF O, n
    <2> QED BY <2>1, <2>2
  <1>5. n \in Nat /\ O = 0 .. n  BY <1>1, OmarAssumption DEF Layout, Offsets
  <1> HIDE DEF n, O
  <1> DEFINE T == {k \in 0 .. n : \A p \in k .. n : v[p] = NoData}
  <1>6. n \in T
    <2>1. n \in O /\ n \in 0 .. n /\ \A p \in n .. n : p = n  BY <1>5
    <2>2. ~HasHeader(a, n)
      <3> SUFFICES ASSUME HasHeader(a, n) PROVE FALSE  OBVIOUS
      <3>1. n + Skip(HeaderAt(a, n)) \in n + 1 .. n  BY <1>4, <2>1
      <3> QED BY <3>1, <1>5
    <2> QED BY <2>1, <2>2, <1>3
  <1>7. ASSUME NEW l \in 0 .. n - 1, l + 1 \in T PROVE l \in T
    <2>1. l \in O /\ l \in 0 .. n  BY <1>5
    <2>2. \A p \in l + 1 .. n : v[p] = NoData  BY <1>7
    <2>3. v[l] = NoData
      <3>1. CASE HasHeader(a, l)
        <4>1. HeaderAt(a, l).path # path /\ l + Skip(HeaderAt(a, l)) \in l + 1 .. n
          BY <3>1, <2>1, <1>4
        <4>2. v[l] = v[l + Skip(HeaderAt(a, l))]  BY <3>1, <4>1, <2>1, <1>3
        <4> QED BY <4>1, <4>2, <2>2
      <3>2. CASE ~HasHeader(a, l)  BY <3>2, <2>1, <1>3
      <3> QED BY <3>1, <3>2
    <2>4. \A p \in l .. n : p = l \/ p \in l + 1 .. n  BY <1>5
    <2> QED BY <2>1, <2>2, <2>3, <2>4
  <1>8. 0 .. n \subseteq T
    <2> HIDE DEF T
    <2> QED BY <1>5, <1>6, <1>7, Down
  <1>9. v[0] = NoData
    <2>1. 0 \in T /\ 0 \in 0 .. n  BY <1>5, <1>8
    <2> QED BY <2>1
  <1> QED BY <1>3, <1>9 DEF a

LEMMA Slice ==
    ASSUME NEW C, NEW a \in Seq(C), NEW p \in Nat, NEW len \in Nat,
           \A k \in 1 .. len : p + k \in 1 .. Len(a)
    PROVE  SubSeq(a, p + 1, p + len) = [k \in 1 .. len |-> a[p + k]]
  <1> DEFINE m == p + 1
             n == p + len
             b == SubSeq(a, m, n)
  <1>1. m \in Int /\ n \in Int /\ n - m + 1 = len /\ (m <= n <=> len >= 1)  OBVIOUS
  <1>2. ASSUME NEW i \in m .. n PROVE a[i] \in C
    <2>1. i - p \in 1 .. len /\ p + (i - p) = i  OBVIOUS
    <2> QED BY <2>1
  <1>3. \A i \in 1 .. len : m + i - 1 = p + i  OBVIOUS
  <1> HIDE DEF m, n
  <1>4. b \in Seq(C) /\ Len(b) = (IF m <= n THEN n - m + 1 ELSE 0)
        /\ \A i \in 1 .. n - m + 1 : b[i] = a[m + i - 1]
    BY <1>1, <1>2, SubSeqProperties
  <1> HIDE DEF b
  <1>5. b \in Seq(C) /\ Len(b) = len /\ \A i \in 1 .. len : b[i] = a[p + i]
    <2>1. Len(b) = len  BY <1>1, <1>4
    <2>2. \A i \in 1 .. len : b[i] = a[m + i - 1]  BY <1>1, <1>4
    <2> QED BY <2>1, <2>2, <1>3, <1>4
  <1>6. b = [k \in 1 .. len |-> b[k]]  BY <1>5
  <1> QED BY <1>5, <1>6 DEF b, m, n

\* What lies behind the header of a file is the file.
LEMMA FileContent ==
    ASSUME NEW t, IsTree(t), NEW a, NEW s, Layout(t, a, s),
           NEW i \in 1 .. Len(t), ~t[i].dir, ~EmptyFile(t[i]),
           NEW p, p = s[i] + HdrLen + t[i].nameLen
    PROVE  SubSeq(a, p + 1, p + t[i].len) = Data(t[i])
  <1> DEFINE e == t[i]
             x == Push(e)
             h == HdrLen + e.nameLen
             C == Cells
  <1>1. OfEntry(x, e) /\ e \in TreeEntry  BY Headers
  <1>2. e.nameLen \in Nat /\ e.len \in Nat /\ e.dir \in BOOLEAN /\ HdrLen \in Nat /\ BlockLen \in Nat
        /\ BlockLen > 0
    BY <1>1, OmarAssumption DEF TreeEntry
  <1>3. s[i] \in Nat /\ a \in Seq(C)
    <2>1. i \in 1 .. Len(t) + 1  BY DEF IsTree
    <2> QED BY <2>1 DEF Layout
  <1>4. \A k \in 1 .. Len(x) : s[i] + k \in 1 .. Len(a) /\ a[s[i] + k] = x[k]
    BY DEF Layout
  <1>5. x \in Seq(C) /\ Len(x) = Skip(e) /\ \A k \in 1 .. e.len : x[h + k] = <<"data", e.path, k>>
    BY <1>1 DEF OfEntry
  <1>6. Len(x) \in Nat /\ Len(x) >= h + e.len
    <2>1. h + e.len \in Nat /\ Skip(e) = AlignUp(h + e.len)  BY <1>2, SMTT(60) DEF Skip
    <2> DEFINE y == h + e.len
    <2> HIDE DEF y
    <2>2. AlignUp(y) = y + ((-y) % BlockLen) /\ (-y) % BlockLen \in 0 .. BlockLen - 1
      BY <2>1, Rounding DEF y
    <2> DEFINE m == (-y) % BlockLen
    <2> HIDE DEF m, x, e
    <2>3. AlignUp(y) = y + m /\ m \in 0 .. BlockLen - 1  BY <2>2 DEF m
    <2> QED BY <2>1, <2>3, <1>2, <1>5 DEF y
  <1> HIDE DEF x, e, C
  <1>7. ASSUME NEW k \in 1 .. e.len
        PROVE  p + k \in 1 .. Len(a) /\ a[p + k] = <<"data", e.path, k>>
    <2>1. h + k \in 1 .. Len(x)  BY <1>2, <1>6, SMTT(60)
    <2>2. s[i] + (h + k) = p + k  BY <1>2, <1>3, SMTT(60) DEF e
    <2>3. x[h + k] = <<"data", e.path, k>>  BY <1>5
    <2> HIDE DEF h
    <2> QED BY <2>1, <2>2, <2>3, <1>4
  <1>8. p \in Nat  BY <1>2, <1>3, SMTT(60) DEF e
  <1>9. SubSeq(a, p + 1, p + e.len) = [k \in 1 .. e.len |-> a[p + k]]
    <2>1. \A k \in 1 .. e.len : p + k \in 1 .. Len(a)  BY <1>7
    <2> DEFINE len == e.len
    <2>2. len \in Nat  BY <1>2
    <2> HIDE DEF len
    <2>3. SubSeq(a, p + 1, p + len) = [k \in 1 .. len |-> a[p + k]]
      BY <1>3, <1>8, <2>1, <2>2, Slice, SMTT(60) DEF len
    <2> QED BY <2>3 DEF len
  <1>10. [k \in 1 .. e.len |-> a[p + k]] = [k \in 1 .. e.len |-> <<"data", e.path, k>>]
    BY <1>7
  <1> QED BY <1>9, <1>10 DEF Data, e

(***************************************************************************)
(* The readers against the writer, for a file that no empty file precedes: *)
(* bootPackGetFile (bootPack.c) returns where its data is, all of it, and  *)
(* archive_extract (omar.c) restores it.                                   *)
(***************************************************************************)
ReadBack(t, i) ==
    LET a == Archive(t)
        p == GetFile(a, t[i].path)
    IN  /\ SubSeq(a, p + 1, p + t[i].len) = Data(t[i])
        /\ [path |-> t[i].path, data |-> Data(t[i])] \in Extract(a)

THEOREM FilesReadBack ==
    ASSUME NEW t, IsTree(t), NEW i \in DOMAIN t, ~t[i].dir,
           \A j \in 1 .. i : ~EmptyFile(t[j])
    PROVE  ReadBack(t, i)
  <1> DEFINE a == Archive(t)
  <1>1. PICK s : Layout(t, a, s)  BY LaidOut
  <1> HIDE DEF a
  <1>2. i \in 1 .. Len(t) /\ i \in 1 .. i /\ Reached(t, i)  BY DEF IsTree, Reached
  <1>3. ~EmptyFile(t[i])  BY <1>2
  <1> DEFINE p == s[i] + HdrLen + t[i].nameLen
  <1>4. GetFile(a, t[i].path) = p  BY <1>1, <1>2, FindsReached
  <1>5. s[i] \in Visited(a)  BY <1>1, <1>2, VisitsReached
  <1>6. SubSeq(a, p + 1, p + t[i].len) = Data(t[i])
    <2> HIDE DEF p
    <2>1. p = s[i] + HdrLen + t[i].nameLen  BY DEF p
    <2> QED BY <1>1, <1>2, <1>3, <2>1, FileContent
  <1>7. HeaderAt(a, s[i]) = t[i]  BY <1>1, <1>2, Headers
  <1>8. [path |-> t[i].path, data |-> Data(t[i])] \in Extract(a)
    <2>1. DataAt(a, s[i]) = p  BY <1>7 DEF DataAt
    <2> HIDE DEF p
    <2>2. s[i] \in {q \in Visited(a) : ~HeaderAt(a, q).dir}  BY <1>5, <1>7
    <2>3. [path |-> HeaderAt(a, s[i]).path,
           data |-> SubSeq(a, DataAt(a, s[i]) + 1, DataAt(a, s[i]) + HeaderAt(a, s[i]).len)]
            = [path |-> t[i].path, data |-> Data(t[i])]
      BY <1>6, <1>7, <2>1
    <2> QED BY <2>2, <2>3 DEF Extract
  <1> HIDE DEF p
  <1> QED BY <1>4, <1>6, <1>8 DEF ReadBack, a
===============================================================================
