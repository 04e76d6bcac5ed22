--------------------------- MODULE SequenceLemmas ---------------------------
(***************************************************************************)
(* Lemmas about numbers, recursion and sequences that the proofs of the    *)
(* scan and of the drain share.  The predicates Joined, Alike, IsInARow    *)
(* and IsAround name equations and lists of facts that the lemmas are      *)
(* about, so that a proof can cite one without expanding it.               *)
(***************************************************************************)
EXTENDS Integers, Sequences, FiniteSetsExt, FiniteSetTheorems, SequenceTheorems, TLAPS


-----------------------------------------------------------------------------
(* Induction and recursion over the numbers up to N.                       *)

\* A set of numbers that is not empty has a least one.
LEMMA Least ==
  ASSUME NEW T \in SUBSET Nat, T # {}
  PROVE  \E x \in T : \A y \in T : x <= y
<1> DEFINE R == OpToRel(<, Nat)
<1>1. PICK x \in T : \A y \in T : ~ (<<y, x>> \in R)
  BY WFMin, NatLessThanWellFounded
<1>2. \A y \in T : ~ (y < x)
  <2> SUFFICES ASSUME NEW y \in T, y < x PROVE FALSE
    OBVIOUS
  <2>1. <<y, x>> \in R
    BY DEF OpToRel
  <2> QED BY <1>1, <2>1, Zenon
<1>3. \A y \in T : x <= y
  BY <1>2
<1> QED BY <1>3

\* Induction up to N, on a set of numbers.
LEMMA Upto ==
  ASSUME NEW N \in Nat, NEW T, 0 \in T, \A n \in 1 .. N : n - 1 \in T => n \in T
  PROVE  \A n \in 0 .. N : n \in T
<1> DEFINE Bad == (0 .. N) \ T
<1> SUFFICES ASSUME Bad # {} PROVE FALSE
  OBVIOUS
<1>1. Bad \in SUBSET Nat
  OBVIOUS
<1>2. PICK x \in Bad : \A y \in Bad : x <= y
  <2> HIDE DEF Bad
  <2> QED BY <1>1, Least
<1>3. x \in 1 .. N /\ x \notin T
  BY <1>2
<1>4. x - 1 \in 0 .. N /\ ~ (x <= x - 1)
  BY <1>3
<1>5. x - 1 \in T
  BY <1>2, <1>4, Zenon
<1> QED BY <1>3, <1>5, Zenon

\* Values 0 to N, each of which is computed from the one before.
Computable(N, S, first, G) ==
  \E f \in [0 .. N -> S] : f[0] = first /\ \A n \in 1 .. N : f[n] = G[n][f[n - 1]]

\* A function given by its first value and a step exists.
LEMMA Recursion ==
  ASSUME NEW N \in Nat, NEW S, NEW first \in S, NEW G \in [1 .. N -> [S -> S]]
  PROVE  Computable(N, S, first, G)
<1> DEFINE Fits(f, m) == f[0] = first /\ \A n \in 1 .. m : f[n] = G[n][f[n - 1]]
           Bad == {m \in 0 .. N : ~ \E f \in [0 .. m -> S] : Fits(f, m)}
<1>1. CASE Bad = {}
  <2>1. N \in 0 .. N
    OBVIOUS
  <2>2. \E f \in [0 .. N -> S] : Fits(f, N)
    BY <1>1, <2>1, Zenon
  <2> QED BY <2>2, Zenon DEF Computable
<1>2. CASE Bad # {}
  <2>1. Bad \in SUBSET Nat
    OBVIOUS
  <2>2. PICK x \in Bad : \A y \in Bad : x <= y
    <3> HIDE DEF Bad
    <3> QED BY <1>2, <2>1, Least
  <2>3. x \in 0 .. N /\ ~ \E f \in [0 .. x -> S] : Fits(f, x)
    OBVIOUS
  <2>4. CASE x = 0
    <3> DEFINE f == [k \in 0 .. 0 |-> first]
    <3>1. f \in [0 .. x -> S] /\ Fits(f, x)
      BY <2>4
    <3> QED BY <2>3, <3>1, Zenon
  <2>5. CASE x # 0
    <3>1. x - 1 \in 0 .. N /\ x \in 1 .. N /\ ~ (x <= x - 1)
      BY <2>3, <2>5
    <3>2. x - 1 \notin Bad
      BY <2>2, <3>1, Zenon
    <3>3. PICK g \in [0 .. x - 1 -> S] : Fits(g, x - 1)
      BY <3>1, <3>2, Zenon
    <3> DEFINE f == [k \in 0 .. x |-> IF k = x THEN G[x][g[x - 1]] ELSE g[k]]
    <3>4. G[x][g[x - 1]] \in S
      BY <3>1
    <3>5. f \in [0 .. x -> S]
      BY <3>1, <3>4
    <3>6. f[0] = first
      BY <3>1, <3>3
    <3>7. ASSUME NEW n \in 1 .. x PROVE f[n] = G[n][f[n - 1]]
      <4>1. CASE n = x
        BY <3>1, <4>1
      <4>2. CASE n # x
        <5>1. n \in 1 .. x - 1 /\ n - 1 # x /\ n - 1 \in 0 .. x /\ n \in 0 .. x
          BY <3>1, <4>2
        <5>2. g[n] = G[n][g[n - 1]]
          BY <3>3, <5>1, Zenon
        <5> QED BY <4>2, <5>1, <5>2, Zenon
      <4> QED BY <4>1, <4>2
    <3> QED BY <2>3, <3>5, <3>6, <3>7, Zenon
  <2> QED BY <2>4, <2>5
<1> QED BY <1>1, <1>2

-----------------------------------------------------------------------------
(* A value computed element by element, with a step G[b] for every b.      *)

Folding(bs, S, first, G, f) ==
  /\ \A n \in 0 .. Len(bs) : f[n] \in S
  /\ f[0] = first
  /\ \A n \in 1 .. Len(bs) : f[n] = G[bs[n]][f[n - 1]]

Folds(bs, S, first, G) ==
  \E f : f = [n \in 0 .. Len(bs) |-> f[n]] /\ Folding(bs, S, first, G, f)

\* The fold of a step over a sequence exists.
LEMMA FoldExists ==
  ASSUME NEW B, NEW bs \in Seq(B), NEW S, NEW first \in S, NEW G \in [B -> [S -> S]]
  PROVE  Folds(bs, S, first, G)
<1> DEFINE N == Len(bs)
           H == [n \in 1 .. N |-> G[bs[n]]]
<1>1. N \in Nat /\ \A n \in 1 .. N : bs[n] \in B
  OBVIOUS
<1>2. H \in [1 .. N -> [S -> S]]
  BY <1>1, Zenon
<1>3. PICK f \in [0 .. N -> S] : f[0] = first /\ \A n \in 1 .. N : f[n] = H[n][f[n - 1]]
  <2> HIDE DEF N, H
  <2>1. Computable(N, S, first, H)
    BY <1>1, <1>2, Recursion, Zenon
  <2> QED BY <2>1, Zenon DEF Computable
<1>4. f = [n \in 0 .. N |-> f[n]] /\ \A n \in 0 .. N : f[n] \in S
  BY Zenon
<1>5. \A n \in 1 .. N : f[n] = G[bs[n]][f[n - 1]]
  BY <1>3, Zenon
<1> QED BY <1>3, <1>4, <1>5, Zenon DEF Folds, Folding

\* A solution of the recursion equations has values of the right type.
LEMMA FoldTyped ==
  ASSUME NEW B, NEW bs \in Seq(B), NEW S, NEW first \in S, NEW G \in [B -> [S -> S]],
         NEW c, c[0] = first,
         \A n \in 1 .. Len(bs) : c[n - 1] \in S => c[n] = G[bs[n]][c[n - 1]]
  PROVE  Folding(bs, S, first, G, c)
<1> DEFINE N == Len(bs)
           T == {n \in 0 .. N : c[n] \in S}
<1>1. N \in Nat /\ 0 \in 0 .. N /\ \A n \in 1 .. N : bs[n] \in B /\ n \in 0 .. N /\ n - 1 \in 0 .. N
  OBVIOUS
<1>2. 0 \in T
  BY <1>1, Zenon
<1>3. ASSUME NEW n \in 1 .. N, n - 1 \in T PROVE n \in T
  <2>1. c[n] = G[bs[n]][c[n - 1]] /\ c[n - 1] \in S /\ bs[n] \in B /\ n \in 0 .. N
    BY <1>1, <1>3, Zenon
  <2>2. G[bs[n]][c[n - 1]] \in S
    BY <2>1, Zenon
  <2> QED BY <2>1, <2>2, Zenon
<1>4. \A n \in 0 .. N : n \in T
  <2> HIDE DEF N, T
  <2> QED BY <1>1, <1>2, <1>3, Upto, Zenon
<1>5. \A n \in 0 .. N : c[n] \in S
  BY <1>4, Zenon
<1>6. \A n \in 1 .. N : c[n] = G[bs[n]][c[n - 1]]
  BY <1>1, <1>5, Zenon
<1> QED BY <1>5, <1>6, Zenon DEF Folding

-----------------------------------------------------------------------------
(* The greatest and the least of some numbers.                             *)

\* A member that no other exceeds is the maximum.
LEMMA MaxIs ==
  ASSUME NEW S \in SUBSET Nat, NEW m \in S, \A y \in S : y <= m
  PROVE  Max(S) = m
<1>0. \A y \in S : m >= y
  OBVIOUS
<1>1. Max(S) \in S /\ \A y \in S : Max(S) >= y
  BY <1>0, Zenon DEF Max
<1>2. \A x \in S : x \in Nat
  OBVIOUS
<1>3. Max(S) \in Nat /\ m \in Nat /\ Max(S) <= m /\ Max(S) >= m
  BY <1>1, <1>2
<1> QED BY <1>3

\* A bounded set that is not empty has a maximum.
LEMMA MaxOf ==
  ASSUME NEW S \in SUBSET Nat, NEW b \in Nat, \A y \in S : y <= b, S # {}
  PROVE  Max(S) \in S /\ \A y \in S : y <= Max(S)
<1> DEFINE U == {n \in Nat : \A y \in S : y <= n}
<1>1. U \in SUBSET Nat /\ b \in U
  OBVIOUS
<1>2. PICK m \in U : \A u \in U : m <= u
  <2> HIDE DEF U
  <2> QED BY <1>1, Least
<1>3. m \in S
  <2> SUFFICES ASSUME m \notin S PROVE FALSE
    OBVIOUS
  <2>1. m # 0
    <3>1. PICK y \in S : TRUE
      OBVIOUS
    <3>2. y <= m /\ y # m /\ y \in Nat /\ m \in Nat
      OBVIOUS
    <3> QED BY <3>2
  <2>2. m - 1 \in U
    BY <2>1
  <2>3. ~ (m <= m - 1)
    BY <1>1
  <2> QED BY <1>2, <2>2, <2>3, Zenon
<1>4. Max(S) = m
  BY <1>3, MaxIs
<1> QED BY <1>3, <1>4

\* The minimum of two numbers.
LEMMA MinOfTwo ==
  ASSUME NEW a \in Int, NEW b \in Int
  PROVE  Min({a, b}) = IF a <= b THEN a ELSE b
<1> DEFINE m == IF a <= b THEN a ELSE b
           S == {a, b}
<1>1. m \in S /\ \A y \in S : m <= y
  OBVIOUS
<1>2. S \in SUBSET Int
  OBVIOUS
<1> HIDE DEF m, S
<1>3. Min(S) \in S /\ \A y \in S : Min(S) <= y
  BY <1>1, Zenon DEF Min
<1>4. Min(S) = m
  <2>1. Min(S) \in Int /\ m \in Int /\ Min(S) <= m /\ m <= Min(S)
    BY <1>1, <1>2, <1>3
  <2> QED BY <2>1
<1> QED BY <1>4 DEF m, S

-----------------------------------------------------------------------------
(* Sequences in a row, and parts of a sequence.                            *)

\* a and then b.
Joined(a, b) == a \o b

\* Joining is associative.
LEMMA JoinedTwice ==
  ASSUME NEW X, NEW a \in Seq(X), NEW b \in Seq(X), NEW c \in Seq(X)
  PROVE  Joined(Joined(a, b), c) = Joined(a, Joined(b, c))
BY DEF Joined

\* Two sequences with the same elements.
LEMMA SameSeq ==
  ASSUME NEW X, NEW s \in Seq(X), NEW u \in Seq(X), Len(s) = Len(u),
         \A k \in 1 .. Len(s) : s[k] = u[k]
  PROVE  s = u
BY SeqEqual

\* A function on 1 .. N is a sequence.
LEMMA TableSeq ==
  ASSUME NEW X, NEW N \in Nat, NEW f \in [1 .. N -> X]
  PROVE  f \in Seq(X) /\ Len(f) = N
OBVIOUS

IsInARow(X, a, b, w) ==
  /\ w \in Seq(X) /\ Len(w) = Len(a) + Len(b)
  /\ \A k \in 1 .. Len(a) : w[k] = a[k]
  /\ \A k \in 1 .. Len(b) : w[Len(a) + k] = b[k]

\* The elements of two sequences in a row.
LEMMA InARow ==
  ASSUME NEW X, NEW a \in Seq(X), NEW b \in Seq(X)
  PROVE  IsInARow(X, a, b, Joined(a, b))
BY DEF IsInARow, Joined

\* The elements of a sequence with one more at its end.
LEMMA OneMore ==
  ASSUME NEW X, NEW c \in Seq(X), NEW o \in Seq(X), Len(o) = 1
  PROVE  /\ c \o o \in Seq(X) /\ Len(c \o o) = Len(c) + 1
         /\ \A k \in 1 .. Len(c) : (c \o o)[k] = c[k]
         /\ (c \o o)[Len(c) + 1] = o[1]
<1>1. IsInARow(X, c, o, Joined(c, o))
  BY InARow, Zenon
<1>2. 1 \in 1 .. 1
  OBVIOUS
<1> QED BY <1>1, <1>2, Zenon DEF IsInARow, Joined

\* The sequence of a and b with x between them.
Around(a, x, b) == (a \o <<x>>) \o b

IsAround(X, a, x, b, w) ==
  /\ w \in Seq(X)
  /\ Len(w) = Len(a) + 1 + Len(b)
  /\ \A k \in 1 .. Len(a) : w[k] = a[k]
  /\ w[Len(a) + 1] = x
  /\ \A k \in 1 .. Len(b) : w[Len(a) + 1 + k] = b[k]

\* The elements of a sequence with x in the middle.
LEMMA AroundIs ==
  ASSUME NEW X, NEW a \in Seq(X), NEW x \in X, NEW b \in Seq(X)
  PROVE  IsAround(X, a, x, b, Around(a, x, b))
<1> DEFINE p == a \o <<x>>
<1>1. /\ p \in Seq(X) /\ Len(p) = Len(a) + 1
      /\ (\A k \in 1 .. Len(a) : p[k] = a[k]) /\ p[Len(a) + 1] = x
  OBVIOUS
<1> HIDE DEF p
<1>2. /\ p \o b \in Seq(X) /\ Len(p \o b) = Len(p) + Len(b)
      /\ \A k \in 1 .. Len(p) : (p \o b)[k] = p[k]
      /\ \A k \in 1 .. Len(b) : (p \o b)[Len(p) + k] = b[k]
  BY <1>1
<1> DEFINE w == p \o b
           m == Len(a)
           n == Len(b)
<1>3. m \in Nat /\ n \in Nat
  OBVIOUS
<1>4. /\ w \in Seq(X) /\ Len(w) = m + 1 + n
      /\ (\A k \in 1 .. m + 1 : w[k] = p[k]) /\ (\A k \in 1 .. n : w[m + 1 + k] = b[k])
      /\ (\A k \in 1 .. m : p[k] = a[k]) /\ p[m + 1] = x
  BY <1>1, <1>2, Zenon
<1> HIDE DEF w, m, n
<1>5. /\ \A k \in 1 .. m : w[k] = a[k]
      /\ w[m + 1] = x
  BY <1>3, <1>4
<1> QED BY <1>4, <1>5, Zenon DEF w, m, n, p, Around, IsAround

\* What stands between two positions, empty when they meet.
LEMMA Slice ==
  ASSUME NEW X, NEW s \in Seq(X), NEW lo \in 1 .. Len(s) + 1, NEW hi \in lo - 1 .. Len(s)
  PROVE  /\ SubSeq(s, lo, hi) \in Seq(X)
         /\ Len(SubSeq(s, lo, hi)) = (hi - lo) + 1
         /\ \A k \in 1 .. (hi - lo) + 1 : SubSeq(s, lo, hi)[k] = s[(lo + k) - 1]
<1>1. lo \in Int /\ hi \in Int /\ \A k \in lo .. hi : s[k] \in X
  OBVIOUS
<1> QED BY <1>1, SubSeqProperties

Alike(v, w) == v = w

\* The same elements at other positions.
LEMMA SliceSame ==
  ASSUME NEW X, NEW s \in Seq(X), NEW lo \in 1 .. Len(s) + 1, NEW hi \in lo - 1 .. Len(s),
         NEW w \in Seq(X), NEW d \in Nat, d + hi <= Len(w),
         \A k \in lo .. hi : w[d + k] = s[k]
  PROVE  Alike(SubSeq(w, d + lo, d + hi), SubSeq(s, lo, hi))
<1>1. /\ SubSeq(s, lo, hi) \in Seq(X)
      /\ Len(SubSeq(s, lo, hi)) = (hi - lo) + 1
      /\ \A k \in 1 .. (hi - lo) + 1 : SubSeq(s, lo, hi)[k] = s[(lo + k) - 1]
  BY Slice
<1> DEFINE a == d + lo
           b == d + hi
<1>2. a \in 1 .. Len(w) + 1 /\ b \in a - 1 .. Len(w) /\ b - a = hi - lo
  OBVIOUS
<1> HIDE DEF a, b
<1>3. /\ SubSeq(w, a, b) \in Seq(X)
      /\ Len(SubSeq(w, a, b)) = (b - a) + 1
      /\ \A k \in 1 .. (b - a) + 1 : SubSeq(w, a, b)[k] = w[(a + k) - 1]
  BY <1>2, Slice
<1> DEFINE u == SubSeq(s, lo, hi)
           v == SubSeq(w, a, b)
           n == (hi - lo) + 1
<1>4. /\ u \in Seq(X) /\ Len(u) = n /\ \A k \in 1 .. n : u[k] = s[(lo + k) - 1]
      /\ v \in Seq(X) /\ Len(v) = n /\ \A k \in 1 .. n : v[k] = w[(a + k) - 1]
  BY <1>1, <1>2, <1>3, Zenon
<1> HIDE DEF u, v
<1>5. ASSUME NEW k \in 1 .. n PROVE v[k] = u[k]
  <2>1. (lo + k) - 1 \in lo .. hi /\ d + ((lo + k) - 1) = (a + k) - 1
    BY DEF a
  <2>2. w[(a + k) - 1] = s[(lo + k) - 1]
    <3> DEFINE j == (lo + k) - 1
    <3>1. j \in lo .. hi /\ d + j = (a + k) - 1
      BY <2>1
    <3> HIDE DEF j
    <3>2. w[d + j] = s[j]
      BY <3>1, Zenon
    <3> QED BY <3>1, <3>2, Zenon DEF j
  <2> QED BY <1>4, <2>2, Zenon
<1>6. v = u
  <2> HIDE DEF n
  <2> QED BY <1>4, <1>5, SameSeq, Zenon
<1> QED BY <1>6, Zenon DEF u, v, a, b, Alike

\* The first k elements, and one more.
LEMMA PrefixGrows ==
  ASSUME NEW X, NEW s \in Seq(X), NEW k \in 1 .. Len(s)
  PROVE  /\ SubSeq(s, 1, k - 1) \in Seq(X) /\ s[k] \in X
         /\ Joined(SubSeq(s, 1, k - 1), <<s[k]>>) = SubSeq(s, 1, k)
<1> DEFINE a == SubSeq(s, 1, k - 1)
           b == SubSeq(s, 1, k)
           o == <<s[k]>>
           u == Joined(a, o)
<1>1. a \in Seq(X) /\ Len(a) = k - 1 /\ \A j \in 1 .. k - 1 : a[j] = s[j]
  <2> DEFINE hi == k - 1
  <2>1. 1 \in 1 .. Len(s) + 1 /\ hi \in 1 - 1 .. Len(s) /\ (hi - 1) + 1 = hi
        /\ \A j \in 1 .. hi : (1 + j) - 1 = j
    OBVIOUS
  <2> HIDE DEF hi
  <2>2. /\ SubSeq(s, 1, hi) \in Seq(X)
        /\ Len(SubSeq(s, 1, hi)) = (hi - 1) + 1
        /\ \A j \in 1 .. (hi - 1) + 1 : SubSeq(s, 1, hi)[j] = s[(1 + j) - 1]
    BY <2>1, Slice
  <2> QED BY <2>1, <2>2, Zenon DEF hi
<1>2. b \in Seq(X) /\ Len(b) = k /\ \A j \in 1 .. k : b[j] = s[j]
  <2>1. 1 \in 1 .. Len(s) + 1 /\ k \in 1 - 1 .. Len(s) /\ (k - 1) + 1 = k
        /\ \A j \in 1 .. k : (1 + j) - 1 = j
    OBVIOUS
  <2>2. /\ SubSeq(s, 1, k) \in Seq(X)
        /\ Len(SubSeq(s, 1, k)) = (k - 1) + 1
        /\ \A j \in 1 .. (k - 1) + 1 : SubSeq(s, 1, k)[j] = s[(1 + j) - 1]
    BY <2>1, Slice
  <2> QED BY <2>1, <2>2, Zenon
<1>3. s[k] \in X /\ o \in Seq(X) /\ Len(o) = 1 /\ o[1] = s[k] /\ k \in Nat
  OBVIOUS
<1> HIDE DEF a, b, o
<1>4. /\ u \in Seq(X) /\ Len(u) = (k - 1) + 1
      /\ \A j \in 1 .. k - 1 : u[j] = s[j]
      /\ u[(k - 1) + 1] = s[k]
  <2>1. IsInARow(X, a, o, u)
    BY <1>1, <1>3, InARow, Zenon
  <2> HIDE DEF u
  <2>2. 1 \in 1 .. 1
    OBVIOUS
  <2> QED BY <1>1, <1>3, <2>1, <2>2, Zenon DEF IsInARow
<1> HIDE DEF u
<1>5. (k - 1) + 1 = k
  BY <1>3
<1>6. ASSUME NEW j \in 1 .. k PROVE u[j] = b[j]
  <2>1. j \in 1 .. k - 1 \/ j = k
    BY <1>3
  <2> QED BY <1>2, <1>4, <1>5, <2>1, Zenon
<1>7. Len(u) = k /\ \A j \in 1 .. Len(u) : u[j] = b[j]
  BY <1>4, <1>5, <1>6, Zenon
<1>8. u = b
  BY <1>2, <1>4, <1>7, SameSeq
<1> QED BY <1>1, <1>3, <1>8, Zenon DEF a, b, o, u

\* The empty prefix and the whole one.
LEMMA WholePrefix ==
  ASSUME NEW X, NEW s \in Seq(X)
  PROVE  SubSeq(s, 1, 0) = <<>> /\ SubSeq(s, 1, Len(s)) = s
<1>1. SubSeq(s, 1, 0) = <<>>
  BY SubSeqEmpty
<1> DEFINE N == Len(s)
           u == SubSeq(s, 1, N)
<1>2. 1 \in 1 .. N + 1 /\ N \in 1 - 1 .. N /\ (N - 1) + 1 = N
      /\ \A j \in 1 .. N : (1 + j) - 1 = j
  OBVIOUS
<1>3. /\ u \in Seq(X) /\ Len(u) = (N - 1) + 1
      /\ \A j \in 1 .. (N - 1) + 1 : u[j] = s[(1 + j) - 1]
  BY <1>2, Slice
<1>4. Len(u) = N /\ \A j \in 1 .. N : u[j] = s[j]
  BY <1>2, <1>3, Zenon
<1> HIDE DEF u
<1>5. u = s
  BY <1>3, <1>4, SameSeq
<1> QED BY <1>1, <1>5, Zenon DEF u

\* A prefix and what follows it.
LEMMA PrefixJoin ==
  ASSUME NEW X, NEW s \in Seq(X), NEW k \in 0 .. Len(s), NEW n \in Nat, k + n <= Len(s)
  PROVE  /\ SubSeq(s, 1, k) \in Seq(X) /\ SubSeq(s, k + 1, k + n) \in Seq(X)
         /\ Alike(SubSeq(s, 1, k) \o SubSeq(s, k + 1, k + n), SubSeq(s, 1, k + n))
<1> DEFINE m == k + n
           lo == k + 1
           a == SubSeq(s, 1, k)
           b == SubSeq(s, lo, m)
           c == SubSeq(s, 1, m)
           u == Joined(a, b)
<1>0. k \in Nat /\ m \in Nat /\ Len(s) \in Nat
  OBVIOUS
<1>1. a \in Seq(X) /\ Len(a) = k /\ \A j \in 1 .. k : a[j] = s[j]
  <2>1. 1 \in 1 .. Len(s) + 1 /\ k \in 1 - 1 .. Len(s) /\ (k - 1) + 1 = k
        /\ \A j \in 1 .. k : (1 + j) - 1 = j
    OBVIOUS
  <2>2. /\ SubSeq(s, 1, k) \in Seq(X)
        /\ Len(SubSeq(s, 1, k)) = (k - 1) + 1
        /\ \A j \in 1 .. (k - 1) + 1 : SubSeq(s, 1, k)[j] = s[(1 + j) - 1]
    BY <2>1, Slice
  <2> QED BY <2>1, <2>2, Zenon
<1>2. c \in Seq(X) /\ Len(c) = m /\ \A j \in 1 .. m : c[j] = s[j]
  <2>1. 1 \in 1 .. Len(s) + 1 /\ m \in 1 - 1 .. Len(s) /\ (m - 1) + 1 = m
        /\ \A j \in 1 .. m : (1 + j) - 1 = j
    OBVIOUS
  <2> HIDE DEF m
  <2>2. /\ SubSeq(s, 1, m) \in Seq(X)
        /\ Len(SubSeq(s, 1, m)) = (m - 1) + 1
        /\ \A j \in 1 .. (m - 1) + 1 : SubSeq(s, 1, m)[j] = s[(1 + j) - 1]
    BY <2>1, Slice
  <2> QED BY <2>1, <2>2, Zenon
<1>3. b \in Seq(X) /\ Len(b) = n /\ \A j \in 1 .. n : b[j] = s[k + j]
  <2>1. lo \in 1 .. Len(s) + 1 /\ m \in lo - 1 .. Len(s) /\ (m - lo) + 1 = n
        /\ \A j \in 1 .. n : (lo + j) - 1 = k + j
    OBVIOUS
  <2> HIDE DEF m, lo
  <2>2. /\ SubSeq(s, lo, m) \in Seq(X)
        /\ Len(SubSeq(s, lo, m)) = (m - lo) + 1
        /\ \A j \in 1 .. (m - lo) + 1 : SubSeq(s, lo, m)[j] = s[(lo + j) - 1]
    BY <2>1, Slice
  <2> QED BY <2>1, <2>2, Zenon
<1> HIDE DEF a, b, c
<1>4. /\ u \in Seq(X) /\ Len(u) = m
      /\ \A j \in 1 .. k : u[j] = a[j]
      /\ \A j \in 1 .. n : u[k + j] = b[j]
  <2>1. IsInARow(X, a, b, u)
    BY <1>1, <1>3, InARow, Zenon
  <2> HIDE DEF u
  <2> QED BY <1>1, <1>3, <2>1, Zenon DEF IsInARow
<1> HIDE DEF u
<1>5. ASSUME NEW j \in 1 .. m PROVE u[j] = c[j]
  <2>1. CASE j \in 1 .. k
    BY <1>1, <1>2, <1>4, <2>1, Zenon
  <2>2. CASE j \notin 1 .. k
    <3> DEFINE h == j - k
    <3>1. h \in 1 .. n /\ k + h = j
      BY <1>0, <2>2
    <3> HIDE DEF h
    <3> QED BY <1>2, <1>3, <1>4, <3>1, Zenon
  <2> QED BY <2>1, <2>2
<1>6. u = c
  <2> HIDE DEF m
  <2> QED BY <1>2, <1>4, <1>5, SameSeq, Zenon
<1> QED BY <1>1, <1>3, <1>6, Zenon DEF a, b, c, u, m, lo, Alike, Joined
=============================================================================
