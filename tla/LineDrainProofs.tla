--------------------------- MODULE LineDrainProofs ---------------------------
(***************************************************************************)
(* Theorems about LineDrain, for output of any length in chunks of any     *)
(* size: the rows are the lines of the output, and the tail is their end.  *)
(***************************************************************************)
EXTENDS LineDrain, SequenceLemmas

-----------------------------------------------------------------------------
(* The flattening of a sequence of sequences.                              *)

\* The flattenings of the prefixes of s.
Flattening(s, X, f) ==
  /\ \A n \in 0 .. Len(s) : f[n] \in Seq(X)
  /\ f[0] = <<>>
  /\ \A n \in 1 .. Len(s) : f[n] = f[n - 1] \o s[n]

Flattens(s, X) == \E f : Flattening(s, X, f) /\ Flatten(s) = f[Len(s)]

\* Flatten is what the recursion equations say.
LEMMA Flat ==
  ASSUME NEW X, NEW s \in Seq(Seq(X))
  PROVE  Flattens(s, X)
<1> DEFINE N == Len(s)
           S == Seq(X)
           G == [n \in 1 .. N |-> [x \in S |-> x \o s[n]]]
           Solves(f) == f = [k \in 0 .. N |-> IF k = 0 THEN <<>> ELSE f[k - 1] \o s[k]]
<1>1. /\ N \in Nat /\ <<>> \in S /\ 0 \in 0 .. N /\ N \in 0 .. N
      /\ \A n \in 1 .. N : s[n] \in S /\ n - 1 \in 0 .. N /\ n \in 0 .. N /\ n # 0
      /\ \A n \in 0 .. N : n # 0 => n \in 1 .. N
  OBVIOUS
<1>2. ASSUME NEW n \in 1 .. N, NEW x \in S PROVE x \o s[n] \in S
  BY <1>1, ConcatProperties, Zenon
<1>3. G \in [1 .. N -> [S -> S]]
  BY <1>2, Zenon
<1>4. PICK f \in [0 .. N -> S] : f[0] = <<>> /\ \A n \in 1 .. N : f[n] = G[n][f[n - 1]]
  <2> HIDE DEF N, S, G
  <2>1. Computable(N, S, <<>>, G)
    BY <1>1, <1>3, Recursion, Zenon
  <2> QED BY <2>1, Zenon DEF Computable
<1>5. ASSUME NEW n \in 1 .. N PROVE f[n] = f[n - 1] \o s[n]
  <2>1. f[n - 1] \in S
    BY <1>1, Zenon
  <2> QED BY <1>4, <2>1, Zenon
<1>6. ASSUME NEW k \in 0 .. N PROVE f[k] = IF k = 0 THEN <<>> ELSE f[k - 1] \o s[k]
  BY <1>1, <1>4, <1>5, Zenon
<1>7. Solves(f)
  BY <1>6, Zenon
<1> DEFINE c == CHOOSE g : Solves(g)
<1>8. Solves(c)
  BY <1>7, Zenon
<1>9. Flatten(s) = c[N]
  BY Zenon DEF Flatten
<1> HIDE DEF c
<1>10. c[0] = <<>>
  BY <1>1, <1>8, Zenon
<1>11. ASSUME NEW n \in 1 .. N PROVE c[n] = c[n - 1] \o s[n]
  BY <1>1, <1>8, Zenon
<1> DEFINE T == {n \in 0 .. N : c[n] \in S}
<1>12. 0 \in T
  BY <1>1, <1>10, Zenon
<1>13. ASSUME NEW n \in 1 .. N, n - 1 \in T PROVE n \in T
  <2>1. c[n - 1] \o s[n] \in S
    BY <1>2, <1>13, Zenon
  <2> QED BY <1>1, <1>11, <2>1, Zenon
<1>14. \A n \in 0 .. N : n \in T
  <2> HIDE DEF N, T
  <2> QED BY <1>1, <1>12, <1>13, Upto, Zenon
<1>15. \A n \in 0 .. N : c[n] \in S
  BY <1>14, Zenon
<1>16. Flattening(s, X, c)
  BY <1>10, <1>11, <1>15, Zenon DEF Flattening
<1> QED BY <1>9, <1>16, Zenon DEF Flattens

\* The flattening of two sequences in a row.
LEMMA FlatConcat ==
  ASSUME NEW X, NEW s \in Seq(Seq(X)), NEW u \in Seq(Seq(X))
  PROVE  /\ Flatten(s) \in Seq(X)
         /\ Flatten(s \o u) = Flatten(s) \o Flatten(u)
<1> DEFINE w == s \o u
           N == Len(s)
           M == Len(u)
<1>1. /\ w \in Seq(Seq(X)) /\ Len(w) = N + M /\ N \in Nat /\ M \in Nat
      /\ (\A n \in 1 .. N : w[n] = s[n]) /\ (\A n \in 1 .. M : w[N + n] = u[n])
      /\ (\A n \in 1 .. M : u[n] \in Seq(X))
  OBVIOUS
<1> HIDE DEF w
<1>2. PICK f : Flattening(s, X, f) /\ Flatten(s) = f[N]
  BY Flat, Zenon DEF Flattens
<1>3. PICK g : Flattening(u, X, g) /\ Flatten(u) = g[M]
  BY Flat, Zenon DEF Flattens
<1>4. PICK h : Flattening(w, X, h) /\ Flatten(w) = h[N + M]
  BY <1>1, Flat, Zenon DEF Flattens
<1>5. /\ \A n \in 0 .. N : f[n] \in Seq(X)
      /\ f[0] = <<>>
      /\ \A n \in 1 .. N : f[n] = f[n - 1] \o s[n]
  BY <1>2, Zenon DEF Flattening
<1>6. /\ \A n \in 0 .. M : g[n] \in Seq(X)
      /\ g[0] = <<>>
      /\ \A n \in 1 .. M : g[n] = g[n - 1] \o u[n]
  BY <1>3, Zenon DEF Flattening
<1>7. /\ h[0] = <<>>
      /\ \A n \in 1 .. N + M : h[n] = h[n - 1] \o w[n]
  BY <1>1, <1>4, Zenon DEF Flattening
<1>8. N \in 0 .. N /\ 0 \in 0 .. N /\ f[N] \in Seq(X)
  <2>1. N \in 0 .. N /\ 0 \in 0 .. N
    BY <1>1
  <2> QED BY <1>5, <2>1, Zenon
<1>9. h[N] = f[N]
  <2> DEFINE T == {n \in 0 .. N : h[n] = f[n]}
  <2>1. 0 \in T
    BY <1>5, <1>7, <1>8, Zenon
  <2>2. ASSUME NEW n \in 1 .. N, n - 1 \in T PROVE n \in T
    <3>1. n \in 0 .. N /\ n \in 1 .. N + M
      BY <1>1
    <3>2. h[n - 1] = f[n - 1]
      BY <2>2, Zenon
    <3>3. h[n] = f[n]
      BY <1>1, <1>5, <1>7, <3>1, <3>2, Zenon
    <3> QED BY <3>1, <3>3, Zenon
  <2> HIDE DEF T, N
  <2>3. \A n \in 0 .. N : n \in T
    BY <1>1, <2>1, <2>2, Upto, Zenon
  <2> QED BY <1>8, <2>3, Zenon DEF T
<1>10. h[N + M] = f[N] \o g[M]
  <2> DEFINE T == {n \in 0 .. M : h[N + n] = f[N] \o g[n]}
  <2>1. 0 \in T
    <3>1. f[N] \o <<>> = f[N]
      BY <1>8, ConcatEmptySeq, Zenon
    <3>2. N + 0 = N /\ 0 \in 0 .. M
      BY <1>1
    <3> QED BY <1>6, <1>9, <3>1, <3>2, Zenon
  <2>2. ASSUME NEW n \in 1 .. M, n - 1 \in T PROVE n \in T
    <3>1. n \in 0 .. M /\ n - 1 \in 0 .. M /\ N + n \in 1 .. N + M /\ (N + n) - 1 = N + (n - 1)
      <4>1. N \in Nat /\ M \in Nat
        BY <1>1
      <4> HIDE DEF N, M
      <4> QED BY <4>1
    <3>2. h[N + (n - 1)] = f[N] \o g[n - 1]
      BY <2>2, Zenon
    <3>3. h[N + n] = (f[N] \o g[n - 1]) \o u[n]
      BY <1>1, <1>7, <3>1, <3>2, Zenon
    <3>4. (f[N] \o g[n - 1]) \o u[n] = f[N] \o (g[n - 1] \o u[n])
      <4>1. g[n - 1] \in Seq(X) /\ u[n] \in Seq(X)
        BY <1>1, <1>6, <3>1, Zenon
      <4> DEFINE a == f[N]
                 b == g[n - 1]
                 c == u[n]
      <4>2. a \in Seq(X) /\ b \in Seq(X) /\ c \in Seq(X)
        BY <1>8, <4>1, Zenon
      <4> HIDE DEF a, b, c
      <4>3. (a \o b) \o c = a \o (b \o c)
        <5>1. Joined(Joined(a, b), c) = Joined(a, Joined(b, c))
          BY <4>2, JoinedTwice
        <5> QED BY <5>1, Zenon DEF Joined
      <4> QED BY <4>3, Zenon DEF a, b, c
    <3>5. h[N + n] = f[N] \o g[n]
      BY <1>6, <3>3, <3>4, Zenon
    <3> QED BY <3>1, <3>5, Zenon
  <2> HIDE DEF T, N, M
  <2>3. \A n \in 0 .. M : n \in T
    BY <1>1, <2>1, <2>2, Upto, Zenon
  <2>4. M \in 0 .. M
    BY <1>1
  <2> QED BY <2>3, <2>4, Zenon DEF T
<1> QED BY <1>2, <1>3, <1>4, <1>8, <1>10, Zenon DEF w

\* The flattening of none and of one.
LEMMA FlatOne ==
  ASSUME NEW X, NEW x \in Seq(X)
  PROVE  Flatten(<<>>) = <<>> /\ Flatten(<<x>>) = x
<1>1. <<>> \in Seq(Seq(X)) /\ Len(<<>>) = 0
  OBVIOUS
<1>2. Flatten(<<>>) = <<>>
  <2> DEFINE e == <<>>
  <2>1. e \in Seq(Seq(X)) /\ Len(e) = 0 /\ e = <<>>
    BY <1>1
  <2> HIDE DEF e
  <2>2. PICK f : Flattening(e, X, f) /\ Flatten(e) = f[0]
    BY <2>1, Flat, Zenon DEF Flattens
  <2> QED BY <2>1, <2>2, Zenon DEF Flattening
<1> DEFINE s == <<x>>
<1>3. s \in Seq(Seq(X)) /\ Len(s) = 1 /\ s[1] = x /\ 1 \in 1 .. 1 /\ 1 - 1 = 0
  OBVIOUS
<1> HIDE DEF s
<1>4. PICK f : Flattening(s, X, f) /\ Flatten(s) = f[1]
  BY <1>3, Flat, Zenon DEF Flattens
<1>5. f[1] = <<>> \o x
  BY <1>3, <1>4, Zenon DEF Flattening
<1>6. <<>> \o x = x
  BY ConcatEmptySeq, Zenon
<1> QED BY <1>2, <1>4, <1>5, <1>6, Zenon DEF s

-----------------------------------------------------------------------------
(* The pieces of the buffer.                                               *)

Pieces == Seq(Seq(Bytes)) \ {<<>>}

SplitStep == [b \in Bytes |-> [x \in Pieces |->
  IF b = "n" THEN Append(x, <<>>) ELSE Append(Front(x), Append(Last(x), b))]]

Splitting(bs) == \E c : Folding(bs, Pieces, << <<>> >>, SplitStep, c) /\ Split(bs) = c[Len(bs)]

\* What Front and Last of a sequence are.
LEMMA FrontLast ==
  ASSUME NEW X, NEW x \in Seq(X), x # <<>>
  PROVE  /\ Front(x) \in Seq(X) /\ Len(Front(x)) = Len(x) - 1
         /\ Last(x) \in X /\ Len(x) \in Nat \ {0} /\ Last(x) = x[Len(x)]
         /\ \A k \in 1 .. Len(x) - 1 : Front(x)[k] = x[k]
<1>1. Len(x) \in Nat \ {0}
  OBVIOUS
<1>2. Last(x) \in X /\ Last(x) = x[Len(x)]
  BY <1>1 DEF Last
<1>3. SubSeq(x, 1, Len(x) - 1) \in Seq(X) /\ Len(SubSeq(x, 1, Len(x) - 1)) = Len(x) - 1
  <2> DEFINE n == Len(x) - 1
  <2>1. n \in Nat /\ 1 \in Int /\ \A k \in 1 .. n : x[k] \in X
    BY <1>1
  <2> HIDE DEF n
  <2>2. SubSeq(x, 1, n) \in Seq(X) /\ Len(SubSeq(x, 1, n)) = IF 1 <= n THEN n - 1 + 1 ELSE 0
    BY <2>1, SubSeqProperties
  <2>3. Len(SubSeq(x, 1, n)) = n
    BY <2>1, <2>2
  <2> QED BY <2>2, <2>3 DEF n
<1>4. \A k \in 1 .. Len(x) - 1 : SubSeq(x, 1, Len(x) - 1)[k] = x[k]
  BY <1>1
<1> QED BY <1>1, <1>2, <1>3, <1>4 DEF Front

\* A step of split turns pieces into pieces.
LEMMA SplitStepType == SplitStep \in [Bytes -> [Pieces -> Pieces]] /\ << <<>> >> \in Pieces
<1>1. ASSUME NEW b \in Bytes, NEW x \in Pieces
      PROVE  (IF b = "n" THEN Append(x, <<>>) ELSE Append(Front(x), Append(Last(x), b))) \in Pieces
  <2>1. x \in Seq(Seq(Bytes)) /\ x # <<>>
    BY DEF Pieces
  <2>2. Front(x) \in Seq(Seq(Bytes)) /\ Last(x) \in Seq(Bytes)
    BY <2>1, FrontLast
  <2>3. Append(x, <<>>) \in Pieces
    BY <2>1 DEF Pieces
  <2> DEFINE p == Append(Last(x), b)
             q == Front(x)
  <2>4. p \in Seq(Bytes)
    BY <2>2
  <2> HIDE DEF p, q
  <2>5. q \in Seq(Seq(Bytes)) 
    BY <2>2 DEF q
  <2>6. Append(q, p) \in Pieces
    <3> DEFINE Z == Seq(Bytes)
    <3>1. p \in Z /\ q \in Seq(Z)
      BY <2>4, <2>5
    <3> HIDE DEF Z
    <3>2. Append(q, p) \in Seq(Z) /\ Append(q, p) # <<>>
      BY <3>1, AppendProperties
    <3> QED BY <3>2 DEF Pieces, Z
  <2> QED BY <2>3, <2>6 DEF p, q
<1>2. << <<>> >> \in Pieces
  BY DEF Pieces
<1> QED BY <1>1, <1>2, Zenon DEF SplitStep

\* Split is the fold of its step.
LEMMA SplitIs ==
  ASSUME NEW bs \in Seq(Bytes)
  PROVE  Splitting(bs)
<1> DEFINE N == Len(bs)
           first == << <<>> >>
           E(k, x) == IF bs[k] = "n" THEN Append(x, <<>>)
                      ELSE Append(Front(x), Append(Last(x), bs[k]))
           Solves(f) == f = [k \in 0 .. N |->
                               IF k = 0 THEN << <<>> >>
                               ELSE IF bs[k] = "n" THEN Append(f[k - 1], <<>>)
                               ELSE Append(Front(f[k - 1]), Append(Last(f[k - 1]), bs[k]))]
<1>1. N \in Nat /\ 0 \in 0 .. N
      /\ \A n \in 1 .. N : bs[n] \in Bytes /\ n # 0 /\ n \in 0 .. N /\ n - 1 \in 0 .. N
  OBVIOUS
<1>2. \A k \in 1 .. N : \A x \in Pieces : SplitStep[bs[k]][x] = E(k, x)
  BY <1>1, Zenon DEF SplitStep
<1>3. PICK f : f = [n \in 0 .. N |-> f[n]] /\ Folding(bs, Pieces, first, SplitStep, f)
  <2>1. Folds(bs, Pieces, first, SplitStep)
    BY SplitStepType, FoldExists, Zenon
  <2> QED BY <2>1, Zenon DEF Folds
<1>4. ASSUME NEW k \in 0 .. N
      PROVE  f[k] = IF k = 0 THEN << <<>> >> ELSE E(k, f[k - 1])
  <2>1. CASE k = 0
    BY <1>3, <2>1, Zenon DEF Folding
  <2>2. CASE k # 0
    <3>1. k \in 1 .. N
      BY <2>2
    <3>2. f[k - 1] \in Pieces /\ f[k] = SplitStep[bs[k]][f[k - 1]]
      BY <1>1, <1>3, <3>1, Zenon DEF Folding
    <3> QED BY <1>2, <2>2, <3>1, <3>2, Zenon
  <2> QED BY <2>1, <2>2
<1>5. Solves(f)
  BY <1>3, <1>4, Zenon
<1> DEFINE c == CHOOSE g : Solves(g)
<1>6. Solves(c)
  BY <1>5, Zenon
<1>7. Split(bs) = c[N]
  BY Zenon DEF Split
<1> HIDE DEF c
<1>8. c[0] = first
  BY <1>1, <1>6, Zenon
<1>9. ASSUME NEW n \in 1 .. N, c[n - 1] \in Pieces PROVE c[n] = SplitStep[bs[n]][c[n - 1]]
  <2>1. c[n] = E(n, c[n - 1])
    BY <1>1, <1>6, Zenon
  <2> QED BY <1>2, <1>9, <2>1, Zenon
<1>10. Folding(bs, Pieces, first, SplitStep, c)
  BY <1>8, <1>9, SplitStepType, FoldTyped, Zenon
<1> QED BY <1>7, <1>10, Zenon DEF Splitting

-----------------------------------------------------------------------------
(* Decoding piece by piece.                                                *)

TextChars == Bytes \cup {"e", "?"}

DecodeStep == [b \in Bytes |-> [x \in Seq(TextChars) |->
  IF b # "t" THEN Append(x, b)
  ELSE IF x # <<>> /\ Last(x) = "h" THEN Append(Front(x), "e")
  ELSE Append(x, "?")]]

\* A first byte that got no second one.
Shown(c) == IF c = "h" THEN "?" ELSE c

Decoding(bs) ==
  \E c : /\ Folding(bs, Seq(TextChars), <<>>, DecodeStep, c)
         /\ Decode(bs) = [k \in DOMAIN c[Len(bs)] |-> Shown(c[Len(bs)][k])]

\* A step of the decoder turns characters into characters.
LEMMA DecodeStepType ==
  DecodeStep \in [Bytes -> [Seq(TextChars) -> Seq(TextChars)]] /\ <<>> \in Seq(TextChars)
<1>1. ASSUME NEW b \in Bytes, NEW x \in Seq(TextChars)
      PROVE  (IF b # "t" THEN Append(x, b)
              ELSE IF x # <<>> /\ Last(x) = "h" THEN Append(Front(x), "e")
              ELSE Append(x, "?")) \in Seq(TextChars)
  <2>1. b \in TextChars /\ "e" \in TextChars /\ "?" \in TextChars
    BY DEF TextChars
  <2>2. Append(x, b) \in Seq(TextChars) /\ Append(x, "?") \in Seq(TextChars)
    BY <2>1
  <2>3. ASSUME x # <<>> PROVE Append(Front(x), "e") \in Seq(TextChars)
    <3>1. Front(x) \in Seq(TextChars)
      BY <2>3, FrontLast
    <3> QED BY <2>1, <3>1
  <2> QED BY <2>2, <2>3
<1>2. <<>> \in Seq(TextChars)
  OBVIOUS
<1> QED BY <1>1, <1>2, Zenon DEF DecodeStep

\* Decode is the fold of its step, with the waiting first bytes shown.
LEMMA DecodeIs ==
  ASSUME NEW bs \in Seq(Bytes)
  PROVE  Decoding(bs)
<1> DEFINE N == Len(bs)
           S == Seq(TextChars)
           E(k, x) == IF bs[k] # "t" THEN Append(x, bs[k])
                      ELSE IF x # <<>> /\ Last(x) = "h" THEN Append(Front(x), "e")
                      ELSE Append(x, "?")
           Solves(f) == f = [k \in 0 .. N |->
                               IF k = 0 THEN <<>>
                               ELSE IF bs[k] # "t" THEN Append(f[k - 1], bs[k])
                               ELSE IF f[k - 1] # <<>> /\ Last(f[k - 1]) = "h"
                                 THEN Append(Front(f[k - 1]), "e")
                               ELSE Append(f[k - 1], "?")]
<1>1. N \in Nat /\ 0 \in 0 .. N
      /\ \A n \in 1 .. N : bs[n] \in Bytes /\ n # 0 /\ n \in 0 .. N /\ n - 1 \in 0 .. N
  OBVIOUS
<1>2. \A k \in 1 .. N : \A x \in S : DecodeStep[bs[k]][x] = E(k, x)
  BY <1>1, Zenon DEF DecodeStep
<1>3. PICK f : f = [n \in 0 .. N |-> f[n]] /\ Folding(bs, S, <<>>, DecodeStep, f)
  <2>1. Folds(bs, S, <<>>, DecodeStep)
    BY DecodeStepType, FoldExists, Zenon
  <2> QED BY <2>1, Zenon DEF Folds
<1>4. ASSUME NEW k \in 0 .. N
      PROVE  f[k] = IF k = 0 THEN <<>> ELSE E(k, f[k - 1])
  <2>1. CASE k = 0
    BY <1>3, <2>1, Zenon DEF Folding
  <2>2. CASE k # 0
    <3>1. k \in 1 .. N
      BY <2>2
    <3>2. f[k - 1] \in S /\ f[k] = DecodeStep[bs[k]][f[k - 1]]
      BY <1>1, <1>3, <3>1, Zenon DEF Folding
    <3> QED BY <1>2, <2>2, <3>1, <3>2, Zenon
  <2> QED BY <2>1, <2>2
<1>5. Solves(f)
  BY <1>3, <1>4, Zenon
<1> DEFINE c == CHOOSE g : Solves(g)
<1>6. Solves(c)
  BY <1>5, Zenon
<1>7. Decode(bs) = [k \in DOMAIN c[N] |-> Shown(c[N][k])]
  BY Zenon DEF Decode, Shown
<1> HIDE DEF c
<1>8. c[0] = <<>>
  BY <1>1, <1>6, Zenon
<1>9. ASSUME NEW n \in 1 .. N, c[n - 1] \in S PROVE c[n] = DecodeStep[bs[n]][c[n - 1]]
  <2>1. c[n] = E(n, c[n - 1])
    BY <1>1, <1>6, Zenon
  <2> QED BY <1>2, <1>9, <2>1, Zenon
<1>10. Folding(bs, S, <<>>, DecodeStep, c)
  BY <1>8, <1>9, DecodeStepType, FoldTyped, Zenon
<1> QED BY <1>7, <1>10, Zenon DEF Decoding

\* The two bytes of one character begin at k.
Paired(bs, k) == k \in 1 .. Len(bs) - 1 /\ bs[k] = "h" /\ bs[k + 1] = "t"

Glyph(bs, k) ==
  IF Paired(bs, k) THEN <<"e">>
  ELSE IF Paired(bs, k - 1) THEN <<>>
  ELSE IF bs[k] \in {"h", "t"} THEN <<"?">> ELSE <<bs[k]>>

Glyphs(bs) == [k \in 1 .. Len(bs) |-> Glyph(bs, k)]

\* The text is what its bytes show, one after the other.
LEMMA TextIs ==
  ASSUME NEW bs \in Seq(Bytes)
  PROVE  /\ Glyphs(bs) \in Seq(Seq(TextChars)) /\ Len(Glyphs(bs)) = Len(bs)
         /\ \A k \in 1 .. Len(bs) : Glyphs(bs)[k] = Glyph(bs, k)
         /\ Text(bs) = Flatten(Glyphs(bs))
<1> DEFINE N == Len(bs)
           Z == Seq(TextChars)
<1>1. N \in Nat /\ DOMAIN bs = 1 .. N /\ \A k \in 1 .. N : bs[k] \in Bytes
  OBVIOUS
<1>2. ASSUME NEW k \in 1 .. N PROVE Glyph(bs, k) \in Z
  <2>1. <<"e">> \in Z /\ <<>> \in Z /\ <<"?">> \in Z /\ <<bs[k]>> \in Z
    BY <1>1 DEF TextChars
  <2> QED BY <2>1, Zenon DEF Glyph
<1>3. Glyphs(bs) \in [1 .. N -> Z]
  BY <1>2, Zenon DEF Glyphs
<1>4. ASSUME NEW g \in [1 .. N -> Z] PROVE g \in Seq(Z) /\ Len(g) = N
  <2> HIDE DEF Z, N
  <2> QED BY <1>1
<1>5. \A k \in 1 .. N : Glyphs(bs)[k] = Glyph(bs, k)
  BY Zenon DEF Glyphs
<1>6. Text(bs) = Flatten(Glyphs(bs))
  <2>1. ASSUME NEW k \in 1 .. N
        PROVE  Glyph(bs, k) =
                 CASE Paired(bs, k) -> <<"e">>
                   [] Paired(bs, k - 1) -> <<>>
                   [] bs[k] \in {"h", "t"} /\ ~ Paired(bs, k) /\ ~ Paired(bs, k - 1) -> <<"?">>
                   [] OTHER -> <<bs[k]>>
    <3>1. ~ (Paired(bs, k) /\ Paired(bs, k - 1))
      BY <1>1 DEF Paired
    <3> QED BY <3>1 DEF Glyph
  <2>2. Glyphs(bs) = [k \in DOMAIN bs |->
                 CASE Paired(bs, k) -> <<"e">>
                   [] Paired(bs, k - 1) -> <<>>
                   [] bs[k] \in {"h", "t"} /\ ~ Paired(bs, k) /\ ~ Paired(bs, k - 1) -> <<"?">>
                   [] OTHER -> <<bs[k]>>]
    BY <1>1, <2>1, Zenon DEF Glyphs
  <2> QED BY <2>2, Zenon DEF Text, Paired
<1> QED BY <1>3, <1>4, <1>5, <1>6, Zenon

\* The decoder after k bytes, with its characters c, against the text t of them.
InStep(bs, k, c, t) ==
  /\ c \in Seq(TextChars) /\ t \in Seq(TextChars)
  /\ Len(c) = Len(t)
  /\ k # 0 => Len(c) # 0
  /\ \A j \in 1 .. Len(t) : t[j] = IF j = Len(t) /\ Paired(bs, k) THEN "e" ELSE Shown(c[j])
  /\ c # <<>> => (c[Len(c)] = "h" <=> k # 0 /\ bs[k] = "h")

\* The decoder and the reference stay in step over one byte.
LEMMA DecodeOne ==
  ASSUME NEW bs \in Seq(Bytes), NEW k \in 1 .. Len(bs), NEW c, NEW t, InStep(bs, k - 1, c, t)
  PROVE  InStep(bs, k, DecodeStep[bs[k]][c], t \o Glyph(bs, k))
<1> DEFINE N == Len(bs)
           b == bs[k]
<1>1. /\ N \in Nat /\ k \in Nat /\ b \in Bytes /\ b \in TextChars
      /\ "e" \in TextChars /\ "?" \in TextChars
  BY DEF TextChars
<1>2. /\ c \in Seq(TextChars) /\ t \in Seq(TextChars) /\ Len(c) = Len(t)
      /\ \A j \in 1 .. Len(t) : t[j] = IF j = Len(t) /\ Paired(bs, k - 1) THEN "e" ELSE Shown(c[j])
      /\ c # <<>> => (c[Len(c)] = "h" <=> k - 1 # 0 /\ bs[k - 1] = "h")
      /\ k - 1 # 0 => Len(c) # 0
  BY DEF InStep
<1>3. DecodeStep[b][c] = IF b # "t" THEN Append(c, b)
                         ELSE IF c # <<>> /\ Last(c) = "h" THEN Append(Front(c), "e")
                         ELSE Append(c, "?")
  BY <1>1, <1>2, Zenon DEF DecodeStep
<1>4. Paired(bs, k - 1) <=> k - 1 # 0 /\ bs[k - 1] = "h" /\ b = "t"
  BY <1>1 DEF Paired
\* One character more on both sides.
<1>5. ASSUME NEW x \in TextChars, NEW y \in TextChars, ~ Paired(bs, k - 1),
             y = IF Paired(bs, k) THEN "e" ELSE Shown(x), x = "h" <=> b = "h"
      PROVE  InStep(bs, k, Append(c, x), t \o <<y>>)
  <2>1. /\ Append(c, x) \in Seq(TextChars) /\ Len(Append(c, x)) = Len(c) + 1
        /\ Append(c, x)[Len(c) + 1] = x
        /\ \A j \in 1 .. Len(c) : Append(c, x)[j] = c[j]
    BY <1>2
  <2>2. /\ t \o <<y>> \in Seq(TextChars) /\ Len(t \o <<y>>) = Len(t) + 1
        /\ (t \o <<y>>)[Len(t) + 1] = y
        /\ \A j \in 1 .. Len(t) : (t \o <<y>>)[j] = t[j]
    BY <1>2
  <2> DEFINE d == Append(c, x)
             u == t \o <<y>>
             m == Len(t)
  <2>3. m \in Nat /\ Len(c) = m
    BY <1>2
  <2>4. /\ d \in Seq(TextChars) /\ Len(d) = m + 1 /\ d[m + 1] = x
        /\ u \in Seq(TextChars) /\ Len(u) = m + 1 /\ u[m + 1] = y
        /\ \A j \in 1 .. m : d[j] = c[j] /\ u[j] = t[j]
    BY <2>1, <2>2, <2>3, Zenon
  <2>5. \A j \in 1 .. m : t[j] = Shown(c[j])
    BY <1>2, <1>5, Zenon
  <2> HIDE DEF d, u, m
  <2>6. ASSUME NEW j \in 1 .. m + 1
        PROVE  u[j] = IF j = m + 1 /\ Paired(bs, k) THEN "e" ELSE Shown(d[j])
    <3>1. CASE j = m + 1
      BY <1>5, <2>4, <3>1, Zenon
    <3>2. CASE j # m + 1
      <4>1. j \in 1 .. m
        BY <2>3, <3>2
      <4> QED BY <2>4, <2>5, <3>2, <4>1, Zenon
    <3> QED BY <3>1, <3>2
  <2>7. InStep(bs, k, d, u)
    <3>1. d[Len(d)] = "h" <=> k # 0 /\ bs[k] = "h"
      BY <1>5, <2>4
    <3>2. Len(d) = Len(u) /\ Len(d) # 0
      BY <2>3, <2>4
    <3> QED BY <2>4, <2>6, <3>1, <3>2, Zenon DEF InStep
  <2> QED BY <2>7 DEF d, u
<1>6. CASE b # "t"
  <2>1. ~ Paired(bs, k - 1)
    BY <1>4, <1>6
  <2> DEFINE y == IF Paired(bs, k) THEN "e" ELSE Shown(b)
  <2>2. y \in TextChars /\ Glyph(bs, k) = <<y>>
    BY <1>1, <1>6, <2>1 DEF Glyph, Shown
  <2> HIDE DEF y
  <2>3. InStep(bs, k, Append(c, b), t \o <<y>>)
    BY <1>1, <1>5, <2>1, <2>2, Zenon DEF y
  <2> QED BY <1>3, <1>6, <2>2, <2>3, Zenon
<1>7. CASE b = "t" /\ ~ Paired(bs, k - 1)
  <2>1. ~ (c # <<>> /\ Last(c) = "h")
    BY <1>2, <1>4, <1>7 DEF Last
  <2>2. DecodeStep[b][c] = Append(c, "?")
    BY <1>3, <1>7, <2>1, Zenon
  <2>3. ~ Paired(bs, k)
    BY <1>7 DEF Paired
  <2>4. Glyph(bs, k) = <<"?">>
    BY <1>7, <2>3 DEF Glyph
  <2>5. Shown("?") = "?" /\ "?" # "h" /\ b # "h"
    BY <1>7 DEF Shown
  <2>6. InStep(bs, k, Append(c, "?"), t \o <<"?">>)
    BY <1>1, <1>5, <1>7, <2>3, <2>5
  <2> QED BY <2>2, <2>4, <2>6, Zenon
<1>8. CASE b = "t" /\ Paired(bs, k - 1)
  <2>1. k - 1 # 0 /\ bs[k - 1] = "h" /\ Len(c) # 0 /\ c # <<>> /\ Last(c) = "h"
    BY <1>2, <1>4, <1>8 DEF Last
  <2>2. DecodeStep[b][c] = Append(Front(c), "e")
    BY <1>3, <1>8, <2>1, Zenon
  <2>3. ~ Paired(bs, k)
    BY <1>8 DEF Paired
  <2>4. Glyph(bs, k) = <<>>
    BY <1>8, <2>3, Zenon DEF Glyph
  <2>5. t \o <<>> = t
    BY <1>2, ConcatEmptySeq
  <2> DEFINE m == Len(t)
             d == Append(Front(c), "e")
  <2>6. /\ m \in Nat \ {0} /\ Len(c) = m
        /\ Front(c) \in Seq(TextChars) /\ Len(Front(c)) = m - 1
        /\ \A j \in 1 .. m - 1 : Front(c)[j] = c[j]
    BY <1>2, <2>1, FrontLast
  <2>7. /\ d \in Seq(TextChars) /\ Len(d) = m - 1 + 1 /\ d[m - 1 + 1] = "e"
        /\ \A j \in 1 .. m - 1 : d[j] = Front(c)[j]
    <3> DEFINE g == Front(c)
    <3>1. g \in Seq(TextChars) /\ Len(g) = m - 1
      BY <2>6
    <3> HIDE DEF g
    <3>2. /\ Append(g, "e") \in Seq(TextChars) /\ Len(Append(g, "e")) = Len(g) + 1
          /\ Append(g, "e")[Len(g) + 1] = "e"
          /\ \A j \in 1 .. Len(g) : Append(g, "e")[j] = g[j]
      <4>1. "e" \in TextChars /\ g \in Seq(TextChars)
        BY <1>1, <3>1, Zenon
      <4> HIDE DEF m
      <4> QED BY <4>1
    <3> QED BY <3>1, <3>2, Zenon DEF g
  <2>8. m - 1 + 1 = m
    BY <2>6
  <2>9. /\ \A j \in 1 .. m : t[j] = IF j = m THEN "e" ELSE Shown(c[j])
    BY <1>2, <1>8, Zenon
  <2> HIDE DEF d, m
  <2>10. ASSUME NEW j \in 1 .. m PROVE t[j] = Shown(d[j])
    <3>1. CASE j = m
      BY <2>7, <2>8, <2>9, <3>1 DEF Shown
    <3>2. CASE j # m
      <4>1. j \in 1 .. m - 1
        BY <2>6, <3>2
      <4>2. d[j] = c[j]
        BY <2>6, <2>7, <4>1, Zenon
      <4> QED BY <2>9, <3>2, <4>2, Zenon
    <3> QED BY <3>1, <3>2
  <2>11. InStep(bs, k, d, t)
    <3>1. Len(d) = m /\ d[m] = "e" /\ m # 0
      BY <2>6, <2>7, <2>8
    <3>2. ~ (d[Len(d)] = "h") /\ ~ (k # 0 /\ bs[k] = "h")
      BY <1>8, <3>1
    <3>3. Len(t) = m
      BY DEF m
    <3>4. \A j \in 1 .. m : t[j] = IF j = m /\ Paired(bs, k) THEN "e" ELSE Shown(d[j])
      BY <2>3, <2>10, Zenon
    <3> QED BY <1>2, <2>7, <3>1, <3>2, <3>3, <3>4, Zenon DEF InStep
  <2> QED BY <2>2, <2>4, <2>5, <2>11, Zenon DEF d
<1> QED BY <1>6, <1>7, <1>8

\* The code's decoder gives the text of its bytes.
LEMMA DecodeIsText ==
  ASSUME NEW bs \in Seq(Bytes)
  PROVE  Decode(bs) = Text(bs) /\ Text(bs) \in Seq(TextChars)
<1> DEFINE N == Len(bs)
           S == Seq(TextChars)
<1>1. N \in Nat /\ N \in 0 .. N /\ 0 \in 0 .. N
      /\ \A n \in 1 .. N : n \in 0 .. N
  OBVIOUS
<1>2. PICK c : /\ Folding(bs, S, <<>>, DecodeStep, c)
               /\ Decode(bs) = [k \in DOMAIN c[N] |-> Shown(c[N][k])]
  BY DecodeIs, Zenon DEF Decoding
<1>3. PICK t : Flattening(Glyphs(bs), TextChars, t) /\ Text(bs) = t[N]
  <2>1. Flattens(Glyphs(bs), TextChars)
    BY TextIs, Flat, Zenon
  <2>2. Text(bs) = Flatten(Glyphs(bs)) /\ Len(Glyphs(bs)) = N
    BY TextIs, Zenon
  <2> QED BY <2>1, <2>2, Zenon DEF Flattens
<1>4. /\ t[0] = <<>> /\ c[0] = <<>>
      /\ \A n \in 1 .. N : t[n] = t[n - 1] \o Glyph(bs, n) /\ c[n] = DecodeStep[bs[n]][c[n - 1]]
  <2>1. Len(Glyphs(bs)) = N /\ \A k \in 1 .. N : Glyphs(bs)[k] = Glyph(bs, k)
    BY TextIs, Zenon
  <2> QED BY <1>2, <1>3, <2>1, Zenon DEF Folding, Flattening
<1> DEFINE T == {n \in 0 .. N : InStep(bs, n, c[n], t[n])}
<1>5. 0 \in T
  <2>1. InStep(bs, 0, <<>>, <<>>)
    BY DEF InStep
  <2> QED BY <1>1, <1>4, <2>1, Zenon
<1>6. ASSUME NEW n \in 1 .. N, n - 1 \in T PROVE n \in T
  <2>1. InStep(bs, n - 1, c[n - 1], t[n - 1])
    BY <1>6, Zenon
  <2>2. InStep(bs, n, DecodeStep[bs[n]][c[n - 1]], t[n - 1] \o Glyph(bs, n))
    BY <2>1, DecodeOne, Zenon
  <2> QED BY <1>1, <1>4, <2>2, Zenon
<1>7. \A n \in 0 .. N : n \in T
  <2> HIDE DEF N, T
  <2> QED BY <1>1, <1>5, <1>6, Upto, Zenon
<1> DEFINE d == c[N]
           u == t[N]
<1>8. InStep(bs, N, d, u)
  BY <1>1, <1>7, Zenon
<1>9. Decode(bs) = [k \in DOMAIN d |-> Shown(d[k])] /\ Text(bs) = u
  BY <1>2, <1>3, Zenon
<1>10. ~ Paired(bs, N)
  BY <1>1 DEF Paired
<1> HIDE DEF d, u
<1>11. u \in S /\ d \in S /\ Len(d) = Len(u) /\ \A j \in 1 .. Len(u) : u[j] = Shown(d[j])
  BY <1>8, <1>10, Zenon DEF InStep
<1>12. DOMAIN d = 1 .. Len(u) /\ u = [j \in 1 .. Len(u) |-> u[j]]
  BY <1>11
<1>13. [j \in DOMAIN d |-> Shown(d[j])] = [j \in 1 .. Len(u) |-> u[j]]
  BY <1>11, <1>12, Zenon
<1> QED BY <1>9, <1>11, <1>12, <1>13, Zenon

-----------------------------------------------------------------------------
(* A line feed cuts a text, and its lines, in two.                         *)

SameGlyph(v, j, a, k) == Glyph(v, j) = Glyph(a, k)

\* What a byte shows depends on it and on its two neighbours only.
LEMMA GlyphSame ==
  ASSUME NEW v, NEW j, NEW a, NEW k, v[j] = a[k],
         Paired(v, j) <=> Paired(a, k), Paired(v, j - 1) <=> Paired(a, k - 1)
  PROVE  SameGlyph(v, j, a, k)
<1>1. CASE Paired(v, j)
  BY <1>1, Zenon DEF SameGlyph, Glyph
<1>2. CASE ~ Paired(v, j) /\ Paired(v, j - 1)
  BY <1>2, Zenon DEF SameGlyph, Glyph
<1>3. CASE ~ Paired(v, j) /\ ~ Paired(v, j - 1)
  BY <1>3 DEF SameGlyph, Glyph
<1> QED BY <1>1, <1>2, <1>3

\* A line feed cuts the text in two, whatever stands around it.
LEMMA TextCut ==
  ASSUME NEW a \in Seq(Bytes), NEW b \in Seq(Bytes)
  PROVE  Text(Around(a, "n", b)) = Around(Text(a), "n", Text(b))
<1> DEFINE w == Around(a, "n", b)
           m == Len(a)
           n == Len(b)
           Z == Seq(TextChars)
<1>1. m \in Nat /\ n \in Nat /\ "n" \in Bytes
  BY DEF Bytes
<1>2. /\ w \in Seq(Bytes) /\ Len(w) = m + 1 + n
      /\ \A k \in 1 .. m : w[k] = a[k]
      /\ w[m + 1] = "n"
      /\ \A k \in 1 .. n : w[m + 1 + k] = b[k]
  <2>1. IsAround(Bytes, a, "n", b, w)
    BY <1>1, AroundIs, Zenon
  <2> HIDE DEF w
  <2> QED BY <2>1, Zenon DEF IsAround
<1> HIDE DEF w
<1>3. ASSUME NEW k \in 1 .. m PROVE Glyph(w, k) = Glyph(a, k)
  <2> HIDE DEF m, n
  <2>1. w[k] = a[k] /\ (k + 1 <= m => w[k + 1] = a[k + 1]) /\ (k > 1 => w[k - 1] = a[k - 1])
    BY <1>1, <1>2
  <2>2. k = m => w[k + 1] = "n"
    BY <1>2
  <2>3. Paired(w, k) <=> Paired(a, k)
    BY <1>1, <1>2, <2>1, <2>2 DEF Paired, m
  <2>4. Paired(w, k - 1) <=> Paired(a, k - 1)
    BY <1>1, <1>2, <2>1 DEF Paired, m
  <2>5. SameGlyph(w, k, a, k)
    BY <2>1, <2>3, <2>4, GlyphSame, Zenon
  <2> QED BY <2>5, Zenon DEF SameGlyph
<1>4. Glyph(w, m + 1) = <<"n">>
  <2> HIDE DEF m, n
  <2>1. ~ Paired(w, m + 1) /\ ~ Paired(w, (m + 1) - 1)
    BY <1>1, <1>2 DEF Paired
  <2>2. w[m + 1] \notin {"h", "t"}
    BY <1>2
  <2> DEFINE j == m + 1
  <2>4. ~ Paired(w, j) /\ ~ Paired(w, j - 1) /\ w[j] \notin {"h", "t"}
    BY <2>1, <2>2
  <2> HIDE DEF j
  <2>5. Glyph(w, j) = <<w[j]>>
    BY <2>4, Zenon DEF Glyph
  <2>3. Glyph(w, m + 1) = <<w[m + 1]>>
    BY <2>5, Zenon DEF j
  <2> QED BY <1>2, <2>3, Zenon
<1>5. ASSUME NEW k \in 1 .. n PROVE Glyph(w, m + 1 + k) = Glyph(b, k)
  <2> HIDE DEF m, n
  <2>1. /\ w[m + 1 + k] = b[k]
        /\ k + 1 <= n => w[m + 1 + k + 1] = b[k + 1]
        /\ k > 1 => w[(m + 1 + k) - 1] = b[k - 1]
    <3>1. ASSUME k + 1 <= n PROVE w[m + 1 + (k + 1)] = b[k + 1]
      BY <1>1, <1>2, <3>1
    <3>2. ASSUME k > 1 PROVE w[m + 1 + (k - 1)] = b[k - 1]
      BY <1>1, <1>2, <3>2
    <3>3. m + 1 + (k + 1) = m + 1 + k + 1 /\ m + 1 + (k - 1) = (m + 1 + k) - 1
      BY <1>1
    <3> QED BY <1>2, <3>1, <3>2, <3>3
  <2>2. k = 1 => w[(m + 1 + k) - 1] = "n"
    BY <1>1, <1>2
  <2>3. Paired(w, m + 1 + k) <=> Paired(b, k)
    BY <1>1, <1>2, <2>1 DEF Paired, n
  <2>4. Paired(w, (m + 1 + k) - 1) <=> Paired(b, k - 1)
    <3>1. (m + 1 + k) - 1 + 1 = m + 1 + k /\ k - 1 + 1 = k
      BY <1>1
    <3> QED BY <1>1, <1>2, <2>1, <2>2, <3>1 DEF Paired, n
  <2> DEFINE j == m + 1 + k
  <2>5. w[j] = b[k] /\ (Paired(w, j) <=> Paired(b, k)) /\ (Paired(w, j - 1) <=> Paired(b, k - 1))
    BY <2>1, <2>3, <2>4
  <2> HIDE DEF j
  <2>6. SameGlyph(w, j, b, k)
    BY <2>5, GlyphSame, Zenon
  <2> QED BY <2>6, Zenon DEF SameGlyph, j
<1> DEFINE g == Glyphs(w)
           p == Glyphs(a)
           q == Glyphs(b)
<1>6. /\ g \in Seq(Z) /\ Len(g) = m + 1 + n /\ Text(w) = Flatten(g)
      /\ \A k \in 1 .. m + 1 + n : g[k] = Glyph(w, k)
  BY <1>2, TextIs, Zenon
<1>7. /\ p \in Seq(Z) /\ Len(p) = m /\ Text(a) = Flatten(p)
      /\ \A k \in 1 .. m : p[k] = Glyph(a, k)
  BY TextIs, Zenon
<1>8. /\ q \in Seq(Z) /\ Len(q) = n /\ Text(b) = Flatten(q)
      /\ \A k \in 1 .. n : q[k] = Glyph(b, k)
  BY TextIs, Zenon
<1>9. <<"n">> \in Z
  BY DEF TextChars, Bytes
<1>10. IsAround(Z, p, <<"n">>, q, Around(p, <<"n">>, q))
  <2> HIDE DEF Z, p, q
  <2> QED BY <1>7, <1>8, <1>9, AroundIs, Zenon
<1> DEFINE u == Around(p, <<"n">>, q)
<1> HIDE DEF g, p, q, Z, u, m, n
<1>11. /\ u \in Seq(Z) /\ Len(u) = m + 1 + n
       /\ \A k \in 1 .. m : u[k] = p[k]
       /\ u[m + 1] = <<"n">>
       /\ \A k \in 1 .. n : u[m + 1 + k] = q[k]
  BY <1>7, <1>8, <1>10, Zenon DEF IsAround, u
<1>12. ASSUME NEW k \in 1 .. m + 1 + n PROVE g[k] = u[k]
  <2>1. CASE k \in 1 .. m
    BY <1>3, <1>6, <1>7, <1>11, <2>1, Zenon
  <2>2. CASE k = m + 1
    BY <1>4, <1>6, <1>11, <2>2, Zenon
  <2>3. CASE k \notin 1 .. m /\ k # m + 1
    <3> DEFINE j == k - (m + 1)
    <3>1. j \in 1 .. n /\ m + 1 + j = k
      BY <1>1, <2>3
    <3> HIDE DEF j
    <3>2. Glyph(w, k) = Glyph(b, j) /\ u[k] = q[j]
      BY <1>5, <1>11, <3>1, Zenon
    <3> QED BY <1>6, <1>8, <3>1, <3>2, Zenon
  <2> QED BY <2>1, <2>2, <2>3
<1>13. g = u
  BY <1>6, <1>11, <1>12, SameSeq, Zenon
<1>14. Flatten(u) = Around(Flatten(p), "n", Flatten(q))
  <2> DEFINE o == <<<<"n">>>>
  <2>1. o \in Seq(Z)
    BY <1>9
  <2>2. Flatten(o) = <<"n">>
    BY <1>9, FlatOne, Zenon DEF Z
  <2> HIDE DEF o
  <2>3. p \o o \in Seq(Z)
    BY <1>7, <2>1, ConcatProperties, Zenon
  <2>4. Flatten((p \o o) \o q) = Flatten(p \o o) \o Flatten(q)
    BY <1>8, <2>3, FlatConcat DEF Z
  <2>5. Flatten(p \o o) = Flatten(p) \o Flatten(o)
    BY <1>7, <2>1, FlatConcat DEF Z
  <2> QED BY <2>2, <2>4, <2>5, Zenon DEF u, o, Around
<1> QED BY <1>6, <1>7, <1>8, <1>13, <1>14, Zenon DEF w

-----------------------------------------------------------------------------
(* The lines of a text with a line feed in it.                             *)

\* What rstrip leaves is a part of its argument.
LEMMA RStripType ==
  ASSUME NEW X, NEW c \in Seq(X)
  PROVE  RStrip(c) \in Seq(X) /\ RStrip(<<>>) = <<>>
<1> DEFINE S(z) == {0} \cup {k \in DOMAIN z : z[k] # "r"}
           N == Len(c)
<1>1. N \in Nat /\ DOMAIN c = 1 .. N
  OBVIOUS
<1>2. S(c) \in SUBSET Nat /\ S(c) # {} /\ \A y \in S(c) : y <= N /\ y \in 0 .. N
  BY <1>1
<1>3. Max(S(c)) \in S(c)
  <2> HIDE DEF S
  <2> QED BY <1>1, <1>2, MaxOf
<1>4. Max(S(c)) \in 0 .. N
  BY <1>2, <1>3, Zenon
<1>5. RStrip(c) = SubSeq(c, 1, Max(S(c)))
  BY DEF RStrip
<1> DEFINE h == Max(S(c))
<1>6. h \in 1 - 1 .. N /\ 1 \in 1 .. N + 1
  BY <1>1, <1>4
<1> HIDE DEF h, S
<1>7. SubSeq(c, 1, h) \in Seq(X)
  BY <1>6, Slice
<1>8. S(<<>>) = {0}
  BY DEF S
<1>9. Max({0}) = 0
  BY MaxIs
<1>10. SubSeq(<<>>, 1, 0) = <<>>
  BY SubSeqEmpty
<1>11. RStrip(<<>>) = SubSeq(<<>>, 1, Max(S(<<>>)))
  BY DEF RStrip, S
<1> QED BY <1>5, <1>7, <1>8, <1>9, <1>10, <1>11, Zenon DEF h

EndsIn(t) == {k \in DOMAIN t : t[k] = "n"} \cup {Len(t) + 1}

Before(t, e) == {0} \cup {x \in EndsIn(t) : x < e}

Begin(t, e) == Max(Before(t, e))

Entry(t, e) ==
  IF e \in EndsIn(t) THEN Kept(RStrip(SubSeq(t, Begin(t, e) + 1, e - 1))) ELSE <<>>

Entries(t) == [e \in 1 .. Len(t) + 1 |-> Entry(t, e)]

\* The lines are the entries at the positions of a text, in a row.
LEMMA LinesOfIs ==
  ASSUME NEW t
  PROVE  LinesOf(t) = Flatten(Entries(t))
BY Zenon DEF LinesOf, Entries, Entry, Begin, Before, EndsIn

\* Where a line begins.
LEMMA BeginIs ==
  ASSUME NEW X, NEW t \in Seq(X), NEW e \in 1 .. Len(t) + 1
  PROVE  /\ Begin(t, e) \in Before(t, e) /\ Begin(t, e) \in 0 .. e - 1
         /\ \A y \in Before(t, e) : y <= Begin(t, e)
<1>1. /\ Before(t, e) \in SUBSET Nat /\ Before(t, e) # {}
      /\ \A y \in Before(t, e) : y \in 0 .. e - 1 /\ y <= e
  BY DEF Before, EndsIn
<1>2. e \in Nat
  OBVIOUS
<1>3. Max(Before(t, e)) \in Before(t, e) /\ \A y \in Before(t, e) : y <= Max(Before(t, e))
  BY <1>1, <1>2, MaxOf
<1> QED BY <1>1, <1>3, Zenon DEF Begin

\* There is an entry for every position and one for the end.
LEMMA EntriesType ==
  ASSUME NEW X, NEW t \in Seq(X)
  PROVE  /\ Entries(t) \in Seq(Seq(Seq(X))) /\ Len(Entries(t)) = Len(t) + 1
         /\ \A e \in 1 .. Len(t) + 1 : Entries(t)[e] = Entry(t, e)
<1> DEFINE N == Len(t) + 1
           L == Seq(X)
           Z == Seq(L)
<1>1. N \in Nat
  OBVIOUS
<1>2. ASSUME NEW e \in 1 .. N PROVE Entry(t, e) \in Z
  <2> DEFINE b == Begin(t, e)
  <2>1. b \in 0 .. e - 1
    BY BeginIs, Zenon
  <2> HIDE DEF b
  <2>2. b + 1 \in 1 .. Len(t) + 1 /\ e - 1 \in (b + 1) - 1 .. Len(t)
    BY <2>1
  <2>3. SubSeq(t, b + 1, e - 1) \in L
    BY <2>2, Slice
  <2> DEFINE r == RStrip(SubSeq(t, b + 1, e - 1))
  <2>4. r \in L
    BY <2>3, RStripType, Zenon
  <2> HIDE DEF r, L
  <2>5. <<r>> \in Z /\ <<>> \in Z
    BY <2>4
  <2>6. Kept(r) \in Z
    BY <2>5, Zenon DEF Kept
  <2> QED BY <2>5, <2>6, Zenon DEF Entry, r, b
<1>3. Entries(t) \in [1 .. N -> Z]
  BY <1>2, Zenon DEF Entries
<1>4. \A e \in 1 .. N : Entries(t)[e] = Entry(t, e)
  BY Zenon DEF Entries
<1> HIDE DEF Z, N
<1>5. Entries(t) \in Seq(Z) /\ Len(Entries(t)) = N
  BY <1>1, <1>3
<1> QED BY <1>4, <1>5, Zenon DEF N, Z

\* The ends and the beginnings of the lines before the line feed are those of x.
LEMMA EntryLeft ==
  ASSUME NEW X, "n" \in X, NEW x \in Seq(X), NEW y \in Seq(X), NEW e \in 1 .. Len(x) + 1
  PROVE  Alike(Entry(Around(x, "n", y), e), Entry(x, e))
<1> DEFINE w == Around(x, "n", y)
           m == Len(x)
           n == Len(y)
<1>1. m \in Nat /\ n \in Nat
  OBVIOUS
<1>2. /\ w \in Seq(X) /\ Len(w) = m + 1 + n
      /\ \A k \in 1 .. m : w[k] = x[k]
      /\ w[m + 1] = "n"
  <2>1. IsAround(X, x, "n", y, w)
    BY AroundIs, Zenon
  <2> HIDE DEF w
  <2> QED BY <2>1, Zenon DEF IsAround
<1>3. DOMAIN w = 1 .. m + 1 + n /\ DOMAIN x = 1 .. m
  <2> HIDE DEF w
  <2> QED BY <1>2
<1> HIDE DEF w
<1>4. ASSUME NEW k \in 1 .. m + 1 PROVE k \in EndsIn(w) <=> k \in EndsIn(x)
  <2> HIDE DEF m, n
  <2>1. k \in EndsIn(w) <=> (k \in 1 .. m + 1 + n /\ w[k] = "n") \/ k = m + 1 + n + 1
    BY <1>2, <1>3, Zenon DEF EndsIn
  <2>2. k \in EndsIn(x) <=> (k \in 1 .. m /\ x[k] = "n") \/ k = m + 1
    BY <1>3, Zenon DEF EndsIn, m
  <2> QED BY <1>1, <1>2, <2>1, <2>2
<1>5. Before(w, e) = Before(x, e)
  <2>1. ASSUME NEW z, z < e, z \in EndsIn(w) \/ z \in EndsIn(x) PROVE z \in 1 .. m + 1
    <3>1. z \in Nat \ {0}
      BY <1>1, <1>2, <1>3, <2>1 DEF EndsIn
    <3> QED BY <1>1, <2>1, <3>1
  <2>2. ASSUME NEW z PROVE z \in EndsIn(w) /\ z < e <=> z \in EndsIn(x) /\ z < e
    BY <1>4, <2>1, Zenon
  <2> QED BY <2>2, Zenon DEF Before
<1>6. Begin(w, e) = Begin(x, e)
  BY <1>5, Zenon DEF Begin
<1> DEFINE b == Begin(x, e)
<1>7. b \in 0 .. e - 1
  BY BeginIs, Zenon
<1> HIDE DEF b
<1>8. /\ b + 1 \in 1 .. Len(x) + 1 /\ e - 1 \in (b + 1) - 1 .. Len(x)
      /\ 0 + (b + 1) = b + 1 /\ 0 + (e - 1) = e - 1
      /\ 0 + (e - 1) <= Len(w)
      /\ \A k \in b + 1 .. e - 1 : 0 + k = k /\ k \in 1 .. m
  BY <1>1, <1>2, <1>7
<1>9. SubSeq(w, b + 1, e - 1) = SubSeq(x, b + 1, e - 1)
  <2> DEFINE lo == b + 1
             hi == e - 1
  <2>1. /\ lo \in 1 .. Len(x) + 1 /\ hi \in lo - 1 .. Len(x)
        /\ 0 + lo = lo /\ 0 + hi = hi
        /\ 0 + hi <= Len(w) /\ 0 \in Nat
        /\ \A k \in lo .. hi : w[0 + k] = x[k]
    BY <1>2, <1>8
  <2> HIDE DEF lo, hi
  <2>2. Alike(SubSeq(w, 0 + lo, 0 + hi), SubSeq(x, lo, hi))
    BY <1>2, <2>1, SliceSame, Zenon
  <2> QED BY <2>1, <2>2, Zenon DEF Alike, lo, hi
<1>10. e \in EndsIn(w) <=> e \in EndsIn(x)
  BY <1>4, Zenon
<1> QED BY <1>6, <1>9, <1>10, Zenon DEF Alike, Entry, w, b

\* Those after the line feed are the ones of y, shifted.
LEMMA EntryRight ==
  ASSUME NEW X, "n" \in X, NEW x \in Seq(X), NEW y \in Seq(X), NEW f \in 1 .. Len(y) + 1
  PROVE  Alike(Entry(Around(x, "n", y), Len(x) + 1 + f), Entry(y, f))
<1> DEFINE w == Around(x, "n", y)
           m == Len(x) + 1
           n == Len(y)
           e == m + f
<1>1. m \in Nat \ {0} /\ n \in Nat /\ f \in 1 .. n + 1 /\ f \in Nat
  OBVIOUS
<1>2. /\ w \in Seq(X) /\ Len(w) = m + n
      /\ w[m] = "n"
      /\ \A k \in 1 .. n : w[m + k] = y[k]
  <2>1. IsAround(X, x, "n", y, w)
    BY AroundIs, Zenon
  <2> HIDE DEF w
  <2> QED BY <2>1, Zenon DEF IsAround
<1>3. DOMAIN w = 1 .. m + n /\ DOMAIN y = 1 .. n
  <2> HIDE DEF w
  <2> QED BY <1>2
<1> HIDE DEF w, m
<1>w. \A k : k \in EndsIn(w) <=> (k \in 1 .. m + n /\ w[k] = "n") \/ k = m + n + 1
  BY <1>2, <1>3, Zenon DEF EndsIn
<1>y. \A k : k \in EndsIn(y) <=> (k \in 1 .. n /\ y[k] = "n") \/ k = n + 1
  BY <1>3, Zenon DEF EndsIn
<1> HIDE DEF n
<1>4. ASSUME NEW k \in 1 .. n + 1 PROVE m + k \in EndsIn(w) <=> k \in EndsIn(y)
  <2>1. CASE k = n + 1
    <3>1. m + k = m + n + 1
      BY <1>1, <2>1
    <3> QED BY <1>w, <1>y, <2>1, <3>1, Zenon
  <2>2. CASE k # n + 1
    <3>1. k \in 1 .. n /\ m + k # m + n + 1 /\ m + k \in 1 .. m + n
      BY <1>1, <2>2
    <3> QED BY <1>2, <1>w, <1>y, <2>2, <3>1, Zenon
  <2> QED BY <2>1, <2>2
<1>5. m \in EndsIn(w) /\ m < e
  <2>1. m \in 1 .. m + n /\ m < e
    BY <1>1
  <2> QED BY <1>2, <1>w, <2>1, Zenon
<1> DEFINE b == Begin(y, f)
<1>6. b \in Before(y, f) /\ b \in 0 .. f - 1 /\ \A z \in Before(y, f) : z <= b
  BY BeginIs, Zenon DEF n
<1>7. Begin(w, e) = m + b
  <2> HIDE DEF b
  <2>1. m + b \in Before(w, e)
    <3>1. CASE b = 0
      <4>1. m + b = m
        BY <1>1, <3>1
      <4> QED BY <1>5, <4>1, Zenon DEF Before
    <3>2. CASE b # 0
      <4>1. b \in EndsIn(y)
        BY <1>6, <3>2, Zenon DEF Before
      <4>2. b \in 1 .. n + 1 /\ m + b < e
        BY <1>1, <1>6, <3>2
      <4>3. m + b \in EndsIn(w)
        BY <1>4, <4>1, <4>2, Zenon
      <4> QED BY <4>2, <4>3, Zenon DEF Before
    <3> QED BY <3>1, <3>2
  <2>2. ASSUME NEW z \in Before(w, e) PROVE z \in Nat /\ z <= m + b
    <3>1. CASE z = 0
      BY <1>1, <1>6, <3>1
    <3>2. CASE z # 0
      <4>1. z \in EndsIn(w) /\ z < e
        BY <3>2, Zenon DEF Before
      <4>2. z \in Nat
        BY <1>1, <1>w, <4>1
      <4>3. CASE z <= m
        BY <1>1, <1>6, <4>2, <4>3
      <4>4. CASE ~ (z <= m)
        <5> DEFINE k == z - m
        <5>1. k \in 1 .. n + 1 /\ m + k = z /\ k < f
          BY <1>1, <4>1, <4>2, <4>4
        <5> HIDE DEF k
        <5>2. k \in EndsIn(y)
          BY <1>4, <4>1, <5>1, Zenon
        <5>3. k <= b
          BY <1>6, <5>1, <5>2, Zenon DEF Before
        <5> QED BY <1>1, <1>6, <4>2, <5>1, <5>3
      <4> QED BY <4>3, <4>4
    <3> QED BY <3>1, <3>2
  <2>3. Before(w, e) \in SUBSET Nat
    BY <2>2, Zenon
  <2> HIDE DEF e
  <2>4. Max(Before(w, e)) = m + b
    <3> DEFINE c == m + b
    <3> HIDE DEF c
    <3>1. c \in Before(w, e) /\ \A z \in Before(w, e) : z <= c
      BY <2>1, <2>2, Zenon DEF c
    <3>2. Max(Before(w, e)) = c
      BY <2>3, <3>1, MaxIs
    <3> QED BY <3>2 DEF c
  <2> QED BY <2>4, Zenon DEF Begin
<1> HIDE DEF b
<1>8. SubSeq(w, (m + b) + 1, e - 1) = SubSeq(y, b + 1, f - 1)
  <2> DEFINE lo == b + 1
             hi == f - 1
  <2>1. /\ lo \in 1 .. n + 1 /\ hi \in lo - 1 .. n
        /\ m + lo = (m + b) + 1 /\ m + hi = e - 1
        /\ m + hi <= m + n /\ m \in Nat
        /\ \A k \in lo .. hi : k \in 1 .. n
    BY <1>1, <1>6
  <2> HIDE DEF lo, hi
  <2>2. \A k \in lo .. hi : w[m + k] = y[k]
    BY <1>2, <2>1, Zenon
  <2>3. Alike(SubSeq(w, m + lo, m + hi), SubSeq(y, lo, hi))
    BY <1>2, <2>1, <2>2, SliceSame, Zenon DEF n
  <2> QED BY <2>1, <2>3, Zenon DEF Alike, lo, hi
<1>9. e \in EndsIn(w) <=> f \in EndsIn(y)
  BY <1>1, <1>4, Zenon
<1> HIDE DEF e
<1>10. Entry(w, e) = Entry(y, f)
  BY <1>7, <1>8, <1>9, Zenon DEF Entry, b
<1> QED BY <1>10, Zenon DEF Alike, w, e, m

\* The lines before a line feed, then those after it.
LEMMA LinesCut ==
  ASSUME NEW X, "n" \in X, NEW x \in Seq(X), NEW y \in Seq(X)
  PROVE  /\ LinesOf(x) \in Seq(Seq(X))
         /\ LinesOf(Around(x, "n", y)) = LinesOf(x) \o LinesOf(y)
<1> DEFINE w == Around(x, "n", y)
           m == Len(x) + 1
           n == Len(y) + 1
           L == Seq(X)
           Z == Seq(L)
           p == Entries(x)
           q == Entries(y)
           g == Entries(w)
<1>1. m \in Nat /\ n \in Nat
  OBVIOUS
<1>2. w \in Seq(X) /\ Len(w) + 1 = m + n
  <2>1. IsAround(X, x, "n", y, w)
    BY AroundIs, Zenon
  <2>2. w \in Seq(X) /\ Len(w) = Len(x) + 1 + Len(y)
    BY <2>1, Zenon DEF IsAround
  <2> HIDE DEF w
  <2> QED BY <2>2
<1> HIDE DEF w
<1>3. p \in Seq(Z) /\ Len(p) = m /\ \A e \in 1 .. m : p[e] = Entry(x, e)
  BY EntriesType, Zenon
<1>4. q \in Seq(Z) /\ Len(q) = n /\ \A e \in 1 .. n : q[e] = Entry(y, e)
  BY EntriesType, Zenon
<1>5. g \in Seq(Z) /\ Len(g) = m + n /\ \A e \in 1 .. m + n : g[e] = Entry(w, e)
  <2>1. g \in Seq(Z) /\ Len(g) = Len(w) + 1 /\ \A e \in 1 .. Len(w) + 1 : g[e] = Entry(w, e)
    BY <1>2, EntriesType, Zenon
  <2> QED BY <1>2, <2>1, Zenon
<1>6. ASSUME NEW e \in 1 .. m PROVE Entry(w, e) = Entry(x, e)
  <2>1. Alike(Entry(w, e), Entry(x, e))
    BY EntryLeft, Zenon DEF w
  <2> QED BY <2>1, Zenon DEF Alike
<1>7. ASSUME NEW e \in 1 .. n PROVE Entry(w, m + e) = Entry(y, e)
  <2>1. Alike(Entry(w, Len(x) + 1 + e), Entry(y, e))
    BY EntryRight, Zenon DEF w
  <2> QED BY <2>1, Zenon DEF Alike
<1> HIDE DEF m, n, p, q, g, Z
<1>8. /\ p \o q \in Seq(Z) /\ Len(p \o q) = m + n
      /\ \A e \in 1 .. m : (p \o q)[e] = p[e]
      /\ \A e \in 1 .. n : (p \o q)[m + e] = q[e]
  <2>1. /\ p \o q \in Seq(Z) /\ Len(p \o q) = Len(p) + Len(q)
        /\ \A e \in 1 .. Len(p) : (p \o q)[e] = p[e]
        /\ \A e \in 1 .. Len(q) : (p \o q)[Len(p) + e] = q[e]
    <3>1. p \in Seq(Z) /\ q \in Seq(Z)
      BY <1>3, <1>4, Zenon
    <3> QED BY <3>1
  <2> QED BY <1>3, <1>4, <2>1, Zenon
<1> DEFINE u == p \o q
<1>9. /\ u \in Seq(Z) /\ Len(u) = m + n
      /\ \A e \in 1 .. m : u[e] = p[e]
      /\ \A e \in 1 .. n : u[m + e] = q[e]
  BY <1>8, Zenon
<1> HIDE DEF u
<1>10. ASSUME NEW e \in 1 .. m + n PROVE g[e] = u[e]
  <2>1. CASE e \in 1 .. m
    BY <1>3, <1>5, <1>6, <1>9, <2>1, Zenon
  <2>2. CASE e \notin 1 .. m
    <3> DEFINE j == e - m
    <3>1. j \in 1 .. n /\ m + j = e
      BY <1>1, <2>2
    <3> HIDE DEF j
    <3>2. Entry(w, e) = Entry(y, j) /\ u[e] = q[j]
      BY <1>7, <1>9, <3>1, Zenon
    <3> QED BY <1>4, <1>5, <3>1, <3>2, Zenon
  <2> QED BY <2>1, <2>2
<1>11. g = u
  BY <1>5, <1>9, <1>10, SameSeq, Zenon
<1> HIDE DEF L
<1>12. Flatten(p) \in Seq(L) /\ Flatten(p \o q) = Flatten(p) \o Flatten(q)
  BY <1>3, <1>4, FlatConcat DEF Z
<1>13. LinesOf(w) = Flatten(g) /\ LinesOf(x) = Flatten(p) /\ LinesOf(y) = Flatten(q)
  BY LinesOfIs DEF g, p, q
<1> QED BY <1>11, <1>12, <1>13, Zenon DEF u, w, L

\* A text without a line feed is one line.
LEMMA OneLine ==
  ASSUME NEW X, "n" \notin X, NEW p \in Seq(X)
  PROVE  LinesOf(p) = Kept(RStrip(p))
<1> DEFINE N == Len(p)
           L == Seq(X)
           g == Entries(p)
<1>1. N \in Nat /\ DOMAIN p = 1 .. N /\ N + 1 \in Nat /\ (N + 1) - 1 = N
      /\ \A k \in 1 .. N : p[k] \in X /\ k # N + 1
  OBVIOUS
<1>2. EndsIn(p) = {N + 1}
  BY <1>1, Zenon DEF EndsIn
<1>3. Begin(p, N + 1) = 0
  <2>1. Before(p, N + 1) = {0}
    <3>1. {x \in {N + 1} : x < N + 1} = {}
      BY <1>1
    <3> QED BY <1>2, <3>1, Zenon DEF Before
  <2>2. Max({0}) = 0
    BY MaxIs
  <2> QED BY <2>1, <2>2, Zenon DEF Begin
<1>4. SubSeq(p, 0 + 1, N) = p
  <2>1. 1 \in 1 .. Len(p) + 1 /\ N \in 1 - 1 .. Len(p) /\ 0 + 1 = 1 /\ (N - 1) + 1 = N
        /\ \A k \in 1 .. N : (1 + k) - 1 = k
    OBVIOUS
  <2>2. /\ SubSeq(p, 1, N) \in Seq(X)
        /\ Len(SubSeq(p, 1, N)) = (N - 1) + 1
        /\ \A k \in 1 .. (N - 1) + 1 : SubSeq(p, 1, N)[k] = p[(1 + k) - 1]
    <3> HIDE DEF N
    <3> QED BY <2>1, Slice
  <2>3. Len(SubSeq(p, 1, N)) = N /\ \A k \in 1 .. N : p[k] = SubSeq(p, 1, N)[k]
    BY <2>1, <2>2, Zenon
  <2> DEFINE u == SubSeq(p, 1, N)
  <2>4. u \in Seq(X) /\ Len(p) = Len(u) /\ \A k \in 1 .. Len(p) : p[k] = u[k]
    BY <2>2, <2>3, Zenon
  <2> HIDE DEF u
  <2>5. p = u
    BY <2>4, SameSeq
  <2> QED BY <2>1, <2>5, Zenon DEF u
<1>5. Entry(p, N + 1) = Kept(RStrip(p))
  <2>1. N + 1 \in EndsIn(p)
    BY <1>2, Zenon
  <2>2. SubSeq(p, Begin(p, N + 1) + 1, (N + 1) - 1) = p
    BY <1>1, <1>3, <1>4, Zenon
  <2> QED BY <2>1, <2>2, Zenon DEF Entry
<1>6. \A k \in 1 .. N : Entry(p, k) = <<>>
  BY <1>1, <1>2, Zenon DEF Entry
<1>7. g \in Seq(Seq(L)) /\ Len(g) = N + 1 /\ \A k \in 1 .. N + 1 : g[k] = Entry(p, k)
  BY EntriesType, Zenon
<1> HIDE DEF g, L
<1>8. PICK f : Flattening(g, L, f) /\ Flatten(g) = f[N + 1]
  <2>1. Flattens(g, L)
    BY <1>7, Flat, Zenon
  <2> QED BY <1>7, <2>1, Zenon DEF Flattens
<1>9. f[0] = <<>> /\ \A k \in 1 .. N + 1 : f[k] = f[k - 1] \o g[k] /\ g[k] = Entry(p, k)
  BY <1>7, <1>8, Zenon DEF Flattening
<1>10. <<>> \o <<>> = <<>>
  OBVIOUS
<1>11. f[N] = <<>>
  <2> DEFINE T == {k \in 0 .. N : f[k] = <<>>}
  <2>1. 0 \in 0 .. N /\ N \in 0 .. N /\ \A k \in 1 .. N : k \in 0 .. N /\ k \in 1 .. N + 1
    BY <1>1
  <2>2. 0 \in T
    BY <1>9, <2>1, Zenon
  <2>3. ASSUME NEW k \in 1 .. N, k - 1 \in T PROVE k \in T
    <3>1. f[k - 1] = <<>>
      BY <2>3, Zenon
    <3>2. f[k] = f[k - 1] \o Entry(p, k)
      BY <1>9, <2>1, Zenon
    <3>3. f[k] = <<>>
      BY <1>6, <1>10, <3>1, <3>2, Zenon
    <3> QED BY <2>1, <3>3, Zenon
  <2> HIDE DEF T, N
  <2>4. \A k \in 0 .. N : k \in T
    BY <1>1, <2>2, <2>3, Upto, Zenon
  <2> QED BY <2>1, <2>4, Zenon DEF T
<1>12. f[N + 1] = <<>> \o Entry(p, N + 1)
  <2>1. N + 1 \in 1 .. N + 1
    BY <1>1
  <2> QED BY <1>1, <1>9, <1>11, <2>1, Zenon
<1>13. <<>> \o Entry(p, N + 1) = Entry(p, N + 1)
  <2>1. Entry(p, N + 1) \in Seq(L)
    <3>1. N + 1 \in 1 .. N + 1
      BY <1>1
    <3>2. g[N + 1] \in Seq(L)
      <4> HIDE DEF N
      <4> DEFINE Z == Seq(L)
      <4>1. g \in Seq(Z) /\ N + 1 \in 1 .. Len(g)
        BY <1>7, <3>1, Zenon
      <4> HIDE DEF Z
      <4>2. g[N + 1] \in Z
        BY <4>1
      <4> QED BY <4>2 DEF Z
    <3> QED BY <1>7, <3>1, <3>2, Zenon
  <2> QED BY <2>1, ConcatEmptySeq, Zenon
<1>14. LinesOf(p) = Flatten(g)
  BY LinesOfIs, Zenon DEF g
<1> QED BY <1>5, <1>8, <1>12, <1>13, <1>14, Zenon

\* No text, no lines.
LEMMA NoLines == LinesOf(<<>>) = <<>>
<1>1. <<>> \in Seq({}) /\ "n" \notin {}
  OBVIOUS
<1>2. LinesOf(<<>>) = Kept(RStrip(<<>>))
  BY <1>1, OneLine
<1>3. RStrip(<<>>) = <<>>
  BY <1>1, RStripType
<1> QED BY <1>2, <1>3 DEF Kept

-----------------------------------------------------------------------------
(* The rows of a sequence of bytes.                                        *)

RowsOf(bs) == LinesOf(Text(bs))

\* The row of one piece.
RowOf(p) == Kept(RStrip(Decode(p)))

PlainBytes == Bytes \ {"n"}

RowLists == Seq(Seq(TextChars))

\* Rows before and after a line feed.
LEMMA RowsCut ==
  ASSUME NEW a \in Seq(Bytes), NEW b \in Seq(Bytes)
  PROVE  RowsOf(a) \in RowLists /\ RowsOf(Around(a, "n", b)) = RowsOf(a) \o RowsOf(b)
<1>1. Text(a) \in Seq(TextChars) /\ Text(b) \in Seq(TextChars)
  BY DecodeIsText, Zenon
<1>2. "n" \in TextChars
  BY DEF TextChars, Bytes
<1>3. Text(Around(a, "n", b)) = Around(Text(a), "n", Text(b))
  BY TextCut
<1> DEFINE x == Text(a)
           y == Text(b)
<1> HIDE DEF x, y
<1>4. x \in Seq(TextChars) /\ y \in Seq(TextChars)
  BY <1>1, Zenon DEF x, y
<1>5. LinesOf(x) \in RowLists /\ LinesOf(Around(x, "n", y)) = LinesOf(x) \o LinesOf(y)
  BY <1>2, <1>4, LinesCut DEF RowLists
<1> QED BY <1>3, <1>5, Zenon DEF RowsOf, x, y

\* A text of bytes without a line feed has none.
LEMMA PlainText ==
  ASSUME NEW p \in Seq(PlainBytes)
  PROVE  p \in Seq(Bytes) /\ Text(p) \in Seq(TextChars \ {"n"})
<1> DEFINE X == TextChars \ {"n"}
           Z == Seq(X)
           N == Len(p)
           g == Glyphs(p)
<1>1. p \in Seq(Bytes) /\ N \in Nat /\ \A k \in 1 .. N : p[k] \in PlainBytes
  <2>1. PlainBytes \subseteq Bytes
    BY DEF PlainBytes
  <2> QED BY <2>1
<1>2. ASSUME NEW k \in 1 .. N PROVE Glyph(p, k) \in Z
  <2>1. <<"e">> \in Z /\ <<>> \in Z /\ <<"?">> \in Z
    BY DEF TextChars, Bytes
  <2>2. p[k] \in X
    BY <1>1 DEF TextChars, PlainBytes
  <2> HIDE DEF X
  <2>3. <<p[k]>> \in Z
    BY <2>2
  <2> QED BY <2>1, <2>3, Zenon DEF Glyph
<1>3. g \in [1 .. N -> Z]
  BY <1>2, Zenon DEF Glyphs
<1> HIDE DEF g, Z, N, X
<1>4. g \in Seq(Z)
  BY <1>1, <1>3
<1>5. Flatten(g) \in Seq(X)
  BY <1>4, FlatConcat DEF Z
<1>6. Text(p) = Flatten(g)
  BY <1>1, TextIs, Zenon DEF g
<1> QED BY <1>1, <1>5, <1>6, Zenon DEF X

\* The bytes of one line give its row.
LEMMA RowsPlain ==
  ASSUME NEW p \in Seq(PlainBytes)
  PROVE  RowsOf(p) = RowOf(p)
<1>1. p \in Seq(Bytes) /\ Text(p) \in Seq(TextChars \ {"n"})
  BY PlainText, Zenon
<1>2. Decode(p) = Text(p)
  BY <1>1, DecodeIsText, Zenon
<1> DEFINE X == TextChars \ {"n"}
           t == Text(p)
<1>3. "n" \notin X /\ t \in Seq(X)
  BY <1>1, Zenon
<1> HIDE DEF X, t
<1>4. LinesOf(t) = Kept(RStrip(t))
  BY <1>3, OneLine
<1> QED BY <1>2, <1>4, Zenon DEF t, RowsOf, RowOf

\* Nothing, or lines that are all ended.
Whole(s) == s = <<>> \/ \E a \in Seq(Bytes) : s = a \o <<"n">>

\* No bytes, no rows.
LEMMA NoRows == RowsOf(<<>>) = <<>>
<1>0. <<>> \in Seq(Bytes) /\ Text(<<>>) = <<>>
  <2>1. <<>> \in Seq(Bytes) /\ Len(<<>>) = 0
    OBVIOUS
  <2> DEFINE e == <<>>
  <2>2. Glyphs(e) \in Seq(Seq(TextChars)) /\ Len(Glyphs(e)) = Len(e) /\ Text(e) = Flatten(Glyphs(e))
    BY <2>1, TextIs, Zenon
  <2>3. Glyphs(e) = <<>>
    <3> DEFINE g == Glyphs(e)
               Z == Seq(TextChars)
    <3>1. g \in Seq(Z) /\ Len(g) = 0
      BY <2>1, <2>2, Zenon
    <3> HIDE DEF g, Z
    <3>2. g = <<>>
      BY <3>1
    <3> QED BY <3>2, Zenon DEF g
  <2>4. Flatten(<<>>) = <<>>
    BY <2>1, FlatOne, Zenon
  <2> QED BY <2>1, <2>2, <2>3, <2>4, Zenon
<1> QED BY <1>0, NoLines, Zenon DEF RowsOf

RowsJoin(s, b) == RowsOf(s \o b) = RowsOf(s) \o RowsOf(b)

\* The rows of ended lines stay when more bytes come.
LEMMA RowsAfter ==
  ASSUME NEW s \in Seq(Bytes), Whole(s), NEW b \in Seq(Bytes)
  PROVE  RowsJoin(s, b)
<1> SUFFICES RowsOf(s \o b) = RowsOf(s) \o RowsOf(b)
  BY Zenon DEF RowsJoin
<1>0. <<>> \in Seq(Bytes)
  OBVIOUS
<1>1. RowsOf(<<>>) = <<>>
  BY NoRows, Zenon
<1>2. RowsOf(b) \in RowLists /\ RowsOf(s) \in RowLists
  BY <1>0, RowsCut, Zenon
<1>3. CASE s = <<>>
  <2>1. <<>> \o b = b
    BY ConcatEmptySeq, Zenon
  <2>2. <<>> \o RowsOf(b) = RowsOf(b)
    BY <1>2, ConcatEmptySeq, Zenon DEF RowLists
  <2> QED BY <1>1, <1>3, <2>1, <2>2, Zenon
<1>4. CASE s # <<>>
  <2>1. PICK a \in Seq(Bytes) : s = a \o <<"n">>
    BY <1>4, Zenon DEF Whole
  <2>2. RowsOf(a) \in RowLists /\ RowsOf(Around(a, "n", b)) = RowsOf(a) \o RowsOf(b)
    BY RowsCut
  <2>3. RowsOf(Around(a, "n", <<>>)) = RowsOf(a) \o <<>>
    <3> DEFINE e == <<>>
    <3>1. e \in Seq(Bytes)
      BY <1>0
    <3> HIDE DEF e
    <3>2. RowsOf(Around(a, "n", e)) = RowsOf(a) \o RowsOf(e)
      BY <3>1, RowsCut
    <3> QED BY <1>1, <3>2, Zenon DEF e
  <2>4. RowsOf(a) \o <<>> = RowsOf(a)
    BY <2>2, ConcatEmptySeq, Zenon DEF RowLists
  <2>5. s \o <<>> = s
    BY ConcatEmptySeq, Zenon
  <2>6. Around(a, "n", <<>>) = s \o <<>> /\ Around(a, "n", b) = s \o b
    BY <2>1, Zenon DEF Around
  <2> QED BY <2>2, <2>3, <2>4, <2>5, <2>6, Zenon
<1> QED BY <1>3, <1>4

-----------------------------------------------------------------------------
(* The pieces of split: all but the last are lines that ended.             *)

RowParts(ps) == [k \in DOMAIN ps |-> RowOf(ps[k])]

\* The rows that persist writes for pieces.
PieceRows(ps) == Flatten(RowParts(ps))

\* The row of a piece is a line or nothing.
LEMMA RowOfType ==
  ASSUME NEW p \in Seq(Bytes)
  PROVE  RowOf(p) \in RowLists
<1>1. Decode(p) \in Seq(TextChars)
  BY DecodeIsText, Zenon
<1> DEFINE L == Seq(TextChars)
           r == RStrip(Decode(p))
<1>2. r \in L
  BY <1>1, RStripType, Zenon
<1> HIDE DEF L, r
<1>3. <<r>> \in Seq(L) /\ <<>> \in Seq(L)
  BY <1>2
<1> QED BY <1>3, Zenon DEF RowOf, Kept, RowLists, L, r

\* One piece more, one row more.
LEMMA PieceRowsAppend ==
  ASSUME NEW q \in Seq(Seq(Bytes)), NEW p \in Seq(Bytes)
  PROVE  /\ PieceRows(q) \in RowLists
         /\ PieceRows(Append(q, p)) = PieceRows(q) \o RowOf(p)
         /\ PieceRows(<<>>) = <<>>
<1> DEFINE B == Seq(Bytes)
           N == Len(q)
           s == Append(q, p)
           c == RowParts(q)
           d == RowParts(s)
           o == <<RowOf(p)>>
           L == Seq(TextChars)
<1>1. q \in Seq(B) /\ p \in B
  OBVIOUS
<1> HIDE DEF B
<1>2. /\ N \in Nat /\ DOMAIN q = 1 .. N /\ DOMAIN s = 1 .. N + 1 /\ s[N + 1] = p
      /\ \A k \in 1 .. N : q[k] \in B /\ s[k] = q[k]
  BY <1>1
<1>3. /\ \A k \in 1 .. N : RowOf(q[k]) \in RowLists
      /\ RowOf(p) \in RowLists
  BY <1>1, <1>2, RowOfType, Zenon DEF B
<1>4. c \in [1 .. N -> RowLists]
  BY <1>2, <1>3, Zenon DEF RowParts
<1> HIDE DEF c, d, o, s, N
<1>5. c \in Seq(RowLists) /\ Len(c) = N /\ o \in Seq(RowLists) /\ Len(o) = 1 /\ o[1] = RowOf(p)
  <2>1. c \in Seq(RowLists) /\ Len(c) = N
    BY <1>2, <1>4, TableSeq
  <2>2. o \in Seq(RowLists) /\ Len(o) = 1 /\ o[1] = RowOf(p)
    BY <1>3 DEF o
  <2> QED BY <2>1, <2>2, Zenon
<1>6. \A k \in 1 .. N : c[k] = RowOf(q[k])
  BY <1>2, Zenon DEF c, RowParts
<1>7. /\ \A k \in 1 .. N + 1 : d[k] = RowOf(s[k])
      /\ d = [k \in 1 .. N + 1 |-> RowOf(s[k])]
  BY <1>2, Zenon DEF d, RowParts
<1>8. ASSUME NEW k \in 1 .. N + 1 PROVE RowOf(s[k]) \in RowLists
  <2>1. k \in 1 .. N \/ k = N + 1
    BY <1>2
  <2> QED BY <1>2, <1>3, <2>1, Zenon
<1>9. d \in [1 .. N + 1 -> RowLists]
  BY <1>7, <1>8, Zenon
<1>10. d \in Seq(RowLists) /\ Len(d) = N + 1
  <2> DEFINE M == N + 1
  <2>1. M \in Nat /\ d \in [1 .. M -> RowLists]
    <3>1. M \in Nat
      BY <1>2
    <3> QED BY <1>9, <3>1, Zenon
  <2> HIDE DEF M
  <2>2. d \in Seq(RowLists) /\ Len(d) = M
    BY <2>1, TableSeq
  <2> QED BY <2>2, Zenon DEF M
<1>11. d = c \o o
  <2> DEFINE u == c \o o
  <2>1. /\ u \in Seq(RowLists) /\ Len(u) = Len(c) + 1
        /\ \A k \in 1 .. Len(c) : u[k] = c[k]
        /\ u[Len(c) + 1] = o[1]
    <3>1. c \in Seq(RowLists) /\ o \in Seq(RowLists) /\ Len(o) = 1
      BY <1>5, Zenon
    <3> QED BY <3>1, OneMore
  <2> HIDE DEF u
  <2>2. /\ u \in Seq(RowLists) /\ Len(u) = N + 1
        /\ \A k \in 1 .. N : u[k] = c[k]
        /\ u[N + 1] = RowOf(p)
    BY <1>5, <2>1, Zenon
  <2>3. ASSUME NEW k \in 1 .. N + 1 PROVE d[k] = u[k]
    <3>1. k \in 1 .. N \/ k = N + 1
      BY <1>2
    <3> QED BY <1>2, <1>6, <1>7, <2>2, <3>1, Zenon
  <2>4. d = u
    BY <1>10, <2>2, <2>3, SameSeq, Zenon
  <2> QED BY <2>4, Zenon DEF u
<1> HIDE DEF L
<1>12. Flatten(c) \in Seq(L) /\ Flatten(c \o o) = Flatten(c) \o Flatten(o)
  BY <1>5, FlatConcat DEF RowLists, L
<1>13. Flatten(o) = RowOf(p)
  BY <1>3, FlatOne, Zenon DEF o, RowLists
<1>14. RowParts(<<>>) = <<>>
  BY DEF RowParts
<1>15. Flatten(<<>>) = <<>>
  BY <1>3, FlatOne, Zenon DEF RowLists
<1> QED BY <1>11, <1>12, <1>13, <1>14, <1>15, Zenon DEF PieceRows, c, d, s, L, RowLists

RowsAdd(q, p) == PieceRows(Append(q, p)) = PieceRows(q) \o RowOf(p) /\ PieceRows(<<>>) = <<>>

\* The same, as a predicate.
LEMMA PieceRowsMore ==
  ASSUME NEW q \in Seq(Seq(Bytes)), NEW p \in Seq(Bytes)
  PROVE  RowsAdd(q, p)
BY PieceRowsAppend DEF RowsAdd

EndsWith(y, z) == Front(Append(y, z)) = y /\ Last(Append(y, z)) = z

\* The last element and the ones before it.
LEMMA FrontLastAppend ==
  ASSUME NEW X, NEW y \in Seq(X), NEW z \in X
  PROVE  EndsWith(y, z)
<1> DEFINE x == Append(y, z)
<1>1. /\ x \in Seq(X) /\ Len(x) = Len(y) + 1 /\ x # <<>> /\ x[Len(y) + 1] = z
      /\ \A k \in 1 .. Len(y) : x[k] = y[k]
  OBVIOUS
<1> HIDE DEF x
<1>2. /\ Front(x) \in Seq(X) /\ Len(Front(x)) = Len(x) - 1 /\ Last(x) = x[Len(x)]
      /\ \A k \in 1 .. Len(x) - 1 : Front(x)[k] = x[k]
  BY <1>1, FrontLast
<1> DEFINE f == Front(x)
           n == Len(y)
<1>3. /\ n \in Nat /\ f \in Seq(X) /\ Len(f) = n /\ Last(x) = z
      /\ \A k \in 1 .. n : f[k] = y[k]
  <2>1. n \in Nat /\ Len(x) = n + 1 /\ Len(x) - 1 = n
    BY <1>1
  <2> QED BY <1>1, <1>2, <2>1, Zenon
<1> HIDE DEF f
<1>4. f = y
  BY <1>3, SameSeq
<1> QED BY <1>3, <1>4, Zenon DEF f, x, EndsWith

\* A sequence is its front and its last element.
LEMMA FrontThenLast ==
  ASSUME NEW X, NEW x \in Seq(X), x # <<>>
  PROVE  Append(Front(x), Last(x)) = x
<1> DEFINE f == Front(x)
           n == Len(x) - 1
<1>1. /\ f \in Seq(X) /\ Len(f) = n /\ Last(x) = x[Len(x)] /\ Last(x) \in X
      /\ \A k \in 1 .. n : f[k] = x[k]
  BY FrontLast
<1>2. n \in Nat /\ Len(x) = n + 1
  OBVIOUS
<1> HIDE DEF f, n
<1> DEFINE l == Last(x)
           u == Append(f, l)
<1> HIDE DEF l
<1>3. l \in X /\ l = x[n + 1]
  BY <1>1, <1>2, Zenon DEF l
<1>4. u \in Seq(X) /\ Len(u) = n + 1 /\ u[n + 1] = l /\ \A k \in 1 .. n : u[k] = f[k]
  <2>1. /\ u \in Seq(X) /\ Len(u) = Len(f) + 1 /\ u[Len(f) + 1] = l
        /\ \A k \in 1 .. Len(f) : u[k] = f[k]
    BY <1>1, <1>3
  <2> QED BY <1>1, <2>1, Zenon
<1> HIDE DEF u
<1>5. ASSUME NEW k \in 1 .. n + 1 PROVE u[k] = x[k]
  <2>1. k \in 1 .. n \/ k = n + 1
    BY <1>2
  <2> QED BY <1>1, <1>3, <1>4, <2>1, Zenon
<1>6. u = x
  BY <1>2, <1>4, <1>5, SameSeq
<1> QED BY <1>6, Zenon DEF u, f, l

\* The bytes so far: ended lines, whose rows are those of all pieces but the last,
\* and the last piece, which has no line feed.
CutAt(bs, ps) ==
  \E s \in Seq(Bytes) :
    /\ Whole(s)
    /\ bs = s \o Last(ps)
    /\ Last(ps) \in Seq(PlainBytes)
    /\ RowsOf(s) = PieceRows(Front(ps))

\* One byte more.
LEMMA CutStep ==
  ASSUME NEW bs \in Seq(Bytes), NEW b \in Bytes, NEW ps \in Pieces, CutAt(bs, ps)
  PROVE  CutAt(bs \o <<b>>, SplitStep[b][ps])
<1> DEFINE B == Seq(Bytes)
           q == Front(ps)
           p == Last(ps)
<1>1. ps \in Seq(B) /\ ps # <<>>
  BY Zenon DEF Pieces
<1> HIDE DEF B
<1>2. q \in Seq(B) /\ p \in B /\ ps = Append(q, p)
  <2>1. q \in Seq(B) /\ p \in B
    BY <1>1, FrontLast
  <2>2. ps = Append(q, p)
    BY <1>1, FrontThenLast
  <2> QED BY <2>1, <2>2
<1>3. PICK s \in B : /\ Whole(s)
                     /\ bs = s \o p
                     /\ p \in Seq(PlainBytes)
                     /\ RowsOf(s) = PieceRows(q)
  BY Zenon DEF CutAt, B
<1> HIDE DEF p, q
<1>4. (s \o p) \o <<b>> = s \o (p \o <<b>>)
  <2> DEFINE o == <<b>>
  <2>1. s \in Seq(Bytes) /\ p \in Seq(Bytes) /\ o \in Seq(Bytes)
    BY <1>2, <1>3 DEF B
  <2> HIDE DEF o
  <2>2. Joined(Joined(s, p), o) = Joined(s, Joined(p, o))
    BY <2>1, JoinedTwice
  <2> QED BY <2>2, Zenon DEF Joined, o
<1>5. CASE b = "n"
  <2>1. SplitStep[b][ps] = Append(ps, <<>>)
    BY <1>5, Zenon DEF SplitStep
  <2>2. <<>> \in B /\ <<>> \in Seq(PlainBytes)
    BY DEF B
  <2> DEFINE e == <<>>
             r == bs \o <<"n">>
  <2>3. Front(Append(ps, e)) = ps /\ Last(Append(ps, e)) = e
    <3>1. EndsWith(ps, e)
      BY <1>1, <2>2, FrontLastAppend, Zenon
    <3> QED BY <3>1, Zenon DEF EndsWith
  <2>4. r \in B /\ r \o <<>> = r
    <3>1. r \in Seq(Bytes)
      BY <1>5
    <3> QED BY <3>1, ConcatEmptySeq, Zenon DEF B
  <2>5. Whole(r)
    BY Zenon DEF Whole
  <2>6. RowsOf(bs) = RowsOf(s) \o RowsOf(p)
    <3>1. RowsJoin(s, p)
      BY <1>2, <1>3, RowsAfter, Zenon DEF B
    <3> QED BY <1>3, <3>1, Zenon DEF RowsJoin
  <2>7. RowsOf(p) = RowOf(p)
    BY <1>3, RowsPlain
  <2>8. PieceRows(ps) = PieceRows(q) \o RowOf(p)
    BY <1>2, PieceRowsAppend DEF B
  <2>9. RowsOf(r) = RowsOf(bs)
    <3>1. RowsOf(Around(bs, "n", <<>>)) = RowsOf(bs) \o RowsOf(<<>>)
      <4>1. e \in Seq(Bytes)
        BY <2>2 DEF B
      <4> HIDE DEF e, r
      <4>2. RowsOf(Around(bs, "n", e)) = RowsOf(bs) \o RowsOf(e)
        BY <4>1, RowsCut
      <4> QED BY <4>2, Zenon DEF e
    <3>2. RowsOf(bs) \in RowLists
      BY <2>2, RowsCut, Zenon DEF B
    <3>3. RowsOf(<<>>) = <<>>
      BY NoRows, Zenon
    <3>4. RowsOf(bs) \o <<>> = RowsOf(bs)
      BY <3>2, ConcatEmptySeq, Zenon DEF RowLists
    <3>5. Around(bs, "n", <<>>) = r
      BY <2>4, Zenon DEF Around
    <3> QED BY <3>1, <3>3, <3>4, <3>5, Zenon
  <2>10. RowsOf(r) = PieceRows(ps)
    BY <1>3, <2>6, <2>7, <2>8, <2>9, Zenon
  <2> HIDE DEF r, e
  <2>11. CutAt(r, Append(ps, e))
    <3>1. r = r \o Last(Append(ps, e))
      BY <2>3, <2>4, Zenon DEF e
    <3>2. Last(Append(ps, e)) \in Seq(PlainBytes) /\ RowsOf(r) = PieceRows(Front(Append(ps, e)))
      BY <2>2, <2>3, <2>10, Zenon DEF e
    <3> QED BY <2>4, <2>5, <3>1, <3>2, Zenon DEF CutAt, B
  <2> QED BY <1>5, <2>1, <2>11, Zenon DEF r, e
<1>6. CASE b # "n"
  <2> DEFINE v == Append(p, b)
  <2>1. v \in B /\ v \in Seq(PlainBytes) /\ v = p \o <<b>>
    <3>1. p \in Seq(Bytes) /\ p \in Seq(PlainBytes) /\ b \in PlainBytes
      BY <1>2, <1>3, <1>6 DEF B, PlainBytes
    <3> QED BY <3>1 DEF B
  <2>2. SplitStep[b][ps] = Append(q, v)
    BY <1>6, Zenon DEF SplitStep, p, q
  <2> HIDE DEF v
  <2>3. Front(Append(q, v)) = q /\ Last(Append(q, v)) = v
    <3>1. EndsWith(q, v)
      BY <1>2, <2>1, FrontLastAppend, Zenon
    <3> QED BY <3>1, Zenon DEF EndsWith
  <2>4. bs \o <<b>> = s \o v
    BY <1>3, <1>4, <2>1, Zenon
  <2>5. CutAt(bs \o <<b>>, Append(q, v))
    BY <1>3, <2>1, <2>3, <2>4, Zenon DEF CutAt, B
  <2> QED BY <2>2, <2>5, Zenon
<1> QED BY <1>5, <1>6

\* split cuts what it is given.
LEMMA SplitCuts ==
  ASSUME NEW bs \in Seq(Bytes)
  PROVE  Split(bs) \in Pieces /\ CutAt(bs, Split(bs))
<1> DEFINE N == Len(bs)
           first == << <<>> >>
<1>1. /\ N \in Nat /\ N \in 0 .. N /\ 0 \in 0 .. N
      /\ \A k \in 1 .. N : k \in 0 .. N /\ k - 1 \in 0 .. N /\ bs[k] \in Bytes
  OBVIOUS
<1>2. PICK c : Folding(bs, Pieces, first, SplitStep, c) /\ Split(bs) = c[N]
  BY SplitIs, Zenon DEF Splitting
<1>3. /\ \A k \in 0 .. N : c[k] \in Pieces
      /\ c[0] = first
      /\ \A k \in 1 .. N : c[k] = SplitStep[bs[k]][c[k - 1]]
  BY <1>2, Zenon DEF Folding
<1> DEFINE T == {k \in 0 .. N : CutAt(SubSeq(bs, 1, k), c[k])}
<1>4. 0 \in T
  <2> DEFINE e == <<>>
  <2>1. e \in Seq(Bytes) /\ e \in Seq(PlainBytes) /\ e \o e = e /\ e \in Seq(Seq(Bytes))
        /\ first = Append(e, e)
    OBVIOUS
  <2>2. Front(Append(e, e)) = e /\ Last(Append(e, e)) = e
    <3>1. EndsWith(e, e)
      BY <2>1, FrontLastAppend, Zenon
    <3> QED BY <3>1, Zenon DEF EndsWith
  <2>3. Front(first) = e /\ Last(first) = e
    BY <2>1, <2>2, Zenon
  <2>4. PieceRows(e) = e
    BY <2>1, PieceRowsAppend, Zenon
  <2>5. RowsOf(e) = e
    BY NoRows, Zenon
  <2>6. Whole(e)
    BY Zenon DEF Whole
  <2> HIDE DEF e, first
  <2>7. CutAt(e, first)
    BY <2>1, <2>3, <2>4, <2>5, <2>6, Zenon DEF CutAt
  <2>8. SubSeq(bs, 1, 0) = e
    BY WholePrefix, Zenon DEF e
  <2> QED BY <1>1, <1>3, <2>7, <2>8, Zenon
<1>5. ASSUME NEW k \in 1 .. N, k - 1 \in T PROVE k \in T
  <2> DEFINE a == SubSeq(bs, 1, k - 1)
  <2>1. CutAt(a, c[k - 1]) /\ c[k - 1] \in Pieces
    BY <1>1, <1>3, <1>5, Zenon
  <2>2. a \in Seq(Bytes) /\ bs[k] \in Bytes /\ a \o <<bs[k]>> = SubSeq(bs, 1, k)
    <3>1. a \in Seq(Bytes) /\ bs[k] \in Bytes /\ Joined(a, <<bs[k]>>) = SubSeq(bs, 1, k)
      BY PrefixGrows
    <3> QED BY <3>1, Zenon DEF Joined
  <2> HIDE DEF a
  <2>3. CutAt(a \o <<bs[k]>>, SplitStep[bs[k]][c[k - 1]])
    BY <2>1, <2>2, CutStep, Zenon
  <2> QED BY <1>1, <1>3, <2>2, <2>3, Zenon
<1>6. \A k \in 0 .. N : k \in T
  <2> HIDE DEF N, T
  <2> QED BY <1>1, <1>4, <1>5, Upto, Zenon
<1>7. SubSeq(bs, 1, N) = bs
  BY WholePrefix, Zenon
<1> QED BY <1>1, <1>2, <1>3, <1>6, <1>7, Zenon

-----------------------------------------------------------------------------
(* The drain.                                                              *)

\* What is read and not yet a line is in the buffer.
Between(s) ==
  /\ Whole(s)
  /\ SubSeq(stream, 1, read) = s \o buffer
  /\ buffer \in Seq(PlainBytes)
  /\ rows = RowsOf(s)

DrainInv ==
  /\ stream \in Seq(Bytes)
  /\ read \in 0 .. Len(stream)
  /\ done \in BOOLEAN
  /\ ~ done => \E s \in Seq(Bytes) : Between(s)
  /\ done => rows = RowsOf(stream)

\* Nothing is read yet, and there are no rows.
LEMMA DrainInvInit == DrainInit => DrainInv
<1> SUFFICES ASSUME DrainInit PROVE DrainInv
  OBVIOUS
<1>1. stream \in Seq(Bytes)
  <2>2. PICK m \in 0 .. MaxBytes : stream \in [1 .. m -> Bytes]
    BY Zenon DEF DrainInit
  <2>3. m \in Nat
    BY DrainAssumption
  <2> QED BY <2>2, <2>3, TableSeq, Zenon
<1>2. read = 0 /\ buffer = <<>> /\ rows = <<>> /\ done = FALSE
  BY Zenon DEF DrainInit
<1>3. read \in 0 .. Len(stream)
  BY <1>1, <1>2
<1>4. Between(<<>>)
  <2>1. SubSeq(stream, 1, 0) = <<>>
    BY <1>1, WholePrefix, Zenon
  <2>2. <<>> \o <<>> = <<>> /\ <<>> \in Seq(PlainBytes)
    OBVIOUS
  <2>3. Whole(<<>>) /\ RowsOf(<<>>) = <<>>
    BY NoRows, Zenon DEF Whole
  <2> QED BY <1>2, <2>1, <2>2, <2>3, Zenon DEF Between
<1>5. <<>> \in Seq(Bytes)
  OBVIOUS
<1> QED BY <1>1, <1>2, <1>3, <1>4, <1>5, Zenon DEF DrainInv

\* What persist adds to the rows.
LEMMA PersistRows ==
  ASSUME NEW ps, Persist(ps)
  PROVE  rows' = rows \o PieceRows(ps) /\ tail' = Pushed(PieceRows(ps))
BY Zenon DEF Persist, PieceRows, RowParts, RowOf

\* Ended lines after ended lines.
LEMMA WholeJoin ==
  ASSUME NEW s \in Seq(Bytes), NEW r \in Seq(Bytes), Whole(s), Whole(r)
  PROVE  Whole(s \o r) /\ s \o r \in Seq(Bytes)
<1>1. s \o r \in Seq(Bytes)
  OBVIOUS
<1>2. CASE r = <<>>
  <2>1. s \o <<>> = s
    BY ConcatEmptySeq, Zenon
  <2> QED BY <1>1, <1>2, <2>1, Zenon
<1>3. CASE r # <<>>
  <2>1. PICK a \in Seq(Bytes) : r = a \o <<"n">>
    BY <1>3, Zenon DEF Whole
  <2> DEFINE o == <<"n">>
  <2>2. o \in Seq(Bytes) /\ s \o a \in Seq(Bytes)
    BY DEF Bytes
  <2> HIDE DEF o
  <2>3. Joined(Joined(s, a), o) = Joined(s, Joined(a, o))
    BY <2>2, JoinedTwice
  <2>4. s \o r = (s \o a) \o <<"n">>
    BY <2>1, <2>3, Zenon DEF Joined, o
  <2> QED BY <1>1, <2>2, <2>4, Zenon DEF Whole
<1> QED BY <1>2, <1>3

\* A chunk is not empty and lies in the stream.
LEMMA ChunkIn ==
  ASSUME NEW k \in Nat, NEW N \in Nat, k <= N, NEW n \in 1 .. Min({ChunkSize, N - k})
  PROVE  n \in Nat /\ k + n <= N
<1>1. ChunkSize \in Int /\ N - k \in Int
  BY DrainAssumption
<1>2. Min({ChunkSize, N - k}) = IF ChunkSize <= N - k THEN ChunkSize ELSE N - k
  BY <1>1, MinOfTwo
<1> DEFINE m == Min({ChunkSize, N - k})
<1>3. m \in Int /\ m <= N - k /\ n \in 1 .. m
  BY <1>1, <1>2
<1> HIDE DEF m
<1> QED BY <1>3

\* A chunk ends some of the lines it meets and keeps the rest in the buffer.
LEMMA DrainInvRead == DrainInv /\ ReadChunk => DrainInv'
<1> SUFFICES ASSUME DrainInv, ReadChunk PROVE DrainInv'
  OBVIOUS
<1>1. stream \in Seq(Bytes) /\ read \in 0 .. Len(stream)
  BY Zenon DEF DrainInv
<1>2. PICK n \in 1 .. Min({ChunkSize, Len(stream) - read}) :
        LET pieces == Split(buffer \o SubSeq(stream, read + 1, read + n))
        IN /\ ~ done
           /\ read' = read + n
           /\ buffer' = Last(pieces)
           /\ Persist(Front(pieces))
           /\ UNCHANGED <<stream, done>>
  BY Zenon DEF ReadChunk
<1> DEFINE chunk == SubSeq(stream, read + 1, read + n)
           w == buffer \o chunk
           ps == Split(w)
<1>3. /\ ~ done /\ read' = read + n /\ buffer' = Last(ps) /\ Persist(Front(ps))
      /\ stream' = stream /\ done' = done
  BY <1>2, Zenon
<1>4. n \in Nat /\ read + n <= Len(stream) /\ read \in Nat /\ Len(stream) \in Nat
  <2>1. read \in Nat /\ Len(stream) \in Nat /\ read <= Len(stream)
    BY <1>1
  <2> QED BY <2>1, ChunkIn, Zenon
<1>5. PICK s \in Seq(Bytes) : Between(s)
  BY <1>3, Zenon DEF DrainInv
<1>6. /\ Whole(s) /\ SubSeq(stream, 1, read) = s \o buffer
      /\ buffer \in Seq(PlainBytes) /\ rows = RowsOf(s)
  BY <1>5, Zenon DEF Between
<1>7. buffer \in Seq(Bytes)
  BY <1>6, PlainText, Zenon
<1>8. chunk \in Seq(Bytes) /\ Alike(SubSeq(stream, 1, read) \o chunk, SubSeq(stream, 1, read + n))
  BY <1>1, <1>4, PrefixJoin, Zenon
<1> HIDE DEF chunk
<1>9. w \in Seq(Bytes)
  BY <1>7, <1>8
<1>10. (s \o buffer) \o chunk = s \o w
  <2>1. Joined(Joined(s, buffer), chunk) = Joined(s, Joined(buffer, chunk))
    BY <1>7, <1>8, JoinedTwice
  <2> QED BY <2>1, Zenon DEF Joined
<1>11. SubSeq(stream, 1, read + n) = s \o w
  BY <1>6, <1>8, <1>10, Zenon DEF Alike
<1> HIDE DEF w
<1>12. ps \in Pieces /\ CutAt(w, ps)
  BY <1>9, SplitCuts, Zenon
<1> HIDE DEF ps
<1> DEFINE l == Last(ps)
<1>13. PICK r \in Seq(Bytes) :
         /\ Whole(r) /\ w = r \o l /\ l \in Seq(PlainBytes)
         /\ RowsOf(r) = PieceRows(Front(ps))
  BY <1>12, Zenon DEF CutAt
<1> HIDE DEF l
<1>14. l \in Seq(Bytes)
  BY <1>13, PlainText, Zenon
<1>15. s \o w = (s \o r) \o l
  <2>1. Joined(Joined(s, r), l) = Joined(s, Joined(r, l))
    BY <1>14, JoinedTwice
  <2> QED BY <1>13, <2>1, Zenon DEF Joined
<1>16. Whole(s \o r) /\ s \o r \in Seq(Bytes)
  BY <1>6, <1>13, WholeJoin, Zenon
<1>17. rows' = RowsOf(s \o r)
  <2>1. RowsJoin(s, r)
    BY <1>6, RowsAfter, Zenon
  <2>2. rows' = rows \o PieceRows(Front(ps))
    BY <1>3, PersistRows
  <2> QED BY <1>6, <1>13, <2>1, <2>2, Zenon DEF RowsJoin
<1>18. Between(s \o r)'
  <2>1. SubSeq(stream', 1, read') = (s \o r) \o buffer'
    BY <1>3, <1>11, <1>15, Zenon DEF l
  <2>2. buffer' \in Seq(PlainBytes)
    BY <1>3, <1>13, Zenon DEF l
  <2> QED BY <1>16, <1>17, <2>1, <2>2, Zenon DEF Between
<1>19. read' \in 0 .. Len(stream')
  BY <1>3, <1>4
<1>20. done' = FALSE
  BY <1>3, Zenon DEF DrainInv
<1> QED BY <1>1, <1>3, <1>16, <1>18, <1>19, <1>20, Zenon DEF DrainInv

\* The end of the stream ends the line in the buffer.
LEMMA DrainInvEnd == DrainInv /\ EndOfStream => DrainInv'
<1> SUFFICES ASSUME DrainInv, EndOfStream PROVE DrainInv'
  OBVIOUS
<1>1. stream \in Seq(Bytes) /\ read \in 0 .. Len(stream)
  BY Zenon DEF DrainInv
<1>2. /\ ~ done /\ read = Len(stream) /\ done' = TRUE
      /\ IF buffer # <<>> THEN Persist(<<buffer>>) ELSE UNCHANGED <<rows, tail>>
      /\ stream' = stream /\ read' = read
  BY Zenon DEF EndOfStream
<1>3. PICK s \in Seq(Bytes) : Between(s)
  BY <1>2, Zenon DEF DrainInv
<1>4. /\ Whole(s) /\ SubSeq(stream, 1, read) = s \o buffer
      /\ buffer \in Seq(PlainBytes) /\ rows = RowsOf(s)
  BY <1>3, Zenon DEF Between
<1>5. buffer \in Seq(Bytes)
  BY <1>4, PlainText, Zenon
<1>6. stream = s \o buffer
  <2>1. SubSeq(stream, 1, Len(stream)) = stream
    BY <1>1, WholePrefix, Zenon
  <2> QED BY <1>2, <1>4, <2>1, Zenon
<1>7. CASE buffer = <<>>
  <2>1. s \o <<>> = s
    BY ConcatEmptySeq, Zenon
  <2>2. rows' = rows
    BY <1>2, <1>7, Zenon
  <2> QED BY <1>1, <1>2, <1>4, <1>6, <1>7, <2>1, <2>2, Zenon DEF DrainInv
<1>8. CASE buffer # <<>>
  <2>1. Persist(<<buffer>>)
    BY <1>2, <1>8, Zenon
  <2>2. rows' = rows \o PieceRows(<<buffer>>)
    <3> DEFINE o == <<buffer>>
    <3>1. Persist(o)
      BY <2>1, Zenon
    <3> HIDE DEF o
    <3>2. rows' = rows \o PieceRows(o)
      BY <3>1, PersistRows
    <3> QED BY <3>2, Zenon DEF o
  <2>3. PieceRows(<<buffer>>) = RowOf(buffer)
    <3> DEFINE e == <<>>
    <3>1. e \in Seq(Seq(Bytes)) /\ Append(e, buffer) = <<buffer>>
      OBVIOUS
    <3>2. PieceRows(Append(e, buffer)) = PieceRows(e) \o RowOf(buffer) /\ PieceRows(e) = e
      <4>1. RowsAdd(e, buffer)
        BY <1>5, <3>1, PieceRowsMore, Zenon
      <4> QED BY <4>1, Zenon DEF RowsAdd
    <3>3. e \o RowOf(buffer) = RowOf(buffer)
      <4>1. RowOf(buffer) \in RowLists
        BY <1>5, RowOfType, Zenon
      <4> QED BY <4>1, ConcatEmptySeq, Zenon DEF RowLists
    <3> QED BY <3>1, <3>2, <3>3, Zenon
  <2>4. RowsOf(buffer) = RowOf(buffer)
    BY <1>4, RowsPlain
  <2>5. RowsJoin(s, buffer)
    BY <1>4, <1>5, RowsAfter, Zenon
  <2>6. rows' = RowsOf(stream)
    BY <1>4, <1>6, <2>2, <2>3, <2>4, <2>5, Zenon DEF RowsJoin
  <2> QED BY <1>1, <1>2, <2>6, Zenon DEF DrainInv
<1> QED BY <1>7, <1>8

\* The invariant of the drain holds in every reachable state.
LEMMA DrainInvAlways == DrainSpec => []DrainInv
<1>1. DrainInv /\ [DrainNext]_drainVars => DrainInv'
  <2> SUFFICES ASSUME DrainInv, [DrainNext]_drainVars PROVE DrainInv'
    OBVIOUS
  <2>1. CASE ReadChunk
    BY <2>1, DrainInvRead
  <2>2. CASE EndOfStream
    BY <2>2, DrainInvEnd
  <2>3. CASE UNCHANGED drainVars
    BY <2>3, Zenon DEF drainVars, DrainInv, Between
  <2> QED BY <2>1, <2>2, <2>3 DEF DrainNext
<1> QED BY <1>1, DrainInvInit, PTL DEF DrainSpec

\* The last line feed of the bytes read is where the ended lines end.
LEMMA SettledIs ==
  ASSUME DrainInv, ~ done, NEW s \in Seq(Bytes), Between(s)
  PROVE  Settled = s
<1> DEFINE m == Len(s)
           n == Len(buffer)
           S == {0} \cup {k \in 1 .. read : stream[k] = "n"}
           u == Joined(s, buffer)
<1>1. stream \in Seq(Bytes) /\ read \in 0 .. Len(stream) /\ read \in Nat
  <2>1. stream \in Seq(Bytes) /\ read \in 0 .. Len(stream)
    BY Zenon DEF DrainInv
  <2> QED BY <2>1
<1>2. Whole(s) /\ SubSeq(stream, 1, read) = u /\ buffer \in Seq(PlainBytes)
  BY Zenon DEF Between, Joined
<1>3. /\ m \in Nat /\ n \in Nat
      /\ \A k \in 1 .. n : buffer[k] # "n"
  BY <1>2 DEF PlainBytes
<1>4. /\ u \in Seq(Bytes) /\ Len(u) = m + n
      /\ (\A k \in 1 .. m : u[k] = s[k]) /\ (\A k \in 1 .. n : u[m + k] = buffer[k])
  <2>1. buffer \in Seq(Bytes)
    BY <1>2, PlainText, Zenon
  <2>2. IsInARow(Bytes, s, buffer, u)
    BY <2>1, InARow, Zenon
  <2> HIDE DEF u
  <2> QED BY <2>2, Zenon DEF IsInARow
<1>5. Len(SubSeq(stream, 1, read)) = read /\ \A k \in 1 .. read : SubSeq(stream, 1, read)[k] = stream[k]
  <2>1. 1 \in 1 .. Len(stream) + 1 /\ read \in 1 - 1 .. Len(stream) /\ (read - 1) + 1 = read
        /\ \A j \in 1 .. read : (1 + j) - 1 = j
    BY <1>1
  <2>2. /\ SubSeq(stream, 1, read) \in Seq(Bytes)
        /\ Len(SubSeq(stream, 1, read)) = (read - 1) + 1
        /\ \A j \in 1 .. (read - 1) + 1 : SubSeq(stream, 1, read)[j] = stream[(1 + j) - 1]
    BY <1>1, <2>1, Slice
  <2> QED BY <2>1, <2>2, Zenon
<1> HIDE DEF u
<1>6. read = m + n /\ \A k \in 1 .. read : u[k] = stream[k]
  BY <1>2, <1>4, <1>5, Zenon
<1>7. m # 0 => s[m] = "n"
  <2> SUFFICES ASSUME m # 0 PROVE s[m] = "n"
    OBVIOUS
  <2>1. s # <<>>
    OBVIOUS
  <2>2. PICK a \in Seq(Bytes) : s = a \o <<"n">>
    BY <1>2, <2>1, Zenon DEF Whole
  <2>3. "n" \in Bytes
    BY DEF Bytes
  <2>4. Len(a \o <<"n">>) = Len(a) + 1 /\ (a \o <<"n">>)[Len(a) + 1] = "n"
    BY <2>3
  <2> QED BY <2>2, <2>4, Zenon
<1> HIDE DEF m, n
<1>8. m \in S
  <2>1. CASE m = 0
    BY <2>1
  <2>2. CASE m # 0
    <3>1. m \in 1 .. m /\ m \in 1 .. read
      BY <1>3, <1>6, <2>2
    <3>2. stream[m] = "n"
      BY <1>4, <1>6, <1>7, <2>2, <3>1, Zenon
    <3> QED BY <3>1, <3>2, Zenon
  <2> QED BY <2>1, <2>2
<1>9. ASSUME NEW k \in S PROVE k \in Nat /\ k <= m
  <2>1. CASE k = 0
    BY <1>3, <2>1
  <2>2. CASE k # 0
    <3>1. k \in 1 .. read /\ stream[k] = "n"
      BY <2>2, Zenon
    <3>2. ASSUME ~ (k <= m) PROVE FALSE
      <4> DEFINE j == k - m
      <4>1. j \in 1 .. n /\ m + j = k
        BY <1>3, <1>6, <3>1, <3>2
      <4> HIDE DEF j
      <4>2. u[k] = buffer[j] /\ u[k] = "n"
        BY <1>4, <1>6, <3>1, <4>1, Zenon
      <4> QED BY <1>3, <4>1, <4>2, Zenon
    <3>3. k \in Nat
      BY <1>1, <3>1
    <3> QED BY <3>2, <3>3, Zenon
  <2> QED BY <2>1, <2>2
<1>10. Settled = SubSeq(stream, 1, Max(S))
  BY Zenon DEF Settled
<1>11. Max(S) = m
  <2>1. S \in SUBSET Nat
    BY <1>9, Zenon
  <2> HIDE DEF S
  <2> QED BY <1>8, <1>9, <2>1, MaxIs
<1> DEFINE v == SubSeq(stream, 1, m)
<1>12. v \in Seq(Bytes) /\ Len(v) = m /\ \A k \in 1 .. m : v[k] = stream[k]
  <2>1. 1 \in 1 .. Len(stream) + 1 /\ m \in 1 - 1 .. Len(stream) /\ (m - 1) + 1 = m
        /\ \A j \in 1 .. m : (1 + j) - 1 = j
    BY <1>1, <1>3, <1>6
  <2>2. /\ v \in Seq(Bytes)
        /\ Len(v) = (m - 1) + 1
        /\ \A j \in 1 .. (m - 1) + 1 : v[j] = stream[(1 + j) - 1]
    BY <1>1, <2>1, Slice
  <2> QED BY <2>1, <2>2, Zenon
<1> HIDE DEF v
<1>13. ASSUME NEW k \in 1 .. m PROVE v[k] = s[k]
  <2>1. k \in 1 .. read
    BY <1>3, <1>6
  <2> QED BY <1>4, <1>6, <1>12, <2>1, Zenon
<1>14. v = s
  <2>1. Len(v) = Len(s) /\ \A k \in 1 .. Len(v) : v[k] = s[k]
    BY <1>12, <1>13, Zenon DEF m
  <2> QED BY <1>12, <2>1, SameSeq
<1> QED BY <1>10, <1>11, <1>14, Zenon DEF v

\* RowsAreLines, for output of any length and any chunks: the rows of what is
\* settled are its lines (drain and persist in _collect_streams).
THEOREM DrainKeepsLines == DrainSpec => []RowsAreLines
<1>1. DrainInv => RowsAreLines
  <2> SUFFICES ASSUME DrainInv PROVE RowsAreLines
    OBVIOUS
  <2>1. CASE done
    <3>1. Settled = stream /\ rows = RowsOf(stream)
      BY <2>1, Zenon DEF Settled, DrainInv
    <3> QED BY <3>1, Zenon DEF RowsAreLines, RowsOf
  <2>2. CASE ~ done
    <3>1. PICK s \in Seq(Bytes) : Between(s)
      BY <2>2, Zenon DEF DrainInv
    <3>2. Settled = s
      BY <2>2, <3>1, SettledIs
    <3>3. rows = RowsOf(s)
      BY <3>1, Zenon DEF Between
    <3> QED BY <3>2, <3>3, Zenon DEF RowsAreLines, RowsOf
  <2> QED BY <2>1, <2>2
<1> QED BY <1>1, DrainInvAlways, PTL

-----------------------------------------------------------------------------
(* The tail.                                                               *)

TailLine == {Cut(l) : l \in Seq(TextChars)}

TailInv ==
  /\ rows \in RowLists
  /\ tail \in Seq(TailLine)
  /\ TailIsRecent

\* The same, with the numbers named.
Recent(ws, ts, r, t) ==
  /\ r \in Nat /\ t \in Nat
  /\ Len(ws) = r /\ Len(ts) = t
  /\ t = IF TailLines <= r THEN TailLines ELSE r
  /\ \A k \in 1 .. t : ts[k] = Cut(ws[(r - t) + k])

\* TailIsRecent in terms of Recent.
LEMMA RecentIs ==
  ASSUME NEW X, NEW Y, NEW ws \in Seq(X), NEW ts \in Seq(Y)
  PROVE  (/\ Len(ts) = Min({TailLines, Len(ws)})
          /\ \A k \in DOMAIN ts : ts[k] = Cut(ws[Len(ws) - Len(ts) + k]))
         <=> Recent(ws, ts, Len(ws), Len(ts))
<1>1. Len(ws) \in Nat /\ Len(ts) \in Nat /\ DOMAIN ts = 1 .. Len(ts)
  OBVIOUS
<1>2. TailLines \in Int /\ Len(ws) \in Int
  BY <1>1, DrainAssumption
<1>3. Min({TailLines, Len(ws)}) = IF TailLines <= Len(ws) THEN TailLines ELSE Len(ws)
  BY <1>2, MinOfTwo
<1> DEFINE r == Len(ws)
           t == Len(ts)
           P == \A k \in 1 .. t : ts[k] = Cut(ws[(r - t) + k])
           Q == \A k \in DOMAIN ts : ts[k] = Cut(ws[Len(ws) - Len(ts) + k])
<1>4. P <=> Q
  BY <1>1, Zenon
<1>5. Recent(ws, ts, r, t) <=> (t = IF TailLines <= r THEN TailLines ELSE r) /\ P
  BY <1>1, Zenon DEF Recent
<1> HIDE DEF P
<1>6. t = Min({TailLines, r}) <=> (t = IF TailLines <= r THEN TailLines ELSE r)
  <2> DEFINE a == Min({TailLines, r})
             b == IF TailLines <= r THEN TailLines ELSE r
  <2>1. a = b
    BY <1>3
  <2> HIDE DEF a, b
  <2>2. t = a <=> t = b
    BY <2>1, Zenon
  <2> QED BY <2>2 DEF a, b
<1> QED BY <1>4, <1>5, <1>6, Zenon

\* A batch of lines leaves the last ones.
LEMMA PushedRecent ==
  ASSUME NEW ws \in RowLists, NEW ts \in Seq(TailLine), NEW r, NEW t, Recent(ws, ts, r, t),
         NEW lines \in RowLists, NEW wn, NEW tn,
         wn = Joined(ws, lines),
         LET all == Joined(ts, [k \in DOMAIN lines |-> Cut(lines[k])])
         IN tn = SubSeq(all, Max({1, Len(all) - TailLines + 1}), Len(all))
  PROVE  /\ wn \in RowLists /\ tn \in Seq(TailLine)
         /\ Recent(wn, tn, Len(wn), Len(tn))
<1> DEFINE L == Seq(TextChars)
           cuts == [k \in DOMAIN lines |-> Cut(lines[k])]
           all == Joined(ts, cuts)
           n == Len(lines)
<1>1. ws \in Seq(L) /\ lines \in Seq(L)
  BY Zenon DEF RowLists
<1> HIDE DEF L
<1>2. n \in Nat /\ DOMAIN lines = 1 .. n /\ \A k \in 1 .. n : lines[k] \in L
  BY <1>1
<1>3. /\ r \in Nat /\ t \in Nat
      /\ Len(ws) = r /\ Len(ts) = t
      /\ t = IF TailLines <= r THEN TailLines ELSE r
      /\ \A k \in 1 .. t : ts[k] = Cut(ws[(r - t) + k])
  BY Zenon DEF Recent
<1>4. cuts \in Seq(TailLine) /\ Len(cuts) = n /\ \A k \in 1 .. n : cuts[k] = Cut(lines[k])
  <2>1. cuts \in [1 .. n -> TailLine] /\ \A k \in 1 .. n : cuts[k] = Cut(lines[k])
    BY <1>2, Zenon DEF TailLine, L
  <2> HIDE DEF cuts, n
  <2>2. cuts \in Seq(TailLine) /\ Len(cuts) = n
    BY <1>2, <2>1, TableSeq
  <2> QED BY <2>1, <2>2, Zenon
<1> HIDE DEF cuts
<1>5. /\ all \in Seq(TailLine) /\ Len(all) = t + n
      /\ \A k \in 1 .. t : all[k] = ts[k]
      /\ \A k \in 1 .. n : all[t + k] = cuts[k]
  <2>1. IsInARow(TailLine, ts, cuts, all)
    BY <1>4, InARow, Zenon
  <2> HIDE DEF all
  <2> QED BY <1>3, <1>4, <2>1, Zenon DEF IsInARow
<1>6. /\ wn \in Seq(L) /\ Len(wn) = r + n
      /\ \A k \in 1 .. r : wn[k] = ws[k]
      /\ \A k \in 1 .. n : wn[r + k] = lines[k]
  <2>1. IsInARow(L, ws, lines, wn)
    BY <1>1, InARow, Zenon
  <2> QED BY <1>3, <2>1, Zenon DEF IsInARow
<1> HIDE DEF n
<1> DEFINE M == t + n
           lo == Max({1, M - TailLines + 1})
<1>7. tn = SubSeq(all, lo, M)
  BY <1>4, <1>5, Zenon DEF cuts
<1>8. TailLines \in Nat \ {0}
  BY DrainAssumption
<1>9. lo = IF TailLines <= M THEN (M - TailLines) + 1 ELSE 1
  <2> DEFINE m == IF TailLines <= M THEN (M - TailLines) + 1 ELSE 1
             S == {1, M - TailLines + 1}
  <2>1. M \in Nat
    BY <1>2, <1>3
  <2> HIDE DEF M
  <2>2. m \in S /\ m \in Int /\ (\A y \in S : m >= y) /\ \A y \in S : y \in Int
    BY <1>8, <2>1
  <2> HIDE DEF m, S
  <2>3. Max(S) \in S /\ \A y \in S : Max(S) >= y
    BY <2>2, Zenon DEF Max
  <2>4. Max(S) \in Int /\ Max(S) >= m /\ m >= Max(S)
    BY <2>2, <2>3, Zenon
  <2>5. Max(S) = m
    BY <2>2, <2>4
  <2> QED BY <2>5, Zenon DEF m, S
<1> DEFINE u == IF TailLines <= M THEN TailLines ELSE M
<1>10. /\ M \in Nat /\ lo \in 1 .. M + 1 /\ M \in lo - 1 .. M /\ (M - lo) + 1 = u /\ u \in Nat
       /\ u = IF TailLines <= r + n THEN TailLines ELSE r + n
       /\ (r + n) - u = (r - t) + (lo - 1)
       /\ (r - t) \in Nat
  <2>1. n \in Nat /\ r \in Nat /\ t \in Nat /\ t = IF TailLines <= r THEN TailLines ELSE r
    BY <1>2, <1>3, Zenon
  <2> HIDE DEF lo
  <2>2. CASE TailLines <= M
    <3>1. lo = (M - TailLines) + 1 /\ u = TailLines
      BY <1>9, <2>2, Zenon
    <3> HIDE DEF u
    <3>2. M \in Nat /\ lo \in 1 .. M + 1 /\ M \in lo - 1 .. M /\ (M - lo) + 1 = u /\ u \in Nat
      BY <1>8, <2>1, <2>2, <3>1
    <3>3. TailLines <= r + n /\ (r - t) \in Nat /\ (r + n) - u = (r - t) + (lo - 1)
      BY <1>8, <2>1, <2>2, <3>1
    <3> QED BY <3>1, <3>2, <3>3, Zenon
  <2>3. CASE ~ (TailLines <= M)
    <3>1. lo = 1 /\ u = M
      BY <1>9, <2>3, Zenon
    <3> HIDE DEF u
    <3>2. M \in Nat /\ lo \in 1 .. M + 1 /\ M \in lo - 1 .. M /\ (M - lo) + 1 = u /\ u \in Nat
      BY <1>8, <2>1, <2>3, <3>1
    <3>3. ~ (TailLines <= r + n) /\ u = r + n /\ (r - t) \in Nat /\ (r + n) - u = (r - t) + (lo - 1)
      BY <1>8, <2>1, <2>3, <3>1
    <3> QED BY <3>2, <3>3, Zenon
  <2> QED BY <2>2, <2>3, Zenon
<1> HIDE DEF lo, all, u
<1>11. /\ tn \in Seq(TailLine) /\ Len(tn) = u
       /\ \A k \in 1 .. u : tn[k] = all[(lo + k) - 1]
  <2> HIDE DEF M
  <2>1. /\ SubSeq(all, lo, M) \in Seq(TailLine)
        /\ Len(SubSeq(all, lo, M)) = (M - lo) + 1
        /\ \A k \in 1 .. (M - lo) + 1 : SubSeq(all, lo, M)[k] = all[(lo + k) - 1]
    <3>1. all \in Seq(TailLine) /\ lo \in 1 .. Len(all) + 1 /\ M \in lo - 1 .. Len(all)
      BY <1>5, <1>10, Zenon DEF M
    <3> QED BY <3>1, Slice
  <2> QED BY <1>7, <1>10, <2>1, Zenon
<1>12. ASSUME NEW k \in 1 .. u PROVE tn[k] = Cut(wn[((r + n) - u) + k])
  <2> DEFINE p == (lo + k) - 1
             d == r - t
  <2>1. p \in 1 .. M /\ ((r + n) - u) + k = d + p
    BY <1>10
  <2>2. tn[k] = all[p]
    BY <1>11, Zenon
  <2>d. d \in Nat /\ d + t = r
    BY <1>3, <1>10
  <2> HIDE DEF p
  <2>3. CASE p \in 1 .. t
    <3>1. d + p \in 1 .. r
      BY <1>3, <2>3, <2>d
    <3>2. all[p] = Cut(ws[d + p])
      BY <1>3, <1>5, <2>3, Zenon
    <3> QED BY <1>6, <2>1, <2>2, <3>1, <3>2, Zenon
  <2>4. CASE p \notin 1 .. t
    <3> DEFINE j == p - t
    <3> HIDE DEF d
    <3>1. j \in 1 .. n /\ t + j = p /\ r + j = d + p
      BY <1>2, <1>3, <2>1, <2>4, <2>d
    <3> HIDE DEF j
    <3>2. all[p] = Cut(lines[j]) /\ wn[d + p] = lines[j]
      BY <1>4, <1>5, <1>6, <3>1, Zenon
    <3> QED BY <2>1, <2>2, <3>2, Zenon
  <2> QED BY <2>3, <2>4, Zenon
<1>13. Len(wn) \in Nat /\ Len(tn) \in Nat /\ Len(wn) = r + n /\ Len(tn) = u
  <2>1. r + n \in Nat
    <3>1. r \in Nat /\ n \in Nat
      BY <1>2, <1>3, Zenon
    <3> QED BY <3>1
  <2> QED BY <1>6, <1>10, <1>11, <2>1, Zenon
<1>14. Recent(wn, tn, Len(wn), Len(tn))
  BY <1>10, <1>12, <1>13, Zenon DEF Recent
<1> QED BY <1>6, <1>11, <1>14, Zenon DEF RowLists, L

\* A batch of lines keeps the tail recent.
LEMMA TailPushed ==
  ASSUME TailInv, NEW lines \in RowLists, rows' = rows \o lines, tail' = Pushed(lines)
  PROVE  TailInv'
<1> DEFINE L == Seq(TextChars)
<1>1. rows \in RowLists /\ tail \in Seq(TailLine) /\ TailIsRecent
  BY Zenon DEF TailInv
<1>2. Recent(rows, tail, Len(rows), Len(tail))
  BY <1>1, RecentIs, Zenon DEF TailIsRecent, RowLists
<1> DEFINE r == Len(rows)
           t == Len(tail)
           wn == rows'
           tn == tail'
<1>3. /\ wn = Joined(rows, lines)
      /\ LET all == Joined(tail, [k \in DOMAIN lines |-> Cut(lines[k])])
         IN tn = SubSeq(all, Max({1, Len(all) - TailLines + 1}), Len(all))
  BY Zenon DEF Joined, Pushed
<1>4. /\ wn \in RowLists /\ tn \in Seq(TailLine)
      /\ Recent(wn, tn, Len(wn), Len(tn))
  BY <1>1, <1>2, <1>3, PushedRecent, Zenon
<1>5. /\ Len(tn) = Min({TailLines, Len(wn)})
      /\ \A k \in DOMAIN tn : tn[k] = Cut(wn[Len(wn) - Len(tn) + k])
  BY <1>4, RecentIs, Zenon DEF RowLists
<1> QED BY <1>4, <1>5, Zenon DEF TailInv, TailIsRecent

\* TailIsRecent, for any output and any chunks: the deque holds the last rows,
\* each cut to its limit (tail.append in persist).
THEOREM DrainKeepsTail == DrainSpec => []TailIsRecent
<1>1. DrainInit => TailInv
  <2> SUFFICES ASSUME DrainInit PROVE TailInv
    OBVIOUS
  <2>1. rows = <<>> /\ tail = <<>>
    BY Zenon DEF DrainInit
  <2> DEFINE e == <<>>
  <2>2. e \in Seq(Seq(TextChars)) /\ e \in Seq(TailLine) /\ Len(e) = 0 /\ 1 .. 0 = {}
    OBVIOUS
  <2>3. ~ (TailLines <= 0) /\ 0 \in Nat
    BY DrainAssumption
  <2> HIDE DEF e
  <2>4. Recent(e, e, 0, 0)
    BY <2>2, <2>3, Zenon DEF Recent
  <2>5. /\ Len(e) = Min({TailLines, Len(e)})
        /\ \A k \in DOMAIN e : e[k] = Cut(e[Len(e) - Len(e) + k])
    BY <2>2, <2>4, RecentIs, Zenon
  <2> QED BY <2>1, <2>2, <2>5, Zenon DEF TailInv, TailIsRecent, RowLists, e
<1>2. DrainInv /\ TailInv /\ [DrainNext]_drainVars => TailInv'
  <2> SUFFICES ASSUME DrainInv, TailInv, [DrainNext]_drainVars PROVE TailInv'
    OBVIOUS
  <2>1. ASSUME NEW ps \in Seq(Seq(Bytes)), Persist(ps) PROVE TailInv'
    <3>1. PieceRows(ps) \in RowLists
      <4>1. <<>> \in Seq(Bytes)
        OBVIOUS
      <4> QED BY <4>1, PieceRowsAppend, Zenon
    <3>2. rows' = rows \o PieceRows(ps) /\ tail' = Pushed(PieceRows(ps))
      BY <2>1, PersistRows, Zenon
    <3> QED BY <3>1, <3>2, TailPushed, Zenon
  <2>2. ASSUME rows' = rows, tail' = tail PROVE TailInv'
    BY <2>2, Zenon DEF TailInv, TailIsRecent
  <2>3. ~ done => buffer \in Seq(Bytes)
    BY PlainText, Zenon DEF DrainInv, Between
  <2>4. CASE ReadChunk
    <3>1. PICK n \in 1 .. Min({ChunkSize, Len(stream) - read}) :
            LET pieces == Split(buffer \o SubSeq(stream, read + 1, read + n))
            IN ~ done /\ Persist(Front(pieces))
      BY <2>4, Zenon DEF ReadChunk
    <3> DEFINE chunk == SubSeq(stream, read + 1, read + n)
               ps == Split(buffer \o chunk)
    <3>2. chunk \in Seq(Bytes)
      <4>1. stream \in Seq(Bytes) /\ read \in 0 .. Len(stream)
        BY Zenon DEF DrainInv
      <4>2. read \in Nat /\ Len(stream) \in Nat /\ read <= Len(stream)
        BY <4>1
      <4>3. n \in Nat /\ read + n <= Len(stream)
        BY <4>2, ChunkIn, Zenon
      <4> QED BY <4>1, <4>3, PrefixJoin, Zenon
    <3> HIDE DEF chunk
    <3>3. buffer \o chunk \in Seq(Bytes)
      <4>1. buffer \in Seq(Bytes)
        BY <2>3, <3>1, Zenon
      <4> QED BY <3>2, <4>1
    <3>4. ps \in Pieces
      BY <3>3, SplitCuts, Zenon
    <3>5. Persist(Front(ps))
      BY <3>1, Zenon DEF chunk
    <3> HIDE DEF ps
    <3>6. Front(ps) \in Seq(Seq(Bytes))
      <4> DEFINE B == Seq(Bytes)
      <4>1. ps \in Seq(B) /\ ps # <<>>
        BY <3>4, Zenon DEF Pieces
      <4> HIDE DEF B
      <4>2. Front(ps) \in Seq(B)
        BY <4>1, FrontLast
      <4> QED BY <4>2, Zenon DEF B
    <3> QED BY <2>1, <3>5, <3>6, Zenon
  <2>5. CASE EndOfStream
    <3>1. ~ done /\ IF buffer # <<>> THEN Persist(<<buffer>>) ELSE UNCHANGED <<rows, tail>>
      BY <2>5, Zenon DEF EndOfStream
    <3>2. CASE buffer # <<>>
      <4>1. buffer \in Seq(Bytes)
        BY <2>3, <3>1, Zenon
      <4> DEFINE o == <<buffer>>
                 B == Seq(Bytes)
      <4>2. o \in Seq(B)
        <5> HIDE DEF B
        <5>1. buffer \in B
          BY <4>1, Zenon DEF B
        <5> QED BY <5>1
      <4>3. Persist(o)
        BY <3>1, <3>2, Zenon
      <4> HIDE DEF o
      <4> QED BY <2>1, <4>2, <4>3, Zenon
    <3>3. CASE buffer = <<>>
      BY <2>2, <3>1, <3>3, Zenon
    <3> QED BY <3>2, <3>3
  <2>6. CASE UNCHANGED drainVars
    BY <2>2, <2>6, Zenon DEF drainVars
  <2> QED BY <2>4, <2>5, <2>6 DEF DrainNext
<1>3. TailInv => TailIsRecent
  BY Zenon DEF TailInv
<1> QED BY <1>1, <1>2, <1>3, DrainInvAlways, PTL DEF DrainSpec
==============================================================================
