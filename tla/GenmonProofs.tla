---------------------------- MODULE GenmonProofs -----------------------------
(***************************************************************************)
(* Theorems about the programs of the panel, for all texts the modules may *)
(* give: what sscanf stores of a text whose lines were written is what the *)
(* modules read, the network sorts the cores' bars, and so an update shows *)
(* and does what its text says.                                            *)
(***************************************************************************)
EXTENDS Genmon, FiniteSetTheorems, SequenceTheorems, TLAPS

\* The cores' numbers as the network sees them.
Usage == [Core -> Nat]

\* The pairs of a are those of b in another order.
SamePairs(a, b) ==
  \E p \in Order : \A k \in Pair : a[k] = b[p[k]] /\ a[k + 4] = b[p[k] + 4]

\* In each pair of a, the first is the smaller.
PairsOrdered(a) == \A k \in Pair : a[k] <= a[k + 4]

-----------------------------------------------------------------------------
\* Orders of pairs compose.
LEMMA SamePairsTransitive ==
  ASSUME NEW a \in Usage, NEW b \in Usage, NEW c \in Usage, SamePairs(a, b), SamePairs(b, c)
  PROVE  SamePairs(a, c)
<1>1. PICK p \in Order : \A k \in Pair : a[k] = b[p[k]] /\ a[k + 4] = b[p[k] + 4]
  BY DEF SamePairs
<1>2. PICK q \in Order : \A k \in Pair : b[k] = c[q[k]] /\ b[k + 4] = c[q[k] + 4]
  BY DEF SamePairs
<1> DEFINE r == [k \in Pair |-> q[p[k]]]
<1>3. r \in Order
  BY DEF Order
<1>4. \A k \in Pair : a[k] = c[r[k]] /\ a[k + 4] = c[r[k] + 4]
  BY <1>1, <1>2 DEF Order
<1> QED
  BY <1>3, <1>4 DEF SamePairs

\* What a step of the network does to the pairs at places i and j.
LEMMA CswapPair ==
  ASSUME NEW a \in Usage, NEW i \in Pair, NEW j \in Pair, i # j
  PROVE  /\ cswapPair(a, i, j) \in Usage
         /\ cswapPair(a, i, j)[i] = IF a[i] > a[j] THEN a[j] ELSE a[i]
         /\ cswapPair(a, i, j)[j] = IF a[i] > a[j] THEN a[i] ELSE a[j]
         /\ \A k \in Pair \ {i, j} : cswapPair(a, i, j)[k] = a[k]
         /\ SamePairs(cswapPair(a, i, j), a)
<1> DEFINE s == cswapPair(a, i, j)
<1> USE DEF Usage, Core, Pair
<1>1. CASE a[i] > a[j]
  <2> DEFINE p == [k \in Pair |-> IF k = i THEN j ELSE IF k = j THEN i ELSE k]
  <2>1. s = [a EXCEPT ![i] = a[j], ![j] = a[i], ![i + 4] = a[j + 4], ![j + 4] = a[i + 4]]
    BY <1>1 DEF cswapPair
  <2>2. s \in Usage
    BY <2>1
  <2>3. s[i] = a[j] /\ s[j] = a[i] /\ s[i + 4] = a[j + 4] /\ s[j + 4] = a[i + 4]
    BY <2>1
  <2>4. \A k \in Pair \ {i, j} : s[k] = a[k] /\ s[k + 4] = a[k + 4]
    BY <2>1
  <2>5. p \in Order
    BY DEF Order
  <2>6. \A k \in Pair : s[k] = a[p[k]] /\ s[k + 4] = a[p[k] + 4]
    BY <2>3, <2>4
  <2> HIDE DEF s, p
  <2>7. SamePairs(s, a)
    BY <2>5, <2>6 DEF SamePairs
  <2> QED
    BY <1>1, <2>2, <2>3, <2>4, <2>7 DEF s
<1>2. CASE ~(a[i] > a[j])
  <2> DEFINE p == [k \in Pair |-> k]
  <2>1. s = a
    BY <1>2 DEF cswapPair
  <2>2. p \in Order /\ \A k \in Pair : a[k] = a[p[k]] /\ a[k + 4] = a[p[k] + 4]
    BY DEF Order
  <2> HIDE DEF p
  <2>3. SamePairs(a, a)
    BY <2>2 DEF SamePairs
  <2> QED
    BY <1>2, <2>1, <2>3
<1> QED
  BY <1>1, <1>2

\* What the step over all pairs does.
LEMMA SwapPairs ==
  ASSUME NEW a \in Usage
  PROVE  /\ swapPairsIfGreater(a) \in Usage
         /\ PairsOrdered(swapPairsIfGreater(a))
         /\ \A k \in Pair : {swapPairsIfGreater(a)[k], swapPairsIfGreater(a)[k + 4]} = {a[k], a[k + 4]}
<1> DEFINE s == swapPairsIfGreater(a)
<1> USE DEF Usage, Core, Pair
<1>1. s \in Usage
  BY DEF swapPairsIfGreater
<1>2. ASSUME NEW k \in Pair
      PROVE  /\ s[k] = IF a[k] > a[k + 4] THEN a[k + 4] ELSE a[k]
             /\ s[k + 4] = IF a[k] > a[k + 4] THEN a[k] ELSE a[k + 4]
  <2>1. k \in Core /\ k + 4 \in Core /\ k + 4 \notin Pair /\ (k + 4) - 4 = k
    OBVIOUS
  <2> QED
    BY <2>1 DEF swapPairsIfGreater
<1> QED
  BY <1>1, <1>2 DEF PairsOrdered

\* The network orders the pairs by their first numbers and keeps each pair
\* together (sys-mon-pango.c 160-167).
THEOREM NetworkSorts ==
  ASSUME NEW a \in Usage
  PROVE  /\ sort4Pairs(a) \in Usage
         /\ sort4Pairs(a)[0] <= sort4Pairs(a)[1]
         /\ sort4Pairs(a)[1] <= sort4Pairs(a)[2]
         /\ sort4Pairs(a)[2] <= sort4Pairs(a)[3]
         /\ SamePairs(sort4Pairs(a), a)
<1> DEFINE b == cswapPair(a, 0, 1)
           c == cswapPair(b, 2, 3)
           d == cswapPair(c, 0, 2)
           e == cswapPair(d, 1, 3)
           f == cswapPair(e, 1, 2)
<1>a. 0 \in Pair /\ 1 \in Pair /\ 2 \in Pair /\ 3 \in Pair
  BY DEF Pair
<1>b. \A x \in Usage : x[0] \in Nat /\ x[1] \in Nat /\ x[2] \in Nat /\ x[3] \in Nat
  BY DEF Usage, Core
<1>1. b \in Usage /\ SamePairs(b, a) /\ b[0] <= b[1]
  <2>1. b \in Usage /\ SamePairs(b, a)
        /\ b[0] = (IF a[0] > a[1] THEN a[1] ELSE a[0])
        /\ b[1] = (IF a[0] > a[1] THEN a[0] ELSE a[1])
        /\ b[2] = a[2] /\ b[3] = a[3]
    BY <1>a, CswapPair DEF Pair
  <2> HIDE DEF b
  <2> QED
    BY <2>1, <1>b
<1> HIDE DEF b
<1>2. c \in Usage /\ SamePairs(c, b) /\ c[0] <= c[1] /\ c[2] <= c[3]
  <2>1. c \in Usage /\ SamePairs(c, b)
        /\ c[2] = (IF b[2] > b[3] THEN b[3] ELSE b[2])
        /\ c[3] = (IF b[2] > b[3] THEN b[2] ELSE b[3])
        /\ c[0] = b[0] /\ c[1] = b[1]
    BY <1>a, <1>1, CswapPair DEF Pair
  <2> HIDE DEF c
  <2> QED
    BY <2>1, <1>b, <1>1
<1> HIDE DEF c
<1>3. d \in Usage /\ SamePairs(d, c) /\ d[0] <= d[1] /\ d[0] <= d[2] /\ d[0] <= d[3]
      /\ (d[2] <= d[1] \/ d[2] <= d[3])
  <2>1. d \in Usage /\ SamePairs(d, c)
        /\ d[0] = (IF c[0] > c[2] THEN c[2] ELSE c[0])
        /\ d[2] = (IF c[0] > c[2] THEN c[0] ELSE c[2])
        /\ d[1] = c[1] /\ d[3] = c[3]
    BY <1>a, <1>2, CswapPair DEF Pair
  <2> HIDE DEF d
  <2> QED
    BY <2>1, <1>b, <1>2
<1> HIDE DEF d
<1>4. e \in Usage /\ SamePairs(e, d) /\ e[0] <= e[1] /\ e[0] <= e[2] /\ e[1] <= e[3] /\ e[2] <= e[3]
  <2>1. e \in Usage /\ SamePairs(e, d)
        /\ e[1] = (IF d[1] > d[3] THEN d[3] ELSE d[1])
        /\ e[3] = (IF d[1] > d[3] THEN d[1] ELSE d[3])
        /\ e[0] = d[0] /\ e[2] = d[2]
    BY <1>a, <1>3, CswapPair DEF Pair
  <2> HIDE DEF e
  <2> QED
    BY <2>1, <1>b, <1>3
<1> HIDE DEF e
<1>5. f \in Usage /\ SamePairs(f, e) /\ f[0] <= f[1] /\ f[1] <= f[2] /\ f[2] <= f[3]
  <2>1. f \in Usage /\ SamePairs(f, e)
        /\ f[1] = (IF e[1] > e[2] THEN e[2] ELSE e[1])
        /\ f[2] = (IF e[1] > e[2] THEN e[1] ELSE e[2])
        /\ f[0] = e[0] /\ f[3] = e[3]
    BY <1>a, <1>4, CswapPair DEF Pair
  <2> HIDE DEF f
  <2> QED
    BY <2>1, <1>b, <1>4
<1> HIDE DEF f
<1>6. SamePairs(f, a)
  BY <1>1, <1>2, <1>3, <1>4, <1>5, SamePairsTransitive
<1>7. sort4Pairs(a) = f
  BY DEF sort4Pairs, f, e, d, c, b
<1> QED
  BY <1>5, <1>6, <1>7

\* The bars of the panel come in pairs of cores, sorted, the core with less idle
\* time first, whatever the cores' numbers are (sys-mon-pango.c 268-269).
THEOREM BarsInOrder ==
  ASSUME NEW a \in Usage,
         NEW s, s = sort4Pairs(swapPairsIfGreater(a))
  PROVE  /\ s[0] <= s[1] /\ s[1] <= s[2] /\ s[2] <= s[3]
         /\ PairsOrdered(s)
         /\ \E p \in Order : \A k \in Pair : {s[k], s[k + 4]} = {a[p[k]], a[p[k] + 4]}
<1> DEFINE b == swapPairsIfGreater(a)
<1>1. b \in Usage /\ PairsOrdered(b)
      /\ \A k \in Pair : {b[k], b[k + 4]} = {a[k], a[k + 4]}
  BY SwapPairs
<1> HIDE DEF b
<1>2. s[0] <= s[1] /\ s[1] <= s[2] /\ s[2] <= s[3] /\ SamePairs(s, b)
  BY <1>1, NetworkSorts DEF b
<1>3. PICK p \in Order : \A k \in Pair : s[k] = b[p[k]] /\ s[k + 4] = b[p[k] + 4]
  BY <1>2 DEF SamePairs
<1>4. \A k \in Pair : p[k] \in Pair
  BY DEF Order
<1>5. PairsOrdered(s)
  BY <1>1, <1>3, <1>4 DEF PairsOrdered
<1>6. \A k \in Pair : {s[k], s[k + 4]} = {a[p[k]], a[p[k] + 4]}
  BY <1>1, <1>3, <1>4
<1> QED
  BY <1>2, <1>5, <1>6

-----------------------------------------------------------------------------
\* Part of n equal parts.
LEMMA Share ==
  ASSUME NEW x \in Nat, NEW width \in Nat \ {0}, x <= width, NEW n \in Nat
  PROVE  (x * n) \div width \in 0 .. n
<1> DEFINE q == (x * n) \div width
<1>1. x * n \in Nat /\ x * n <= n * width
  OBVIOUS
<1>2. q \in Nat /\ q * width <= x * n
  BY <1>1
<1>3. q <= n
  <2> SUFFICES ASSUME q >= n + 1 PROVE FALSE
    BY <1>2
  <2>1. q * width >= (n + 1) * width
    BY <1>2
  <2>2. (n + 1) * width = n * width + width
    OBVIOUS
  <2> QED
    BY <1>1, <1>2, <2>1, <2>2
<1> QED
  BY <1>2, <1>3

\* choose never gives an index outside of the n strings or colours its callers
\* have, whatever the value (block-bars-utils.c 7-23).
THEOREM ChooseInRange ==
  ASSUME NEW n \in Nat \ {0}, NEW min \in Int, NEW max \in Int, NEW val \in Int,
         max = 0 \/ min < max
  PROVE  choose(n, min, max, val) \in 0 .. n - 1
<1>1. CASE max = 0
  BY <1>1 DEF choose
<1>2. CASE max # 0
  <2> DEFINE low == IF val < min THEN min ELSE val
             v   == IF low > max THEN max ELSE low
             idx == ((v - min) * n) \div (max - min)
  <2>1. v - min \in Nat /\ max - min \in Nat \ {0} /\ v - min <= max - min
    BY <1>2
  <2> HIDE DEF v
  <2>2. idx \in 0 .. n
    BY <2>1, Share
  <2>3. choose(n, min, max, val) = IF idx = n THEN n - 1 ELSE idx
    BY <1>2 DEF choose, v
  <2> QED
    BY <2>2, <2>3
<1> QED
  BY <1>1, <1>2
-----------------------------------------------------------------------------
(* Induction up to a number.                                               *)

\* A nonempty set of naturals has a least element.
LEMMA Least ==
  ASSUME NEW T \in SUBSET Nat, T # {}
  PROVE  \E x \in T : \A y \in T : x <= y
<1> DEFINE R == {ss \in Nat \X Nat : ss[1] < ss[2]}
<1>1. OpToRel(<, Nat) = R
  BY Zenon DEF OpToRel
<1>2. \E x \in T : \A y \in T : ~ (<<y, x>> \in OpToRel(<, Nat))
  BY WFMin, NatLessThanWellFounded
<1>3. PICK x \in T : \A y \in T : ~ (<<y, x>> \in R)
  BY <1>1, <1>2
<1>4. \A y \in T : <<y, x>> \in R <=> y < x
  OBVIOUS
<1> HIDE DEF R
<1>5. \A y \in T : ~ (y < x)
  BY <1>3, <1>4
<1> QED
  BY <1>5

\* What holds of 0 and of each number after one it holds of holds up to n.
LEMMA UpTo ==
  ASSUME NEW n \in Nat, NEW T, 0 \in T, \A m \in 1 .. n : m - 1 \in T => m \in T
  PROVE  \A m \in 0 .. n : m \in T
<1> SUFFICES ASSUME NEW m \in 0 .. n, m \notin T
             PROVE  FALSE
  OBVIOUS
<1> DEFINE Out == {k \in 0 .. n : k \notin T}
<1>1. Out \in SUBSET Nat /\ Out # {}
  OBVIOUS
<1>2. PICK x \in Out : \A y \in Out : x <= y
  BY <1>1, Least
<1>3. x \in 1 .. n /\ x - 1 \notin Out /\ x - 1 \in 0 .. n
  BY <1>2
<1> QED
  BY <1>2, <1>3

-----------------------------------------------------------------------------
(* What scanf takes from a text.                                           *)

\* The formats' items.
Item == [kind : {"number", "word", "rest"}, stored : BOOLEAN]

\* The text behind the first p tokens.
After(T, p) == SubSeq(T, p + 1, Len(T))

LEMMA AfterTypes ==
  ASSUME NEW S, NEW T \in Seq(S), NEW p \in 0 .. Len(T)
  PROVE  /\ After(T, p) \in Seq(S)
         /\ Len(After(T, p)) = Len(T) - p
         /\ \A i \in 1 .. Len(T) - p : After(T, p)[i] = T[p + i]
BY DEF After

\* Line ends in front of a token are skipped.
LEMMA SkipsTo ==
  ASSUME NEW T \in Seq(Token), NEW q \in 1 .. Len(T), T[q].kind # "newline",
         \A i \in 1 .. q - 1 : T[i].kind = "newline"
  PROVE  SkipSpace(T) = SubSeq(T, q, Len(T))
<1> DEFINE I == {i \in 1 .. Len(T) : T[i].kind # "newline"}
<1>1. q \in I /\ \A i \in I : q <= i
  OBVIOUS
<1>2. Min(I) = q
  <2>1. \A x, y \in I : x <= y /\ y <= x => x = y
    OBVIOUS
  <2> HIDE DEF I
  <2> QED
    BY <1>1, <2>1 DEF Min
<1>3. SelectInSeq(T, LAMBDA t : t.kind # "newline") = q
  BY <1>1, <1>2, Zenon DEF SelectInSeq
<1> QED
  BY <1>3 DEF SkipSpace

LEMMA SkipsAll ==
  ASSUME NEW T \in Seq(Token), \A i \in 1 .. Len(T) : T[i].kind = "newline"
  PROVE  SkipSpace(T) = <<>>
<1>1. {i \in 1 .. Len(T) : T[i].kind # "newline"} = {}
  OBVIOUS
<1>2. SelectInSeq(T, LAMBDA t : t.kind # "newline") = 0
  BY <1>1 DEF SelectInSeq
<1> QED
  BY <1>2 DEF SkipSpace

LEMMA SkipSpaceTypes ==
  ASSUME NEW T \in Seq(Token)
  PROVE  SkipSpace(T) \in Seq(Token)
<1>1. CASE \A i \in 1 .. Len(T) : T[i].kind = "newline"
  <2>1. SkipSpace(T) = <<>>
    BY <1>1, SkipsAll
  <2> QED
    BY <2>1
<1>2. CASE ~ \A i \in 1 .. Len(T) : T[i].kind = "newline"
  <2> DEFINE I == {i \in 1 .. Len(T) : T[i].kind # "newline"}
  <2>1. I \in SUBSET Nat /\ I # {}
    BY <1>2
  <2>2. PICK q \in I : \A i \in I : q <= i
    BY <2>1, Least
  <2>3. q \in 1 .. Len(T) /\ T[q].kind # "newline" /\ \A i \in 1 .. q - 1 : T[i].kind = "newline"
    BY <2>2
  <2>4. SkipSpace(T) = SubSeq(T, q, Len(T))
    BY <2>3, SkipsTo
  <2> QED
    BY <2>3, <2>4
<1> QED
  BY <1>1, <1>2

LEMMA LineLengthTypes ==
  ASSUME NEW T \in Seq(Token)
  PROVE  LineLength(T) \in 0 .. Len(T)
<1> DEFINE U == T \o <<Newline>>
           I == {i \in 1 .. Len(U) : U[i].kind = "newline"}
<1>1. Len(U) = Len(T) + 1 /\ U[Len(T) + 1] = Newline
  OBVIOUS
<1>2. I \in SUBSET Nat /\ I # {} /\ I \subseteq 1 .. Len(T) + 1
  <2>1. Newline.kind = "newline"
    BY DEF Newline
  <2>2. Len(T) \in Nat
    OBVIOUS
  <2> QED
    BY <1>1, <2>1, <2>2
<1>3. Min(I) \in I
  <2>1. \E x \in I : \A y \in I : x <= y
    BY <1>2, Least
  <2> HIDE DEF I
  <2> QED
    BY <2>1 DEF Min
<1>4. LineLength(T) = Min(I) - 1
  BY <1>2 DEF SelectInSeq, LineLength
<1>5. Min(I) \in 1 .. Len(T) + 1
  BY <1>2, <1>3, Zenon
<1> HIDE DEF I
<1>6. Len(T) \in Nat
  OBVIOUS
<1> QED
  BY <1>4, <1>5, <1>6

LEMMA NumberOfSize ==
  ASSUME NEW t \in Token
  PROVE  Amount(t) \in Token /\ Unit(t) \in Token
BY DEF Token, Kind, Number, Word, Amount, Unit

Taken(d) ==
  /\ d.ok \in BOOLEAN /\ d.rest \in Seq(Token)
  /\ d.ok => d.tokens \in Seq(Token) /\ Len(d.tokens) >= 1

LEMMA TakenTypes ==
  ASSUME NEW rest \in Seq(Token)
  PROVE  /\ Taken(Fails(rest))
         /\ \A tokens \in Seq(Token) : Len(tokens) >= 1 => Taken(Takes(tokens, rest))
         /\ \A t \in Token : Taken(Takes(<<t>>, rest))
<1>1. Taken(Fails(rest)) /\ \A tokens \in Seq(Token) : Len(tokens) >= 1 => Taken(Takes(tokens, rest))
  BY DEF Taken, Takes, Fails
<1>2. \A t \in Token : <<t>> \in Seq(Token) /\ Len(<<t>>) >= 1
  OBVIOUS
<1> QED
  BY <1>1, <1>2

LEMMA TakeNumberTypes ==
  ASSUME NEW here \in Seq(Token), here # <<>>
  PROVE  Taken(TakeNumber(here))
<1> DEFINE t == Head(here)
<1>1. t \in Token /\ Tail(here) \in Seq(Token)
  OBVIOUS
<1>2. Amount(t) \in Token /\ <<Unit(t)>> \o Tail(here) \in Seq(Token)
  <2>1. Amount(t) \in Token /\ Unit(t) \in Token
    BY <1>1, NumberOfSize
  <2>2. <<Unit(t)>> \in Seq(Token)
    BY <2>1
  <2> QED
    BY <1>1, <2>1, <2>2, ConcatProperties
<1>3. Taken(Takes(<<t>>, Tail(here))) /\ Taken(Takes(<<Amount(t)>>, <<Unit(t)>> \o Tail(here)))
      /\ Taken(Fails(Tail(here))) /\ Taken(Fails(here))
  BY <1>1, <1>2, TakenTypes
<1>4. \/ TakeNumber(here) = Takes(<<t>>, Tail(here))
      \/ TakeNumber(here) = Takes(<<Amount(t)>>, <<Unit(t)>> \o Tail(here))
      \/ TakeNumber(here) = Fails(Tail(here))
      \/ TakeNumber(here) = Fails(here)
  BY DEF TakeNumber
<1> QED
  BY <1>3, <1>4, Zenon

LEMMA TakeLineTypes ==
  ASSUME NEW T \in Seq(Token)
  PROVE  Taken(TakeLine(T))
<1> DEFINE line == LineLength(T)
<1>1. line \in 0 .. Len(T)
  BY LineLengthTypes
<1> HIDE DEF line
<1>2. line >= 1 => /\ SubSeq(T, 1, line) \in Seq(Token) /\ Len(SubSeq(T, 1, line)) >= 1
                   /\ SubSeq(T, line + 1, Len(T)) \in Seq(Token)
  BY <1>1
<1>3. \/ TakeLine(T) = Fails(T)
      \/ line >= 1 /\ TakeLine(T) = Takes(SubSeq(T, 1, line), SubSeq(T, line + 1, Len(T)))
  BY <1>1 DEF TakeLine, line
<1>4. CASE TakeLine(T) = Fails(T)
  BY <1>4, TakenTypes
<1>5. CASE line >= 1 /\ TakeLine(T) = Takes(SubSeq(T, 1, line), SubSeq(T, line + 1, Len(T)))
  BY <1>2, <1>5, TakenTypes
<1> QED
  BY <1>3, <1>4, <1>5

\* A conversion takes tokens of the text, and some when it succeeds.
LEMMA ConversionTypes ==
  ASSUME NEW T \in Seq(Token), NEW kind \in {"number", "word", "rest"}
  PROVE  Taken(Conversion(kind, T))
<1> DEFINE here == SkipSpace(T)
<1>1. here \in Seq(Token)
  BY SkipSpaceTypes
<1>2. CASE kind = "rest"
  <2>1. Conversion(kind, T) = TakeLine(T)
    BY <1>2 DEF Conversion
  <2> QED
    BY <2>1, TakeLineTypes
<1>3. CASE kind # "rest" /\ here = <<>>
  <2>1. Conversion(kind, T) = Fails(<<>>)
    BY <1>3 DEF Conversion
  <2>2. <<>> \in Seq(Token)
    OBVIOUS
  <2> QED
    BY <2>1, <2>2, TakenTypes
<1>4. CASE kind = "word" /\ here # <<>>
  <2>1. Conversion(kind, T) = Takes(<<Head(here)>>, Tail(here))
    BY <1>4 DEF Conversion
  <2>2. Head(here) \in Token /\ Tail(here) \in Seq(Token)
    BY <1>1, <1>4
  <2> QED
    BY <2>1, <2>2, TakenTypes
<1>5. CASE kind = "number" /\ here # <<>>
  <2>1. Conversion(kind, T) = TakeNumber(here)
    BY <1>5 DEF Conversion
  <2> QED
    BY <1>1, <1>5, <2>1, TakeNumberTypes
<1> QED
  BY <1>2, <1>3, <1>4, <1>5

\* A number behind line ends is taken, and nothing else.
LEMMA ConversionOfNumber ==
  ASSUME NEW T \in Seq(Token), NEW q \in 1 .. Len(T), T[q].kind = "number",
         \A i \in 1 .. q - 1 : T[i].kind = "newline"
  PROVE  Conversion("number", T) = Takes(<<T[q]>>, After(T, q))
<1> DEFINE here == SubSeq(T, q, Len(T))
<1>1. SkipSpace(T) = here
  BY SkipsTo
<1>2. Head(here) = T[q] /\ Tail(here) = After(T, q)
  BY HeadTailOfSubSeq DEF After
<1>3. here # <<>>
  <2>1. Len(here) # 0 /\ Len(<<>>) = 0
    OBVIOUS
  <2> QED
    BY <2>1, Zenon
<1> HIDE DEF here
<1>4. Conversion("number", T) = TakeNumber(here)
  BY <1>1, <1>3 DEF Conversion
<1> QED
  BY <1>2, <1>4 DEF TakeNumber

-----------------------------------------------------------------------------
(* A scan, item by item.                                                   *)

\* The items of a format in turn, as a function.
Steps(g, T, format) ==
  /\ g = [k \in 0 .. Len(format) |-> g[k]]
  /\ g[0] = Begun(T)
  /\ \A k \in 1 .. Len(format) : g[k] = ScanItem(g[k - 1], format[k])

LEMMA StepsExist ==
  ASSUME NEW T, NEW format \in Seq(Item)
  PROVE  \E g : Steps(g, T, format)
<1> DEFINE Part(g, m) == /\ g = [k \in 0 .. m |-> g[k]]
                         /\ g[0] = Begun(T)
                         /\ \A k \in 1 .. m : g[k] = ScanItem(g[k - 1], format[k])
           Good(m) == \E g : Part(g, m)
           M == {m \in 0 .. Len(format) : Good(m)}
<1>1. Len(format) \in Nat
  OBVIOUS
<1>2. 0 \in M
  <2> DEFINE g == [k \in 0 .. 0 |-> Begun(T)]
  <2>1. Part(g, 0)
    OBVIOUS
  <2>2. Good(0)
    BY <2>1
  <2> HIDE DEF Good
  <2> QED
    BY <1>1, <2>2
<1>3. ASSUME NEW m \in 1 .. Len(format), m - 1 \in M
      PROVE  m \in M
  <2>1. PICK g : Part(g, m - 1)
    BY <1>3
  <2> DEFINE h == [k \in 0 .. m |-> IF k = m THEN ScanItem(g[m - 1], format[m]) ELSE g[k]]
  <2>2. h = [k \in 0 .. m |-> h[k]] /\ h[0] = g[0] /\ h[m] = ScanItem(g[m - 1], format[m])
    OBVIOUS
  <2>3. \A k \in 0 .. m - 1 : h[k] = g[k]
    OBVIOUS
  <2> HIDE DEF h
  <2>4. ASSUME NEW k \in 1 .. m
        PROVE  h[k] = ScanItem(h[k - 1], format[k])
    <3>1. CASE k = m
      <4>1. h[k - 1] = g[k - 1]
        BY <2>3, <3>1
      <4> QED
        BY <2>2, <3>1, <4>1
    <3>2. CASE k # m
      <4>1. k \in 1 .. m - 1 /\ k - 1 \in 0 .. m - 1 /\ k \in 0 .. m - 1
        BY <3>2
      <4>2. h[k] = g[k] /\ h[k - 1] = g[k - 1]
        BY <2>3, <4>1
      <4>3. g[k] = ScanItem(g[k - 1], format[k])
        BY <2>1, <4>1
      <4> QED
        BY <4>2, <4>3
    <3> QED
      BY <3>1, <3>2
  <2>5. Part(h, m)
    BY <2>1, <2>2, <2>4
  <2>6. Good(m)
    BY <2>5
  <2> HIDE DEF Good
  <2> QED
    BY <1>1, <2>6
<1> HIDE DEF M
<1>4. \A m \in 0 .. Len(format) : m \in M
  BY <1>1, <1>2, <1>3, UpTo
<1>5. Good(Len(format))
  <2>1. Len(format) \in M
    BY <1>1, <1>4
  <2> HIDE DEF Good
  <2> QED
    BY <2>1 DEF M
<1> QED
  BY <1>5 DEF Steps

\* A scan is what its last item leaves.
LEMMA ScanSteps ==
  ASSUME NEW T, NEW format \in Seq(Item)
  PROVE  \E g : Steps(g, T, format) /\ sscanf(T, format) = g[Len(format)]
<1> DEFINE Next1(d, k) == CHOOSE next \in {ScanItem(e, format[k]) : e \in {d}} : TRUE
           IsScan(g) == g = [k \in 0 .. Len(format) |-> IF k = 0 THEN Begun(T) ELSE Next1(g[k - 1], k)]
           s == CHOOSE g : IsScan(g)
<1>1. sscanf(T, format) = s[Len(format)]
  BY DEF sscanf
<1>2. \A d, k : Next1(d, k) = ScanItem(d, format[k])
  OBVIOUS
<1> HIDE DEF Next1
<1>3. PICK g : Steps(g, T, format)
  BY StepsExist
<1>4. IsScan(g)
  <2>1. /\ g = [k \in 0 .. Len(format) |-> g[k]]
        /\ g[0] = Begun(T)
        /\ \A k \in 1 .. Len(format) : g[k] = Next1(g[k - 1], k)
    BY <1>2, <1>3 DEF Steps
  <2>2. \A k \in 0 .. Len(format) : g[k] = IF k = 0 THEN Begun(T) ELSE Next1(g[k - 1], k)
    BY <2>1
  <2> QED
    BY <2>1, <2>2, Zenon
<1>5. IsScan(s)
  BY <1>4, Zenon
<1> HIDE DEF s
<1>6. s = [k \in 0 .. Len(format) |-> s[k]] /\ \A k \in 0 .. Len(format) : s[k] = IF k = 0 THEN Begun(T) ELSE Next1(s[k - 1], k)
  BY <1>5
<1>7. Len(format) \in Nat
  OBVIOUS
<1>8. Steps(s, T, format)
  BY <1>2, <1>6, <1>7 DEF Steps
<1> QED
  BY <1>1, <1>8

\* What a scan has got so far.
Stores == Seq(Seq(Token) \ {<<>>})
Done == [going : BOOLEAN, stored : Stores, rest : Seq(Token), eof : BOOLEAN]

\* What was stored before is kept.
Extends(new, old) ==
  /\ Len(old) <= Len(new) /\ Len(new) <= Len(old) + 1
  /\ \A i \in 1 .. Len(old) : new[i] = old[i]

LEMMA BegunTypes ==
  ASSUME NEW T \in Seq(Token)
  PROVE  Begun(T) \in Done /\ Len(Begun(T).stored) = 0
<1>1. <<>> \in Stores /\ Len(<<>>) = 0
  BY DEF Stores
<1> HIDE DEF Stores
<1> QED
  BY <1>1 DEF Begun, Done

LEMMA ItemTypes ==
  ASSUME NEW d \in Done, NEW item \in Item
  PROVE  ScanItem(d, item) \in Done /\ Extends(ScanItem(d, item).stored, d.stored)
<1> DEFINE c == Conversion(item.kind, d.rest)
           e == ScanItem(d, item)
<1>1. /\ d.going \in BOOLEAN /\ d.stored \in Stores /\ d.rest \in Seq(Token) /\ d.eof \in BOOLEAN
      /\ item.kind \in {"number", "word", "rest"} /\ item.stored \in BOOLEAN
  BY DEF Done, Item
<1>2. Taken(c)
  BY <1>1, ConversionTypes
<1> HIDE DEF c
<1>3. Len(d.stored) \in Nat
  BY <1>1 DEF Stores
<1>4. CASE ~ d.going
  <2>1. e = d
    BY <1>4 DEF ScanItem
  <2> QED
    BY <1>3, <2>1 DEF Extends
<1>5. CASE d.going /\ c.ok /\ item.stored
  <2>1. c.tokens \in Seq(Token) \ {<<>>}
    <3>1. c.tokens \in Seq(Token) /\ Len(c.tokens) # 0 /\ Len(<<>>) = 0
      BY <1>2, <1>5 DEF Taken
    <3> QED
      BY <3>1, Zenon
  <2>2. e.going = c.ok /\ e.stored = Append(d.stored, c.tokens) /\ e.rest = c.rest
        /\ e.eof \in BOOLEAN /\ e = [going |-> e.going, stored |-> e.stored, rest |-> e.rest, eof |-> e.eof]
    BY <1>5 DEF ScanItem, c
  <2>3. e.stored \in Stores /\ Extends(e.stored, d.stored)
    BY <1>1, <2>1, <2>2, AppendProperties DEF Stores, Extends
  <2> QED
    BY <1>2, <2>2, <2>3 DEF Done, Taken
<1>6. CASE d.going /\ ~ (c.ok /\ item.stored)
  <2>2. e.going = c.ok /\ e.stored = d.stored /\ e.rest = c.rest
        /\ e.eof \in BOOLEAN /\ e = [going |-> e.going, stored |-> e.stored, rest |-> e.rest, eof |-> e.eof]
    BY <1>6 DEF ScanItem, c
  <2>3. e.stored \in Stores /\ Extends(e.stored, d.stored)
    BY <1>1, <1>3, <2>2 DEF Extends
  <2> QED
    BY <1>2, <2>2, <2>3 DEF Done, Taken
<1> QED
  BY <1>4, <1>5, <1>6

\* Every step of a scan has the right type.
LEMMA StepsTypes ==
  ASSUME NEW T \in Seq(Token), NEW format \in Seq(Item), NEW g, Steps(g, T, format)
  PROVE  /\ \A k \in 0 .. Len(format) : g[k] \in Done /\ Len(g[k].stored) <= k
         /\ \A k \in 1 .. Len(format) : Extends(g[k].stored, g[k - 1].stored)
<1> DEFINE M == {k \in 0 .. Len(format) : g[k] \in Done /\ Len(g[k].stored) <= k}
<1>1. Len(format) \in Nat
  OBVIOUS
<1>2. 0 \in M
  BY <1>1, BegunTypes DEF Steps
<1>3. \A k \in 1 .. Len(format) : k - 1 \in 0 .. Len(format) /\ format[k] \in Item
  BY <1>1
<1>4. ASSUME NEW k \in 1 .. Len(format), k - 1 \in M
      PROVE  k \in M /\ Extends(g[k].stored, g[k - 1].stored)
  <2>1. g[k - 1] \in Done /\ Len(g[k - 1].stored) <= k - 1
    BY <1>4
  <2>2. g[k] \in Done /\ Extends(g[k].stored, g[k - 1].stored)
    BY <1>3, <2>1, ItemTypes DEF Steps
  <2>3. Len(g[k].stored) \in Nat /\ Len(g[k - 1].stored) \in Nat
    BY <2>1, <2>2 DEF Done, Stores
  <2>4. Len(g[k].stored) <= k
    BY <2>1, <2>2, <2>3 DEF Extends
  <2> QED
    BY <1>1, <2>2, <2>4
<1> HIDE DEF M
<1>5. \A k \in 0 .. Len(format) : k \in M
  BY <1>1, <1>2, <1>4, UpTo
<1> QED
  BY <1>3, <1>4, <1>5 DEF M

LEMMA ScanTypes ==
  ASSUME NEW T \in Seq(Token), NEW format \in Seq(Item)
  PROVE  sscanf(T, format) \in Done /\ Len(sscanf(T, format).stored) <= Len(format)
<1>1. PICK g : Steps(g, T, format) /\ sscanf(T, format) = g[Len(format)]
  BY ScanSteps
<1>2. Len(format) \in 0 .. Len(format)
  OBVIOUS
<1> QED
  BY <1>1, <1>2, StepsTypes

\* What was stored up to some item is the beginning of what is stored at the end.
LEMMA StoredStays ==
  ASSUME NEW T \in Seq(Token), NEW format \in Seq(Item), NEW g, Steps(g, T, format),
         NEW m \in 0 .. Len(format)
  PROVE  /\ Len(g[m].stored) <= Len(g[Len(format)].stored)
         /\ \A i \in 1 .. Len(g[m].stored) : g[Len(format)].stored[i] = g[m].stored[i]
<1> DEFINE Kept(k) == /\ Len(g[m].stored) <= Len(g[k].stored)
                      /\ \A i \in 1 .. Len(g[m].stored) : g[k].stored[i] = g[m].stored[i]
           M == {k \in 0 .. Len(format) : k >= m => Kept(k)}
<1>1. Len(format) \in Nat /\ m \in Nat
  OBVIOUS
<1>2. \A k \in 0 .. Len(format) : Len(g[k].stored) \in Nat
  <2>1. \A k \in 0 .. Len(format) : g[k] \in Done
    BY StepsTypes
  <2> QED
    BY <2>1 DEF Done, Stores
<1>3. Kept(m)
  BY <1>2
<1>4. 0 \in M
  <2>1. 0 >= m => m = 0
    BY <1>1
  <2> QED
    BY <1>1, <1>3, <2>1
<1>5. ASSUME NEW k \in 1 .. Len(format), k - 1 \in M
      PROVE  k \in M
  <2>1. CASE k <= m
    BY <1>3, <2>1
  <2>2. CASE k > m
    <3>1. Kept(k - 1) /\ Extends(g[k].stored, g[k - 1].stored)
      BY <1>1, <1>5, <2>2, StepsTypes
    <3>2. Len(g[k].stored) \in Nat /\ Len(g[k - 1].stored) \in Nat /\ Len(g[m].stored) \in Nat
      BY <1>1, <1>2
    <3>3. Len(g[m].stored) <= Len(g[k].stored)
      <4>1. Len(g[m].stored) <= Len(g[k - 1].stored) /\ Len(g[k - 1].stored) <= Len(g[k].stored)
        BY <3>1, Zenon DEF Extends
      <4>2. \A x, y, z \in Nat : x <= y /\ y <= z => x <= z
        OBVIOUS
      <4> QED
        BY <3>2, <4>1, <4>2, Zenon
    <3>4. ASSUME NEW i \in 1 .. Len(g[m].stored)
          PROVE  g[k].stored[i] = g[m].stored[i]
      <4>1. i \in 1 .. Len(g[k - 1].stored)
        BY <3>1, <3>2
      <4> QED
        BY <3>1, <4>1 DEF Extends
    <3>5. Kept(k)
      BY <3>3, <3>4
    <3> QED
      BY <3>5
  <2> QED
    BY <1>1, <2>1, <2>2
<1> HIDE DEF M
<1>6. \A k \in 0 .. Len(format) : k \in M
  BY <1>1, <1>4, <1>5, UpTo
<1>7. Len(format) \in M
  BY <1>1, <1>6
<1> QED
  BY <1>1, <1>7 DEF M

\* The first m numbers of a text, with line ends alone between them, are at places p.
NumbersAt(T, m, p) ==
  /\ p \in [0 .. m -> 0 .. Len(T)] /\ p[0] = 0
  /\ \A k \in 1 .. m :
       /\ p[k - 1] < p[k] /\ T[p[k]].kind = "number"
       /\ \A i \in p[k - 1] + 1 .. p[k] - 1 : T[i].kind = "newline"

\* The first m items of a format are numbers, and c of them are stored.
NumberItems(format, m, c) ==
  /\ c \in [0 .. m -> Nat] /\ c[0] = 0
  /\ \A k \in 1 .. m : /\ format[k].kind = "number"
                       /\ c[k] = c[k - 1] + IF format[k].stored THEN 1 ELSE 0

LEMMA NextNumber ==
  ASSUME NEW T \in Seq(Token), NEW a \in 0 .. Len(T), NEW b \in 0 .. Len(T),
         a < b, T[b].kind = "number", \A i \in a + 1 .. b - 1 : T[i].kind = "newline"
  PROVE  Conversion("number", After(T, a)) = Takes(<<T[b]>>, After(T, b))
<1> DEFINE R == After(T, a)
           q == b - a
<1>1. R \in Seq(Token) /\ Len(R) = Len(T) - a /\ \A i \in 1 .. Len(T) - a : R[i] = T[a + i]
  BY AfterTypes
<1> HIDE DEF R
<1>2. Len(T) \in Nat
  OBVIOUS
<1>3. q \in 1 .. Len(R) /\ R[q] = T[b]
  <2>1. q \in 1 .. Len(T) - a /\ a + q = b
    BY <1>2
  <2> QED
    BY <1>1, <2>1
<1>4. \A i \in 1 .. q - 1 : R[i].kind = "newline"
  <2> SUFFICES ASSUME NEW i \in 1 .. q - 1
               PROVE  R[i].kind = "newline"
    OBVIOUS
  <2>1. i \in 1 .. Len(T) - a /\ a + i \in a + 1 .. b - 1
    BY <1>2
  <2> QED
    BY <1>1, <2>1
<1>5. Conversion("number", R) = Takes(<<R[q]>>, After(R, q))
  BY <1>1, <1>3, <1>4, ConversionOfNumber
<1>6. After(R, q) = After(T, b)
  <2>1. /\ After(R, q) \in Seq(Token) /\ Len(After(R, q)) = Len(R) - q
        /\ \A i \in 1 .. Len(R) - q : After(R, q)[i] = R[q + i]
    <3>1. q \in 0 .. Len(R)
      BY <1>3
    <3> HIDE DEF q
    <3> QED
      BY <1>1, <3>1, AfterTypes
  <2>2. /\ After(T, b) \in Seq(Token) /\ Len(After(T, b)) = Len(T) - b
        /\ \A i \in 1 .. Len(T) - b : After(T, b)[i] = T[b + i]
    BY AfterTypes
  <2>3. Len(R) - q = Len(T) - b
    BY <1>1, <1>2
  <2>4. ASSUME NEW i \in 1 .. Len(T) - b
        PROVE  After(R, q)[i] = After(T, b)[i]
    <3>1. q + i \in 1 .. Len(T) - a /\ a + (q + i) = b + i
      BY <1>2
    <3> QED
      BY <1>1, <2>1, <2>2, <2>3, <3>1
  <2> DEFINE x == After(R, q)
             y == After(T, b)
  <2>5. x \in Seq(Token) /\ y \in Seq(Token) /\ Len(x) = Len(y) /\ \A i \in 1 .. Len(x) : x[i] = y[i]
    BY <2>1, <2>2, <2>3, <2>4
  <2> HIDE DEF x, y
  <2>6. x = y
    BY <2>5, SeqEqual
  <2> QED
    BY <2>6 DEF x, y
<1> QED
  BY <1>3, <1>5, <1>6 DEF R

\* A format whose first items are numbers stores the first numbers of a text that
\* has as many.
\* What the items store of those numbers.
NumbersStored(T, format, m, p, c) ==
  LET st == sscanf(T, format).stored
  IN /\ c[m] <= Len(st)
     /\ \A k \in 1 .. m : format[k].stored => c[k] \in 1 .. c[m] /\ st[c[k]] = <<T[p[k]]>>

LEMMA ScanNumbers ==
  ASSUME NEW T \in Seq(Token), NEW format \in Seq(Item), NEW m \in 0 .. Len(format),
         NEW p, NumbersAt(T, m, p), NEW c, NumberItems(format, m, c)
  PROVE  NumbersStored(T, format, m, p, c)
<1> DEFINE st == sscanf(T, format).stored
<1>1. PICK g : Steps(g, T, format) /\ sscanf(T, format) = g[Len(format)]
  BY ScanSteps
<1>2. Len(format) \in Nat /\ m \in Nat
  OBVIOUS
<1> DEFINE At(k) == /\ g[k].going /\ g[k].rest = After(T, p[k]) /\ Len(g[k].stored) = c[k]
                    /\ \A j \in 1 .. k : format[j].stored =>
                         c[j] \in 1 .. c[k] /\ g[k].stored[c[j]] = <<T[p[j]]>>
           M == {k \in 0 .. m : At(k)}
<1>3. \A k \in 0 .. m : c[k] \in Nat /\ p[k] \in 0 .. Len(T)
  BY DEF NumbersAt, NumberItems
<1>4. 0 \in M
  <2>1. g[0] = Begun(T) /\ p[0] = 0 /\ c[0] = 0
    BY <1>1 DEF Steps, NumbersAt, NumberItems
  <2>2. After(T, 0) = T
    BY SubSeqFull DEF After
  <2>3. Begun(T).going /\ Begun(T).rest = T /\ Len(Begun(T).stored) = 0
    BY DEF Begun
  <2>4. \A j \in 1 .. 0 : FALSE
    OBVIOUS
  <2>5. At(0)
    BY <2>1, <2>2, <2>3, <2>4
  <2> QED
    BY <1>2, <2>5
<1>5. ASSUME NEW k \in 1 .. m, k - 1 \in M
      PROVE  k \in M
  <2>1. k - 1 \in 0 .. m /\ k \in 0 .. m /\ k \in 1 .. Len(format) /\ k - 1 \in 0 .. Len(format)
    BY <1>2
  <2>2. At(k - 1)
    BY <1>5
  <2>3. format[k] \in Item /\ format[k].kind = "number" /\ g[k - 1] \in Done /\ g[k] \in Done
    BY <1>1, <2>1, StepsTypes DEF NumberItems
  <2>4. g[k] = ScanItem(g[k - 1], format[k])
    BY <1>1, <2>1 DEF Steps
  <2>5. Conversion("number", g[k - 1].rest) = Takes(<<T[p[k]]>>, After(T, p[k]))
    <3>1. /\ p[k - 1] < p[k] /\ T[p[k]].kind = "number"
          /\ \A i \in p[k - 1] + 1 .. p[k] - 1 : T[i].kind = "newline"
      BY DEF NumbersAt
    <3>2. p[k - 1] \in 0 .. Len(T) /\ p[k] \in 0 .. Len(T)
      BY <1>3, <2>1
    <3>3. Conversion("number", After(T, p[k - 1])) = Takes(<<T[p[k]]>>, After(T, p[k]))
      BY <3>1, <3>2, NextNumber
    <3> QED
      BY <2>2, <3>3
  <2>6. /\ g[k].going /\ g[k].rest = After(T, p[k])
        /\ g[k].stored = IF format[k].stored THEN Append(g[k - 1].stored, <<T[p[k]]>>) ELSE g[k - 1].stored
    BY <2>2, <2>3, <2>4, <2>5 DEF ScanItem, Takes
  <2>7. c[k] = c[k - 1] + (IF format[k].stored THEN 1 ELSE 0) /\ c[k] \in Nat /\ c[k - 1] \in Nat
    BY <1>3, <2>1 DEF NumberItems
  <2>8. g[k - 1].stored \in Stores /\ Len(g[k - 1].stored) = c[k - 1]
    BY <2>2, <2>3 DEF Done
  <2>9. CASE format[k].stored
    <3>1. /\ Len(g[k].stored) = c[k - 1] + 1 /\ g[k].stored[c[k - 1] + 1] = <<T[p[k]]>>
          /\ \A i \in 1 .. c[k - 1] : g[k].stored[i] = g[k - 1].stored[i]
      BY <2>6, <2>8, <2>9 DEF Stores
    <3>2. ASSUME NEW j \in 1 .. k, format[j].stored
          PROVE  c[j] \in 1 .. c[k] /\ g[k].stored[c[j]] = <<T[p[j]]>>
      <4>1. CASE j = k
        BY <2>7, <2>9, <3>1, <4>1
      <4>2. CASE j # k
        <5>1. j \in 1 .. k - 1
          BY <4>2
        <5>2. c[j] \in 1 .. c[k - 1] /\ g[k - 1].stored[c[j]] = <<T[p[j]]>>
          BY <2>2, <3>2, <5>1
        <5>3. c[j] \in 1 .. c[k]
          BY <2>7, <5>2
        <5>4. g[k].stored[c[j]] = g[k - 1].stored[c[j]]
          BY <3>1, <5>2
        <5> QED
          BY <5>2, <5>3, <5>4
      <4> QED
        BY <4>1, <4>2
    <3>3. At(k)
      BY <2>6, <2>7, <2>9, <3>1, <3>2
    <3> QED
      BY <2>1, <3>3
  <2>10. CASE ~ format[k].stored
    <3>1. g[k].stored = g[k - 1].stored /\ c[k] = c[k - 1]
      BY <2>6, <2>7, <2>10
    <3>2. ASSUME NEW j \in 1 .. k, format[j].stored
          PROVE  c[j] \in 1 .. c[k] /\ g[k].stored[c[j]] = <<T[p[j]]>>
      <4>1. j \in 1 .. k - 1
        BY <2>10, <3>2
      <4> QED
        BY <2>2, <3>1, <3>2, <4>1
    <3>3. At(k)
      BY <2>2, <2>6, <3>1, <3>2
    <3> QED
      BY <2>1, <3>3
  <2> QED
    BY <2>9, <2>10
<1> HIDE DEF M
<1>6. \A k \in 0 .. m : k \in M
  BY <1>2, <1>4, <1>5, UpTo
<1>7. At(m)
  <2>1. m \in M
    BY <1>2, <1>6
  <2> QED
    BY <2>1 DEF M
<1>8. st = g[Len(format)].stored
  BY <1>1
<1> HIDE DEF st
<1>9. /\ Len(g[m].stored) <= Len(st)
      /\ \A i \in 1 .. Len(g[m].stored) : st[i] = g[m].stored[i]
  BY <1>1, <1>8, StoredStays
<1> QED
  BY <1>7, <1>9 DEF NumbersStored, st

-----------------------------------------------------------------------------
(* The modules of the programs.                                            *)

LEMMA Constants ==
  /\ Sensors \in Nat \ {0} /\ MaxFaults \in Nat /\ MaxUpdates \in Nat
  /\ Thousand \in Nat \ {0} /\ TenthGB \in Nat \ {0}
  /\ IntValues \in Nat \ {0} /\ IntValues > 200 /\ IntValues % 2 = 0
BY ModuleTextAssumption, ReadingAssumption, IntAssumption

LEMMA LineOrigins ==
  /\ \A l \in Line : l \in Source \X Nat /\ l \in Origin /\ l # <<"end", 0>> /\ l # <<"memory", 0>>
  /\ Cpu # Ram /\ Cpu # Time /\ Cpu # Gpu /\ Ram # Time /\ Ram # Gpu /\ Time # Gpu
  /\ \A i \in Sensor : Temps[i] = <<"temp", i>> /\ Freqs[i] = <<"freq", i>>
  /\ \A i \in Sensor : Temps[i] \in Line /\ Freqs[i] \in Line
  /\ Cpu \in Line /\ Ram \in Line /\ Time \in Line /\ Gpu \in Line
  /\ \A l \in Line : l \in {Cpu, Ram, Time, Gpu} \/ \E i \in Sensor : l = Temps[i] \/ l = Freqs[i]
<1>1. \A i \in Sensor : i \in Nat /\ Temps[i] = <<"temp", i>> /\ Freqs[i] = <<"freq", i>>
  BY Constants DEF Sensor, Temps, Freqs
<1>2. DOMAIN Temps = Sensor /\ DOMAIN Freqs = Sensor
  BY DEF Temps, Freqs, Sensor
<1>3. Line = {Cpu, Ram, Time, Gpu} \cup {Temps[i] : i \in Sensor} \cup {Freqs[i] : i \in Sensor}
  BY <1>2, Zenon DEF Line, ToSet
<1>4. ASSUME NEW l \in Line
      PROVE  l \in Source \X Nat /\ l # <<"end", 0>> /\ l # <<"memory", 0>>
  <2>1. CASE l \in {Cpu, Ram, Time, Gpu}
    <3>1. \A name \in Source : <<name, 0>> \in Source \X Nat
      OBVIOUS
    <3>2. \A name \in Source \ {"end", "memory"} : <<name, 0>> # <<"end", 0>> /\ <<name, 0>> # <<"memory", 0>>
      OBVIOUS
    <3>3. {"cpu", "ram", "time", "gpu_rc6"} \subseteq Source \ {"end", "memory"}
      BY DEF Source
    <3> QED
      BY <2>1, <3>1, <3>2, <3>3 DEF Cpu, Ram, Time, Gpu
  <2>2. ASSUME NEW i \in Sensor, l = Temps[i] \/ l = Freqs[i]
        PROVE  l \in Source \X Nat /\ l # <<"end", 0>> /\ l # <<"memory", 0>>
    <3>1. \A name \in Source, n \in Nat : <<name, n>> \in Source \X Nat
      OBVIOUS
    <3>2. /\ <<"temp", i>> # <<"end", 0>> /\ <<"temp", i>> # <<"memory", 0>>
          /\ <<"freq", i>> # <<"end", 0>> /\ <<"freq", i>> # <<"memory", 0>>
      OBVIOUS
    <3>3. "temp" \in Source /\ "freq" \in Source
      BY DEF Source
    <3> QED
      BY <1>1, <2>2, <3>1, <3>2, <3>3, Zenon
  <2> QED
    BY <1>3, <2>1, <2>2, Zenon
<1>5. \A l \in Line : l \in Origin
  BY <1>4, Zenon DEF Origin
<1>6. Cpu # Ram /\ Cpu # Time /\ Cpu # Gpu /\ Ram # Time /\ Ram # Gpu /\ Time # Gpu
  BY DEF Cpu, Ram, Time, Gpu
<1> QED
  BY <1>1, <1>3, <1>4, <1>5, <1>6, Zenon

\* One list of modules behind another.
LEMMA Joined ==
  \A s, t \in Seq(Line) :
    /\ s \o t \in Seq(Line) /\ Len(s \o t) = Len(s) + Len(t)
    /\ \A i \in 1 .. Len(s) : (s \o t)[i] = s[i]
    /\ \A i \in 1 .. Len(t) : (s \o t)[Len(s) + i] = t[i]
OBVIOUS

\* The modules of a program: some, all sensors, and some more.
Listed(mods, head, h, tail) ==
  /\ mods \in Seq(Line) /\ Len(mods) = h + 2 * Sensors + Len(tail)
  /\ \A i \in 1 .. h : mods[i] = head[i]
  /\ \A i \in Sensor : mods[h + i] = Temps[i] /\ mods[h + Sensors + i] = Freqs[i]
  /\ \A i \in 1 .. Len(tail) : mods[h + 2 * Sensors + i] = tail[i]

LEMMA ModulesAre ==
  ASSUME NEW head \in Seq(Line), NEW tail \in Seq(Line)
  PROVE  Listed(head \o Temps \o Freqs \o tail, head, Len(head), tail)
<1> DEFINE b == head \o Temps
           c == b \o Freqs
           h == Len(head)
           mods == head \o Temps \o Freqs \o tail
<1>1. Sensors \in Nat /\ Sensor = 1 .. Sensors /\ Len(tail) \in Nat /\ h \in Nat
  BY Constants DEF Sensor
<1>2. /\ Temps \in Seq(Line) /\ Len(Temps) = Sensors
      /\ Freqs \in Seq(Line) /\ Len(Freqs) = Sensors
  <2>1. Temps \in [1 .. Sensors -> Line] /\ Freqs \in [1 .. Sensors -> Line]
    BY <1>1, LineOrigins DEF Temps, Freqs
  <2> QED
    BY <1>1, <2>1 DEF Temps, Freqs
<1>3. /\ b \in Seq(Line) /\ Len(b) = h + Sensors
      /\ \A i \in 1 .. h : b[i] = head[i]
      /\ \A i \in Sensor : b[h + i] = Temps[i]
  <2>1. /\ head \o Temps \in Seq(Line) /\ Len(head \o Temps) = Len(head) + Len(Temps)
        /\ \A i \in 1 .. Len(head) : (head \o Temps)[i] = head[i]
        /\ \A i \in 1 .. Len(Temps) : (head \o Temps)[Len(head) + i] = Temps[i]
    BY <1>2, Joined, Zenon
  <2> QED
    BY <1>1, <1>2, <2>1
<1> HIDE DEF b
<1>4. /\ c \in Seq(Line) /\ Len(c) = h + Sensors + Sensors
      /\ \A i \in 1 .. h + Sensors : c[i] = b[i]
      /\ \A i \in Sensor : c[h + Sensors + i] = Freqs[i]
  <2>1. /\ b \o Freqs \in Seq(Line) /\ Len(b \o Freqs) = Len(b) + Len(Freqs)
        /\ \A i \in 1 .. Len(b) : (b \o Freqs)[i] = b[i]
        /\ \A i \in 1 .. Len(Freqs) : (b \o Freqs)[Len(b) + i] = Freqs[i]
    BY <1>2, <1>3, Joined, Zenon
  <2> QED
    BY <1>1, <1>2, <1>3, <2>1
<1> HIDE DEF c
<1>5. /\ c \o tail \in Seq(Line) /\ Len(c \o tail) = Len(c) + Len(tail)
      /\ \A i \in 1 .. Len(c) : (c \o tail)[i] = c[i]
      /\ \A i \in 1 .. Len(tail) : (c \o tail)[Len(c) + i] = tail[i]
  BY <1>4, Joined, Zenon
<1>6. mods = c \o tail
  BY DEF b, c
<1> HIDE DEF mods, h
<1>7. Len(c) = h + 2 * Sensors
  BY <1>1, <1>4
<1>8. /\ mods \in Seq(Line) /\ Len(mods) = h + 2 * Sensors + Len(tail)
      /\ \A i \in 1 .. Len(tail) : mods[h + 2 * Sensors + i] = tail[i]
  BY <1>5, <1>6, <1>7
<1>9. ASSUME NEW i \in 1 .. h
      PROVE  mods[i] = head[i]
  <2>1. i \in 1 .. Len(c) /\ i \in 1 .. h + Sensors
    BY <1>1, <1>7
  <2> QED
    BY <1>3, <1>4, <1>5, <1>6, <2>1
<1>10. ASSUME NEW i \in Sensor
       PROVE  mods[h + i] = Temps[i] /\ mods[h + Sensors + i] = Freqs[i]
  <2>1. h + i \in 1 .. Len(c) /\ h + i \in 1 .. h + Sensors /\ h + Sensors + i \in 1 .. Len(c)
    BY <1>1, <1>7
  <2> QED
    BY <1>3, <1>4, <1>5, <1>6, <2>1
<1> QED
  BY <1>8, <1>9, <1>10 DEF Listed, mods, h

\* A program reads cpu first, and no module twice.
ModuleList(mods) ==
  /\ mods \in Seq(Line) /\ Len(mods) \in 1 .. 4 + 2 * Sensors
  /\ mods[1] = Cpu
  /\ \A i, j \in 1 .. Len(mods) : mods[i] = mods[j] => i = j

LEMMA OneOrTwo ==
  /\ \A a \in 1 .. 2 : \A b \in 1 .. a : b = 1 \/ (b = 2 /\ a = 2)
  /\ \A a \in 0 .. 2 : \A b \in 1 .. a : (b = 1 /\ a > 0) \/ (b = 2 /\ a > 1)
OBVIOUS

LEMMA ListsAre ==
  ASSUME NEW head, NEW h \in 1 .. 2, head[1] = Cpu, h = 2 => head[2] = Ram,
         NEW tail, NEW n \in 0 .. 2, Len(tail) = n, n > 0 => tail[1] = Time, n > 1 => tail[2] = Gpu,
         NEW mods, Listed(mods, head, h, tail)
  PROVE  ModuleList(mods)
<1> DEFINE at == [l \in Line |-> IF l = Cpu THEN 1 ELSE IF l = Ram THEN 2
                                 ELSE IF l = Time THEN h + 2 * Sensors + 1
                                 ELSE IF l = Gpu THEN h + 2 * Sensors + 2
                                 ELSE IF l[1] = "temp" THEN h + l[2] ELSE h + Sensors + l[2]]
<1>1. /\ h \in 1 .. 2 /\ head[1] = Cpu /\ (h = 2 => head[2] = Ram)
      /\ n \in 0 .. 2 /\ (n > 0 => tail[1] = Time) /\ (n > 1 => tail[2] = Gpu)
  OBVIOUS
<1>2. Sensors \in Nat /\ Sensor = 1 .. Sensors /\ h \in Nat
  BY Constants, <1>1 DEF Sensor
<1>3. /\ mods \in Seq(Line) /\ Len(mods) = h + 2 * Sensors + n
      /\ \A i \in 1 .. h : mods[i] = head[i]
      /\ \A i \in Sensor : mods[h + i] = Temps[i] /\ mods[h + Sensors + i] = Freqs[i]
      /\ \A i \in 1 .. n : mods[h + 2 * Sensors + i] = tail[i]
  BY Zenon DEF Listed
<1>4. \A l \in Line : at[l] = IF l = Cpu THEN 1 ELSE IF l = Ram THEN 2
                              ELSE IF l = Time THEN h + 2 * Sensors + 1
                              ELSE IF l = Gpu THEN h + 2 * Sensors + 2
                              ELSE IF l[1] = "temp" THEN h + l[2] ELSE h + Sensors + l[2]
  OBVIOUS
<1> HIDE DEF at
<1>5. at[Cpu] = 1 /\ at[Ram] = 2 /\ at[Time] = h + 2 * Sensors + 1 /\ at[Gpu] = h + 2 * Sensors + 2
  BY <1>4, LineOrigins, Zenon
<1>6. ASSUME NEW i \in Sensor
      PROVE  at[Temps[i]] = h + i /\ at[Freqs[i]] = h + Sensors + i
  <2>1. <<"temp", i>> \notin {Cpu, Ram, Time, Gpu} /\ <<"freq", i>> \notin {Cpu, Ram, Time, Gpu}
    BY DEF Cpu, Ram, Time, Gpu
  <2>2. <<"temp", i>>[1] = "temp" /\ <<"temp", i>>[2] = i /\ <<"freq", i>>[1] # "temp" /\ <<"freq", i>>[2] = i
    OBVIOUS
  <2>3. Temps[i] = <<"temp", i>> /\ Freqs[i] = <<"freq", i>> /\ <<"temp", i>> \in Line /\ <<"freq", i>> \in Line
    BY LineOrigins
  <2>4. at[<<"temp", i>>] = h + i
    BY <1>4, <2>1, <2>2, <2>3, Zenon
  <2>5. at[<<"freq", i>>] = h + Sensors + i
    BY <1>4, <2>1, <2>2, <2>3, Zenon
  <2> QED
    BY <2>3, <2>4, <2>5, Zenon
<1>7. ASSUME NEW i \in 1 .. Len(mods)
      PROVE  at[mods[i]] = i
  <2>1. CASE i \in 1 .. h
    <3>1. mods[i] = head[i]
      BY <2>1, <1>3, Zenon
    <3>2. i = 1 \/ (i = 2 /\ h = 2)
      BY <2>1, <1>1, OneOrTwo, Zenon
    <3> QED
      BY <3>1, <3>2, <1>1, <1>5, Zenon
  <2>2. CASE i - h \in 1 .. Sensors
    <3>1. PICK k \in Sensor : i = h + k
      <4>1. i = h + (i - h)
        BY <1>2
      <4> QED
        BY <1>2, <2>2, <4>1, Zenon
    <3> QED
      BY <3>1, <1>3, <1>6, Zenon
  <2>3. CASE i - h - Sensors \in 1 .. Sensors
    <3>1. PICK k \in Sensor : i = h + Sensors + k
      <4>1. i = h + Sensors + (i - h - Sensors)
        BY <1>2
      <4> QED
        BY <1>2, <2>3, <4>1, Zenon
    <3> QED
      BY <3>1, <1>3, <1>6, Zenon
  <2>4. CASE i - h - 2 * Sensors \in 1 .. n
    <3>1. PICK k \in 1 .. n : i = h + 2 * Sensors + k
      <4>1. i = h + 2 * Sensors + (i - h - 2 * Sensors)
        BY <1>2
      <4> QED
        BY <2>4, <4>1, Zenon
    <3>2. (k = 1 /\ n > 0) \/ (k = 2 /\ n > 1)
      BY <3>1, <1>1, OneOrTwo, Zenon
    <3>3. at[tail[k]] = h + 2 * Sensors + k
      BY <3>2, <1>1, <1>5, Zenon
    <3> QED
      BY <3>1, <3>3, <1>3, Zenon
  <2>5. i \in 1 .. h \/ i - h \in 1 .. Sensors \/ i - h - Sensors \in 1 .. Sensors
        \/ i - h - 2 * Sensors \in 1 .. n
    BY <1>1, <1>2, <1>3
  <2> QED
    BY <2>1, <2>2, <2>3, <2>4, <2>5
<1>8. mods[1] = Cpu /\ Len(mods) \in 1 .. 4 + 2 * Sensors
  BY <1>1, <1>2, <1>3
<1> QED
  BY <1>3, <1>7, <1>8 DEF ModuleList

\* The lists of the three programs, and the numbers of cores.
LEMMA ProgramLists ==
  /\ ModuleList(PanelModules) /\ ModuleList(InfoModules) /\ ModuleList(StatsModules)
  /\ Len(PanelModules) = 4 + 2 * Sensors /\ Len(InfoModules) = 3 + 2 * Sensors
  /\ Len(StatsModules) = 1 + 2 * Sensors
  /\ PanelModules[2] = Ram /\ InfoModules[2] = Ram
  /\ \A i \in Sensor : /\ PanelModules[2 + i] = Temps[i]
                       /\ InfoModules[2 + i] = Temps[i] /\ InfoModules[2 + Sensors + i] = Freqs[i]
                       /\ StatsModules[1 + i] = Temps[i] /\ StatsModules[1 + Sensors + i] = Freqs[i]
  /\ InfoModules[3 + 2 * Sensors] = Time
  /\ \A i \in 1 .. Len(StatsModules) : StatsModules[i] # Ram
  /\ ToSet(PanelModules) = Line
<1>1. /\ Sensors \in Nat /\ Sensor = 1 .. Sensors
      /\ Cpu \in Line /\ Ram \in Line /\ Time \in Line /\ Gpu \in Line
  BY Constants, LineOrigins DEF Sensor
<1>2. /\ <<Cpu, Ram>> \in Seq(Line) /\ Len(<<Cpu, Ram>>) = 2 /\ <<Cpu, Ram>>[2] = Ram /\ <<Cpu, Ram>>[1] = Cpu
      /\ <<Time, Gpu>> \in Seq(Line) /\ Len(<<Time, Gpu>>) = 2 /\ <<Time, Gpu>>[1] = Time /\ <<Time, Gpu>>[2] = Gpu
      /\ <<Time>> \in Seq(Line) /\ Len(<<Time>>) = 1 /\ <<Time>>[1] = Time
      /\ <<Cpu>> \in Seq(Line) /\ Len(<<Cpu>>) = 1 /\ <<Cpu>>[1] = Cpu
      /\ <<>> \in Seq(Line) /\ Len(<<>>) = 0
  BY <1>1
<1>3. PanelModules = <<Cpu, Ram>> \o Temps \o Freqs \o <<Time, Gpu>>
  BY Zenon DEF PanelModules
<1>4. InfoModules = <<Cpu, Ram>> \o Temps \o Freqs \o <<Time>>
  BY Zenon DEF InfoModules
<1>5. StatsModules = <<Cpu>> \o Temps \o Freqs \o <<>>
  <2>1. Temps \in Seq(Line) /\ Freqs \in Seq(Line)
    <3>1. Temps \in [1 .. Sensors -> Line] /\ Freqs \in [1 .. Sensors -> Line]
      BY <1>1, LineOrigins DEF Temps, Freqs
    <3> QED
      BY <1>1, <3>1
  <2>2. <<Cpu>> \o Temps \in Seq(Line)
    BY <1>2, <2>1, Joined, Zenon
  <2>3. <<Cpu>> \o Temps \o Freqs \in Seq(Line)
    BY <2>1, <2>2, Joined, Zenon
  <2> QED
    BY <2>3, ConcatEmptySeq, Zenon DEF StatsModules
<1>6. /\ Len(PanelModules) = 2 + 2 * Sensors + 2
      /\ \A i \in 1 .. 2 : PanelModules[i] = <<Cpu, Ram>>[i]
      /\ \A i \in Sensor : PanelModules[2 + i] = Temps[i] /\ PanelModules[2 + Sensors + i] = Freqs[i]
      /\ \A i \in 1 .. 2 : PanelModules[2 + 2 * Sensors + i] = <<Time, Gpu>>[i]
  <2>1. Listed(PanelModules, <<Cpu, Ram>>, Len(<<Cpu, Ram>>), <<Time, Gpu>>)
    BY <1>2, <1>3, ModulesAre, Zenon
  <2> QED
    BY <1>2, <2>1 DEF Listed
<1>7. /\ Len(InfoModules) = 2 + 2 * Sensors + 1
      /\ \A i \in 1 .. 2 : InfoModules[i] = <<Cpu, Ram>>[i]
      /\ \A i \in Sensor : InfoModules[2 + i] = Temps[i] /\ InfoModules[2 + Sensors + i] = Freqs[i]
      /\ \A i \in 1 .. 1 : InfoModules[2 + 2 * Sensors + i] = <<Time>>[i]
  <2>1. Listed(InfoModules, <<Cpu, Ram>>, Len(<<Cpu, Ram>>), <<Time>>)
    BY <1>2, <1>4, ModulesAre, Zenon
  <2> QED
    BY <1>2, <2>1 DEF Listed
<1>8. /\ Len(StatsModules) = 1 + 2 * Sensors + 0
      /\ \A i \in 1 .. 1 : StatsModules[i] = <<Cpu>>[i]
      /\ \A i \in Sensor : StatsModules[1 + i] = Temps[i] /\ StatsModules[1 + Sensors + i] = Freqs[i]
  <2>1. Listed(StatsModules, <<Cpu>>, Len(<<Cpu>>), <<>>)
    BY <1>2, <1>5, ModulesAre, Zenon
  <2> QED
    BY <1>2, <2>1 DEF Listed
<1>9. ModuleList(PanelModules) /\ ModuleList(InfoModules) /\ ModuleList(StatsModules)
  <2>1. /\ Listed(PanelModules, <<Cpu, Ram>>, Len(<<Cpu, Ram>>), <<Time, Gpu>>)
        /\ Listed(InfoModules, <<Cpu, Ram>>, Len(<<Cpu, Ram>>), <<Time>>)
        /\ Listed(StatsModules, <<Cpu>>, Len(<<Cpu>>), <<>>)
    BY <1>2, <1>3, <1>4, <1>5, ModulesAre, Zenon
  <2>2. 1 \in 1 .. 2 /\ 2 \in 1 .. 2 /\ 0 \in 0 .. 2 /\ 1 \in 0 .. 2 /\ 2 \in 0 .. 2
        /\ ~ (0 > 0) /\ ~ (0 > 1) /\ ~ (1 > 1) /\ 1 # 2
    OBVIOUS
  <2>3. ModuleList(PanelModules)
    BY <1>2, <2>1, <2>2, ListsAre, Zenon
  <2>4. ModuleList(InfoModules)
    BY <1>2, <2>1, <2>2, ListsAre, Zenon
  <2>5. ModuleList(StatsModules)
    BY <1>2, <2>1, <2>2, ListsAre, Zenon
  <2> QED
    BY <2>3, <2>4, <2>5
<1>10. ASSUME NEW i \in 1 .. Len(StatsModules)
       PROVE  StatsModules[i] # Ram
  <2>1. \A k \in Sensor : Temps[k] # Ram /\ Freqs[k] # Ram
    BY LineOrigins DEF Ram
  <2>2. CASE i = 1
    BY <2>2, <1>2, <1>8, LineOrigins
  <2>3. CASE i - 1 \in 1 .. Sensors
    <3>1. i = 1 + (i - 1)
      BY <1>1
    <3> QED
      BY <2>1, <2>3, <3>1, <1>1, <1>8
  <2>4. CASE i - 1 - Sensors \in 1 .. Sensors
    <3>1. i = 1 + Sensors + (i - 1 - Sensors)
      BY <1>1
    <3> QED
      BY <2>1, <2>4, <3>1, <1>1, <1>8
  <2>5. i = 1 \/ i - 1 \in 1 .. Sensors \/ i - 1 - Sensors \in 1 .. Sensors
    BY <1>1, <1>8
  <2> QED
    BY <2>2, <2>3, <2>4, <2>5
<1>11. ToSet(PanelModules) = Line
  <2>1. PanelModules \in Seq(Line) /\ DOMAIN PanelModules = 1 .. 4 + 2 * Sensors
    BY <1>1, <1>6, <1>9 DEF ModuleList
  <2>2. ToSet(PanelModules) \subseteq Line
    <3>1. \A k \in 1 .. 4 + 2 * Sensors : PanelModules[k] \in Line
      BY <1>1, <1>6, <1>9 DEF ModuleList
    <3> QED
      BY <2>1, <3>1, Zenon DEF ToSet
  <2>3. ASSUME NEW l \in Line
        PROVE  \E k \in 1 .. 4 + 2 * Sensors : PanelModules[k] = l
    <3>1. CASE l = Cpu
      <4>1. 1 \in 1 .. 4 + 2 * Sensors /\ PanelModules[1] = Cpu
        BY <1>1, <1>2, <1>6
      <4> QED
        BY <3>1, <4>1
    <3>2. CASE l = Ram
      <4>1. 2 \in 1 .. 4 + 2 * Sensors /\ PanelModules[2] = Ram
        BY <1>1, <1>2, <1>6
      <4> QED
        BY <3>2, <4>1
    <3>3. CASE l = Time
      <4>1. 2 + 2 * Sensors + 1 \in 1 .. 4 + 2 * Sensors
        BY <1>1
      <4> QED
        BY <3>3, <4>1, <1>2, <1>6
    <3>4. CASE l = Gpu
      <4>1. 2 + 2 * Sensors + 2 \in 1 .. 4 + 2 * Sensors
        BY <1>1
      <4> QED
        BY <3>4, <4>1, <1>2, <1>6
    <3>5. ASSUME NEW i \in Sensor, l = Temps[i] \/ l = Freqs[i]
          PROVE  \E k \in 1 .. 4 + 2 * Sensors : PanelModules[k] = l
      <4>1. 2 + i \in 1 .. 4 + 2 * Sensors /\ 2 + Sensors + i \in 1 .. 4 + 2 * Sensors
        BY <1>1
      <4> QED
        BY <3>5, <4>1, <1>6
    <3> QED
      BY <3>1, <3>2, <3>3, <3>4, <3>5, LineOrigins
  <2> QED
    BY <2>1, <2>2, <2>3 DEF ToSet
<1>12. PanelModules[2] = Ram /\ InfoModules[2] = Ram
  BY <1>2, <1>6, <1>7
<1>13. InfoModules[3 + 2 * Sensors] = Time
  <2>1. 3 + 2 * Sensors = 2 + 2 * Sensors + 1
    BY <1>1
  <2> QED
    BY <2>1, <1>2, <1>7
<1>14. Len(PanelModules) = 4 + 2 * Sensors /\ Len(InfoModules) = 3 + 2 * Sensors /\ Len(StatsModules) = 1 + 2 * Sensors
  BY <1>1, <1>6, <1>7, <1>8
<1> QED
  BY <1>6, <1>7, <1>8, <1>9, <1>10, <1>11, <1>12, <1>13, <1>14, Zenon

-----------------------------------------------------------------------------
(* The text: what its tokens are while lines come behind one another.      *)

IsNumber(t, l) == t.kind = "number" /\ t.from = l

\* A number that a module other than cpu gives.
OneNumber(l) == {v \in -(IntValues \div 2) .. IntValues \div 2 - 1 : l = Ram => v >= 0}

\* No line behind the first, up to line j, is of a module in F.
ReadUpTo(mods, F, j) == \A i \in 2 .. j : mods[i] \notin F

\* The first n lines of a list of modules are the text T; those of the modules in
\* F are any tokens, but for cpu's, which are as many numbers as ever.
TextIs(mods, cores, T, n, F) ==
  /\ T \in Seq(Token) /\ n \in 0 .. Len(mods)
  /\ F \subseteq {mods[j] : j \in 1 .. n}
  /\ n = 0 => T = <<>>
  /\ \A i \in 1 .. Len(T) : T[i].from \in {mods[j] : j \in 1 .. n} \cup {<<"end", 0>>}
  /\ n > 0 => /\ Len(T) >= cores + 2
              /\ \A i \in 1 .. cores + 1 : IsNumber(T[i], Cpu) /\ (Cpu \notin F => T[i].n \in 0 .. 100)
              /\ T[cores + 2] = Newline
              /\ ReadUpTo(mods, F, n) => Len(T) = cores + 2 * n
  /\ \A j \in 2 .. n : ReadUpTo(mods, F, j) =>
       /\ Len(T) >= cores + 2 * j
       /\ IsNumber(T[cores + 2 * j - 1], mods[j]) /\ T[cores + 2 * j - 1].n \in OneNumber(mods[j])
       /\ T[cores + 2 * j] = Newline

LEMMA TokensAre ==
  /\ Newline \in Token /\ Newline.from = <<"end", 0>> /\ Newline.kind = "newline"
  /\ \A v \in Int, l \in Origin : /\ Number(v, l) \in Token /\ IsNumber(Number(v, l), l)
                                  /\ Number(v, l).n = v
<1>1. <<"end", 0>> \in Origin
  <2>1. "end" \in Source /\ 0 \in Nat
    BY DEF Source
  <2>2. \A x \in Source, k \in Nat : <<x, k>> \in Source \X Nat
    OBVIOUS
  <2> QED
    BY <2>1, <2>2, Zenon DEF Origin
<1> QED
  BY <1>1 DEF Newline, Token, Kind, Number, IsNumber

LEMMA LineTokens ==
  ASSUME NEW r \in Seq(Int), NEW l \in Origin
  PROVE  /\ Tokens(r, l) \in Seq(Token) /\ Len(Tokens(r, l)) = Len(r)
         /\ \A i \in 1 .. Len(r) : IsNumber(Tokens(r, l)[i], l) /\ Tokens(r, l)[i].n = r[i]
<1>1. DOMAIN r = 1 .. Len(r) /\ Len(r) \in Nat /\ \A i \in 1 .. Len(r) : r[i] \in Int
  OBVIOUS
<1>2. Tokens(r, l) = [i \in 1 .. Len(r) |-> Number(r[i], l)]
  BY <1>1, Zenon DEF Tokens
<1>3. \A i \in 1 .. Len(r) : Number(r[i], l) \in Token /\ IsNumber(Number(r[i], l), l) /\ Number(r[i], l).n = r[i]
  BY <1>1, TokensAre, Zenon
<1> QED
  BY <1>1, <1>2, <1>3

\* U is T, the tokens x and the end of their line.
LineBehind(T, x, U) ==
  /\ U \in Seq(Token) /\ Len(U) = Len(T) + Len(x) + 1
  /\ \A i \in 1 .. Len(T) : U[i] = T[i]
  /\ \A i \in 1 .. Len(x) : U[Len(T) + i] = x[i]
  /\ U[Len(T) + Len(x) + 1] = Newline

\* A line written behind the text.
LEMMA Appended ==
  ASSUME NEW T \in Seq(Token), NEW x \in Seq(Token), NEW U, U = T \o x \o <<Newline>>
  PROVE  LineBehind(T, x, U)
<1>1. <<Newline>> \in Seq(Token) /\ Len(<<Newline>>) = 1 /\ <<Newline>>[1] = Newline
  BY TokensAre
<1> QED
  BY <1>1 DEF LineBehind

\* The tokens x of the line behind n others, when the modules in F failed, and
\* those in G with it.
IsLine(cores, n, F, l, x, G) ==
  /\ x \in Seq(Token) /\ \A i \in 1 .. Len(x) : x[i].from = l
  /\ G = F \/ G = F \cup {l}
  /\ n = 0 => /\ Len(x) = cores + 1
              /\ \A i \in 1 .. Len(x) : IsNumber(x[i], l) /\ (G = F => x[i].n \in 0 .. 100)
  /\ n > 0 /\ G = F => Len(x) = 1 /\ IsNumber(x[1], l) /\ x[1].n \in OneNumber(l)

LEMMA LineWritten ==
  ASSUME NEW mods, ModuleList(mods), NEW cores \in Nat,
         NEW T, NEW n \in 0 .. Len(mods) - 1, NEW F, TextIs(mods, cores, T, n, F),
         NEW l, l = mods[n + 1], NEW x, NEW G, IsLine(cores, n, F, l, x, G)
  PROVE  TextIs(mods, cores, T \o x \o <<Newline>>, n + 1, G)
<1> DEFINE U == T \o x \o <<Newline>>
<1>0. /\ x \in Seq(Token) /\ \A i \in 1 .. Len(x) : x[i].from = l
      /\ G = F \/ G = F \cup {l}
      /\ n = 0 => /\ Len(x) = cores + 1
                  /\ \A i \in 1 .. Len(x) : IsNumber(x[i], l) /\ (G = F => x[i].n \in 0 .. 100)
      /\ n > 0 /\ G = F => Len(x) = 1 /\ IsNumber(x[1], l) /\ x[1].n \in OneNumber(l)
  BY Zenon DEF IsLine
<1>1. /\ Len(mods) \in Nat /\ n \in Nat /\ n + 1 \in 1 .. Len(mods)
      /\ mods[1] = Cpu /\ \A i, j \in 1 .. Len(mods) : mods[i] = mods[j] => i = j
  BY DEF ModuleList
<1>2. T \in Seq(Token) /\ F \subseteq {mods[j] : j \in 1 .. n}
  BY DEF TextIs
<1>3. /\ U \in Seq(Token) /\ Len(U) = Len(T) + Len(x) + 1
      /\ \A i \in 1 .. Len(T) : U[i] = T[i]
      /\ \A i \in 1 .. Len(x) : U[Len(T) + i] = x[i]
      /\ U[Len(T) + Len(x) + 1] = Newline
  <2>1. U = T \o x \o <<Newline>> /\ T \in Seq(Token) /\ x \in Seq(Token)
    BY <1>0, <1>2
  <2> HIDE DEF U
  <2> QED
    <3>1. LineBehind(T, x, U)
      BY <2>1, Appended, Zenon
    <3> QED
      BY <3>1, Zenon DEF LineBehind
<1> HIDE DEF U
<1>4. Len(T) \in Nat /\ Len(x) \in Nat
  BY <1>0, <1>2
<1>5. \A j \in 1 .. n : j \in 1 .. Len(mods) /\ j # n + 1 /\ mods[j] # l
  BY <1>1
<1>6. l \notin F
  BY <1>2, <1>5
<1>7. G \subseteq {mods[j] : j \in 1 .. n + 1}
  <2>1. \A j \in 1 .. n : j \in 1 .. n + 1
    BY <1>1
  <2>2. n + 1 \in 1 .. n + 1
    BY <1>1
  <2> QED
    BY <1>0, <1>2, <2>1, <2>2, Zenon
<1>8. ASSUME NEW i \in 1 .. Len(U)
      PROVE  U[i].from \in {mods[j] : j \in 1 .. n + 1} \cup {<<"end", 0>>}
  <2>1. \A j \in 1 .. n : j \in 1 .. n + 1
    BY <1>1
  <2>2. n + 1 \in 1 .. n + 1
    BY <1>1
  <2>3. CASE i \in 1 .. Len(T)
    <3>1. U[i] = T[i] /\ T[i].from \in {mods[j] : j \in 1 .. n} \cup {<<"end", 0>>}
      BY <1>3, <2>3, Zenon DEF TextIs
    <3> QED
      BY <2>1, <3>1, Zenon
  <2>4. CASE i - Len(T) \in 1 .. Len(x)
    <3>1. i = Len(T) + (i - Len(T))
      BY <1>4
    <3>2. U[i].from = l
      BY <1>0, <1>3, <2>4, <3>1, Zenon
    <3> QED
      BY <2>2, <3>2, Zenon
  <2>5. CASE i = Len(T) + Len(x) + 1
    BY <1>3, <2>5, TokensAre, Zenon
  <2>6. i \in 1 .. Len(T) \/ i - Len(T) \in 1 .. Len(x) \/ i = Len(T) + Len(x) + 1
    <3>1. \A a, b \in Nat : \A k \in 1 .. a + b + 1 : k \in 1 .. a \/ k - a \in 1 .. b \/ k = a + b + 1
      OBVIOUS
    <3>2. i \in 1 .. Len(T) + Len(x) + 1
      BY <1>3, Zenon
    <3> QED
      BY <1>4, <3>1, <3>2, Zenon
  <2> QED
    BY <2>3, <2>4, <2>5, <2>6, Zenon
<1>9. CASE n = 0
  <2>1. /\ T = <<>> /\ Len(T) = 0 /\ F = {} /\ l = Cpu
        /\ Len(x) = cores + 1
        /\ \A i \in 1 .. Len(x) : IsNumber(x[i], l) /\ (G = F => x[i].n \in 0 .. 100)
    <3>1. 1 .. n = {} /\ n + 1 = 1
      BY <1>9
    <3>2. T = <<>> /\ Len(<<>>) = 0
      BY <1>9 DEF TextIs
    <3>3. F = {}
      BY <1>2, <3>1, Zenon
    <3>4. l = Cpu
      BY <1>1, <3>1, Zenon
    <3>5. Len(x) = cores + 1 /\ \A i \in 1 .. Len(x) : IsNumber(x[i], l) /\ (G = F => x[i].n \in 0 .. 100)
      BY <1>0, <1>9, Zenon
    <3> QED
      BY <3>2, <3>3, <3>4, <3>5
  <2>2. Cpu \notin G => G = F
    BY <1>0, <2>1
  <2>3. /\ Len(U) = cores + 2 /\ U[cores + 2] = Newline
        /\ \A i \in 1 .. cores + 1 : IsNumber(U[i], Cpu) /\ (Cpu \notin G => U[i].n \in 0 .. 100)
    <3>1. \A i \in 1 .. cores + 1 : U[i] = x[i]
      BY <1>3, <2>1
    <3>2. Len(U) = cores + 2 /\ U[cores + 2] = Newline
      BY <1>3, <2>1
    <3> QED
      BY <2>1, <2>2, <3>1, <3>2
  <2>4. n + 1 = 1 /\ 2 .. n + 1 = {} /\ n + 1 # 0 /\ cores + 2 * (n + 1) = cores + 2
        /\ Len(U) >= cores + 2
    BY <1>9, <2>3
  <2>5. n + 1 > 0 => /\ Len(U) >= cores + 2
                     /\ \A i \in 1 .. cores + 1 : IsNumber(U[i], Cpu) /\ (Cpu \notin G => U[i].n \in 0 .. 100)
                     /\ U[cores + 2] = Newline
                     /\ ReadUpTo(mods, G, n + 1) => Len(U) = cores + 2 * (n + 1)
    BY <2>3, <2>4, Zenon
  <2>6. \A j \in 2 .. n + 1 : ReadUpTo(mods, G, j) =>
             /\ Len(U) >= cores + 2 * j
             /\ IsNumber(U[cores + 2 * j - 1], mods[j]) /\ U[cores + 2 * j - 1].n \in OneNumber(mods[j])
             /\ U[cores + 2 * j] = Newline
    BY <2>4, Zenon
  <2>7. U \in Seq(Token) /\ n + 1 \in 0 .. Len(mods) /\ (n + 1 = 0 => U = <<>>)
    <3>1. n + 1 \in 0 .. Len(mods)
      BY <1>1
    <3> QED
      BY <1>3, <2>4, <3>1, Zenon
  <2>8. TextIs(mods, cores, U, n + 1, G)
    <3> HIDE DEF U
    <3> QED
      BY <1>7, <1>8, <2>5, <2>6, <2>7, Zenon DEF TextIs
  <2> QED
    BY <2>8, Zenon DEF U
<1>10. CASE n > 0
  <2>1. /\ Len(T) >= cores + 2
        /\ \A i \in 1 .. cores + 1 : IsNumber(T[i], Cpu) /\ (Cpu \notin F => T[i].n \in 0 .. 100)
        /\ T[cores + 2] = Newline
        /\ ReadUpTo(mods, F, n) => Len(T) = cores + 2 * n
    BY <1>10 DEF TextIs
  <2>2. F \subseteq G /\ (l \notin G => G = F)
    BY <1>0, <1>6
  <2>3. /\ Len(U) >= cores + 2
        /\ \A i \in 1 .. cores + 1 : IsNumber(U[i], Cpu) /\ (Cpu \notin G => U[i].n \in 0 .. 100)
        /\ U[cores + 2] = Newline
    <3>1. \A i \in 1 .. cores + 2 : U[i] = T[i]
      BY <1>3, <1>4, <2>1
    <3>2. Len(U) >= cores + 2 /\ cores + 2 \in 1 .. cores + 2 /\ \A i \in 1 .. cores + 1 : i \in 1 .. cores + 2
      BY <1>3, <1>4, <2>1
    <3> QED
      BY <2>1, <2>2, <3>1, <3>2, Zenon
  <2>4. ASSUME NEW j \in 2 .. n, ReadUpTo(mods, G, j)
        PROVE  /\ Len(U) >= cores + 2 * j
               /\ IsNumber(U[cores + 2 * j - 1], mods[j]) /\ U[cores + 2 * j - 1].n \in OneNumber(mods[j])
               /\ U[cores + 2 * j] = Newline
    <3>1. ReadUpTo(mods, F, j)
      BY <2>2, <2>4 DEF ReadUpTo
    <3>2. /\ Len(T) >= cores + 2 * j
          /\ IsNumber(T[cores + 2 * j - 1], mods[j]) /\ T[cores + 2 * j - 1].n \in OneNumber(mods[j])
          /\ T[cores + 2 * j] = Newline
      BY <3>1, Zenon DEF TextIs
    <3>3. cores + 2 * j \in 1 .. Len(T) /\ cores + 2 * j - 1 \in 1 .. Len(T) /\ Len(U) >= cores + 2 * j
      BY <1>3, <1>4, <3>2
    <3> QED
      BY <1>3, <3>2, <3>3, Zenon
  <2>5. ASSUME ReadUpTo(mods, G, n + 1)
        PROVE  /\ Len(U) = cores + 2 * (n + 1)
               /\ IsNumber(U[cores + 2 * (n + 1) - 1], l) /\ U[cores + 2 * (n + 1) - 1].n \in OneNumber(l)
               /\ U[cores + 2 * (n + 1)] = Newline
    <3>1. n + 1 \in 2 .. n + 1 /\ \A i \in 2 .. n : i \in 2 .. n + 1
      BY <1>1, <1>10
    <3>2. l \notin G
      BY <2>5, <3>1 DEF ReadUpTo
    <3>3. ReadUpTo(mods, F, n)
      BY <2>2, <2>5, <3>1, Zenon DEF ReadUpTo
    <3>4. Len(T) = cores + 2 * n /\ Len(x) = 1 /\ IsNumber(x[1], l) /\ x[1].n \in OneNumber(l)
      BY <1>0, <1>10, <2>1, <2>2, <3>2, <3>3
    <3>5. Len(T) + 1 = cores + 2 * (n + 1) - 1 /\ Len(T) + Len(x) + 1 = cores + 2 * (n + 1) /\ 1 \in 1 .. Len(x)
      BY <1>1, <3>4
    <3>6. U[Len(T) + 1] = x[1]
      BY <1>3, <3>5, Zenon
    <3>7. U[cores + 2 * (n + 1) - 1] = x[1] /\ U[cores + 2 * (n + 1)] = Newline /\ Len(U) = cores + 2 * (n + 1)
      BY <1>3, <3>5, <3>6, Zenon
    <3> QED
      BY <3>4, <3>7, Zenon
  <2>6. ASSUME NEW j \in 2 .. n + 1, ReadUpTo(mods, G, j)
        PROVE  /\ Len(U) >= cores + 2 * j
               /\ IsNumber(U[cores + 2 * j - 1], mods[j]) /\ U[cores + 2 * j - 1].n \in OneNumber(mods[j])
               /\ U[cores + 2 * j] = Newline
    <3>1. CASE j = n + 1
      <4>1. Len(U) = cores + 2 * j => Len(U) >= cores + 2 * j
        BY <1>1
      <4> QED
        BY <2>5, <2>6, <3>1, <4>1, Zenon
    <3>2. CASE j # n + 1
      <4>1. j \in 2 .. n
        BY <1>1, <3>2
      <4> QED
        BY <2>4, <2>6, <4>1, Zenon
    <3> QED
      BY <3>1, <3>2
  <2>7. n + 1 # 0 /\ n + 1 > 0 /\ n + 1 \in 0 .. Len(mods)
    BY <1>1
  <2> QED
    BY <1>3, <1>7, <1>8, <2>3, <2>5, <2>6, <2>7, Zenon DEF TextIs, U
<1> QED
  BY <1>1, <1>9, <1>10

\* A machine has as many cores as cpu writes numbers for.
HasCores(cores) == cores \in Nat /\ (cores <= 8 \/ cores <= 2 * Sensors)

LEMMA NumbersAre ==
  ASSUME NEW l \in Line, NEW cores, HasCores(cores), NEW r \in Numbers(l, cores)
  PROVE  /\ r \in Seq(Int) /\ Len(r) \in Nat
         /\ l = Cpu => Len(r) = cores + 1 /\ \A i \in 1 .. Len(r) : r[i] \in 0 .. 100
         /\ l # Cpu => Len(r) = 1 /\ r[1] \in OneNumber(l)
<1>1. cores \in Nat /\ (cores <= 8 \/ cores <= 2 * Sensors) /\ Sensors \in Nat
  BY Constants DEF HasCores
<1>2. CASE l = Cpu
  <2>1. PICK s \in Reading[Cpu] : r = SubSeq(s, 1, 1 + cores)
    BY <1>2, Zenon DEF Numbers
  <2>2. /\ s \in Seq(Int) /\ Len(s) >= 9 /\ Len(s) >= 1 + 2 * Sensors
        /\ \A i \in 1 .. Len(s) : s[i] \in 0 .. 100
    BY ModuleTextAssumption, ReadingAssumption, LineOrigins
  <2>3. Len(s) \in Nat /\ 1 + cores <= Len(s)
    BY <1>1, <2>2
  <2>4. Len(r) = 1 + cores /\ \A i \in 1 .. 1 + cores : r[i] = s[i] /\ i \in 1 .. Len(s)
    BY <1>1, <2>1, <2>2, <2>3
  <2>5. r \in Seq(Int)
    BY <1>1, <2>1, <2>2, <2>3
  <2>6. Len(r) = cores + 1 /\ \A i \in 1 .. Len(r) : i \in 1 .. 1 + cores
    BY <1>1, <2>4
  <2>7. \A i \in 1 .. Len(r) : r[i] \in 0 .. 100
    BY <2>2, <2>4, <2>6, Zenon
  <2> QED
    BY <1>2, <2>5, <2>6, <2>7
<1>3. CASE l # Cpu
  <2>1. r \in Reading[l] /\ l \in Line \ {Cpu}
    BY <1>3 DEF Numbers
  <2>2. r \in Seq(Int) /\ Len(r) = 1 /\ r[1] \in -(IntValues \div 2) .. IntValues \div 2 - 1
    BY <2>1, ModuleTextAssumption, ReadingAssumption, Zenon
  <2>3. l = Ram => r[1] >= 0
    BY <2>1, ReadingAssumption, Zenon
  <2> QED
    BY <1>3, <2>2, <2>3 DEF OneNumber
<1> QED
  BY <1>2, <1>3

\* A module that could not read its file writes numbers or what is no number, and
\* cpu as many numbers as ever.
LEMMA BadLinesAre ==
  ASSUME NEW l \in Line, NEW cores, HasCores(cores), NEW x \in BadLines(l, cores)
  PROVE  /\ x \in Seq(Token) /\ \A i \in 1 .. Len(x) : x[i].from = l
         /\ l = Cpu => Len(x) = cores + 1 /\ \A i \in 1 .. Len(x) : IsNumber(x[i], l)
<1> DEFINE numbers == {Tokens([i \in DOMAIN r |-> j], l) : j \in Junk, r \in Numbers(l, cores)}
<1>1. ASSUME x \in numbers
      PROVE  /\ x \in Seq(Token) /\ \A i \in 1 .. Len(x) : IsNumber(x[i], l)
             /\ l = Cpu => Len(x) = cores + 1
  <2>1. PICK j \in Junk, r \in Numbers(l, cores) : x = Tokens([i \in DOMAIN r |-> j], l)
    BY <1>1
  <2>2. r \in Seq(Int) /\ (l = Cpu => Len(r) = cores + 1) /\ j \in Int
    BY NumbersAre, ModuleTextAssumption
  <2>3. [i \in DOMAIN r |-> j] \in Seq(Int) /\ Len([i \in DOMAIN r |-> j]) = Len(r)
    BY <2>2
  <2>4. /\ x \in Seq(Token) /\ Len(x) = Len(r)
        /\ \A i \in 1 .. Len(x) : IsNumber(x[i], l)
    BY <2>1, <2>3, LineTokens, LineOrigins, Zenon
  <2> QED
    BY <2>2, <2>4
<1>2. CASE l = Cpu \/ l = Gpu
  <2>1. l # Time
    BY <1>2, LineOrigins
  <2>2. x \in numbers
    BY <1>2, <2>1 DEF BadLines
  <2> QED
    BY <1>1, <2>2 DEF IsNumber
<1>3. CASE l = Time
  <2>1. l \notin {Cpu, Gpu}
    BY <1>3, LineOrigins
  <2>2. BadLines(l, cores) = {}
    BY <1>3, <2>1 DEF BadLines
  <2> QED
    BY <2>2
<1>4. CASE l \notin {Cpu, Gpu, Time}
  <2>1. x \in numbers \/ x = <<>> \/ x = <<Word(l)>>
    BY <1>4 DEF BadLines
  <2>2. Word(l) \in Token /\ Word(l).from = l
    BY LineOrigins DEF Word, Token, Kind
  <2>3. CASE x = <<>>
    BY <1>4, <2>3
  <2>4. CASE x = <<Word(l)>>
    BY <1>4, <2>2, <2>4
  <2>5. CASE x \in numbers
    BY <1>1, <2>5 DEF IsNumber
  <2> QED
    BY <2>1, <2>3, <2>4, <2>5
<1> QED
  BY <1>2, <1>3, <1>4

\* append_module_output keeps the text what it is.
LEMMA StepWritesLine ==
  ASSUME NEW mods, ModuleList(mods), NEW cores, HasCores(cores),
         TextIs(mods, cores, text, lines, failed), AppendModuleOutput(mods, cores)
  PROVE  TextIs(mods, cores, text', lines', failed') /\ failed' \subseteq Line
<1> DEFINE l == mods[lines + 1]
<1>1. lines \in 0 .. Len(mods) - 1 /\ lines' = lines + 1 /\ Len(mods) \in Nat /\ cores \in Nat
  BY DEF AppendModuleOutput, TextIs, ModuleList, HasCores
<1>2. l \in Line /\ \A j \in 1 .. Len(mods) : mods[j] \in Line /\ (mods[j] = Cpu => j = 1)
  BY <1>1 DEF ModuleList
<1>3. mods[1] = Cpu /\ failed \subseteq Line
  BY <1>1, <1>2 DEF ModuleList, TextIs
<1>4. lines = 0 => l = Cpu
  BY <1>1, <1>3
<1>5. lines > 0 => l # Cpu
  BY <1>1, <1>2
<1> HIDE DEF l
<1>6. CASE (\E r \in Numbers(l, cores) : text' = text \o Tokens(r, l) \o <<Newline>>) /\ failed' = failed
  <2>1. PICK r \in Numbers(l, cores) : text' = text \o Tokens(r, l) \o <<Newline>>
    BY <1>6
  <2>2. /\ r \in Seq(Int) /\ Len(r) \in Nat
        /\ l = Cpu => Len(r) = cores + 1 /\ \A i \in 1 .. Len(r) : r[i] \in 0 .. 100
        /\ l # Cpu => Len(r) = 1 /\ r[1] \in OneNumber(l)
    BY <1>2, NumbersAre
  <2> DEFINE x == Tokens(r, l)
  <2>3. /\ x \in Seq(Token) /\ Len(x) = Len(r)
        /\ \A i \in 1 .. Len(r) : IsNumber(x[i], l) /\ x[i].n = r[i]
    BY <1>2, <2>2, LineTokens, LineOrigins
  <2> HIDE DEF x
  <2>4. \A i \in 1 .. Len(x) : x[i].from = l
    BY <2>3 DEF IsNumber
  <2>5. lines = 0 => /\ Len(x) = cores + 1
                     /\ \A i \in 1 .. Len(x) : IsNumber(x[i], l) /\ (failed = failed => x[i].n \in 0 .. 100)
    BY <1>4, <2>2, <2>3
  <2>6. lines > 0 /\ failed = failed => Len(x) = 1 /\ IsNumber(x[1], l) /\ x[1].n \in OneNumber(l)
    BY <1>5, <2>2, <2>3
  <2>7. TextIs(mods, cores, text \o x \o <<Newline>>, lines + 1, failed)
    <3>1. IsLine(cores, lines, failed, l, x, failed)
      BY <2>3, <2>4, <2>5, <2>6, Zenon DEF IsLine
    <3> QED
      BY <1>1, <3>1, LineWritten, Zenon DEF l
  <2> QED
    BY <1>1, <1>3, <1>6, <2>1, <2>7 DEF x
<1>7. CASE (\E bad \in BadLines(l, cores) : text' = text \o bad \o <<Newline>>) /\ failed' = failed \cup {l}
  <2>1. PICK x \in BadLines(l, cores) : text' = text \o x \o <<Newline>>
    BY <1>7
  <2>2. /\ x \in Seq(Token) /\ \A i \in 1 .. Len(x) : x[i].from = l
        /\ l = Cpu => Len(x) = cores + 1 /\ \A i \in 1 .. Len(x) : IsNumber(x[i], l)
    BY <1>2, BadLinesAre
  <2>3. l \notin failed
    <3>1. PICK k \in Nat : k = lines
      BY <1>1
    <3>2. failed \subseteq {mods[j] : j \in 1 .. lines} /\ \A j \in 1 .. lines : j \in 1 .. Len(mods) /\ j # lines + 1
      BY <1>1 DEF TextIs
    <3>3. lines + 1 \in 1 .. Len(mods)
      BY <1>1
    <3> QED
      BY <3>2, <3>3, Zenon DEF ModuleList, l
  <2>4. failed \cup {l} # failed
    BY <2>3
  <2>5. lines = 0 => /\ Len(x) = cores + 1
                     /\ \A i \in 1 .. Len(x) : IsNumber(x[i], l) /\ (failed \cup {l} = failed => x[i].n \in 0 .. 100)
    BY <1>4, <2>2, <2>4, Zenon
  <2>6. lines > 0 /\ failed \cup {l} = failed => Len(x) = 1 /\ IsNumber(x[1], l) /\ x[1].n \in OneNumber(l)
    BY <2>4, Zenon
  <2>7. TextIs(mods, cores, text \o x \o <<Newline>>, lines + 1, failed \cup {l})
    <3>1. IsLine(cores, lines, failed, l, x, failed \cup {l})
      BY <2>2, <2>5, <2>6 DEF IsLine
    <3> QED
      BY <1>1, <3>1, LineWritten, Zenon DEF l
  <2> QED
    BY <1>1, <1>2, <1>3, <1>7, <2>1, <2>7
<1> QED
  BY <1>6, <1>7 DEF AppendModuleOutput, l

-----------------------------------------------------------------------------
(* What an update reads of the text.                                       *)

\* The first tokens of a module are n, from place a on.
FirstAt(l, a, n) ==
  /\ text \in Seq(Token) /\ a \in 1 .. Len(text) /\ n \in Nat \ {0} /\ a + n - 1 <= Len(text)
  /\ \A i \in a .. a + n - 1 : text[i].from = l
  /\ \A i \in 1 .. a - 1 : text[i].from # l

\* The numbers of a module are those at its place.
LEMMA ReadIs ==
  ASSUME NEW l, NEW a, NEW n, FirstAt(l, a, n)
  PROVE  \A k \in 1 .. n : Read(l)[k] = text[a + k - 1].n
<1>0. /\ text \in Seq(Token) /\ a \in 1 .. Len(text) /\ n \in Nat \ {0} /\ a + n - 1 <= Len(text)
      /\ \A i \in a .. a + n - 1 : text[i].from = l
      /\ \A i \in 1 .. a - 1 : text[i].from # l
  BY DEF FirstAt
<1> DEFINE own == {i \in DOMAIN text : text[i].from = l}
<1>1. DOMAIN text = 1 .. Len(text) /\ Len(text) \in Nat
  BY <1>0
<1>2. a \in own /\ \A i \in own : i \in 1 .. Len(text) /\ text[i].from = l
  BY <1>0, <1>1
<1>3. \A i \in own : a <= i
  BY <1>0, <1>1, <1>2
<1>4. \A i \in a .. a + n - 1 : i \in own
  BY <1>0, <1>1
<1>5. Min(own) = a
  <2>1. \A x \in own : x \in Nat
    BY <1>1, <1>2
  <2>2. \A x, y \in Nat : x <= y /\ y <= x => x = y
    OBVIOUS
  <2> HIDE DEF own
  <2>3. \A x \in own : (\A y \in own : x <= y) => x = a
    BY <1>2, <1>3, <2>1, <2>2, Zenon
  <2> QED
    BY <1>2, <1>3, <2>3, Zenon DEF Min
<1>6. Cardinality(own) \in Nat /\ n <= Cardinality(own)
  <2>1. IsFiniteSet(1 .. Len(text)) /\ own \in SUBSET (1 .. Len(text))
    BY <1>1, FS_Interval
  <2>2. IsFiniteSet(own)
    BY <2>1, FS_Subset, Zenon
  <2>3. (a .. a + n - 1) \in SUBSET own
    BY <1>4
  <2>4. Cardinality(a .. a + n - 1) <= Cardinality(own)
    BY <2>2, <2>3, FS_Subset, Zenon
  <2>5. Cardinality(a .. a + n - 1) = n
    BY <1>0, FS_Interval
  <2>6. Cardinality(own) \in Nat
    BY <2>2, FS_CardinalityType, Zenon
  <2> QED
    BY <1>0, <2>4, <2>5, <2>6
<1>7. Read(l) = [k \in 1 .. Cardinality(own) |-> text[Min(own) + k - 1].n]
  BY Zenon DEF Read
<1> HIDE DEF own
<1>8. \A k \in 1 .. n : k \in 1 .. Cardinality(own)
  BY <1>0, <1>6
<1> QED
  BY <1>5, <1>7, <1>8

\* The place of the k-th number of a text whose lines were read.
Place(cores, k) == IF k <= cores + 1 THEN k ELSE 2 * k - cores - 1

\* A text: cpu's numbers, and those of the lines up to the first that failed.
TextOf(mods, cores, q) ==
  /\ ModuleList(mods) /\ HasCores(cores)
  /\ TextIs(mods, cores, text, lines, failed)
  /\ q \in 1 .. lines /\ ReadUpTo(mods, failed, q)

LEMMA TextOfIs ==
  ASSUME NEW mods, NEW cores, NEW q, TextOf(mods, cores, q)
  PROVE  /\ text \in Seq(Token) /\ Len(text) \in Nat /\ cores \in Nat /\ q \in Nat \ {0}
         /\ cores + 2 <= Len(text) /\ cores + 2 * q <= Len(text)
         /\ \A i \in 1 .. cores + 1 : IsNumber(text[i], Cpu) /\ (Cpu \notin failed => text[i].n \in 0 .. 100)
         /\ text[cores + 2] = Newline
         /\ \A j \in 2 .. q : /\ IsNumber(text[cores + 2 * j - 1], mods[j])
                              /\ text[cores + 2 * j - 1].n \in OneNumber(mods[j])
                              /\ text[cores + 2 * j] = Newline
         /\ mods[1] = Cpu /\ q <= Len(mods) /\ Len(mods) \in Nat
         /\ \A i, j \in 1 .. Len(mods) : mods[i] = mods[j] => i = j
         /\ \A i \in 1 .. Len(mods) : mods[i] \in Line
<1>1. /\ text \in Seq(Token) /\ lines \in 0 .. Len(mods) /\ lines > 0
      /\ Len(text) >= cores + 2
      /\ \A i \in 1 .. cores + 1 : IsNumber(text[i], Cpu) /\ (Cpu \notin failed => text[i].n \in 0 .. 100)
      /\ text[cores + 2] = Newline
  <2>1. lines \in 0 .. Len(mods) /\ q \in 1 .. lines /\ Len(mods) \in Nat
    BY DEF TextOf, TextIs, ModuleList
  <2>2. lines > 0
    BY <2>1
  <2> QED
    BY <2>1, <2>2, Zenon DEF TextOf, TextIs
<1>2. cores \in Nat /\ q \in 1 .. lines /\ mods \in Seq(Line) /\ mods[1] = Cpu
      /\ \A i, j \in 1 .. Len(mods) : mods[i] = mods[j] => i = j
  BY DEF TextOf, HasCores, ModuleList
<1>3. Len(text) \in Nat /\ Len(mods) \in Nat /\ q \in Nat \ {0} /\ q <= Len(mods) /\ cores + 2 <= Len(text)
  BY <1>1, <1>2
<1>4. ASSUME NEW j \in 2 .. q
      PROVE  /\ Len(text) >= cores + 2 * j
             /\ IsNumber(text[cores + 2 * j - 1], mods[j])
             /\ text[cores + 2 * j - 1].n \in OneNumber(mods[j])
             /\ text[cores + 2 * j] = Newline
  <2>1. j \in 2 .. lines /\ \A i \in 2 .. j : i \in 2 .. q
    BY <1>1, <1>2, <1>3
  <2>2. ReadUpTo(mods, failed, j)
    BY <2>1, Zenon DEF TextOf, ReadUpTo
  <2> QED
    BY <2>1, <2>2, Zenon DEF TextOf, TextIs
<1>5. cores + 2 * q <= Len(text)
  <2>1. CASE q = 1
    BY <1>3, <2>1
  <2>2. CASE q # 1
    <3>1. q \in 2 .. q
      BY <1>3, <2>2
    <3> QED
      BY <1>2, <1>3, <1>4, <3>1
  <2> QED
    BY <2>1, <2>2
<1>6. \A i \in 1 .. Len(mods) : mods[i] \in Line
  BY <1>2
<1> QED
  BY <1>1, <1>2, <1>3, <1>4, <1>5, <1>6

\* What each module of a text gave.
LEMMA ReadOfText ==
  ASSUME NEW mods, NEW cores, NEW q, TextOf(mods, cores, q)
  PROVE  /\ \A k \in 1 .. cores + 1 : Read(Cpu)[k] = text[k].n
         /\ \A j \in 2 .. q : Read(mods[j])[1] = text[cores + 2 * j - 1].n
<1>1. /\ text \in Seq(Token) /\ Len(text) \in Nat /\ cores \in Nat /\ q \in Nat \ {0}
      /\ cores + 2 <= Len(text) /\ cores + 2 * q <= Len(text)
      /\ \A i \in 1 .. cores + 1 : IsNumber(text[i], Cpu)
      /\ text[cores + 2] = Newline
      /\ \A j \in 2 .. q : /\ IsNumber(text[cores + 2 * j - 1], mods[j])
                           /\ text[cores + 2 * j] = Newline
      /\ mods[1] = Cpu /\ q <= Len(mods) /\ Len(mods) \in Nat
      /\ \A i, j \in 1 .. Len(mods) : mods[i] = mods[j] => i = j
      /\ \A i \in 1 .. Len(mods) : mods[i] \in Line
  BY TextOfIs
<1>2. ASSUME NEW k \in 1 .. cores + 1
      PROVE  Read(Cpu)[k] = text[k].n
  <2>1. /\ 1 \in 1 .. Len(text) /\ cores + 1 \in Nat \ {0} /\ 1 + (cores + 1) - 1 <= Len(text)
        /\ 1 + (cores + 1) - 1 = cores + 1 /\ 1 .. 1 - 1 = {} /\ 1 + k - 1 = k
    BY <1>1
  <2>2. \A i \in 1 .. cores + 1 : text[i].from = Cpu
    BY <1>1 DEF IsNumber
  <2>3. FirstAt(Cpu, 1, cores + 1)
    <3>1. \A i \in 1 .. 1 + (cores + 1) - 1 : text[i].from = Cpu
      BY <2>1, <2>2, Zenon
    <3>2. \A i \in 1 .. 1 - 1 : text[i].from # Cpu
      OBVIOUS
    <3>3. /\ text \in Seq(Token) /\ 1 \in 1 .. Len(text) /\ cores + 1 \in Nat \ {0}
          /\ 1 + (cores + 1) - 1 <= Len(text)
      BY <1>1, <2>1, Zenon
    <3> QED
      BY <3>1, <3>2, <3>3 DEF FirstAt
  <2>4. PICK a : a = 1
    OBVIOUS
  <2>5. Read(Cpu)[k] = text[a + k - 1].n
    BY <2>3, <2>4, ReadIs
  <2> QED
    BY <2>1, <2>4, <2>5
<1>3. ASSUME NEW j \in 2 .. q
      PROVE  Read(mods[j])[1] = text[cores + 2 * j - 1].n
  <2> DEFINE a == cores + 2 * j - 1
             l == mods[j]
  <2>1. j \in 1 .. Len(mods) /\ a \in 1 .. Len(text) /\ 1 \in Nat \ {0} /\ a + 1 - 1 = a /\ a \in Nat
        /\ 1 \in 1 .. Len(mods) /\ j # 1 /\ j \in Nat
    BY <1>1
  <2>2. text[a].from = l /\ l \in Line /\ l # Cpu
    BY <1>1, <2>1 DEF IsNumber
  <2>3. ASSUME NEW i \in 1 .. a - 1
        PROVE  text[i].from # l
    <3>1. CASE i \in 1 .. cores + 1
      BY <1>1, <2>2, <3>1 DEF IsNumber
    <3>2. CASE i = cores + 2
      BY <1>1, <2>2, <3>2, TokensAre, LineOrigins
    <3>3. ASSUME NEW k \in 2 .. j - 1, i = cores + 2 * k - 1
          PROVE  text[i].from # l
      <4>1. k \in 2 .. q /\ k \in 1 .. Len(mods) /\ k # j
        BY <1>1, <2>1
      <4>2. text[i].from = mods[k]
        BY <1>1, <3>3, <4>1 DEF IsNumber
      <4> QED
        BY <1>1, <2>1, <4>1, <4>2, Zenon
    <3>4. ASSUME NEW k \in 2 .. j - 1, i = cores + 2 * k
          PROVE  text[i].from # l
      <4>1. k \in 2 .. q
        BY <1>1, <2>1
      <4>2. text[i] = Newline
        BY <1>1, <3>4, <4>1
      <4> QED
        BY <2>2, <4>2, TokensAre, LineOrigins, Zenon
    <3>5. i \in 1 .. cores + 1 \/ i = cores + 2
          \/ (\E k \in 2 .. j - 1 : i = cores + 2 * k - 1) \/ (\E k \in 2 .. j - 1 : i = cores + 2 * k)
      <4>1. CASE i <= cores + 2
        BY <1>1, <4>1
      <4>2. CASE i > cores + 2
        <5> DEFINE k == (i - cores + 1) \div 2
        <5>1. k \in 2 .. j - 1 /\ (i = cores + 2 * k - 1 \/ i = cores + 2 * k)
          BY <1>1, <2>1, <4>2
        <5> QED
          BY <5>1
      <4> QED
        BY <4>1, <4>2, <1>1
    <3> QED
      BY <3>1, <3>2, <3>3, <3>4, <3>5
  <2>4. \A i \in a .. a + 1 - 1 : text[i].from = l
    BY <2>1, <2>2
  <2>5. a + 1 - 1 <= Len(text) /\ 1 \in 1 .. 1
    BY <2>1
  <2> HIDE DEF a, l
  <2>6. \A m \in 1 .. 1 : Read(l)[m] = text[a + m - 1].n
    <3>1. FirstAt(l, a, 1)
      BY <1>1, <2>1, <2>3, <2>4, <2>5, Zenon DEF FirstAt
    <3> QED
      BY <3>1, ReadIs, Zenon
  <2> QED
    BY <2>1, <2>5, <2>6 DEF a, l
<1> QED
  BY <1>2, <1>3

\* What is scanned is the text and numbers behind it.
LEMMA ScansAre ==
  ASSUME text \in Seq(Token), NEW format \in Seq(Item), NEW term, NEW st \in Scans(format, term)
  PROVE  /\ \E y \in Seq(Token) : text \o y \in Seq(Token) /\ st = sscanf(text \o y, format).stored
         /\ st \in Stores /\ Len(st) \in Nat /\ Len(st) <= Len(format)
<1>1. PICK beyond \in IF term THEN {<<>>} ELSE {<<>>} \cup [1 .. MaxFaults -> Junk] :
        st = sscanf(text \o Tokens(beyond, <<"memory", 0>>), format).stored
  BY Zenon DEF Scans
<1>2. beyond \in Seq(Int)
  <2>1. CASE beyond = <<>>
    BY <2>1
  <2>2. CASE beyond \in [1 .. MaxFaults -> Junk]
    <3>1. MaxFaults \in Nat /\ \A k \in 1 .. MaxFaults : beyond[k] \in Int
      BY <2>2, Constants, ModuleTextAssumption
    <3> QED
      BY <2>2, <3>1
  <2> QED
    BY <1>1, <2>1, <2>2
<1>3. <<"memory", 0>> \in Origin
  <2>1. "memory" \in Source /\ 0 \in Nat
    BY DEF Source
  <2>2. \A x \in Source, k \in Nat : <<x, k>> \in Source \X Nat
    OBVIOUS
  <2> QED
    BY <2>1, <2>2, Zenon DEF Origin
<1> DEFINE y == Tokens(beyond, <<"memory", 0>>)
<1>4. y \in Seq(Token)
  BY <1>2, <1>3, LineTokens, Zenon
<1>5. text \o y \in Seq(Token) /\ st = sscanf(text \o y, format).stored
  <2> HIDE DEF y
  <2>1. text \o y \in Seq(Token)
    BY <1>4
  <2> QED
    BY <1>1, <2>1 DEF y
<1> HIDE DEF y
<1>6. sscanf(text \o y, format) \in Done /\ Len(sscanf(text \o y, format).stored) <= Len(format)
  BY <1>5, ScanTypes, Zenon
<1>7. st \in Stores
  BY <1>5, <1>6 DEF Done
<1>8. Len(st) \in Nat
  BY <1>7 DEF Stores
<1> QED
  BY <1>4, <1>5, <1>6, <1>7, <1>8, Zenon

\* The numbers of the lines that were read stand in front of all others.
LEMMA PlacesAre ==
  ASSUME NEW mods, NEW cores, NEW q, TextOf(mods, cores, q),
         NEW y \in Seq(Token)
  PROVE  /\ NumbersAt(text \o y, cores + q, [k \in 0 .. cores + q |-> Place(cores, k)])
         /\ \A k \in 1 .. cores + q : (text \o y)[Place(cores, k)] = text[Place(cores, k)]
<1> DEFINE U == text \o y
           p == [k \in 0 .. cores + q |-> Place(cores, k)]
<1>1. /\ text \in Seq(Token) /\ Len(text) \in Nat /\ cores \in Nat /\ q \in Nat \ {0}
      /\ cores + 2 <= Len(text) /\ cores + 2 * q <= Len(text)
      /\ \A i \in 1 .. cores + 1 : IsNumber(text[i], Cpu)
      /\ text[cores + 2] = Newline
      /\ \A j \in 2 .. q : /\ IsNumber(text[cores + 2 * j - 1], mods[j])
                           /\ text[cores + 2 * j] = Newline
  BY TextOfIs
<1>2. Len(U) \in Nat /\ Len(text) <= Len(U) /\ \A i \in 1 .. Len(text) : U[i] = text[i]
  BY <1>1
<1> HIDE DEF U
<1>3. ASSUME NEW k \in 1 .. cores + q
      PROVE  /\ Place(cores, k) \in 1 .. Len(text) /\ text[Place(cores, k)].kind = "number"
             /\ k <= cores + 1 => Place(cores, k) = k
             /\ k > cores + 1 => k - cores \in 2 .. q /\ Place(cores, k) = cores + 2 * (k - cores) - 1
  <2>1. CASE k <= cores + 1
    <3>1. Place(cores, k) = k /\ k \in 1 .. cores + 1 /\ k \in 1 .. Len(text) /\ ~ (k > cores + 1)
      BY <1>1, <2>1 DEF Place
    <3> QED
      BY <1>1, <3>1, Zenon DEF IsNumber
  <2>2. CASE k > cores + 1
    <3>1. /\ Place(cores, k) = cores + 2 * (k - cores) - 1 /\ k - cores \in 2 .. q
          /\ cores + 2 * (k - cores) - 1 \in 1 .. Len(text) /\ ~ (k <= cores + 1)
      BY <1>1, <2>2 DEF Place
    <3> QED
      BY <1>1, <3>1, Zenon DEF IsNumber
  <2> QED
    BY <2>1, <2>2, <1>1
<1>4. Place(cores, 0) = 0
  BY <1>1 DEF Place
<1>5. p \in [0 .. cores + q -> 0 .. Len(U)]
  <2>1. ASSUME NEW k \in 0 .. cores + q
        PROVE  Place(cores, k) \in 0 .. Len(U)
    <3>1. CASE k = 0
      BY <1>2, <1>4, <3>1
    <3>2. CASE k # 0
      <4>1. k \in 1 .. cores + q
        BY <3>2, <1>1
      <4>2. Place(cores, k) \in 1 .. Len(text)
        BY <1>3, <4>1
      <4> QED
        BY <4>2, <1>2
    <3> QED
      BY <3>1, <3>2
  <2> QED
    BY <2>1
<1>6. ASSUME NEW k \in 1 .. cores + q
      PROVE  /\ Place(cores, k - 1) < Place(cores, k) /\ U[Place(cores, k)].kind = "number"
             /\ \A i \in Place(cores, k - 1) + 1 .. Place(cores, k) - 1 : U[i].kind = "newline"
  <2>1. Place(cores, k) \in 1 .. Len(text) /\ text[Place(cores, k)].kind = "number"
    BY <1>3, Zenon
  <2>2. U[Place(cores, k)].kind = "number"
    BY <1>2, <2>1, Zenon
  <2>3. CASE k <= cores + 1
    <3>1. Place(cores, k) = k /\ Place(cores, k - 1) = k - 1
      BY <1>1, <2>3 DEF Place
    <3>2. k - 1 < k /\ k - 1 + 1 .. k - 1 = {}
      BY <1>1
    <3> QED
      BY <2>2, <3>1, <3>2
  <2>4. CASE k = cores + 2
    <3>1. Place(cores, k) = cores + 3 /\ Place(cores, k - 1) = cores + 1
      BY <1>1, <2>4 DEF Place
    <3>2. \A i \in cores + 1 + 1 .. cores + 3 - 1 : i = cores + 2
      BY <1>1
    <3>3. cores + 2 \in 1 .. Len(text) /\ cores + 1 < cores + 3
      BY <1>1
    <3>4. U[cores + 2].kind = "newline"
      BY <1>1, <1>2, <3>3, TokensAre, Zenon
    <3>5. Place(cores, k - 1) < Place(cores, k)
      BY <3>1, <3>3
    <3>6. Place(cores, k - 1) + 1 .. Place(cores, k) - 1 = cores + 1 + 1 .. cores + 3 - 1
      BY <1>1, <3>1
    <3>7. \A i \in Place(cores, k - 1) + 1 .. Place(cores, k) - 1 : U[i].kind = "newline"
      BY <3>2, <3>4, <3>6
    <3> QED
      BY <2>2, <3>5, <3>7
  <2>5. CASE k > cores + 2
    <3> DEFINE j == k - cores - 1
    <3>1. /\ Place(cores, k) = cores + 2 * j + 1 /\ Place(cores, k - 1) = cores + 2 * j - 1
          /\ j \in 2 .. q
      BY <1>1, <2>5 DEF Place
    <3>2. \A i \in cores + 2 * j - 1 + 1 .. cores + 2 * j + 1 - 1 : i = cores + 2 * j
      BY <1>1, <3>1
    <3>3. cores + 2 * j \in 1 .. Len(text) /\ cores + 2 * j - 1 < cores + 2 * j + 1
      BY <1>1, <3>1
    <3>4. U[cores + 2 * j].kind = "newline"
      BY <1>1, <1>2, <3>1, <3>3, TokensAre, Zenon
    <3> HIDE DEF j
    <3>5. Place(cores, k - 1) < Place(cores, k)
      BY <3>1, <3>3
    <3>6. Place(cores, k - 1) + 1 .. Place(cores, k) - 1 = cores + 2 * j - 1 + 1 .. cores + 2 * j + 1 - 1
      <4>1. Place(cores, k - 1) + 1 = cores + 2 * j - 1 + 1
        BY <1>1, <3>1
      <4>2. Place(cores, k) - 1 = cores + 2 * j + 1 - 1
        BY <1>1, <3>1
      <4> QED
        BY <4>1, <4>2, Zenon
    <3>7. \A i \in Place(cores, k - 1) + 1 .. Place(cores, k) - 1 : U[i].kind = "newline"
      BY <3>2, <3>4, <3>6
    <3> QED
      BY <2>2, <3>5, <3>7
  <2>6. k <= cores + 1 \/ k = cores + 2 \/ k > cores + 2
    BY <1>1
  <2> QED
    BY <2>3, <2>4, <2>5, <2>6, Zenon
<1>7. /\ p[0] = 0
      /\ \A k \in 1 .. cores + q : p[k] = Place(cores, k) /\ p[k - 1] = Place(cores, k - 1)
  BY <1>1, <1>4
<1>8. \A k \in 1 .. cores + q : U[Place(cores, k)] = text[Place(cores, k)]
  BY <1>2, <1>3, Zenon
<1> HIDE DEF p
<1>9. NumbersAt(U, cores + q, p)
  <2>1. ASSUME NEW k \in 1 .. cores + q
        PROVE  /\ p[k - 1] < p[k] /\ U[p[k]].kind = "number"
               /\ \A i \in p[k - 1] + 1 .. p[k] - 1 : U[i].kind = "newline"
    <3>1. p[k] = Place(cores, k) /\ p[k - 1] = Place(cores, k - 1)
      BY <1>7, Zenon
    <3> QED
      BY <1>6, <3>1, Zenon
  <2> QED
    BY <1>5, <1>7, <2>1, Zenon DEF NumbersAt
<1> QED
  BY <1>8, <1>9 DEF p, U

\* A scan stores the numbers of the lines that were read.
LEMMA ScanOfText ==
  ASSUME NEW mods, NEW cores, NEW q, TextOf(mods, cores, q),
         NEW format \in Seq(Item), cores + q \in 0 .. Len(format),
         NEW c, NumberItems(format, cores + q, c), NEW term, NEW st \in Scans(format, term)
  PROVE  \A k \in 1 .. cores + q :
           format[k].stored => c[k] \in 1 .. Len(st) /\ st[c[k]][1] = text[Place(cores, k)]
<1>1. text \in Seq(Token)
  BY TextOfIs
<1>2. PICK y \in Seq(Token) : text \o y \in Seq(Token) /\ st = sscanf(text \o y, format).stored
  BY <1>1, ScansAre
<1>3. st \in Stores /\ Len(st) \in Nat /\ cores \in Nat /\ q \in Nat
  BY <1>1, ScansAre, TextOfIs
<1> DEFINE U == text \o y
           m == cores + q
           p == [k \in 0 .. m |-> Place(cores, k)]
<1>4. NumbersAt(U, m, p) /\ \A k \in 1 .. m : U[Place(cores, k)] = text[Place(cores, k)]
  BY <1>2, PlacesAre, Zenon
<1>5. \A k \in 1 .. m : p[k] = Place(cores, k)
  BY <1>3
<1>6. U \in Seq(Token) /\ m \in 0 .. Len(format) /\ NumberItems(format, m, c)
  BY <1>2
<1>10. st = sscanf(U, format).stored
  BY <1>2
<1> HIDE DEF U, p, m
<1>7. /\ c[m] <= Len(st)
      /\ \A k \in 1 .. m : format[k].stored => c[k] \in 1 .. c[m] /\ st[c[k]] = <<U[p[k]]>>
  <2>1. /\ c[m] <= Len(sscanf(U, format).stored)
        /\ \A k \in 1 .. m : format[k].stored => /\ c[k] \in 1 .. c[m]
                                                 /\ sscanf(U, format).stored[c[k]] = <<U[p[k]]>>
    <3>1. NumbersAt(U, m, p)
      BY <1>4
    <3>2. NumbersStored(U, format, m, p, c)
      BY <1>6, <3>1, ScanNumbers, Zenon
    <3> QED
      BY <3>2 DEF NumbersStored
  <2>2. st = sscanf(U, format).stored
    BY <1>10
  <2> QED
    BY <2>1, <2>2, Zenon
<1>8. c[m] \in Nat
  BY <1>3 DEF NumberItems, m
<1>9. \A k \in 1 .. m : format[k].stored => c[k] \in 1 .. Len(st) /\ st[c[k]][1] = U[p[k]]
  <2>1. \A a, b \in Nat : a <= b => 1 .. a \subseteq 1 .. b
    OBVIOUS
  <2>2. 1 .. c[m] \subseteq 1 .. Len(st)
    BY <1>3, <1>7, <1>8, <2>1, Zenon
  <2>3. \A t : <<t>>[1] = t
    OBVIOUS
  <2> QED
    BY <1>7, <2>2, <2>3, Zenon
<1> QED
  BY <1>4, <1>5, <1>9, Zenon DEF m

-----------------------------------------------------------------------------
(* What the targets of a scan hold.                                        *)

LEMMA UnsignedTypes ==
  /\ \A x \in Int : Unsigned(x, IntValues) \in 0 .. IntValues - 1
  /\ \A x \in 0 .. IntValues - 1 : Unsigned(x, IntValues) = x
<1>1. IntValues \in Nat /\ IntValues > 0
  BY Constants
<1>2. ASSUME NEW x \in Int
      PROVE  Unsigned(x, IntValues) \in 0 .. IntValues - 1
  BY <1>1 DEF Unsigned
<1>3. ASSUME NEW x \in 0 .. IntValues - 1
      PROVE  Unsigned(x, IntValues) = x
  <2> DEFINE q == x \div IntValues
             r == x % IntValues
  <2>1. q \in Int /\ r \in 0 .. IntValues - 1 /\ x = IntValues * q + r
    BY <1>1
  <2> HIDE DEF q, r
  <2>2. q = 0
    <3>1. CASE q >= 1
      <4>1. IntValues * q >= IntValues
        BY <1>1, <2>1, <3>1
      <4> QED
        BY <1>1, <2>1, <4>1
    <3>2. CASE q <= -1
      <4>1. IntValues * q <= -IntValues
        BY <1>1, <2>1, <3>2
      <4> QED
        BY <1>1, <2>1, <4>1
    <3> QED
      BY <2>1, <3>1, <3>2
  <2>3. x = r
    BY <1>1, <2>1, <2>2
  <2> QED
    BY <2>3 DEF Unsigned, r
<1> QED
  BY <1>2, <1>3, Zenon

LEMMA SignedTypes ==
  /\ \A x \in Int : Signed(x, IntValues) \in -(IntValues \div 2) .. IntValues \div 2 - 1
  /\ \A x \in 0 .. IntValues \div 2 - 1 : Signed(x, IntValues) = x
<1>1. IntValues \in Nat /\ IntValues > 0 /\ IntValues % 2 = 0
  BY Constants
<1>2. \A x \in Int : x % IntValues \in 0 .. IntValues - 1
  BY UnsignedTypes DEF Unsigned
<1>3. \A x \in 0 .. IntValues - 1 : x % IntValues = x
  BY UnsignedTypes DEF Unsigned
<1>4. IntValues \div 2 \in Nat /\ IntValues = 2 * (IntValues \div 2)
  BY <1>1
<1>5. ASSUME NEW x \in Int
      PROVE  Signed(x, IntValues) \in -(IntValues \div 2) .. IntValues \div 2 - 1
  <2> DEFINE low == x % IntValues
             half == IntValues \div 2
  <2>1. low \in 0 .. IntValues - 1 /\ half \in Nat /\ IntValues = 2 * half
    BY <1>2, <1>4
  <2>2. Signed(x, IntValues) = IF 2 * low < IntValues THEN low ELSE low - IntValues
    BY DEF Signed
  <2> HIDE DEF low, half
  <2>3. Signed(x, IntValues) \in -half .. half - 1
    BY <2>1, <2>2
  <2> QED
    BY <2>3 DEF half
<1>6. ASSUME NEW x \in 0 .. IntValues \div 2 - 1
      PROVE  Signed(x, IntValues) = x
  <2>1. x \in 0 .. IntValues - 1 /\ 2 * x < IntValues
    BY <1>4
  <2>2. x % IntValues = x
    BY <1>3, <2>1
  <2> QED
    BY <2>1, <2>2 DEF Signed
<1> QED
  BY <1>5, <1>6

\* What a scan stored.
LEMMA StoredIs ==
  ASSUME NEW st \in Stores
  PROVE  \A i \in 1 .. Len(st) : st[i] \in Seq(Token) /\ st[i][1] \in Token /\ st[i][1].n \in Int
<1>1. ASSUME NEW i \in 1 .. Len(st)
      PROVE  st[i] \in Seq(Token) /\ st[i][1] \in Token /\ st[i][1].n \in Int
  <2>1. st[i] \in Seq(Token) \ {<<>>}
    BY DEF Stores
  <2>2. st[i] \in Seq(Token) /\ Len(st[i]) >= 1
    BY <2>1
  <2>3. st[i][1] \in Token
    BY <2>2
  <2> QED
    BY <2>2, <2>3 DEF Token
<1> QED
  BY <1>1

LEMMA TargetIs ==
  ASSUME NEW n \in Nat, NEW st \in Stores, NEW old
  PROVE  \A i \in 1 .. n : Targets(n, st, old)[i] = IF i <= Len(st) THEN Unsigned(st[i][1].n, IntValues) ELSE old[i]
<1>1. Len(st) \in Nat /\ DOMAIN st = 1 .. Len(st)
  BY DEF Stores
<1> DEFINE s == [i \in DOMAIN st |-> Unsigned(st[i][1].n, IntValues)]
<1>2. Len(s) = Len(st) /\ \A i \in 1 .. Len(st) : s[i] = Unsigned(st[i][1].n, IntValues)
  BY <1>1
<1> HIDE DEF s
<1>3. Targets(n, st, old) = [i \in 1 .. n |-> IF i <= Len(s) THEN s[i] ELSE old[i]]
  BY Zenon DEF Targets, Assign, s
<1>4. ASSUME NEW i \in 1 .. n
      PROVE  Targets(n, st, old)[i] = IF i <= Len(st) THEN Unsigned(st[i][1].n, IntValues) ELSE old[i]
  <2>1. Targets(n, st, old)[i] = IF i <= Len(st) THEN s[i] ELSE old[i]
    BY <1>2, <1>3
  <2>2. i <= Len(st) => i \in 1 .. Len(st)
    BY <1>1
  <2> QED
    BY <1>2, <2>1, <2>2, Zenon
<1> QED
  BY <1>4

\* Every target holds an unsigned int.
LEMMA TargetsTypes ==
  ASSUME NEW n \in Nat, NEW st \in Stores, Len(st) <= n, NEW junk \in Unwritten(n, st)
  PROVE  \A i \in 1 .. n : Targets(n, st, junk)[i] \in 0 .. IntValues - 1
<1>1. Len(st) \in Nat
  BY DEF Stores
<1>2. ASSUME NEW i \in 1 .. n
      PROVE  Targets(n, st, junk)[i] \in 0 .. IntValues - 1
  <2>1. CASE i <= Len(st)
    <3>1. st[i][1].n \in Int
      BY <1>1, <2>1, StoredIs
    <3> QED
      BY <2>1, <3>1, TargetIs, UnsignedTypes
  <2>2. CASE ~ (i <= Len(st))
    <3>1. i \in Len(st) + 1 .. n
      BY <1>1, <2>2
    <3>2. junk[i] \in {Unsigned(j, IntValues) : j \in Junk}
      BY <3>1 DEF Unwritten
    <3>3. junk[i] \in 0 .. IntValues - 1
      BY <3>2, UnsignedTypes, ModuleTextAssumption
    <3> QED
      BY <2>2, <3>3, TargetIs
  <2> QED
    BY <2>1, <2>2
<1> QED
  BY <1>2

\* A format of numbers.
LEMMA NumberFormat ==
  ASSUME NEW n \in Nat, NEW m \in 0 .. n
  PROVE  /\ Times(n, Store("number")) \in Seq(Item) /\ Len(Times(n, Store("number"))) = n
         /\ \A k \in 1 .. n : Times(n, Store("number"))[k].stored
         /\ NumberItems(Times(n, Store("number")), m, [k \in 0 .. m |-> k])
<1> DEFINE f == Times(n, Store("number"))
<1>1. Store("number") \in Item /\ Store("number").kind = "number" /\ Store("number").stored = TRUE
  BY DEF Store, Item
<1>2. f = [i \in 1 .. n |-> Store("number")]
  BY DEF Times
<1>3. f \in Seq(Item) /\ Len(f) = n /\ \A k \in 1 .. n : f[k] = Store("number")
  BY <1>1, <1>2
<1> HIDE DEF f
<1>4. \A k \in 1 .. n : f[k].stored /\ f[k].kind = "number"
  BY <1>1, <1>3
<1>5. NumberItems(f, m, [k \in 0 .. m |-> k])
  <2> DEFINE c == [k \in 0 .. m |-> k]
  <2>1. c \in [0 .. m -> Nat] /\ c[0] = 0 /\ \A k \in 1 .. m : c[k] = c[k - 1] + 1 /\ k \in 1 .. n
    OBVIOUS
  <2> HIDE DEF c
  <2>2. \A k \in 1 .. m : c[k] = c[k - 1] + IF f[k].stored THEN 1 ELSE 0
    BY <1>4, <2>1
  <2> QED
    BY <1>4, <2>1, <2>2 DEF NumberItems, c
<1> QED
  BY <1>3, <1>4, <1>5 DEF f

-----------------------------------------------------------------------------
(* The highest temperature.                                                *)

\* A turn of the loop.
MaxStep(max, t) == IF t > Unsigned(max, IntValues) THEN Signed(t, IntValues) ELSE max

\* The loop over n temperatures, as a function.
MaxSteps(g, temps, n) ==
  /\ g = [k \in 0 .. n |-> g[k]]
  /\ g[0] = 0
  /\ \A k \in 1 .. n : g[k] = MaxStep(g[k - 1], temps[k])

LEMMA MaxStepsExist ==
  ASSUME NEW temps, NEW n \in Nat
  PROVE  \E g : MaxSteps(g, temps, n)
<1> DEFINE Good(m) == \E g : MaxSteps(g, temps, m)
           M == {m \in 0 .. n : Good(m)}
<1>1. 0 \in M
  <2> DEFINE g == [k \in 0 .. 0 |-> 0]
  <2>1. MaxSteps(g, temps, 0)
    BY DEF MaxSteps
  <2>2. Good(0)
    BY <2>1
  <2> HIDE DEF Good
  <2> QED
    BY <2>2
<1>2. ASSUME NEW m \in 1 .. n, m - 1 \in M
      PROVE  m \in M
  <2>1. PICK g : MaxSteps(g, temps, m - 1)
    BY <1>2
  <2> DEFINE h == [k \in 0 .. m |-> IF k = m THEN MaxStep(g[m - 1], temps[m]) ELSE g[k]]
  <2>2. h = [k \in 0 .. m |-> h[k]] /\ h[0] = g[0] /\ h[m] = MaxStep(g[m - 1], temps[m])
    OBVIOUS
  <2>3. \A k \in 0 .. m - 1 : h[k] = g[k]
    OBVIOUS
  <2> HIDE DEF h
  <2>4. ASSUME NEW k \in 1 .. m
        PROVE  h[k] = MaxStep(h[k - 1], temps[k])
    <3>1. CASE k = m
      <4>1. h[k - 1] = g[k - 1]
        BY <2>3, <3>1
      <4> QED
        BY <2>2, <3>1, <4>1
    <3>2. CASE k # m
      <4>1. k \in 1 .. m - 1 /\ k - 1 \in 0 .. m - 1 /\ k \in 0 .. m - 1
        BY <3>2
      <4>2. h[k] = g[k] /\ h[k - 1] = g[k - 1]
        BY <2>3, <4>1
      <4>3. g[k] = MaxStep(g[k - 1], temps[k])
        BY <2>1, <4>1 DEF MaxSteps
      <4> QED
        BY <4>2, <4>3
    <3> QED
      BY <3>1, <3>2
  <2>5. MaxSteps(h, temps, m)
    BY <2>1, <2>2, <2>4 DEF MaxSteps
  <2>6. Good(m)
    BY <2>5
  <2> HIDE DEF Good
  <2> QED
    BY <2>6
<1> HIDE DEF M
<1>3. \A m \in 0 .. n : m \in M
  BY <1>1, <1>2, UpTo
<1>4. Good(n)
  <2>1. n \in M
    BY <1>3
  <2> HIDE DEF Good
  <2> QED
    BY <2>1 DEF M
<1> QED
  BY <1>4

\* The highest temperature is what the last turn leaves.
LEMMA MaxTempSteps ==
  ASSUME NEW temps, NEW n \in Nat, Len(temps) = n
  PROVE  \E g : MaxSteps(g, temps, n) /\ MaxTemp(temps) = g[n]
<1> DEFINE IsMax(g) == g = [k \in 0 .. Len(temps) |->
                              IF k = 0 THEN 0
                              ELSE IF temps[k] > Unsigned(g[k - 1], IntValues) THEN Signed(temps[k], IntValues)
                              ELSE g[k - 1]]
           s == CHOOSE g : IsMax(g)
<1>1. MaxTemp(temps) = s[Len(temps)]
  BY DEF MaxTemp
<1>2. PICK g : MaxSteps(g, temps, n)
  BY MaxStepsExist
<1>3. IsMax(g)
  <2>1. /\ g = [k \in 0 .. n |-> g[k]] /\ g[0] = 0
        /\ \A k \in 1 .. n : g[k] = MaxStep(g[k - 1], temps[k])
    BY <1>2 DEF MaxSteps
  <2>2. ASSUME NEW k \in 0 .. n
        PROVE  g[k] = IF k = 0 THEN 0 ELSE MaxStep(g[k - 1], temps[k])
    <3>1. CASE k = 0
      BY <2>1, <3>1
    <3>2. CASE k # 0
      <4>1. k \in 1 .. n
        BY <3>2
      <4> QED
        BY <2>1, <3>2, <4>1, Zenon
    <3> QED
      BY <3>1, <3>2
  <2>3. g = [k \in 0 .. Len(temps) |-> IF k = 0 THEN 0 ELSE MaxStep(g[k - 1], temps[k])]
    BY <2>1, <2>2
  <2> QED
    BY <2>3, Zenon DEF MaxStep
<1>4. IsMax(s)
  BY <1>3, Zenon
<1> HIDE DEF s
<1>5. s = [k \in 0 .. n |-> IF k = 0 THEN 0 ELSE MaxStep(s[k - 1], temps[k])]
  BY <1>4, Zenon DEF MaxStep
<1> HIDE DEF IsMax
<1>6. MaxSteps(s, temps, n)
  <2>1. s = [k \in 0 .. n |-> s[k]] /\ s[0] = 0
    BY <1>5
  <2>2. \A k \in 1 .. n : s[k] = MaxStep(s[k - 1], temps[k])
    <3>1. \A k \in 1 .. n : k \in 0 .. n /\ k # 0
      OBVIOUS
    <3> QED
      BY <1>5, <3>1
  <2> QED
    BY <2>1, <2>2 DEF MaxSteps
<1> QED
  BY <1>1, <1>6

LEMMA MaxTempTypes ==
  ASSUME NEW temps, NEW n \in Nat, Len(temps) = n, \A i \in 1 .. n : temps[i] \in Int
  PROVE  MaxTemp(temps) \in Int
<1>1. PICK g : MaxSteps(g, temps, n) /\ MaxTemp(temps) = g[n]
  BY MaxTempSteps
<1> DEFINE M == {k \in 0 .. n : g[k] \in Int}
<1>2. 0 \in M
  BY <1>1 DEF MaxSteps
<1>3. ASSUME NEW k \in 1 .. n, k - 1 \in M
      PROVE  k \in M
  <2>1. g[k] = MaxStep(g[k - 1], temps[k]) /\ g[k - 1] \in Int /\ temps[k] \in Int
    BY <1>1, <1>3 DEF MaxSteps
  <2>2. Signed(temps[k], IntValues) \in Int
    <3>1. IntValues \div 2 \in Int
      BY Constants
    <3> QED
      BY <2>1, <3>1, SignedTypes
  <2> QED
    BY <2>1, <2>2 DEF MaxStep
<1> HIDE DEF M
<1>4. \A k \in 0 .. n : k \in M
  BY <1>2, <1>3, UpTo
<1>5. n \in M
  BY <1>4
<1> QED
  BY <1>1, <1>5 DEF M

\* Of temperatures that are ints, and none below 0, it is the highest.
LEMMA MaxTempIs ==
  ASSUME NEW temps, NEW n \in Nat \ {0}, Len(temps) = n,
         \A i \in 1 .. n : temps[i] \in 0 .. IntValues \div 2 - 1
  PROVE  /\ MaxTemp(temps) = Max({temps[i] : i \in 1 .. n})
         /\ MaxTemp(temps) \in 0 .. IntValues \div 2 - 1
<1>1. PICK g : MaxSteps(g, temps, n) /\ MaxTemp(temps) = g[n]
  BY MaxTempSteps
<1> DEFINE half == IntValues \div 2
           At(k) == /\ g[k] \in 0 .. half - 1
                    /\ \A i \in 1 .. k : temps[i] <= g[k]
                    /\ g[k] = 0 \/ \E i \in 1 .. k : g[k] = temps[i]
           M == {k \in 0 .. n : At(k)}
<1>2. half \in Nat /\ half >= 1 /\ \A i \in 1 .. n : temps[i] \in 0 .. half - 1
  BY Constants
<1>3. \A x \in 0 .. half - 1 : Unsigned(x, IntValues) = x /\ Signed(x, IntValues) = x
  <2>1. \A x \in 0 .. half - 1 : x \in 0 .. IntValues - 1
    BY Constants
  <2> QED
    BY <2>1, UnsignedTypes, SignedTypes, Zenon
<1> HIDE DEF half
<1>4. 0 \in M
  BY <1>1, <1>2 DEF MaxSteps
<1>5. ASSUME NEW k \in 1 .. n, k - 1 \in M
      PROVE  k \in M
  <2>1. g[k] = MaxStep(g[k - 1], temps[k]) /\ At(k - 1) /\ temps[k] \in 0 .. half - 1
    BY <1>1, <1>2, <1>5 DEF MaxSteps
  <2>2. g[k] = IF temps[k] > g[k - 1] THEN temps[k] ELSE g[k - 1]
    BY <1>3, <2>1, Zenon DEF MaxStep
  <2>3. \A i \in 1 .. k : i = k \/ i \in 1 .. k - 1
    OBVIOUS
  <2>4. g[k] \in 0 .. half - 1
    BY <1>2, <2>1, <2>2
  <2>5. ASSUME NEW i \in 1 .. k
        PROVE  temps[i] <= g[k]
    <3>1. CASE i = k
      BY <1>2, <2>1, <2>2, <3>1
    <3>2. CASE i \in 1 .. k - 1
      <4>1. temps[i] <= g[k - 1] /\ temps[i] \in 0 .. half - 1
        BY <1>2, <2>1, <3>2
      <4> QED
        BY <1>2, <2>1, <2>2, <4>1
    <3> QED
      BY <2>3, <3>1, <3>2
  <2>6. g[k] = 0 \/ \E i \in 1 .. k : g[k] = temps[i]
    <3>1. CASE temps[k] > g[k - 1]
      BY <2>2, <3>1
    <3>2. CASE ~ (temps[k] > g[k - 1])
      <4>1. g[k] = g[k - 1]
        BY <2>2, <3>2
      <4>2. \A i \in 1 .. k - 1 : i \in 1 .. k
        OBVIOUS
      <4> QED
        BY <2>1, <4>1, <4>2, Zenon
    <3> QED
      BY <3>1, <3>2
  <2> QED
    BY <2>4, <2>5, <2>6
<1> HIDE DEF M
<1> HIDE DEF At
<1>6. n \in M
  <2>1. \A k \in 0 .. n : k \in M
    BY <1>4, <1>5, UpTo
  <2> QED
    BY <2>1
<1> USE DEF At
<1>7. At(n)
  BY <1>6 DEF M
<1>8. \E i \in 1 .. n : g[n] = temps[i]
  <2>1. CASE g[n] = 0
    <3>1. temps[1] <= g[n] /\ temps[1] \in 0 .. half - 1 /\ 1 \in 1 .. n
      BY <1>2, <1>7
    <3>2. temps[1] = 0
      BY <1>2, <2>1, <3>1
    <3> QED
      BY <2>1, <3>1, <3>2
  <2> QED
    BY <1>7, <2>1
<1> DEFINE S == {temps[i] : i \in 1 .. n}
<1>9. g[n] \in S /\ \A y \in S : y \in Int /\ g[n] >= y
  BY <1>2, <1>7, <1>8
<1>10. \A x \in S : (\A y \in S : x >= y) => x = g[n]
  <2>1. \A x, y \in Int : x >= y /\ y >= x => x = y
    OBVIOUS
  <2> HIDE DEF S
  <2> QED
    BY <1>9, <2>1, Zenon
<1> HIDE DEF S
<1>11. Max(S) = g[n]
  BY <1>9, <1>10, Zenon DEF Max
<1> QED
  BY <1>1, <1>7, <1>11 DEF S, half

-----------------------------------------------------------------------------
(* The levels of bars, and the numbers they show.                          *)

\* The level of a bar is one of 11.
LEMMA BarLevelTypes ==
  /\ \A x \in Int : BarLevel(100, x) \in 0 .. 10
  /\ \A x, y \in 0 .. 100 : x <= y => BarLevel(100, x) <= BarLevel(100, y)
<1>1. \A x : BarLevel(100, x) = choose(11, 0, 100, Signed(x, IntValues))
  BY DEF BarLevel, Level
<1>2. \A x \in Int : Signed(x, IntValues) \in Int
  <2>1. IntValues \div 2 \in Int
    BY Constants
  <2> QED
    BY <2>1, SignedTypes
<1>3. \A y \in Int : choose(11, 0, 100, y) \in 0 .. 10
  <2>1. ASSUME NEW y \in Int
        PROVE  choose(11, 0, 100, y) \in 0 .. 11 - 1
    <3>1. 11 \in Nat \ {0} /\ 0 \in Int /\ 100 \in Int /\ (100 = 0 \/ 0 < 100)
      OBVIOUS
    <3> QED
      BY <3>1, ChooseInRange, Zenon
  <2> QED
    BY <2>1
<1>4. \A x \in 0 .. 100 : Signed(x, IntValues) = x
  <2>1. \A x \in 0 .. 100 : x \in 0 .. IntValues \div 2 - 1
    BY Constants
  <2> QED
    BY <2>1, SignedTypes, Zenon
<1>5. \A x \in 0 .. 100 : choose(11, 0, 100, x) = IF (x * 11) \div 100 = 11 THEN 10 ELSE (x * 11) \div 100
  BY DEF choose
<1>6. \A x, y \in 0 .. 100 : x <= y => choose(11, 0, 100, x) <= choose(11, 0, 100, y)
  <2>1. ASSUME NEW x \in 0 .. 100, NEW y \in 0 .. 100, x <= y
        PROVE  choose(11, 0, 100, x) <= choose(11, 0, 100, y)
    <3>1. (x * 11) \div 100 \in 0 .. 11 /\ (y * 11) \div 100 \in 0 .. 11
          /\ (x * 11) \div 100 <= (y * 11) \div 100
      BY <2>1
    <3> QED
      BY <1>5, <3>1
  <2> QED
    BY <2>1
<1> QED
  BY <1>1, <1>2, <1>3, <1>4, <1>6

\* The level of a pie is one of 9.
LEMMA PieLevelTypes ==
  \A x \in Int : PieLevel(100, x) \in 0 .. 8
<1>1. \A x : PieLevel(100, x) = choose(9, 0, 100, Signed(x, IntValues))
  BY DEF PieLevel, Level
<1>2. \A x \in Int : Signed(x, IntValues) \in Int
  <2>1. IntValues \div 2 \in Int
    BY Constants
  <2> QED
    BY <2>1, SignedTypes
<1>3. ASSUME NEW y \in Int
      PROVE  choose(9, 0, 100, y) \in 0 .. 9 - 1
  <2>1. 9 \in Nat \ {0} /\ 0 \in Int /\ 100 \in Int /\ (100 = 0 \/ 0 < 100)
    OBVIOUS
  <2> QED
    BY <2>1, ChooseInRange, Zenon
<1> QED
  BY <1>1, <1>2, <1>3

LEMMA QuotientTypes ==
  /\ \A a \in Int, b \in Int \ {0} : Quotient(a, b) \in Int
  /\ \A a \in Nat, b \in Nat \ {0} : Quotient(a, b) = a \div b
<1>1. ASSUME NEW a \in Int, NEW b \in Int \ {0}
      PROVE  Quotient(a, b) \in Int
  <2> DEFINE m == IF a < 0 THEN -a ELSE a
             d == IF b < 0 THEN -b ELSE b
  <2>1. m \in Nat /\ d \in Nat \ {0}
    OBVIOUS
  <2>2. Quotient(a, b) = IF (a < 0) = (b < 0) THEN m \div d ELSE -(m \div d)
    BY DEF Quotient
  <2> HIDE DEF m, d
  <2>3. m \div d \in Nat
    BY <2>1
  <2>4. m \div d \in Int /\ -(m \div d) \in Int
    BY <2>3
  <2> QED
    BY <2>2, <2>4, Zenon
<1>2. ASSUME NEW a \in Nat, NEW b \in Nat \ {0}
      PROVE  Quotient(a, b) = a \div b
  <2>1. ~ (a < 0) /\ ~ (b < 0)
    OBVIOUS
  <2> QED
    BY <2>1 DEF Quotient
<1> QED
  BY <1>1, <1>2

LEMMA GpuUsageTypes ==
  \A rc6, time \in Nat : gpuUsage(rc6, time) \in Int
<1>1. ASSUME NEW rc6 \in Nat, NEW time \in Nat
      PROVE  gpuUsage(rc6, time) \in Int
  <2> DEFINE busy == time - rc6
             cube == (busy * busy * busy * 100) \div (time * time * time)
  <2>1. gpuUsage(rc6, time) = IF time > 0 /\ rc6 <= time THEN cube ELSE -1
    BY DEF gpuUsage
  <2>2. CASE time > 0
    <3>1. busy \in Int
      OBVIOUS
    <3> HIDE DEF busy
    <3>2. busy * busy \in Int
      BY <3>1
    <3>3. busy * busy * busy \in Int
      BY <3>1, <3>2
    <3>4. busy * busy * busy * 100 \in Int
      BY <3>3
    <3>5. time * time \in Nat /\ time * time > 0
      BY <2>2
    <3>6. time * time * time \in Nat /\ time * time * time > 0
      BY <2>2, <3>5
    <3>7. cube \in Int
      BY <3>4, <3>6
    <3> QED
      BY <2>1, <3>7
  <2>3. CASE ~ (time > 0)
    BY <2>1, <2>3
  <2> QED
    BY <2>2, <2>3
<1> QED
  BY <1>1

-----------------------------------------------------------------------------
(* What the panel shows.                                                   *)

\* The bars for the cores' idle percentages, as DrawPanel makes them.
BarsOf(idle) ==
  [b \in 1 .. 8 |-> BarLevel(100,
     [c \in Core |-> Unsigned(100 - sort4Pairs(swapPairsIfGreater(idle))[c], IntValues)][BarOrder[b]])]

\* What PanelBarsSorted says of them.
Arranged(bars, idle) ==
  /\ \A k \in Pair : bars[2 * k + 1] >= bars[2 * k + 2]
  /\ \A k \in 0 .. 2 : bars[2 * k + 1] >= bars[2 * k + 3]
  /\ \E order \in Order :
       \A k \in Pair : {bars[2 * k + 1], bars[2 * k + 2]} =
                         {BarLevel(100, 100 - idle[order[k]]), BarLevel(100, 100 - idle[order[k] + 4])}

LEMMA BarPlaces ==
  /\ \A b \in 1 .. 8 : BarOrder[b] \in Core
  /\ \A k \in Pair : /\ BarOrder[2 * k + 1] = k /\ BarOrder[2 * k + 2] = k + 4
                     /\ 2 * k + 1 \in 1 .. 8 /\ 2 * k + 2 \in 1 .. 8
                     /\ k \in Core /\ k + 4 \in Core
<1>1. \A b \in 1 .. 8 : b = 1 \/ b = 2 \/ b = 3 \/ b = 4 \/ b = 5 \/ b = 6 \/ b = 7 \/ b = 8
  OBVIOUS
<1>2. \A k \in Pair : k = 0 \/ k = 1 \/ k = 2 \/ k = 3
  BY DEF Pair
<1>3. /\ BarOrder[1] = 0 /\ BarOrder[2] = 4 /\ BarOrder[3] = 1 /\ BarOrder[4] = 5
      /\ BarOrder[5] = 2 /\ BarOrder[6] = 6 /\ BarOrder[7] = 3 /\ BarOrder[8] = 7
  BY DEF BarOrder
<1>4. \A b \in 1 .. 8 : BarOrder[b] \in Core
  BY <1>1, <1>3 DEF Core
<1>5. \A k \in Pair : BarOrder[2 * k + 1] = k /\ BarOrder[2 * k + 2] = k + 4
  BY <1>2, <1>3
<1>6. \A k \in Pair : /\ 2 * k + 1 \in 1 .. 8 /\ 2 * k + 2 \in 1 .. 8
                      /\ k \in Core /\ k + 4 \in Core
  BY DEF Pair, Core
<1> QED
  BY <1>4, <1>5, <1>6

LEMMA BarsOfTypes ==
  ASSUME NEW idle \in Usage
  PROVE  \A b \in 1 .. 8 : BarsOf(idle)[b] \in 0 .. 10
<1> DEFINE s == sort4Pairs(swapPairsIfGreater(idle))
<1>1. s \in Usage
  <2>1. swapPairsIfGreater(idle) \in Usage
    BY SwapPairs
  <2> QED
    BY <2>1, NetworkSorts
<1>2. BarsOf(idle) = [b \in 1 .. 8 |-> BarLevel(100, [c \in Core |-> Unsigned(100 - s[c], IntValues)][BarOrder[b]])]
  BY Zenon DEF BarsOf
<1> HIDE DEF s
<1>3. ASSUME NEW c \in Core
      PROVE  Unsigned(100 - s[c], IntValues) \in Int
  <2>1. 100 - s[c] \in Int
    BY <1>1 DEF Usage
  <2> QED
    BY <2>1, Constants, UnsignedTypes
<1>4. ASSUME NEW b \in 1 .. 8
      PROVE  BarsOf(idle)[b] \in 0 .. 10
  <2>1. BarOrder[b] \in Core
    BY BarPlaces
  <2>2. BarsOf(idle)[b] = BarLevel(100, Unsigned(100 - s[BarOrder[b]], IntValues))
    BY <1>2, <2>1
  <2> QED
    BY <1>3, <2>1, <2>2, BarLevelTypes
<1> QED
  BY <1>4

\* The bars of percentages stand in order.
LEMMA BarsArranged ==
  ASSUME NEW idle \in [Core -> 0 .. 100]
  PROVE  Arranged(BarsOf(idle), idle)
<1> DEFINE s == sort4Pairs(swapPairsIfGreater(idle))
           bars == BarsOf(idle)
           level(c) == BarLevel(100, 100 - idle[c])
<1>1. idle \in Usage
  BY DEF Usage
<1>2. /\ s[0] <= s[1] /\ s[1] <= s[2] /\ s[2] <= s[3]
      /\ PairsOrdered(s)
      /\ \E p \in Order : \A k \in Pair : {s[k], s[k + 4]} = {idle[p[k]], idle[p[k] + 4]}
  BY <1>1, BarsInOrder
<1>3. bars = [b \in 1 .. 8 |-> BarLevel(100, [c \in Core |-> Unsigned(100 - s[c], IntValues)][BarOrder[b]])]
  BY Zenon DEF BarsOf
<1> HIDE DEF s, bars
<1>4. PICK p \in Order : \A k \in Pair : {s[k], s[k + 4]} = {idle[p[k]], idle[p[k] + 4]}
  BY <1>2
<1>5. \A k \in Pair : p[k] \in Pair /\ p[k] \in Core /\ p[k] + 4 \in Core /\ k \in Core /\ k + 4 \in Core
  <2>1. \A k \in Pair : p[k] \in Pair
    BY DEF Order
  <2> QED
    BY <2>1, BarPlaces, Zenon
<1>6. \A k \in Pair : s[k] \in 0 .. 100 /\ s[k + 4] \in 0 .. 100 /\ s[k] <= s[k + 4]
  <2>1. \A c \in Core : idle[c] \in 0 .. 100
    OBVIOUS
  <2> QED
    BY <1>2, <1>4, <1>5, <2>1 DEF PairsOrdered
<1>7. \A k \in Pair : /\ bars[2 * k + 1] = BarLevel(100, Unsigned(100 - s[k], IntValues))
                      /\ bars[2 * k + 2] = BarLevel(100, Unsigned(100 - s[k + 4], IntValues))
  BY <1>3, BarPlaces
<1>8. \A x \in 0 .. 100 : Unsigned(100 - x, IntValues) = 100 - x /\ 100 - x \in 0 .. 100
  <2>1. \A x \in 0 .. 100 : 100 - x \in 0 .. IntValues - 1 /\ 100 - x \in 0 .. 100
    BY Constants
  <2> QED
    BY <2>1, UnsignedTypes, Zenon
<1>9. \A k \in Pair : bars[2 * k + 1] = BarLevel(100, 100 - s[k]) /\ bars[2 * k + 2] = BarLevel(100, 100 - s[k + 4])
  <2>1. ASSUME NEW k \in Pair
        PROVE  bars[2 * k + 1] = BarLevel(100, 100 - s[k]) /\ bars[2 * k + 2] = BarLevel(100, 100 - s[k + 4])
    <3>1. Unsigned(100 - s[k], IntValues) = 100 - s[k] /\ Unsigned(100 - s[k + 4], IntValues) = 100 - s[k + 4]
      BY <1>6, <1>8, Zenon
    <3> QED
      BY <1>7, <3>1, Zenon
  <2> QED
    BY <2>1, Zenon
<1>10. \A x, y \in 0 .. 100 : x <= y => BarLevel(100, 100 - x) >= BarLevel(100, 100 - y)
  <2>1. ASSUME NEW x \in 0 .. 100, NEW y \in 0 .. 100, x <= y
        PROVE  BarLevel(100, 100 - x) >= BarLevel(100, 100 - y)
    <3>1. 100 - x \in 0 .. 100 /\ 100 - y \in 0 .. 100 /\ 100 - y <= 100 - x
      BY <2>1
    <3>2. /\ BarLevel(100, 100 - y) <= BarLevel(100, 100 - x)
          /\ BarLevel(100, 100 - x) \in 0 .. 10 /\ BarLevel(100, 100 - y) \in 0 .. 10
      BY <3>1, BarLevelTypes
    <3> QED
      BY <3>2
  <2> QED
    BY <2>1
<1>11. \A k \in Pair : bars[2 * k + 1] >= bars[2 * k + 2]
  BY <1>6, <1>9, <1>10
<1>12. ASSUME NEW k \in 0 .. 2
       PROVE  bars[2 * k + 1] >= bars[2 * k + 3]
  <2>1. k \in Pair /\ k + 1 \in Pair /\ 2 * (k + 1) + 1 = 2 * k + 3
    BY DEF Pair
  <2>2. s[k] <= s[k + 1]
    <3>1. k = 0 \/ k = 1 \/ k = 2
      OBVIOUS
    <3> QED
      BY <1>2, <3>1
  <2>3. bars[2 * k + 3] = BarLevel(100, 100 - s[k + 1])
    BY <1>9, <2>1
  <2> QED
    <3>1. s[k] \in 0 .. 100 /\ s[k + 1] \in 0 .. 100 /\ bars[2 * k + 1] = BarLevel(100, 100 - s[k])
      BY <1>6, <1>9, <2>1, Zenon
    <3> QED
      BY <1>10, <2>2, <2>3, <3>1, Zenon
<1>13. ASSUME NEW k \in Pair
       PROVE  {bars[2 * k + 1], bars[2 * k + 2]} = {level(p[k]), level(p[k] + 4)}
  <2>1. \/ s[k] = idle[p[k]] /\ s[k + 4] = idle[p[k] + 4]
        \/ s[k] = idle[p[k] + 4] /\ s[k + 4] = idle[p[k]]
    BY <1>4
  <2> QED
    BY <1>9, <2>1
<1> QED
  BY <1>11, <1>12, <1>13 DEF Arranged, bars

LEMMA SharesGrow ==
  \A d \in Nat \ {0} : \A a, b \in Nat : a <= b => a \div d <= b \div d
<1>1. ASSUME NEW d \in Nat \ {0}, NEW a \in Nat, NEW b \in Nat, a <= b
      PROVE  a \div d <= b \div d
  <2> DEFINE q == a \div d
             r == b \div d
  <2>1. q \in Nat /\ r \in Nat /\ q * d <= a /\ b < r * d + d
    OBVIOUS
  <2> HIDE DEF q, r
  <2>2. ASSUME q >= r + 1
        PROVE  FALSE
    <3>1. q * d >= (r + 1) * d
      BY <2>1, <2>2
    <3>2. (r + 1) * d = r * d + d
      BY <2>1
    <3>3. r * d \in Nat /\ q * d \in Nat
      BY <2>1
    <3> QED
      BY <1>1, <2>1, <3>1, <3>2, <3>3
  <2>3. q <= r
    BY <2>1, <2>2
  <2> QED
    BY <2>3 DEF q, r
<1> QED
  BY <1>1

LEMMA MaxIs ==
  ASSUME NEW A, NEW x \in A, \A y \in A : y \in Int /\ y <= x
  PROVE  Max(A) = x
<1>1. \A y, z \in Int : y <= z /\ z <= y => y = z
  OBVIOUS
<1>2. \A y \in Int, z \in Int : y >= z <=> z <= y
  OBVIOUS
<1>3. \A y \in A : (\A z \in A : y >= z) => y = x
  BY <1>1, <1>2
<1>4. \A z \in A : x >= z
  BY <1>2
<1> QED
  BY <1>3, <1>4, Zenon DEF Max

\* Of some numbers one is the highest.
LEMMA Highest ==
  ASSUME NEW n \in Nat \ {0}, NEW f, \A i \in 1 .. n : f[i] \in Nat
  PROVE  \E i \in 1 .. n : \A j \in 1 .. n : f[j] <= f[i]
<1> DEFINE Good(m) == \E i \in 1 .. m : \A j \in 1 .. m : f[j] <= f[i]
           M == {m \in 0 .. n : m = 0 \/ Good(m)}
<1>1. 0 \in M
  OBVIOUS
<1>2. ASSUME NEW m \in 1 .. n, m - 1 \in M
      PROVE  m \in M
  <2>1. \A j \in 1 .. m : j \in 1 .. n /\ (j = m \/ j \in 1 .. m - 1)
    OBVIOUS
  <2>2. \A j \in 1 .. m : f[j] \in Nat
    BY <2>1
  <2>3. CASE m - 1 = 0
    <3>1. m = 1
      BY <2>3
    <3>2. Good(m)
      BY <2>2, <3>1
    <3> HIDE DEF Good
    <3> QED
      BY <3>2
  <2>4. CASE Good(m - 1)
    <3>1. PICK i \in 1 .. m - 1 : \A j \in 1 .. m - 1 : f[j] <= f[i]
      BY <2>4
    <3>2. i \in 1 .. m /\ m \in 1 .. m /\ f[i] \in Nat /\ f[m] \in Nat
      BY <2>2
    <3>3. CASE f[m] <= f[i]
      <4>1. \A j \in 1 .. m : f[j] <= f[i]
        BY <2>1, <3>1, <3>3
      <4> QED
        BY <3>2, <4>1
    <3>4. CASE ~ (f[m] <= f[i])
      <4>1. \A j \in 1 .. m : f[j] <= f[m]
        BY <2>1, <2>2, <3>1, <3>2, <3>4
      <4> QED
        BY <3>2, <4>1
    <3> QED
      BY <3>3, <3>4
  <2> HIDE DEF Good
  <2> QED
    BY <1>2, <2>3, <2>4
<1> HIDE DEF M
<1>3. \A m \in 0 .. n : m \in M
  BY <1>1, <1>2, UpTo
<1>4. n \in M /\ n # 0
  BY <1>3
<1> QED
  BY <1>4 DEF M

\* The highest of the parts is the part of the highest.
HighestOf(n, f) == Max({f[i] : i \in 1 .. n})
ShareOf(n, d, f, g) == \A i \in 1 .. n : f[i] \in Nat /\ g[i] = f[i] \div d

LEMMA MaxOfShares ==
  ASSUME NEW n \in Nat \ {0}, NEW d \in Nat \ {0}, NEW f, NEW g, ShareOf(n, d, f, g)
  PROVE  HighestOf(n, f) \div d = HighestOf(n, g)
<1>0. \A i \in 1 .. n : f[i] \in Nat /\ g[i] = f[i] \div d
  BY DEF ShareOf
<1>1. PICK i \in 1 .. n : \A j \in 1 .. n : f[j] <= f[i]
  BY <1>0, Highest
<1>2. \A j \in 1 .. n : f[j] \in Int /\ f[j] \div d \in Int /\ f[j] \div d <= f[i] \div d
  BY <1>0, <1>1, SharesGrow
<1>3. Max({f[j] : j \in 1 .. n}) = f[i]
  <2> DEFINE A == {f[j] : j \in 1 .. n}
  <2>1. f[i] \in A /\ \A y \in A : y \in Int /\ y <= f[i]
    BY <1>1, <1>2
  <2> HIDE DEF A
  <2>2. Max(A) = f[i]
    BY <2>1, MaxIs
  <2> QED
    BY <2>2 DEF A
<1>4. Max({g[j] : j \in 1 .. n}) = f[i] \div d
  <2> DEFINE A == {g[j] : j \in 1 .. n}
             x == f[i] \div d
  <2>1. x \in A /\ \A y \in A : y \in Int /\ y <= x
    BY <1>0, <1>1, <1>2
  <2> HIDE DEF A, x
  <2>2. Max(A) = x
    BY <2>1, MaxIs
  <2> QED
    BY <2>2 DEF A, x
<1> QED
  BY <1>3, <1>4, Zenon DEF HighestOf

-----------------------------------------------------------------------------
(* The numbers of a text in the targets of a scan.                         *)

NoneBelow == \A i \in DOMAIN text : text[i].n >= 0

\* A format with a target, among n, for each number it stores of the first q lines.
Fits(mods, cores, q, format, c, n) ==
  /\ TextOf(mods, cores, q)
  /\ format \in Seq(Item) /\ cores + q \in 0 .. Len(format)
  /\ NumberItems(format, cores + q, c)
  /\ n \in Nat /\ \A k \in 1 .. cores + q : c[k] <= n

\* The targets v hold what the modules gave.
Held(mods, cores, q, format, c, v) ==
  /\ Cpu \notin failed => \A k \in 1 .. cores + 1 : format[k].stored =>
       v[c[k]] = Read(Cpu)[k] /\ v[c[k]] \in 0 .. 100
  /\ \A j \in 2 .. q : format[cores + j].stored /\ (mods[j] = Ram \/ NoneBelow) =>
       v[c[cores + j]] = Read(mods[j])[1] /\ v[c[cores + j]] \in 0 .. IntValues \div 2 - 1

LEMMA NumbersHeld ==
  ASSUME NEW mods, NEW cores, NEW q, NEW format, NEW c, NEW n, Fits(mods, cores, q, format, c, n),
         NEW term, NEW st \in Scans(format, term), NEW old
  PROVE  Held(mods, cores, q, format, c, Targets(n, st, old))
<1> DEFINE v == Targets(n, st, old)
           half == IntValues \div 2
<1>1. /\ TextOf(mods, cores, q) /\ format \in Seq(Item) /\ cores + q \in 0 .. Len(format)
      /\ NumberItems(format, cores + q, c)
      /\ n \in Nat /\ \A k \in 1 .. cores + q : c[k] <= n
  BY DEF Fits
<1>2. /\ text \in Seq(Token) /\ Len(text) \in Nat /\ cores \in Nat /\ q \in Nat \ {0}
      /\ cores + 2 <= Len(text) /\ cores + 2 * q <= Len(text)
      /\ \A i \in 1 .. cores + 1 : Cpu \notin failed => text[i].n \in 0 .. 100
      /\ \A j \in 2 .. q : text[cores + 2 * j - 1].n \in OneNumber(mods[j])
  BY <1>1, TextOfIs
<1>3. st \in Stores /\ Len(st) \in Nat
  BY <1>1, <1>2, ScansAre
<1>4. \A k \in 1 .. cores + q :
        format[k].stored => c[k] \in 1 .. Len(st) /\ st[c[k]][1] = text[Place(cores, k)]
  BY <1>1, ScanOfText
<1>5. ASSUME NEW k \in 1 .. cores + q, format[k].stored
      PROVE  v[c[k]] = Unsigned(text[Place(cores, k)].n, IntValues)
  <2>1. c[k] \in 1 .. Len(st) /\ c[k] <= n /\ st[c[k]][1] = text[Place(cores, k)]
    BY <1>1, <1>4, <1>5
  <2>2. c[k] \in 1 .. n /\ c[k] <= Len(st)
    BY <1>1, <1>3, <2>1
  <2>3. v[c[k]] = Unsigned(st[c[k]][1].n, IntValues)
    BY <1>1, <1>3, <2>2, TargetIs
  <2> QED
    BY <2>1, <2>3
<1>6. half \in Nat /\ half > 100 /\ IntValues = 2 * half
  BY Constants
<1>7. \A x \in 0 .. half - 1 : Unsigned(x, IntValues) = x
  <2>1. \A x \in 0 .. half - 1 : x \in 0 .. IntValues - 1
    BY <1>6
  <2> QED
    BY <2>1, UnsignedTypes, Zenon
<1> HIDE DEF v, half
<1>8. ASSUME Cpu \notin failed, NEW k \in 1 .. cores + 1, format[k].stored
      PROVE  v[c[k]] = Read(Cpu)[k] /\ v[c[k]] \in 0 .. 100
  <2>1. k \in 1 .. cores + q /\ Place(cores, k) = k
    BY <1>2 DEF Place
  <2>2. text[k].n \in 0 .. 100 /\ text[k].n \in 0 .. half - 1
    <3>1. text[k].n \in 0 .. 100
      BY <1>2, <1>8, Zenon
    <3>2. \A x \in 0 .. 100 : x \in 0 .. half - 1
      BY <1>6
    <3> QED
      BY <3>1, <3>2, Zenon
  <2>3. Read(Cpu)[k] = text[k].n
    BY <1>1, ReadOfText
  <2>4. v[c[k]] = Unsigned(text[k].n, IntValues)
    BY <1>5, <1>8, <2>1
  <2> QED
    BY <1>7, <2>2, <2>3, <2>4, Zenon
<1>9. ASSUME NEW j \in 2 .. q, format[cores + j].stored, mods[j] = Ram \/ NoneBelow
      PROVE  v[c[cores + j]] = Read(mods[j])[1] /\ v[c[cores + j]] \in 0 .. half - 1
  <2> DEFINE x == text[cores + 2 * j - 1].n
  <2>1. cores + j \in 1 .. cores + q /\ Place(cores, cores + j) = cores + 2 * j - 1
    BY <1>2 DEF Place
  <2>2. cores + 2 * j - 1 \in 1 .. Len(text) /\ DOMAIN text = 1 .. Len(text)
    BY <1>2
  <2>3. x \in -half .. half - 1 /\ (mods[j] = Ram => x >= 0)
    <3>1. x \in OneNumber(mods[j])
      BY <1>2
    <3> HIDE DEF x
    <3> QED
      BY <3>1, Zenon DEF OneNumber, half
  <2>4. NoneBelow => x >= 0
    BY <2>2 DEF NoneBelow
  <2>5. Read(mods[j])[1] = x
    BY <1>1, ReadOfText
  <2>6. v[c[cores + j]] = Unsigned(x, IntValues)
    BY <1>5, <1>9, <2>1
  <2> HIDE DEF x
  <2>7. x \in 0 .. half - 1
    BY <1>6, <1>9, <2>3, <2>4
  <2> QED
    BY <1>7, <2>5, <2>6, <2>7, Zenon
<1> QED
  BY <1>8, <1>9, Zenon DEF Held, v, half

\* A format of numbers only has a target for each.
LEMMA AllFit ==
  ASSUME NEW mods, NEW cores, NEW q, TextOf(mods, cores, q), NEW n \in Nat, cores + q \in 0 .. n
  PROVE  Fits(mods, cores, q, Times(n, Store("number")), [k \in 0 .. cores + q |-> k], n)
<1> DEFINE f == Times(n, Store("number"))
           c == [k \in 0 .. cores + q |-> k]
<1>1. f \in Seq(Item) /\ Len(f) = n /\ NumberItems(f, cores + q, c)
  BY NumberFormat
<1>2. \A k \in 1 .. cores + q : c[k] <= n
  OBVIOUS
<1> HIDE DEF f, c
<1>3. cores + q \in 0 .. Len(f)
  BY <1>1
<1>4. Fits(mods, cores, q, f, c, n)
  BY <1>1, <1>2, <1>3 DEF Fits
<1> QED
  BY <1>4 DEF f, c

\* What the targets hold after a scan for numbers only.
LEMMA AllHeld ==
  ASSUME NEW mods, NEW cores, NEW q, TextOf(mods, cores, q), NEW n \in Nat, cores + q \in 0 .. n,
         NEW term, NEW st \in Scans(Times(n, Store("number")), term), NEW old
  PROVE  /\ Cpu \notin failed => \A k \in 1 .. cores + 1 :
              Targets(n, st, old)[k] = Read(Cpu)[k] /\ Targets(n, st, old)[k] \in 0 .. 100
         /\ \A j \in 2 .. q : mods[j] = Ram \/ NoneBelow =>
              /\ Targets(n, st, old)[cores + j] = Read(mods[j])[1]
              /\ Targets(n, st, old)[cores + j] \in 0 .. IntValues \div 2 - 1
<1> DEFINE f == Times(n, Store("number"))
           c == [k \in 0 .. cores + q |-> k]
           v == Targets(n, st, old)
<1>1. Fits(mods, cores, q, f, c, n)
  BY AllFit
<1>2. st \in Scans(f, term)
  OBVIOUS
<1>3. \A k \in 1 .. n : f[k].stored
  BY NumberFormat
<1>4. cores \in Nat /\ q \in Nat \ {0} /\ cores + q <= n
  BY TextOfIs
<1>5. \A k \in 1 .. cores + 1 : k \in 1 .. n /\ c[k] = k
  BY <1>4
<1>6. \A j \in 2 .. q : cores + j \in 1 .. n /\ c[cores + j] = cores + j
  BY <1>4
<1> HIDE DEF f, c
<1>7. Held(mods, cores, q, f, c, v)
  BY <1>1, <1>2, NumbersHeld, Zenon
<1> HIDE DEF v
<1>8. Cpu \notin failed => \A k \in 1 .. cores + 1 : v[k] = Read(Cpu)[k] /\ v[k] \in 0 .. 100
  BY <1>3, <1>5, <1>7, Zenon DEF Held
<1>9. \A j \in 2 .. q : mods[j] = Ram \/ NoneBelow =>
        v[cores + j] = Read(mods[j])[1] /\ v[cores + j] \in 0 .. IntValues \div 2 - 1
  BY <1>3, <1>6, <1>7, Zenon DEF Held
<1> QED
  BY <1>8, <1>9, Zenon DEF v

\* The targets of the panel's scan.
PanelTargets(q, v) ==
  /\ v \in [1 .. 12 + 2 * Sensors -> 0 .. IntValues - 1]
  /\ Cpu \notin failed => \A k \in 1 .. 9 : v[k] = Read(Cpu)[k] /\ v[k] \in 0 .. 100
  /\ \A j \in 2 .. q : PanelModules[j] = Ram \/ NoneBelow =>
       v[8 + j] = Read(PanelModules[j])[1] /\ v[8 + j] \in 0 .. IntValues \div 2 - 1

LEMMA PanelHeld ==
  ASSUME NEW q, TextOf(PanelModules, 8, q), NEW st \in Scans(PanelFormat, FALSE),
         NEW junk \in Unwritten(Len(PanelFormat), st)
  PROVE  PanelTargets(q, Targets(Len(PanelFormat), st, junk))
<1> DEFINE n == 12 + 2 * Sensors
           v == Targets(Len(PanelFormat), st, junk)
<1>1. Sensors \in Nat /\ n \in Nat /\ 10 + 2 * Sensors + 2 = n
  BY Constants
<1>2. PanelFormat = Times(n, Store("number"))
  BY <1>1, Zenon DEF PanelFormat
<1>3. Len(PanelFormat) = n /\ PanelFormat \in Seq(Item)
  <2>1. 0 \in 0 .. n
    BY <1>1
  <2> QED
    BY <1>1, <1>2, <2>1, NumberFormat
<1>4. q \in Nat \ {0} /\ q <= 4 + 2 * Sensors
  BY TextOfIs, ProgramLists
<1>5. 8 + q \in 0 .. n
  BY <1>1, <1>4
<1>6. text \in Seq(Token)
  BY TextOfIs
<1>7. st \in Stores /\ Len(st) \in Nat /\ Len(st) <= n
  BY <1>3, <1>6, ScansAre
<1>8. v = Targets(n, st, junk) /\ junk \in Unwritten(n, st)
  BY <1>3
<1>9. \A i \in 1 .. n : v[i] \in 0 .. IntValues - 1
  BY <1>1, <1>7, <1>8, TargetsTypes
<1>10. v = [i \in 1 .. n |-> v[i]]
  BY <1>8 DEF Targets, Assign
<1>11. v \in [1 .. n -> 0 .. IntValues - 1]
  BY <1>9, <1>10
<1>12. st \in Scans(Times(n, Store("number")), FALSE)
  BY <1>2
<1> HIDE DEF n
<1>13. /\ Cpu \notin failed => \A k \in 1 .. 8 + 1 :
              Targets(n, st, junk)[k] = Read(Cpu)[k] /\ Targets(n, st, junk)[k] \in 0 .. 100
       /\ \A j \in 2 .. q : PanelModules[j] = Ram \/ NoneBelow =>
              /\ Targets(n, st, junk)[8 + j] = Read(PanelModules[j])[1]
              /\ Targets(n, st, junk)[8 + j] \in 0 .. IntValues \div 2 - 1
  <2>1. n \in Nat
    BY <1>1
  <2> QED
    BY <2>1, <1>5, <1>12, AllHeld, Zenon
<1>14. 8 + 1 = 9
  OBVIOUS
<1> QED
  BY <1>8, <1>11, <1>13, <1>14 DEF n, PanelTargets

\* What the panel shows is a text with bars of 11 levels.
LEMMA ShownTypes ==
  ASSUME NEW q, NEW v, PanelTargets(q, v)
  PROVE  /\ Shown(v).temp \in Nat /\ Shown(v).cpu \in Nat /\ Shown(v).memory \in Nat
         /\ \A b \in 1 .. 8 : Shown(v).bars[b] \in 0 .. 10
         /\ Shown(v).gpu \in 0 .. 10
         /\ Shown(v).bars = BarsOf([c \in Core |-> v[c + 2]])
<1> DEFINE idle == [c \in Core |-> v[c + 2]]
           temps == SubSeq(v, 11, 10 + Sensors)
           time == v[11 + 2 * Sensors]
           rc6 == v[12 + 2 * Sensors]
<1>1. /\ Sensors \in Nat \ {0} /\ IntValues \in Nat \ {0} /\ Thousand \in Nat \ {0} /\ TenthGB \in Nat \ {0}
  BY Constants
<1>2. \A k \in 1 .. 12 + 2 * Sensors : v[k] \in Nat
  BY <1>1 DEF PanelTargets
<1>3. /\ v[1] \in Nat /\ v[10] \in Nat /\ time \in Nat /\ rc6 \in Nat
      /\ \A c \in Core : v[c + 2] \in Nat
  <2>1. /\ 1 \in 1 .. 12 + 2 * Sensors /\ 10 \in 1 .. 12 + 2 * Sensors
        /\ 11 + 2 * Sensors \in 1 .. 12 + 2 * Sensors /\ 12 + 2 * Sensors \in 1 .. 12 + 2 * Sensors
        /\ \A c \in Core : c + 2 \in 1 .. 12 + 2 * Sensors
    BY <1>1 DEF Core
  <2> QED
    BY <1>2, <2>1, Zenon
<1>4. idle \in Usage
  BY <1>3 DEF Usage
<1>5. Len(temps) = Sensors /\ \A i \in 1 .. Sensors : temps[i] \in Int
  <2>1. v \in Seq(Nat) /\ Len(v) = 12 + 2 * Sensors
    <3>1. v \in [1 .. 12 + 2 * Sensors -> Nat] /\ 12 + 2 * Sensors \in Nat
      BY <1>1, <1>2 DEF PanelTargets
    <3> QED
      BY <3>1
  <2> QED
    BY <1>1, <2>1
<1>6. MaxTemp(temps) \in Int
  <2> HIDE DEF temps
  <2>1. Sensors \in Nat
    BY <1>1
  <2> QED
    BY <1>5, <2>1, MaxTempTypes, Zenon
<1>7. Shown(v) = [drawn  |-> TRUE,
                  temp   |-> Unsigned(Quotient(MaxTemp(temps), Thousand), IntValues),
                  bars   |-> BarsOf(idle),
                  gpu    |-> BarLevel(100, Unsigned(gpuUsage(rc6, time), IntValues)),
                  cpu    |-> Unsigned(100 - v[1], IntValues),
                  memory |-> v[10] \div TenthGB]
  BY Zenon DEF Shown, BarsOf
<1> HIDE DEF idle, temps, time, rc6
<1>8. Unsigned(Quotient(MaxTemp(temps), Thousand), IntValues) \in Nat
  <2>1. Quotient(MaxTemp(temps), Thousand) \in Int
    <3>1. Thousand \in Int \ {0}
      BY <1>1
    <3> QED
      BY <3>1, <1>6, QuotientTypes, Zenon
  <2>2. Unsigned(Quotient(MaxTemp(temps), Thousand), IntValues) \in 0 .. IntValues - 1
    BY <2>1, UnsignedTypes, Zenon
  <2> QED
    BY <1>1, <2>2
<1>9. BarLevel(100, Unsigned(gpuUsage(rc6, time), IntValues)) \in 0 .. 10
  <2>1. gpuUsage(rc6, time) \in Int
    BY <1>3, GpuUsageTypes
  <2>2. Unsigned(gpuUsage(rc6, time), IntValues) \in Int
    BY <1>1, <2>1, UnsignedTypes
  <2> QED
    BY <2>2, BarLevelTypes
<1>10. Unsigned(100 - v[1], IntValues) \in Nat
  <2>1. 100 - v[1] \in Int
    BY <1>3
  <2> QED
    BY <1>1, <2>1, UnsignedTypes
<1>11. v[10] \div TenthGB \in Nat
  BY <1>1, <1>3
<1>12. \A b \in 1 .. 8 : BarsOf(idle)[b] \in 0 .. 10
  BY <1>4, BarsOfTypes
<1> QED
  BY <1>7, <1>8, <1>9, <1>10, <1>11, <1>12 DEF idle

\* The memory it shows is what ram read.
LEMMA ShownMemory ==
  ASSUME NEW q \in Nat, q >= 2, NEW v, PanelTargets(q, v)
  PROVE  Read(Ram)[1] \in Nat /\ Shown(v).memory = Read(Ram)[1] \div TenthGB
<1>1. 2 \in 2 .. q /\ PanelModules[2] = Ram /\ 8 + 2 = 10
  BY ProgramLists
<1>2. v[8 + 2] = Read(Ram)[1] /\ v[8 + 2] \in 0 .. IntValues \div 2 - 1
  BY <1>1, Zenon DEF PanelTargets
<1>3. v[10] = Read(Ram)[1] /\ v[10] \in Nat
  BY <1>1, <1>2, Constants
<1>4. Shown(v).memory = v[10] \div TenthGB
  BY DEF Shown
<1> QED
  BY <1>3, <1>4

\* Its bars are those of the percentages cpu read.
LEMMA ShownBars ==
  ASSUME NEW q, NEW v, PanelTargets(q, v), Cpu \notin failed
  PROVE  Arranged(Shown(v).bars, [c \in Core |-> Read(Cpu)[c + 2]])
<1> DEFINE idle == [c \in Core |-> v[c + 2]]
<1>1. \A c \in Core : c + 2 \in 1 .. 9
  BY DEF Core
<1>2. \A c \in Core : v[c + 2] = Read(Cpu)[c + 2] /\ v[c + 2] \in 0 .. 100
  BY <1>1 DEF PanelTargets
<1>3. idle \in [Core -> 0 .. 100] /\ idle = [c \in Core |-> Read(Cpu)[c + 2]]
  BY <1>2
<1>4. Shown(v).bars = BarsOf(idle)
  BY ShownTypes
<1> HIDE DEF idle
<1>5. Arranged(BarsOf(idle), idle)
  BY <1>3, BarsArranged
<1> QED
  BY <1>3, <1>4, <1>5

\* After an update that read every file it shows what it read.
LEMMA ShownFresh ==
  ASSUME NEW q \in Nat, q = 4 + 2 * Sensors, NEW v, PanelTargets(q, v), Cpu \notin failed, NoneBelow
  PROVE  /\ Shown(v).cpu = 100 - Read(Cpu)[1]
         /\ Shown(v).temp = Max({Read(Temps[i])[1] : i \in 1 .. Sensors}) \div Thousand
<1> DEFINE temps == SubSeq(v, 11, 10 + Sensors)
           half == IntValues \div 2
<1>1. /\ Sensors \in Nat \ {0} /\ IntValues \in Nat \ {0} /\ Thousand \in Nat \ {0}
      /\ half \in Nat /\ half > 100 /\ IntValues = 2 * half /\ Sensor = 1 .. Sensors
  BY Constants DEF Sensor
<1>11. /\ v \in [1 .. 12 + 2 * Sensors -> 0 .. IntValues - 1]
       /\ \A k \in 1 .. 9 : v[k] = Read(Cpu)[k] /\ v[k] \in 0 .. 100
       /\ \A j \in 2 .. q : v[8 + j] = Read(PanelModules[j])[1] /\ v[8 + j] \in 0 .. half - 1
  BY Zenon DEF PanelTargets
<1> HIDE DEF half
<1>2. Shown(v).cpu = 100 - Read(Cpu)[1]
  <2>1. v[1] = Read(Cpu)[1] /\ v[1] \in 0 .. 100
    <3>1. 1 \in 1 .. 9
      OBVIOUS
    <3> QED
      BY <1>11, <3>1, Zenon
  <2>2. 100 - v[1] \in 0 .. IntValues - 1
    <3>1. \A x \in 0 .. 100 : 100 - x \in 0 .. IntValues - 1
      BY Constants
    <3> QED
      BY <2>1, <3>1, Zenon
  <2>3. Shown(v).cpu = Unsigned(100 - v[1], IntValues)
    BY DEF Shown
  <2>4. Unsigned(100 - v[1], IntValues) = 100 - v[1]
    BY <2>2, UnsignedTypes
  <2> QED
    BY <2>1, <2>3, <2>4
<1>3. \A i \in 1 .. Sensors : v[10 + i] = Read(Temps[i])[1] /\ v[10 + i] \in 0 .. half - 1
  <2>1. ASSUME NEW i \in 1 .. Sensors
        PROVE  v[10 + i] = Read(Temps[i])[1] /\ v[10 + i] \in 0 .. half - 1
    <3>1. 2 + i \in 2 .. q /\ 8 + (2 + i) = 10 + i
      BY <1>1
    <3>2. PanelModules[2 + i] = Temps[i]
      BY <1>1, ProgramLists
    <3>3. v[8 + (2 + i)] = Read(PanelModules[2 + i])[1] /\ v[8 + (2 + i)] \in 0 .. half - 1
      BY <1>11, <3>1, Zenon
    <3> QED
      BY <3>1, <3>2, <3>3
  <2> QED
    BY <2>1
<1>4. Len(temps) = Sensors /\ \A i \in 1 .. Sensors : temps[i] = v[10 + i]
  <2>1. v \in Seq(Nat) /\ Len(v) = 12 + 2 * Sensors
    <3>1. v \in [1 .. 12 + 2 * Sensors -> Nat] /\ 12 + 2 * Sensors \in Nat
      <4>1. \A x \in 0 .. IntValues - 1 : x \in Nat
        BY Constants
      <4>2. 12 + 2 * Sensors \in Nat
        BY Constants
      <4> QED
        BY <1>11, <4>1, <4>2
    <3> QED
      BY <3>1
  <2> QED
    BY <1>1, <2>1
<1>5. Shown(v).temp = Unsigned(Quotient(MaxTemp(temps), Thousand), IntValues)
  BY DEF Shown
<1> HIDE DEF temps
<1>6. \A i \in 1 .. Sensors : temps[i] = Read(Temps[i])[1] /\ temps[i] \in 0 .. half - 1
  BY <1>3, <1>4
<1>7. MaxTemp(temps) = Max({temps[i] : i \in 1 .. Sensors}) /\ MaxTemp(temps) \in 0 .. half - 1
  <2>1. Sensors \in Nat \ {0} /\ \A i \in 1 .. Sensors : temps[i] \in 0 .. IntValues \div 2 - 1
    BY <1>1, <1>6 DEF half
  <2> QED
    BY <1>4, <2>1, MaxTempIs, Zenon DEF half
<1>8. {temps[i] : i \in 1 .. Sensors} = {Read(Temps[i])[1] : i \in 1 .. Sensors}
  BY <1>6
<1> DEFINE m == MaxTemp(temps)
<1>9. m = Max({Read(Temps[i])[1] : i \in 1 .. Sensors}) /\ m \in 0 .. half - 1
  BY <1>7, <1>8
<1>10. Unsigned(Quotient(m, Thousand), IntValues) = m \div Thousand
  <2> HIDE DEF m
  <2>1. Quotient(m, Thousand) = m \div Thousand
    <3>1. m \in Nat
      BY <1>1, <1>9
    <3> QED
      BY <1>1, <3>1, QuotientTypes, Zenon
  <2>2. m \div Thousand \in 0 .. IntValues - 1
    <3>1. m \div Thousand \in Nat /\ (m \div Thousand) * Thousand <= m
      BY <1>1, <1>9
    <3>2. \A x, y \in Nat : y > 0 => x <= x * y
      OBVIOUS
    <3>3. m \div Thousand <= (m \div Thousand) * Thousand
      BY <1>1, <3>1, <3>2
    <3> DEFINE x == m \div Thousand
               z == x * Thousand
    <3>4. z \in Int /\ x \in Nat /\ x <= z /\ z <= m
      BY <1>1, <3>1, <3>3
    <3> HIDE DEF x, z
    <3>5. x \in 0 .. IntValues - 1
      BY <1>1, <1>9, <3>4
    <3> QED
      BY <3>5 DEF x
  <2> QED
    BY <2>1, <2>2, UnsignedTypes
<1> QED
  BY <1>2, <1>5, <1>9, <1>10

-----------------------------------------------------------------------------
(* What my-system-info and cpu-stats keep.                                 *)

\* The targets of my-system-info's scan.
InfoFilled(q, v) ==
  /\ Cpu \notin failed => \A k \in 1 .. Sensors + 1 : v[k] = Read(Cpu)[k] /\ v[k] \in 0 .. 100
  /\ \A j \in 2 .. q : InfoModules[j] = Ram \/ NoneBelow =>
       v[Sensors + j] = Read(InfoModules[j])[1] /\ v[Sensors + j] \in 0 .. IntValues \div 2 - 1

LEMMA InfoHeld ==
  ASSUME NEW q, TextOf(InfoModules, Sensors, q), NEW st \in Scans(InfoFormat, FALSE), NEW old
  PROVE  InfoFilled(q, Targets(Len(InfoFormat), st, old))
<1> DEFINE n == 3 + 3 * Sensors
<1>1. n \in Nat /\ Sensors \in Nat
  BY Constants
<1>2. InfoFormat = Times(n, Store("number"))
  BY Zenon DEF InfoFormat
<1>3. Len(InfoFormat) = n
  <2>1. 0 \in 0 .. n
    BY <1>1
  <2> QED
    BY <1>1, <1>2, <2>1, NumberFormat
<1>4. q \in Nat \ {0} /\ q <= 3 + 2 * Sensors
  BY TextOfIs, ProgramLists
<1>5. Sensors + q \in 0 .. n
  BY <1>1, <1>4
<1>6. st \in Scans(Times(n, Store("number")), FALSE)
  BY <1>2
<1> HIDE DEF n
<1>7. /\ Cpu \notin failed => \A k \in 1 .. Sensors + 1 :
              Targets(n, st, old)[k] = Read(Cpu)[k] /\ Targets(n, st, old)[k] \in 0 .. 100
      /\ \A j \in 2 .. q : InfoModules[j] = Ram \/ NoneBelow =>
              /\ Targets(n, st, old)[Sensors + j] = Read(InfoModules[j])[1]
              /\ Targets(n, st, old)[Sensors + j] \in 0 .. IntValues \div 2 - 1
  <2>1. n \in Nat
    BY <1>1
  <2> QED
    BY <2>1, <1>5, <1>6, AllHeld, Zenon
<1> QED
  BY <1>3, <1>7, Zenon DEF InfoFilled

\* The memory it keeps is what ram read.
LEMMA InfoMemory ==
  ASSUME NEW q \in Nat, q >= 2, NEW v, InfoFilled(q, v)
  PROVE  Read(Ram)[1] \in Nat /\ Info(v).memory = Read(Ram)[1] \div TenthGB
<1>1. 2 \in 2 .. q /\ InfoModules[2] = Ram /\ Sensors + 2 = 2 + Sensors
  BY ProgramLists, Constants
<1>2. v[Sensors + 2] = Read(Ram)[1] /\ v[Sensors + 2] \in 0 .. IntValues \div 2 - 1
  BY <1>1, Zenon DEF InfoFilled
<1>3. v[2 + Sensors] = Read(Ram)[1] /\ v[2 + Sensors] \in Nat
  BY <1>1, <1>2, Constants
<1>4. Info(v).memory = v[2 + Sensors] \div TenthGB
  BY DEF Info
<1> QED
  BY <1>3, <1>4

\* After an update that read every file it keeps what it read.
LEMMA InfoKept ==
  ASSUME NEW q \in Nat, q = 3 + 2 * Sensors, NEW v, InfoFilled(q, v), Cpu \notin failed, NoneBelow
  PROVE  Info(v) = [cpu    |-> 100 - Read(Cpu)[1],
                    core   |-> [i \in Sensor |-> 100 - Read(Cpu)[1 + i]],
                    memory |-> Read(Ram)[1] \div TenthGB,
                    temp   |-> Max({Scaled(Temps)[i] : i \in Sensor}),
                    freq   |-> Scaled(Freqs),
                    time   |-> Read(Time)[1]]
<1>1. Sensors \in Nat \ {0} /\ Thousand \in Nat \ {0} /\ Sensor = 1 .. Sensors
  BY Constants DEF Sensor
<1>2. \A k \in 1 .. Sensors + 1 : Unsigned(100 - v[k], IntValues) = 100 - Read(Cpu)[k]
  <2>1. \A k \in 1 .. Sensors + 1 : v[k] = Read(Cpu)[k] /\ v[k] \in 0 .. 100
    BY Zenon DEF InfoFilled
  <2>2. \A x \in 0 .. 100 : 100 - x \in 0 .. IntValues - 1
    BY Constants
  <2>3. \A x \in 0 .. 100 : Unsigned(100 - x, IntValues) = 100 - x
    BY <2>2, UnsignedTypes, Zenon
  <2> QED
    BY <2>1, <2>3, Zenon
<1>3. \A j \in 2 .. q : v[Sensors + j] = Read(InfoModules[j])[1] /\ v[Sensors + j] \in Nat
  <2>1. \A x \in 0 .. IntValues \div 2 - 1 : x \in Nat
    BY Constants
  <2> QED
    BY <2>1, Zenon DEF InfoFilled
<1>4. v[2 + Sensors] = Read(Ram)[1]
  <2>1. 2 \in 2 .. q /\ Sensors + 2 = 2 + Sensors
    BY <1>1
  <2> QED
    BY <1>3, <2>1, ProgramLists
<1>5. \A i \in Sensor : v[2 + Sensors + i] = Read(Temps[i])[1] /\ v[2 + Sensors + i] \in Nat
  <2>1. ASSUME NEW i \in Sensor
        PROVE  v[2 + Sensors + i] = Read(Temps[i])[1] /\ v[2 + Sensors + i] \in Nat
    <3>1. 2 + i \in 2 .. q /\ Sensors + (2 + i) = 2 + Sensors + i
      BY <1>1
    <3>2. InfoModules[2 + i] = Temps[i]
      BY ProgramLists
    <3>3. v[Sensors + (2 + i)] = Read(InfoModules[2 + i])[1] /\ v[Sensors + (2 + i)] \in Nat
      BY <1>3, <3>1, Zenon
    <3> QED
      BY <3>1, <3>2, <3>3
  <2> QED
    BY <2>1
<1>6. \A i \in Sensor : v[2 + 2 * Sensors + i] = Read(Freqs[i])[1] /\ v[2 + 2 * Sensors + i] \in Nat
  <2>1. ASSUME NEW i \in Sensor
        PROVE  v[2 + 2 * Sensors + i] = Read(Freqs[i])[1] /\ v[2 + 2 * Sensors + i] \in Nat
    <3>1. 2 + Sensors + i \in 2 .. q /\ Sensors + (2 + Sensors + i) = 2 + 2 * Sensors + i
      BY <1>1
    <3>2. InfoModules[2 + Sensors + i] = Freqs[i]
      BY ProgramLists
    <3>3. /\ v[Sensors + (2 + Sensors + i)] = Read(InfoModules[2 + Sensors + i])[1]
          /\ v[Sensors + (2 + Sensors + i)] \in Nat
      BY <1>3, <3>1, Zenon
    <3> QED
      BY <3>1, <3>2, <3>3
  <2> QED
    BY <2>1
<1>7. v[3 + 3 * Sensors] = Read(Time)[1]
  <2>1. 3 + 2 * Sensors \in 2 .. q /\ Sensors + (3 + 2 * Sensors) = 3 + 3 * Sensors
    BY <1>1
  <2>2. v[Sensors + (3 + 2 * Sensors)] = Read(InfoModules[3 + 2 * Sensors])[1]
    BY <1>3, <2>1, Zenon
  <2> QED
    BY <2>1, <2>2, ProgramLists
<1>8. Max({v[2 + Sensors + i] : i \in Sensor}) \div Thousand = Max({Scaled(Temps)[i] : i \in Sensor})
  <2> DEFINE f == [i \in Sensor |-> v[2 + Sensors + i]]
             g == Scaled(Temps)
  <2>1. \A i \in 1 .. Sensors : f[i] \in Nat /\ g[i] = f[i] \div Thousand
    BY <1>1, <1>5 DEF Scaled
  <2>2. {v[2 + Sensors + i] : i \in Sensor} = {f[i] : i \in 1 .. Sensors}
    BY <1>1
  <2> HIDE DEF f, g
  <2>3. Max({f[i] : i \in 1 .. Sensors}) \div Thousand = Max({g[i] : i \in 1 .. Sensors})
    <3>1. Sensors \in Nat \ {0} /\ Thousand \in Nat \ {0}
      BY <1>1
    <3>2. ShareOf(Sensors, Thousand, f, g)
      BY <2>1, Zenon DEF ShareOf
    <3>3. HighestOf(Sensors, f) \div Thousand = HighestOf(Sensors, g)
      BY <3>1, <3>2, MaxOfShares
    <3> QED
      BY <3>3, Zenon DEF HighestOf
  <2> QED
    BY <1>1, <2>2, <2>3, Zenon DEF g
<1>9. [i \in Sensor |-> v[2 + 2 * Sensors + i] \div Thousand] = Scaled(Freqs)
  BY <1>6 DEF Scaled
<1>10. [i \in Sensor |-> Unsigned(100 - v[1 + i], IntValues)] = [i \in Sensor |-> 100 - Read(Cpu)[1 + i]]
  <2>1. \A i \in Sensor : 1 + i \in 1 .. Sensors + 1
    BY <1>1
  <2>2. \A i \in Sensor : Unsigned(100 - v[1 + i], IntValues) = 100 - Read(Cpu)[1 + i]
    BY <1>2, <2>1, Zenon
  <2> QED
    BY <2>2, Zenon
<1>11. Unsigned(100 - v[1], IntValues) = 100 - Read(Cpu)[1]
  <2>1. 1 \in 1 .. Sensors + 1
    BY <1>1
  <2> QED
    BY <1>2, <2>1, Zenon
<1> QED
  BY <1>4, <1>7, <1>8, <1>9, <1>10, <1>11, Zenon DEF Info

\* The format of cpu-stats.
StatsPlace == [k \in 0 .. 4 * Sensors + 1 |->
                 IF k <= Sensors THEN k ELSE IF k <= 2 * Sensors THEN Sensors ELSE k - Sensors]

LEMMA TimesIs ==
  ASSUME NEW n \in Nat, NEW item \in Item
  PROVE  /\ Times(n, item) \in Seq(Item) /\ Len(Times(n, item)) = n
         /\ \A k \in 1 .. n : Times(n, item)[k] = item
BY DEF Times

LEMMA StatsFormatIs ==
  /\ StatsFormat \in Seq(Item) /\ Len(StatsFormat) = 4 * Sensors + 1
  /\ \A k \in 1 .. 4 * Sensors + 1 : /\ StatsFormat[k].kind = "number"
                                     /\ StatsFormat[k].stored = (k <= Sensors \/ k > 2 * Sensors)
<1> DEFINE a == Times(Sensors, Store("number"))
           b == Times(Sensors, Skip("number"))
           d == Times(1 + 2 * Sensors, Store("number"))
<1>1. Sensors \in Nat /\ 1 + 2 * Sensors \in Nat
  BY Constants
<1>2. /\ Store("number") \in Item /\ Store("number").kind = "number" /\ Store("number").stored = TRUE
      /\ Skip("number") \in Item /\ Skip("number").kind = "number" /\ Skip("number").stored = FALSE
  BY DEF Store, Skip, Item
<1>3. a \in Seq(Item) /\ Len(a) = Sensors /\ \A k \in 1 .. Sensors : a[k] = Store("number")
  BY <1>1, <1>2, TimesIs
<1>4. b \in Seq(Item) /\ Len(b) = Sensors /\ \A k \in 1 .. Sensors : b[k] = Skip("number")
  BY <1>1, <1>2, TimesIs
<1>5. d \in Seq(Item) /\ Len(d) = 1 + 2 * Sensors /\ \A k \in 1 .. 1 + 2 * Sensors : d[k] = Store("number")
  BY <1>1, <1>2, TimesIs
<1>6. StatsFormat = a \o b \o d
  BY Zenon DEF StatsFormat
<1> HIDE DEF a, b, d
<1>7. /\ a \o b \in Seq(Item) /\ Len(a \o b) = 2 * Sensors
      /\ \A k \in 1 .. Sensors : (a \o b)[k] = Store("number")
      /\ \A k \in Sensors + 1 .. 2 * Sensors : (a \o b)[k] = Skip("number")
  <2>1. a \o b \in Seq(Item) /\ Len(a \o b) = Len(a) + Len(b)
    BY <1>3, <1>4
  <2>2. \A k \in 1 .. Sensors : (a \o b)[k] = a[k]
    BY <1>1, <1>3, <1>4
  <2>3. \A k \in Sensors + 1 .. 2 * Sensors : (a \o b)[k] = b[k - Sensors] /\ k - Sensors \in 1 .. Sensors
    BY <1>1, <1>3, <1>4
  <2> QED
    BY <1>1, <1>3, <1>4, <2>1, <2>2, <2>3
<1> DEFINE e == a \o b
<1> HIDE DEF e
<1>8. /\ e \o d \in Seq(Item) /\ Len(e \o d) = 4 * Sensors + 1
      /\ \A k \in 1 .. 2 * Sensors : (e \o d)[k] = e[k]
      /\ \A k \in 2 * Sensors + 1 .. 4 * Sensors + 1 : (e \o d)[k] = d[k - 2 * Sensors] /\ k - 2 * Sensors \in 1 .. 1 + 2 * Sensors
  <2>1. e \in Seq(Item) /\ Len(e) = 2 * Sensors
    BY <1>7 DEF e
  <2> QED
    BY <1>1, <1>5, <2>1
<1>9. StatsFormat = e \o d
  BY <1>6 DEF e
<1>10. ASSUME NEW k \in 1 .. 4 * Sensors + 1
       PROVE  StatsFormat[k].kind = "number" /\ StatsFormat[k].stored = (k <= Sensors \/ k > 2 * Sensors)
  <2>1. CASE k \in 1 .. Sensors
    <3>1. StatsFormat[k] = Store("number")
      <4>1. k \in 1 .. 2 * Sensors
        BY <1>1, <2>1
      <4> QED
        BY <1>7, <1>8, <1>9, <2>1, <4>1, Zenon DEF e
    <3>2. k <= Sensors
      BY <2>1
    <3> QED
      BY <1>2, <3>1, <3>2
  <2>2. CASE k \in Sensors + 1 .. 2 * Sensors
    <3>1. StatsFormat[k] = Skip("number")
      <4>1. k \in 1 .. 2 * Sensors
        BY <1>1, <2>2
      <4> QED
        BY <1>7, <1>8, <1>9, <2>2, <4>1, Zenon DEF e
    <3>2. ~ (k <= Sensors \/ k > 2 * Sensors)
      BY <1>1, <2>2
    <3> QED
      BY <1>2, <3>1, <3>2
  <2>3. CASE k \in 2 * Sensors + 1 .. 4 * Sensors + 1
    <3>1. StatsFormat[k] = Store("number")
      BY <1>5, <1>8, <1>9, <2>3, Zenon
    <3>2. k > 2 * Sensors
      BY <1>1, <2>3
    <3> QED
      BY <1>2, <3>1, <3>2
  <2> QED
    BY <1>1, <2>1, <2>2, <2>3
<1> QED
  BY <1>8, <1>9, <1>10, Zenon

LEMMA StatsFits ==
  ASSUME NEW q, q = 1 + 2 * Sensors, TextOf(StatsModules, 2 * Sensors, q)
  PROVE  Fits(StatsModules, 2 * Sensors, q, StatsFormat, StatsPlace, 1 + 3 * Sensors)
<1> DEFINE c == StatsPlace
           m == 4 * Sensors + 1
<1>1. Sensors \in Nat /\ 2 * Sensors + q = m /\ m \in Nat /\ 1 + 3 * Sensors \in Nat
  BY Constants
<1>2. /\ c \in [0 .. m -> Nat] /\ c[0] = 0 /\ \A k \in 1 .. m : c[k] <= 1 + 3 * Sensors
      /\ \A k \in 1 .. m : c[k] = c[k - 1] + IF k <= Sensors \/ k > 2 * Sensors THEN 1 ELSE 0
  <2>1. \A k \in 0 .. m : c[k] = IF k <= Sensors THEN k ELSE IF k <= 2 * Sensors THEN Sensors ELSE k - Sensors
    BY DEF StatsPlace
  <2>2. c = [k \in 0 .. m |-> c[k]]
    BY DEF StatsPlace
  <2> HIDE DEF c, m
  <2>3. \A k \in 0 .. m : c[k] \in Nat /\ c[k] <= 1 + 3 * Sensors
    BY <1>1, <2>1 DEF m
  <2>4. ASSUME NEW k \in 1 .. m
        PROVE  c[k] = c[k - 1] + IF k <= Sensors \/ k > 2 * Sensors THEN 1 ELSE 0
    <3>1. k \in 0 .. m /\ k - 1 \in 0 .. m /\ k \in Int
      BY <1>1
    <3>2. /\ c[k] = IF k <= Sensors THEN k ELSE IF k <= 2 * Sensors THEN Sensors ELSE k - Sensors
          /\ c[k - 1] = IF k - 1 <= Sensors THEN k - 1 ELSE IF k - 1 <= 2 * Sensors THEN Sensors ELSE k - 1 - Sensors
      BY <2>1, <3>1
    <3> QED
      BY <1>1, <3>1, <3>2
  <2>5. c[0] = 0
    BY <1>1, <2>1
  <2>6. c \in [0 .. m -> Nat]
    <3>1. [k \in 0 .. m |-> c[k]] \in [0 .. m -> Nat]
      BY <2>3
    <3> QED
      BY <2>2, <3>1, Zenon
  <2>7. \A k \in 1 .. m : k \in 0 .. m
    OBVIOUS
  <2>8. \A k \in 1 .. m : c[k] <= 1 + 3 * Sensors
    BY <2>3, <2>7, Zenon
  <2> QED
    BY <2>4, <2>5, <2>6, <2>8, Zenon
<1> HIDE DEF c
<1>3. NumberItems(StatsFormat, m, c)
  <2>1. \A k \in 1 .. m : /\ StatsFormat[k].kind = "number"
                          /\ StatsFormat[k].stored = (k <= Sensors \/ k > 2 * Sensors)
    BY StatsFormatIs
  <2> HIDE DEF m
  <2>2. \A k \in 1 .. m : c[k] = c[k - 1] + IF StatsFormat[k].stored THEN 1 ELSE 0
    <3>1. ASSUME NEW k \in 1 .. m
          PROVE  c[k] = c[k - 1] + IF StatsFormat[k].stored THEN 1 ELSE 0
      <4>1. CASE k <= Sensors \/ k > 2 * Sensors
        BY <1>2, <2>1, <4>1
      <4>2. CASE ~ (k <= Sensors \/ k > 2 * Sensors)
        BY <1>2, <2>1, <4>2
      <4> QED
        BY <4>1, <4>2
    <3> QED
      BY <3>1
  <2> QED
    BY <1>2, <2>1, <2>2 DEF NumberItems
<1>4. m \in 0 .. Len(StatsFormat)
  BY <1>1, StatsFormatIs
<1>5. StatsFormat \in Seq(Item)
  BY StatsFormatIs
<1> DEFINE l == 2 * Sensors
           n == 1 + 3 * Sensors
<1>6. l + q = m /\ n \in Nat /\ \A k \in 1 .. m : c[k] <= n
  BY <1>1, <1>2
<1>7. TextOf(StatsModules, l, q)
  OBVIOUS
<1> HIDE DEF l, m, n
<1>8. Fits(StatsModules, l, q, StatsFormat, c, n)
  BY <1>3, <1>4, <1>5, <1>6, <1>7, Zenon DEF Fits
<1> QED
  BY <1>8 DEF l, n, c

\* The targets of cpu-stats' scan, after an update that read every file.
StatsFilled(v) ==
  /\ \A i \in Sensor : Unsigned(100 - v[1 + i], IntValues)
                         = 100 - Read(Cpu)[IF i = Sensors THEN 1 + 2 * Sensors ELSE 1 + i]
  /\ \A i \in Sensor : /\ v[1 + Sensors + i] = Read(Temps[i])[1]
                       /\ v[1 + 2 * Sensors + i] = Read(Freqs[i])[1]

LEMMA StatsHeld ==
  ASSUME NEW q, q = 1 + 2 * Sensors, TextOf(StatsModules, 2 * Sensors, q), Cpu \notin failed, NoneBelow,
         NEW st \in Scans(StatsFormat, TRUE), NEW old
  PROVE  StatsFilled(Targets(1 + 3 * Sensors, st, old))
<1> DEFINE v == Targets(1 + 3 * Sensors, st, old)
           c == StatsPlace
           m == 4 * Sensors + 1
<1>1. Sensors \in Nat \ {0} /\ Sensor = 1 .. Sensors
  BY Constants DEF Sensor
<1>2. Held(StatsModules, 2 * Sensors, q, StatsFormat, c, v)
  BY StatsFits, NumbersHeld, Zenon
<1> HIDE DEF v
<1>3. /\ \A k \in 1 .. 2 * Sensors + 1 : StatsFormat[k].stored => v[c[k]] = Read(Cpu)[k] /\ v[c[k]] \in 0 .. 100
      /\ \A j \in 2 .. q : StatsFormat[2 * Sensors + j].stored =>
           v[c[2 * Sensors + j]] = Read(StatsModules[j])[1]
  BY <1>2, Zenon DEF Held
<1>4. \A k \in 1 .. m : StatsFormat[k].stored = (k <= Sensors \/ k > 2 * Sensors)
  BY StatsFormatIs
<1>5. \A k \in 1 .. m : c[k] = IF k <= Sensors THEN k ELSE IF k <= 2 * Sensors THEN Sensors ELSE k - Sensors
  BY DEF StatsPlace
<1> HIDE DEF c
<1>6. \A x \in 0 .. 100 : Unsigned(100 - x, IntValues) = 100 - x
  <2>1. \A x \in 0 .. 100 : 100 - x \in 0 .. IntValues - 1
    BY Constants
  <2> QED
    BY <2>1, UnsignedTypes, Zenon
<1>7. ASSUME NEW i \in Sensor
      PROVE  Unsigned(100 - v[1 + i], IntValues)
               = 100 - Read(Cpu)[IF i = Sensors THEN 1 + 2 * Sensors ELSE 1 + i]
  <2> DEFINE k == IF i = Sensors THEN 1 + 2 * Sensors ELSE 1 + i
  <2>1. k \in 1 .. 2 * Sensors + 1 /\ k \in 1 .. m /\ (k <= Sensors \/ k > 2 * Sensors)
    BY <1>1
  <2>2. c[k] = 1 + i
    BY <1>1, <1>5, <2>1
  <2> HIDE DEF k
  <2>3. StatsFormat[k].stored
    BY <1>4, <2>1
  <2>4. v[c[k]] = Read(Cpu)[k] /\ v[c[k]] \in 0 .. 100
    BY <1>3, <2>1, <2>3, Zenon
  <2>5. v[1 + i] = Read(Cpu)[k] /\ v[1 + i] \in 0 .. 100
    BY <2>2, <2>4
  <2>6. Unsigned(100 - v[1 + i], IntValues) = 100 - Read(Cpu)[k]
    BY <1>6, <2>5, Zenon
  <2> QED
    BY <2>6 DEF k
<1>8. ASSUME NEW j \in 2 .. q
      PROVE  v[Sensors + j] = Read(StatsModules[j])[1]
  <2>1. 2 * Sensors + j \in 1 .. m /\ 2 * Sensors + j > 2 * Sensors /\ ~ (2 * Sensors + j <= Sensors)
        /\ (2 * Sensors + j) - Sensors = Sensors + j
    BY <1>1
  <2>2. c[2 * Sensors + j] = Sensors + j
    BY <1>1, <1>5, <2>1
  <2>3. StatsFormat[2 * Sensors + j].stored
    BY <1>4, <2>1
  <2> QED
    BY <1>3, <2>2, <2>3, Zenon
<1>9. ASSUME NEW i \in Sensor
      PROVE  v[1 + Sensors + i] = Read(Temps[i])[1] /\ v[1 + 2 * Sensors + i] = Read(Freqs[i])[1]
  <2>1. /\ 1 + i \in 2 .. q /\ Sensors + (1 + i) = 1 + Sensors + i
        /\ 1 + Sensors + i \in 2 .. q /\ Sensors + (1 + Sensors + i) = 1 + 2 * Sensors + i
    BY <1>1
  <2>2. StatsModules[1 + i] = Temps[i] /\ StatsModules[1 + Sensors + i] = Freqs[i]
    BY ProgramLists
  <2>3. /\ v[Sensors + (1 + i)] = Read(StatsModules[1 + i])[1]
        /\ v[Sensors + (1 + Sensors + i)] = Read(StatsModules[1 + Sensors + i])[1]
    BY <1>8, <2>1, Zenon
  <2> QED
    BY <2>1, <2>2, <2>3
<1>10. StatsFilled(v)
  BY <1>7, <1>9, Zenon DEF StatsFilled
<1> QED
  BY <1>10 DEF v

LEMMA StatsKept ==
  ASSUME NEW v, StatsFilled(v)
  PROVE  Stats(v) = [core |-> [i \in Sensor |->
                                 100 - Read(Cpu)[IF i = Sensors THEN 1 + 2 * Sensors ELSE 1 + i]],
                     temp |-> Scaled(Temps),
                     freq |-> Scaled(Freqs)]
<1>1. [i \in Sensor |-> Unsigned(100 - v[1 + i], IntValues)]
        = [i \in Sensor |-> 100 - Read(Cpu)[IF i = Sensors THEN 1 + 2 * Sensors ELSE 1 + i]]
  BY Zenon DEF StatsFilled
<1>2. [i \in Sensor |-> v[1 + Sensors + i] \div Thousand] = Scaled(Temps)
  BY Zenon DEF StatsFilled, Scaled
<1>3. [i \in Sensor |-> v[1 + 2 * Sensors + i] \div Thousand] = Scaled(Freqs)
  BY Zenon DEF StatsFilled, Scaled
<1> QED
  BY <1>1, <1>2, <1>3, Zenon DEF Stats

-----------------------------------------------------------------------------
(* The tooltip.                                                            *)

LEMMA SignedInt ==
  \A x \in Int : Signed(x, IntValues) \in Int
<1>1. IntValues \div 2 \in Int
  BY Constants
<1> QED
  BY <1>1, SignedTypes

LEMMA Outputs ==
  /\ <<>> \in Seq(Token)
  /\ \A x \in NvidiaOutput \cup MeminfoOutput \cup SwapOutput \cup DfOutput : x \in Seq(Token)
BY TooltipAssumption

LEMMA TooltipScans ==
  ASSUME NEW T \in Seq(Token), NEW format \in Seq(Item)
  PROVE  /\ sscanf(T, format).stored \in Stores /\ sscanf(T, format).rest \in Seq(Token)
         /\ \A i \in Nat \ {0} : Stored(sscanf(T, format).stored, i) \subseteq Int
<1> DEFINE st == sscanf(T, format).stored
<1>1. st \in Stores /\ sscanf(T, format).rest \in Seq(Token)
  BY ScanTypes DEF Done
<1> HIDE DEF st
<1>2. ASSUME NEW i \in Nat \ {0}
      PROVE  Stored(st, i) \subseteq Int
  <2>1. Len(st) \in Nat
    BY <1>1 DEF Stores
  <2>2. CASE i <= Len(st)
    <3>1. st[i][1].n \in Int
      BY <1>1, <2>1, <2>2, StoredIs
    <3>2. Signed(st[i][1].n, IntValues) \in Int
      BY <3>1, SignedInt, Zenon
    <3> QED
      BY <2>2, <3>2 DEF Stored
  <2>3. CASE ~ (i <= Len(st))
    BY <2>3, TooltipAssumption DEF Stored
  <2> QED
    BY <2>2, <2>3
<1> QED
  BY <1>1, <1>2 DEF st

LEMMA TooltipFormats ==
  /\ Times(9, Store("number")) \in Seq(Item)
  /\ SwapFormat \in Seq(Item) /\ RowFormat \in Seq(Item)
<1>1. Store("number") \in Item /\ Store("word") \in Item /\ Store("rest") \in Item
  BY DEF Store, Item
<1> QED
  BY <1>1, TimesIs DEF SwapFormat, RowFormat

LEMMA Colours ==
  \A x \in Int : choose(3, 500, 1200, x) \in 0 .. 2 /\ choose(2, 400, 1000, x) \in 0 .. 1
<1> DEFINE a == 500
           b == 1200
           d == 400
           e == 1000
<1>1. /\ a \in Int /\ b \in Int /\ (b = 0 \/ a < b) /\ d \in Int /\ e \in Int /\ (e = 0 \/ d < e)
      /\ 3 \in Nat \ {0} /\ 2 \in Nat \ {0}
  OBVIOUS
<1> HIDE DEF a, b, d, e
<1>2. ASSUME NEW x \in Int
      PROVE  choose(3, a, b, x) \in 0 .. 3 - 1
  BY <1>1, ChooseInRange, Zenon
<1>3. ASSUME NEW x \in Int
      PROVE  choose(2, d, e, x) \in 0 .. 2 - 1
  BY <1>1, ChooseInRange, Zenon
<1>4. ASSUME NEW x \in Int
      PROVE  choose(3, a, b, x) \in 0 .. 2 /\ choose(2, d, e, x) \in 0 .. 1
  <2>1. choose(3, a, b, x) \in 0 .. 3 - 1 /\ choose(2, d, e, x) \in 0 .. 2 - 1
    BY <1>2, <1>3
  <2> QED
    BY <2>1
<1> QED
  BY <1>4 DEF a, b, d, e

LEMMA NvidiaTypes ==
  ASSUME TooltipTypeOK, Nvidia
  PROVE  TooltipTypeOK'
<1>1. /\ pipe \in Seq(Token) /\ fields \in [1 .. 4 -> Seq(Token)] /\ rows \in Seq([1 .. 4 -> Seq(Token)])
      /\ section = "nvidia" /\ pipe' = pipe /\ fields' = fields /\ rows' = rows
      /\ section' = "meminfo"
  <2>1. pipe \in Seq(Token) /\ fields \in [1 .. 4 -> Seq(Token)] /\ rows \in Seq([1 .. 4 -> Seq(Token)])
    BY Zenon DEF TooltipTypeOK
  <2>2. /\ section = "nvidia" /\ pipe' = pipe /\ fields' = fields /\ rows' = rows
        /\ section' = "meminfo"
    BY DEF Nvidia, NoPipe
  <2> QED
    BY <2>1, <2>2, Zenon
<1>2. CASE NoPipe("meminfo")
  BY <1>1, <1>2 DEF TooltipTypeOK, NoPipe
<1>3. CASE ~ NoPipe("meminfo")
  <2> DEFINE stored == sscanf(output', Times(9, Store("number"))).stored
  <2>1. /\ output' \in NvidiaOutput
        /\ \E freq \in Stored(stored, 7), memFreq \in Stored(stored, 8) :
             written' = <<choose(3, 500, 1200, freq), choose(2, 400, 1000, memFreq)>>
    BY <1>3 DEF Nvidia
  <2>2. output' \in Seq(Token)
    BY <2>1, TooltipAssumption, Zenon
  <2>3. Stored(stored, 7) \subseteq Int /\ Stored(stored, 8) \subseteq Int
    <3>1. 7 \in Nat \ {0} /\ 8 \in Nat \ {0}
      OBVIOUS
    <3> QED
      BY <2>2, <3>1, TooltipFormats, TooltipScans, Zenon
  <2> HIDE DEF stored
  <2>4. PICK freq \in Int, memFreq \in Int :
          written' = <<choose(3, 500, 1200, freq), choose(2, 400, 1000, memFreq)>>
    BY <2>1, <2>3
  <2>5. choose(3, 500, 1200, freq) \in 0 .. 2 /\ choose(2, 400, 1000, memFreq) \in 0 .. 1
    BY Colours
  <2>6. written' \in (0 .. 2) \X (0 .. 1)
    BY <2>4, <2>5
  <2> QED
    BY <1>1, <2>2, <2>6 DEF TooltipTypeOK
<1> QED
  BY <1>2, <1>3

LEMMA MeminfoTypes ==
  ASSUME TooltipTypeOK, Meminfo
  PROVE  TooltipTypeOK'
<1>1. /\ pipe \in Seq(Token) /\ fields \in [1 .. 4 -> Seq(Token)] /\ rows \in Seq([1 .. 4 -> Seq(Token)])
      /\ pipe' = pipe /\ fields' = fields /\ rows' = rows
      /\ section' = "swap"
  BY Zenon DEF TooltipTypeOK, Meminfo, NoPipe
<1>2. output' \in MeminfoOutput \/ output' = <<>>
  BY Zenon DEF Meminfo, NoPipe
<1>3. output' \in Seq(Token)
  BY <1>2, Outputs
<1> QED
  BY <1>1, <1>3 DEF TooltipTypeOK

LEMMA SwapTypes ==
  ASSUME TooltipTypeOK, Swap
  PROVE  TooltipTypeOK'
<1>1. /\ pipe \in Seq(Token) /\ fields \in [1 .. 4 -> Seq(Token)] /\ rows \in Seq([1 .. 4 -> Seq(Token)])
      /\ pipe' = pipe /\ fields' = fields /\ rows' = rows
  BY Zenon DEF TooltipTypeOK, Swap, NoPipe
<1>2. CASE NoPipe("df")
  BY <1>1, <1>2 DEF TooltipTypeOK, NoPipe
<1>3. CASE ~ NoPipe("df")
  <2> DEFINE stored == sscanf(output', SwapFormat).stored
             level(total, used) ==
               PieLevel(100, Unsigned(Quotient(Hundredfold(used), total), IntValues))
  <2>1. /\ output' \in SwapOutput
        /\ \E total \in Stored(stored, 2), used \in Stored(stored, 3) :
             IF Traps(Hundredfold(used), total)
             THEN section' = "crashed" /\ written' = <<>>
             ELSE section' = "df" /\ written' = <<level(total, used)>>
    BY <1>3, Zenon DEF Swap
  <2>2. output' \in Seq(Token)
    BY <2>1, TooltipAssumption
  <2>3. Stored(stored, 2) \subseteq Int /\ Stored(stored, 3) \subseteq Int
    <3>1. 2 \in Nat \ {0} /\ 3 \in Nat \ {0}
      OBVIOUS
    <3> QED
      BY <2>2, <3>1, TooltipFormats, TooltipScans, Zenon
  <2> HIDE DEF stored, level
  <2>4. PICK total \in Int, used \in Int :
             IF Traps(Hundredfold(used), total)
             THEN section' = "crashed" /\ written' = <<>>
             ELSE section' = "df" /\ written' = <<level(total, used)>>
    BY <2>1, <2>3
  <2>5. CASE Traps(Hundredfold(used), total)
    BY <1>1, <2>2, <2>4, <2>5 DEF TooltipTypeOK
  <2>6. CASE ~ Traps(Hundredfold(used), total)
    <3>1. total \in Int \ {0}
      BY <2>6 DEF Traps
    <3>2. Hundredfold(used) \in Int
      <4>1. used * 100 \in Int /\ IntValues \div 2 \in Int
        BY Constants
      <4> QED
        BY <4>1, SignedTypes DEF Hundredfold
    <3>3. Quotient(Hundredfold(used), total) \in Int
      BY <3>1, <3>2, QuotientTypes, Zenon
    <3>4. Unsigned(Quotient(Hundredfold(used), total), IntValues) \in Int
      BY <3>3, Constants, UnsignedTypes
    <3>5. level(total, used) \in 0 .. 8
      BY <3>4, PieLevelTypes, Zenon DEF level
    <3>6. section' = "df" /\ written' = <<level(total, used)>>
      BY <2>4, <2>6, Zenon
    <3>7. written'[1] \in 0 .. 8
      BY <3>5, <3>6
    <3> QED
      BY <1>1, <2>2, <3>6, <3>7 DEF TooltipTypeOK
  <2> QED
    BY <2>5, <2>6
<1> QED
  BY <1>2, <1>3

LEMMA DfTypes ==
  ASSUME TooltipTypeOK, Df
  PROVE  TooltipTypeOK'
<1>1. /\ pipe \in Seq(Token) /\ fields \in [1 .. 4 -> Seq(Token)] /\ rows \in Seq([1 .. 4 -> Seq(Token)])
      /\ fields' = fields /\ rows' = rows
      /\ section' \in {"end", "rows"}
  BY Zenon DEF TooltipTypeOK, Df, NoPipe
<1>2. (output' \in DfOutput \/ output' = <<>>) /\ (pipe' = pipe \/ (pipe' = output' /\ output' \in DfOutput))
  BY Zenon DEF Df, NoPipe
<1>3. output' \in Seq(Token) /\ pipe' \in Seq(Token)
  BY <1>1, <1>2, Outputs
<1> QED
  BY <1>1, <1>3 DEF TooltipTypeOK

LEMMA RowTypes ==
  ASSUME TooltipTypeOK, Row
  PROVE  TooltipTypeOK'
<1>1. /\ pipe \in Seq(Token) /\ output \in Seq(Token)
      /\ fields \in [1 .. 4 -> Seq(Token)] /\ rows \in Seq([1 .. 4 -> Seq(Token)])
      /\ output' = output /\ section = "rows"
  BY Zenon DEF TooltipTypeOK, Row
<1> DEFINE scan == sscanf(pipe, RowFormat)
<1>2. scan.stored \in Stores /\ scan.rest \in Seq(Token)
  BY <1>1, TooltipFormats, TooltipScans
<1>3. \/ section' = "end" /\ pipe' = pipe /\ fields' = fields /\ rows' = rows
      \/ /\ fields' = Assign(4, scan.stored, fields)
         /\ rows' = Append(rows, fields')
         /\ pipe' = scan.rest
         /\ section' = section
  BY Zenon DEF Row
<1> HIDE DEF scan
<1>4. Assign(4, scan.stored, fields) \in [1 .. 4 -> Seq(Token)]
  <2>1. \A i \in 1 .. 4 : i <= Len(scan.stored) => scan.stored[i] \in Seq(Token)
    <3>1. Len(scan.stored) \in Nat
      BY <1>2 DEF Stores
    <3> QED
      BY <1>2, <3>1, StoredIs
  <2> QED
    BY <1>1, <2>1 DEF Assign
<1>5. fields' \in [1 .. 4 -> Seq(Token)] /\ rows' \in Seq([1 .. 4 -> Seq(Token)]) /\ pipe' \in Seq(Token)
      /\ section' \in {"end", "rows"}
  <2>1. \A x \in [1 .. 4 -> Seq(Token)] : Append(rows, x) \in Seq([1 .. 4 -> Seq(Token)])
    <3> DEFINE F == [1 .. 4 -> Seq(Token)]
    <3>1. rows \in Seq(F)
      BY <1>1
    <3> HIDE DEF F
    <3>2. \A x \in F : Append(rows, x) \in Seq(F)
      BY <3>1
    <3> QED
      BY <3>2 DEF F
  <2> QED
    BY <1>1, <1>2, <1>3, <1>4, <2>1, Zenon
<1> QED
  BY <1>1, <1>5 DEF TooltipTypeOK

LEMMA TooltipTypes ==
  ASSUME TooltipTypeOK, TooltipNext
  PROVE  TooltipTypeOK'
BY NvidiaTypes, MeminfoTypes, SwapTypes, DfTypes, RowTypes DEF TooltipNext

-----------------------------------------------------------------------------
(* The invariant.                                                          *)

\* The modules of a program, and how many cores cpu writes of.
Modules == IF program = "genmon" THEN PanelModules
           ELSE IF program = "my-system-info" THEN InfoModules ELSE StatsModules
Cores == IF program = "genmon" THEN 8
         ELSE IF program = "my-system-info" THEN Sensors ELSE 2 * Sensors

\* From the first line to the last the program's own modules are loaded, each once,
\* and between programs none is.
LoadedRight ==
  /\ pc \in {"start", "refused"} => loaded = [l \in Line |-> 0]
  /\ pc \in {"gather", "updated"} => loaded = [l \in Line |-> IF l \in ToSet(Modules) THEN 1 ELSE 0]

\* The text is that of the lines written so far, and of all lines when it is read.
TextRight ==
  /\ pc = "start" => text = <<>> /\ lines = 0 /\ failed = {}
  /\ pc \in {"gather", "updated"} => TextIs(Modules, Cores, text, lines, failed)
  /\ pc = "updated" => lines = Len(Modules)

Inv ==
  /\ TypeOK
  /\ program \in {"genmon", "my-system-info", "cpu-stats"}
  /\ LoadedRight /\ TextRight
  /\ BarsSorted /\ KillsJustified /\ FreshWhenWhole

LEMMA ProgramModules ==
  ASSUME program \in {"genmon", "my-system-info", "cpu-stats"}
  PROVE  ModuleList(Modules) /\ HasCores(Cores)
<1>1. HasCores(8) /\ HasCores(Sensors) /\ HasCores(2 * Sensors)
  BY Constants DEF HasCores
<1> QED
  BY <1>1, ProgramLists DEF Modules, Cores

\* What the properties say is about the state after the update.
LEMMA NotUpdated ==
  ASSUME pc' # "updated", program' \in {"genmon", "my-system-info", "cpu-stats"}
  PROVE  BarsSorted' /\ KillsJustified' /\ FreshWhenWhole'
BY DEF BarsSorted, PanelBarsSorted, KillsJustified, FreshWhenWhole, PanelFresh, InfoFresh, StatsFresh, Whole

\* The first state satisfies it.
LEMMA InvInit == Init => Inv
<1> SUFFICES ASSUME Init PROVE Inv
  OBVIOUS
<1>1. /\ program \in {"genmon", "my-system-info", "cpu-stats"} /\ pc = "start"
      /\ loaded = [l \in Line |-> 0] /\ text = <<>> /\ lines = 0 /\ failed = {}
      /\ act = "nothing" /\ updates = 0 /\ stdout = <<>>
      /\ (program = "genmon" => shown = NoPanel)
  BY DEF Init
<1>2. <<>> \in Seq(Token)
  OBVIOUS
<1>3. TextTypeOK
  BY <1>1, <1>2, Constants DEF TextTypeOK
<1>4. TooltipTypeOK
  <2>1. Unset \in Token
    <3>1. "memory" \in Source /\ 0 \in Nat
      BY DEF Source
    <3>2. \A x \in Source, k \in Nat : <<x, k>> \in Source \X Nat
      OBVIOUS
    <3>3. <<"memory", 0>> \in Origin
      BY <3>1, <3>2, Zenon DEF Origin
    <3> QED
      BY <3>3 DEF Unset, Token, Kind
  <2>2. <<Unset>> \in Seq(Token)
    BY <2>1
  <2>3. fields \in [1 .. 4 -> Seq(Token)]
    BY <2>2 DEF Init, TooltipInit
  <2>4. <<>> \in Seq([1 .. 4 -> Seq(Token)])
    OBVIOUS
  <2>5. /\ section = "nvidia" /\ pipe = <<>> /\ rows = <<>> /\ output = <<>>
    BY DEF Init, TooltipInit
  <2> QED
    BY <1>2, <2>3, <2>4, <2>5 DEF TooltipTypeOK
<1>5. TypeOK
  BY <1>1, <1>3, <1>4 DEF TypeOK, PanelTypeOK
<1>6. LoadedRight /\ TextRight
  BY <1>1 DEF LoadedRight, TextRight
<1>7. BarsSorted /\ KillsJustified /\ FreshWhenWhole
  BY <1>1 DEF BarsSorted, PanelBarsSorted, KillsJustified, FreshWhenWhole, PanelFresh, InfoFresh, StatsFresh, Whole
<1> QED
  BY <1>1, <1>5, <1>6, <1>7 DEF Inv

\* The modules are loaded, or the program ends.
LEMMA LoadStep ==
  ASSUME Inv, pc = "start", Load(Modules), UNCHANGED outVars, program' = program
  PROVE  Inv'
<1> USE DEF Inv
<1>1. /\ loaded = [l \in Line |-> 0] /\ text = <<>> /\ lines = 0 /\ failed = {}
      /\ text' = text /\ lines' = lines /\ failed' = failed /\ shown' = shown /\ act' = act
      /\ Modules' = Modules /\ Cores' = Cores
  BY DEF Load, textVars, LoadedRight, TextRight, Modules, Cores
<1>2. /\ TooltipTypeOK' /\ stdout' = stdout
  BY DEF TypeOK, TooltipTypeOK, outVars, tooltipVars
<1>3. PanelTypeOK => PanelTypeOK'
  BY <1>1 DEF PanelTypeOK
<1>4. CASE /\ loaded' = [l \in Line |-> loaded[l] + IF l \in ToSet(Modules) THEN 1 ELSE 0]
           /\ Begin
  <2>1. loaded' = [l \in Line |-> IF l \in ToSet(Modules) THEN 1 ELSE 0]
    BY <1>1, <1>4
  <2>2. pc' = "gather" /\ updates' \in 0 .. MaxUpdates
    BY <1>4, Constants DEF Begin, TypeOK, TextTypeOK
  <2>3. loaded' \in [Line -> 0 .. 1]
    BY <2>1
  <2>4. TextTypeOK'
    BY <1>1, <2>2, <2>3 DEF TypeOK, TextTypeOK
  <2>5. TypeOK'
    BY <1>1, <1>2, <1>3, <2>2, <2>4 DEF TypeOK
  <2>6. TextIs(Modules, Cores, <<>>, 0, {})
    <3>1. Len(Modules) \in Nat
      BY ProgramModules DEF ModuleList
    <3>2. <<>> \in Seq(Token) /\ Len(<<>>) = 0 /\ 0 \in 0 .. Len(Modules)
      BY <3>1
    <3> QED
      BY <3>2 DEF TextIs
  <2>7. TextRight'
    BY <1>1, <2>2, <2>6 DEF TextRight
  <2>8. LoadedRight'
    BY <1>1, <2>1, <2>2 DEF LoadedRight
  <2> QED
    BY <2>2, <2>5, <2>7, <2>8, NotUpdated
<1>5. CASE pc' = "refused" /\ UNCHANGED textVars
  <2>1. loaded' = loaded /\ updates' = updates
    BY <1>5 DEF textVars
  <2>2. TypeOK'
    BY <1>1, <1>2, <1>3, <1>5, <2>1 DEF TypeOK, TextTypeOK
  <2>3. TextRight' /\ LoadedRight'
    BY <1>1, <1>5, <2>1 DEF TextRight, LoadedRight
  <2> QED
    BY <1>5, <2>2, <2>3, NotUpdated
<1> QED
  BY <1>4, <1>5 DEF Load

\* A module writes its line.
LEMMA AppendStep ==
  ASSUME Inv, AppendModuleOutput(Modules, Cores), UNCHANGED outVars, program' = program
  PROVE  Inv'
<1> USE DEF Inv
<1>1. /\ pc = "gather" /\ pc' = pc /\ loaded' = loaded /\ shown' = shown /\ act' = act /\ updates' = updates
      /\ Modules' = Modules /\ Cores' = Cores
  BY DEF AppendModuleOutput, Modules, Cores
<1>2. TextIs(Modules, Cores, text, lines, failed)
  BY <1>1 DEF TextRight
<1>3. TextIs(Modules, Cores, text', lines', failed') /\ failed' \subseteq Line
  BY <1>2, ProgramModules, StepWritesLine, Zenon
<1>4. text' \in Seq(Token) /\ lines' \in 0 .. 4 + 2 * Sensors
  <2>1. text' \in Seq(Token) /\ lines' \in 0 .. Len(Modules)
    BY <1>3, Zenon DEF TextIs
  <2>2. Len(Modules) \in 1 .. 4 + 2 * Sensors
    BY ProgramModules DEF ModuleList
  <2> QED
    BY <2>1, <2>2, Constants
<1>5. TypeOK'
  <2>1. TextTypeOK'
    BY <1>1, <1>3, <1>4 DEF TypeOK, TextTypeOK
  <2>2. TooltipTypeOK' /\ stdout' = stdout
    BY DEF TypeOK, TooltipTypeOK, outVars, tooltipVars
  <2>3. PanelTypeOK => PanelTypeOK'
    BY <1>1 DEF PanelTypeOK
  <2> QED
    BY <1>1, <2>1, <2>2, <2>3 DEF TypeOK
<1>6. TextRight' /\ LoadedRight'
  BY <1>1, <1>3 DEF TextRight, LoadedRight
<1> QED
  BY <1>1, <1>5, <1>6, NotUpdated

\* What an update does about the memory depends on what ram read.
LEMMA ActIs ==
  ASSUME NEW x \in Nat, NEW memory, memory = x \div TenthGB
  PROVE  (Act(memory) = "kill" <=> x < 2 * TenthGB) /\ Act(memory) \in {"nothing", "beep", "kill"}
<1>1. TenthGB \in Nat \ {0}
  BY Constants
<1>2. memory \in Nat /\ memory * TenthGB <= x /\ x < memory * TenthGB + TenthGB
  BY <1>1
<1>3. memory < 2 <=> x < 2 * TenthGB
  <2>1. CASE memory < 2
    <3>1. memory = 0 \/ memory = 1
      BY <1>2, <2>1
    <3> QED
      BY <1>1, <1>2, <2>1, <3>1
  <2>2. CASE ~ (memory < 2)
    <3>1. memory * TenthGB >= 2 * TenthGB
      BY <1>1, <1>2, <2>2
    <3>2. memory * TenthGB \in Nat
      BY <1>1, <1>2
    <3> QED
      BY <1>1, <1>2, <2>2, <3>1, <3>2
  <2> QED
    BY <2>1, <2>2
<1> QED
  BY <1>3 DEF Act

\* Reading changes no text.
LEMMA ReadStays ==
  ASSUME text' = text
  PROVE  \A l : Read(l)' = Read(l)
BY Zenon DEF Read

\* A text that is complete may be read up to its last line but for those that failed.
LEMMA CompleteText ==
  ASSUME Inv, pc = "gather", lines = Len(Modules), NEW q \in 1 .. Len(Modules), ReadUpTo(Modules, failed, q)
  PROVE  TextOf(Modules, Cores, q)
BY ProgramModules DEF Inv, TextRight, TextOf

\* The parts of the invariant that are the same for all programs, when the numbers
\* are read.
LEMMA ReadKeeps ==
  ASSUME Inv, pc = "gather", lines = Len(Modules), pc' = "updated",
         UNCHANGED <<loaded, text, lines, updates, failed>>,
         act' \in {"nothing", "beep", "kill"},
         program = "genmon" => PanelTypeOK',
         UNCHANGED outVars, program' = program
  PROVE  TypeOK' /\ program' \in {"genmon", "my-system-info", "cpu-stats"} /\ LoadedRight' /\ TextRight'
<1>1. Modules' = Modules /\ Cores' = Cores
  BY DEF Modules, Cores
<1>2. TextTypeOK'
  BY DEF Inv, TypeOK, TextTypeOK
<1>3. TooltipTypeOK' /\ stdout' = stdout
  BY DEF Inv, TypeOK, TooltipTypeOK, outVars, tooltipVars
<1>4. TypeOK'
  BY <1>2, <1>3 DEF Inv, TypeOK
<1>5. LoadedRight'
  BY <1>1 DEF Inv, LoadedRight
<1>6. TextRight'
  BY <1>1 DEF Inv, TextRight
<1> QED
  BY <1>4, <1>5, <1>6 DEF Inv

\* The panel is drawn.
LEMMA DrawStep ==
  ASSUME Inv, program = "genmon", DrawPanel, UNCHANGED outVars, program' = program
  PROVE  Inv'
<1>1. /\ pc = "gather" /\ lines = Len(PanelModules) /\ pc' = "updated"
      /\ text' = text /\ failed' = failed /\ lines' = lines /\ loaded' = loaded /\ updates' = updates
      /\ Modules = PanelModules /\ Cores = 8
  BY DEF DrawPanel, Gathered, Modules, Cores
<1>2. PICK st \in Scans(PanelFormat, FALSE) : \E junk \in Unwritten(Len(PanelFormat), st) :
        shown' = Shown(Targets(Len(PanelFormat), st, junk))
  BY Zenon DEF DrawPanel
<1>3. PICK junk \in Unwritten(Len(PanelFormat), st) : shown' = Shown(Targets(Len(PanelFormat), st, junk))
  BY <1>2
<1> DEFINE v == Targets(Len(PanelFormat), st, junk)
<1>4. \A q \in 1 .. Len(PanelModules) : ReadUpTo(PanelModules, failed, q) => PanelTargets(q, v)
  <2>1. ASSUME NEW q \in 1 .. Len(PanelModules), ReadUpTo(PanelModules, failed, q)
        PROVE  PanelTargets(q, v)
    <3>1. TextOf(PanelModules, 8, q)
      BY <1>1, <2>1, CompleteText
    <3> QED
      BY <3>1, PanelHeld, Zenon
  <2> QED
    BY <2>1, Zenon
<1>5. shown' = Shown(v)
  BY <1>3
<1> HIDE DEF v
<1>6. /\ Len(PanelModules) \in Nat /\ Len(PanelModules) = 4 + 2 * Sensors
      /\ 1 \in 1 .. Len(PanelModules) /\ 2 \in 1 .. Len(PanelModules)
      /\ Len(PanelModules) \in 1 .. Len(PanelModules)
  BY ProgramLists, Constants
<1>7. PanelTargets(1, v)
  <2>1. ReadUpTo(PanelModules, failed, 1)
    BY DEF ReadUpTo
  <2> QED
    BY <1>4, <1>6, <2>1, Zenon
<1>8. PanelTypeOK'
  <2>1. /\ Shown(v).temp \in Nat /\ Shown(v).cpu \in Nat /\ Shown(v).memory \in Nat
        /\ \A b \in 1 .. 8 : Shown(v).bars[b] \in 0 .. 10
        /\ Shown(v).gpu \in 0 .. 10
    BY <1>7, ShownTypes, Zenon
  <2>2. 11 - 1 = 10
    OBVIOUS
  <2> QED
    BY <1>5, <2>1, <2>2, Zenon DEF PanelTypeOK, IsLevel
<1>9. act' = Act(shown'.memory)
  BY DEF DrawPanel
<1>10. act' \in {"nothing", "beep", "kill"}
  BY <1>9 DEF Act
<1>11. TypeOK' /\ program' \in {"genmon", "my-system-info", "cpu-stats"} /\ LoadedRight' /\ TextRight'
  BY <1>1, <1>8, <1>10, ReadKeeps
<1>12. \A l : Read(l)' = Read(l)
  BY <1>1, ReadStays
<1>13. BarsSorted'
  <2>1. SUFFICES ASSUME Cpu \notin failed
                 PROVE  PanelBarsSorted'
    BY <1>1 DEF BarsSorted, PanelBarsSorted
  <2> DEFINE idle == [c \in Core |-> Read(Cpu)[c + 2]]
             bars == shown'.bars
             level(c) == BarLevel(100, 100 - Read(Cpu)[c + 2])
  <2>2. Arranged(bars, idle)
    BY <1>5, <1>7, <2>1, ShownBars, Zenon
  <2>3. \A c \in Core : BarLevel(100, 100 - idle[c]) = level(c)
    OBVIOUS
  <2>4. \A order \in Order, k \in Pair : order[k] \in Core /\ order[k] + 4 \in Core
    <3>1. \A order \in Order, k \in Pair : order[k] \in Pair
      BY DEF Order
    <3> QED
      BY <3>1, BarPlaces, Zenon
  <2> HIDE DEF idle, bars, level
  <2>5. /\ \A k \in Pair : bars[2 * k + 1] >= bars[2 * k + 2]
        /\ \A k \in 0 .. 2 : bars[2 * k + 1] >= bars[2 * k + 3]
        /\ \E order \in Order :
             \A k \in Pair : {bars[2 * k + 1], bars[2 * k + 2]} = {level(order[k]), level(order[k] + 4)}
    <3>1. PICK order \in Order :
            \A k \in Pair : {bars[2 * k + 1], bars[2 * k + 2]} =
              {BarLevel(100, 100 - idle[order[k]]), BarLevel(100, 100 - idle[order[k] + 4])}
      BY <2>2, Zenon DEF Arranged
    <3>2. \A k \in Pair : {bars[2 * k + 1], bars[2 * k + 2]} = {level(order[k]), level(order[k] + 4)}
      BY <2>3, <2>4, <3>1
    <3> QED
      BY <2>2, <3>2, Zenon DEF Arranged
  <2> QED
    BY <1>1, <1>12, <2>5, Zenon DEF PanelBarsSorted, bars, level
<1>14. Ram \notin failed => Read(Ram)[1] \in Nat /\ Shown(v).memory = Read(Ram)[1] \div TenthGB
  <2>1. SUFFICES ASSUME Ram \notin failed
                 PROVE  Read(Ram)[1] \in Nat /\ Shown(v).memory = Read(Ram)[1] \div TenthGB
    OBVIOUS
  <2>2. PanelModules[2] = Ram /\ \A i \in 2 .. 2 : i = 2
    BY ProgramLists
  <2>3. ReadUpTo(PanelModules, failed, 2)
    BY <2>1, <2>2, Zenon DEF ReadUpTo
  <2>4. PanelTargets(2, v)
    BY <1>4, <1>6, <2>3, Zenon
  <2>5. 2 \in Nat /\ 2 >= 2
    OBVIOUS
  <2> QED
    BY <2>4, <2>5, ShownMemory, Zenon
<1>15. KillsJustified'
  <2>1. SUFFICES ASSUME Ram \notin failed
                 PROVE  act' = "kill" <=> Read(Ram)'[1] < 2 * TenthGB
    BY <1>1 DEF KillsJustified
  <2>2. Read(Ram)[1] \in Nat /\ Shown(v).memory = Read(Ram)[1] \div TenthGB
    BY <1>14, <2>1
  <2>3. Act(Shown(v).memory) = "kill" <=> Read(Ram)[1] < 2 * TenthGB
    BY <2>2, ActIs
  <2> QED
    BY <1>5, <1>9, <1>12, <2>3
<1>16. PanelFresh'
  <2>1. SUFFICES ASSUME failed = {}, NoneBelow
                 PROVE  /\ shown'.cpu = 100 - Read(Cpu)[1]
                        /\ shown'.memory = Read(Ram)[1] \div TenthGB
                        /\ shown'.temp = Max({Read(Temps[i])[1] : i \in 1 .. Sensors}) \div Thousand
    BY <1>1, <1>12, Zenon DEF PanelFresh, Whole, NoneBelow
  <2> DEFINE q == Len(PanelModules)
  <2>2. ReadUpTo(PanelModules, failed, q) /\ Cpu \notin failed /\ Ram \notin failed
    BY <2>1 DEF ReadUpTo
  <2>3. PanelTargets(q, v)
    BY <1>4, <1>6, <2>2, Zenon
  <2>4. q \in Nat /\ q = 4 + 2 * Sensors
    BY <1>6
  <2> HIDE DEF q
  <2>5. /\ Shown(v).cpu = 100 - Read(Cpu)[1]
        /\ Shown(v).temp = Max({Read(Temps[i])[1] : i \in 1 .. Sensors}) \div Thousand
    BY <2>1, <2>2, <2>3, <2>4, ShownFresh, Zenon
  <2> QED
    BY <1>5, <1>14, <2>2, <2>5, Zenon
<1>17. FreshWhenWhole'
  BY <1>16 DEF FreshWhenWhole
<1> QED
  BY <1>11, <1>13, <1>15, <1>17 DEF Inv

\* my-system-info converts its numbers.
LEMMA InfoStep ==
  ASSUME Inv, program = "my-system-info", InfoUpdate, UNCHANGED outVars, program' = program
  PROVE  Inv'
<1>1. /\ pc = "gather" /\ lines = Len(InfoModules) /\ pc' = "updated"
      /\ text' = text /\ failed' = failed /\ lines' = lines /\ loaded' = loaded /\ updates' = updates
      /\ Modules = InfoModules /\ Cores = Sensors
  BY DEF InfoUpdate, Gathered, Modules, Cores
<1>2. PICK st \in Scans(InfoFormat, FALSE), temp \in [Sensor -> {Unsigned(j, IntValues) : j \in Junk}] :
        shown' = Info(Targets(Len(InfoFormat), st, InfoTargets(temp)))
  BY Zenon DEF InfoUpdate
<1> DEFINE v == Targets(Len(InfoFormat), st, InfoTargets(temp))
<1>3. \A q \in 1 .. Len(InfoModules) : ReadUpTo(InfoModules, failed, q) => InfoFilled(q, v)
  <2>1. ASSUME NEW q \in 1 .. Len(InfoModules), ReadUpTo(InfoModules, failed, q)
        PROVE  InfoFilled(q, v)
    <3>1. TextOf(InfoModules, Sensors, q)
      BY <1>1, <2>1, CompleteText
    <3> QED
      BY <3>1, InfoHeld, Zenon
  <2> QED
    BY <2>1, Zenon
<1>4. shown' = Info(v)
  BY <1>2
<1> HIDE DEF v
<1>5. /\ Len(InfoModules) \in Nat /\ Len(InfoModules) = 3 + 2 * Sensors
      /\ 2 \in 1 .. Len(InfoModules) /\ Len(InfoModules) \in 1 .. Len(InfoModules)
  BY ProgramLists, Constants
<1>6. act' = Act(shown'.memory)
  BY DEF InfoUpdate
<1>7. act' \in {"nothing", "beep", "kill"}
  BY <1>6 DEF Act
<1>8. TypeOK' /\ program' \in {"genmon", "my-system-info", "cpu-stats"} /\ LoadedRight' /\ TextRight'
  BY <1>1, <1>7, ReadKeeps
<1>9. \A l : Read(l)' = Read(l)
  BY <1>1, ReadStays
<1>10. BarsSorted'
  BY DEF BarsSorted
<1>11. KillsJustified'
  <2>1. SUFFICES ASSUME Ram \notin failed
                 PROVE  act' = "kill" <=> Read(Ram)'[1] < 2 * TenthGB
    BY <1>1 DEF KillsJustified
  <2>2. InfoModules[2] = Ram /\ \A i \in 2 .. 2 : i = 2
    BY ProgramLists
  <2>3. ReadUpTo(InfoModules, failed, 2)
    BY <2>1, <2>2, Zenon DEF ReadUpTo
  <2>4. InfoFilled(2, v)
    BY <1>3, <1>5, <2>3, Zenon
  <2>5. 2 \in Nat /\ 2 >= 2
    OBVIOUS
  <2>6. Read(Ram)[1] \in Nat /\ Info(v).memory = Read(Ram)[1] \div TenthGB
    BY <2>4, <2>5, InfoMemory, Zenon
  <2>7. Act(Info(v).memory) = "kill" <=> Read(Ram)[1] < 2 * TenthGB
    BY <2>6, ActIs
  <2> QED
    BY <1>4, <1>6, <1>9, <2>7
<1>12. InfoFresh'
  <2>1. SUFFICES ASSUME failed = {}, NoneBelow
                 PROVE  shown' = [cpu    |-> 100 - Read(Cpu)[1],
                                  core   |-> [i \in Sensor |-> 100 - Read(Cpu)[1 + i]],
                                  memory |-> Read(Ram)[1] \div TenthGB,
                                  temp   |-> Max({Scaled(Temps)[i] : i \in Sensor}),
                                  freq   |-> Scaled(Freqs),
                                  time   |-> Read(Time)[1]]
    <3>1. \A m : Scaled(m)' = Scaled(m)
      BY <1>9, Zenon DEF Scaled
    <3> QED
      BY <1>1, <1>9, <3>1, Zenon DEF InfoFresh, Whole, NoneBelow
  <2> DEFINE q == Len(InfoModules)
  <2>2. ReadUpTo(InfoModules, failed, q) /\ Cpu \notin failed
    BY <2>1 DEF ReadUpTo
  <2>3. InfoFilled(q, v)
    BY <1>3, <1>5, <2>2, Zenon
  <2>4. q \in Nat /\ q = 3 + 2 * Sensors
    BY <1>5
  <2> HIDE DEF q
  <2> QED
    BY <1>4, <2>1, <2>2, <2>3, <2>4, InfoKept, Zenon
<1>13. FreshWhenWhole'
  BY <1>12 DEF FreshWhenWhole
<1> QED
  BY <1>8, <1>10, <1>11, <1>13 DEF Inv

\* cpu-stats converts its numbers; it does not read the memory.
LEMMA StatsStep ==
  ASSUME Inv, program = "cpu-stats", StatsUpdate, UNCHANGED outVars, program' = program
  PROVE  Inv'
<1>1. /\ pc = "gather" /\ lines = Len(StatsModules) /\ pc' = "updated"
      /\ text' = text /\ failed' = failed /\ lines' = lines /\ loaded' = loaded /\ updates' = updates
      /\ act' = act /\ Modules = StatsModules /\ Cores = 2 * Sensors
  BY DEF StatsUpdate, Gathered, Modules, Cores
<1>2. PICK st \in Scans(StatsFormat, TRUE) : shown' = Stats(Targets(1 + 3 * Sensors, st, StatsTargets))
  BY Zenon DEF StatsUpdate
<1>3. act' \in {"nothing", "beep", "kill"}
  BY <1>1 DEF Inv, TypeOK, TextTypeOK
<1>4. TypeOK' /\ program' \in {"genmon", "my-system-info", "cpu-stats"} /\ LoadedRight' /\ TextRight'
  BY <1>1, <1>3, ReadKeeps
<1>5. \A l : Read(l)' = Read(l)
  BY <1>1, ReadStays
<1>6. BarsSorted'
  BY DEF BarsSorted
<1>7. KillsJustified'
  <2>1. TextIs(StatsModules, 2 * Sensors, text, lines, failed)
    BY <1>1 DEF Inv, TextRight
  <2>2. Ram # <<"end", 0>> /\ \A i \in 1 .. Len(StatsModules) : StatsModules[i] # Ram
    BY ProgramLists, LineOrigins
  <2>3. text \in Seq(Token) /\ \A i \in 1 .. Len(text) : text[i].from # Ram
    BY <1>1, <2>1, <2>2, Zenon DEF TextIs
  <2> DEFINE own == {i \in DOMAIN text : text[i].from = Ram}
  <2>4. own = {}
    BY <2>3
  <2>5. Read(Ram) = [k \in 1 .. Cardinality(own) |-> text[Min(own) + k - 1].n]
    BY Zenon DEF Read
  <2> HIDE DEF own
  <2>6. Cardinality(own) = 0
    BY <2>4, FS_EmptySet
  <2>7. Read(Ram) = <<>>
    BY <2>5, <2>6
  <2> QED
    BY <1>5, <2>7 DEF KillsJustified
<1>8. StatsFresh'
  <2>1. SUFFICES ASSUME failed = {}, NoneBelow
                 PROVE  shown' = [core |-> [i \in Sensor |->
                                              100 - Read(Cpu)[IF i = Sensors THEN 1 + 2 * Sensors ELSE 1 + i]],
                                  temp |-> Scaled(Temps),
                                  freq |-> Scaled(Freqs)]
    <3>1. \A m : Scaled(m)' = Scaled(m)
      BY <1>5, Zenon DEF Scaled
    <3> QED
      BY <1>1, <1>5, <3>1, Zenon DEF StatsFresh, Whole, NoneBelow
  <2> DEFINE q == Len(StatsModules)
  <2>2. q \in 1 .. Len(StatsModules) /\ q = 1 + 2 * Sensors
    BY ProgramLists, Constants
  <2>3. ReadUpTo(StatsModules, failed, q) /\ Cpu \notin failed
    BY <2>1 DEF ReadUpTo
  <2>4. TextOf(StatsModules, 2 * Sensors, q)
    BY <1>1, <2>2, <2>3, CompleteText
  <2> HIDE DEF q
  <2>5. StatsFilled(Targets(1 + 3 * Sensors, st, StatsTargets))
    BY <2>1, <2>2, <2>3, <2>4, StatsHeld, Zenon
  <2> QED
    BY <1>2, <2>5, StatsKept, Zenon
<1>9. FreshWhenWhole'
  BY <1>8 DEF FreshWhenWhole
<1> QED
  BY <1>4, <1>6, <1>7, <1>9 DEF Inv

\* The update returns, and the next begins.
LEMMA ReturnStep ==
  ASSUME Inv, program # "genmon", UpdateReturns, UNCHANGED outVars, program' = program
  PROVE  Inv'
<1> USE DEF Inv
<1>1. /\ pc = "updated" /\ pc' = "gather" /\ loaded' = loaded
      /\ text' = <<>> /\ lines' = 0 /\ failed' = {} /\ act' = "nothing"
      /\ Modules' = Modules /\ Cores' = Cores
  BY DEF UpdateReturns, TextEnds, Begin, Modules, Cores
<1>2. TypeOK'
  <2>1. updates' \in 0 .. MaxUpdates
    BY Constants DEF UpdateReturns, Begin, TypeOK, TextTypeOK
  <2>2. TextTypeOK'
    BY <1>1, <2>1, Constants DEF TypeOK, TextTypeOK
  <2>3. TooltipTypeOK' /\ stdout' = stdout
    BY DEF TypeOK, TooltipTypeOK, outVars, tooltipVars
  <2> QED
    BY <1>1, <2>2, <2>3 DEF TypeOK
<1>3. TextIs(Modules, Cores, <<>>, 0, {})
  <2>1. Len(Modules) \in Nat
    BY ProgramModules DEF ModuleList
  <2>2. <<>> \in Seq(Token) /\ Len(<<>>) = 0 /\ 0 \in 0 .. Len(Modules)
    BY <2>1
  <2> QED
    BY <2>2 DEF TextIs
<1>4. TextRight' /\ LoadedRight'
  BY <1>1, <1>3 DEF TextRight, LoadedRight
<1> QED
  BY <1>1, <1>2, <1>4, NotUpdated

\* my-system-info unloads the modules it loaded.
LEMMA CloseStep ==
  ASSUME Inv, program = "my-system-info", InfoClose, UNCHANGED outVars, program' = program
  PROVE  Inv'
<1> USE DEF Inv
<1>1. /\ pc = "updated" /\ pc' = "start" /\ updates' = updates
      /\ text' = <<>> /\ lines' = 0 /\ failed' = {} /\ act' = "nothing"
      /\ loaded' = [l \in Line |-> loaded[l] - IF l \in ToSet(InfoModules) THEN 1 ELSE 0]
      /\ loaded = [l \in Line |-> IF l \in ToSet(InfoModules) THEN 1 ELSE 0]
  BY DEF InfoClose, TextEnds, Unload, LoadedRight, Modules
<1>2. loaded' = [l \in Line |-> 0]
  BY <1>1
<1>3. TypeOK'
  <2>1. TextTypeOK'
    BY <1>1, <1>2, Constants DEF TypeOK, TextTypeOK
  <2>2. TooltipTypeOK' /\ stdout' = stdout
    BY DEF TypeOK, TooltipTypeOK, outVars, tooltipVars
  <2> QED
    BY <1>1, <2>1, <2>2 DEF TypeOK
<1>4. TextRight' /\ LoadedRight'
  BY <1>1, <1>2 DEF TextRight, LoadedRight
<1> QED
  BY <1>1, <1>3, <1>4, NotUpdated

\* The panel unloads its modules but for gpu_rc6.
LEMMA PanelCloseStep ==
  ASSUME Inv, program = "genmon", PanelClose, UNCHANGED outVars, program' = program
  PROVE  Inv'
<1> USE DEF Inv
<1>1. /\ pc = "updated" /\ pc' = "closed" /\ updates' = updates
      /\ text' = <<>> /\ lines' = 0 /\ failed' = {} /\ act' = "nothing" /\ shown' = NoPanel
      /\ loaded' = [l \in Line |-> loaded[l] - IF l \in Line \ {Gpu} THEN 1 ELSE 0]
      /\ loaded = [l \in Line |-> IF l \in Line THEN 1 ELSE 0]
  BY ProgramLists DEF PanelClose, TextEnds, Unload, LoadedRight, Modules
<1>2. loaded' \in [Line -> 0 .. 1]
  BY <1>1
<1>3. TypeOK'
  <2>1. TextTypeOK'
    BY <1>1, <1>2, Constants DEF TypeOK, TextTypeOK
  <2>2. TooltipTypeOK' /\ stdout' = stdout
    BY DEF TypeOK, TooltipTypeOK, outVars, tooltipVars
  <2>3. PanelTypeOK'
    BY <1>1 DEF PanelTypeOK
  <2> QED
    BY <1>1, <2>1, <2>2, <2>3 DEF TypeOK
<1>4. TextRight' /\ LoadedRight'
  BY <1>1 DEF TextRight, LoadedRight
<1> QED
  BY <1>1, <1>3, <1>4, NotUpdated

\* The steps behind the panel's text change nothing of what it was made of.
LEMMA OutputStep ==
  ASSUME Inv, program = "genmon", PrintPanel \/ TooltipStep, program' = program
  PROVE  Inv'
<1> USE DEF Inv
<1>1. /\ UNCHANGED textVars
      /\ pc \in {"closed", "tooltip"} /\ pc' \in {"tooltip", "exited", "killed"}
      /\ stdout' \in {stdout, <<>>, <<"panel">>}
      /\ UNCHANGED tooltipVars \/ TooltipNext
  BY DEF PrintPanel, TooltipStep, WriteTooltip, Exit, Killed
<1>2. TextTypeOK'
  BY <1>1 DEF TypeOK, TextTypeOK, textVars
<1>3. PanelTypeOK'
  BY <1>1 DEF TypeOK, PanelTypeOK, textVars
<1>4. TooltipTypeOK'
  <2>1. CASE UNCHANGED tooltipVars
    BY <2>1 DEF TypeOK, TooltipTypeOK, tooltipVars
  <2>2. CASE TooltipNext
    BY <2>2, TooltipTypes DEF TypeOK
  <2> QED
    BY <1>1, <2>1, <2>2
<1>5. TypeOK'
  BY <1>1, <1>2, <1>3, <1>4 DEF TypeOK
<1>6. TextRight' /\ LoadedRight'
  BY <1>1 DEF TextRight, LoadedRight
<1> QED
  BY <1>1, <1>5, <1>6, NotUpdated

\* Every step keeps it.
LEMMA InvNext == Inv /\ [Next]_vars => Inv'
<1> SUFFICES ASSUME Inv, [Next]_vars
             PROVE  Inv'
  OBVIOUS
<1>1. CASE Next
  <2>1. program' = program /\ (GenmonNext \/ SystemInfoNext \/ CpuStatsNext)
    BY <1>1 DEF Next
  <2>2. CASE GenmonNext
    <3>1. program = "genmon" /\ Modules = PanelModules /\ Cores = 8
      BY <2>2 DEF GenmonNext, Modules, Cores
    <3>2. CASE pc = "start" /\ PanelInit /\ UNCHANGED outVars
      BY <2>1, <3>1, <3>2, LoadStep DEF PanelInit
    <3>3. CASE AppendModuleOutput(PanelModules, 8) /\ UNCHANGED outVars
      BY <2>1, <3>1, <3>3, AppendStep
    <3>4. CASE DrawPanel /\ UNCHANGED outVars
      BY <2>1, <3>1, <3>4, DrawStep
    <3>5. CASE PanelClose /\ UNCHANGED outVars
      BY <2>1, <3>1, <3>5, PanelCloseStep
    <3>6. CASE PrintPanel \/ TooltipStep
      BY <2>1, <3>1, <3>6, OutputStep
    <3> QED
      BY <2>2, <3>2, <3>3, <3>4, <3>5, <3>6 DEF GenmonNext
  <2>3. CASE SystemInfoNext
    <3>1. program = "my-system-info" /\ Modules = InfoModules /\ Cores = Sensors /\ UNCHANGED outVars
      BY <2>3 DEF SystemInfoNext, Modules, Cores
    <3>2. CASE pc = "start" /\ InfoInit
      BY <2>1, <3>1, <3>2, LoadStep DEF InfoInit
    <3>3. CASE AppendModuleOutput(InfoModules, Sensors)
      BY <2>1, <3>1, <3>3, AppendStep
    <3>4. CASE InfoUpdate
      BY <2>1, <3>1, <3>4, InfoStep
    <3>5. CASE UpdateReturns
      BY <2>1, <3>1, <3>5, ReturnStep
    <3>6. CASE InfoClose
      BY <2>1, <3>1, <3>6, CloseStep
    <3> QED
      BY <2>3, <3>2, <3>3, <3>4, <3>5, <3>6 DEF SystemInfoNext
  <2>4. CASE CpuStatsNext
    <3>1. program = "cpu-stats" /\ Modules = StatsModules /\ Cores = 2 * Sensors /\ UNCHANGED outVars
      BY <2>4 DEF CpuStatsNext, Modules, Cores
    <3>2. CASE pc = "start" /\ StatsInit
      BY <2>1, <3>1, <3>2, LoadStep DEF StatsInit
    <3>3. CASE AppendModuleOutput(StatsModules, 2 * Sensors)
      BY <2>1, <3>1, <3>3, AppendStep
    <3>4. CASE StatsUpdate
      BY <2>1, <3>1, <3>4, StatsStep
    <3>5. CASE UpdateReturns
      BY <2>1, <3>1, <3>5, ReturnStep
    <3> QED
      BY <2>4, <3>2, <3>3, <3>4, <3>5 DEF CpuStatsNext
  <2> QED
    BY <2>1, <2>2, <2>3, <2>4
<1>2. CASE UNCHANGED vars
  <2> USE <1>2 DEF vars, textVars, tooltipVars
  <2>1. Modules' = Modules /\ Cores' = Cores
    BY DEF Modules, Cores
  <2>2. TypeOK'
    <3>1. TextTypeOK => TextTypeOK'
      BY DEF TextTypeOK
    <3>2. PanelTypeOK => PanelTypeOK'
      BY DEF PanelTypeOK
    <3>3. TooltipTypeOK => TooltipTypeOK'
      BY DEF TooltipTypeOK
    <3> QED
      BY <3>1, <3>2, <3>3 DEF Inv, TypeOK
  <2>3. LoadedRight' /\ TextRight'
    BY <2>1 DEF Inv, LoadedRight, TextRight
  <2>4. \A l : Read(l)' = Read(l)
    BY ReadStays
  <2>5. BarsSorted'
    BY <2>4 DEF Inv, BarsSorted, PanelBarsSorted
  <2>6. KillsJustified'
    BY <2>4 DEF Inv, KillsJustified
  <2>7. FreshWhenWhole'
    <3>1. Whole' = Whole /\ \A m : Scaled(m)' = Scaled(m)
      BY <2>4, Zenon DEF Whole, Scaled
    <3> QED
      BY <2>4, <3>1 DEF Inv, FreshWhenWhole, PanelFresh, InfoFresh, StatsFresh
  <2> QED
    BY <2>2, <2>3, <2>5, <2>6, <2>7 DEF Inv
<1> QED
  BY <1>1, <1>2

LEMMA Invariant == Spec => []Inv
BY InvInit, InvNext, PTL DEF Spec

\* The texts, the numbers scanned from them and what is shown stay in their types,
\* whatever the files and the commands give: a bar has one of its 11 levels, the
\* colours and the pie of the tooltip are there, and no module is loaded twice
\* (block-bars-utils.c, sys-mon-pango.c, sys-mon-pango-tooltip.c).
THEOREM TypeCorrect == Spec => []TypeOK
BY Invariant, PTL DEF Inv

\* The bars of an update that could read cpu's line are those of the cores, sorted in
\* pairs, whatever other lines failed (sys-mon-pango.c 256-276, 350-357).
THEOREM BarsAreSorted == Spec => []BarsSorted
BY Invariant, PTL DEF Inv

\* Browsers are killed exactly by an update that read less than 200 MB of memory,
\* whatever other lines failed (sys-mon-pango.c 256-307, my-system-info.c 116-149).
THEOREM KillsAreJustified == Spec => []KillsJustified
BY Invariant, PTL DEF Inv

\* An update that read every file shows what it read, whatever the updates before it
\* left in the record (sys-mon-pango.c, my-system-info.c, cpu-stats.c).
THEOREM WholeIsFresh == Spec => []FreshWhenWhole
BY Invariant, PTL DEF Inv

-----------------------------------------------------------------------------
(* The rows of the tooltip: a scan that starts anywhere in the text.       *)

\* The first token behind p that is no line end is at q; there is none; the line that
\* the token behind p is on ends in front of e.
NextAt(T, p, q) ==
  q \in p + 1 .. Len(T) /\ T[q].kind # "newline" /\ \A i \in p + 1 .. q - 1 : T[i].kind = "newline"
NoneAfter(T, p) == \A i \in p + 1 .. Len(T) : T[i].kind = "newline"
EndAt(T, p, e) ==
  /\ e \in p + 1 .. Len(T) + 1
  /\ \A i \in p + 1 .. e - 1 : T[i].kind # "newline"
  /\ e <= Len(T) => T[e].kind = "newline"

LEMMA NextOrNone ==
  ASSUME NEW T \in Seq(Token), NEW p \in 0 .. Len(T)
  PROVE  NoneAfter(T, p) \/ \E q \in 1 .. Len(T) : NextAt(T, p, q)
<1> SUFFICES ASSUME ~ NoneAfter(T, p)
             PROVE  \E q \in 1 .. Len(T) : NextAt(T, p, q)
  OBVIOUS
<1> DEFINE I == {i \in p + 1 .. Len(T) : T[i].kind # "newline"}
<1>1. I \in SUBSET Nat /\ I # {}
  BY DEF NoneAfter
<1>2. PICK q \in I : \A i \in I : q <= i
  BY <1>1, Least
<1>3. NextAt(T, p, q) /\ q \in 1 .. Len(T)
  BY <1>2 DEF NextAt
<1> QED
  BY <1>3

LEMMA EndExists ==
  ASSUME NEW T \in Seq(Token), NEW p \in 0 .. Len(T)
  PROVE  \E e \in 1 .. Len(T) + 1 : EndAt(T, p, e)
<1> DEFINE I == {i \in p + 1 .. Len(T) + 1 : i = Len(T) + 1 \/ T[i].kind = "newline"}
<1>1. I \in SUBSET Nat /\ Len(T) + 1 \in I
  OBVIOUS
<1>2. PICK e \in I : \A i \in I : e <= i
  BY <1>1, Least
<1>3. EndAt(T, p, e) /\ e \in 1 .. Len(T) + 1
  BY <1>2 DEF EndAt
<1> QED
  BY <1>3

\* The text behind a part of the text behind p.
LEMMA AfterAfter ==
  ASSUME NEW T \in Seq(Token), NEW p \in 0 .. Len(T), NEW k \in 0 .. Len(T) - p
  PROVE  After(After(T, p), k) = After(T, p + k)
<1> DEFINE R == After(T, p)
           x == After(R, k)
           y == After(T, p + k)
<1>1. Len(T) \in Nat /\ p + k \in 0 .. Len(T)
  OBVIOUS
<1>2. R \in Seq(Token) /\ Len(R) = Len(T) - p /\ \A i \in 1 .. Len(T) - p : R[i] = T[p + i]
  BY AfterTypes
<1> HIDE DEF R
<1>3. k \in 0 .. Len(R)
  BY <1>2
<1>4. x \in Seq(Token) /\ Len(x) = Len(R) - k /\ \A i \in 1 .. Len(R) - k : x[i] = R[k + i]
  BY <1>2, <1>3, AfterTypes
<1>5. y \in Seq(Token) /\ Len(y) = Len(T) - (p + k) /\ \A i \in 1 .. Len(T) - (p + k) : y[i] = T[p + k + i]
  <2> DEFINE pk == p + k
  <2>1. pk \in 0 .. Len(T)
    BY <1>1
  <2> HIDE DEF pk
  <2>2. After(T, pk) \in Seq(Token) /\ Len(After(T, pk)) = Len(T) - pk /\ \A i \in 1 .. Len(T) - pk : After(T, pk)[i] = T[pk + i]
    BY <2>1, AfterTypes
  <2> QED
    BY <2>2 DEF pk
<1> HIDE DEF x, y
<1>6. Len(x) = Len(y)
  BY <1>1, <1>2, <1>4, <1>5
<1>7. ASSUME NEW i \in 1 .. Len(x)
      PROVE  x[i] = y[i]
  <2>1. /\ i \in 1 .. Len(R) - k /\ k + i \in 1 .. Len(T) - p /\ i \in 1 .. Len(T) - (p + k)
        /\ p + (k + i) = p + k + i
    BY <1>1, <1>2, <1>4
  <2> QED
    BY <1>2, <1>4, <1>5, <2>1
<1>8. x = y
  BY <1>4, <1>5, <1>6, <1>7, SeqEqual
<1> QED
  BY <1>8 DEF x, y, R

\* What is skipped in front of the token at q, and what stands there.
LEMMA SkipsToNext ==
  ASSUME NEW T \in Seq(Token), NEW p \in 0 .. Len(T), NEW q \in 1 .. Len(T), NextAt(T, p, q)
  PROVE  /\ SkipSpace(After(T, p)) = After(T, q - 1) /\ After(T, q - 1) # <<>>
         /\ Head(After(T, q - 1)) = T[q] /\ Tail(After(T, q - 1)) = After(T, q)
<1> DEFINE R == After(T, p)
           k == q - p
<1>1. Len(T) \in Nat /\ k \in 1 .. Len(T) - p /\ p + k = q /\ k - 1 \in 0 .. Len(T) - p /\ p + (k - 1) = q - 1
      /\ q - 1 \in 0 .. Len(T)
  BY DEF NextAt
<1>2. R \in Seq(Token) /\ Len(R) = Len(T) - p /\ \A i \in 1 .. Len(T) - p : R[i] = T[p + i]
  BY AfterTypes
<1>3. R[k] = T[q]
  BY <1>1, <1>2
<1>4. ASSUME NEW i \in 1 .. k - 1
      PROVE  R[i].kind = "newline"
  <2>1. i \in 1 .. Len(T) - p /\ p + i \in p + 1 .. q - 1
    BY <1>1
  <2> QED
    BY <1>2, <2>1 DEF NextAt
<1>5. After(R, k - 1) = After(T, q - 1)
  <2>1. After(After(T, p), k - 1) = After(T, p + (k - 1))
    <3> DEFINE j == k - 1
    <3>1. j \in 0 .. Len(T) - p
      BY <1>1
    <3> HIDE DEF j
    <3>2. After(After(T, p), j) = After(T, p + j)
      BY <3>1, AfterAfter
    <3> QED
      BY <3>2 DEF j
  <2> QED
    BY <1>1, <2>1
<1>6. SkipSpace(R) = SubSeq(R, k, Len(R))
  <2>1. k \in 1 .. Len(R) /\ R[k].kind # "newline"
    BY <1>1, <1>2, <1>3 DEF NextAt
  <2> HIDE DEF R, k
  <2> QED
    BY <1>2, <1>4, <2>1, SkipsTo
<1>7. SubSeq(R, k, Len(R)) = After(R, k - 1)
  <2>1. k - 1 + 1 = k
    BY <1>1
  <2> QED
    BY <2>1, Zenon DEF After
<1>8. q - 1 + 1 = q
  BY <1>1
<1>9. Head(SubSeq(T, q, Len(T))) = T[q] /\ Tail(SubSeq(T, q, Len(T))) = SubSeq(T, q + 1, Len(T))
  BY HeadTailOfSubSeq
<1>10. After(T, q - 1) # <<>>
  <2>1. Len(After(T, q - 1)) = Len(T) - (q - 1)
    <3> DEFINE j == q - 1
    <3>1. j \in 0 .. Len(T)
      BY <1>1
    <3> HIDE DEF j
    <3>2. Len(After(T, j)) = Len(T) - j
      BY <3>1, AfterTypes
    <3> QED
      BY <3>2 DEF j
  <2>2. Len(After(T, q - 1)) # 0 /\ Len(<<>>) = 0
    BY <1>1, <2>1
  <2> QED
    BY <2>2, Zenon
<1>11. After(T, q - 1) = SubSeq(T, q, Len(T)) /\ After(T, q) = SubSeq(T, q + 1, Len(T))
  BY <1>8, Zenon DEF After
<1> QED
  BY <1>5, <1>6, <1>7, <1>9, <1>10, <1>11, Zenon

\* What the conversions take off the text behind p.
LEMMA NothingTaken ==
  ASSUME NEW T \in Seq(Token), NEW p \in 0 .. Len(T), NoneAfter(T, p), NEW kind \in {"word", "number"}
  PROVE  Conversion(kind, After(T, p)) = Fails(After(T, Len(T))) /\ SkipSpace(After(T, p)) = <<>>
<1> DEFINE R == After(T, p)
<1>1. R \in Seq(Token) /\ Len(R) = Len(T) - p /\ \A i \in 1 .. Len(T) - p : R[i] = T[p + i]
  BY AfterTypes
<1>2. ASSUME NEW i \in 1 .. Len(R)
      PROVE  R[i].kind = "newline"
  <2>1. i \in 1 .. Len(T) - p /\ p + i \in p + 1 .. Len(T)
    BY <1>1
  <2> QED
    BY <1>1, <2>1 DEF NoneAfter
<1> HIDE DEF R
<1>3. SkipSpace(R) = <<>>
  BY <1>1, <1>2, SkipsAll
<1>4. After(T, Len(T)) = <<>>
  BY DEF After
<1>5. Conversion(kind, R) = Fails(<<>>)
  BY <1>3 DEF Conversion
<1> QED
  BY <1>3, <1>4, <1>5 DEF R

LEMMA WordTaken ==
  ASSUME NEW T \in Seq(Token), NEW p \in 0 .. Len(T), NEW q \in 1 .. Len(T), NextAt(T, p, q)
  PROVE  Conversion("word", After(T, p)) = Takes(<<T[q]>>, After(T, q))
<1>1. /\ SkipSpace(After(T, p)) = After(T, q - 1) /\ After(T, q - 1) # <<>>
      /\ Head(After(T, q - 1)) = T[q] /\ Tail(After(T, q - 1)) = After(T, q)
  BY SkipsToNext
<1> QED
  BY <1>1 DEF Conversion

\* A size gives its number, and its unit is left.
LEMMA NumberTaken ==
  ASSUME NEW T \in Seq(Token), NEW p \in 0 .. Len(T), NEW q \in 1 .. Len(T), NextAt(T, p, q)
  PROVE  LET c == Conversion("number", After(T, p))
         IN /\ T[q].kind = "number" => c = Takes(<<T[q]>>, After(T, q))
            /\ T[q].kind = "size" => c = Takes(<<Amount(T[q])>>, <<Unit(T[q])>> \o After(T, q))
            /\ T[q].kind \notin {"number", "size"} => c = Fails(After(T, q)) \/ c = Fails(After(T, q - 1))
<1> DEFINE here == After(T, q - 1)
<1>1. /\ SkipSpace(After(T, p)) = here /\ here # <<>>
      /\ Head(here) = T[q] /\ Tail(here) = After(T, q)
  BY SkipsToNext
<1>2. Conversion("number", After(T, p)) = TakeNumber(here)
  BY <1>1 DEF Conversion
<1>3. T[q] \in Token
  OBVIOUS
<1> HIDE DEF here
<1>4. T[q].kind = "number" => TakeNumber(here) = Takes(<<T[q]>>, After(T, q))
  BY <1>1 DEF TakeNumber
<1>5. T[q].kind = "size" => TakeNumber(here) = Takes(<<Amount(T[q])>>, <<Unit(T[q])>> \o After(T, q))
  BY <1>1 DEF TakeNumber
<1>6. T[q].kind \notin {"number", "size"} => TakeNumber(here) = Fails(After(T, q)) \/ TakeNumber(here) = Fails(here)
  BY <1>1, <1>3 DEF TakeNumber, Token, Kind
<1> QED
  BY <1>2, <1>4, <1>5, <1>6 DEF here

LEMMA UnitTaken ==
  ASSUME NEW t \in Token, NEW R \in Seq(Token)
  PROVE  Conversion("word", <<Unit(t)>> \o R) = Takes(<<Unit(t)>>, R)
<1> DEFINE x == <<Unit(t)>> \o R
<1>1. Unit(t).kind # "newline" /\ Unit(t) \in Token
  BY DEF Unit, Word, Token, Kind
<1>2. x \in Seq(Token) /\ Len(x) = Len(R) + 1 /\ x[1] = Unit(t) /\ \A i \in 1 .. Len(R) : x[i + 1] = R[i]
  BY <1>1
<1> HIDE DEF x
<1>3. SkipSpace(x) = SubSeq(x, 1, Len(x))
  <2>1. 1 \in 1 .. Len(x) /\ x[1].kind # "newline"
    BY <1>1, <1>2
  <2>2. \A i \in 1 .. 1 - 1 : x[i].kind = "newline"
    OBVIOUS
  <2> QED
    BY <1>2, <2>1, <2>2, SkipsTo
<1>4. SubSeq(x, 1, Len(x)) = x
  BY <1>2, SubSeqFull
<1>5. x # <<>> /\ Head(x) = Unit(t)
  BY <1>2
<1>6. Tail(x) = R
  <2>1. Tail(x) \in Seq(Token) /\ Len(Tail(x)) = Len(R) /\ \A i \in 1 .. Len(R) : Tail(x)[i] = x[i + 1]
    BY <1>2, <1>5
  <2> QED
    BY <1>2, <2>1, SeqEqual
<1> QED
  BY <1>3, <1>4, <1>5, <1>6 DEF Conversion, x

\* The rest of the line the token behind p is on.
LEMMA RestTaken ==
  ASSUME NEW T \in Seq(Token), NEW p \in 0 .. Len(T), NEW e \in 1 .. Len(T) + 1, EndAt(T, p, e)
  PROVE  LET c == Conversion("rest", After(T, p))
         IN /\ e = p + 1 => c = Fails(After(T, e - 1))
            /\ e > p + 1 => c = Takes(SubSeq(T, p + 1, e - 1), After(T, e - 1))
<1> DEFINE R == After(T, p)
           U == R \o <<Newline>>
           k == e - p
           I == {i \in 1 .. Len(U) : U[i].kind = "newline"}
<1>1. Len(T) \in Nat /\ k \in 1 .. Len(T) - p + 1 /\ p + k = e
  BY DEF EndAt
<1>2. R \in Seq(Token) /\ Len(R) = Len(T) - p /\ \A i \in 1 .. Len(T) - p : R[i] = T[p + i]
  BY AfterTypes
<1> HIDE DEF R
<1>3. Newline.kind = "newline"
  BY DEF Newline
<1>4. /\ Len(U) = Len(R) + 1 /\ U[Len(R) + 1] = Newline
      /\ \A i \in 1 .. Len(R) : U[i] = R[i]
  <2>1. <<Newline>> \in Seq(Token) /\ Len(<<Newline>>) = 1 /\ <<Newline>>[1] = Newline
    BY TokensAre
  <2> QED
    BY <1>2, <2>1
<1> HIDE DEF U
<1>5. k \in 1 .. Len(U) /\ U[k].kind = "newline"
  <2>1. CASE k = Len(R) + 1
    BY <1>1, <1>2, <1>3, <1>4, <2>1
  <2>2. CASE k # Len(R) + 1
    <3>1. k \in 1 .. Len(R) /\ e <= Len(T) /\ k \in 1 .. Len(T) - p
      BY <1>1, <1>2, <2>2
    <3>2. U[k] = T[e]
      BY <1>1, <1>2, <1>4, <3>1
    <3> QED
      BY <1>1, <1>2, <1>4, <3>1, <3>2 DEF EndAt
  <2> QED
    BY <2>1, <2>2
<1>6. ASSUME NEW i \in 1 .. k - 1
      PROVE  U[i].kind # "newline"
  <2>1. i \in 1 .. Len(R) /\ i \in 1 .. Len(T) - p /\ p + i \in p + 1 .. e - 1
    BY <1>1, <1>2
  <2> QED
    BY <1>2, <1>4, <2>1 DEF EndAt
<1>7. Min(I) = k
  <2>1. k \in I /\ \A i \in I : k <= i
    BY <1>1, <1>4, <1>5, <1>6
  <2>2. \A x, y \in I : x <= y /\ y <= x => x = y
    BY <1>2, <1>4
  <2> HIDE DEF I
  <2> QED
    BY <2>1, <2>2 DEF Min
<1>8. LineLength(R) = k - 1
  BY <1>5, <1>7 DEF LineLength, SelectInSeq, U
<1>9. Conversion("rest", R) = TakeLine(R)
  BY DEF Conversion
<1>10. k = 1 => TakeLine(R) = Fails(R)
  BY <1>8 DEF TakeLine
<1>11. k > 1 => TakeLine(R) = Takes(SubSeq(R, 1, k - 1), After(R, k - 1))
  <2>1. k - 1 + 1 = k
    BY <1>1
  <2> QED
    BY <1>1, <1>8 DEF TakeLine, After
<1>12. After(R, k - 1) = After(T, e - 1)
  <2> DEFINE j == k - 1
  <2>1. j \in 0 .. Len(T) - p /\ p + j = e - 1
    BY <1>1
  <2> HIDE DEF j
  <2>2. After(After(T, p), j) = After(T, p + j)
    BY <2>1, AfterAfter
  <2> QED
    BY <2>1, <2>2 DEF j, R
<1>13. SubSeq(R, 1, k - 1) = SubSeq(T, p + 1, e - 1)
  <2> DEFINE x == SubSeq(R, 1, k - 1)
             y == SubSeq(T, p + 1, e - 1)
  <2>1. x \in Seq(Token) /\ Len(x) = k - 1 /\ \A i \in 1 .. k - 1 : x[i] = R[i]
    BY <1>1, <1>2
  <2>2. y \in Seq(Token) /\ Len(y) = k - 1 /\ \A i \in 1 .. k - 1 : y[i] = T[p + i]
    <3>1. p + 1 \in 1 .. Len(T) + 1 /\ e - 1 \in p .. Len(T) /\ e - 1 - (p + 1) + 1 = k - 1
      BY <1>1
    <3>2. y \in Seq(Token)
      BY <3>1
    <3>3. Len(y) = k - 1
      BY <1>1, <3>1
    <3>4. \A i \in 1 .. k - 1 : y[i] = T[p + 1 + i - 1] /\ p + 1 + i - 1 = p + i
      BY <1>1, <3>1
    <3> QED
      BY <3>2, <3>3, <3>4
  <2>3. \A i \in 1 .. k - 1 : i \in 1 .. Len(T) - p
    BY <1>1
  <2> HIDE DEF x, y, k
  <2>4. x = y
    BY <1>2, <2>1, <2>2, <2>3, SeqEqual
  <2> QED
    BY <2>4 DEF x, y
<1>14. k = 1 => After(T, e - 1) = R
  BY <1>1 DEF R
<1>15. (e = p + 1 <=> k = 1) /\ (e > p + 1 <=> k > 1)
  BY <1>1
<1> HIDE DEF k
<1> QED
  BY <1>9, <1>10, <1>11, <1>12, <1>13, <1>14, <1>15 DEF R

\* What an item leaves.
LEMMA ItemTaken ==
  ASSUME NEW d, d.going, NEW kind, NEW tokens, NEW rest, Conversion(kind, d.rest) = Takes(tokens, rest)
  PROVE  LET n == ScanItem(d, Store(kind))
         IN n.going /\ n.stored = Append(d.stored, tokens) /\ n.rest = rest /\ ~ n.eof
<1> DEFINE c == Conversion(kind, d.rest)
           item == Store(kind)
<1>1. c.ok = TRUE /\ c.tokens = tokens /\ c.rest = rest
  BY DEF Takes
<1>2. item.kind = kind /\ item.stored = TRUE
  BY DEF Store
<1> HIDE DEF c, item
<1> DEFINE stored == IF c.ok /\ item.stored THEN Append(d.stored, c.tokens) ELSE d.stored
           eof == d.eof /\ ~ c.ok /\ SkipSpace(d.rest) = <<>>
<1>3. ScanItem(d, item) = [going |-> c.ok, stored |-> stored, rest |-> c.rest, eof |-> eof]
  BY <1>2 DEF ScanItem, c
<1> HIDE DEF stored, eof
<1>4. /\ ScanItem(d, item).going = c.ok /\ ScanItem(d, item).rest = c.rest
      /\ ScanItem(d, item).stored = stored /\ ScanItem(d, item).eof = eof
  BY <1>3
<1> QED
  BY <1>1, <1>2, <1>4, Zenon DEF item, stored, eof

LEMMA ItemFails ==
  ASSUME NEW d, d.going, NEW kind, NEW rest, Conversion(kind, d.rest) = Fails(rest)
  PROVE  LET n == ScanItem(d, Store(kind))
         IN /\ ~ n.going /\ n.stored = d.stored /\ n.rest = rest
            /\ ~ d.eof => ~ n.eof
            /\ d.eof /\ SkipSpace(d.rest) = <<>> => n.eof
<1> DEFINE c == Conversion(kind, d.rest)
           item == Store(kind)
<1>1. c.ok = FALSE /\ c.rest = rest
  BY DEF Fails
<1>2. item.kind = kind /\ item.stored = TRUE
  BY DEF Store
<1> HIDE DEF c, item
<1> DEFINE stored == IF c.ok /\ item.stored THEN Append(d.stored, c.tokens) ELSE d.stored
           eof == d.eof /\ ~ c.ok /\ SkipSpace(d.rest) = <<>>
<1>3. ScanItem(d, item) = [going |-> c.ok, stored |-> stored, rest |-> c.rest, eof |-> eof]
  BY <1>2 DEF ScanItem, c
<1> HIDE DEF stored, eof
<1>4. /\ ScanItem(d, item).going = c.ok /\ ScanItem(d, item).rest = c.rest
      /\ ScanItem(d, item).stored = stored /\ ScanItem(d, item).eof = eof
  BY <1>3
<1> QED
  BY <1>1, <1>2, <1>4, Zenon DEF item, stored, eof

LEMMA ItemSkipped ==
  ASSUME NEW d, ~ d.going, NEW item
  PROVE  ScanItem(d, item) = d
BY DEF ScanItem

\* The four items of a row.
RowSteps(T, d1, d2, d3, d4) ==
  /\ d1 = ScanItem(Begun(T), Store("word")) /\ d2 = ScanItem(d1, Store("number"))
  /\ d3 = ScanItem(d2, Store("word")) /\ d4 = ScanItem(d3, Store("rest"))
  /\ sscanf(T, RowFormat) = d4

LEMMA RowStepsExist ==
  ASSUME NEW T \in Seq(Token)
  PROVE  \E d1, d2, d3, d4 : RowSteps(T, d1, d2, d3, d4)
<1>1. RowFormat \in Seq(Item)
  BY TooltipFormats
<1>2. PICK g : Steps(g, T, RowFormat) /\ sscanf(T, RowFormat) = g[Len(RowFormat)]
  BY <1>1, ScanSteps
<1>3. /\ Len(RowFormat) = 4 /\ RowFormat[1] = Store("word") /\ RowFormat[2] = Store("number")
      /\ RowFormat[3] = Store("word") /\ RowFormat[4] = Store("rest")
  BY DEF RowFormat
<1>4. g[0] = Begun(T) /\ \A k \in 1 .. 4 : g[k] = ScanItem(g[k - 1], RowFormat[k])
  BY <1>2, <1>3 DEF Steps
<1>5. /\ g[1] = ScanItem(g[0], RowFormat[1]) /\ g[2] = ScanItem(g[1], RowFormat[2])
      /\ g[3] = ScanItem(g[2], RowFormat[3]) /\ g[4] = ScanItem(g[3], RowFormat[4])
  <2>1. 1 - 1 = 0 /\ 2 - 1 = 1 /\ 3 - 1 = 2 /\ 4 - 1 = 3
    OBVIOUS
  <2>2. 1 \in 1 .. 4 /\ 2 \in 1 .. 4 /\ 3 \in 1 .. 4 /\ 4 \in 1 .. 4
    OBVIOUS
  <2> QED
    BY <1>4, <2>1, <2>2
<1>6. RowSteps(T, g[1], g[2], g[3], g[4])
  BY <1>2, <1>3, <1>4, <1>5, Zenon DEF RowSteps
<1> QED
  BY <1>6

\* Where a scan that took the token at a for its first word stops: behind the rest of
\* the line on which it found its second word, or at a number that is none.
StopsAt(T, x, q) == \E e \in 1 .. Len(T) + 1 : EndAt(T, x, e) /\ q = e - 1
RowEnds(T, a, q) ==
  \/ NoneAfter(T, a) /\ q = Len(T)
  \/ \E b \in 1 .. Len(T) :
       /\ NextAt(T, a, b)
       /\ \/ T[b].kind = "number" /\ NoneAfter(T, b) /\ q = Len(T)
          \/ T[b].kind = "number" /\ \E c \in 1 .. Len(T) : NextAt(T, b, c) /\ StopsAt(T, c, q)
          \/ T[b].kind = "size" /\ StopsAt(T, b, q)
          \/ T[b].kind \notin {"number", "size"} /\ q \in {b - 1, b}

\* The last item, when the others were taken.
LEMMA LastItem ==
  ASSUME NEW T \in Seq(Token), NEW x \in 0 .. Len(T), NEW d, d.going, ~ d.eof, d.rest = After(T, x)
  PROVE  LET n == ScanItem(d, Store("rest"))
         IN ~ n.eof /\ \E q \in 0 .. Len(T) : n.rest = After(T, q) /\ StopsAt(T, x, q)
<1> DEFINE n == ScanItem(d, Store("rest"))
<1>1. PICK e \in 1 .. Len(T) + 1 : EndAt(T, x, e)
  BY EndExists
<1>2. e - 1 \in 0 .. Len(T) /\ (e = x + 1 \/ e > x + 1) /\ StopsAt(T, x, e - 1)
  BY <1>1 DEF EndAt, StopsAt
<1>3. /\ e = x + 1 => Conversion("rest", d.rest) = Fails(After(T, e - 1))
      /\ e > x + 1 => Conversion("rest", d.rest) = Takes(SubSeq(T, x + 1, e - 1), After(T, e - 1))
  BY <1>1, RestTaken
<1>4. CASE e = x + 1
  BY <1>2, <1>3, <1>4, ItemFails
<1>5. CASE e > x + 1
  BY <1>2, <1>3, <1>5, ItemTaken
<1> QED
  BY <1>2, <1>4, <1>5

\* A scan that finds nothing but line ends is at the end of the text.
LEMMA RowOfNothing ==
  ASSUME NEW T \in Seq(Token), NEW p \in 0 .. Len(T), NoneAfter(T, p)
  PROVE  sscanf(After(T, p), RowFormat).eof
<1>1. After(T, p) \in Seq(Token)
  BY AfterTypes
<1>2. PICK d1, d2, d3, d4 : RowSteps(After(T, p), d1, d2, d3, d4)
  BY <1>1, RowStepsExist
<1> DEFINE d0 == Begun(After(T, p))
<1>3. d0.going /\ d0.eof /\ d0.rest = After(T, p)
  BY DEF Begun
<1>4. Conversion("word", After(T, p)) = Fails(After(T, Len(T))) /\ SkipSpace(After(T, p)) = <<>>
  BY NothingTaken
<1> HIDE DEF d0
<1>5. ~ d1.going /\ d1.eof
  BY <1>2, <1>3, <1>4, ItemFails DEF RowSteps, d0
<1>6. d2 = d1 /\ d3 = d1 /\ d4 = d1
  BY <1>2, <1>5, ItemSkipped DEF RowSteps
<1> QED
  BY <1>2, <1>5, <1>6 DEF RowSteps

\* A scan that finds a word is not at the end, and stops where RowEnds says.
LEMMA RowOfWord ==
  ASSUME NEW T \in Seq(Token), NEW p \in 0 .. Len(T), NEW a \in 1 .. Len(T), NextAt(T, p, a)
  PROVE  LET scan == sscanf(After(T, p), RowFormat)
         IN ~ scan.eof /\ \E q \in 0 .. Len(T) : scan.rest = After(T, q) /\ RowEnds(T, a, q)
<1>1. After(T, p) \in Seq(Token) /\ Len(T) \in 0 .. Len(T)
  BY AfterTypes
<1>2. PICK d1, d2, d3, d4 : RowSteps(After(T, p), d1, d2, d3, d4)
  BY <1>1, RowStepsExist
<1>3. d1.going /\ ~ d1.eof /\ d1.rest = After(T, a)
  <2>1. Begun(After(T, p)).going /\ Begun(After(T, p)).rest = After(T, p)
    BY DEF Begun
  <2>2. Conversion("word", After(T, p)) = Takes(<<T[a]>>, After(T, a))
    BY WordTaken
  <2> QED
    BY <1>2, <2>1, <2>2, ItemTaken DEF RowSteps
<1>4. ASSUME NEW q \in 0 .. Len(T), ~ d4.eof, d4.rest = After(T, q), RowEnds(T, a, q)
      PROVE  LET scan == sscanf(After(T, p), RowFormat)
             IN ~ scan.eof /\ \E r \in 0 .. Len(T) : scan.rest = After(T, r) /\ RowEnds(T, a, r)
  BY <1>2, <1>4, Zenon DEF RowSteps
<1>5. CASE NoneAfter(T, a)
  <2>1. Conversion("number", After(T, a)) = Fails(After(T, Len(T)))
    <3>1. a \in 0 .. Len(T)
      OBVIOUS
    <3> QED
      BY <1>5, <3>1, NothingTaken
  <2>2. ~ d2.going /\ ~ d2.eof /\ d2.rest = After(T, Len(T))
    BY <1>2, <1>3, <2>1, ItemFails DEF RowSteps
  <2>3. d4 = d2
    BY <1>2, <2>2, ItemSkipped, Zenon DEF RowSteps
  <2>4. RowEnds(T, a, Len(T))
    BY <1>5 DEF RowEnds
  <2> QED
    BY <1>1, <1>4, <2>2, <2>3, <2>4, Zenon
<1>6. ASSUME NEW b \in 1 .. Len(T), NextAt(T, a, b)
      PROVE  LET scan == sscanf(After(T, p), RowFormat)
             IN ~ scan.eof /\ \E q \in 0 .. Len(T) : scan.rest = After(T, q) /\ RowEnds(T, a, q)
  <2>0. a \in 0 .. Len(T) /\ b \in 0 .. Len(T) /\ b - 1 \in 0 .. Len(T) /\ T[b] \in Token
    OBVIOUS
  <2>1. /\ T[b].kind = "number" => Conversion("number", After(T, a)) = Takes(<<T[b]>>, After(T, b))
        /\ T[b].kind = "size" =>
             Conversion("number", After(T, a)) = Takes(<<Amount(T[b])>>, <<Unit(T[b])>> \o After(T, b))
        /\ T[b].kind \notin {"number", "size"} =>
             \/ Conversion("number", After(T, a)) = Fails(After(T, b))
             \/ Conversion("number", After(T, a)) = Fails(After(T, b - 1))
    BY <1>6, <2>0, NumberTaken
  <2>2. CASE T[b].kind = "number"
    <3>1. d2.going /\ ~ d2.eof /\ d2.rest = After(T, b)
      BY <1>2, <1>3, <2>1, <2>2, ItemTaken DEF RowSteps
    <3>2. CASE NoneAfter(T, b)
      <4>1. Conversion("word", After(T, b)) = Fails(After(T, Len(T)))
        BY <2>0, <3>2, NothingTaken
      <4>2. ~ d3.going /\ ~ d3.eof /\ d3.rest = After(T, Len(T))
        BY <1>2, <3>1, <4>1, ItemFails DEF RowSteps
      <4>3. d4 = d3
        BY <1>2, <4>2, ItemSkipped, Zenon DEF RowSteps
      <4>4. RowEnds(T, a, Len(T))
        BY <1>6, <2>2, <3>2, Zenon DEF RowEnds
      <4> QED
        BY <1>1, <1>4, <4>2, <4>3, <4>4, Zenon
    <3>3. ASSUME NEW c \in 1 .. Len(T), NextAt(T, b, c)
          PROVE  LET scan == sscanf(After(T, p), RowFormat)
                 IN ~ scan.eof /\ \E q \in 0 .. Len(T) : scan.rest = After(T, q) /\ RowEnds(T, a, q)
      <4>1. Conversion("word", After(T, b)) = Takes(<<T[c]>>, After(T, c))
        BY <2>0, <3>3, WordTaken
      <4>2. d3.going /\ ~ d3.eof /\ d3.rest = After(T, c)
        BY <1>2, <3>1, <4>1, ItemTaken DEF RowSteps
      <4>3. c \in 0 .. Len(T) /\ d4 = ScanItem(d3, Store("rest"))
        BY <1>2 DEF RowSteps
      <4>4. PICK q \in 0 .. Len(T) : ~ d4.eof /\ d4.rest = After(T, q) /\ StopsAt(T, c, q)
        BY <4>2, <4>3, LastItem
      <4>5. RowEnds(T, a, q)
        BY <1>6, <2>2, <3>3, <4>4, Zenon DEF RowEnds
      <4> QED
        BY <1>4, <4>4, <4>5, Zenon
    <3> QED
      BY <2>0, <3>2, <3>3, NextOrNone
  <2>3. CASE T[b].kind = "size"
    <3>1. d2.going /\ ~ d2.eof /\ d2.rest = <<Unit(T[b])>> \o After(T, b)
      <4> DEFINE unit == <<Unit(T[b])>> \o After(T, b)
                 amount == <<Amount(T[b])>>
      <4>1. Conversion("number", d1.rest) = Takes(amount, unit)
        BY <1>3, <2>1, <2>3, Zenon
      <4>2. d2 = ScanItem(d1, Store("number"))
        BY <1>2 DEF RowSteps
      <4> HIDE DEF unit, amount
      <4>3. d2.going /\ ~ d2.eof /\ d2.rest = unit
        BY <1>3, <4>1, <4>2, ItemTaken
      <4> QED
        BY <4>3 DEF unit
    <3>2. Conversion("word", d2.rest) = Takes(<<Unit(T[b])>>, After(T, b))
      <4>1. After(T, b) \in Seq(Token)
        BY <2>0, AfterTypes
      <4> QED
        BY <2>0, <3>1, <4>1, UnitTaken, Zenon
    <3>3. d3.going /\ ~ d3.eof /\ d3.rest = After(T, b)
      BY <1>2, <3>1, <3>2, ItemTaken DEF RowSteps
    <3>4. d4 = ScanItem(d3, Store("rest"))
      BY <1>2 DEF RowSteps
    <3>5. PICK q \in 0 .. Len(T) : ~ d4.eof /\ d4.rest = After(T, q) /\ StopsAt(T, b, q)
      BY <2>0, <3>3, <3>4, LastItem
    <3>6. RowEnds(T, a, q)
      BY <1>6, <2>3, <3>5, Zenon DEF RowEnds
    <3> QED
      BY <1>4, <3>5, <3>6, Zenon
  <2>4. CASE T[b].kind \notin {"number", "size"}
    <3>1. PICK q \in {b - 1, b} : Conversion("number", After(T, a)) = Fails(After(T, q))
      BY <2>1, <2>4
    <3>2. ~ d2.going /\ ~ d2.eof /\ d2.rest = After(T, q)
      BY <1>2, <1>3, <3>1, ItemFails DEF RowSteps
    <3>3. d4 = d2
      BY <1>2, <3>2, ItemSkipped, Zenon DEF RowSteps
    <3>4. q \in 0 .. Len(T) /\ RowEnds(T, a, q)
      BY <1>6, <2>0, <2>4, <3>1, Zenon DEF RowEnds
    <3> QED
      BY <1>4, <3>2, <3>3, <3>4, Zenon
  <2> QED
    BY <2>2, <2>3, <2>4
<1> QED
  BY <1>5, <1>6, NextOrNone

LEMMA FourAppended ==
  ASSUME NEW S, NEW x \in S, NEW y \in S, NEW z \in S, NEW w \in S,
         NEW s1, s1 = Append(<<>>, x), NEW s2, s2 = Append(s1, y),
         NEW s3, s3 = Append(s2, z), NEW s4, s4 = Append(s3, w)
  PROVE  Len(s4) = 4 /\ s4[1] = x /\ s4[2] = y /\ s4[3] = z /\ s4[4] = w
<1>1. s1 \in Seq(S) /\ Len(s1) = 1 /\ s1[1] = x
  OBVIOUS
<1>2. s2 \in Seq(S) /\ Len(s2) = 2 /\ s2[1] = x /\ s2[2] = y
  BY <1>1
<1>3. s3 \in Seq(S) /\ Len(s3) = 3 /\ s3[1] = x /\ s3[2] = y /\ s3[3] = z
  BY <1>2
<1> QED
  BY <1>3

\* A scan that begins in front of a whole line stores it.
LEMMA RowOfLine ==
  ASSUME NEW T \in Seq(Token), NEW p \in 0 .. Len(T), NEW a \in 1 .. Len(T), NextAt(T, p, a),
         NEW e \in 1 .. Len(T), a + 3 < e, T[e].kind = "newline",
         \A i \in a .. e - 1 : T[i].kind # "newline", T[a + 1].kind = "number"
  PROVE  LET stored == sscanf(After(T, p), RowFormat).stored
         IN /\ Len(stored) = 4
            /\ stored[1] = <<T[a]>> /\ stored[2] = <<T[a + 1]>> /\ stored[3] = <<T[a + 2]>>
            /\ stored[4] = SubSeq(T, a + 3, e - 1)
<1>1. After(T, p) \in Seq(Token)
  BY AfterTypes
<1>2. PICK d1, d2, d3, d4 : RowSteps(After(T, p), d1, d2, d3, d4)
  BY <1>1, RowStepsExist
<1> DEFINE b == a + 1
           c == a + 2
           m == SubSeq(T, c + 1, e - 1)
<1>3. /\ b \in 1 .. Len(T) /\ c \in 1 .. Len(T) /\ c \in 0 .. Len(T) /\ b \in 0 .. Len(T) /\ a \in 0 .. Len(T)
      /\ e \in 1 .. Len(T) + 1 /\ e > c + 1 /\ c + 1 = a + 3
  OBVIOUS
<1>4. NextAt(T, a, b) /\ NextAt(T, b, c) /\ EndAt(T, c, e) /\ T[b].kind = "number"
  BY DEF NextAt, EndAt
<1>5. m \in Seq(Token)
  BY <1>3
<1>6. T[a] \in Token /\ T[b] \in Token /\ T[c] \in Token
  BY <1>3
<1> HIDE DEF b, c, m
<1>7. d1.going /\ d1.rest = After(T, a) /\ d1.stored = Append(<<>>, <<T[a]>>)
  <2>1. Begun(After(T, p)).going /\ Begun(After(T, p)).rest = After(T, p) /\ Begun(After(T, p)).stored = <<>>
    BY DEF Begun
  <2>2. Conversion("word", After(T, p)) = Takes(<<T[a]>>, After(T, a))
    BY WordTaken
  <2> QED
    BY <1>2, <2>1, <2>2, ItemTaken DEF RowSteps
<1>8. d2.going /\ d2.rest = After(T, b) /\ d2.stored = Append(d1.stored, <<T[b]>>)
  <2>1. Conversion("number", After(T, a)) = Takes(<<T[b]>>, After(T, b))
    BY <1>3, <1>4, NumberTaken
  <2> QED
    BY <1>2, <1>7, <2>1, ItemTaken DEF RowSteps
<1>9. d3.going /\ d3.rest = After(T, c) /\ d3.stored = Append(d2.stored, <<T[c]>>)
  <2>1. Conversion("word", After(T, b)) = Takes(<<T[c]>>, After(T, c))
    BY <1>3, <1>4, WordTaken
  <2> QED
    BY <1>2, <1>8, <2>1, ItemTaken DEF RowSteps
<1>10. d4.stored = Append(d3.stored, m)
  <2>1. Conversion("rest", After(T, c)) = Takes(m, After(T, e - 1))
    BY <1>3, <1>4, RestTaken DEF m
  <2> QED
    BY <1>2, <1>9, <2>1, ItemTaken DEF RowSteps
<1>11. /\ Len(d4.stored) = 4 /\ d4.stored[1] = <<T[a]>> /\ d4.stored[2] = <<T[b]>>
       /\ d4.stored[3] = <<T[c]>> /\ d4.stored[4] = m
  <2> DEFINE x == <<T[a]>>
             y == <<T[b]>>
             z == <<T[c]>>
  <2>1. x \in Seq(Token) /\ y \in Seq(Token) /\ z \in Seq(Token) /\ m \in Seq(Token)
    BY <1>5, <1>6
  <2>2. /\ d1.stored = Append(<<>>, x) /\ d2.stored = Append(d1.stored, y) /\ d3.stored = Append(d2.stored, z)
        /\ d4.stored = Append(d3.stored, m)
    BY <1>7, <1>8, <1>9, <1>10
  <2> HIDE DEF x, y, z
  <2>3. Len(d4.stored) = 4 /\ d4.stored[1] = x /\ d4.stored[2] = y /\ d4.stored[3] = z /\ d4.stored[4] = m
    BY <2>1, <2>2, FourAppended
  <2> QED
    BY <2>3 DEF x, y, z
<1>12. sscanf(After(T, p), RowFormat) = d4
  BY <1>2 DEF RowSteps
<1> QED
  BY <1>3, <1>11, <1>12 DEF b, c, m

\* Where a scan stops, it has taken its first word.
LEMMA RowGoesOn ==
  ASSUME NEW T \in Seq(Token), NEW a \in 1 .. Len(T), NEW q \in 0 .. Len(T), RowEnds(T, a, q)
  PROVE  q >= a
<1>1. ASSUME NEW x \in 1 .. Len(T), x >= a, StopsAt(T, x, q)
      PROVE  q >= a
  BY <1>1 DEF StopsAt, EndAt
<1>2. ASSUME NEW b \in 1 .. Len(T), NEW x \in 1 .. Len(T), NextAt(T, x, b)
      PROVE  b > x
  BY <1>2 DEF NextAt
<1>3. CASE NoneAfter(T, a) /\ q = Len(T)
  BY <1>3
<1>4. ASSUME NEW b \in 1 .. Len(T), NextAt(T, a, b),
             \/ NoneAfter(T, b) /\ q = Len(T)
             \/ \E c \in 1 .. Len(T) : NextAt(T, b, c) /\ StopsAt(T, c, q)
             \/ StopsAt(T, b, q)
             \/ q \in {b - 1, b}
      PROVE  q >= a
  <2>1. b > a
    BY <1>2, <1>4
  <2>2. CASE q = Len(T) \/ q \in {b - 1, b}
    BY <2>1, <2>2
  <2>3. CASE StopsAt(T, b, q)
    BY <1>1, <2>1, <2>3
  <2>4. ASSUME NEW c \in 1 .. Len(T), NextAt(T, b, c), StopsAt(T, c, q)
        PROVE  q >= a
    BY <1>1, <1>2, <2>1, <2>4
  <2> QED
    BY <1>4, <2>2, <2>3, <2>4
<1> QED
  BY <1>3, <1>4 DEF RowEnds

\* A whole line ends every scan that reaches it from in front: it stops in front of the
\* line or at the line's end.
LEMMA RowCrosses ==
  ASSUME output \in Seq(Token), NEW s \in 0 .. Len(output), NEW e \in 0 .. Len(output), WholeLine(s, e),
         NEW p \in 0 .. s, NEW a \in 1 .. Len(output), NextAt(output, p, a),
         NEW q \in 0 .. Len(output), RowEnds(output, a, q)
  PROVE  q <= s \/ q = e - 1
<1> DEFINE T == output
<1>1. /\ s > 0 => T[s].kind = "newline"
      /\ s + 4 < e /\ T[e].kind = "newline" /\ \A i \in s + 1 .. e - 1 : T[i].kind # "newline"
      /\ T[s + 1].kind \in {"size", "number"} /\ T[s + 2].kind = "number"
  BY DEF WholeLine, OutputLine
<1>2. Len(T) \in Nat
  OBVIOUS
<1> HIDE DEF T
<1>3. ASSUME NEW x \in 0 .. e - 2, NoneAfter(T, x)
      PROVE  FALSE
  <2>1. e - 1 \in x + 1 .. Len(T) /\ e - 1 \in s + 1 .. e - 1
    BY <1>1, <1>2 DEF T
  <2> QED
    BY <1>1, <1>3, <2>1 DEF NoneAfter
<1>4. ASSUME NEW x \in 0 .. s, NEW b \in 1 .. Len(T), NextAt(T, x, b)
      PROVE  b = s + 1 \/ b < s
  <2>1. b <= s + 1
    <3>1. s + 1 \in s + 1 .. e - 1
      BY <1>1
    <3> QED
      BY <1>1, <1>4, <3>1 DEF NextAt
  <2>2. b # s
    BY <1>1, <1>4 DEF NextAt
  <2> QED
    BY <2>1, <2>2
<1>5. ASSUME NEW x \in s + 1 .. e - 2, NEW b \in 1 .. Len(T), NextAt(T, x, b)
      PROVE  b = x + 1
  <2>1. x + 1 \in s + 1 .. e - 1
    OBVIOUS
  <2>2. T[x + 1].kind # "newline"
    BY <1>1, <2>1
  <2>3. x + 1 \notin x + 1 .. b - 1 /\ b \in x + 1 .. Len(T)
    BY <1>5, <2>2 DEF NextAt
  <2> QED
    BY <2>3
<1>6. ASSUME NEW x \in 1 .. s, x < s, StopsAt(T, x, q)
      PROVE  q <= s
  <2>1. PICK d \in 1 .. Len(T) + 1 : EndAt(T, x, d) /\ q = d - 1
    BY <1>6 DEF StopsAt
  <2>2. s \notin x + 1 .. d - 1
    BY <1>1, <1>6, <2>1 DEF EndAt
  <2> QED
    BY <1>6, <2>1, <2>2
<1>7. ASSUME NEW x \in s + 1 .. e - 1, StopsAt(T, x, q)
      PROVE  q = e - 1
  <2>1. PICK d \in 1 .. Len(T) + 1 : EndAt(T, x, d) /\ q = d - 1
    BY <1>7 DEF StopsAt
  <2>2. e \notin x + 1 .. d - 1 /\ d >= x + 1
    BY <1>1, <2>1 DEF EndAt
  <2>3. d \notin s + 1 .. e - 1
    <3>1. d \in s + 1 .. e - 1 => d <= Len(T)
      BY <1>2 DEF T
    <3> QED
      BY <1>1, <2>1, <3>1 DEF EndAt
  <2> QED
    BY <2>1, <2>2, <2>3
<1>8. RowEnds(T, a, q) /\ NextAt(T, p, a) /\ a \in 1 .. Len(T) /\ q \in 0 .. Len(T)
  BY DEF T
<1>9. CASE a = s + 1
  <2>1. ~ NoneAfter(T, a) /\ ~ NoneAfter(T, s + 2)
    BY <1>1, <1>3, <1>9
  <2>2. \A b \in 1 .. Len(T) : NextAt(T, a, b) => b = s + 2
    BY <1>1, <1>5, <1>9
  <2>3. \A c \in 1 .. Len(T) : NextAt(T, s + 2, c) => c = s + 3
    BY <1>1, <1>5
  <2>4. StopsAt(T, s + 3, q)
    BY <1>1, <1>8, <2>1, <2>2, <2>3 DEF RowEnds
  <2> QED
    BY <1>1, <1>7, <2>4
<1>10. CASE a < s
  <2>1. ~ NoneAfter(T, a)
    BY <1>1, <1>3, <1>10
  <2>2. PICK b \in 1 .. Len(T) :
          /\ NextAt(T, a, b)
          /\ \/ T[b].kind = "number" /\ NoneAfter(T, b) /\ q = Len(T)
             \/ T[b].kind = "number" /\ \E c \in 1 .. Len(T) : NextAt(T, b, c) /\ StopsAt(T, c, q)
             \/ T[b].kind = "size" /\ StopsAt(T, b, q)
             \/ T[b].kind \notin {"number", "size"} /\ q \in {b - 1, b}
    BY <1>8, <2>1 DEF RowEnds
  <2>3. b = s + 1 \/ b < s
    BY <1>4, <1>10, <2>2
  <2>4. ~ NoneAfter(T, b)
    BY <1>1, <1>3, <2>3
  <2>5. CASE StopsAt(T, b, q)
    BY <1>1, <1>6, <1>7, <2>3, <2>5
  <2>6. ASSUME NEW c \in 1 .. Len(T), NextAt(T, b, c), StopsAt(T, c, q)
        PROVE  q <= s \/ q = e - 1
    <3>1. CASE b = s + 1
      <4>1. c = s + 2
        BY <1>1, <1>5, <2>6, <3>1
      <4> QED
        BY <1>1, <1>7, <2>6, <4>1
    <3>2. CASE b < s
      <4>1. c = s + 1 \/ c < s
        BY <1>4, <2>6, <3>2
      <4> QED
        BY <1>1, <1>6, <1>7, <2>6, <4>1
    <3> QED
      BY <2>3, <3>1, <3>2
  <2>7. CASE T[b].kind \notin {"number", "size"} /\ q \in {b - 1, b}
    <3>1. b # s + 1
      BY <1>1, <2>7
    <3> QED
      BY <2>3, <2>7, <3>1
  <2> QED
    BY <2>2, <2>4, <2>5, <2>6, <2>7
<1> QED
  BY <1>4, <1>8, <1>9, <1>10

-----------------------------------------------------------------------------
(* The rows, turn by turn.                                                 *)

\* The tokens in front of p were read, and of the whole lines none in part: those
\* among them that are to be rows are.
RowShown(s, e) == \E k \in 1 .. Len(rows) : rows[k] = OwnRow(s, e)
RowsRead(p) ==
  /\ pipe = After(output, p)
  /\ \A s, e \in 0 .. Len(output) :
       /\ WholeLine(s, e) => p <= s \/ p >= e - 1
       /\ Follows(s, e) /\ p >= e - 1 => RowShown(s, e)
RowsInv ==
  /\ section = "rows" => \E p \in 0 .. Len(output) : RowsRead(p)
  /\ RowsResync

\* Lines are lines of what the command printed.
LEMMA LinesStay ==
  ASSUME output' = output
  PROVE  \A s, e : /\ WholeLine(s, e)' <=> WholeLine(s, e)
                   /\ Follows(s, e)' <=> Follows(s, e)
                   /\ OwnRow(s, e)' = OwnRow(s, e)
<1>1. ASSUME NEW s, NEW e
      PROVE  WholeLine(s, e)' <=> WholeLine(s, e)
  BY DEF WholeLine, OutputLine
<1>2. ASSUME NEW s, NEW e
      PROVE  Follows(s, e)' <=> Follows(s, e)
  BY <1>1, Zenon DEF Follows
<1>3. ASSUME NEW s, NEW e
      PROVE  OwnRow(s, e)' = OwnRow(s, e)
  BY DEF OwnRow
<1> QED
  BY <1>1, <1>2, <1>3

\* When there is nothing left to read, all are shown.
LEMMA RowsAtEnd ==
  ASSUME output \in Seq(Token), NEW p \in 0 .. Len(output), RowsRead(p), NoneAfter(output, p),
         NEW s \in 0 .. Len(output), NEW e \in 0 .. Len(output), Follows(s, e)
  PROVE  RowShown(s, e)
<1>1. WholeLine(s, e) /\ s + 4 < e /\ \A i \in s + 1 .. e - 1 : output[i].kind # "newline"
  BY DEF Follows, WholeLine, OutputLine
<1>2. p > s
  <2>1. s + 1 \in 1 .. Len(output) /\ output[s + 1].kind # "newline"
    BY <1>1
  <2>2. s + 1 \notin p + 1 .. Len(output)
    BY <2>1 DEF NoneAfter
  <2> QED
    BY <2>1, <2>2
<1>3. p >= e - 1
  <2>1. p <= s \/ p >= e - 1
    BY <1>1, Zenon DEF RowsRead
  <2> QED
    BY <1>2, <2>1
<1> QED
  BY <1>3, Zenon DEF RowsRead

\* A line that follows a whole line, or comes first, is scanned from its start.
LEMMA LineFromStart ==
  ASSUME output \in Seq(Token), NEW p \in 0 .. Len(output), RowsRead(p),
         NEW a \in 1 .. Len(output), NextAt(output, p, a),
         NEW q \in 0 .. Len(output), RowEnds(output, a, q),
         NEW s \in 0 .. Len(output), NEW e \in 0 .. Len(output), Follows(s, e), p <= s, q >= e - 1
  PROVE  a = s + 1
<1>1. /\ s > 0 => output[s].kind = "newline"
      /\ s + 4 < e /\ \A i \in s + 1 .. e - 1 : output[i].kind # "newline"
  BY DEF Follows, WholeLine, OutputLine
<1>2. CASE p = s \/ (s > 0 /\ p = s - 1)
  <2>1. s + 1 \in 1 .. Len(output) /\ s + 1 \in p + 1 .. Len(output) /\ output[s + 1].kind # "newline"
    BY <1>1, <1>2
  <2>2. s + 1 \notin p + 1 .. a - 1 /\ a \in p + 1 .. Len(output)
    BY <2>1 DEF NextAt
  <2>3. a # s
    BY <1>1 DEF NextAt
  <2> QED
    BY <1>2, <2>2, <2>3
<1>3. ASSUME NEW r \in 0 .. s - 1, WholeLine(r, s)
      PROVE  p = s \/ p = s - 1
  <2>1. r \in 0 .. Len(output) /\ r + 4 < s
    BY <1>3 DEF WholeLine
  <2>2. p <= r \/ p >= s - 1
    BY <1>3, <2>1, Zenon DEF RowsRead
  <2>3. CASE p <= r
    <3>1. p \in 0 .. r
      BY <2>3
    <3>2. q <= r \/ q = s - 1
      BY <1>3, <2>1, <3>1, RowCrosses
    <3> QED
      BY <1>1, <2>1, <3>2
  <2> QED
    BY <2>2, <2>3
<1>4. s = 0 \/ \E r \in 0 .. s - 1 : WholeLine(r, s)
  BY DEF Follows
<1>5. CASE s = 0
  BY <1>2, <1>5
<1>6. CASE s # 0
  BY <1>2, <1>3, <1>4, <1>6
<1> QED
  BY <1>5, <1>6

\* The row such a scan shows is the line's own.
LEMMA LineShown ==
  ASSUME output \in Seq(Token), NEW p \in 0 .. Len(output), pipe = After(output, p),
         NEW s \in 0 .. Len(output), NEW e \in 0 .. Len(output), WholeLine(s, e),
         NextAt(output, p, s + 1)
  PROVE  Assign(4, sscanf(pipe, RowFormat).stored, fields) = OwnRow(s, e)
<1> DEFINE T == output
           a == s + 1
           st == sscanf(pipe, RowFormat).stored
<1>1. /\ s + 4 < e /\ T[e].kind = "newline" /\ \A i \in s + 1 .. e - 1 : T[i].kind # "newline"
      /\ T[s + 2].kind = "number"
  BY DEF WholeLine, OutputLine
<1>2. /\ a \in 1 .. Len(T) /\ e \in 1 .. Len(T) /\ a + 3 < e /\ T[a + 1].kind = "number"
      /\ \A i \in a .. e - 1 : T[i].kind # "newline" /\ NextAt(T, p, a)
      /\ a + 1 = s + 2 /\ a + 2 = s + 3 /\ a + 3 = s + 4
  BY <1>1
<1>3. NextAt(T, p, a)
  OBVIOUS
<1> HIDE DEF a
<1>4. /\ Len(st) = 4 /\ st[1] = <<T[a]>> /\ st[2] = <<T[a + 1]>> /\ st[3] = <<T[a + 2]>>
      /\ st[4] = SubSeq(T, a + 3, e - 1)
  BY <1>1, <1>2, <1>3, RowOfLine
<1>5. /\ Len(st) = 4 /\ st[1] = <<T[s + 1]>> /\ st[2] = <<T[s + 2]>> /\ st[3] = <<T[s + 3]>>
      /\ st[4] = SubSeq(T, s + 4, e - 1)
  BY <1>2, <1>4, Zenon DEF a
<1> HIDE DEF st, T
<1>6. ASSUME NEW c \in 1 .. 4
      PROVE  st[c] = IF c < 4 THEN <<T[s + c]>> ELSE SubSeq(T, s + 4, e - 1)
  <2>1. c = 1 \/ c = 2 \/ c = 3 \/ c = 4
    OBVIOUS
  <2> QED
    <3>1. c # 4 => c < 4 /\ s + 1 \in Nat
      BY <2>1
    <3>2. ~ (4 < 4)
      OBVIOUS
    <3> QED
      BY <1>5, <2>1, <3>1, <3>2, Zenon
<1>7. Assign(4, st, fields) = [c \in 1 .. 4 |-> st[c]]
  BY <1>5 DEF Assign
<1>8. Assign(4, st, fields) = [c \in 1 .. 4 |-> IF c < 4 THEN <<T[s + c]>> ELSE SubSeq(T, s + 4, e - 1)]
  BY <1>6, <1>7
<1> QED
  BY <1>8, Zenon DEF OwnRow, st, T

\* A turn of the loop keeps what the rows say.
LEMMA RowKeeps ==
  ASSUME TooltipTypeOK, RowsInv, Row
  PROVE  RowsInv'
<1> DEFINE scan == sscanf(pipe, RowFormat)
<1>1. /\ output \in Seq(Token) /\ rows \in Seq([1 .. 4 -> Seq(Token)]) /\ Len(rows) \in Nat
  BY DEF TooltipTypeOK
<1>2. /\ section = "rows" /\ output' = output
      /\ scan.eof => section' = "end" /\ rows' = rows
      /\ ~ scan.eof => /\ section' = "rows" /\ rows' = Append(rows, Assign(4, scan.stored, fields))
                       /\ pipe' = scan.rest
  BY DEF Row
<1> HIDE DEF scan
<1>3. PICK p \in 0 .. Len(output) : RowsRead(p)
  BY <1>2 DEF RowsInv
<1>4. pipe = After(output, p)
  BY <1>3 DEF RowsRead
<1>5. \A s, e : /\ WholeLine(s, e)' <=> WholeLine(s, e)
                /\ Follows(s, e)' <=> Follows(s, e)
                /\ OwnRow(s, e)' = OwnRow(s, e)
  BY <1>2, LinesStay
<1>6. CASE NoneAfter(output, p)
  <2>1. scan.eof
    BY <1>1, <1>4, <1>6, RowOfNothing DEF scan
  <2>2. \A s, e \in 0 .. Len(output) : Follows(s, e) => RowShown(s, e)
    BY <1>1, <1>3, <1>6, RowsAtEnd
  <2>3. rows' = rows
    BY <1>2, <2>1
  <2>4. TooltipRowsResync'
    BY <1>2, <1>5, <2>2, <2>3, Zenon DEF TooltipRowsResync, RowShown
  <2>5. section' # "rows"
    BY <1>2, <2>1
  <2> QED
    BY <2>4, <2>5 DEF RowsInv, RowsResync
<1>7. ASSUME NEW a \in 1 .. Len(output), NextAt(output, p, a)
      PROVE  RowsInv'
  <2>1. ~ scan.eof /\ \E q \in 0 .. Len(output) : scan.rest = After(output, q) /\ RowEnds(output, a, q)
    BY <1>1, <1>4, <1>7, RowOfWord DEF scan
  <2>2. PICK q \in 0 .. Len(output) : scan.rest = After(output, q) /\ RowEnds(output, a, q)
    BY <2>1
  <2> DEFINE row == Assign(4, scan.stored, fields)
  <2>3. section' = "rows" /\ rows' = Append(rows, row) /\ pipe' = After(output, q)
    BY <1>2, <2>1, <2>2
  <2> HIDE DEF row
  <2>4. Len(rows') = Len(rows) + 1 /\ rows'[Len(rows) + 1] = row /\ \A k \in 1 .. Len(rows) : rows'[k] = rows[k]
    BY <1>1, <2>3
  <2>5. q > p
    <3>1. q >= a
      BY <1>1, <2>2, RowGoesOn
    <3> QED
      BY <1>7, <3>1 DEF NextAt
  <2>6. ASSUME NEW s \in 0 .. Len(output), NEW e \in 0 .. Len(output), WholeLine(s, e)
        PROVE  q <= s \/ q >= e - 1
    <3>1. p <= s \/ p >= e - 1
      BY <1>3, <2>6, Zenon DEF RowsRead
    <3>2. CASE p <= s
      <4>1. p \in 0 .. s
        BY <3>2
      <4>2. q <= s \/ q = e - 1
        BY <1>1, <1>7, <2>2, <2>6, <4>1, RowCrosses
      <4> QED
        BY <4>2
    <3> QED
      BY <2>5, <3>1, <3>2
  <2>7. ASSUME NEW s \in 0 .. Len(output), NEW e \in 0 .. Len(output), Follows(s, e), q >= e - 1
        PROVE  \E k \in 1 .. Len(rows') : rows'[k] = OwnRow(s, e)
    <3>1. WholeLine(s, e)
      BY <2>7 DEF Follows
    <3>2. p <= s \/ p >= e - 1
      BY <1>3, <3>1, Zenon DEF RowsRead
    <3>3. CASE p >= e - 1
      <4>1. PICK k \in 1 .. Len(rows) : rows[k] = OwnRow(s, e)
        BY <1>3, <2>7, <3>3, Zenon DEF RowsRead, RowShown
      <4>2. k \in 1 .. Len(rows') /\ rows'[k] = OwnRow(s, e)
        <5>1. \A m \in Nat : \A i \in 1 .. m : i \in 1 .. m + 1
          OBVIOUS
        <5>2. k \in 1 .. Len(rows')
          BY <1>1, <2>4, <5>1, Zenon
        <5> QED
          BY <2>4, <4>1, <5>2, Zenon
      <4> QED
        BY <4>2, Zenon
    <3>4. CASE p <= s
      <4>1. a = s + 1
        BY <1>1, <1>3, <1>7, <2>2, <2>7, <3>4, LineFromStart
      <4>2. NextAt(output, p, s + 1)
        BY <1>7, <4>1
      <4>3. row = OwnRow(s, e)
        BY <1>1, <1>4, <3>1, <4>2, LineShown DEF row, scan
      <4>4. Len(rows) + 1 \in 1 .. Len(rows')
        BY <1>1, <2>4
      <4> QED
        BY <2>4, <4>3, <4>4, Zenon
    <3> QED
      BY <3>2, <3>3, <3>4
  <2>8. RowsRead(q)'
    BY <1>2, <1>5, <2>3, <2>6, <2>7, Zenon DEF RowsRead, RowShown, After
  <2>9. section' # "end" /\ \E r \in 0 .. Len(output') : RowsRead(r)'
    BY <1>2, <2>3, <2>8
  <2> QED
    BY <2>9 DEF RowsInv, RowsResync, TooltipRowsResync
<1> QED
  BY <1>1, <1>6, <1>7, NextOrNone

\* The other steps begin with no row or have none to show.
LEMMA TooltipKeepsRows ==
  ASSUME TooltipTypeOK, TooltipTypeOK', RowsInv, TooltipNext
  PROVE  RowsInv'
<1>1. CASE section' \notin {"rows", "end"}
  BY <1>1 DEF RowsInv, RowsResync, TooltipRowsResync
<1>2. CASE Nvidia \/ Meminfo \/ Swap
  <2>1. section' \notin {"rows", "end"}
    BY <1>2 DEF Nvidia, Meminfo, Swap, NoPipe
  <2> QED
    BY <1>1, <2>1
<1>3. CASE Df
  <2>1. CASE NoPipe("end")
    BY <2>1 DEF NoPipe, RowsInv, RowsResync, TooltipRowsResync
  <2>2. CASE ~ NoPipe("end")
    <3>1. section' = "rows" /\ pipe' = output' /\ output' \in Seq(Token)
      BY <1>3, <2>2 DEF Df, TooltipTypeOK
    <3>2. pipe' = After(output', 0)
      BY <3>1, SubSeqFull DEF After
    <3>3. ASSUME NEW s \in 0 .. Len(output'), NEW e \in 0 .. Len(output'), WholeLine(s, e)'
          PROVE  0 <= s /\ ~ (0 >= e - 1)
      BY <3>3 DEF WholeLine
    <3>4. RowsRead(0)'
      <4>1. ASSUME NEW s \in 0 .. Len(output'), NEW e \in 0 .. Len(output'), Follows(s, e)'
            PROVE  ~ (0 >= e - 1)
        BY <3>3, <4>1 DEF Follows
      <4> QED
        BY <3>2, <3>3, <4>1, Zenon DEF RowsRead, After
    <3>5. 0 \in 0 .. Len(output')
      BY <3>1
    <3> QED
      BY <3>1, <3>4, <3>5 DEF RowsInv, RowsResync, TooltipRowsResync
  <2> QED
    BY <2>1, <2>2
<1> QED
  BY <1>2, <1>3, RowKeeps DEF TooltipNext

LEMMA RowsInvariant == Spec => []RowsInv
<1>1. Init => RowsInv
  BY DEF Init, TooltipInit, RowsInv, RowsResync, TooltipRowsResync
<1>2. Inv /\ Inv' /\ RowsInv /\ [Next]_vars => RowsInv'
  <2> SUFFICES ASSUME Inv, Inv', RowsInv, [Next]_vars
               PROVE  RowsInv'
    OBVIOUS
  <2>1. TooltipTypeOK /\ TooltipTypeOK'
    BY DEF Inv, TypeOK
  <2>2. TooltipNext \/ UNCHANGED tooltipVars
    BY DEF Next, GenmonNext, SystemInfoNext, CpuStatsNext, outVars, PrintPanel, TooltipStep, WriteTooltip,
           Exit, Killed, vars
  <2>3. CASE UNCHANGED tooltipVars
    <3>1. section' = section /\ pipe' = pipe /\ rows' = rows /\ output' = output
      BY <2>3 DEF tooltipVars
    <3>2. \A s, e : /\ WholeLine(s, e)' <=> WholeLine(s, e)
                    /\ Follows(s, e)' <=> Follows(s, e)
                    /\ OwnRow(s, e)' = OwnRow(s, e)
      BY <3>1, LinesStay
    <3>3. \A p : RowsRead(p) => RowsRead(p)'
      BY <3>1, <3>2, Zenon DEF RowsRead, RowShown, After
    <3>4. RowsResync => RowsResync'
      BY <3>1, <3>2, Zenon DEF RowsResync, TooltipRowsResync
    <3> QED
      BY <3>1, <3>3, <3>4 DEF RowsInv
  <2> QED
    BY <2>1, <2>2, <2>3, TooltipKeepsRows
<1> QED
  BY <1>1, <1>2, Invariant, PTL DEF Spec

\* Whatever df prints, a line of it that is whole and stands behind a whole line or comes
\* first is a row of its own fields: the scans find the lines again by themselves
\* (sys-mon-pango-tooltip.c 156-188).
THEOREM RowsComeBack == Spec => []RowsResync
BY RowsInvariant, PTL DEF RowsInv
=============================================================================
