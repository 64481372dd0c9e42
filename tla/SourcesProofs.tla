---------------------------- MODULE SourcesProofs ----------------------------
(***************************************************************************)
(* The numbers of the data sources for any configuration, any widths of    *)
(* the integers, any numbers in the files and any clock: the shares of     *)
(* cpu, the growths of disk_activity, the differences of generic and time, *)
(* and the lines of ram.                                                   *)
(***************************************************************************)
EXTENDS Sources, WellFoundedInduction, TLAPS

Word(n) == n % WordValues

\* The kernel's counters only grow, no core has more ticks than all have, and
\* all are no more than were counted.
Counted ==
  /\ cpuUpto # <<>> => /\ cpuUpto \in [Line -> [Field -> Nat]]
                       /\ \A l \in Line, f \in Field : cpuUpto[l][f] <= stat[l][f]
  /\ \A l \in Line, f \in Field : stat[l][f] <= stat[0][f]
  /\ LineSum(stat[0]) <= MaxJiffies + 1

\* After a read that did not fail cpu has the fields of its columns, and the sums
\* of their lines in an int.
Kept ==
  cpuUpto # <<>> =>
    \A l \in ReadLines : \A f \in Flags(l) :
      /\ cpuData[l][f] = Unsigned(cpuUpto[l][f], LongValues)
      /\ cpuSum[l] = Signed(LineSum(cpuUpto[l]), IntValues)

CpuInv == CpuTypeOK /\ Counted /\ Kept /\ CpuShares

\* The counters only grow, and disk_activity has the words of a read that did not
\* fail.  What was written since the one before adds up to the way from its words
\* to the words kept now, whatever failed reads put there in between.
DiskInv ==
  /\ DiskTypeOK
  /\ diskUpto # <<>> => /\ diskUpto \in [DiskFlags -> Nat]
                        /\ diskData = [f \in DiskFlags |-> Word(diskUpto[f])]
                        /\ \A f \in DiskFlags : diskUpto[f] <= disk[f]
  /\ diskBase # <<>> => /\ diskBase \in [DiskFlags -> Nat]
                        /\ \A f \in DiskFlags : diskBase[f] <= disk[f]
                        /\ diskUpto # <<>> => \A f \in DiskFlags : diskBase[f] <= diskUpto[f]
  /\ diskBase # <<>> /\ changeOnly =>
       \A f \in DiskFlags : diskSum[f] = Word(diskData[f] - Word(diskBase[f]))

\* generic keeps the number of a read that succeeded, unless it has a sign.
GenericInv ==
  /\ GenericTypeOK
  /\ GenericOutputIsChange
  /\ genUpto \in Nat => prev = genUpto

\* time keeps the time it has written.
TimeInv ==
  /\ TimeTypeOK /\ timeBefore \in Int
  /\ TimeOutputChains
  /\ "current" \in TimeFlags => timeCurrent = milis

\* ram has the lines of the keys it was asked for, and writes what they are.
RamInv ==
  /\ RamTypeOK
  /\ meminfo \in MeminfoLayouts /\ ramAsked \subseteq Key
  /\ \/ linesBitset = Refused /\ ramOut = <<>>
     \/ linesBitset = {LineNumber(key) : key \in ramAsked} /\ -1 \notin linesBitset
  /\ \/ ramOut = <<>>
     \/ \E k \in 0 .. amounts : ramOut = [n \in linesBitset |-> <<meminfo[n + 1], k>>]

IInv == configured \in Configs /\ CpuInv /\ DiskInv /\ GenericInv /\ TimeInv /\ RamInv

-----------------------------------------------------------------------------
(* Words.                                                                  *)

LEMMA Division ==
  \A n \in Nat \ {0}, a \in Int :
    a = n * (a \div n) + (a % n) /\ (a \div n) \in Int /\ a % n \in 0 .. n - 1
OBVIOUS

\* No two remainders differ by a multiple of n.
LEMMA MultipleIsZero ==
  ASSUME NEW n \in Nat \ {0}, NEW q \in Int, NEW r \in 0 .. n - 1, NEW s \in 0 .. n - 1, n * q = r - s
  PROVE  r = s
<1>1. q >= 1 => n * q >= n
  OBVIOUS
<1>2. q <= -1 => n * q <= -n
  OBVIOUS
<1>3. q = 0
  BY <1>1, <1>2
<1> QED
  BY <1>3

\* A difference of words is the difference of the numbers, when that fits in a
\* word, wherever the numbers themselves wrapped.
LEMMA WordDifference ==
  ASSUME NEW n \in Nat \ {0}, NEW a \in Int, NEW b \in Int, a - b \in 0 .. n - 1
  PROVE  ((a % n) - (b % n)) % n = a - b
<1> DEFINE d == (a % n) - (b % n)
           A == a \div n
           B == b \div n
           D == d \div n
<1>1. /\ a = n * A + (a % n) /\ b = n * B + (b % n)
      /\ A \in Int /\ B \in Int /\ a % n \in Int /\ b % n \in Int
  BY Division
<1>2. d \in Int
  BY <1>1
<1>3. d = n * D + (d % n) /\ D \in Int /\ d % n \in 0 .. n - 1
  BY Division, <1>2
<1>4. n * (A - B + D) = n * A - n * B + n * D
  BY <1>1, <1>3
<1>5. n * A \in Int /\ n * B \in Int /\ n * D \in Int
  BY <1>1, <1>3
<1>6. a - b = n * A - n * B + d
  <2> DEFINE x == n * A
             y == n * B
             r == a % n
             s == b % n
  <2>1. a = x + r /\ b = y + s /\ x \in Int /\ y \in Int /\ r \in Int /\ s \in Int
    BY <1>1, <1>5
  <2>2. a - b = x - y + (r - s)
    <3> HIDE DEF x, y, r, s
    <3> QED
      BY <2>1
  <2> QED
    BY <2>2
<1>7. n * (A - B + D) = (a - b) - (d % n)
  <2> HIDE DEF A, B, D, d
  <2> QED
    BY <1>2, <1>3, <1>4, <1>5, <1>6
<1>8. A - B + D \in Int
  BY <1>1, <1>3
<1>9. a - b = d % n
  <2> HIDE DEF A, B, D, d
  <2> QED
    BY <1>3, <1>7, <1>8, MultipleIsZero
<1> QED
  BY <1>9
\* The same when only one of them is a word.
LEMMA OneWordDifference ==
  ASSUME NEW n \in Nat \ {0}, NEW a \in Int, NEW b \in Int, a - b \in 0 .. n - 1
  PROVE  (a - (b % n)) % n = a - b
<1> DEFINE d == a - (b % n)
           B == b \div n
           D == d \div n
<1>1. b = n * B + (b % n) /\ B \in Int /\ b % n \in Int
  BY Division
<1>2. d \in Int
  BY <1>1
<1>3. d = n * D + (d % n) /\ D \in Int /\ d % n \in 0 .. n - 1
  BY Division, <1>2
<1>4. n * (D - B) = n * D - n * B /\ n * D \in Int /\ n * B \in Int
  BY <1>1, <1>3
<1>5. n * B = b - (b % n)
  BY <1>1, <1>4
<1>6. n * (D - B) = (a - b) - (d % n)
  <2>1. d = a - (b % n)
    OBVIOUS
  <2> HIDE DEF B, D, d
  <2> QED
    BY <1>1, <1>3, <1>4, <1>5, <2>1
<1>7. D - B \in Int
  BY <1>1, <1>3
<1>8. a - b = d % n
  <2> HIDE DEF B, D, d
  <2> QED
    BY <1>3, <1>6, <1>7, MultipleIsZero
<1> QED
  BY <1>8

\* Two ways from one word to another, one behind the other, are one way.
LEMMA WordSteps ==
  ASSUME NEW n \in Nat \ {0}, NEW a \in Int, NEW b \in Int, NEW c \in Int
  PROVE  (((b - a) % n) + ((c - b) % n)) % n = (c - a) % n
<1> DEFINE x == (b - a) % n
           y == (c - b) % n
           z == (c - a) % n
           t == (x + y) % n
           X == (b - a) \div n
           Y == (c - b) \div n
           Z == (c - a) \div n
           U == (x + y) \div n
<1>1. /\ b - a = n * X + x /\ X \in Int /\ x \in 0 .. n - 1
      /\ c - b = n * Y + y /\ Y \in Int /\ y \in 0 .. n - 1
      /\ c - a = n * Z + z /\ Z \in Int /\ z \in 0 .. n - 1
  <2>1. b - a \in Int /\ c - b \in Int /\ c - a \in Int
    OBVIOUS
  <2>2. b - a = n * X + x /\ X \in Int /\ x \in 0 .. n - 1
    BY <2>1, Division
  <2>3. c - b = n * Y + y /\ Y \in Int /\ y \in 0 .. n - 1
    BY <2>1, Division
  <2>4. c - a = n * Z + z /\ Z \in Int /\ z \in 0 .. n - 1
    BY <2>1, Division
  <2> QED
    BY <2>2, <2>3, <2>4
<1>2. x + y \in Int
  BY <1>1
<1>3. x + y = n * U + t /\ U \in Int /\ t \in 0 .. n - 1
  BY <1>2, Division
<1> HIDE DEF x, y, z, t, X, Y, Z, U
<1>4. n * X \in Int /\ n * Y \in Int /\ n * Z \in Int /\ n * U \in Int
  BY <1>1, <1>3
<1>5. n * (Z - X - Y - U) = n * Z - n * X - n * Y - n * U
  BY <1>1, <1>3
<1>6. n * (Z - X - Y - U) = t - z
  BY <1>1, <1>3, <1>4, <1>5
<1>7. Z - X - Y - U \in Int
  BY <1>1, <1>3
<1>8. t = z
  BY <1>1, <1>3, <1>6, <1>7, MultipleIsZero
<1> QED
  BY <1>8 DEF x, y, z, t

-----------------------------------------------------------------------------
(* The sum of a line, field by field.                                      *)

\* A nonempty set of naturals has a least element.
LEMMA Least ==
  ASSUME NEW T \in SUBSET Nat, T # {}
  PROVE  \E x \in T : \A y \in T : x <= y
<1> DEFINE R == {ss \in Nat \X Nat : ss[1] < ss[2]}
<1>1. OpToRel(<, Nat) = R
  BY Zenon DEF OpToRel
<1>2. \E x \in T : \A y \in T : ~ (<<y, x>> \in OpToRel(<, Nat))
  BY WFMin, NatLessThanWellFounded
<1>3. PICK x \in T : \A y \in T : ~ (<<y, x>> \in R)
  BY <1>1, <1>2
<1>4. \A y \in T : <<y, x>> \in R <=> y < x
  OBVIOUS
<1> HIDE DEF R
<1>5. \A y \in T : ~ (y < x)
  BY <1>3, <1>4
<1> QED
  BY <1>5

\* What holds of 0 and of each number after one it holds of holds up to n.
LEMMA UpTo ==
  ASSUME NEW n \in Nat, NEW T, 0 \in T, \A m \in 1 .. n : m - 1 \in T => m \in T
  PROVE  \A m \in 0 .. n : m \in T
<1> SUFFICES ASSUME NEW m \in 0 .. n, m \notin T
             PROVE  FALSE
  OBVIOUS
<1> DEFINE Out == {k \in 0 .. n : k \notin T}
<1>1. Out \in SUBSET Nat /\ Out # {}
  OBVIOUS
<1>2. PICK x \in Out : \A y \in Out : x <= y
  BY <1>1, Least
<1>3. x \in 1 .. n /\ x - 1 \notin Out /\ x - 1 \in 0 .. n
  BY <1>2
<1> QED
  BY <1>2, <1>3

\* The sums of a line's first counters.
PartSums(c, g) ==
  /\ g \in [0 .. FieldsN -> Nat]
  /\ g[0] = 0
  /\ \A m \in 1 .. FieldsN : m - 1 \in Field /\ g[m] = g[m - 1] + c[m - 1]

LEMMA PartSumsExist ==
  ASSUME NEW c \in [Field -> Nat]
  PROVE  \E g : PartSums(c, g)
<1> DEFINE Good(m) == \E g \in [0 .. m -> Nat] : g[0] = 0 /\ \A k \in 1 .. m : g[k] = g[k - 1] + c[k - 1]
           T == {m \in 0 .. FieldsN : Good(m)}
<1>1. FieldsN \in Nat /\ Field = 0 .. FieldsN - 1
  BY CpuAssumption DEF Field
<1>2. 0 \in T
  <2> DEFINE g == [k \in 0 .. 0 |-> 0]
  <2>1. g \in [0 .. 0 -> Nat] /\ g[0] = 0
    OBVIOUS
  <2>2. Good(0)
    <3> HIDE DEF g
    <3> QED
      BY <2>1
  <2> QED
    BY <1>1, <2>2
<1>3. ASSUME NEW m \in 1 .. FieldsN, m - 1 \in T
      PROVE  m \in T
  <2>1. PICK g \in [0 .. m - 1 -> Nat] : g[0] = 0 /\ \A k \in 1 .. m - 1 : g[k] = g[k - 1] + c[k - 1]
    BY <1>3
  <2> DEFINE h == [k \in 0 .. m |-> IF k = m THEN g[m - 1] + c[m - 1] ELSE g[k]]
  <2>2. m - 1 \in Field /\ m - 1 \in 0 .. m - 1 /\ m \in 0 .. FieldsN
    BY <1>1
  <2>3. g[m - 1] + c[m - 1] \in Nat
    BY <2>2
  <2>4. h \in [0 .. m -> Nat]
    BY <2>3
  <2>5. h[0] = 0
    BY <2>1
  <2>6. ASSUME NEW k \in 1 .. m
        PROVE  h[k] = h[k - 1] + c[k - 1]
    BY <2>1
  <2>7. Good(m)
    <3> HIDE DEF h
    <3> QED
      BY <2>4, <2>5, <2>6
  <2> QED
    BY <2>2, <2>7
<1> HIDE DEF T
<1>4. \A m \in 0 .. FieldsN : m \in T
  BY <1>1, <1>2, <1>3, UpTo
<1>5. FieldsN \in T
  BY <1>1, <1>4
<1>6. PICK g \in [0 .. FieldsN -> Nat] : g[0] = 0 /\ \A k \in 1 .. FieldsN : g[k] = g[k - 1] + c[k - 1]
  BY <1>5 DEF T
<1>7. \A m \in 1 .. FieldsN : m - 1 \in Field
  BY <1>1
<1> QED
  BY <1>6, <1>7 DEF PartSums

LEMMA LineSums ==
  ASSUME NEW c \in [Field -> Nat]
  PROVE  \E g : PartSums(c, g) /\ LineSum(c) = g[FieldsN]
<1> DEFINE IsSum(g) == g = [n \in 0 .. FieldsN |-> IF n = 0 THEN 0 ELSE g[n - 1] + c[n - 1]]
           s == CHOOSE g : IsSum(g)
<1>1. FieldsN \in Nat
  BY CpuAssumption
<1>2. LineSum(c) = s[FieldsN]
  BY DEF LineSum
<1>3. PICK g : PartSums(c, g)
  BY PartSumsExist
<1>4. IsSum(g)
  BY <1>1, <1>3 DEF PartSums
<1>5. IsSum(s)
  BY <1>4, Zenon
<1> HIDE DEF s
<1>6. DOMAIN s = 0 .. FieldsN /\ \A n \in 0 .. FieldsN : s[n] = IF n = 0 THEN 0 ELSE s[n - 1] + c[n - 1]
  BY <1>5
<1>7. \A n \in 0 .. FieldsN : n \in {m \in 0 .. FieldsN : s[m] = g[m]}
  <2> DEFINE T == {m \in 0 .. FieldsN : s[m] = g[m]}
  <2>1. 0 \in T
    BY <1>1, <1>3, <1>6 DEF PartSums
  <2>2. ASSUME NEW m \in 1 .. FieldsN, m - 1 \in T
        PROVE  m \in T
    BY <1>1, <1>3, <1>6, <2>2 DEF PartSums
  <2> HIDE DEF T
  <2>3. \A n \in 0 .. FieldsN : n \in T
    BY <1>1, <2>1, <2>2, UpTo
  <2> QED
    BY <2>3 DEF T
<1>8. s[FieldsN] = g[FieldsN]
  BY <1>1, <1>7
<1> QED
  BY <1>2, <1>3, <1>8

\* A line whose counters are no less than another's has a sum that is larger by
\* at least the difference of any one counter.
LEMMA SumsCompare ==
  ASSUME NEW a \in [Field -> Nat], NEW b \in [Field -> Nat], \A f \in Field : a[f] <= b[f]
  PROVE  /\ LineSum(a) \in Nat /\ LineSum(b) \in Nat /\ LineSum(a) <= LineSum(b)
         /\ \A f \in Field : b[f] - a[f] <= LineSum(b) - LineSum(a)
<1>1. PICK g : PartSums(a, g) /\ LineSum(a) = g[FieldsN]
  BY LineSums
<1>2. PICK h : PartSums(b, h) /\ LineSum(b) = h[FieldsN]
  BY LineSums
<1>3. FieldsN \in Nat \ {0} /\ Field = 0 .. FieldsN - 1
  BY CpuAssumption DEF Field
<1> DEFINE T == {m \in 0 .. FieldsN : g[m] <= h[m] /\ \A f \in 0 .. m - 1 : b[f] - a[f] <= h[m] - g[m]}
<1>4. 0 \in T
  BY <1>1, <1>2, <1>3 DEF PartSums
<1>5. ASSUME NEW m \in 1 .. FieldsN, m - 1 \in T
      PROVE  m \in T
  <2>1. /\ g[m - 1] \in Nat /\ h[m - 1] \in Nat /\ g[m - 1] <= h[m - 1]
        /\ \A f \in 0 .. m - 2 : b[f] - a[f] <= h[m - 1] - g[m - 1]
    BY <1>1, <1>2, <1>3, <1>5 DEF PartSums
  <2>2. m - 1 \in Field /\ g[m] = g[m - 1] + a[m - 1] /\ h[m] = h[m - 1] + b[m - 1]
    BY <1>1, <1>2 DEF PartSums
  <2>3. a[m - 1] \in Nat /\ b[m - 1] \in Nat /\ a[m - 1] <= b[m - 1]
    BY <2>2
  <2>4. g[m] <= h[m] /\ b[m - 1] - a[m - 1] <= h[m] - g[m]
    BY <2>1, <2>2, <2>3
  <2>5. \A f \in 0 .. m - 2 : b[f] - a[f] <= h[m] - g[m]
    <3> SUFFICES ASSUME NEW f \in 0 .. m - 2
                 PROVE  b[f] - a[f] <= h[m] - g[m]
      OBVIOUS
    <3>1. f \in Field /\ a[f] \in Nat /\ b[f] \in Nat
      BY <1>3
    <3> QED
      BY <2>1, <2>2, <2>3, <3>1
  <2>6. \A f \in 0 .. m - 1 : f = m - 1 \/ f \in 0 .. m - 2
    OBVIOUS
  <2>7. m \in 0 .. FieldsN
    OBVIOUS
  <2> QED
    BY <2>4, <2>5, <2>6, <2>7
<1> HIDE DEF T
<1>6. \A m \in 0 .. FieldsN : m \in T
  BY <1>3, <1>4, <1>5, UpTo
<1>7. g[FieldsN] \in Nat /\ h[FieldsN] \in Nat
  BY <1>1, <1>2, <1>3 DEF PartSums
<1> QED
  BY <1>1, <1>2, <1>3, <1>6, <1>7 DEF T

LEMMA SumOfNext ==
  ASSUME NEW a \in [Field -> Nat], NEW f \in Field, NEW b \in [Field -> Nat], b = [a EXCEPT ![f] = @ + 1]
  PROVE  LineSum(b) = LineSum(a) + 1
<1>1. PICK g : PartSums(a, g) /\ LineSum(a) = g[FieldsN]
  BY LineSums
<1>2. PICK h : PartSums(b, h) /\ LineSum(b) = h[FieldsN]
  BY LineSums
<1>3. FieldsN \in Nat \ {0} /\ Field = 0 .. FieldsN - 1
  BY CpuAssumption DEF Field
<1>4. \A k \in Field : b[k] = a[k] + IF k = f THEN 1 ELSE 0
  BY <1>3
<1> DEFINE T == {m \in 0 .. FieldsN : h[m] = g[m] + IF f < m THEN 1 ELSE 0}
<1>5. 0 \in T
  BY <1>1, <1>2, <1>3 DEF PartSums
<1>6. ASSUME NEW m \in 1 .. FieldsN, m - 1 \in T
      PROVE  m \in T
  <2>1. g[m - 1] \in Nat /\ h[m - 1] = g[m - 1] + IF f < m - 1 THEN 1 ELSE 0
    BY <1>1, <1>3, <1>6 DEF PartSums
  <2>2. m - 1 \in Field /\ g[m] = g[m - 1] + a[m - 1] /\ h[m] = h[m - 1] + b[m - 1]
    BY <1>1, <1>2 DEF PartSums
  <2>3. a[m - 1] \in Nat /\ b[m - 1] = a[m - 1] + IF m - 1 = f THEN 1 ELSE 0
    BY <1>4, <2>2
  <2> QED
    BY <1>3, <2>1, <2>2, <2>3
<1> HIDE DEF T
<1>7. \A m \in 0 .. FieldsN : m \in T
  BY <1>3, <1>5, <1>6, UpTo
<1>8. f < FieldsN
  BY <1>3
<1>9. h[FieldsN] = g[FieldsN] + 1
  BY <1>3, <1>7, <1>8 DEF T
<1> QED
  BY <1>1, <1>2, <1>9

LEMMA SumOfZeros ==
  ASSUME NEW a \in [Field -> Nat], \A f \in Field : a[f] = 0
  PROVE  LineSum(a) = 0
<1>1. PICK g : PartSums(a, g) /\ LineSum(a) = g[FieldsN]
  BY LineSums
<1>2. FieldsN \in Nat \ {0} /\ Field = 0 .. FieldsN - 1
  BY CpuAssumption DEF Field
<1> DEFINE T == {m \in 0 .. FieldsN : g[m] = 0}
<1>3. 0 \in T
  BY <1>1, <1>2 DEF PartSums
<1>4. ASSUME NEW m \in 1 .. FieldsN, m - 1 \in T
      PROVE  m \in T
  BY <1>1, <1>2, <1>4 DEF PartSums
<1> HIDE DEF T
<1>5. \A m \in 0 .. FieldsN : m \in T
  BY <1>2, <1>3, <1>4, UpTo
<1>6. g[FieldsN] = 0
  BY <1>2, <1>5 DEF T
<1> QED
  BY <1>1, <1>6

-----------------------------------------------------------------------------
(* What a step does to each of the modules.                                *)

LEMMA Steps ==
  ASSUME [Next]_vars
  PROVE  /\ configured' = configured
         /\ CpuWrite \/ (\E core \in 1 .. Cores, f \in Field : Jiffy(core, f)) \/ UNCHANGED cpuVars
         /\ DiskWrite \/ (\E f \in DiskFlags : DiskGrow(f)) \/ UNCHANGED diskVars
         /\ GenericWrite \/ FileChanges \/ UNCHANGED genericVars
         /\ TimeWrite \/ ClockMoves \/ UNCHANGED timeVars
         /\ RamWrite \/ MeminfoChanges \/ UNCHANGED ramVars
<1>1. CASE Update
  BY <1>1 DEF Update, Part
<1>2. CASE CpuWorks \/ DiskWorks \/ FileIsWritten \/ TimePasses \/ MemoryIsUsed
  BY <1>2 DEF CpuWorks, DiskWorks, FileIsWritten, TimePasses, MemoryIsUsed
<1>3. CASE UNCHANGED vars
  BY <1>3 DEF vars
<1> QED
  BY <1>1, <1>2, <1>3 DEF Next

-----------------------------------------------------------------------------
(* cpu.                                                                    *)

\* A share is at most the multiplier, and to the nearest unit.
LEMMA Rounding ==
  ASSUME NEW part \in Nat, NEW whole \in Nat \ {0}, NEW times \in Nat, part <= whole
  PROVE  LET value == (part * times + whole \div 2) \div whole
         IN  value \in 0 .. times /\ 2 * (value * whole - part * times) \in -whole .. whole
<1> DEFINE p == part * times
           h == whole \div 2
           v == (p + h) \div whole
           r == (p + h) % whole
<1>1. p \in Nat /\ p <= whole * times
  OBVIOUS
<1>2. h \in Nat /\ 2 * h <= whole /\ whole <= 2 * h + 1
  OBVIOUS
<1>3. p + h \in Int
  BY <1>1, <1>2
<1>4. p + h = whole * v + r /\ v \in Int /\ r \in 0 .. whole - 1
  BY <1>3, Division
<1> HIDE DEF p, h, v, r
<1>5. v >= 0
  <2>1. v <= -1 => whole * v <= -whole
    BY <1>4
  <2> QED
    BY <1>1, <1>2, <1>4, <2>1
<1>6. v <= times
  <2>1. v >= times + 1 => whole * v >= whole * times + whole
    <3> SUFFICES ASSUME v >= times + 1 PROVE whole * v >= whole * times + whole
      OBVIOUS
    <3>1. whole * v >= whole * (times + 1)
      BY <1>4
    <3> QED
      BY <3>1
  <2>2. whole * times \in Int /\ whole * v \in Int
    BY <1>4
  <2> QED
    BY <1>1, <1>2, <1>4, <2>1, <2>2
<1>7. v * whole - p = h - r
  <2>1. v * whole = whole * v /\ whole * v \in Int
    BY <1>4
  <2> QED
    BY <1>1, <1>2, <1>4, <2>1
<1>8. 2 * (v * whole - p) \in -whole .. whole
  BY <1>2, <1>4, <1>7
<1> QED
  BY <1>4, <1>5, <1>6, <1>8 DEF p, h, v

\* A remainder of a number that is in range is the number.
LEMMA InRange ==
  ASSUME NEW n \in Nat \ {0}, NEW a \in 0 .. n - 1
  PROVE  a % n = a
OBVIOUS

LEMMA UnsignedTypes ==
  ASSUME NEW n \in Nat \ {0}, NEW a \in Int
  PROVE  Unsigned(a, n) \in 0 .. n - 1
BY Division DEF Unsigned

LEMMA SignedTypes ==
  ASSUME NEW a \in Int
  PROVE  /\ Signed(a, IntValues) \in -(IntValues \div 2) .. IntValues \div 2 - 1
         /\ a \in 0 .. IntValues \div 2 - 1 => Signed(a, IntValues) = a
<1>1. IntValues \in Nat \ {0} /\ IntValues % 2 = 0
  BY CpuAssumption
<1> DEFINE h == IntValues \div 2
<1>2. h \in Nat /\ IntValues = 2 * h
  BY <1>1
<1>3. a % IntValues \in 0 .. IntValues - 1
  BY <1>1, Division
<1>4. a \in 0 .. h - 1 => a % IntValues = a
  BY <1>1, <1>2, InRange
<1> HIDE DEF h
<1> QED
  BY <1>2, <1>3, <1>4 DEF Signed, h

LEMMA CpuConstants ==
  /\ IntValues \in Nat \ {0} /\ LongValues \in Nat \ {0}
  /\ Multiplier \in Nat /\ Multiplier < IntValues /\ MaxJiffies \in Nat
  /\ (Multiplier + 1) * (MaxJiffies + 1) <= LongValues
  /\ 0 \in Line /\ ReadLines \subseteq Line /\ \A l \in Line : Flags(l) \subseteq Field
  /\ Columns \subseteq Line \X Field /\ Field # {}
<1>1. /\ IntValues \in Nat \ {0} /\ LongValues \in Nat \ {0}
      /\ Multiplier \in Nat /\ Multiplier < IntValues /\ MaxJiffies \in Nat
      /\ (Multiplier + 1) * (MaxJiffies + 1) <= LongValues
  BY CpuAssumption
<1>2. 0 \in Line /\ Field # {}
  <2>1. Cores \in Nat /\ FieldsN \in Nat \ {0}
    BY CpuAssumption
  <2>2. 0 \in 0 .. FieldsN - 1 /\ 0 \in 0 .. Cores
    BY <2>1
  <2> QED
    BY <2>2 DEF Line, Field
<1>3. ReadLines \subseteq Line
  BY <1>2 DEF ReadLines
<1>4. \A l \in Line : Flags(l) \subseteq Field
  BY CpuAssumption DEF Flags
<1> QED
  BY <1>1, <1>2, <1>3, <1>4 DEF Columns

\* Sums of counters that grow, and of a core beside the total.
LEMMA CountedSums ==
  ASSUME CpuTypeOK, Counted, NEW l \in Line
  PROVE  /\ LineSum(stat[l]) \in Nat /\ LineSum(stat[l]) <= MaxJiffies + 1
         /\ cpuUpto # <<>> =>
              /\ LineSum(cpuUpto[l]) \in Nat /\ LineSum(cpuUpto[l]) <= LineSum(stat[l])
              /\ \A f \in Field : stat[l][f] - cpuUpto[l][f] <= LineSum(stat[l]) - LineSum(cpuUpto[l])
<1>1. /\ stat[l] \in [Field -> Nat] /\ stat[0] \in [Field -> Nat]
      /\ \A f \in Field : stat[l][f] <= stat[0][f]
  BY CpuConstants DEF CpuTypeOK, Counted
<1>2. ASSUME cpuUpto # <<>>
      PROVE  /\ LineSum(cpuUpto[l]) \in Nat /\ LineSum(cpuUpto[l]) <= LineSum(stat[l])
             /\ \A f \in Field : stat[l][f] - cpuUpto[l][f] <= LineSum(stat[l]) - LineSum(cpuUpto[l])
  <2>1. cpuUpto[l] \in [Field -> Nat] /\ \A f \in Field : cpuUpto[l][f] <= stat[l][f]
    BY <1>2 DEF Counted
  <2> QED
    BY <1>1, <2>1, SumsCompare
<1>3. LineSum(stat[l]) \in Nat /\ LineSum(stat[0]) \in Nat /\ LineSum(stat[l]) <= LineSum(stat[0])
  BY <1>1, SumsCompare
<1> QED
  BY <1>2, <1>3, CpuConstants DEF Counted

\* What is written of a column whose line had a sum that fits in an int.
LEMMA ShareWritten ==
  ASSUME CpuInv, cpuUpto # <<>>, NEW l \in ReadLines, NEW f \in Flags(l), LineSum(cpuUpto[l]) < IntValues \div 2
  PROVE  LET part  == stat[l][f] - cpuUpto[l][f]
             whole == LineSum(stat[l]) - LineSum(cpuUpto[l])
             error == Share(stat, l, f) * whole - part * Multiplier
         IN IF whole = 0 THEN Share(stat, l, f) = 0 ELSE 2 * error \in -whole .. whole
<1> DEFINE part == stat[l][f] - cpuUpto[l][f]
           whole == LineSum(stat[l]) - LineSum(cpuUpto[l])
           w == IF whole = 0 THEN 1 ELSE whole
           sum == part * Multiplier + w \div 2
<1>1. l \in Line /\ f \in Field
  BY CpuConstants
<1>2. /\ LineSum(cpuUpto[l]) \in Nat /\ LineSum(stat[l]) \in Nat
      /\ LineSum(cpuUpto[l]) <= LineSum(stat[l]) /\ LineSum(stat[l]) <= MaxJiffies + 1
      /\ part <= whole
  BY <1>1, CountedSums DEF CpuInv
<1>3. stat[l][f] \in Nat /\ cpuUpto[l][f] \in Nat /\ part \in Nat
  <2>1. stat[l] \in [Field -> Nat] /\ cpuUpto[l] \in [Field -> Nat] /\ cpuUpto[l][f] <= stat[l][f]
    BY <1>1 DEF CpuInv, CpuTypeOK, Counted
  <2> QED
    BY <1>1, <2>1
<1>4. whole \in Nat /\ w \in Nat \ {0} /\ part <= w /\ w <= MaxJiffies + 1
  BY <1>2, <1>3, CpuConstants
<1>5. MaxJiffies + 1 <= LongValues /\ (MaxJiffies + 1) * Multiplier + (MaxJiffies + 1) <= LongValues
  BY CpuConstants
<1>6. SumDiff(stat, l) = w
  <2>1. cpuSum[l] = LineSum(cpuUpto[l])
    <3>1. LineSum(cpuUpto[l]) \in 0 .. IntValues \div 2 - 1
      BY <1>2, CpuConstants
    <3>2. Signed(LineSum(cpuUpto[l]), IntValues) = LineSum(cpuUpto[l])
      BY <1>2, <3>1, SignedTypes
    <3> QED
      BY <3>2 DEF CpuInv, Kept
  <2>2. whole \in 0 .. LongValues - 1
    <3>1. Multiplier \in Nat \ {0}
      BY CpuAssumption
    <3>2. (MaxJiffies + 1) * Multiplier >= 1
      BY <3>1, CpuConstants
    <3>3. (MaxJiffies + 1) * Multiplier \in Nat
      BY CpuConstants
    <3> QED
      BY <1>2, <1>4, <1>5, <3>2, <3>3, CpuConstants
  <2>3. Unsigned(LineSum(stat[l]) - cpuSum[l], LongValues) = whole
    BY <2>1, <2>2, CpuConstants, InRange DEF Unsigned
  <2> QED
    BY <2>3 DEF SumDiff
<1>7. Unsigned(stat[l][f] - cpuData[l][f], LongValues) = part
  <2>1. cpuData[l][f] = cpuUpto[l][f] % LongValues
    BY DEF CpuInv, Kept, Unsigned
  <2>2. part \in 0 .. LongValues - 1
    <3>1. (MaxJiffies + 1) * Multiplier >= 1 /\ (MaxJiffies + 1) * Multiplier \in Nat
      BY CpuAssumption
    <3> QED
      BY <1>3, <1>4, <1>5, <3>1, CpuConstants
  <2>3. LongValues \in Nat \ {0}
    BY CpuConstants
  <2>4. (stat[l][f] - (cpuUpto[l][f] % LongValues)) % LongValues = part
    BY <1>3, <2>2, <2>3, OneWordDifference
  <2> QED
    BY <2>1, <2>4 DEF Unsigned
<1>8. sum \in 0 .. LongValues - 1
  <2>1. part * Multiplier \in Nat /\ part * Multiplier <= (MaxJiffies + 1) * Multiplier
    BY <1>3, <1>4, CpuConstants
  <2>2. w \div 2 \in Nat /\ w \div 2 < MaxJiffies + 1
    BY <1>4, CpuConstants
  <2>3. (MaxJiffies + 1) * Multiplier \in Nat
    BY CpuConstants
  <2> QED
    BY <1>5, <2>1, <2>2, <2>3, CpuConstants
<1>9. /\ sum \div w \in 0 .. Multiplier
      /\ 2 * ((sum \div w) * w - part * Multiplier) \in -w .. w
  <2> HIDE DEF w, part, whole
  <2> QED
    BY <1>3, <1>4, CpuConstants, Rounding
<1>10. Share(stat, l, f) = sum \div w
  <2>1. Unsigned(sum, LongValues) = sum
    BY <1>8, CpuConstants, InRange DEF Unsigned
  <2>2. sum \div w \in 0 .. IntValues - 1
    BY <1>9, CpuConstants
  <2>3. Unsigned(sum \div w, IntValues) = sum \div w
    BY <2>2, CpuConstants, InRange DEF Unsigned
  <2>4. Share(stat, l, f) = Unsigned(Unsigned(part * Multiplier + w \div 2, LongValues) \div w, IntValues)
    BY <1>6, <1>7 DEF Share
  <2> QED
    BY <2>1, <2>3, <2>4
<1>11. ASSUME whole = 0
       PROVE  Share(stat, l, f) = 0
  <2>1. w = 1 /\ part = 0
    BY <1>2, <1>3, <1>11
  <2>2. sum = 0
    BY <2>1, CpuConstants
  <2> QED
    BY <1>10, <2>1, <2>2
<1>12. ASSUME whole # 0
       PROVE  2 * (Share(stat, l, f) * whole - part * Multiplier) \in -whole .. whole
  <2>1. w = whole
    BY <1>12
  <2> QED
    BY <1>9, <1>10, <2>1
<1> QED
  BY <1>11, <1>12

\* Whatever numbers are read, what is written and what the lines' slots hold keep
\* their widths.
LEMMA Reading ==
  ASSUME NEW read \in [Line -> [Field -> Nat]],
         cpuData \in [Line -> [Field -> 0 .. LongValues - 1]],
         cpuSum \in [Line -> -(IntValues \div 2) .. IntValues \div 2 - 1], NEW l \in Line
  PROVE  /\ ReadData(read, l) \in [Field -> 0 .. LongValues - 1]
         /\ ReadSum(read, l) \in -(IntValues \div 2) .. IntValues \div 2 - 1
         /\ \A f \in Field : Share(read, l, f) \in 0 .. IntValues - 1
<1>1. read[l] \in [Field -> Nat]
  OBVIOUS
<1>2. \A f \in Field : Unsigned(read[l][f], LongValues) \in 0 .. LongValues - 1
  BY <1>1, CpuConstants, UnsignedTypes
<1>3. LineSum(read[l]) \in Nat
  BY <1>1, SumsCompare
<1>4. ReadData(read, l) \in [Field -> 0 .. LongValues - 1]
  BY <1>2 DEF ReadData
<1>5. ReadSum(read, l) \in -(IntValues \div 2) .. IntValues \div 2 - 1
  BY <1>3, SignedTypes DEF ReadSum, StoredSum
<1>6. ASSUME NEW f \in Field
      PROVE  Share(read, l, f) \in 0 .. IntValues - 1
  <2> DEFINE diff == Unsigned(read[l][f] - cpuData[l][f], LongValues)
             time == SumDiff(read, l)
             rounded == Unsigned(diff * Multiplier + time \div 2, LongValues)
  <2>1. read[l][f] \in Int /\ cpuData[l][f] \in Int /\ cpuSum[l] \in Int
    BY <1>1
  <2>2. time \in Nat \ {0}
    <3>1. Unsigned(LineSum(read[l]) - cpuSum[l], LongValues) \in 0 .. LongValues - 1
      BY <1>3, <2>1, CpuConstants, UnsignedTypes
    <3> QED
      BY <3>1, CpuConstants DEF SumDiff
  <2>3. diff \in Int
    BY <2>1, CpuConstants, UnsignedTypes
  <2>4. diff * Multiplier + time \div 2 \in Int
    <3> HIDE DEF diff, time
    <3> QED
      BY <2>2, <2>3, CpuConstants
  <2>5. rounded \in Int
    BY <2>4, CpuConstants, UnsignedTypes
  <2>6. rounded \div time \in Int
    <3> HIDE DEF rounded, time
    <3> QED
      BY <2>2, <2>5
  <2>7. Share(read, l, f) = Unsigned(rounded \div time, IntValues)
    BY DEF Share
  <2> QED
    BY <2>6, <2>7, CpuConstants, UnsignedTypes
<1> QED
  BY <1>4, <1>5, <1>6

\* What a failed read reads is numbers.
LEMMA Misreading ==
  ASSUME NEW read \in Misreads
  PROVE  /\ read \in [Line -> [Field -> 0 .. LongValues - 1]]
         /\ read \in [Line -> [Field -> Nat]]
<1>1. read \in [Line -> [Field -> 0 .. LongValues - 1]]
  BY CpuAssumption
<1>2. 0 .. LongValues - 1 \subseteq Nat
  BY CpuConstants
<1> QED
  BY <1>1, <1>2

\* preload_data keeps the widths as well.
LEMMA Preloading ==
  ASSUME NEW read \in [Line -> [Field -> 0 .. LongValues - 1]],
         read \in [Line -> [Field -> Nat]], Preload(read)
  PROVE  /\ cpuData \in [Line -> [Field -> 0 .. LongValues - 1]]
         /\ cpuSum \in [Line -> -(IntValues \div 2) .. IntValues \div 2 - 1]
<1>1. \A l \in Line : LineSum(read[l]) \in Nat
  BY SumsCompare
<1>2. 0 \in -(IntValues \div 2) .. IntValues \div 2 - 1 /\ 0 \in 0 .. LongValues - 1
  BY CpuAssumption, CpuConstants
<1>3. cpuData \in [Line -> [Field -> 0 .. LongValues - 1]]
  BY <1>2 DEF Preload
<1> QED
  BY <1>1, <1>2, <1>3, SignedTypes DEF Preload, StoredSum

LEMMA CpuInitInv ==
  ASSUME CpuInit
  PROVE  CpuInv
<1>1. PICK c \in 1 .. Cores, f \in Field, n \in 0 .. 1 :
        stat = [l \in Line |-> [g \in Field |-> IF l \in {0, c} /\ g = f THEN n ELSE 0]]
  BY DEF CpuInit
<1>2. /\ cpuOut = <<>>
      /\ \/ cpuUpto = stat /\ Preload(stat)
         \/ cpuUpto = <<>> /\ \E read \in Misreads : Preload(read)
  BY DEF CpuInit
<1>3. /\ stat \in [Line -> [Field -> Nat]]
      /\ \A l \in Line, g \in Field : stat[l][g] \in 0 .. 1 /\ stat[l][g] <= stat[0][g]
  BY <1>1, CpuConstants
<1>4. \A l \in Line : LineSum(stat[l]) \in Nat
  BY <1>3, SumsCompare
<1>5. LineSum(stat[0]) <= MaxJiffies + 1
  <2> DEFINE zeros == [g \in Field |-> 0]
             one == [zeros EXCEPT ![f] = @ + 1]
  <2>1. zeros \in [Field -> Nat] /\ one \in [Field -> Nat] /\ LineSum(zeros) = 0
    BY SumOfZeros
  <2>2. LineSum(one) = LineSum(zeros) + 1
    <3> HIDE DEF zeros
    <3> QED
      BY <2>1, SumOfNext
  <2>3. stat[0] = zeros \/ stat[0] = one
    BY <1>1, CpuConstants
  <2> QED
    BY <2>1, <2>2, <2>3, CpuConstants
<1>6. LongValues >= 2
  <2>1. Multiplier + 1 >= 2 /\ MaxJiffies + 1 >= 1
    BY CpuAssumption
  <2>2. (Multiplier + 1) * (MaxJiffies + 1) >= 2
    BY <2>1, CpuConstants
  <2> QED
    BY <2>2, CpuConstants
<1>7. CpuTypeOK
  <2>1. stat \in [Line -> [Field -> 0 .. LongValues - 1]]
    BY <1>1, <1>6, CpuConstants
  <2>2. /\ cpuData \in [Line -> [Field -> 0 .. LongValues - 1]]
        /\ cpuSum \in [Line -> -(IntValues \div 2) .. IntValues \div 2 - 1]
    <3>1. CASE Preload(stat)
      BY <1>3, <2>1, <3>1, Preloading
    <3>2. CASE \E read \in Misreads : Preload(read)
      BY <3>2, Preloading, Misreading
    <3> QED
      BY <1>2, <3>1, <3>2
  <2> QED
    BY <1>2, <1>3, <2>2 DEF CpuTypeOK
<1>8. Counted
  BY <1>2, <1>3, <1>5 DEF Counted
<1>9. Kept
  <2> SUFFICES ASSUME cpuUpto # <<>>, NEW l \in ReadLines, NEW g \in Flags(l)
               PROVE  /\ cpuData[l][g] = Unsigned(cpuUpto[l][g], LongValues)
                      /\ cpuSum[l] = Signed(LineSum(cpuUpto[l]), IntValues)
    BY DEF Kept
  <2>1. l \in Line /\ g \in Field /\ Flags(l) # {}
    BY CpuConstants
  <2>2. cpuUpto = stat /\ cpuData[l][g] = stat[l][g] /\ cpuSum[l] = Signed(LineSum(stat[l]), IntValues)
    BY <1>2, <2>1 DEF Preload, StoredSum
  <2>3. Unsigned(stat[l][g], LongValues) = stat[l][g]
    <3>1. LongValues \in Nat \ {0} /\ stat[l][g] \in 0 .. LongValues - 1
      BY <1>3, <1>6, <2>1, CpuConstants
    <3> HIDE DEF Line, Field
    <3> QED
      BY <3>1, InRange DEF Unsigned
  <2> QED
    BY <2>2, <2>3
<1>10. CpuShares
  BY <1>2 DEF CpuShares
<1> QED
  BY <1>7, <1>8, <1>9, <1>10 DEF CpuInv

LEMMA CpuWriteInv ==
  ASSUME CpuInv, CpuWrite
  PROVE  CpuInv'
<1>1. PICK read : /\ WriteShares(read)
                  /\ \/ read = stat /\ cpuUpto' = stat
                     \/ read \in Misreads /\ cpuUpto' = <<>>
  BY DEF CpuWrite
<1>2. cpuFrom' = cpuUpto /\ stat' = stat
  BY DEF CpuWrite
<1>3. /\ cpuOut' = [c \in Columns |-> Share(read, c[1], c[2])]
      /\ cpuData' = [l \in Line |-> ReadData(read, l)] /\ cpuSum' = [l \in Line |-> ReadSum(read, l)]
  BY <1>1 DEF WriteShares
<1>4. /\ stat \in [Line -> [Field -> Nat]]
      /\ cpuData \in [Line -> [Field -> 0 .. LongValues - 1]]
      /\ cpuSum \in [Line -> -(IntValues \div 2) .. IntValues \div 2 - 1]
  BY DEF CpuInv, CpuTypeOK
<1>5. read \in [Line -> [Field -> Nat]]
  BY <1>1, <1>4, Misreading
<1>6. CpuTypeOK'
  <2>1. \A c \in Columns : Share(read, c[1], c[2]) \in 0 .. IntValues - 1
    <3> SUFFICES ASSUME NEW c \in Columns
                 PROVE  Share(read, c[1], c[2]) \in 0 .. IntValues - 1
      OBVIOUS
    <3>1. c[1] \in Line /\ c[2] \in Field
      BY CpuConstants
    <3> QED
      BY <1>4, <1>5, <3>1, Reading
  <2>2. /\ cpuData' \in [Line -> [Field -> 0 .. LongValues - 1]]
        /\ cpuSum' \in [Line -> -(IntValues \div 2) .. IntValues \div 2 - 1]
    BY <1>3, <1>4, <1>5, Reading
  <2> QED
    BY <1>2, <1>3, <1>4, <2>1, <2>2 DEF CpuTypeOK
<1>7. Counted'
  <2>1. ASSUME cpuUpto' # <<>>
        PROVE  cpuUpto' \in [Line -> [Field -> Nat]] /\ \A l \in Line, f \in Field : cpuUpto'[l][f] <= stat'[l][f]
    BY <1>1, <1>2, <1>4, <2>1
  <2> QED
    BY <1>2, <2>1 DEF CpuInv, Counted
<1>8. Kept'
  <2> SUFFICES ASSUME cpuUpto' # <<>>, NEW l \in ReadLines, NEW f \in Flags(l)
               PROVE  /\ cpuData'[l][f] = Unsigned(cpuUpto'[l][f], LongValues)
                      /\ cpuSum'[l] = Signed(LineSum(cpuUpto'[l]), IntValues)
    BY DEF Kept
  <2>1. l \in Line /\ f \in Field /\ Flags(l) # {} /\ read = stat /\ cpuUpto' = stat
    BY <1>1, CpuConstants
  <2> QED
    BY <1>3, <2>1 DEF ReadData, ReadSum, StoredSum
<1>9. CpuShares'
  <2> SUFFICES ASSUME cpuUpto # <<>>, cpuUpto' # <<>>,
                      NEW c \in Columns, LineSum(cpuUpto[c[1]]) < IntValues \div 2
               PROVE  OutputIsShare(c)'
    BY <1>2, <1>3 DEF CpuShares, BothRead
  <2>1. c[1] \in ReadLines /\ c[2] \in Flags(c[1])
    BY DEF Columns
  <2>2. cpuOut'[c] = Share(stat, c[1], c[2]) /\ cpuUpto' = stat
    BY <1>1, <1>3
  <2> QED
    BY <1>2, <2>1, <2>2, ShareWritten DEF OutputIsShare, IsShare
<1> QED
  BY <1>6, <1>7, <1>8, <1>9 DEF CpuInv

LEMMA JiffyInv ==
  ASSUME CpuInv, NEW core \in 1 .. Cores, NEW f \in Field, Jiffy(core, f)
  PROVE  CpuInv'
<1>1. /\ stat' = [stat EXCEPT ![0][f] = @ + 1, ![core][f] = @ + 1] /\ LineSum(stat[0]) < MaxJiffies
      /\ cpuData' = cpuData /\ cpuSum' = cpuSum /\ cpuOut' = cpuOut /\ cpuFrom' = cpuFrom /\ cpuUpto' = cpuUpto
  BY DEF Jiffy
<1>2. stat \in [Line -> [Field -> Nat]] /\ 0 \in Line /\ core \in Line /\ core # 0
  BY CpuConstants DEF CpuInv, CpuTypeOK, Line
<1>3. /\ stat' \in [Line -> [Field -> Nat]]
      /\ stat'[0] = [stat[0] EXCEPT ![f] = @ + 1]
      /\ \A l \in Line, g \in Field :
           stat'[l][g] = stat[l][g] + IF l \in {0, core} /\ g = f THEN 1 ELSE 0
  BY <1>1, <1>2
<1>4. LineSum(stat'[0]) <= MaxJiffies + 1
  <2>1. stat[0] \in [Field -> Nat] /\ stat'[0] \in [Field -> Nat]
    BY <1>2, <1>3
  <2>2. LineSum(stat'[0]) = LineSum(stat[0]) + 1
    BY <1>3, <2>1, SumOfNext
  <2> QED
    BY <1>1, <1>2, <2>2, CountedSums, CpuConstants DEF CpuInv
<1>5. Counted'
  <2>1. ASSUME NEW l \in Line, NEW g \in Field
        PROVE  /\ cpuUpto # <<>> => cpuUpto[l][g] <= stat'[l][g]
               /\ stat'[l][g] <= stat'[0][g]
    <3>1. /\ cpuUpto # <<>> => cpuUpto[l][g] \in Nat /\ cpuUpto[l][g] <= stat[l][g]
          /\ stat[l][g] <= stat[0][g] /\ stat[l][g] \in Nat /\ stat[0][g] \in Nat
      BY <1>2, <2>1 DEF CpuInv, Counted
    <3>2. /\ stat'[l][g] = stat[l][g] + IF l \in {0, core} /\ g = f THEN 1 ELSE 0
          /\ stat'[0][g] = stat[0][g] + IF g = f THEN 1 ELSE 0
      BY <1>2, <1>3, <2>1
    <3> QED
      BY <3>1, <3>2
  <2> QED
    BY <1>1, <1>4, <2>1 DEF CpuInv, Counted
<1>6. CpuTypeOK'
  BY <1>1, <1>3 DEF CpuInv, CpuTypeOK
<1>7. Kept' /\ CpuShares'
  BY <1>1 DEF CpuInv, Kept, CpuShares, BothRead, OutputIsShare, IsShare
<1> QED
  BY <1>5, <1>6, <1>7 DEF CpuInv

LEMMA CpuStepInv ==
  ASSUME CpuInv, CpuWrite \/ (\E core \in 1 .. Cores, f \in Field : Jiffy(core, f)) \/ UNCHANGED cpuVars
  PROVE  CpuInv'
<1>1. CASE UNCHANGED cpuVars
  BY <1>1 DEF cpuVars, CpuInv, CpuTypeOK, Counted, Kept, CpuShares, BothRead, OutputIsShare, IsShare
<1> QED
  BY <1>1, CpuWriteInv, JiffyInv

-----------------------------------------------------------------------------
(* disk_activity.                                                          *)

LEMMA WordsInRange ==
  \A n \in Int : Word(n) \in 0 .. WordValues - 1
BY Division, DiskAssumption DEF Word

\* What a read gives, or a failed one leaves, is words.
LEMMA ReadWords ==
  ASSUME disk \in [DiskFlags -> Nat]
  PROVE  /\ DiskRead = [f \in DiskFlags |-> Word(disk[f])]
         /\ DiskRead \in [DiskFlags -> 0 .. WordValues - 1]
         /\ \A data : AfterDiskFailure(data) \subseteq [DiskFlags -> 0 .. WordValues - 1]
<1>1. DiskRead = [f \in DiskFlags |-> Word(disk[f])]
  BY DEF DiskRead, Word
<1>2. \A f \in DiskFlags : Word(disk[f]) \in 0 .. WordValues - 1
  BY WordsInRange
<1> QED
  BY <1>1, <1>2 DEF AfterDiskFailure

LEMMA DiskInitInv ==
  ASSUME DiskInit
  PROVE  DiskInv
<1>1. /\ disk \in [DiskFlags -> Nat] /\ changeOnly \in BOOLEAN
      /\ diskOut = <<>> /\ diskBase = <<>> /\ diskSum = [f \in DiskFlags |-> 0]
      /\ \/ diskData = DiskRead /\ diskUpto = disk
         \/ diskData \in AfterDiskFailure([f \in DiskFlags |-> 0]) /\ diskUpto = <<>>
  BY DEF DiskInit
<1>2. diskData \in [DiskFlags -> 0 .. WordValues - 1]
  BY <1>1, ReadWords
<1>3. diskUpto # <<>> => /\ diskUpto \in [DiskFlags -> Nat]
                         /\ diskData = [f \in DiskFlags |-> Word(diskUpto[f])]
                         /\ \A f \in DiskFlags : diskUpto[f] <= disk[f]
  BY <1>1, ReadWords
<1>4. 0 \in 0 .. WordValues - 1
  BY DiskAssumption
<1> QED
  BY <1>1, <1>2, <1>3, <1>4 DEF DiskInv, DiskTypeOK

LEMMA DiskWriteInv ==
  ASSUME DiskInv, DiskWrite
  PROVE  DiskInv'
<1>1. /\ disk' = disk /\ changeOnly' = changeOnly
      /\ \/ diskData' = DiskRead /\ diskUpto' = disk
         \/ diskData' \in AfterDiskFailure(diskData) /\ diskUpto' = <<>>
      /\ diskOut' = [f \in DiskFlags |-> IF changeOnly THEN Word(diskData'[f] - diskData[f])
                                         ELSE diskData'[f]]
      /\ Summed
  BY DEF DiskWrite, DiskNumbers, Word
<1>2. /\ disk \in [DiskFlags -> Nat] /\ diskData \in [DiskFlags -> 0 .. WordValues - 1]
      /\ diskSum \in [DiskFlags -> 0 .. WordValues - 1] /\ changeOnly \in BOOLEAN
  BY DEF DiskInv, DiskTypeOK
<1>3. diskData' \in [DiskFlags -> 0 .. WordValues - 1]
  BY <1>1, <1>2, ReadWords
<1>4. \A f \in DiskFlags : /\ diskData[f] \in Int /\ diskData'[f] \in Int /\ diskSum[f] \in Int
                           /\ diskData[f] \in 0 .. WordValues - 1
                           /\ diskData'[f] \in 0 .. WordValues - 1
  BY <1>2, <1>3
<1>5. diskOut' \in [DiskFlags -> 0 .. WordValues - 1]
  <2>1. \A f \in DiskFlags : Word(diskData'[f] - diskData[f]) \in 0 .. WordValues - 1
    BY <1>4, WordsInRange
  <2> QED
    BY <1>1, <1>4, <2>1
<1>6. diskSum' \in [DiskFlags -> 0 .. WordValues - 1]
  <2>1. CASE diskUpto # <<>>
    BY <1>1, <1>5, <2>1 DEF Summed
  <2>2. CASE diskUpto = <<>>
    <3>1. diskSum' = [f \in DiskFlags |-> Word(diskSum[f] + diskOut'[f])]
      BY <1>1, <2>2 DEF Summed, Word
    <3>2. \A f \in DiskFlags : diskSum[f] + diskOut'[f] \in Int
      BY <1>4, <1>5
    <3>3. \A f \in DiskFlags : Word(diskSum[f] + diskOut'[f]) \in 0 .. WordValues - 1
      BY <3>2, WordsInRange
    <3> QED
      BY <3>1, <3>3
  <2> QED
    BY <2>1, <2>2
<1>7. DiskTypeOK'
  BY <1>1, <1>2, <1>3, <1>5, <1>6 DEF DiskTypeOK
<1>8. diskUpto' # <<>> => /\ diskUpto' \in [DiskFlags -> Nat]
                          /\ diskData' = [f \in DiskFlags |-> Word(diskUpto'[f])]
                          /\ \A f \in DiskFlags : diskUpto'[f] <= disk'[f]
  BY <1>1, <1>2, ReadWords
<1>9. diskBase' # <<>> => /\ diskBase' \in [DiskFlags -> Nat]
                          /\ \A f \in DiskFlags : diskBase'[f] <= disk'[f]
                          /\ diskUpto' # <<>> => \A f \in DiskFlags : diskBase'[f] <= diskUpto'[f]
  <2>1. diskBase' = IF diskUpto # <<>> THEN diskUpto ELSE diskBase
    BY <1>1 DEF Summed
  <2>2. diskBase' # <<>> => /\ diskBase' \in [DiskFlags -> Nat]
                            /\ \A f \in DiskFlags : diskBase'[f] <= disk[f]
    BY <2>1 DEF DiskInv
  <2> QED
    BY <1>1, <2>2
<1>10. ASSUME diskBase' # <<>>, changeOnly, NEW f \in DiskFlags
       PROVE  diskSum'[f] = Word(diskData'[f] - Word(diskBase'[f]))
  <2>1. diskOut'[f] = Word(diskData'[f] - diskData[f])
    BY <1>1, <1>10
  <2>2. CASE diskUpto # <<>>
    <3>1. diskSum' = diskOut' /\ diskBase' = diskUpto /\ diskData[f] = Word(diskUpto[f])
      BY <1>1, <2>2 DEF Summed, DiskInv
    <3> QED
      BY <2>1, <3>1
  <2>3. CASE diskUpto = <<>>
    <3>1. /\ diskBase' = diskBase /\ diskSum'[f] = Word(diskSum[f] + diskOut'[f])
          /\ diskSum[f] = Word(diskData[f] - Word(diskBase[f]))
      BY <1>1, <1>10, <2>3 DEF Summed, DiskInv, Word
    <3>2. diskBase[f] \in Int
      BY <1>10, <3>1 DEF DiskInv
    <3>3. Word(diskBase[f]) \in Int
      BY <3>2, WordsInRange
    <3>4. Word(Word(diskData[f] - Word(diskBase[f])) + Word(diskData'[f] - diskData[f]))
            = Word(diskData'[f] - Word(diskBase[f]))
      <4>1. WordValues \in Nat \ {0}
        BY DiskAssumption
      <4> DEFINE a == Word(diskBase[f])
                 b == diskData[f]
                 c == diskData'[f]
      <4>2. a \in Int /\ b \in Int /\ c \in Int
        BY <1>4, <3>3
      <4> HIDE DEF a, b, c
      <4>3. (((b - a) % WordValues) + ((c - b) % WordValues)) % WordValues = (c - a) % WordValues
        BY <4>1, <4>2, WordSteps
      <4>4. Word(Word(b - a) + Word(c - b)) = Word(c - a)
        BY <4>3 DEF Word
      <4> QED
        BY <4>4 DEF a, b, c
    <3> QED
      BY <2>1, <3>1, <3>4
  <2> QED
    BY <2>2, <2>3
<1> QED
  BY <1>1, <1>7, <1>8, <1>9, <1>10 DEF DiskInv, Word

LEMMA DiskStepInv ==
  ASSUME DiskInv, DiskWrite \/ (\E f \in DiskFlags : DiskGrow(f)) \/ UNCHANGED diskVars
  PROVE  DiskInv'
<1>1. ASSUME NEW f \in DiskFlags, DiskGrow(f)
      PROVE  DiskInv'
  <2>1. /\ disk' = [disk EXCEPT ![f] = @ + 1]
        /\ changeOnly' = changeOnly /\ diskUpto' = diskUpto /\ diskBase' = diskBase
        /\ diskData' = diskData /\ diskOut' = diskOut /\ diskSum' = diskSum
    BY <1>1 DEF DiskGrow
  <2>2. disk \in [DiskFlags -> Nat]
    BY DEF DiskInv, DiskTypeOK
  <2>3. disk' \in [DiskFlags -> Nat] /\ \A g \in DiskFlags : disk[g] <= disk'[g]
    BY <2>1, <2>2
  <2>4. /\ diskUpto # <<>> => \A g \in DiskFlags : diskUpto[g] <= disk'[g]
        /\ diskBase # <<>> => \A g \in DiskFlags : diskBase[g] <= disk'[g]
    BY <2>2, <2>3 DEF DiskInv
  <2>5. DiskTypeOK'
    BY <2>1, <2>3 DEF DiskInv, DiskTypeOK
  <2> QED
    BY <2>1, <2>4, <2>5 DEF DiskInv, Word
<1>2. CASE UNCHANGED diskVars
  BY <1>2 DEF diskVars, DiskInv, DiskTypeOK, Word
<1> QED
  BY <1>1, <1>2, DiskWriteInv

LEMMA DiskConclusion ==
  ASSUME DiskInv
  PROVE  DiskGrowths
<1> SUFFICES ASSUME NEW f \in DOMAIN diskOut, changeOnly, diskBase # <<>>, diskUpto # <<>>,
                    DiskGrowth(f) < WordValues
             PROVE  diskSum[f] = DiskGrowth(f)
  BY DEF DiskGrowths, OutputIsGrowth
<1>1. f \in DiskFlags
  BY DEF DiskInv, DiskTypeOK
<1>2. diskSum[f] = Word(Word(diskUpto[f]) - Word(diskBase[f]))
  BY <1>1 DEF DiskInv
<1>3. /\ diskUpto[f] \in Int /\ diskBase[f] \in Int /\ WordValues \in Nat \ {0}
      /\ diskUpto[f] - diskBase[f] \in 0 .. WordValues - 1
  BY <1>1, DiskAssumption DEF DiskInv, DiskGrowth
<1> QED
  BY <1>2, <1>3, WordDifference DEF Word, DiskGrowth

-----------------------------------------------------------------------------
(* generic and time.                                                       *)

LEMMA GenericNumbers ==
  /\ \A n \in FileNumbers : n \in Int /\ NextInt64(n) \in Int /\ (n \in Nat => NextInt64(n) = n)
  /\ file \in FileNumbers => \A n \in Int : AfterFailure(n) \subseteq Int
  /\ NoNumber \notin Nat
BY GenericAssumption DEF NextInt64, AfterFailure

LEMMA GenericInitInv ==
  ASSUME GenericInit
  PROVE  GenericInv
<1>1. file \in FileNumbers /\ genOut = 0 /\ genFrom = genUpto
  BY DEF GenericInit
<1>2. /\ prev \in Int /\ genUpto \in FileNumbers \cup {NoNumber}
      /\ genUpto \in Nat => prev = genUpto
  BY GenericNumbers DEF GenericInit
<1> QED
  BY <1>1, <1>2 DEF GenericInv, GenericTypeOK, GenericOutputIsChange

LEMMA GenericStepInv ==
  ASSUME GenericInv, GenericWrite \/ FileChanges \/ UNCHANGED genericVars
  PROVE  GenericInv'
<1>1. CASE GenericWrite
  <2>1. /\ file' = file /\ genFrom' = genUpto /\ genOut' = prev' - prev
        /\ \/ prev' = NextInt64(file) /\ genUpto' = file
           \/ prev' \in AfterFailure(prev) /\ genUpto' = NoNumber
    BY <1>1 DEF GenericWrite
  <2>2. /\ prev \in Int /\ prev' \in Int /\ genUpto' \in FileNumbers \cup {NoNumber}
        /\ genUpto' \in Nat => prev' = genUpto'
    BY <2>1, GenericNumbers DEF GenericInv, GenericTypeOK
  <2>3. GenericTypeOK'
    BY <2>1, <2>2 DEF GenericInv, GenericTypeOK
  <2>4. GenericOutputIsChange'
    BY <2>1, <2>2 DEF GenericInv, GenericOutputIsChange
  <2> QED
    BY <2>2, <2>3, <2>4 DEF GenericInv
<1>2. CASE FileChanges \/ UNCHANGED genericVars
  BY <1>2 DEF FileChanges, genericVars, GenericInv, GenericTypeOK, GenericOutputIsChange
<1> QED
  BY <1>1, <1>2

LEMMA TimeInitInv ==
  ASSUME TimeInit
  PROVE  TimeInv
BY TimeAssumption DEF TimeInit, TimeInv, TimeTypeOK, TimeOutputChains

LEMMA TimeStepInv ==
  ASSUME TimeInv, TimeWrite \/ ClockMoves \/ UNCHANGED timeVars
  PROVE  TimeInv'
<1>1. CASE TimeWrite
  BY <1>1, TimeAssumption DEF TimeWrite, TimeInv, TimeTypeOK, TimeOutputChains
<1>2. CASE ClockMoves
  BY <1>2, TimeAssumption DEF ClockMoves, TimeInv, TimeTypeOK, TimeOutputChains
<1>3. CASE UNCHANGED timeVars
  BY <1>3 DEF timeVars, TimeInv, TimeTypeOK, TimeOutputChains
<1> QED
  BY <1>1, <1>2, <1>3

-----------------------------------------------------------------------------
(* ram.                                                                    *)

LEMMA Layouts ==
  ASSUME NEW layout \in MeminfoLayouts
  PROVE  /\ layout \in Seq(Key \cup {"other"}) /\ Len(layout) \in Nat \ {0}
         /\ DOMAIN layout = 1 .. Len(layout)
         /\ \A i, j \in DOMAIN layout :
              i < j /\ layout[i] # "other" /\ layout[j] # "other" => Before(layout[i], layout[j])
BY RamAssumption

\* A listed key is on its line, and any number noted is -1 or a line's.
LEMMA LineNumbers ==
  ASSUME meminfo \in MeminfoLayouts, NEW key \in Key
  PROVE  /\ LineNumber(key) \in -1 .. Len(meminfo) - 1
         /\ Listed(key) => LineNumber(key) # -1 /\ meminfo[LineNumber(key) + 1] = key
<1>1. meminfo \in Seq(Key \cup {"other"}) /\ Len(meminfo) \in Nat \ {0} /\ DOMAIN meminfo = 1 .. Len(meminfo)
  BY Layouts
<1>2. ASSUME Listed(key)
      PROVE  LineOf(key) \in DOMAIN meminfo /\ meminfo[LineOf(key)] = key
  BY <1>2 DEF Listed, LineOf, ToSet
<1> QED
  BY <1>1, <1>2 DEF LineNumber

\* The lines whose bits are set are lines of the file.
LEMMA SetLines ==
  ASSUME meminfo \in MeminfoLayouts, linesBitset \subseteq -1 .. Len(meminfo) - 1, -1 \notin linesBitset,
         NEW n \in linesBitset
  PROVE  n \in Nat /\ n + 1 \in DOMAIN meminfo
<1>1. Len(meminfo) \in Nat \ {0} /\ DOMAIN meminfo = 1 .. Len(meminfo)
  BY Layouts
<1>2. n \in -1 .. Len(meminfo) - 1 /\ n # -1
  OBVIOUS
<1> QED
  BY <1>1, <1>2

LEMMA KeysKnown == "other" \notin Key
<1>1. \A i \in DOMAIN Keys : Keys[i] # "other"
  BY DEF Keys
<1> QED
  BY <1>1 DEF Key, ToSet

LEMMA RamInitInv ==
  ASSUME RamInit
  PROVE  RamInv
<1>1. meminfo \in MeminfoLayouts /\ amounts = 0 /\ ramAsked \subseteq Key /\ ramOut = <<>>
  BY DEF RamInit
<1>2. \/ linesBitset = Refused
      \/ linesBitset = {LineNumber(key) : key \in ramAsked} /\ -1 \notin linesBitset
  BY DEF RamInit
<1>3. linesBitset \subseteq -1 .. Len(meminfo) - 1
  BY <1>1, <1>2, LineNumbers, Layouts DEF Refused
<1> QED
  BY <1>1, <1>2, <1>3, RamAssumption DEF RamInv, RamTypeOK

LEMMA RamStepInv ==
  ASSUME RamInv, RamWrite \/ MeminfoChanges \/ UNCHANGED ramVars
  PROVE  RamInv'
<1>1. CASE RamWrite
  <2>1. /\ linesBitset # Refused
        /\ \/ ramOut' = [n \in linesBitset |-> <<meminfo[n + 1], amounts>>]
           \/ ramOut' = <<>>
        /\ meminfo' = meminfo /\ amounts' = amounts /\ ramAsked' = ramAsked /\ linesBitset' = linesBitset
    BY <1>1 DEF RamWrite
  <2>2. linesBitset = {LineNumber(key) : key \in ramAsked} /\ -1 \notin linesBitset
    BY <2>1 DEF RamInv
  <2>3. \A n \in linesBitset : n + 1 \in DOMAIN meminfo
    BY <2>2, SetLines DEF RamInv, RamTypeOK
  <2>4. \A n \in linesBitset : meminfo[n + 1] \in Key \cup {"other"}
    BY <2>3, Layouts DEF RamInv
  <2>5. amounts \in 0 .. amounts
    BY RamAssumption DEF RamInv, RamTypeOK
  <2>6. RamTypeOK'
    <3>1. amounts' \in 0 .. MaxMeminfo /\ linesBitset' \subseteq -1 .. Len(meminfo') - 1
      BY <2>1 DEF RamInv, RamTypeOK
    <3>2. \A n \in DOMAIN ramOut' :
            /\ n \in linesBitset' /\ ramOut'[n][1] \in Key \cup {"other"}
            /\ ramOut'[n][2] \in 0 .. amounts'
      <4>1. CASE ramOut' = [n \in linesBitset |-> <<meminfo[n + 1], amounts>>]
        BY <2>1, <2>4, <2>5, <4>1
      <4>2. CASE ramOut' = <<>>
        BY <4>2
      <4> QED
        BY <2>1, <4>1, <4>2
    <3> QED
      BY <3>1, <3>2 DEF RamTypeOK
  <2>7. linesBitset' = {LineNumber(key)' : key \in ramAsked'} /\ -1 \notin linesBitset'
    BY <2>1, <2>2 DEF LineNumber, Listed, LineOf
  <2> QED
    BY <2>1, <2>5, <2>6, <2>7 DEF RamInv
<1>2. CASE MeminfoChanges
  <2>1. /\ amounts < MaxMeminfo /\ amounts' = amounts + 1
        /\ meminfo' = meminfo /\ ramAsked' = ramAsked /\ linesBitset' = linesBitset /\ ramOut' = ramOut
    BY <1>2 DEF MeminfoChanges
  <2>2. amounts \in Nat /\ amounts' \in 0 .. MaxMeminfo /\ 0 .. amounts \subseteq 0 .. amounts'
    BY <2>1, RamAssumption DEF RamInv, RamTypeOK
  <2>3. RamTypeOK'
    BY <2>1, <2>2 DEF RamInv, RamTypeOK
  <2>4. {LineNumber(key)' : key \in ramAsked'} = {LineNumber(key) : key \in ramAsked}
    BY <2>1 DEF LineNumber, Listed, LineOf
  <2> QED
    BY <2>1, <2>2, <2>3, <2>4 DEF RamInv
<1>3. CASE UNCHANGED ramVars
  <2>1. /\ amounts' = amounts /\ meminfo' = meminfo /\ ramAsked' = ramAsked
        /\ linesBitset' = linesBitset /\ ramOut' = ramOut
    BY <1>3 DEF ramVars
  <2>2. {LineNumber(key)' : key \in ramAsked'} = {LineNumber(key) : key \in ramAsked}
    BY <2>1 DEF LineNumber, Listed, LineOf
  <2> QED
    BY <2>1, <2>2 DEF RamInv, RamTypeOK
<1> QED
  BY <1>1, <1>2, <1>3

LEMMA RamConclusion ==
  ASSUME RamInv
  PROVE  RamAnswers
<1> SUFFICES ASSUME \A key \in ramAsked : Listed(key), ramOut # <<>>
             PROVE  /\ {ramOut[n][1] : n \in DOMAIN ramOut} = ramAsked
                    /\ \A m, n \in DOMAIN ramOut :
                         /\ m < n => Before(ramOut[m][1], ramOut[n][1])
                         /\ ramOut[m][2] = ramOut[n][2]
  BY DEF RamAnswers, OutputIsAsked
<1>1. PICK k \in 0 .. amounts : ramOut = [n \in linesBitset |-> <<meminfo[n + 1], k>>]
  BY DEF RamInv
<1>2. linesBitset = {LineNumber(key) : key \in ramAsked} /\ -1 \notin linesBitset
  BY DEF RamInv
<1>3. meminfo \in MeminfoLayouts /\ ramAsked \subseteq Key /\ linesBitset \subseteq -1 .. Len(meminfo) - 1
  BY DEF RamInv, RamTypeOK
<1>4. \A key \in ramAsked : meminfo[LineNumber(key) + 1] = key
  BY <1>3, LineNumbers
<1>5. {meminfo[n + 1] : n \in linesBitset} = ramAsked
  BY <1>2, <1>4
<1>6. DOMAIN ramOut = linesBitset
  BY <1>1
<1>7. \A n \in linesBitset : ramOut[n][1] = meminfo[n + 1] /\ ramOut[n][2] = k
  BY <1>1
<1>8. ASSUME NEW m \in linesBitset, NEW n \in linesBitset, m < n
      PROVE  Before(meminfo[m + 1], meminfo[n + 1])
  <2>1. m + 1 \in DOMAIN meminfo /\ n + 1 \in DOMAIN meminfo /\ m + 1 < n + 1
    BY <1>2, <1>3, <1>8, SetLines
  <2>2. meminfo[m + 1] \in Key /\ meminfo[n + 1] \in Key
    BY <1>3, <1>5
  <2>3. meminfo[m + 1] # "other" /\ meminfo[n + 1] # "other"
    BY <2>2, KeysKnown
  <2> QED
    BY <1>3, <2>1, <2>3, Layouts
<1> QED
  BY <1>5, <1>6, <1>7, <1>8

-----------------------------------------------------------------------------
(* Theorems.                                                               *)

LEMMA Invariance == Spec => []IInv
<1>1. Init => IInv
  BY CpuInitInv, DiskInitInv, GenericInitInv, TimeInitInv, RamInitInv DEF Init, IInv
<1>2. IInv /\ [Next]_vars => IInv'
  BY Steps, CpuStepInv, DiskStepInv, GenericStepInv, TimeStepInv, RamStepInv DEF IInv
<1> QED
  BY <1>1, <1>2, PTL DEF Spec

\* The numbers of all modules keep the widths of their integers, and ram reads no
\* line the file does not have, whichever modules are configured together.
THEOREM TypeCorrect == Spec => []TypeOK
<1>1. IInv => TypeOK
  BY DEF IInv, CpuInv, DiskInv, GenericInv, TimeInv, RamInv, TypeOK
<1> QED
  BY <1>1, Invariance, PTL

\* Every number of cpu is its field's share of its line's time between the last
\* two updates, to the nearest unit, while the line's sum fits in an int: for any
\* cores, fields and flags, and any widths of the integers.
THEOREM SharesWritten == Spec => []CpuShares
<1>1. IInv => CpuShares
  BY DEF IInv, CpuInv
<1> QED
  BY <1>1, Invariance, PTL

\* The numbers of disk_activity add up to what their counters grew by between any
\* two reads that did not fail, wherever the counters' words wrapped, however wide
\* a word is, and whatever failed reads made of the numbers in between.
THEOREM DiskGrowthsWritten == Spec => []DiskGrowths
<1>1. IInv => DiskGrowths
  BY DiskConclusion DEF IInv
<1> QED
  BY <1>1, Invariance, PTL

\* The differences of generic and of time lead from one number to the next,
\* whatever numbers the file holds and wherever the clock is set.
THEOREM DifferencesChain == Spec => []DiffsChain
<1>1. IInv => DiffsChain
  BY DEF IInv, GenericInv, TimeInv, DiffsChain
<1> QED
  BY <1>1, Invariance, PTL

\* When the keys asked for are in /proc/meminfo, ram writes the numbers of those
\* keys and no others, of one moment, in the README's order, wherever other lines
\* stand between them.
THEOREM AnswersInOrder == Spec => []RamAnswers
<1>1. IInv => RamAnswers
  BY RamConclusion DEF IInv
<1> QED
  BY <1>1, Invariance, PTL
=============================================================================
