-------------------------------- MODULE Bars ---------------------------------
(***************************************************************************)
(* Bars and colours of the genmon programs, and the sorting network for    *)
(* the bars of the cores (block-bars-utils.c, sys-mon-pango.c).            *)
(***************************************************************************)
EXTENDS Words

CONSTANT IntValues    \* the values of int and of uint32_t: 2^32

ASSUME IntAssumption == IntValues \in Nat \ {0} /\ IntValues % 2 = 0

\* choose: which of n equal parts of min .. max val lies in.
choose(n, min, max, val) ==
  IF max = 0 THEN 0
  ELSE LET low == IF val < min THEN min ELSE val
           v   == IF low > max THEN max ELSE low
           idx == ((v - min) * n) \div (max - min)
       IN IF idx = n THEN n - 1 ELSE idx

\* bar_string and pie_string: the level of a bar with 11 levels, of a pie with 9,
\* for an unsigned value that choose takes for an int.
Level(n, max, value, showNonzero) ==
  LET idx == choose(n, 0, max, Signed(value, IntValues))
  IN IF idx = 0 /\ value > 0 /\ showNonzero THEN 1 ELSE idx
BarLevel(max, value) == Level(11, max, value, FALSE)
PieLevel(max, value) == Level(9, max, value, FALSE)

\* The cores' numbers, by two: core i and core i + 4 are a pair.
Core == 0 .. 7
Pair == 0 .. 3

\* The pairs in any order.
Order == {p \in [Pair -> Pair] : \A k, l \in Pair : p[k] = p[l] => k = l}

\* swap_pairs_if_greater_u32
swapPairsIfGreater(a) ==
  [i \in Core |-> IF i \in Pair
                  THEN IF a[i] > a[i + 4] THEN a[i + 4] ELSE a[i]
                  ELSE IF a[i - 4] > a[i] THEN a[i - 4] ELSE a[i]]

\* cswap_pair_u32
cswapPair(a, i, j) ==
  IF a[i] > a[j]
  THEN [a EXCEPT ![i] = a[j], ![j] = a[i], ![i + 4] = a[j + 4], ![j + 4] = a[i + 4]]
  ELSE a

\* Mutant: the last comparison is missing.
sort4PairsShort(a) ==
  cswapPair(cswapPair(cswapPair(cswapPair(a, 0, 1), 2, 3), 0, 2), 1, 3)

\* sort4_pairs_u32
sort4Pairs(a) ==
  cswapPair(cswapPair(cswapPair(cswapPair(cswapPair(a, 0, 1), 2, 3), 0, 2), 1, 3), 1, 2)
=============================================================================
