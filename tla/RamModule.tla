------------------------------ MODULE RamModule ------------------------------
(***************************************************************************)
(* The module ram (modules/ram.c): at its start it notes on which line of  *)
(* /proc/meminfo each key is, and an update reads the lines asked for.     *)
(* What it writes is named by the lines, in whose order it is written.     *)
(***************************************************************************)
EXTENDS Integers, Sequences, SequencesExt

CONSTANTS MeminfoLayouts,   \* the orders of lines /proc/meminfo may have
          MaxMeminfo        \* bound: changes of /proc/meminfo

\* enum mem_info_key, in its order, which is the README's.
Keys == <<"total", "free", "available", "buffers", "cached">>
Key == ToSet(Keys)

Before(k, l) == \E i, j \in DOMAIN Keys : i < j /\ Keys[i] = k /\ Keys[j] = l

\* Lines with other keys are "other".  Linux writes the keys in this order.
ASSUME RamAssumption ==
  /\ MeminfoLayouts \subseteq Seq(Key \cup {"other"}) \ {<<>>}
  /\ \A layout \in MeminfoLayouts : \A i, j \in DOMAIN layout :
       i < j /\ layout[i] # "other" /\ layout[j] # "other" => Before(layout[i], layout[j])
  /\ MaxMeminfo \in Nat

VARIABLES
  meminfo,      \* the keys of the lines of /proc/meminfo
  amounts,      \* a number per line, here the count of changes so far
  ramAsked,     \* the keys in the arguments
  linesBitset,  \* lines_bitset: lines from 0, or Refused by check_key
  ramOut        \* what write_data wrote last: keys and amounts, if it could read

ramVars == <<meminfo, amounts, ramAsked, linesBitset, ramOut>>

Refused == {-1}

LineOf(key) == CHOOSE i \in DOMAIN meminfo : meminfo[i] = key
Listed(key) == key \in ToSet(meminfo)

\* Mutant: the lines are counted from 1.
LineNumberFromOne(key) ==
  IF Listed(key) THEN LineOf(key) ELSE IF key = "total" THEN -1 ELSE 0

\* Mutant: the line of MemAvailable is noted for both free and available.
LineNumberOfAvailable(key) ==
  LET noted == IF key = "free" /\ Listed("available") THEN "available" ELSE key
  IN IF Listed(noted) THEN LineOf(noted) - 1 ELSE IF key = "total" THEN -1 ELSE 0

\* line_numbers[key]: int line_numbers[5] = {-1} sets the first to -1 and the
\* others to 0.
LineNumber(key) ==
  IF Listed(key) THEN LineOf(key) - 1 ELSE IF key = "total" THEN -1 ELSE 0

\* init: check_key ends the daemon for a line number of -1.
RamInit ==
  /\ meminfo \in MeminfoLayouts
  /\ amounts = 0
  /\ ramAsked \in SUBSET Key \ {{}}
  /\ linesBitset = IF \E key \in ramAsked : LineNumber(key) = -1
                   THEN Refused ELSE {LineNumber(key) : key \in ramAsked}
  /\ ramOut = <<>>

MeminfoChanges ==
  /\ amounts < MaxMeminfo
  /\ amounts' = amounts + 1
  /\ UNCHANGED <<meminfo, ramAsked, linesBitset, ramOut>>

\* write_data: the second word of each line whose bit is set.  When a read fails,
\* which it does not look at, it writes words of what the buffer held: no numbers,
\* and nothing of them is kept.
RamWrite ==
  /\ linesBitset # Refused
  /\ \/ ramOut' = [n \in linesBitset |-> <<meminfo[n + 1], amounts>>]
     \/ ramOut' = <<>>
  /\ UNCHANGED <<meminfo, amounts, ramAsked, linesBitset>>

RamTypeOK ==
  /\ amounts \in 0 .. MaxMeminfo
  /\ linesBitset \subseteq -1 .. Len(meminfo) - 1
  /\ \A n \in DOMAIN ramOut :
       n \in linesBitset /\ ramOut[n][1] \in Key \cup {"other"} /\ ramOut[n][2] \in 0 .. amounts

-----------------------------------------------------------------------------
\* When /proc/meminfo lists every key asked for, the output has their numbers,
\* of one moment, in the order of the README.
OutputIsAsked ==
  (\A key \in ramAsked : Listed(key)) /\ ramOut # <<>> =>
    /\ {ramOut[n][1] : n \in DOMAIN ramOut} = ramAsked
    /\ \A m, n \in DOMAIN ramOut :
         /\ m < n => Before(ramOut[m][1], ramOut[n][1])
         /\ ramOut[m][2] = ramOut[n][2]
=============================================================================
