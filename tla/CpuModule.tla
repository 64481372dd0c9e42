------------------------------ MODULE CpuModule ------------------------------
(***************************************************************************)
(* The module cpu (modules/cpu.c): shares of cpu time, in total and per    *)
(* core, between two reads of /proc/stat.  Line 0 of /proc/stat is the     *)
(* total, line i core i.  The sum of a line is kept in an int, although it *)
(* is computed in 64 bits.  The numbers of the output are named by their   *)
(* lines and fields, in whose order they are written.  A read of the file  *)
(* may fail, which the module does not notice.                             *)
(***************************************************************************)
EXTENDS Words

CONSTANTS Cores,        \* cores /proc/stat lists
          FieldsN,      \* FIELDS
          TotalFlags,   \* the fields asked for with total_
          CoreFlags,    \* the fields asked for per core
          Multiplier,   \* MODULE_CPU_MULTIPLIER
          IntValues,    \* the values of int and of uint32_t: 2^32
          LongValues,   \* the values of uint64_t: 2^64
          Misreads,     \* the numbers lines may seem to have when a read fails
          MaxJiffies    \* bound: clock ticks the kernel accounts

Field == 0 .. FieldsN - 1
Line == 0 .. Cores

\* With per-core flags alone the code allocates one cpu_stats slot too few and
\* uses memory that is not its own: not modelled.  All ticks of a machine times
\* the multiplier fit in 64 bits: at 100 Hz, for millions of years.
ASSUME CpuAssumption ==
  /\ Cores \in Nat \ {0} /\ FieldsN \in Nat \ {0}
  /\ TotalFlags \subseteq Field /\ CoreFlags \subseteq Field
  /\ TotalFlags # {}
  /\ IntValues \in Nat \ {0} /\ IntValues % 2 = 0
  /\ LongValues \in Nat /\ LongValues >= IntValues
  /\ Multiplier \in 1 .. IntValues - 1
  /\ Misreads \subseteq [Line -> [Field -> 0 .. LongValues - 1]]
  /\ MaxJiffies \in Nat /\ (Multiplier + 1) * (MaxJiffies + 1) <= LongValues

VARIABLES
  stat,     \* /proc/stat
  cpuData,  \* cpu_stats[line].data
  cpuSum,   \* cpu_stats[line].sum
  cpuOut,   \* the numbers write_data wrote last
  cpuFrom,  \* history: /proc/stat at the read before the last one, or <<>> if
            \* that failed
  cpuUpto   \* history: the same for the last read

cpuVars == <<stat, cpuData, cpuSum, cpuOut, cpuFrom, cpuUpto>>

\* The sum of a line's counters, field by field.
LineSum(counters) ==
  LET upto[n \in 0 .. FieldsN] == IF n = 0 THEN 0 ELSE upto[n - 1] + counters[n - 1]
  IN upto[FieldsN]

\* flags >> (line ? FIELDS_SHIFT_ALL : 0) & 0xFFFF
Flags(line) == IF line = 0 THEN TotalFlags ELSE CoreFlags

\* The cores are counted only when a per-core flag needs them.
ReadLines == IF CoreFlags = {} THEN {0} ELSE Line

\* The numbers of the output: lines and their fields.
Columns == {c \in ReadLines \X Field : c[2] \in Flags(c[1])}

\* cpu_stats->sum = sum
StoredSum(x) == Signed(x, IntValues)

\* handle_stat_line: what the line's slot holds after a read of these numbers.
ReadData(read, line) ==
  [f \in Field |-> IF line \in ReadLines /\ f \in Flags(line)
                   THEN Unsigned(read[line][f], LongValues) ELSE cpuData[line][f]]

ReadSum(read, line) ==
  IF line \in ReadLines /\ Flags(line) # {}
  THEN StoredSum(LineSum(read[line])) ELSE cpuSum[line]

\* sum - cpu_stats->sum in 64 bits, and 1 for 0.
SumDiff(read, line) ==
  LET diff == Unsigned(LineSum(read[line]) - cpuSum[line], LongValues)
  IN IF diff = 0 THEN 1 ELSE diff

\* tenth_of_percent
Share(read, line, f) ==
  LET diff == Unsigned(read[line][f] - cpuData[line][f], LongValues)
      rounded == Unsigned(diff * Multiplier + SumDiff(read, line) \div 2, LongValues)
  IN Unsigned(rounded \div SumDiff(read, line), IntValues)

\* Mutant: the first numbers are shares of the time since the boot.
NoPreload(read) ==
  /\ cpuData = [l \in Line |-> [f \in Field |-> 0]]
  /\ cpuSum = [l \in Line |-> 0]

\* preload_data, on the zeros of calloc.
Preload(read) ==
  /\ cpuData = [l \in Line |-> [f \in Field |->
                  IF l \in ReadLines /\ f \in Flags(l) THEN read[l][f] ELSE 0]]
  /\ cpuSum = [l \in Line |->
                  IF l \in ReadLines /\ Flags(l) # {}
                  THEN StoredSum(LineSum(read[l])) ELSE 0]

CpuInit ==
  /\ \E c \in 1 .. Cores, f \in Field, n \in 0 .. 1 :
       stat = [l \in Line |-> [g \in Field |-> IF l \in {0, c} /\ g = f THEN n ELSE 0]]
  /\ \/ Preload(stat) /\ cpuUpto = stat
     \/ (\E read \in Misreads : Preload(read)) /\ cpuUpto = <<>>
  /\ cpuOut = <<>>
  /\ cpuFrom = cpuUpto

\* The kernel accounts a tick to a core and to the total.
Jiffy(core, f) ==
  /\ LineSum(stat[0]) < MaxJiffies
  /\ stat' = [stat EXCEPT ![0][f] = @ + 1, ![core][f] = @ + 1]
  /\ UNCHANGED <<cpuData, cpuSum, cpuOut, cpuFrom, cpuUpto>>

WriteShares(read) ==
  /\ cpuOut' = [c \in Columns |-> Share(read, c[1], c[2])]
  /\ cpuData' = [l \in Line |-> ReadData(read, l)]
  /\ cpuSum' = [l \in Line |-> ReadSum(read, l)]

\* write_data, which does not look at what the reads returned: a number that could
\* not be read is what the uninitialised value holds, or stands on another line.
CpuWrite ==
  /\ \/ WriteShares(stat) /\ cpuUpto' = stat
     \/ (\E read \in Misreads : WriteShares(read)) /\ cpuUpto' = <<>>
  /\ cpuFrom' = cpuUpto
  /\ UNCHANGED stat

CpuTypeOK ==
  /\ stat \in [Line -> [Field -> Nat]]
  /\ cpuData \in [Line -> [Field -> 0 .. LongValues - 1]]
  /\ cpuSum \in [Line -> -(IntValues \div 2) .. IntValues \div 2 - 1]
  /\ cpuOut \in [Columns -> 0 .. IntValues - 1] \cup {<<>>}

-----------------------------------------------------------------------------
\* value is the field's share of the line's time between the last two reads, in
\* units of 1/Multiplier, to the nearest unit.
IsShare(value, line, f) ==
  LET part  == cpuUpto[line][f] - cpuFrom[line][f]
      whole == LineSum(cpuUpto[line]) - LineSum(cpuFrom[line])
      error == value * whole - part * Multiplier
  IN IF whole = 0 THEN value = 0 ELSE 2 * error \in -whole .. whole

\* Both reads a number is about were those of the file.
BothRead == <<>> \notin {cpuFrom, cpuUpto}

OutputIsShare(c) == IsShare(cpuOut[c], c[1], c[2])
=============================================================================
