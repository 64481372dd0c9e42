---------------------------- MODULE DiskActivity ----------------------------
(***************************************************************************)
(* The module disk_activity (modules/disk_activity.c): counters of         *)
(* /sys/block/X/stat, or what they grew by, in 32 bits.  The numbers of    *)
(* the output are named by their flags, in whose order they are written.   *)
(* A read of the file may fail, which the module does not notice.          *)
(***************************************************************************)
EXTENDS Integers

CONSTANTS DiskFlags,    \* fields_bitset: the counters asked for
          WordValues,   \* the values of uint32_t: 2^32
          StaleWords,   \* numbers a failed read may make of what other files left
                        \* in the read buffer and of parts of this one's
          MaxDisk       \* bound: how far a counter grows

ASSUME DiskAssumption ==
  /\ DiskFlags \subseteq 0 .. 7 /\ DiskFlags # {}
  /\ WordValues \in Nat \ {0} /\ StaleWords \subseteq 0 .. WordValues - 1
  /\ MaxDisk \in Nat

VARIABLES
  disk,         \* the counters in the file
  changeOnly,   \* change_only: no "total" in the arguments
  diskData,     \* data[]
  diskOut,      \* the numbers write_data wrote last
  diskUpto,     \* history: the counters at the last read, or <<>> if it failed
  diskBase,     \* history: the counters at the last read before that one that
                \* did not fail, or <<>>
  diskSum       \* history: the words written since diskBase was read, added up

diskVars == <<disk, changeOnly, diskData, diskOut, diskUpto, diskBase, diskSum>>

\* update_data: read_next_uint32 keeps the low bits of each number.
DiskRead == [f \in DiskFlags |-> disk[f] % WordValues]

\* After a read that failed the parser goes on with what is left in the buffer: an
\* error leaves a number as it was, a character that is no digit gives 0, a digit
\* some other number, and a read that is repeated may give a number of the file in
\* the place of another.
AfterDiskFailure(data) ==
  {d \in [DiskFlags -> 0 .. WordValues - 1] :
     \A f \in DiskFlags :
       d[f] \in {data[f], 0} \cup StaleWords \cup {DiskRead[g] : g \in DiskFlags}}

\* init, on the zeros of calloc.
DiskInit ==
  /\ changeOnly \in BOOLEAN
  /\ \E n \in 0 .. 1 : disk = [f \in DiskFlags |-> n]
  /\ \/ diskData = DiskRead /\ diskUpto = disk
     \/ diskData \in AfterDiskFailure([f \in DiskFlags |-> 0]) /\ diskUpto = <<>>
  /\ diskOut = <<>>
  /\ diskBase = <<>>
  /\ diskSum = [f \in DiskFlags |-> 0]

DiskGrow(f) ==
  /\ disk[f] < MaxDisk
  /\ disk' = [disk EXCEPT ![f] = @ + 1]
  /\ UNCHANGED <<changeOnly, diskData, diskOut, diskUpto, diskBase, diskSum>>

\* What is written of data behind the numbers of the read before.
DiskNumbers(data) ==
  [f \in DiskFlags |-> IF changeOnly THEN (data[f] - diskData[f]) % WordValues ELSE data[f]]

\* History: a read that did not fail begins a new sum.
Summed ==
  IF diskUpto # <<>>
  THEN diskBase' = diskUpto /\ diskSum' = diskOut'
  ELSE /\ diskBase' = diskBase
       /\ diskSum' = [f \in DiskFlags |-> (diskSum[f] + diskOut'[f]) % WordValues]

\* Mutant: the difference is taken to the first read.
DiskWriteKeepsData ==
  /\ diskOut' = DiskNumbers(DiskRead)
  /\ diskUpto' = disk
  /\ Summed
  /\ UNCHANGED <<disk, changeOnly, diskData>>

\* write_data, which does not look at what the reads returned.
DiskWrite ==
  /\ \/ diskData' = DiskRead /\ diskUpto' = disk
     \/ diskData' \in AfterDiskFailure(diskData) /\ diskUpto' = <<>>
  /\ diskOut' = DiskNumbers(diskData')
  /\ Summed
  /\ UNCHANGED <<disk, changeOnly>>

DiskTypeOK ==
  /\ disk \in [DiskFlags -> Nat]
  /\ changeOnly \in BOOLEAN
  /\ diskData \in [DiskFlags -> 0 .. WordValues - 1]
  /\ diskOut \in [DiskFlags -> 0 .. WordValues - 1] \cup {<<>>}
  /\ diskSum \in [DiskFlags -> 0 .. WordValues - 1]

-----------------------------------------------------------------------------
DiskGrowth(f) == diskUpto[f] - diskBase[f]

\* What was written of f since the read of diskBase adds up to the counter's
\* growth, counters past 32 bits included, when that growth fits in a word.  With
\* no failed read in between that is the number written last.
OutputIsGrowth(f) ==
  changeOnly /\ diskBase # <<>> /\ diskUpto # <<>> /\ DiskGrowth(f) < WordValues
    => diskSum[f] = DiskGrowth(f)
=============================================================================
