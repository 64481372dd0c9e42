------------------------------- MODULE Sources -------------------------------
(***************************************************************************)
(* The data sources of update(): the configured modules read their files   *)
(* in one update(), and the kernel changes the files between updates.      *)
(***************************************************************************)
EXTENDS CpuModule, DiskActivity, GenericModule, TimeModule, RamModule

CONSTANT Configs        \* the sets of modules a configuration may name

VARIABLE configured     \* modules[]

vars == <<configured, cpuVars, diskVars, genericVars, timeVars, ramVars>>

\* A module that is not configured has no part in what happens; its variables
\* stay at one state.
Part(name, action, otherwise) == IF name \in configured THEN action ELSE otherwise

Init ==
  /\ configured \in Configs
  /\ CpuInit /\ DiskInit /\ GenericInit /\ TimeInit /\ RamInit
  /\ Part("cpu", TRUE, LineSum(stat[0]) = 0 /\ cpuUpto # <<>>)
  /\ Part("disk_activity", TRUE, changeOnly /\ diskUpto = [f \in DiskFlags |-> 0])
  /\ Part("generic", TRUE, genUpto = (CHOOSE n \in FileNumbers : TRUE))
  /\ Part("ram", TRUE, meminfo = (CHOOSE l \in MeminfoLayouts : TRUE) /\ ramAsked = {"total"})

\* update(): modules[i].write_data for each module.
Update ==
  /\ Part("cpu", CpuWrite, UNCHANGED cpuVars)
  /\ Part("disk_activity", DiskWrite, UNCHANGED diskVars)
  /\ Part("generic", GenericWrite, UNCHANGED genericVars)
  /\ Part("time", TimeWrite, UNCHANGED timeVars)
  /\ Part("ram", RamWrite, UNCHANGED ramVars)
  /\ UNCHANGED configured

\* The kernel and the clock, between updates.
CpuWorks ==
  /\ "cpu" \in configured
  /\ \E core \in 1 .. Cores, f \in Field : Jiffy(core, f)
  /\ UNCHANGED <<configured, diskVars, genericVars, timeVars, ramVars>>

DiskWorks ==
  /\ "disk_activity" \in configured
  /\ \E f \in DiskFlags : DiskGrow(f)
  /\ UNCHANGED <<configured, cpuVars, genericVars, timeVars, ramVars>>

FileIsWritten ==
  /\ "generic" \in configured
  /\ FileChanges
  /\ UNCHANGED <<configured, cpuVars, diskVars, timeVars, ramVars>>

TimePasses ==
  /\ "time" \in configured
  /\ ClockMoves
  /\ UNCHANGED <<configured, cpuVars, diskVars, genericVars, ramVars>>

MemoryIsUsed ==
  /\ "ram" \in configured
  /\ MeminfoChanges
  /\ UNCHANGED <<configured, cpuVars, diskVars, genericVars, timeVars>>

Next == Update \/ CpuWorks \/ DiskWorks \/ FileIsWritten \/ TimePasses \/ MemoryIsUsed

Spec == Init /\ [][Next]_vars

-----------------------------------------------------------------------------
(* Properties.                                                             *)

TypeOK ==
  /\ configured \in Configs
  /\ CpuTypeOK /\ DiskTypeOK /\ GenericTypeOK /\ TimeTypeOK /\ RamTypeOK

\* Every number of cpu is the share of the time between the last two updates,
\* the time from the module's start to the first one included, as long as the
\* line's sum at the update before fits in an int: a failed read spoils no shares
\* but its own and the next.
CpuShares ==
  BothRead => \A c \in DOMAIN cpuOut :
                LineSum(cpuFrom[c[1]]) < IntValues \div 2 => OutputIsShare(c)

\* README on the flags of cpu: "overall cpu time spent in specific task in
\* percentage".  Every number of cpu is such a share.
CpuPercentages == BothRead => \A c \in DOMAIN cpuOut : OutputIsShare(c)

\* The numbers of disk_activity add up to what their counters grew by, wherever the
\* 32 bits wrap and however many reads failed on the way: no growth is lost with a
\* failed read or counted twice, and between two reads that did not fail a number
\* is the growth itself.
DiskGrowths == \A f \in DOMAIN diskOut : OutputIsGrowth(f)

\* The differences lead from one number to the next: a diff of generic is the
\* change of the file's number, and a failed read spoils no differences but its
\* own and the next; a diff of time is the one of the current times written, with
\* a clock that is set back as well.
DiffsChain == GenericOutputIsChange /\ TimeOutputChains

\* ram answers the keys that were asked for, in the README's order.
RamAnswers == OutputIsAsked
=============================================================================
