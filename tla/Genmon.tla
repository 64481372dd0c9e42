------------------------------- MODULE Genmon --------------------------------
(***************************************************************************)
(* The programs of genmon/: genmon.c, which prints the panel's text and    *)
(* then the tooltip's, each once; a host of the library my-system-info;    *)
(* and cpu-stats.  What is printed reaches the panel when the program      *)
(* exits: its output is a pipe and is buffered.                            *)
(***************************************************************************)
EXTENDS Panel, SystemInfo, Tooltip

VARIABLES
  program,  \* "genmon", "my-system-info" or "cpu-stats"
  stdout,   \* the buffer of stdout
  received  \* what the panel got

vars == <<program, pc, textVars, tooltipVars, stdout, received>>
outVars == <<tooltipVars, stdout, received>>

Init ==
  /\ program \in {"genmon", "my-system-info", "cpu-stats"}
  /\ pc = "start"
  /\ loaded = [l \in Line |-> 0]
  /\ text = <<>> /\ lines = 0 /\ failed = {}
  /\ shown = CASE program = "genmon" -> NoPanel
               [] program = "my-system-info" -> ZeroInfo
               [] OTHER -> ZeroStats
  /\ act = "nothing" /\ updates = 0
  /\ TooltipInit
  /\ stdout = <<>> /\ received = <<>>

\* printf of the panel's text, and on to the tooltip.
PrintPanel ==
  /\ pc = "closed"
  /\ stdout' = <<"panel">>
  /\ pc' = "tooltip"
  /\ UNCHANGED <<textVars, tooltipVars, received>>

WriteTooltip ==
  /\ pc = "tooltip"
  /\ TooltipNext
  /\ UNCHANGED <<pc, textVars, stdout, received>>

\* printf of the tooltip, and the end of main.
Exit ==
  /\ pc = "tooltip" /\ section = "end"
  /\ pc' = "exited"
  /\ stdout' = <<>>
  /\ received' = Append(stdout, "tooltip")
  /\ UNCHANGED <<textVars, tooltipVars>>

\* The end of a process that is killed: what was printed is lost.
Killed ==
  /\ pc = "tooltip" /\ section = "crashed"
  /\ pc' = "killed"
  /\ stdout' = <<>>
  /\ UNCHANGED <<textVars, tooltipVars, received>>

\* The tooltip of genmon.c.
TooltipStep == WriteTooltip \/ Exit \/ Killed

GenmonNext ==
  /\ program = "genmon"
  /\ \/ /\ \/ pc = "start" /\ PanelInit
           \/ AppendModuleOutput(PanelModules, 8)
           \/ DrawPanel
           \/ PanelClose
        /\ UNCHANGED outVars
     \/ PrintPanel
     \/ TooltipStep

SystemInfoNext ==
  /\ program = "my-system-info"
  /\ \/ pc = "start" /\ InfoInit
     \/ AppendModuleOutput(InfoModules, Sensors)
     \/ InfoUpdate
     \/ UpdateReturns
     \/ InfoClose
  /\ UNCHANGED outVars

CpuStatsNext ==
  /\ program = "cpu-stats"
  /\ \/ pc = "start" /\ StatsInit
     \/ AppendModuleOutput(StatsModules, 2 * Sensors)
     \/ StatsUpdate
     \/ UpdateReturns
  /\ UNCHANGED outVars

Next == (GenmonNext \/ SystemInfoNext \/ CpuStatsNext) /\ UNCHANGED program

Spec == Init /\ [][Next]_vars

\* The tooltip is sequential code, and the commands it runs come to their end.
FairSpec == Spec /\ WF_vars(TooltipStep /\ UNCHANGED program)

-----------------------------------------------------------------------------
(* Properties.                                                             *)

TypeOK ==
  /\ pc \in {"start", "refused", "gather", "updated", "closed", "tooltip", "exited", "killed"}
  /\ TextTypeOK
  /\ program = "genmon" => PanelTypeOK
  /\ TooltipTypeOK
  /\ stdout \in {<<>>, <<"panel">>}

\* The bars of the cores are those of the cores, sorted in pairs.
BarsSorted == program = "genmon" => PanelBarsSorted

\* An update that could read everything shows what it read, whatever the updates
\* before it left behind.
FreshWhenWhole ==
  CASE program = "genmon" -> PanelFresh
    [] program = "my-system-info" -> InfoFresh
    [] OTHER -> StatsFresh

\* Incomplete lines of df spoil no row but their own and the next.
RowsResync == TooltipRowsResync

\* A swap that kills the tooltip: no line, a size that is 0 as an int, or a product
\* that the division cannot take.
SwapBad ==
  LET line == sscanf(output, <<Store("word"), Store("number"), Store("number")>>).stored
  IN Len(line) < 3 \/ Traps(Hundredfold(Signed(line[3][1].n, IntValues)), Signed(line[2][1].n, IntValues))

\* A tooltip that is begun ends, whatever the commands print, and then the panel has
\* received both texts, unless it was killed over swap.
TextsAppear ==
  pc = "tooltip" ~>
    \/ pc = "exited" /\ received = <<"panel", "tooltip">>
    \/ pc = "killed" /\ SwapBad
=============================================================================
