----------------------------- MODULE SystemInfo ------------------------------
(***************************************************************************)
(* my-system-info.c and cpu-stats.c: the modules' numbers in a record that *)
(* lives as long as the program.  sscanf stores into the record itself,    *)
(* and the numbers are converted in place: a number that was not read is   *)
(* one of an earlier update, converted again.                              *)
(***************************************************************************)
EXTENDS ModuleText

Sensor == 1 .. Sensors

-----------------------------------------------------------------------------
(* my-system-info.c: a library whose host loads, updates and closes.       *)

ZeroInfo == [cpu |-> 0, core |-> [i \in Sensor |-> 0], freq |-> [i \in Sensor |-> 0],
             memory |-> 0, temp |-> 0, time |-> 0]

InfoModules == <<Cpu, Ram>> \o Temps \o Freqs \o <<Time>>

\* "%d" for the total, the cores, free_mem, temp, core_freq and update_time.
InfoFormat == Times(3 + 3 * Sensors, Store("number"))

\* The targets in the record; temp is a local array.
InfoTargets(temp) ==
  <<shown.cpu>> \o shown.core \o <<shown.memory>> \o temp \o shown.freq \o <<shown.time>>

\* Mutant: the highest temperature is never lowered.
InfoKeepsHottest(v) ==
  [cpu    |-> Unsigned(100 - v[1], IntValues),
   core   |-> [i \in Sensor |-> Unsigned(100 - v[1 + i], IntValues)],
   memory |-> v[2 + Sensors] \div TenthGB,
   temp   |-> Max({shown.temp} \cup {v[2 + Sensors + i] \div Thousand : i \in Sensor}),
   freq   |-> [i \in Sensor |-> v[2 + 2 * Sensors + i] \div Thousand],
   time   |-> v[3 + 3 * Sensors]]

\* What the record holds for what the targets hold.
Info(v) ==
  [cpu    |-> Unsigned(100 - v[1], IntValues),
   core   |-> [i \in Sensor |-> Unsigned(100 - v[1 + i], IntValues)],
   memory |-> v[2 + Sensors] \div TenthGB,
   temp   |-> Max({v[2 + Sensors + i] : i \in Sensor}) \div Thousand,
   freq   |-> [i \in Sensor |-> v[2 + 2 * Sensors + i] \div Thousand],
   time   |-> v[3 + 3 * Sensors]]

\* system_info_init
InfoInit == Load(InfoModules)

\* system_info_update after the module output.
InfoUpdate ==
  /\ Gathered(InfoModules)
  /\ \E stored \in Scans(InfoFormat, FALSE) :
       \E temp \in [Sensor -> {Unsigned(j, IntValues) : j \in Junk}] :
         shown' = Info(Targets(Len(InfoFormat), stored, InfoTargets(temp)))
  /\ act' = Act(shown'.memory)
  /\ pc' = "updated"
  /\ UNCHANGED <<loaded, text, lines, updates, failed>>

\* The update returns, and the host asks for another.
UpdateReturns ==
  /\ pc = "updated"
  /\ TextEnds
  /\ Begin
  /\ UNCHANGED <<loaded, shown>>

\* Mutant: the frequencies are not unloaded.
InfoCloseKeepsFreqs ==
  /\ pc = "updated"
  /\ Unload(ToSet(InfoModules) \ ToSet(Freqs))
  /\ TextEnds
  /\ pc' = "start"
  /\ UNCHANGED <<shown, updates>>

\* system_info_close; the record stays.
InfoClose ==
  /\ pc = "updated"
  /\ Unload(ToSet(InfoModules))
  /\ TextEnds
  /\ pc' = "start"
  /\ UNCHANGED <<shown, updates>>

-----------------------------------------------------------------------------
(* cpu-stats.c: a program that updates for ever.                           *)

ZeroStats == [core |-> [i \in Sensor |-> 0], freq |-> [i \in Sensor |-> 0],
              temp |-> [i \in Sensor |-> 0]]

StatsModules == <<Cpu>> \o Temps \o Freqs

\* "%d%d%d%d %*d%*d%*d%*d %d...": the total and all but the last of the first
\* cores, as many skipped, and the last core of all for the last one shown.
StatsFormat ==
  Times(Sensors, Store("number")) \o Times(Sensors, Skip("number"))
    \o Times(1 + 2 * Sensors, Store("number"))

\* core_usage[0] is a target twice, of the total first.
StatsTargets == <<shown.core[1]>> \o shown.core \o shown.temp \o shown.freq

Stats(v) ==
  [core |-> [i \in Sensor |-> Unsigned(100 - v[1 + i], IntValues)],
   temp |-> [i \in Sensor |-> v[1 + Sensors + i] \div Thousand],
   freq |-> [i \in Sensor |-> v[1 + 2 * Sensors + i] \div Thousand]]

StatsInit == Load(StatsModules)

StatsUpdate ==
  /\ Gathered(StatsModules)
  /\ \E stored \in Scans(StatsFormat, TRUE) :
       shown' = Stats(Targets(1 + 3 * Sensors, stored, StatsTargets))
  /\ pc' = "updated"
  /\ UNCHANGED <<loaded, text, lines, updates, act, failed>>

-----------------------------------------------------------------------------
(* What an update with no failed line leaves in the record is what it read,*)
(* whatever the updates before left there.                                 *)

Scaled(modules) == [i \in Sensor |-> Read(modules[i])[1] \div Thousand]

InfoFresh ==
  Whole =>
    shown = [cpu    |-> 100 - Read(Cpu)[1],
             core   |-> [i \in Sensor |-> 100 - Read(Cpu)[1 + i]],
             memory |-> Read(Ram)[1] \div TenthGB,
             temp   |-> Max({Scaled(Temps)[i] : i \in Sensor}),
             freq   |-> Scaled(Freqs),
             time   |-> Read(Time)[1]]

StatsFresh ==
  Whole =>
    shown = [core |-> [i \in Sensor |->
                         100 - Read(Cpu)[IF i = Sensors THEN 1 + 2 * Sensors ELSE 1 + i]],
             temp |-> Scaled(Temps),
             freq |-> Scaled(Freqs)]
=============================================================================
