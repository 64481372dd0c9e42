-------------------------------- MODULE Panel --------------------------------
(***************************************************************************)
(* sys-mon-pango.c: the text of the panel.  The plugin reads twenty        *)
(* numbers from the module output and shows temperature, a bar per core,   *)
(* the gpu, the cpu and the memory; with little memory left it kills the   *)
(* browsers.  Its host is genmon.c, which calls each function once.        *)
(***************************************************************************)
EXTENDS ModuleText

NoPanel == [drawn |-> FALSE]

\* Mutant: ram writes its line after the sensors.
PanelModulesRamLater == <<Cpu>> \o Temps \o Freqs \o <<Ram, Time, Gpu>>

PanelModules == <<Cpu, Ram>> \o Temps \o Freqs \o <<Time, Gpu>>

\* "%d" for the total, 8 cores, mem, temp, freq, update_time_ms and gpu_rc6.
PanelFormat == Times(10 + 2 * Sensors + 2, Store("number"))

\* sys_mon_pango_init
PanelInit == Load(PanelModules)

\* The share of the time the gpu was not in rc6, cubed, in percent, of unsigned
\* numbers.  A negative share, and what is no number, shows as nothing.
gpuUsage(rc6, time) ==
  LET busy == time - rc6
      cube == (busy * busy * busy * 100) \div (time * time * time)
  IN IF time > 0 /\ rc6 <= time THEN cube ELSE -1

\* temp[i] > max_temp compares unsigned numbers; max_temp is an int.
MaxTemp(temps) ==
  LET max[i \in 0 .. Len(temps)] ==
        IF i = 0 THEN 0
        ELSE IF temps[i] > Unsigned(max[i - 1], IntValues) THEN Signed(temps[i], IntValues)
        ELSE max[i - 1]
  IN max[Len(temps)]

\* The order of the bars: the pairs, the core with the higher usage first.
BarOrder == <<0, 4, 1, 5, 2, 6, 3, 7>>

\* What the panel shows for what the targets hold.
Shown(v) ==
  LET idle   == [c \in Core |-> v[c + 2]]
      usage  == [c \in Core |-> Unsigned(100 - sort4Pairs(swapPairsIfGreater(idle))[c], IntValues)]
      temps  == SubSeq(v, 11, 10 + Sensors)
      time   == v[11 + 2 * Sensors]
      rc6    == v[12 + 2 * Sensors]
  IN [drawn  |-> TRUE,
      temp   |-> Unsigned(Quotient(MaxTemp(temps), Thousand), IntValues),
      bars   |-> [b \in 1 .. 8 |-> BarLevel(100, usage[BarOrder[b]])],
      gpu    |-> BarLevel(100, Unsigned(gpuUsage(rc6, time), IntValues)),
      cpu    |-> Unsigned(100 - v[1], IntValues),
      memory |-> v[10] \div TenthGB]

\* The rest of sys_mon_plugin_write_pango_string.  The text is far shorter than
\* the 1024 characters there are for it.
DrawPanel ==
  /\ Gathered(PanelModules)
  /\ \E stored \in Scans(PanelFormat, FALSE) :
       \E junk \in Unwritten(Len(PanelFormat), stored) :
         shown' = Shown(Targets(Len(PanelFormat), stored, junk))
  /\ act' = Act(shown'.memory)
  /\ pc' = "updated"
  /\ UNCHANGED <<loaded, text, lines, updates, failed>>

\* The return of the text, and sys_mon_pango_close, which does not unload gpu_rc6.
PanelClose ==
  /\ pc = "updated"
  /\ Unload(Line \ {Gpu})
  /\ TextEnds
  /\ pc' = "closed"
  /\ shown' = NoPanel
  /\ UNCHANGED updates

-----------------------------------------------------------------------------
IsLevel(l, n) == l \in 0 .. n - 1

PanelTypeOK ==
  \/ shown = NoPanel
  \/ /\ shown.temp \in Nat /\ shown.cpu \in Nat /\ shown.memory \in Nat
     /\ \A b \in 1 .. 8 : IsLevel(shown.bars[b], 11)
     /\ IsLevel(shown.gpu, 11)

\* The bars of the cores in a text whose cpu line was read: pairs of cores from
\* the busiest core's down, the busier core of each pair first, and each pair of
\* bars is that of two cores that are a pair.
PanelBarsSorted ==
  pc = "updated" /\ Cpu \notin failed =>
    LET level(c) == BarLevel(100, 100 - Read(Cpu)[c + 2])
        bars == shown.bars
    IN /\ \A k \in Pair : bars[2 * k + 1] >= bars[2 * k + 2]
       /\ \A k \in 0 .. 2 : bars[2 * k + 1] >= bars[2 * k + 3]
       /\ \E order \in Order :
            \A k \in Pair : {bars[2 * k + 1], bars[2 * k + 2]} =
                              {level(order[k]), level(order[k] + 4)}

\* What the panel shows after an update with no failed line is what it read.
PanelFresh ==
  Whole =>
    /\ shown.cpu = 100 - Read(Cpu)[1]
    /\ shown.memory = Read(Ram)[1] \div TenthGB
    /\ shown.temp = Max({Read(Temps[i])[1] : i \in 1 .. Sensors}) \div Thousand
=============================================================================
