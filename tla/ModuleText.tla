----------------------------- MODULE ModuleText ------------------------------
(***************************************************************************)
(* What the genmon programs have in common: each loads sys-mon's modules   *)
(* into its own process, has them write a line each into a local buffer,   *)
(* and reads the numbers of that text.  A module does not say that its     *)
(* file could not be read; its line is then made of what memory held.      *)
(***************************************************************************)
EXTENDS Scanf, Bars, FiniteSetsExt

CONSTANTS
  Sensors,    \* temperatures, and frequencies, a program reads (4)
  Reading,    \* what each module's file may give: sequences of numbers
  Thousand,   \* 1000
  TenthGB,    \* 100000, in kB
  Junk,       \* numbers that memory nobody has written may hold
  MaxUpdates, \* bound: updates of a program
  MaxFaults   \* bound: lines of an update whose file could not be read

Cpu == <<"cpu", 0>>
Ram == <<"ram", 0>>
Time == <<"time", 0>>
Gpu == <<"gpu_rc6", 0>>
Temps == [i \in 1 .. Sensors |-> <<"temp", i>>]
Freqs == [i \in 1 .. Sensors |-> <<"freq", i>>]
Line == {Cpu, Ram, Time, Gpu} \cup ToSet(Temps) \cup ToSet(Freqs)

ASSUME ModuleTextAssumption ==
  /\ Sensors \in Nat \ {0} /\ MaxFaults \in Nat /\ MaxUpdates \in Nat
  /\ Thousand \in Nat \ {0} /\ TenthGB \in Nat \ {0}
  /\ Junk \subseteq Int /\ Junk # {}
  /\ \A l \in Line : Reading[l] \subseteq Seq(Int)

\* What the modules are asked for: cpu for percentages of all cores together and
\* of each, the others for one number, which fits in an int.
ASSUME ReadingAssumption ==
  /\ IntValues > 200
  /\ \A r \in Reading[Cpu] : /\ Len(r) >= 9 /\ Len(r) >= 1 + 2 * Sensors
                              /\ \A i \in 1 .. Len(r) : r[i] \in 0 .. 100
  /\ \A l \in Line \ {Cpu} : \A r \in Reading[l] :
       Len(r) = 1 /\ r[1] \in -(IntValues \div 2) .. IntValues \div 2 - 1
  /\ \A r \in Reading[Ram] : r[1] >= 0

VARIABLES
  pc,       \* where the program is
  loaded,   \* how often each module is loaded and not unloaded
  text,     \* the module output; a local buffer
  lines,    \* how many lines it has
  shown,    \* what the program makes of its numbers: its text, or info_out
  updates,  \* updates begun, bounded by MaxUpdates
  act,      \* what it did about the memory in the last update
  failed    \* history: the lines whose file could not be read

textVars == <<loaded, text, lines, shown, updates, act, failed>>

\* The update returns.
TextEnds == text' = <<>> /\ lines' = 0 /\ failed' = {} /\ act' = "nothing"

\* Modules with a file that may be missing; the others' are in /proc.
OnDisk == Line \ {Cpu, Ram, Time}

\* An update begins.
Begin == updates < MaxUpdates /\ updates' = updates + 1 /\ pc' = "gather"

\* sys_mon_load_module for each module.  A file that is missing ends the program.
Load(modules) ==
  \/ /\ loaded' = [l \in Line |-> loaded[l] + IF l \in ToSet(modules) THEN 1 ELSE 0]
     /\ Begin
     /\ UNCHANGED <<text, lines, failed, shown, act>>
  \/ /\ ToSet(modules) \cap OnDisk # {}
     /\ pc' = "refused"
     /\ UNCHANGED textVars

\* sys_mon_unload_module for each of a set of modules.
Unload(modules) ==
  loaded' = [l \in Line |-> loaded[l] - IF l \in modules THEN 1 ELSE 0]

Tokens(numbers, from) == [i \in DOMAIN numbers |-> Number(numbers[i], from)]

\* What a module may write: a number per core of the machine, and the total, or
\* what its file gives.
Numbers(l, cores) ==
  IF l = Cpu THEN {SubSeq(r, 1, 1 + cores) : r \in Reading[Cpu]} ELSE Reading[l]

\* The line of a module that could not read its file.  cpu and a diff write
\* numbers of what they have; the others copy what their local buffer holds; the
\* clock is always there.
BadLines(l, cores) ==
  LET numbers == {Tokens([i \in DOMAIN r |-> j], l) : j \in Junk, r \in Numbers(l, cores)}
  IN CASE l = Time -> {}
       [] l \in {Cpu, Gpu} -> numbers
       [] OTHER -> numbers \cup {<<>>, <<Word(l)>>}

\* append_module_output for the next module.
AppendModuleOutput(modules, cores) ==
  LET l == modules[lines + 1]
  IN /\ pc = "gather" /\ lines < Len(modules)
     /\ \/ /\ \E r \in Numbers(l, cores) : text' = text \o Tokens(r, l) \o <<Newline>>
           /\ failed' = failed
        \/ /\ Cardinality(failed) < MaxFaults
           /\ \E bad \in BadLines(l, cores) : text' = text \o bad \o <<Newline>>
           /\ failed' = failed \cup {l}
     /\ lines' = lines + 1
     /\ UNCHANGED <<pc, loaded, shown, act, updates>>

Gathered(modules) == pc = "gather" /\ lines = Len(modules)

\* What sscanf may find in the text: behind it lies memory nobody has written,
\* unless the program has put an end to it.
Scans(format, terminated) ==
  {sscanf(text \o Tokens(beyond, <<"memory", 0>>), format).stored :
     beyond \in IF terminated THEN {<<>>} ELSE {<<>>} \cup [1 .. MaxFaults -> Junk]}

\* The n targets of a scan, where %d is stored into an unsigned int.
Targets(n, stored, old) ==
  Assign(n, [i \in DOMAIN stored |-> Unsigned(stored[i][1].n, IntValues)], old)

\* What n targets hold when the first stored of them were written and the others
\* are local variables nobody has written.
Unwritten(n, stored) == [Len(stored) + 1 .. n -> {Unsigned(j, IntValues) : j \in Junk}]

\* The numbers a module wrote in this update, when its file could be read.
Read(l) ==
  LET own == {i \in DOMAIN text : text[i].from = l}
  IN [k \in 1 .. Cardinality(own) |-> text[Min(own) + k - 1].n]

\* An update that read every file, and no number below 0.
Whole == pc = "updated" /\ failed = {} /\ \A i \in DOMAIN text : text[i].n >= 0

\* What a program does with that much memory, in tenths of a GB: pkill and beep.
Act(memory) == IF memory < 2 THEN "kill" ELSE IF memory < 5 THEN "beep" ELSE "nothing"

-----------------------------------------------------------------------------
TextTypeOK ==
  /\ loaded \in [Line -> 0 .. 1]
  /\ text \in Seq(Token)
  /\ updates \in 0 .. MaxUpdates
  /\ lines \in 0 .. 4 + 2 * Sensors
  /\ failed \subseteq Line
  /\ act \in {"nothing", "beep", "kill"}

\* The browsers are killed exactly when an update read less than 200 MB of memory,
\* if it could read the memory.
KillsJustified ==
  pc = "updated" /\ Len(text) > 0 /\ Read(Ram) # <<>> /\ Ram \notin failed =>
    (act = "kill" <=> Read(Ram)[1] < 2 * TenthGB)
=============================================================================
