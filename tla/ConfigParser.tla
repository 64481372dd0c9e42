---------------------------- MODULE ConfigParser -----------------------------
(***************************************************************************)
(* The configuration file (sys-mon.c: parse_config, section_config and the *)
(* two section parsers, which call each other at each section header).     *)
(*                                                                         *)
(* A line is what one fgets gives.  A comment or a module line of the file *)
(* longer than MAX_CONF_LINE_SIZE comes as several of them, which begin    *)
(* with one whose value is "cut"; the check for lines too long never finds *)
(* one, for fgets gives at most MAX_CONF_LINE_SIZE characters.             *)
(***************************************************************************)
EXTENDS Naturals, Sequences, SequencesExt, FiniteSets, FiniteSetsExt

CONSTANTS Modules,      \* module lines that load
          MaxModules,   \* MAX_MODULES
          MaxLines      \* bound: lines of a file

ASSUME ConfigAssumption ==
  MaxModules \in Nat /\ MaxLines \in Nat /\ {"unknown", "auto-update"} \cap Modules = {}

Section == {"sys-mon", "modules"}
Params == {"auto_update", "update_ms", "name"}
ConfLine(kind, what, value) == [kind |-> kind, what |-> what, value |-> value]

\* Lines by what the parsers tell apart: a header of no section, a module that
\* does not load, and settings that are not accepted are among them.
Lines ==
  {ConfLine("blank", "", ""), ConfLine("comment", "", ""), ConfLine("bare", "", "")}
    \cup {ConfLine("comment", "", "cut")} \cup {ConfLine("module", m, "cut") : m \in Modules}
    \cup {ConfLine("header", s, "") : s \in Section \cup {"unknown"}}
    \cup {ConfLine("module", m, "") : m \in Modules \cup {"unknown"}}
    \cup {ConfLine("set", "auto_update", v) : v \in {"true", "false", "yes"}}
    \cup {ConfLine("set", "update_ms", v) : v \in {"1000", "fast"}}
    \cup {ConfLine("set", "name", v) : v \in {"short", "tooLong"}}
    \cup {ConfLine("set", "unknown", ""), ConfLine("set", "auto-update", "true")}

VARIABLES
  conf,       \* the lines of the file
  place,      \* how many of them fgets has given
  section,    \* the parser that runs
  modules,    \* modules[0 .. modules_n - 1]
  autoUpdate, \* sys_mon_config.auto_update
  updateMs,   \* sys_mon_config.update_ms
  shmName,    \* shm_name_buff
  status      \* "parsing", "accepted" or "refused": exit_with_error

settings == <<autoUpdate, updateMs, shmName>>
vars == <<conf, place, section, modules, settings, status>>

\* What is left of a line that was cut comes next.
Init ==
  /\ conf \in {file \in BoundedSeq(Lines, MaxLines) : file # <<>> => Last(file).value # "cut"}
  /\ place = 0
  /\ section = "sys-mon"
  /\ modules = <<>>
  /\ autoUpdate = FALSE
  /\ updateMs = 2000
  /\ shmName = "sys-mon"
  /\ status = "parsing"

-----------------------------------------------------------------------------
Reading == status = "parsing" /\ place < Len(conf)
Line == conf[place + 1]

\* exit_with_error
Refuse == status' = "refused" /\ UNCHANGED <<conf, place, section, modules, settings>>

\* Mutant: comments are for both sections.
SkipLineAnywhere ==
  /\ Reading
  /\ Line.kind \in {"blank", "comment"}
  /\ place' = place + 1
  /\ UNCHANGED <<conf, section, modules, settings, status>>

\* Blank lines, and comments in [modules] only.
SkipLine ==
  /\ Reading
  /\ Line.kind = "blank" \/ (Line.kind = "comment" /\ section = "modules")
  /\ place' = place + 1
  /\ UNCHANGED <<conf, section, modules, settings, status>>

\* section_config
SectionConfig ==
  /\ Reading
  /\ Line.kind = "header"
  /\ IF Line.what \in Section
     THEN /\ section' = Line.what
          /\ place' = place + 1
          /\ UNCHANGED <<conf, modules, settings, status>>
     ELSE Refuse

\* Mutant: one module more than modules[] holds.
LoadModuleTooMany ==
  /\ Reading
  /\ section = "modules" /\ Line.kind \in {"module", "set", "bare"}
  /\ IF Line.kind = "module" /\ Line.what \in Modules /\ Len(modules) <= MaxModules
     THEN /\ modules' = Append(modules, Line.what)
          /\ place' = place + 1
          /\ UNCHANGED <<conf, section, settings, status>>
     ELSE Refuse

\* sys_mon_load_module, which ends the daemon when there is no such module or
\* its init fails.
LoadModule ==
  /\ Reading
  /\ section = "modules" /\ Line.kind \in {"module", "set", "bare"}
  /\ IF Line.kind = "module" /\ Line.what \in Modules /\ Len(modules) # MaxModules
     THEN /\ modules' = Append(modules, Line.what)
          /\ place' = place + 1
          /\ UNCHANGED <<conf, section, settings, status>>
     ELSE Refuse

\* Mutant: a setting counts only the first time.
ApplyFirst(param, value) ==
  /\ autoUpdate' = IF param = "auto_update" THEN autoUpdate \/ value = "true" ELSE autoUpdate
  /\ updateMs' = IF param = "update_ms" THEN IF value = "1000" THEN 1000 ELSE 0 ELSE updateMs
  /\ shmName' = IF param = "name" THEN value ELSE shmName

\* atoi gives 0 for what is not a number.
Apply(param, value) ==
  /\ autoUpdate' = IF param = "auto_update" THEN value = "true" ELSE autoUpdate
  /\ updateMs' = IF param = "update_ms" THEN IF value = "1000" THEN 1000 ELSE 0 ELSE updateMs
  /\ shmName' = IF param = "name" THEN value ELSE shmName

\* A line of [sys-mon] and of what comes before the first header.
SetParam ==
  /\ Reading
  /\ section = "sys-mon" /\ Line.kind \notin {"blank", "header"}
  /\ IF Line.kind = "set" /\ Line.what \in Params /\ Line.value \notin {"yes", "tooLong"}
     THEN /\ Apply(Line.what, Line.value)
          /\ place' = place + 1
          /\ UNCHANGED <<conf, section, modules, status>>
     ELSE Refuse

\* fgets returns NULL; the parsers that called one another return.
EndOfFile ==
  /\ status = "parsing" /\ place = Len(conf)
  /\ status' = "accepted"
  /\ UNCHANGED <<conf, place, section, modules, settings>>

Next == SkipLine \/ SectionConfig \/ LoadModule \/ SetParam \/ EndOfFile

Spec == Init /\ [][Next]_vars

-----------------------------------------------------------------------------
(* Properties.                                                             *)

\* modules[] is never written past its end.
TypeOK ==
  /\ conf \in Seq(Lines)
  /\ place \in 0 .. Len(conf)
  /\ section \in Section
  /\ modules \in Seq(Modules) /\ Len(modules) <= MaxModules
  /\ autoUpdate \in BOOLEAN
  /\ updateMs \in {0, 1000, 2000}
  /\ shmName \in {"sys-mon", "short"}
  /\ status \in {"parsing", "accepted", "refused"}

\* The section a line is in: that of the last header before it.
SectionAt(i) ==
  LET headers == {j \in 1 .. i - 1 : conf[j].kind = "header"}
  IN IF headers = {} THEN "sys-mon" ELSE conf[Max(headers)].what

\* The module lines among the first n lines.
ModuleLines(n) == {i \in 1 .. n : SectionAt(i) = "modules" /\ conf[i].kind = "module"}

\* The last value of a parameter, wherever in the file its sections are.
Setting(param, default) ==
  LET given == {i \in DOMAIN conf : conf[i].kind = "set" /\ conf[i].what = param}
  IN IF given = {} THEN default ELSE conf[Max(given)].value

\* README: "Each line correspondes to each module line specified in the
\* [modules] section."  The modules of an accepted file are those of all its
\* module lines in order, each once, however its sections follow each other,
\* and its settings are the last that were given, or the defaults of the source.
\* Here code and README.md:78 disagree: the README calls name mandatory, and the
\* code accepts a file without one, which gets the default "sys-mon".  Lines are
\* those fgets gives, pieces of lines too long among them.
ModulePerLine ==
  status = "accepted" =>
    /\ Len(modules) = Cardinality(ModuleLines(Len(conf)))
    /\ \A i \in ModuleLines(Len(conf)) : modules[Cardinality(ModuleLines(i))] = conf[i].what
    /\ autoUpdate <=> Setting("auto_update", "false") = "true"
    /\ shmName = Setting("name", "sys-mon")
    /\ Setting("update_ms", "2000") = "2000" => updateMs = 2000
    /\ Setting("update_ms", "2000") = "1000" => updateMs = 1000
    /\ Setting("update_ms", "2000") = "fast" => updateMs = 0

\* Lines that neither the README nor the source has a use for in their section.
Misplaced(i) ==
  \/ SectionAt(i) = "sys-mon" /\ conf[i].kind \in {"comment", "module"}
  \/ SectionAt(i) = "modules" /\ conf[i].kind = "set"
  \/ conf[i].kind = "bare"
  \/ conf[i].what = "unknown"
  \/ conf[i].value \in {"yes", "tooLong"}

\* Here code and README.md:80 disagree: the README has the key auto-update (and
\* auto_update in its example, README.md:90), the code auto_update alone.
OnlyDocumented(i) == conf[i].what = "auto-update"

\* What no parser takes.
Unusable(i) == Misplaced(i) \/ OnlyDocumented(i)

\* No line fgets gives is ignored in silence, auto-update neither, which does not
\* pass for auto_update but ends the daemon; and no file is refused for anything
\* else but a line without use where it is, or a module too many.
NothingIgnored ==
  /\ status = "accepted" => \A i \in DOMAIN conf : ~Unusable(i)
  /\ status = "refused" =>
       \/ Misplaced(place + 1) \/ OnlyDocumented(place + 1)
       \/ Cardinality(ModuleLines(Len(conf))) > MaxModules
=============================================================================
