------------------------- MODULE ConfigParserProofs --------------------------
(***************************************************************************)
(* The parser of the configuration for files of any length, any modules    *)
(* and any MAX_MODULES: what holds of a file holds of each part of it that *)
(* was read.                                                               *)
(***************************************************************************)
EXTENDS ConfigParser, FiniteSetTheorems, TLAPS

\* The last value of a parameter among the first n lines.
Given(n, param) == {i \in 1 .. n : conf[i].kind = "set" /\ conf[i].what = param}
SettingTo(n, param, default) ==
  IF Given(n, param) = {} THEN default ELSE conf[Max(Given(n, param))].value

\* 2000 when no line has given update_ms, and atoi of its last value otherwise.
MsRead ==
  /\ SettingTo(place, "update_ms", "2000") = "2000" => updateMs = 2000
  /\ SettingTo(place, "update_ms", "2000") = "1000" => updateMs = 1000
  /\ SettingTo(place, "update_ms", "2000") = "fast" => updateMs = 0

\* The settings are those of the lines read.
SettingsRead ==
  /\ autoUpdate <=> SettingTo(place, "auto_update", "false") = "true"
  /\ shmName = SettingTo(place, "name", "sys-mon")
  /\ MsRead

\* The modules are those of the module lines read.
ModulesRead ==
  /\ Len(modules) = Cardinality(ModuleLines(place))
  /\ \A i \in ModuleLines(place) : modules[Cardinality(ModuleLines(i))] = conf[i].what

\* The parser that runs is that of the next line's section, and no line read is
\* wrong where it is.
Parsed ==
  /\ section = SectionAt(place + 1)
  /\ \A i \in 1 .. place : ~Unusable(i)

\* Why the parser stopped.
Stopped ==
  /\ status = "accepted" => place = Len(conf)
  /\ status = "refused" =>
       /\ place < Len(conf)
       /\ \/ Unusable(place + 1)
          \/ place + 1 \in ModuleLines(place + 1) /\ Len(modules) = MaxModules

IInv == TypeOK /\ Parsed /\ ModulesRead /\ SettingsRead /\ Stopped
-----------------------------------------------------------------------------
(* Lines and what their place in the file means.                           *)

LEMMA LineTypes ==
  ASSUME NEW l \in Lines
  PROVE  /\ l.kind \in {"blank", "comment", "bare", "header", "module", "set"}
         /\ l.kind = "header" => l.what \in Section \cup {"unknown"}
         /\ l.kind = "module" => l.what \in Modules \cup {"unknown"}
         /\ l.kind = "set" => l.what \in Params \cup {"unknown", "auto-update"}
         /\ l.kind = "set" /\ l.what = "auto_update" => l.value \in {"true", "false", "yes"}
         /\ l.kind = "set" /\ l.what = "update_ms" => l.value \in {"1000", "fast"}
         /\ l.kind = "set" /\ l.what = "name" => l.value \in {"short", "tooLong"}
         /\ l.kind # "set" => l.value \in {"", "cut"}
         /\ l.kind \in {"blank", "comment", "bare"} => l.what = ""
<1>1. ASSUME NEW k, NEW v, l = ConfLine(k, "", v)
      PROVE  l.kind = k /\ l.what = "" /\ l.value = v
  BY <1>1 DEF ConfLine
<1>2. ASSUME NEW s \in Section \cup {"unknown"}, l = ConfLine("header", s, "")
      PROVE  l.kind = "header" /\ l.what = s /\ l.value = ""
  BY <1>2 DEF ConfLine
<1>3. ASSUME NEW m \in Modules \cup {"unknown"}, NEW v, l = ConfLine("module", m, v)
      PROVE  l.kind = "module" /\ l.what = m /\ l.value = v
  BY <1>3 DEF ConfLine
<1>4. ASSUME NEW p, NEW v, l = ConfLine("set", p, v)
      PROVE  l.kind = "set" /\ l.what = p /\ l.value = v
  BY <1>4 DEF ConfLine
<1>5. \/ \E k \in {"blank", "comment", "bare"}, v \in {"", "cut"} : l = ConfLine(k, "", v)
      \/ \E s \in Section \cup {"unknown"} : l = ConfLine("header", s, "")
      \/ \E m \in Modules \cup {"unknown"}, v \in {"", "cut"} : l = ConfLine("module", m, v)
      \/ \E v \in {"true", "false", "yes"} : l = ConfLine("set", "auto_update", v)
      \/ \E v \in {"1000", "fast"} : l = ConfLine("set", "update_ms", v)
      \/ \E v \in {"short", "tooLong"} : l = ConfLine("set", "name", v)
      \/ l = ConfLine("set", "unknown", "")
      \/ l = ConfLine("set", "auto-update", "true")
  BY DEF Lines
<1>6. /\ "auto_update" \in Params /\ "update_ms" \in Params /\ "name" \in Params /\ "unknown" \notin Params
      /\ "auto-update" \notin Params
  BY DEF Params
<1>7. ASSUME l.kind = "set"
      PROVE  \/ l.what = "auto_update" /\ l.value \in {"true", "false", "yes"}
             \/ l.what = "update_ms" /\ l.value \in {"1000", "fast"}
             \/ l.what = "name" /\ l.value \in {"short", "tooLong"}
             \/ l.what \in {"unknown", "auto-update"}
  <2>1. ~ \E k \in {"blank", "comment", "bare"}, v \in {"", "cut"} : l = ConfLine(k, "", v)
    BY <1>1, <1>7
  <2>2. ~ \E s \in Section \cup {"unknown"} : l = ConfLine("header", s, "")
    BY <1>2, <1>7
  <2>3. ~ \E m \in Modules \cup {"unknown"}, v \in {"", "cut"} : l = ConfLine("module", m, v)
    BY <1>3, <1>7
  <2>4. \/ \E v \in {"true", "false", "yes"} : l = ConfLine("set", "auto_update", v)
        \/ \E v \in {"1000", "fast"} : l = ConfLine("set", "update_ms", v)
        \/ \E v \in {"short", "tooLong"} : l = ConfLine("set", "name", v)
        \/ l = ConfLine("set", "unknown", "")
        \/ l = ConfLine("set", "auto-update", "true")
    BY <1>5, <2>1, <2>2, <2>3
  <2> QED
    BY <1>4, <2>4
<1>8. CASE l.kind = "set"
  BY <1>6, <1>7, <1>8
<1>9. CASE l.kind # "set"
  <2>1. \A p, v : l # ConfLine("set", p, v)
    BY <1>4, <1>9
  <2>2. \/ \E k \in {"blank", "comment", "bare"}, v \in {"", "cut"} : l = ConfLine(k, "", v)
        \/ \E s \in Section \cup {"unknown"} : l = ConfLine("header", s, "")
        \/ \E m \in Modules \cup {"unknown"}, v \in {"", "cut"} : l = ConfLine("module", m, v)
    BY <1>5, <2>1
  <2> QED
    BY <1>1, <1>2, <1>3, <1>9, <2>2
<1> QED
  BY <1>8, <1>9

LEMMA MaxOfNext ==
  ASSUME NEW n \in Nat, NEW S \in SUBSET (1 .. n)
  PROVE  Max(S \cup {n + 1}) = n + 1
<1> DEFINE T == S \cup {n + 1}
<1>1. n + 1 \in T /\ (\A y \in T : n + 1 >= y)
  OBVIOUS
<1>2. \A x \in T : (\A y \in T : x >= y) => x = n + 1
  OBVIOUS
<1>3. Max(T) \in T /\ \A y \in T : Max(T) >= y
  BY <1>1 DEF Max
<1> QED
  BY <1>2, <1>3

LEMMA SectionOfFirst ==
  SectionAt(1) = "sys-mon"
<1>1. {j \in 1 .. 1 - 1 : conf[j].kind = "header"} = {}
  OBVIOUS
<1> QED
  BY <1>1 DEF SectionAt

\* A header is the last one for the line after it; any other line leaves the
\* section as it is.
LEMMA SectionOfNext ==
  ASSUME NEW n \in Nat
  PROVE  SectionAt(n + 2) =
           IF conf[n + 1].kind = "header" THEN conf[n + 1].what ELSE SectionAt(n + 1)
<1> DEFINE H(k) == {j \in 1 .. k : conf[j].kind = "header"}
<1>1. n + 2 - 1 = n + 1 /\ n + 1 - 1 = n
  OBVIOUS
<1>2. /\ SectionAt(n + 2) = IF H(n + 1) = {} THEN "sys-mon" ELSE conf[Max(H(n + 1))].what
      /\ SectionAt(n + 1) = IF H(n) = {} THEN "sys-mon" ELSE conf[Max(H(n))].what
  BY <1>1 DEF SectionAt
<1>3. H(n + 1) = IF conf[n + 1].kind = "header" THEN H(n) \cup {n + 1} ELSE H(n)
  OBVIOUS
<1>4. conf[n + 1].kind = "header" => Max(H(n + 1)) = n + 1
  <2>1. H(n) \in SUBSET (1 .. n)
    OBVIOUS
  <2> QED
    BY <1>3, <2>1, MaxOfNext
<1> HIDE DEF H
<1> QED
  BY <1>2, <1>3, <1>4

LEMMA SettingOfNext ==
  ASSUME NEW n \in Nat, NEW param, NEW default
  PROVE  SettingTo(n + 1, param, default) =
           IF conf[n + 1].kind = "set" /\ conf[n + 1].what = param
           THEN conf[n + 1].value ELSE SettingTo(n, param, default)
<1> DEFINE here == conf[n + 1].kind = "set" /\ conf[n + 1].what = param
<1>1. Given(n + 1, param) = IF here THEN Given(n, param) \cup {n + 1} ELSE Given(n, param)
  BY DEF Given
<1>2. here => Max(Given(n + 1, param)) = n + 1 /\ Given(n + 1, param) # {}
  <2>1. Given(n, param) \in SUBSET (1 .. n)
    BY DEF Given
  <2> QED
    BY <1>1, <2>1, MaxOfNext
<1>3. CASE here
  BY <1>2, <1>3 DEF SettingTo
<1>4. CASE ~ here
  <2>1. Given(n + 1, param) = Given(n, param)
    BY <1>1, <1>4
  <2> QED
    BY <2>1, <1>4 DEF SettingTo
<1> QED
  BY <1>3, <1>4

LEMMA ModuleLinesFinite ==
  ASSUME NEW n \in Nat
  PROVE  /\ IsFiniteSet(ModuleLines(n))
         /\ Cardinality(ModuleLines(n)) \in Nat
<1>1. IsFiniteSet(1 .. n)
  BY FS_Interval
<1>2. ModuleLines(n) \in SUBSET (1 .. n)
  BY DEF ModuleLines
<1>3. IsFiniteSet(ModuleLines(n))
  BY <1>1, <1>2, FS_Subset
<1> QED
  BY <1>3, FS_CardinalityType

LEMMA ModuleLinesGrow ==
  ASSUME NEW n \in Nat, NEW m \in 0 .. n
  PROVE  /\ ModuleLines(m) \subseteq ModuleLines(n)
         /\ Cardinality(ModuleLines(m)) <= Cardinality(ModuleLines(n))
<1>1. ModuleLines(m) \in SUBSET ModuleLines(n)
  BY DEF ModuleLines
<1>2. IsFiniteSet(ModuleLines(n))
  BY ModuleLinesFinite
<1> QED
  BY <1>1, <1>2, FS_Subset

LEMMA ModuleLinesOfNext ==
  ASSUME NEW n \in Nat
  PROVE  /\ ModuleLines(n + 1) =
              IF n + 1 \in ModuleLines(n + 1) THEN ModuleLines(n) \cup {n + 1} ELSE ModuleLines(n)
         /\ Cardinality(ModuleLines(n + 1)) =
              Cardinality(ModuleLines(n)) + (IF n + 1 \in ModuleLines(n + 1) THEN 1 ELSE 0)
         /\ n + 1 \in ModuleLines(n + 1) <=>
              SectionAt(n + 1) = "modules" /\ conf[n + 1].kind = "module"
<1>1. /\ ModuleLines(n + 1) =
           IF n + 1 \in ModuleLines(n + 1) THEN ModuleLines(n) \cup {n + 1} ELSE ModuleLines(n)
      /\ n + 1 \notin ModuleLines(n)
  BY DEF ModuleLines
<1>2. n + 1 \in ModuleLines(n + 1) <=> SectionAt(n + 1) = "modules" /\ conf[n + 1].kind = "module"
  BY DEF ModuleLines
<1>3. IsFiniteSet(ModuleLines(n)) /\ Cardinality(ModuleLines(n)) \in Nat
  BY ModuleLinesFinite
<1>4. Cardinality(ModuleLines(n) \cup {n + 1}) = Cardinality(ModuleLines(n)) + 1
  BY <1>1, <1>3, FS_AddElement
<1> QED
  BY <1>1, <1>2, <1>3, <1>4

\* The file does not change, and neither does what its lines mean.
LEMMA FileStays ==
  ASSUME conf' = conf
  PROVE  /\ \A i : SectionAt(i)' = SectionAt(i)
         /\ \A i : Unusable(i)' = Unusable(i)
         /\ \A n : ModuleLines(n)' = ModuleLines(n)
         /\ \A n, param, default : SettingTo(n, param, default)' = SettingTo(n, param, default)
BY DEF SectionAt, Unusable, Misplaced, OnlyDocumented, ModuleLines, SettingTo, Given
-----------------------------------------------------------------------------
(* A line read, and a line the parser stops at.                            *)

LEMMA LineHere ==
  ASSUME IInv, Reading
  PROVE  /\ Line \in Lines /\ Line = conf[place + 1]
         /\ place \in Nat /\ Len(conf) \in Nat
         /\ place + 1 \in 1 .. Len(conf)
BY DEF IInv, TypeOK, Reading, Line

LEMMA LineRead ==
  ASSUME IInv, Reading, ~ Unusable(place + 1),
         place' = place + 1, conf' = conf, status' = status,
         section' = IF Line.kind = "header" THEN Line.what ELSE section
  PROVE  /\ conf' \in Seq(Lines) /\ place' \in 0 .. Len(conf')
         /\ status' \in {"parsing", "accepted", "refused"}
         /\ Parsed' /\ Stopped'
<1>1. /\ Line = conf[place + 1] /\ place \in Nat /\ Len(conf) \in Nat
      /\ place + 1 \in 1 .. Len(conf)
  BY LineHere
<1>2. conf' \in Seq(Lines) /\ place' \in 0 .. Len(conf')
  BY <1>1 DEF IInv, TypeOK
<1>3. Stopped' /\ status' \in {"parsing", "accepted", "refused"}
  BY DEF Stopped, Reading
<1>4. section' = SectionAt(place + 1)'
  <2>1. SectionAt(place + 2) = IF conf[place + 1].kind = "header" THEN conf[place + 1].what
                               ELSE SectionAt(place + 1)
    BY <1>1, SectionOfNext
  <2>2. section' = SectionAt(place + 2)
    BY <1>1, <2>1 DEF IInv, Parsed
  <2>3. place' + 1 = place + 2
    BY <1>1
  <2> QED
    BY <2>2, <2>3, FileStays
<1>5. (\A i \in 1 .. place : ~ Unusable(i))'
  <2>1. \A i \in 1 .. place + 1 : ~ Unusable(i)
    BY <1>1 DEF IInv, Parsed
  <2> QED
    BY <2>1, FileStays
<1> QED
  BY <1>2, <1>3, <1>4, <1>5 DEF Parsed

LEMMA NoModuleRead ==
  ASSUME IInv, Reading, ~ (section = "modules" /\ Line.kind = "module"),
         place' = place + 1, conf' = conf, modules' = modules
  PROVE  ModulesRead'
<1>1. Line = conf[place + 1] /\ place \in Nat
  BY LineHere
<1>2. place + 1 \notin ModuleLines(place + 1)
  BY <1>1, ModuleLinesOfNext DEF IInv, Parsed
<1>3. ModuleLines(place + 1) = ModuleLines(place)
  BY <1>1, <1>2, ModuleLinesOfNext
<1> QED
  BY <1>3, FileStays DEF IInv, ModulesRead

LEMMA SettingsStay ==
  ASSUME SettingsRead, settings' = settings,
         \A param, default : SettingTo(place, param, default)' = SettingTo(place, param, default)
  PROVE  SettingsRead'
<1>1. autoUpdate' = autoUpdate /\ updateMs' = updateMs /\ shmName' = shmName
  BY DEF settings
<1>2. (autoUpdate <=> SettingTo(place, "auto_update", "false") = "true")'
  BY <1>1, Zenon DEF SettingsRead
<1>3. (shmName = SettingTo(place, "name", "sys-mon"))'
  BY <1>1 DEF SettingsRead
<1>4. MsRead'
  <2>1. MsRead
    BY Zenon DEF SettingsRead
  <2>2. SettingTo(place, "update_ms", "2000")' = SettingTo(place, "update_ms", "2000")
    OBVIOUS
  <2> QED
    BY <1>1, <2>1, <2>2 DEF MsRead
<1> QED
  BY <1>2, <1>3, <1>4, Zenon DEF SettingsRead

LEMMA NoSettingRead ==
  ASSUME IInv, Reading, Line.kind # "set",
         place' = place + 1, conf' = conf, settings' = settings
  PROVE  SettingsRead'
<1>1. Line = conf[place + 1] /\ place \in Nat
  BY LineHere
<1>2. \A param, default : SettingTo(place, param, default)' = SettingTo(place, param, default)
  BY <1>1, SettingOfNext, FileStays
<1> QED
  BY <1>2, SettingsStay DEF IInv

LEMMA Refused ==
  ASSUME IInv, Reading, Refuse,
         \/ Unusable(place + 1)
         \/ section = "modules" /\ Line.kind = "module" /\ Len(modules) = MaxModules
  PROVE  IInv'
<1>1. Line = conf[place + 1] /\ place \in Nat /\ place < Len(conf)
  BY LineHere DEF Reading
<1>2. \/ Unusable(place + 1)
      \/ place + 1 \in ModuleLines(place + 1) /\ Len(modules) = MaxModules
  BY <1>1, ModuleLinesOfNext DEF IInv, Parsed
<1>3. Stopped'
  BY <1>1, <1>2, FileStays DEF Stopped, Refuse
<1>4. TypeOK'
  BY DEF IInv, TypeOK, Refuse, settings
<1>5. Parsed' /\ ModulesRead'
  BY FileStays DEF IInv, Parsed, ModulesRead, Refuse
<1>6. SettingsRead'
  BY FileStays, SettingsStay DEF IInv, Refuse
<1> QED
  BY <1>3, <1>4, <1>5, <1>6 DEF IInv
-----------------------------------------------------------------------------
(* The invariant.                                                          *)

LEMMA InitIInv == Init => IInv
<1> SUFFICES ASSUME Init PROVE IInv
  OBVIOUS
<1>1. conf \in Seq(Lines)
  BY DEF Init, BoundedSeq, SeqOf
<1>2. TypeOK
  <2>1. autoUpdate \in BOOLEAN
    BY Zenon DEF Init
  <2>2. place \in 0 .. Len(conf)
    BY <1>1 DEF Init
  <2>3. modules \in Seq(Modules) /\ Len(modules) <= MaxModules
    BY ConfigAssumption DEF Init
  <2>4. /\ section \in Section /\ updateMs \in {0, 1000, 2000}
        /\ shmName \in {"sys-mon", "short"} /\ status \in {"parsing", "accepted", "refused"}
    BY DEF Init, Section
  <2> QED
    BY <1>1, <2>1, <2>2, <2>3, <2>4 DEF TypeOK
<1>3. Parsed
  BY SectionOfFirst DEF Init, Parsed
<1>4. ModulesRead
  <2>1. ModuleLines(0) = {}
    BY DEF ModuleLines
  <2> QED
    BY <2>1, FS_EmptySet DEF Init, ModulesRead
<1>5. SettingsRead
  <2>1. \A param : Given(0, param) = {}
    BY DEF Given
  <2>2. \A param, default : SettingTo(0, param, default) = default
    BY <2>1 DEF SettingTo
  <2>3. autoUpdate <=> SettingTo(place, "auto_update", "false") = "true"
    BY <2>2 DEF Init
  <2>4. shmName = SettingTo(place, "name", "sys-mon")
    BY <2>2 DEF Init
  <2>5. MsRead
    <3>1. SettingTo(place, "update_ms", "2000") = "2000" /\ updateMs = 2000
      BY <2>2 DEF Init
    <3> QED
      BY <3>1 DEF MsRead
  <2> QED
    BY <2>3, <2>4, <2>5, Zenon DEF SettingsRead
<1>6. Stopped
  BY DEF Init, Stopped
<1> QED
  BY <1>2, <1>3, <1>4, <1>5, <1>6 DEF IInv

LEMMA SkipLineInv ==
  ASSUME IInv, SkipLine
  PROVE  IInv'
<1>1. /\ Reading /\ Line.kind \in {"blank", "comment"}
      /\ Line.kind = "comment" => section = "modules"
  BY DEF SkipLine
<1>2. Line = conf[place + 1] /\ Line.what = "" /\ Line.value \in {"", "cut"}
  BY <1>1, LineHere, LineTypes
<1>3. ~ Unusable(place + 1)
  BY <1>1, <1>2 DEF Unusable, Misplaced, OnlyDocumented, IInv, Parsed
<1>4. Parsed' /\ Stopped' /\ (TypeOK)'
  BY <1>1, <1>3, LineRead DEF SkipLine, settings, IInv, TypeOK
<1>5. ModulesRead' /\ SettingsRead'
  BY <1>1, NoModuleRead, NoSettingRead DEF SkipLine
<1> QED
  BY <1>4, <1>5 DEF IInv

LEMMA SectionConfigInv ==
  ASSUME IInv, SectionConfig
  PROVE  IInv'
<1>1. Reading /\ Line.kind = "header"
  BY DEF SectionConfig
<1>2. Line = conf[place + 1] /\ Line.what \in Section \cup {"unknown"} /\ Line.value \in {"", "cut"}
  BY <1>1, LineHere, LineTypes
<1>3. CASE Line.what \in Section
  <2>1. ~ Unusable(place + 1)
    BY <1>1, <1>2, <1>3 DEF Unusable, Misplaced, OnlyDocumented, Section
  <2>2. Parsed' /\ Stopped' /\ TypeOK'
    BY <1>1, <1>3, <2>1, LineRead DEF SectionConfig, settings, IInv, TypeOK
  <2>3. ModulesRead' /\ SettingsRead'
    BY <1>1, <1>3, NoModuleRead, NoSettingRead DEF SectionConfig
  <2> QED
    BY <2>2, <2>3 DEF IInv
<1>4. CASE Line.what \notin Section
  <2>1. Unusable(place + 1)
    BY <1>2, <1>4 DEF Unusable, Misplaced, OnlyDocumented
  <2> QED
    BY <1>1, <1>4, <2>1, Refused DEF SectionConfig
<1> QED
  BY <1>3, <1>4

LEMMA LoadModuleInv ==
  ASSUME IInv, LoadModule
  PROVE  IInv'
<1>1. Reading /\ section = "modules" /\ Line.kind \in {"module", "set", "bare"}
  BY DEF LoadModule
<1>2. /\ Line \in Lines /\ Line = conf[place + 1] /\ place \in Nat
      /\ section = SectionAt(place + 1)
  BY <1>1, LineHere DEF IInv, Parsed
<1>3. CASE Line.kind = "module" /\ Line.what \in Modules /\ Len(modules) # MaxModules
  <2>1. Line.value \in {"", "cut"} /\ Line.what \notin {"unknown", "auto-update"}
    BY <1>2, <1>3, LineTypes, ConfigAssumption
  <2>2. ~ Unusable(place + 1)
    BY <1>1, <1>2, <1>3, <2>1 DEF Unusable, Misplaced, OnlyDocumented
  <2>3. /\ modules' = Append(modules, Line.what) /\ modules' \in Seq(Modules)
        /\ Len(modules') = Len(modules) + 1 /\ Len(modules) + 1 <= MaxModules
    BY <1>3, ConfigAssumption DEF LoadModule, IInv, TypeOK
  <2>4. Parsed' /\ Stopped' /\ TypeOK'
    BY <1>1, <1>3, <2>2, <2>3, LineRead DEF LoadModule, settings, IInv, TypeOK
  <2>5. ModulesRead'
    <3>1. /\ ModuleLines(place + 1) = ModuleLines(place) \cup {place + 1}
          /\ Cardinality(ModuleLines(place + 1)) = Len(modules) + 1
      BY <1>1, <1>2, <1>3, ModuleLinesOfNext, ModuleLinesFinite DEF IInv, ModulesRead
    <3>2. \A i \in ModuleLines(place) :
            modules'[Cardinality(ModuleLines(i))] = modules[Cardinality(ModuleLines(i))]
      <4> SUFFICES ASSUME NEW i \in ModuleLines(place)
                   PROVE  modules'[Cardinality(ModuleLines(i))] = modules[Cardinality(ModuleLines(i))]
        OBVIOUS
      <4>1. i \in 1 .. place /\ i \in ModuleLines(i)
        BY DEF ModuleLines
      <4>2. Cardinality(ModuleLines(i)) \in 1 .. Len(modules)
        <5>1. i \in Nat /\ i \in 0 .. place /\ place \in Nat
          BY <1>2, <4>1
        <5>2. IsFiniteSet(ModuleLines(i)) /\ Cardinality(ModuleLines(i)) \in Nat
          BY <5>1, ModuleLinesFinite
        <5>3. Cardinality(ModuleLines(i)) # 0
          BY <4>1, <5>2, FS_EmptySet
        <5>4. Cardinality(ModuleLines(i)) <= Cardinality(ModuleLines(place))
          BY <5>1, ModuleLinesGrow
        <5>5. Len(modules) = Cardinality(ModuleLines(place)) /\ Cardinality(ModuleLines(place)) \in Nat
          BY <5>1, ModuleLinesFinite DEF IInv, ModulesRead
        <5> QED
          BY <5>2, <5>3, <5>4, <5>5
      <4> QED
        BY <2>3, <4>2 DEF IInv, TypeOK
    <3>3. modules'[Len(modules) + 1] = conf[place + 1].what
      BY <1>2, <2>3 DEF IInv, TypeOK
    <3>4. Len(modules') = Cardinality(ModuleLines(place + 1))
      BY <2>3, <3>1
    <3>5. \A i \in ModuleLines(place + 1) : modules'[Cardinality(ModuleLines(i))] = conf[i].what
      BY <3>1, <3>2, <3>3 DEF IInv, ModulesRead
    <3>6. conf' = conf /\ place' = place + 1
      BY <1>3 DEF LoadModule
    <3> QED
      BY <3>4, <3>5, <3>6, FileStays DEF ModulesRead
  <2>6. SettingsRead'
    BY <1>1, <1>3, NoSettingRead DEF LoadModule
  <2> QED
    BY <2>4, <2>5, <2>6 DEF IInv
<1>4. CASE ~ (Line.kind = "module" /\ Line.what \in Modules /\ Len(modules) # MaxModules)
  <2>1. \/ Unusable(place + 1)
        \/ section = "modules" /\ Line.kind = "module" /\ Len(modules) = MaxModules
    BY <1>1, <1>2, <1>4, LineTypes DEF Unusable, Misplaced, OnlyDocumented
  <2> QED
    BY <1>1, <1>4, <2>1, Refused DEF LoadModule
<1> QED
  BY <1>3, <1>4
\* What a setting gives where it counts, and the parameters it leaves alone.
LEMMA SetParamInv ==
  ASSUME IInv, SetParam
  PROVE  IInv'
<1>1. Reading /\ section = "sys-mon" /\ Line.kind \notin {"blank", "header"}
  BY DEF SetParam
<1>2. /\ Line \in Lines /\ Line = conf[place + 1] /\ place \in Nat
      /\ section = SectionAt(place + 1)
  BY <1>1, LineHere DEF IInv, Parsed
<1>3. CASE Line.kind = "set" /\ Line.what \in Params /\ Line.value \notin {"yes", "tooLong"}
  <2>1. Line.what \notin {"unknown", "auto-update"}
    BY <1>3 DEF Params
  <2>2. ~ Unusable(place + 1)
    BY <1>1, <1>2, <1>3, <2>1 DEF Unusable, Misplaced, OnlyDocumented
  <2>3. Apply(Line.what, Line.value) /\ place' = place + 1 /\ UNCHANGED <<conf, section, modules, status>>
    BY <1>3 DEF SetParam
  <2>4. /\ Line.what = "auto_update" => Line.value \in {"true", "false"}
        /\ Line.what = "update_ms" => Line.value \in {"1000", "fast"}
        /\ Line.what = "name" => Line.value = "short"
    BY <1>2, <1>3, LineTypes
  <2>5. autoUpdate' \in BOOLEAN /\ updateMs' \in {0, 1000, 2000} /\ shmName' \in {"sys-mon", "short"}
    <3>1. autoUpdate' \in BOOLEAN
      <4>1. autoUpdate' = (Line.value = "true") \/ autoUpdate' = autoUpdate
        BY <2>3, Zenon DEF Apply
      <4>2. autoUpdate \in BOOLEAN
        BY DEF IInv, TypeOK
      <4> QED
        BY <4>1, <4>2, Zenon
    <3>2. updateMs' \in {0, 1000, 2000}
      BY <2>3 DEF Apply, IInv, TypeOK
    <3>3. shmName' \in {"sys-mon", "short"}
      BY <2>3, <2>4 DEF Apply, IInv, TypeOK
    <3> QED
      BY <3>1, <3>2, <3>3
  <2>6. Parsed' /\ Stopped' /\ TypeOK'
    BY <1>1, <1>3, <2>2, <2>3, <2>5, LineRead DEF IInv, TypeOK
  <2>7. ModulesRead'
    BY <1>1, <1>3, <2>3, NoModuleRead
  <2>8. \A param, default :
          SettingTo(place, param, default)' =
            IF Line.what = param THEN Line.value ELSE SettingTo(place, param, default)
    BY <1>2, <1>3, <2>3, SettingOfNext, FileStays
  <2>9. SettingsRead'
    <3>1. (autoUpdate <=> SettingTo(place, "auto_update", "false") = "true")'
      <4>1. CASE Line.what = "auto_update"
        <5>1. autoUpdate' = (Line.value = "true")
          BY <2>3, <4>1, Zenon DEF Apply
        <5>2. SettingTo(place, "auto_update", "false")' = Line.value
          BY <2>8, <4>1
        <5> QED
          BY <5>1, <5>2, Zenon
      <4>2. CASE Line.what # "auto_update"
        <5>1. autoUpdate' = autoUpdate
          BY <2>3, <4>2, Zenon DEF Apply
        <5>2. SettingTo(place, "auto_update", "false")' = SettingTo(place, "auto_update", "false")
          BY <2>8, <4>2
        <5> QED
          BY <5>1, <5>2, Zenon DEF IInv, SettingsRead
      <4> QED
        BY <4>1, <4>2
    <3>2. (shmName = SettingTo(place, "name", "sys-mon"))'
      BY <2>3, <2>8 DEF Apply, IInv, SettingsRead
    <3>3. MsRead'
      <4>1. CASE Line.what = "update_ms"
        <5>1. updateMs' = IF Line.value = "1000" THEN 1000 ELSE 0
          BY <2>3, <4>1 DEF Apply
        <5>2. SettingTo(place, "update_ms", "2000")' = Line.value
          BY <2>8, <4>1
        <5> QED
          BY <2>4, <4>1, <5>1, <5>2 DEF MsRead
      <4>2. CASE Line.what # "update_ms"
        <5>1. updateMs' = updateMs
          BY <2>3, <4>2 DEF Apply
        <5>2. SettingTo(place, "update_ms", "2000")' = SettingTo(place, "update_ms", "2000")
          BY <2>8, <4>2
        <5>3. MsRead
          BY Zenon DEF IInv, SettingsRead
        <5> QED
          BY <5>1, <5>2, <5>3 DEF MsRead
      <4> QED
        BY <4>1, <4>2
    <3> QED
      BY <3>1, <3>2, <3>3, Zenon DEF SettingsRead
  <2> QED
    BY <2>6, <2>7, <2>9 DEF IInv
<1>4. CASE ~ (Line.kind = "set" /\ Line.what \in Params /\ Line.value \notin {"yes", "tooLong"})
  <2>1. Unusable(place + 1)
    BY <1>1, <1>2, <1>4, LineTypes DEF Unusable, Misplaced, OnlyDocumented
  <2> QED
    BY <1>1, <1>4, <2>1, Refused DEF SetParam
<1> QED
  BY <1>3, <1>4

LEMMA EndOfFileInv ==
  ASSUME IInv, EndOfFile
  PROVE  IInv'
<1>1. conf' = conf /\ place' = place /\ modules' = modules /\ section' = section /\ settings' = settings
  BY DEF EndOfFile
<1>2. TypeOK'
  BY <1>1 DEF EndOfFile, IInv, TypeOK, settings
<1>3. Parsed' /\ ModulesRead'
  BY <1>1, FileStays DEF IInv, Parsed, ModulesRead
<1>4. SettingsRead'
  BY <1>1, FileStays, SettingsStay DEF IInv
<1>5. Stopped'
  BY <1>1 DEF EndOfFile, Stopped
<1> QED
  BY <1>2, <1>3, <1>4, <1>5 DEF IInv

LEMMA StutterInv ==
  ASSUME IInv, UNCHANGED vars
  PROVE  IInv'
<1>1. /\ conf' = conf /\ place' = place /\ modules' = modules /\ section' = section
      /\ settings' = settings /\ status' = status
  BY DEF vars
<1>2. TypeOK'
  BY <1>1 DEF IInv, TypeOK, settings
<1>3. Parsed' /\ ModulesRead' /\ Stopped'
  BY <1>1, FileStays DEF IInv, Parsed, ModulesRead, Stopped
<1>4. SettingsRead'
  BY <1>1, FileStays, SettingsStay DEF IInv
<1> QED
  BY <1>2, <1>3, <1>4 DEF IInv

LEMMA Invariance == Spec => []IInv
<1>1. IInv /\ [Next]_vars => IInv'
  BY SkipLineInv, SectionConfigInv, LoadModuleInv, SetParamInv, EndOfFileInv, StutterInv DEF Next
<1> QED
  BY <1>1, InitIInv, PTL DEF Spec

-----------------------------------------------------------------------------
(* Theorems.                                                               *)

\* modules[] is never written past its end, whatever MAX_MODULES is.
THEOREM TypeCorrect == Spec => []TypeOK
<1>1. IInv => TypeOK
  BY DEF IInv
<1> QED
  BY <1>1, Invariance, PTL

\* An accepted file has given its modules in the order of its module lines, as
\* fgets gives them, each once, and the last value of every setting, or the
\* source's default.
THEOREM ModulesAndSettings == Spec => []ModulePerLine
<1>1. IInv => ModulePerLine
  <2> SUFFICES ASSUME IInv, status = "accepted" PROVE ModulePerLine
    BY DEF ModulePerLine
  <2>1. place = Len(conf)
    BY DEF IInv, Stopped
  <2>2. \A param, default : SettingTo(place, param, default) = Setting(param, default)
    <3>1. DOMAIN conf = 1 .. place
      BY <2>1 DEF IInv, TypeOK
    <3> QED
      BY <3>1 DEF SettingTo, Given, Setting
  <2>3. autoUpdate <=> Setting("auto_update", "false") = "true"
    BY <2>2, Zenon DEF IInv, SettingsRead
  <2>4. shmName = Setting("name", "sys-mon")
    BY <2>2, Zenon DEF IInv, SettingsRead
  <2>5. /\ Setting("update_ms", "2000") = "2000" => updateMs = 2000
        /\ Setting("update_ms", "2000") = "1000" => updateMs = 1000
        /\ Setting("update_ms", "2000") = "fast" => updateMs = 0
    <3>1. MsRead
      BY Zenon DEF IInv, SettingsRead
    <3> QED
      BY <2>2, <3>1 DEF MsRead
  <2>6. /\ Len(modules) = Cardinality(ModuleLines(Len(conf)))
        /\ \A i \in ModuleLines(Len(conf)) : modules[Cardinality(ModuleLines(i))] = conf[i].what
    BY <2>1 DEF IInv, ModulesRead
  <2> QED
    BY <2>3, <2>4, <2>5, <2>6, Zenon DEF ModulePerLine
<1> QED
  BY <1>1, Invariance, PTL

\* No line fgets gives is ignored in silence, and a file is refused for a line that
\* the parser of its section has no use for or for a module too many.
THEOREM NothingIsIgnored == Spec => []NothingIgnored
<1>1. IInv => NothingIgnored
  <2> SUFFICES ASSUME IInv PROVE NothingIgnored
    OBVIOUS
  <2>1. ASSUME status = "accepted" PROVE \A i \in DOMAIN conf : ~ Unusable(i)
    BY <2>1 DEF IInv, Stopped, Parsed, TypeOK
  <2>2. ASSUME status = "refused", ~ Unusable(place + 1)
        PROVE  Cardinality(ModuleLines(Len(conf))) > MaxModules
    <3>1. /\ place + 1 \in ModuleLines(place + 1) /\ Len(modules) = MaxModules
          /\ place \in Nat /\ place + 1 \in 0 .. Len(conf) /\ Len(conf) \in Nat
      BY <2>2 DEF IInv, Stopped, TypeOK
    <3>2. Cardinality(ModuleLines(place + 1)) = MaxModules + 1
      BY <3>1, ModuleLinesOfNext DEF IInv, ModulesRead
    <3>3. Cardinality(ModuleLines(place + 1)) <= Cardinality(ModuleLines(Len(conf)))
      BY <3>1, ModuleLinesGrow
    <3> QED
      BY <3>1, <3>2, <3>3, ModuleLinesFinite, ConfigAssumption
  <2> QED
    BY <2>1, <2>2 DEF NothingIgnored, Unusable
<1> QED
  BY <1>1, Invariance, PTL
=============================================================================
