------------------------------ MODULE RamStart -------------------------------
(***************************************************************************)
(* The loop with which the module ram starts (modules/ram.c): a scan of    *)
(* /proc/meminfo that notes on which line each key is.  It is made of the  *)
(* read buffer's calls, after calls of other modules that left whatever    *)
(* they left in the buffer.  Reads may fail; the loop looks for the end of *)
(* the file only.                                                          *)
(***************************************************************************)
EXTENDS ReadBuffer, FiniteSets

CONSTANTS
  meminfo,      \* the file /proc/meminfo
  Layout,       \* the key each of its lines begins with, or "other"
  MaxBefore     \* bound: calls of other modules before the scan

Key == {"total", "free", "available", "buffers", "cached"}

Newlines(n) == {i \in 1 .. n : Content[meminfo][i] = "newline"}

\* Each line of /proc/meminfo begins with a word of its own, and arg has room for
\* more than a NUL.
ASSUME RamStartAssumption ==
  /\ meminfo \in File
  /\ MaxBefore \in 0 .. MaxCalls
  /\ Layout \in Seq(Key \cup {"other"})
  /\ \A i, j \in DOMAIN Layout : Layout[i] = Layout[j] /\ Layout[i] # "other" => i = j
  /\ Len(Layout) = Cardinality(Newlines(Len(Content[meminfo])))
  /\ \A n \in {0} \cup Newlines(Len(Content[meminfo])) :
       n < Len(Content[meminfo]) => Content[meminfo][n + 1] \in {"digit", "other"}
  /\ MaxString >= 2

VARIABLES
  scan,         \* where the loop is
  arg,          \* the key that arg begins with, or "other"
  line,         \* line
  lineNumbers,  \* line_numbers
  failures      \* history: reads that had failed before the scan

scanVars == <<scan, arg, line, lineNumbers, failures>>
startVars == <<vars, scanVars>>

\* int line_numbers[5] = {-1}; arg is a local array nobody has written.
StartInit ==
  /\ Init
  /\ scan = "before"
  /\ arg \in Key \cup {"other"}
  /\ line = 0
  /\ failures = 0
  /\ lineNumbers = [key \in Key |-> IF key = "total" THEN -1 ELSE 0]

\* A call of another module.
OtherCall ==
  /\ scan = "before"
  /\ calls < MaxBefore
  /\ (\E f \in File : ReadStart(f)) \/ (\E parser \in Parser : StartCall(parser))
  /\ UNCHANGED scanVars

\* A turn of the call that runs.
CallRuns == Turn /\ UNCHANGED scanVars

\* read_start, whose result is not looked at.
ScanStart ==
  /\ scan = "before"
  /\ ReadStart(meminfo)
  /\ scan' = "key"
  /\ failures' = errors
  /\ UNCHANGED <<arg, line, lineNumbers>>

\* read_next_string(arg, 64) is called.
ReadKey ==
  /\ scan = "key"
  /\ StartCall("string")
  /\ scan' = "reading"
  /\ UNCHANGED <<arg, line, lineNumbers, failures>>

\* The key a word begins with: that of a line, if it is the first word there.
KeyOf(word) ==
  LET Begins(i) ==   \* the place where the i-th line begins
        IF i = 1 THEN 0
        ELSE CHOOSE n \in Newlines(Len(Content[meminfo])) : Cardinality(Newlines(n)) = i - 1
      Is(i) == \A k \in DOMAIN word : word[k] = <<meminfo, Begins(i) + k - 1>>
  IN IF word # <<>> /\ \E i \in DOMAIN Layout : Is(i)
     THEN Layout[CHOOSE i \in DOMAIN Layout : Is(i)]
     ELSE "other"

\* What arg may begin with.  A call that failed has put no NUL behind what it wrote
\* over the word before.
Written ==
  IF last = "ok" THEN {KeyOf(got)}
  ELSE IF got = <<>> THEN {arg} ELSE {arg, "other", KeyOf(got)}

\* Mutant: the loop stops at an error, and not at the end of the file.
FileEndsMissed ==
  /\ scan = "reading" /\ Idle /\ last = "error"
  /\ scan' = "done"
  /\ UNCHANGED <<arg, line, lineNumbers, failures, vars>>

\* break at the end of the file.
FileEnds ==
  /\ scan = "reading" /\ Idle /\ last = "eof"
  /\ scan' = "done"
  /\ UNCHANGED <<arg, line, lineNumbers, failures, vars>>

\* The line is noted, also after a failed read, and next_line is called.
NoteLine ==
  /\ scan = "reading" /\ Idle /\ last # "eof"
  /\ arg' \in Written
  /\ lineNumbers' = [key \in Key |-> IF key = arg' THEN line ELSE lineNumbers[key]]
  /\ StartCall("line")
  /\ scan' = "line"
  /\ UNCHANGED <<line, failures>>

\* Mutant: lines with other keys are not counted.
LineEndsUncounted ==
  /\ scan = "line" /\ Idle
  /\ line' = IF arg = "other" THEN line ELSE line + 1
  /\ scan' = "key"
  /\ UNCHANGED <<arg, lineNumbers, failures, vars>>

\* line++
LineEnds ==
  /\ scan = "line" /\ Idle
  /\ line' = line + 1
  /\ scan' = "key"
  /\ UNCHANGED <<arg, lineNumbers, failures, vars>>

ScanGoesOn == ReadKey \/ FileEnds \/ NoteLine \/ LineEnds

StartNext == OtherCall \/ CallRuns \/ ScanStart \/ ScanGoesOn

StartSpec == StartInit /\ [][StartNext]_startVars

\* A start is sequential code that runs on.
FairStartSpec ==
  StartSpec /\ WF_startVars(CallRuns) /\ WF_startVars(ScanGoesOn)

-----------------------------------------------------------------------------
(* Properties.                                                             *)

\* A scan in which no read failed has noted the line of each key the file has,
\* wherever the pieces end and whatever the calls before left in the buffer; the
\* number of a key the file does not have is the one it began with.
LinesNoted ==
  scan = "done" /\ errors = failures =>
    \A key \in Key :
      IF \E i \in DOMAIN Layout : Layout[i] = key
      THEN \E i \in DOMAIN Layout : Layout[i] = key /\ lineNumbers[key] = i - 1
      ELSE lineNumbers[key] = IF key = "total" THEN -1 ELSE 0

\* The scan ends, if reads do not fail for ever: neither a failed read nor what is
\* left in the buffer behind the end of the file keeps it going.
StartEnds == scan # "before" ~> scan = "done"
=============================================================================
