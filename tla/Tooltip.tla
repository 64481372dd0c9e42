------------------------------- MODULE Tooltip -------------------------------
(***************************************************************************)
(* sys-mon-pango-tooltip.c: a text from the output of four commands, each  *)
(* read with fscanf from a pipe.  What fscanf returns is looked at only in *)
(* the loop over df, which stops at its end.                               *)
(***************************************************************************)
EXTENDS Scanf, Bars

CONSTANTS
  NvidiaOutput,   \* what each command may print
  MeminfoOutput,
  SwapOutput,
  DfOutput,
  UnsetInt        \* what a local variable nobody has written may hold

ASSUME TooltipAssumption ==
  /\ NvidiaOutput \cup MeminfoOutput \cup SwapOutput \cup DfOutput \subseteq Seq(Token)
  /\ UnsetInt \subseteq Int

VARIABLES
  section,  \* the section that comes next
  pipe,     \* what is still in the pipe
  fields,   \* tokens[0], percentage, tokens[1], tokens[2]
  rows,     \* the rows of file systems written so far
  written,  \* what the section before shows
  output    \* history: what the last command printed

tooltipVars == <<section, pipe, fields, rows, written, output>>

Unset == [kind |-> "number", n |-> 0, from |-> <<"memory", 0>>]

TooltipInit ==
  /\ section = "nvidia"
  /\ pipe = <<>>
  /\ fields = [i \in 1 .. 4 |-> <<Unset>>]
  /\ rows = <<>>
  /\ written = <<>>
  /\ output = <<>>

\* popen fails: the section is left out.
NoPipe(next) ==
  /\ section' = next /\ written' = <<>> /\ output' = <<>>
  /\ UNCHANGED <<pipe, fields, rows>>

\* The int the i-th conversion stored, or what was in its target.
Stored(stored, i) == IF i <= Len(stored) THEN {Signed(stored[i][1].n, IntValues)} ELSE UnsetInt

\* Nine numbers; the seventh and the eighth choose the colours of the clocks.
Nvidia ==
  /\ section = "nvidia"
  /\ \/ NoPipe("meminfo")
     \/ /\ output' \in NvidiaOutput
        /\ LET stored == sscanf(output', Times(9, Store("number"))).stored
           IN \E freq \in Stored(stored, 7), memFreq \in Stored(stored, 8) :
                written' = <<choose(3, 500, 1200, freq), choose(2, 400, 1000, memFreq)>>
        /\ section' = "meminfo"
        /\ UNCHANGED <<pipe, fields, rows>>

\* The numbers of the first five lines of /proc/meminfo, shown by their places as
\* total, free, available, buffers and cached.
MeminfoFormat == FlattenSeq(Times(5, <<Skip("word"), Store("number"), Skip("word")>>))

Meminfo ==
  /\ section = "meminfo"
  /\ \/ NoPipe("swap")
     \/ /\ output' \in MeminfoOutput
        /\ LET stored == sscanf(output', MeminfoFormat).stored
           IN written' = [i \in DOMAIN stored |-> stored[i][1].from]
        /\ section' = "swap"
        /\ UNCHANGED <<pipe, fields, rows>>

\* Mutant: the name of the device is not skipped.
SwapFormatNameless == Times(3, Store("number"))

\* "%s%d%d": the first line of swapon.
SwapFormat == <<Store("word"), Store("number"), Store("number")>>

\* What the processor cannot divide; the program is killed.
Traps(a, b) == b = 0 \/ (a = -(IntValues \div 2) /\ b = -1)

\* used_swap_bytes * 100, in an int.
Hundredfold(used) == Signed(used * 100, IntValues)

Swap ==
  /\ section = "swap"
  /\ \/ NoPipe("df")
     \/ /\ output' \in SwapOutput
        /\ LET stored == sscanf(output', SwapFormat).stored
           IN \E total \in Stored(stored, 2), used \in Stored(stored, 3) :
                IF Traps(Hundredfold(used), total)
                THEN section' = "crashed" /\ written' = <<>>
                ELSE /\ section' = "df"
                     /\ LET percentage == Quotient(Hundredfold(used), total)
                        IN written' = <<PieLevel(100, Unsigned(percentage, IntValues))>>
        /\ UNCHANGED <<pipe, fields, rows>>

\* popen of df.
Df ==
  /\ section = "df"
  /\ \/ NoPipe("end")
     \/ /\ output' \in DfOutput
        /\ pipe' = output'
        /\ section' = "rows"
        /\ written' = <<>>
        /\ UNCHANGED <<fields, rows>>

\* Mutant: a mount point is taken for a word.
RowFormatWord == <<Store("word"), Store("number"), Store("word"), Store("word")>>

\* "%s%d%s%[^\n]"
RowFormat == <<Store("word"), Store("number"), Store("word"), Store("rest")>>

\* A turn of the loop: a row of what the fields hold then.
Row ==
  /\ section = "rows"
  /\ LET scan == sscanf(pipe, RowFormat)
     IN IF scan.eof
        THEN section' = "end" /\ UNCHANGED <<pipe, fields, rows>>
        ELSE /\ fields' = Assign(4, scan.stored, fields)
             /\ rows' = Append(rows, fields')
             /\ pipe' = scan.rest
             /\ UNCHANGED section
  /\ UNCHANGED <<written, output>>

TooltipNext == Nvidia \/ Meminfo \/ Swap \/ Df \/ Row

-----------------------------------------------------------------------------
TooltipTypeOK ==
  /\ section \in {"nvidia", "meminfo", "swap", "df", "rows", "end", "crashed"}
  /\ pipe \in Seq(Token) /\ output \in Seq(Token)
  /\ fields \in [1 .. 4 -> Seq(Token)] /\ rows \in Seq([1 .. 4 -> Seq(Token)])
  /\ section = "meminfo" /\ written # <<>> => written \in (0 .. 2) \X (0 .. 1)
  /\ section = "df" /\ written # <<>> => written[1] \in 0 .. 8

\* The tokens between s and e are a line of what the command printed; and it is a
\* size, a percentage, a source and a mount point, which may be several words.
OutputLine(s, e) ==
  /\ s > 0 => output[s].kind = "newline"
  /\ s < e /\ output[e].kind = "newline"
  /\ \A i \in s + 1 .. e - 1 : output[i].kind # "newline"
WholeLine(s, e) ==
  /\ OutputLine(s, e)
  /\ s + 4 < e
  /\ output[s + 1].kind \in {"size", "number"}
  /\ output[s + 2].kind = "number"

\* The row of a whole line.
OwnRow(s, e) ==
  [c \in 1 .. 4 |-> IF c < 4 THEN <<output[s + c]>> ELSE SubSeq(output, s + 4, e - 1)]

\* A whole line that is the first or stands behind a whole line.
Follows(s, e) == WholeLine(s, e) /\ (s = 0 \/ \E r \in 0 .. s - 1 : WholeLine(r, s))

\* A whole line of df that comes first or after a whole line is a row with its own
\* fields: what an incomplete line spoils ends with the line after it.
TooltipRowsResync ==
  section = "end" /\ output # <<>> =>
    \A s, e \in 0 .. Len(output) : Follows(s, e) => \E k \in 1 .. Len(rows) : rows[k] = OwnRow(s, e)
=============================================================================
