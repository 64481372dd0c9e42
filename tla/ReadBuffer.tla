----------------------------- MODULE ReadBuffer ------------------------------
(***************************************************************************)
(* read_buffer.c: the one buffer, shared by all modules, through which     *)
(* their files are read in pieces of BUFFER_SIZE, and the calls that parse *)
(* it.  A step is one turn of a call's loop: a look at get() and, unless   *)
(* the call returns, one next().                                           *)
(*                                                                         *)
(* A character is its file and its place there; what the calls tell apart  *)
(* is its class.  Files end anywhere, and a read may give less than it     *)
(* could or fail; most modules do not look at what the calls return, so a  *)
(* call may follow any other.                                              *)
(***************************************************************************)
EXTENDS Integers, Sequences

CONSTANTS BufferSize,   \* BUFFER_SIZE
          File,         \* the files the modules keep open
          Content,      \* the classes of each file's characters
          MaxString,    \* n of read_next_string
          MaxErrors,    \* bound: reads that fail
          MaxCalls      \* bound: calls

Class == {"digit", "other", "space", "newline"}
NoFile == {"nul", "beyond"}

ASSUME ReadBufferAssumption ==
  /\ BufferSize \in Nat \ {0}
  /\ File \cap NoFile = {}
  /\ Content \in [File -> Seq(Class)]
  /\ MaxString \in Nat \ {0} /\ MaxErrors \in Nat /\ MaxCalls \in Nat

VARIABLES
  buffer,   \* buffer
  pos,      \* pos
  filled,   \* filled
  fd,       \* current_fd
  offset,   \* the file offset of current_fd
  call,     \* the call that runs or ran last
  phase,    \* "blank" while skip_whitespaces runs, then "body" and "done"
  got,      \* the characters the call has read
  last,     \* what the last call returned
  at,       \* history: the place in the file of the character at pos
  health,   \* history: "ok", or how a read since read_start failed
  errors,   \* reads that failed so far, bounded by MaxErrors
  calls     \* calls so far, bounded by MaxCalls

bufferVars == <<buffer, pos, filled, fd, offset, at, health, errors>>
vars == <<buffer, pos, filled, fd, offset, call, phase, got, last, at, health,
          errors, calls>>

Place == 0 .. BufferSize - 1
Parser == {"number", "string", "skip", "line"}
Idle == phase = "done"
Result == {"ok", "error", "eof"}

\* The static buffer is NULs until something is read; behind it lies other
\* data of the program, of any class.
Nul == <<"nul", "other">>
Beyond == {"beyond"} \X Class
FileChar == UNION {{f} \X (0 .. Len(Content[f]) - 1) : f \in File}

ClassOf(char) == IF char[1] \in NoFile THEN char[2] ELSE Content[char[1]][char[2] + 1]
IsNumber(char) == ClassOf(char) = "digit"
IsWhitespace(char) == ClassOf(char) \in {"space", "newline"}

TypeOK ==
  /\ buffer \in [Place -> FileChar \cup {Nul}]
  /\ pos \in Nat
  /\ filled \in -1 .. BufferSize
  /\ fd \in File
  /\ offset \in 0 .. Len(Content[fd])
  /\ call \in Parser \cup {"start"}
  /\ phase \in {"blank", "body", "done"}
  /\ got \in Seq(FileChar \cup {Nul} \cup Beyond)
  /\ last \in Result
  /\ at \in Nat
  /\ health \in Result
  /\ errors \in 0 .. MaxErrors
  /\ calls \in 0 .. MaxCalls

Init ==
  /\ buffer = [i \in Place |-> Nul]
  /\ pos = 0
  /\ filled = 0
  /\ fd \in File
  /\ offset = 0
  /\ call = "start"
  /\ phase = "done"
  /\ got = <<>>
  /\ last = "ok"
  /\ at = 0
  /\ health = "error"
  /\ errors = 0
  /\ calls = 0

-----------------------------------------------------------------------------
(* The buffer.                                                             *)

\* The characters get() may see: pos is past the buffer after a file whose last
\* piece filled it.
Seen == IF pos \in Place THEN {buffer[pos]} ELSE Beyond

FillResult == IF filled' < 0 THEN "error" ELSE IF filled' = 0 THEN "eof" ELSE "ok"

\* How many characters a read from an offset may give: as many as the file has
\* there and the buffer holds, or fewer, but 0 at the end of the file only.
Sizes(f, from) ==
  LET left == Len(Content[f]) - from
  IN IF left = 0 THEN {0} ELSE 1 .. IF left < BufferSize THEN left ELSE BufferSize

\* Mutant: pos is not reset by a fill.
FillBufferKeepsPos(f, from, p) ==
  /\ \/ filled' \in Sizes(f, from) /\ errors' = errors
     \/ filled' = -1 /\ errors < MaxErrors /\ errors' = errors + 1
  /\ IF FillResult = "ok"
     THEN /\ buffer' = [i \in Place |-> IF i < filled' THEN <<f, from + i>> ELSE buffer[i]]
          /\ offset' = from + filled'
     ELSE buffer' = buffer /\ offset' = from
  /\ pos' = p
  /\ fd' = f

\* Mutant: one character more is read than the buffer has.
FillBufferOverlong(f, from, p) ==
  /\ filled' = IF Len(Content[f]) - from < BufferSize + 1
               THEN Len(Content[f]) - from ELSE BufferSize + 1
  /\ buffer' = [i \in Place |-> IF i < filled' THEN <<f, from + i>> ELSE buffer[i]]
  /\ pos' = IF filled' > 0 THEN 0 ELSE p
  /\ offset' = from + filled'
  /\ fd' = f
  /\ UNCHANGED errors

\* fill_buffer, from an offset of a file and with pos at p.
FillBuffer(f, from, p) ==
  /\ \/ filled' \in Sizes(f, from) /\ errors' = errors
     \/ filled' = -1 /\ errors < MaxErrors /\ errors' = errors + 1
  /\ IF FillResult = "ok"
     THEN /\ buffer' = [i \in Place |-> IF i < filled' THEN <<f, from + i>> ELSE buffer[i]]
          /\ pos' = 0
          /\ offset' = from + filled'
     ELSE buffer' = buffer /\ pos' = p /\ offset' = from
  /\ fd' = f

NextResult == IF pos + 1 < filled THEN "ok" ELSE FillResult

\* next()
Advance ==
  /\ IF pos + 1 < filled
     THEN pos' = pos + 1 /\ UNCHANGED <<buffer, filled, fd, offset, errors>>
     ELSE FillBuffer(fd, offset, pos + 1)
  /\ health' = IF health = "ok" THEN NextResult ELSE health
  /\ at' = IF health = "ok" THEN at + 1 ELSE at

-----------------------------------------------------------------------------
(* The calls.                                                              *)

Begin ==
  /\ Idle
  /\ calls < MaxCalls
  /\ calls' = calls + 1
  /\ got' = <<>>

\* lseek(fd, 0, SEEK_SET); read_start(fd).
ReadStart(f) ==
  /\ Begin
  /\ FillBuffer(f, 0, pos)
  /\ at' = 0
  /\ health' = FillResult
  /\ last' = FillResult
  /\ call' = "start"
  /\ UNCHANGED phase

\* read_next_uint32, _uint64 and _int64, read_next_string, skip_next, and
\* next_line, which skips no white space first.
StartCall(parser) ==
  /\ Begin
  /\ call' = parser
  /\ phase' = IF parser = "line" THEN "body" ELSE "blank"
  /\ UNCHANGED <<last, bufferVars>>

Return(result) == phase' = "done" /\ last' = result

\* The call goes on in a phase, or returns what next() returned.
GoOn(result, then) ==
  IF result = "ok" THEN phase' = then /\ UNCHANGED last ELSE Return(result)

\* Mutant: white space is not stepped over.
SkipWhitespacesStuck(char) ==
  /\ phase = "blank" /\ IsWhitespace(char)
  /\ UNCHANGED <<phase, last, bufferVars, call, got, calls>>

\* skip_whitespaces
SkipWhitespaces(char) ==
  /\ phase = "blank" /\ IsWhitespace(char)
  /\ Advance
  /\ GoOn(NextResult, "blank")
  /\ UNCHANGED <<call, got, calls>>

\* The call's own loop; its first turn looks at the character that ended
\* skip_whitespaces.
Loop(parser, char) ==
  /\ call = parser
  /\ phase = "body" \/ (phase = "blank" /\ ~IsWhitespace(char))
  /\ UNCHANGED <<call, calls>>

Take(char) == got' = Append(got, char) /\ Advance

Stop(result) == Return(result) /\ UNCHANGED <<got, bufferVars>>

\* Mutant: the character after a number is consumed.
ReadNumberTakesDelimiter(char) ==
  /\ Loop("number", char)
  /\ IF IsNumber(char)
     THEN Take(char) /\ GoOn(NextResult, "body")
     ELSE Advance /\ Return("ok") /\ got' = got

\* A number may end with the file.
ReadNumber(char) ==
  /\ Loop("number", char)
  /\ IF IsNumber(char)
     THEN Take(char) /\ IF NextResult = "eof" THEN Return("ok") ELSE GoOn(NextResult, "body")
     ELSE Stop("ok")

ReadString(char) ==
  /\ Loop("string", char)
  /\ IF IsWhitespace(char) \/ Len(got) = MaxString - 1
     THEN Stop("ok")
     ELSE Take(char) /\ GoOn(NextResult, "body")

SkipNext(char) ==
  /\ Loop("skip", char)
  /\ IF IsWhitespace(char)
     THEN Stop("ok")
     ELSE Advance /\ GoOn(NextResult, "body") /\ got' = got

NextLine(char) ==
  /\ Loop("line", char)
  /\ Advance
  /\ IF ClassOf(char) = "newline" THEN Return(NextResult) ELSE GoOn(NextResult, "body")
  /\ UNCHANGED got

Turn ==
  \E char \in Seen :
    SkipWhitespaces(char) \/ ReadNumber(char) \/ ReadString(char)
      \/ SkipNext(char) \/ NextLine(char)

Next ==
  \/ \E f \in File : ReadStart(f)
  \/ \E parser \in Parser : StartCall(parser)
  \/ Turn

Spec == Init /\ [][Next]_vars

\* A call is sequential code that runs on.
FairSpec == Spec /\ WF_vars(Turn)

-----------------------------------------------------------------------------
(* Properties.                                                             *)

\* As long as no read failed, the character at pos is the one an unbuffered
\* reader would be at, wherever the pieces end: none is lost, read twice or left
\* from another file.
InFile == health = "ok" => pos < filled /\ buffer[pos] = <<fd, at>>

\* A word is a run of the file's characters that ends where the reader is, at a
\* character that is not part of it: none is cut where a piece ends.
WholeWord ==
  Idle /\ health = "ok" /\ call \in {"number", "string"} =>
    /\ \A i \in DOMAIN got : got[i] = <<fd, at - Len(got) + i - 1>>
    /\ call = "number" => ~IsNumber(<<fd, at>>)
    /\ call = "string" => IsWhitespace(<<fd, at>>) \/ Len(got) = MaxString - 1

\* Every call returns, whatever is left in the buffer.
CallsEnd == ~Idle ~> Idle

\* The characters the calls look at are those of a stream.
Stream == INSTANCE CharStream WITH
  Length <- [f \in File |-> Len(Content[f])],
  file   <- fd,
  char   <- IF health = "ok" THEN buffer[pos] ELSE <<"none", 0>>

StreamSpec == Stream!Spec
=============================================================================
