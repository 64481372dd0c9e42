-------------------------- MODULE ReadBufferProofs ---------------------------
(***************************************************************************)
(* The buffered reader reads what an unbuffered one would, for every       *)
(* BUFFER_SIZE, all files and every sequence of calls and failed reads;    *)
(* and the scan of /proc/meminfo made of its calls.                        *)
(***************************************************************************)
EXTENDS RamStart, FiniteSetTheorems, WellFoundedInduction, TLAPS

\* While no read failed, the buffer is the piece of the file that ends at the
\* file offset.
Window ==
  health = "ok" =>
    /\ filled \in 1 .. BufferSize
    /\ pos \in 0 .. filled - 1
    /\ filled <= offset
    /\ at = offset - filled + pos
    /\ \A i \in 0 .. filled - 1 : buffer[i] = <<fd, offset - filled + i>>

Inv == TypeOK /\ Window

\* The variables of the buffer, typed.
BufferTypeOK ==
  /\ buffer \in [Place -> FileChar \cup {Nul}]
  /\ pos \in Nat
  /\ filled \in -1 .. BufferSize
  /\ fd \in File
  /\ offset \in 0 .. Len(Content[fd])
  /\ errors \in 0 .. MaxErrors

LEMMA Files ==
  /\ BufferSize \in Nat \ {0}
  /\ \A f \in File : Len(Content[f]) \in Nat
  /\ \A f \in File : \A k \in 0 .. Len(Content[f]) - 1 : <<f, k>> \in FileChar
<1>1. BufferSize \in Nat \ {0} /\ \A f \in File : Len(Content[f]) \in Nat
  BY ReadBufferAssumption
<1>2. ASSUME NEW f \in File, NEW k \in 0 .. Len(Content[f]) - 1
      PROVE  <<f, k>> \in FileChar
  <2>1. <<f, k>> \in {f} \X (0 .. Len(Content[f]) - 1)
    OBVIOUS
  <2> QED
    BY <2>1 DEF FileChar
<1> QED
  BY <1>1, <1>2

LEMMA Minus ==
  \A a, b \in Nat : (a + b) - b = a /\ b <= a + b /\ a + b \in Nat
OBVIOUS

LEMMA First == \A n \in Nat : n >= 1 => 0 \in 0 .. n - 1
OBVIOUS

\* A read gives characters the file has, and none at its end only.
LEMMA SizesBounded ==
  ASSUME NEW f \in File, NEW from \in 0 .. Len(Content[f])
  PROVE  /\ Sizes(f, from) \subseteq 0 .. BufferSize
         /\ \A size \in Sizes(f, from) : from + size <= Len(Content[f])
         /\ 0 \in Sizes(f, from) => from = Len(Content[f])
<1> DEFINE left == Len(Content[f]) - from
<1>1. Len(Content[f]) \in Nat /\ left \in Nat /\ BufferSize \in Nat \ {0} /\ from \in Nat
  BY Files
<1>2. Sizes(f, from) = IF left = 0 THEN {0} ELSE 1 .. IF left < BufferSize THEN left ELSE BufferSize
  BY DEF Sizes
<1>3. Len(Content[f]) = from + left
  BY <1>1
<1> HIDE DEF left
<1>4. CASE left = 0
  <2>1. Sizes(f, from) = {0}
    BY <1>2, <1>4
  <2> QED
    BY <1>1, <1>3, <1>4, <2>1
<1>5. CASE left # 0
  <2>1. \A size \in Sizes(f, from) : size \in 1 .. BufferSize /\ size <= left
    BY <1>1, <1>2, <1>5
  <2> QED
    BY <1>1, <1>3, <2>1
<1> QED
  BY <1>4, <1>5

\* A fill gives the next piece of the file, or none at its end.
LEMMA Filling ==
  ASSUME BufferTypeOK, NEW f \in File, NEW from \in 0 .. Len(Content[f]), NEW p \in Nat,
         FillBuffer(f, from, p)
  PROVE  /\ BufferTypeOK'
         /\ FillResult \in Result
         /\ FillResult = "ok" =>
              /\ filled' \in 1 .. BufferSize
              /\ pos' = 0
              /\ offset' = from + filled'
              /\ \A i \in 0 .. filled' - 1 : buffer'[i] = <<f, from + i>>
         /\ FillResult = "ok" => from < Len(Content[f])
         /\ FillResult = "eof" => from = Len(Content[f])
         /\ fd' = f
<1>1. /\ Sizes(f, from) \subseteq 0 .. BufferSize
      /\ \A size \in Sizes(f, from) : from + size <= Len(Content[f])
      /\ 0 \in Sizes(f, from) => from = Len(Content[f])
      /\ Len(Content[f]) \in Nat
  BY Files, SizesBounded
<1>2. /\ \/ filled' \in Sizes(f, from) /\ errors' = errors
         \/ filled' = -1 /\ errors < MaxErrors /\ errors' = errors + 1
      /\ IF FillResult = "ok"
         THEN /\ buffer' = [i \in Place |-> IF i < filled' THEN <<f, from + i>> ELSE buffer[i]]
              /\ pos' = 0
              /\ offset' = from + filled'
         ELSE buffer' = buffer /\ pos' = p /\ offset' = from
      /\ fd' = f
  BY DEF FillBuffer
<1>3. filled' \in -1 .. BufferSize /\ errors' \in 0 .. MaxErrors
  BY <1>1, <1>2, Files, ReadBufferAssumption DEF BufferTypeOK
<1>4. /\ FillResult \in Result
      /\ FillResult = "ok" <=> filled' > 0
      /\ FillResult = "eof" <=> filled' = 0
  BY <1>3, Files DEF FillResult, Result
<1>5. CASE FillResult = "ok"
  <2>1. PICK size \in Sizes(f, from) : filled' = size /\ size > 0
    BY <1>2, <1>4, <1>5
  <2>2. /\ size \in 1 .. BufferSize /\ size \in Nat /\ from \in Nat
        /\ from + size <= Len(Content[f])
    BY <1>1, <2>1, Files
  <2>3. ASSUME NEW i \in Place, i < size PROVE <<f, from + i>> \in FileChar
    BY <1>1, <2>2, <2>3, Files DEF Place
  <2>4. buffer' = [i \in Place |-> IF i < size THEN <<f, from + i>> ELSE buffer[i]]
    BY <1>2, <1>5, <2>1
  <2>5. buffer' \in [Place -> FileChar \cup {Nul}]
    BY <2>3, <2>4 DEF BufferTypeOK
  <2>6. \A i \in 0 .. size - 1 : buffer'[i] = <<f, from + i>>
    BY <2>2, <2>4, Files DEF Place
  <2>7. from < Len(Content[f]) /\ from + size \in 0 .. Len(Content[f])
    BY <1>1, <2>1, <2>2
  <2>8. offset' \in 0 .. Len(Content[f]) /\ pos' = 0 /\ offset' = from + size
    BY <1>2, <1>5, <2>1, <2>7
  <2> QED
    BY <1>2, <1>3, <1>4, <1>5, <2>1, <2>2, <2>5, <2>6, <2>7, <2>8 DEF BufferTypeOK
<1>6. CASE FillResult # "ok"
  <2>1. buffer' = buffer /\ pos' = p /\ offset' = from /\ fd' = f
    BY <1>2, <1>6
  <2>2. FillResult = "eof" => from = Len(Content[f])
    BY <1>1, <1>2, <1>4
  <2> QED
    BY <1>3, <1>4, <1>6, <2>1, <2>2 DEF BufferTypeOK
<1> QED
  BY <1>5, <1>6

\* next() goes to the next character of the file, or stops at its end.
LEMMA Advancing ==
  ASSUME TypeOK, Window, Advance
  PROVE  /\ BufferTypeOK' /\ Window'
         /\ at' \in Nat /\ health' \in Result
         /\ NextResult \in Result
         /\ fd' = fd
         /\ health = "ok" =>
              /\ at' = at + 1
              /\ health' = NextResult
              /\ NextResult = "ok" => at + 1 < Len(Content[fd])
              /\ NextResult = "eof" => at + 1 = Len(Content[fd])
         /\ health # "ok" => at' = at /\ health' = health
<1>0. BufferTypeOK /\ pos \in Nat /\ filled \in -1 .. BufferSize /\ at \in Nat
      /\ health \in Result /\ fd \in File /\ offset \in 0 .. Len(Content[fd])
  BY DEF TypeOK, BufferTypeOK
<1>1. /\ health' = IF health = "ok" THEN NextResult ELSE health
      /\ at' = IF health = "ok" THEN at + 1 ELSE at
  BY DEF Advance
<1>2. CASE pos + 1 < filled
  <2>1. pos' = pos + 1 /\ UNCHANGED <<buffer, filled, fd, offset, errors>>
    BY <1>2 DEF Advance
  <2>2. NextResult = "ok"
    BY <1>2 DEF NextResult
  <2>3. BufferTypeOK'
    BY <1>0, <2>1 DEF BufferTypeOK
  <2>4. Window'
    BY <1>0, <1>1, <1>2, <2>1, <2>2 DEF Window
  <2>5. health = "ok" => at + 1 < Len(Content[fd])
    BY <1>0, <1>2, Files DEF Window
  <2> QED
    BY <1>0, <1>1, <2>1, <2>2, <2>3, <2>4, <2>5 DEF Result
<1>3. CASE ~(pos + 1 < filled)
  <2>1. FillBuffer(fd, offset, pos + 1)
    BY <1>3 DEF Advance
  <2>2. NextResult = FillResult
    BY <1>3 DEF NextResult
  <2>3. pos + 1 \in Nat
    BY <1>0
  <2>4. /\ BufferTypeOK'
        /\ FillResult \in Result
        /\ FillResult = "ok" =>
             /\ filled' \in 1 .. BufferSize
             /\ pos' = 0
             /\ offset' = offset + filled'
             /\ \A i \in 0 .. filled' - 1 : buffer'[i] = <<fd, offset + i>>
        /\ FillResult = "ok" => offset < Len(Content[fd])
        /\ FillResult = "eof" => offset = Len(Content[fd])
        /\ fd' = fd
    BY <1>0, <2>1, <2>3, Filling
  <2>5. health = "ok" => at + 1 = offset
    BY <1>0, <1>3 DEF Window
  <2>6. Window'
    <3>1. SUFFICES ASSUME health' = "ok"
                   PROVE  /\ filled' \in 1 .. BufferSize
                          /\ pos' \in 0 .. filled' - 1
                          /\ filled' <= offset'
                          /\ at' = offset' - filled' + pos'
                          /\ \A i \in 0 .. filled' - 1 :
                               buffer'[i] = <<fd', offset' - filled' + i>>
      BY DEF Window
    <3>2. health = "ok" /\ FillResult = "ok" /\ at' = offset
      BY <1>0, <1>1, <2>2, <2>5, <3>1
    <3>3. filled' \in 1 .. BufferSize /\ pos' = 0 /\ offset' = offset + filled'
      BY <2>4, <3>2
    <3>4. filled' \in Nat /\ offset \in Nat
      BY <1>0, <3>3, Files
    <3>5. offset' - filled' = offset /\ filled' <= offset'
      <4>1. (offset + filled') - filled' = offset /\ filled' <= offset + filled'
        BY <3>4, Minus
      <4> QED
        BY <3>3, <4>1
    <3>6. \A i \in 0 .. filled' - 1 : buffer'[i] = <<fd', offset + i>>
      BY <2>4, <3>2
    <3>7. pos' \in 0 .. filled' - 1 /\ at' = offset + pos'
      <4>1. filled' >= 1 /\ pos' = 0
        BY <3>3, Files
      <4>2. offset + 0 = offset
        BY <3>4
      <4>3. 0 \in 0 .. filled' - 1
        BY <3>4, <4>1, First
      <4> QED
        BY <3>2, <4>1, <4>2, <4>3
    <3> QED
      BY <3>3, <3>5, <3>6, <3>7
  <2> QED
    BY <1>0, <1>1, <2>2, <2>4, <2>5, <2>6
<1> QED
  BY <1>2, <1>3

\* What a turn of a call does: it goes on to the next character or it does not
\* touch the buffer, and it keeps the rest well-typed.
LEMMA Turning ==
  ASSUME TypeOK, Window, Turn
  PROVE  /\ Advance \/ UNCHANGED bufferVars
         /\ call' = call /\ calls' = calls
         /\ phase' \in {"blank", "body", "done"}
         /\ got' \in Seq(FileChar \cup {Nul} \cup Beyond)
         /\ last' \in Result
<1>0. /\ call \in Parser \cup {"start"} /\ phase \in {"blank", "body", "done"}
      /\ got \in Seq(FileChar \cup {Nul} \cup Beyond) /\ last \in Result
  BY DEF TypeOK
<1>1. PICK char \in Seen :
        SkipWhitespaces(char) \/ ReadNumber(char) \/ ReadString(char)
          \/ SkipNext(char) \/ NextLine(char)
  BY DEF Turn
<1>2. char \in FileChar \cup {Nul} \cup Beyond
  BY <1>1 DEF Seen, TypeOK
<1>3. Append(got, char) \in Seq(FileChar \cup {Nul} \cup Beyond)
  BY <1>0, <1>2
<1>4. Advance => NextResult \in Result
  BY Advancing
<1>5. "ok" \in Result
  BY DEF Result
<1>6. CASE SkipWhitespaces(char)
  BY <1>0, <1>4, <1>6 DEF SkipWhitespaces, GoOn, Return
<1>7. CASE ReadNumber(char)
  BY <1>0, <1>3, <1>4, <1>5, <1>7 DEF ReadNumber, Take, Stop, GoOn, Return, Loop
<1>8. CASE ReadString(char)
  BY <1>0, <1>3, <1>4, <1>5, <1>8 DEF ReadString, Take, Stop, GoOn, Return, Loop
<1>9. CASE SkipNext(char)
  BY <1>0, <1>4, <1>5, <1>9 DEF SkipNext, Stop, GoOn, Return, Loop
<1>10. CASE NextLine(char)
  BY <1>0, <1>4, <1>10 DEF NextLine, GoOn, Return, Loop
<1> QED
  BY <1>1, <1>6, <1>7, <1>8, <1>9, <1>10

\* read_start opens the window on another file.
LEMMA Starting ==
  ASSUME TypeOK, Window, NEW f \in File, ReadStart(f)
  PROVE  /\ Inv'
         /\ fd' = f /\ at' = 0 /\ health' = FillResult /\ FillResult \in Result
         /\ FillResult = "ok" => 0 < Len(Content[f])
         /\ FillResult = "eof" => Len(Content[f]) = 0
<1>0. BufferTypeOK /\ pos \in Nat /\ 0 \in 0 .. Len(Content[f])
  BY Files DEF TypeOK, BufferTypeOK
<1>1. /\ FillBuffer(f, 0, pos) /\ at' = 0 /\ health' = FillResult /\ last' = FillResult
      /\ call' = "start" /\ phase' = phase /\ got' = <<>>
      /\ calls < MaxCalls /\ calls' = calls + 1
  BY DEF ReadStart, Begin
<1>2. /\ BufferTypeOK' /\ FillResult \in Result /\ fd' = f
      /\ FillResult = "ok" =>
           /\ filled' \in 1 .. BufferSize
           /\ pos' = 0
           /\ offset' = 0 + filled'
           /\ \A i \in 0 .. filled' - 1 : buffer'[i] = <<f, 0 + i>>
      /\ FillResult = "ok" => 0 < Len(Content[f])
      /\ FillResult = "eof" => 0 = Len(Content[f])
  BY <1>0, <1>1, Filling
<1>3. calls' \in 0 .. MaxCalls
  BY <1>1, ReadBufferAssumption DEF TypeOK
<1>4. TypeOK'
  BY <1>1, <1>2, <1>3 DEF TypeOK, BufferTypeOK
<1>5. Window'
  BY <1>1, <1>2, Files DEF Window
<1> QED
  BY <1>1, <1>2, <1>4, <1>5 DEF Inv

LEMMA InitInv == Init => Inv
<1> SUFFICES ASSUME Init PROVE Inv
  OBVIOUS
<1>1. TypeOK
  BY Files, ReadBufferAssumption DEF Init, TypeOK, Result, Place
<1>2. Window
  BY DEF Init, Window
<1> QED
  BY <1>1, <1>2 DEF Inv

LEMMA StepInv == Inv /\ [Next]_vars => Inv'
<1> SUFFICES ASSUME Inv, [Next]_vars PROVE Inv'
  OBVIOUS
<1>0. TypeOK /\ Window
  BY DEF Inv
<1>1. CASE \E f \in File : ReadStart(f)
  BY <1>0, <1>1, Starting
<1>2. CASE \E parser \in Parser : StartCall(parser)
  <2>1. PICK parser \in Parser : StartCall(parser)
    BY <1>2
  <2>2. /\ calls < MaxCalls /\ calls' = calls + 1 /\ got' = <<>> /\ call' = parser
        /\ phase' \in {"blank", "body"} /\ UNCHANGED <<last, bufferVars>>
    BY <2>1 DEF StartCall, Begin
  <2>3. TypeOK'
    BY <1>0, <2>2, ReadBufferAssumption DEF TypeOK, bufferVars
  <2>4. Window'
    BY <1>0, <2>2 DEF Window, bufferVars
  <2> QED
    BY <2>3, <2>4 DEF Inv
<1>3. CASE Turn
  <2>1. /\ Advance \/ UNCHANGED bufferVars
        /\ call' = call /\ calls' = calls
        /\ phase' \in {"blank", "body", "done"}
        /\ got' \in Seq(FileChar \cup {Nul} \cup Beyond)
        /\ last' \in Result
    BY <1>0, <1>3, Turning
  <2>2. CASE Advance
    <3>1. BufferTypeOK' /\ Window' /\ at' \in Nat /\ health' \in Result
      BY <1>0, <2>2, Advancing
    <3> QED
      BY <1>0, <2>1, <3>1 DEF Inv, TypeOK, BufferTypeOK
  <2>3. CASE UNCHANGED bufferVars
    BY <1>0, <2>1, <2>3 DEF Inv, TypeOK, Window, bufferVars
  <2> QED
    BY <2>1, <2>2, <2>3
<1>4. CASE UNCHANGED vars
  BY <1>0, <1>4 DEF Inv, TypeOK, Window, vars
<1> QED
  BY <1>1, <1>2, <1>3, <1>4 DEF Next

\* Every variable keeps its type: no fill goes past the buffer or the file.
THEOREM TypeCorrect == Spec => []TypeOK
<1>1. Inv => TypeOK
  BY DEF Inv
<1> QED
  BY <1>1, InitInv, StepInv, PTL DEF Spec

LEMMA WindowShows == Inv => InFile
<1> SUFFICES ASSUME Inv, health = "ok"
             PROVE  pos < filled /\ buffer[pos] = <<fd, at>>
  BY DEF InFile
<1>1. /\ filled \in 1 .. BufferSize /\ pos \in 0 .. filled - 1
      /\ at = offset - filled + pos
      /\ \A i \in 0 .. filled - 1 : buffer[i] = <<fd, offset - filled + i>>
  BY DEF Inv, Window
<1>2. buffer[pos] = <<fd, offset - filled + pos>>
  BY <1>1
<1> QED
  BY <1>1, <1>2, Files

\* The character at pos is the file's, in order and from this file, wherever the
\* pieces end.
THEOREM CharactersInOrder == Spec => []InFile
<1> QED
  BY WindowShows, InitInv, StepInv, PTL DEF Spec

-----------------------------------------------------------------------------
(* The buffered reader implements the stream.                              *)

CharHere == IF health = "ok" THEN buffer[pos] ELSE <<"none", 0>>

LEMMA StreamInit == Init => Stream!Init
BY DEF Init, Stream!Init, Stream!NoChar

LEMMA StreamStep == Inv /\ Inv' /\ [Next]_vars => [Stream!Next]_(Stream!vars)
<1> SUFFICES ASSUME Inv, Inv', [Next]_vars PROVE [Stream!Next]_(Stream!vars)
  OBVIOUS
<1>0. /\ TypeOK /\ Window
      /\ health' = "ok" => CharHere' = <<fd', at'>>
      /\ health' # "ok" => CharHere' = <<"none", 0>>
  <2>1. InFile'
    <3>1. Inv => InFile
      BY WindowShows
    <3> QED
      BY <3>1, WindowShows, PTL
  <2> QED
    BY <2>1 DEF Inv, InFile, CharHere
<1>1. ASSUME NEW f \in File, ReadStart(f) PROVE Stream!Open
  <2>1. /\ fd' = f /\ at' = 0 /\ health' = FillResult /\ FillResult \in Result
        /\ FillResult = "ok" => 0 < Len(Content[f])
        /\ FillResult = "eof" => Len(Content[f]) = 0
    BY <1>0, <1>1, Starting
  <2>2. Stream!Arrive(f, 0)
    BY <1>0, <2>1 DEF Stream!Arrive, Stream!NoChar, CharHere, Result
  <2> QED
    BY <2>2 DEF Stream!Open
<1>2. CASE UNCHANGED bufferVars
  BY <1>2 DEF bufferVars, Stream!vars
<1>3. CASE Advance
  <2>1. /\ fd' = fd
        /\ health = "ok" =>
             /\ at' = at + 1
             /\ health' = NextResult
             /\ NextResult = "ok" => at + 1 < Len(Content[fd])
             /\ NextResult = "eof" => at + 1 = Len(Content[fd])
        /\ NextResult \in Result
        /\ health # "ok" => at' = at /\ health' = health
    BY <1>0, <1>3, Advancing
  <2>2. CASE health = "ok"
    <3>1. Stream!Arrive(fd, at + 1)
      BY <1>0, <2>1, <2>2 DEF Stream!Arrive, Stream!NoChar, CharHere, Result, TypeOK
    <3> QED
      BY <2>2, <3>1 DEF Stream!Advance, Stream!Next
  <2>3. CASE health # "ok"
    BY <2>1, <2>3 DEF Stream!vars
  <2> QED
    BY <2>2, <2>3
<1>4. CASE \E f \in File : ReadStart(f)
  BY <1>1, <1>4 DEF Stream!Next
<1>5. CASE \E parser \in Parser : StartCall(parser)
  BY <1>2, <1>5 DEF StartCall
<1>6. CASE Turn
  BY <1>0, <1>2, <1>3, <1>6, Turning
<1>7. CASE UNCHANGED vars
  BY <1>2, <1>7 DEF vars, bufferVars
<1> QED
  BY <1>4, <1>5, <1>6, <1>7 DEF Next

\* What the calls look at is a stream of the file's characters.
THEOREM ReadsAStream == Spec => StreamSpec
<1> QED
  BY InitInv, StepInv, StreamInit, StreamStep, PTL DEF Spec, StreamSpec, Stream!Spec

-----------------------------------------------------------------------------
(* Words.                                                                  *)

\* The character behind a word that was read.
WordEnds ==
  /\ call = "number" => ~IsNumber(<<fd, at>>)
  /\ call = "string" => IsWhitespace(<<fd, at>>) \/ Len(got) = MaxString - 1

\* What has been read of a word so far lies in front of the reader.
WordInv ==
  health = "ok" /\ call \in {"number", "string"} =>
    /\ phase = "blank" => got = <<>>
    /\ \A i \in DOMAIN got : got[i] = <<fd, at - Len(got) + i - 1>>
    /\ phase = "done" => WordEnds

\* A character more of a word.
LEMMA Taking ==
  ASSUME Inv, NEW char \in Seen, Take(char), health = "ok",
         \A i \in DOMAIN got : got[i] = <<fd, at - Len(got) + i - 1>>
  PROVE  \A i \in DOMAIN got' : got'[i] = <<fd', at' - Len(got') + i - 1>>
<1>1. fd' = fd /\ at' = at + 1 /\ at \in Nat
  BY Advancing DEF Inv, Take, TypeOK
<1>2. pos \in Place /\ buffer[pos] = <<fd, at>>
  <2>1. pos \in 0 .. filled - 1 /\ filled \in 1 .. BufferSize
    BY DEF Inv, Window
  <2>2. pos \in Place
    BY <2>1, Files DEF Place
  <2> QED
    BY <2>2, WindowShows DEF InFile
<1>3. char = <<fd, at>>
  BY <1>2 DEF Seen
<1>4. got \in Seq(FileChar \cup {Nul} \cup Beyond) /\ got' = Append(got, char)
  BY DEF Inv, TypeOK, Take
<1>5. /\ Len(got') = Len(got) + 1 /\ Len(got) \in Nat
      /\ DOMAIN got' = 1 .. Len(got) + 1 /\ DOMAIN got = 1 .. Len(got)
      /\ \A i \in DOMAIN got : got'[i] = got[i]
      /\ got'[Len(got) + 1] = char
  BY <1>4
<1>6. ASSUME NEW i \in DOMAIN got' PROVE got'[i] = <<fd', at' - Len(got') + i - 1>>
  <2>1. CASE i = Len(got) + 1
    BY <1>1, <1>3, <1>5, <2>1
  <2>2. CASE i # Len(got) + 1
    <3>1. i \in DOMAIN got
      BY <1>5, <2>2
    <3>2. at' - Len(got') + i - 1 = at - Len(got) + i - 1
      BY <1>1, <1>5, <3>1
    <3> QED
      BY <1>1, <1>5, <3>1, <3>2
  <2> QED
    BY <2>1, <2>2
<1> QED
  BY <1>6

\* The character a call looks at, while no read failed.
LEMMA Looking ==
  ASSUME Inv, NEW char \in Seen, health = "ok"
  PROVE  char = <<fd, at>>
<1>1. pos \in 0 .. filled - 1 /\ filled \in 1 .. BufferSize
  BY DEF Inv, Window
<1>2. pos \in Place
  BY <1>1, Files DEF Place
<1>3. buffer[pos] = <<fd, at>>
  BY WindowShows DEF InFile
<1> QED
  BY <1>2, <1>3 DEF Seen

LEMMA WordStep == Inv /\ WordInv /\ [Next]_vars => WordInv'
<1> SUFFICES ASSUME Inv, WordInv, [Next]_vars, health' = "ok", call' \in {"number", "string"}
             PROVE  /\ phase' = "blank" => got' = <<>>
                    /\ \A i \in DOMAIN got' : got'[i] = <<fd', at' - Len(got') + i - 1>>
                    /\ phase' = "done" => WordEnds'
  BY DEF WordInv
<1>1. CASE \E f \in File : ReadStart(f)
  BY <1>1 DEF ReadStart
<1>2. CASE \E parser \in Parser : StartCall(parser)
  <2>1. got' = <<>> /\ phase' \in {"blank", "body"}
    BY <1>2 DEF StartCall, Begin
  <2> QED
    BY <2>1
<1>3. CASE Turn
  <2>1. PICK char \in Seen :
          SkipWhitespaces(char) \/ ReadNumber(char) \/ ReadString(char)
            \/ SkipNext(char) \/ NextLine(char)
    BY <1>3 DEF Turn
  <2>2. health = "ok" /\ call' = call
    <3>1. Advance \/ UNCHANGED bufferVars
      BY <1>3, Turning DEF Inv
    <3>2. Advance => (health # "ok" => health' = health)
      BY Advancing DEF Inv
    <3> QED
      BY <1>3, <3>1, <3>2, Turning DEF Inv, bufferVars
  <2>3. char = <<fd, at>>
    BY <2>1, <2>2, Looking
  <2>4. /\ phase = "blank" => got = <<>>
        /\ \A i \in DOMAIN got : got[i] = <<fd, at - Len(got) + i - 1>>
    BY <2>2 DEF WordInv
  <2>5. Advance => health' = NextResult
    BY <2>2, Advancing DEF Inv
  <2>6. CASE SkipWhitespaces(char)
    <3>1. got' = <<>> /\ NextResult = "ok" /\ phase' = "blank"
      BY <2>4, <2>5, <2>6 DEF SkipWhitespaces, GoOn
    <3> QED
      BY <3>1
  <2>7. CASE ReadNumber(char)
    <3>1. CASE IsNumber(char)
      <4>1. Take(char) /\ Advance
        BY <2>7, <3>1 DEF ReadNumber, Take
      <4>2. phase' = "body"
        BY <2>5, <2>7, <3>1, <4>1 DEF ReadNumber, GoOn
      <4> QED
        BY <2>1, <2>2, <2>4, <4>1, <4>2, Taking
    <3>2. CASE ~IsNumber(char)
      <4>1. call = "number" /\ phase' = "done" /\ UNCHANGED <<got, bufferVars>>
        BY <2>7, <3>2 DEF ReadNumber, Loop, Stop, Return
      <4>2. WordEnds'
        BY <2>2, <2>3, <3>2, <4>1 DEF WordEnds, bufferVars, IsNumber, ClassOf
      <4> QED
        BY <2>4, <4>1, <4>2 DEF bufferVars
    <3> QED
      BY <3>1, <3>2
  <2>8. CASE ReadString(char)
    <3>1. CASE IsWhitespace(char) \/ Len(got) = MaxString - 1
      <4>1. call = "string" /\ phase' = "done" /\ UNCHANGED <<got, bufferVars>>
        BY <2>8, <3>1 DEF ReadString, Loop, Stop, Return
      <4>2. WordEnds'
        BY <2>2, <2>3, <3>1, <4>1 DEF WordEnds, bufferVars, IsWhitespace, ClassOf
      <4> QED
        BY <2>4, <4>1, <4>2 DEF bufferVars
    <3>2. CASE ~(IsWhitespace(char) \/ Len(got) = MaxString - 1)
      <4>1. Take(char) /\ Advance
        BY <2>8, <3>2 DEF ReadString, Take
      <4>2. phase' = "body"
        BY <2>5, <2>8, <3>2, <4>1 DEF ReadString, GoOn
      <4> QED
        BY <2>1, <2>2, <2>4, <4>1, <4>2, Taking
    <3> QED
      BY <3>1, <3>2
  <2>9. CASE SkipNext(char) \/ NextLine(char)
    BY <2>2, <2>9 DEF SkipNext, NextLine, Loop
  <2> QED
    BY <2>1, <2>6, <2>7, <2>8, <2>9
<1>4. CASE UNCHANGED vars
  BY <1>4 DEF WordInv, WordEnds, IsNumber, IsWhitespace, ClassOf, vars
<1> QED
  BY <1>1, <1>2, <1>3, <1>4 DEF Next

\* No number and no word is cut where a piece ends, or goes on into another file.
THEOREM WordsAreWhole == Spec => []WholeWord
<1>1. Init => WordInv
  BY DEF Init, WordInv
<1>2. WordInv => WholeWord
  BY DEF WordInv, WordEnds, WholeWord, Idle
<1> QED
  BY <1>1, <1>2, InitInv, StepInv, WordStep, PTL DEF Spec
-----------------------------------------------------------------------------
(* The lines of /proc/meminfo.                                             *)

Size == Len(Content[meminfo])
Ends(n) == Cardinality(Newlines(n))     \* how many lines end before the place n
LineStart(n) == n = 0 \/ n \in Newlines(n)

LEMMA Meminfo ==
  /\ meminfo \in File /\ Size \in Nat /\ Ends(Size) \in Nat
  /\ DOMAIN Layout = 1 .. Ends(Size) /\ Len(Layout) = Ends(Size)
<1>1. Len(Layout) \in Nat /\ DOMAIN Layout = 1 .. Len(Layout)
  BY RamStartAssumption
<1>2. meminfo \in File /\ Size \in Nat /\ Len(Layout) = Ends(Size)
  BY Files, RamStartAssumption DEF Size, Ends
<1> QED
  BY <1>1, <1>2

\* A nonempty set of naturals has a least element.
LEMMA Least ==
  ASSUME NEW T \in SUBSET Nat, T # {}
  PROVE  \E x \in T : \A y \in T : x <= y
<1> DEFINE R == {ss \in Nat \X Nat : ss[1] < ss[2]}
<1>1. OpToRel(<, Nat) = R
  BY Zenon DEF OpToRel
<1>2. \E x \in T : \A y \in T : ~ (<<y, x>> \in OpToRel(<, Nat))
  BY WFMin, NatLessThanWellFounded
<1>3. PICK x \in T : \A y \in T : ~ (<<y, x>> \in R)
  BY <1>1, <1>2
<1>4. \A y \in T : <<y, x>> \in R <=> y < x
  OBVIOUS
<1> HIDE DEF R
<1>5. \A y \in T : ~ (y < x)
  BY <1>3, <1>4
<1> QED
  BY <1>5

LEMMA EndsTypes ==
  ASSUME NEW n \in Nat
  PROVE  IsFiniteSet(Newlines(n)) /\ Ends(n) \in Nat
<1>1. IsFiniteSet(1 .. n)
  BY FS_Interval
<1>2. Newlines(n) \in SUBSET (1 .. n)
  BY DEF Newlines
<1> QED
  BY <1>1, <1>2, FS_Subset, FS_CardinalityType DEF Ends

LEMMA EndsOfNone == Ends(0) = 0
<1>1. Newlines(0) = {}
  BY DEF Newlines
<1> QED
  BY <1>1, FS_EmptySet DEF Ends

LEMMA EndsOfNext ==
  ASSUME NEW n \in Nat
  PROVE  /\ Ends(n + 1) = IF Content[meminfo][n + 1] = "newline" THEN Ends(n) + 1 ELSE Ends(n)
         /\ Content[meminfo][n + 1] = "newline" <=> LineStart(n + 1)
<1>1. /\ Newlines(n + 1) = IF Content[meminfo][n + 1] = "newline"
                           THEN Newlines(n) \cup {n + 1} ELSE Newlines(n)
      /\ n + 1 \notin Newlines(n)
  BY DEF Newlines
<1>2. Cardinality(Newlines(n) \cup {n + 1}) = Cardinality(Newlines(n)) + 1
  BY <1>1, EndsTypes, FS_AddElement
<1>3. Content[meminfo][n + 1] = "newline" <=> LineStart(n + 1)
  BY DEF LineStart, Newlines
<1> QED
  BY <1>1, <1>2, <1>3 DEF Ends

LEMMA EndsGrow ==
  ASSUME NEW n \in Nat, NEW m \in 0 .. n
  PROVE  Ends(m) <= Ends(n)
<1>1. Newlines(m) \in SUBSET Newlines(n)
  BY DEF Newlines
<1> QED
  BY <1>1, EndsTypes, FS_Subset DEF Ends

\* No two lines begin at places with as many ends before them.
LEMMA StartUnique ==
  ASSUME NEW b \in Nat, NEW c \in Nat, LineStart(b), LineStart(c), Ends(b) = Ends(c)
  PROVE  b = c
<1>1. ASSUME NEW m \in Nat, NEW n \in Nat, m < n, LineStart(n)
      PROVE  Ends(m) < Ends(n)
  <2>1. n - 1 \in Nat /\ (n - 1) + 1 = n /\ m \in 0 .. n - 1
    BY <1>1
  <2>2. Ends(n) = Ends(n - 1) + 1
    BY <1>1, <2>1, EndsOfNext
  <2>3. Ends(m) <= Ends(n - 1) /\ Ends(m) \in Nat /\ Ends(n - 1) \in Nat
    BY <2>1, EndsGrow, EndsTypes
  <2> QED
    BY <2>2, <2>3
<1>2. Ends(b) \in Nat /\ Ends(c) \in Nat
  BY EndsTypes
<1> QED
  BY <1>1, <1>2

LEMMA StartExists ==
  ASSUME NEW k \in 0 .. Ends(Size)
  PROVE  \E b \in 0 .. Size : LineStart(b) /\ Ends(b) = k
<1> DEFINE T == {n \in 0 .. Size : k <= Ends(n)}
<1>1. Size \in Nat /\ Size \in 0 .. Size /\ Ends(Size) \in Nat
  BY Meminfo, EndsTypes
<1>2. T \in SUBSET Nat /\ T # {}
  BY <1>1
<1>3. PICK b \in T : \A n \in T : b <= n
  BY <1>2, Least
<1>4. b \in 0 .. Size /\ b \in Nat /\ k <= Ends(b)
  BY <1>1, <1>3
<1>5. CASE b = 0
  BY <1>1, <1>4, <1>5, EndsOfNone DEF LineStart
<1>6. CASE b # 0
  <2>1. b - 1 \in Nat /\ (b - 1) + 1 = b /\ b - 1 \in 0 .. Size
    BY <1>1, <1>4, <1>6
  <2>2. Ends(b - 1) < k
    BY <1>1, <1>3, <2>1, EndsTypes
  <2>3. /\ Ends(b) = IF Content[meminfo][b] = "newline" THEN Ends(b - 1) + 1 ELSE Ends(b - 1)
        /\ Content[meminfo][b] = "newline" <=> LineStart(b)
    BY <2>1, EndsOfNext
  <2>4. Ends(b - 1) \in Nat /\ Ends(b) \in Nat
    BY <1>4, <2>1, EndsTypes
  <2> QED
    BY <1>1, <1>4, <2>2, <2>3, <2>4
<1> QED
  BY <1>5, <1>6

\* A word from the beginning of a line has the key of that line.
LEMMA KeyOfWord ==
  ASSUME NEW b \in 0 .. Size, LineStart(b), NEW S, NEW word \in Seq(S), word # <<>>,
         \A k \in DOMAIN word : word[k] = <<meminfo, b + k - 1>>
  PROVE  KeyOf(word) = IF Ends(b) + 1 \in DOMAIN Layout THEN Layout[Ends(b) + 1] ELSE "other"
<1> DEFINE B(i) == IF i = 1 THEN 0
                   ELSE CHOOSE n \in Newlines(Size) : Cardinality(Newlines(n)) = i - 1
           Is(i) == \A k \in DOMAIN word : word[k] = <<meminfo, B(i) + k - 1>>
<1>1. KeyOf(word) = IF word # <<>> /\ (\E i \in DOMAIN Layout : Is(i))
                    THEN Layout[CHOOSE i \in DOMAIN Layout : Is(i)] ELSE "other"
  BY DEF KeyOf, Size
<1>2. ASSUME NEW i \in DOMAIN Layout
      PROVE  B(i) \in 0 .. Size /\ LineStart(B(i)) /\ Ends(B(i)) = i - 1
  <2>1. i \in 1 .. Ends(Size) /\ i - 1 \in 0 .. Ends(Size) /\ Size \in Nat
    BY Meminfo
  <2>2. CASE i = 1
    BY <2>1, <2>2, EndsOfNone DEF LineStart
  <2>3. CASE i # 1
    <3>1. PICK c \in 0 .. Size : LineStart(c) /\ Ends(c) = i - 1
      BY <2>1, StartExists
    <3>2. c # 0
      BY <2>1, <2>3, <3>1, EndsOfNone
    <3>3. c \in Newlines(Size) /\ Cardinality(Newlines(c)) = i - 1
      BY <3>1, <3>2 DEF LineStart, Newlines, Ends
    <3>4. B(i) \in Newlines(Size) /\ Cardinality(Newlines(B(i))) = i - 1
      BY <2>3, <3>3
    <3> HIDE DEF B
    <3>5. B(i) \in 0 .. Size /\ B(i) \in Newlines(B(i))
      BY <2>1, <3>4 DEF Newlines
    <3> QED
      BY <3>4, <3>5 DEF LineStart, Ends
  <2> QED
    BY <2>2, <2>3
<1>3. ASSUME NEW i \in DOMAIN Layout PROVE Is(i) <=> i = Ends(b) + 1
  <2>1. /\ B(i) \in Nat /\ LineStart(B(i)) /\ Ends(B(i)) = i - 1
        /\ i \in Nat /\ b \in Nat /\ Ends(b) \in Nat
    <3>1. B(i) \in 0 .. Size /\ LineStart(B(i)) /\ Ends(B(i)) = i - 1
      BY <1>2
    <3> HIDE DEF B
    <3>2. Size \in Nat /\ i \in 1 .. Ends(Size)
      BY Meminfo
    <3>3. b \in Nat /\ Ends(b) \in Nat
      BY <3>2, EndsTypes
    <3> QED
      BY <3>1, <3>2, <3>3
  <2> HIDE DEF B
  <2>2. ASSUME Is(i) PROVE B(i) = b
    <3>1. 1 \in DOMAIN word
      OBVIOUS
    <3>2. <<meminfo, b + 1 - 1>> = <<meminfo, B(i) + 1 - 1>>
      BY <2>2, <3>1
    <3> QED
      BY <2>1, <3>2
  <2>3. B(i) = b => Is(i)
    OBVIOUS
  <2>4. B(i) = b <=> Ends(B(i)) = Ends(b)
    BY <2>1, StartUnique
  <2> QED
    BY <2>1, <2>2, <2>3, <2>4
<1> HIDE DEF Is
<1>4. CASE Ends(b) + 1 \in DOMAIN Layout
  <2>1. (CHOOSE i \in DOMAIN Layout : Is(i)) = Ends(b) + 1
    BY <1>3, <1>4
  <2> QED
    BY <1>1, <1>3, <1>4, <2>1
<1>5. CASE Ends(b) + 1 \notin DOMAIN Layout
  BY <1>1, <1>3, <1>5
<1> QED
  BY <1>4, <1>5
-----------------------------------------------------------------------------
(* The scan.                                                               *)

ScanTypes ==
  /\ scan \in {"before", "key", "reading", "line", "done"}
  /\ line \in Nat /\ failures \in Nat /\ failures <= errors
  /\ DOMAIN lineNumbers = Key

\* The keys of the first n lines are noted, and the others are as at the start.
Noted(n) ==
  \A key \in Key :
    IF \E i \in DOMAIN Layout : i <= n /\ Layout[i] = key
    THEN \E i \in DOMAIN Layout : i <= n /\ Layout[i] = key /\ lineNumbers[key] = i - 1
    ELSE lineNumbers[key] = IF key = "total" THEN -1 ELSE 0

\* No read of the scan failed.
Unfailed == scan # "before" /\ errors = failures

\* The reader is in the file or at its end, where a call can only find the end
\* once more.
InMeminfo ==
  /\ fd = meminfo /\ health \in {"ok", "eof"}
  /\ health = "ok" => at < Size
  /\ health = "eof" => filled = 0 /\ offset = Size

\* Before the key of a line is read, the reader is where that line begins.
AtKey ==
  scan = "key" =>
    /\ Idle /\ Noted(line)
    /\ IF health = "ok" THEN LineStart(at) /\ Ends(at) = line ELSE Ends(Size) <= line

\* While it is read, what was read is the beginning of that line.
InKey ==
  scan = "reading" =>
    /\ call = "string" /\ Noted(line)
    /\ phase = "blank" => got = <<>>
    /\ health = "ok" =>
         /\ at - Len(got) \in Nat /\ LineStart(at - Len(got))
         /\ Ends(at - Len(got)) = line /\ Ends(at) = line
         /\ phase # "blank" => got # <<>>
         /\ Idle => last = "ok"
    /\ health = "eof" => phase \in {"blank", "done"} /\ Ends(Size) <= line
    /\ health = "eof" /\ Idle => last = "eof"

\* While the rest of the line is skipped, the line is noted already.
InLine ==
  scan = "line" =>
    /\ call = "line" /\ phase # "blank" /\ Noted(line + 1)
    /\ health = "ok" /\ ~ Idle => Ends(at) = line
    /\ health = "ok" /\ Idle => LineStart(at) /\ Ends(at) = line + 1
    /\ health = "eof" => Idle /\ Ends(Size) <= line + 1

AtDone == scan = "done" => Idle /\ Noted(line) /\ Ends(Size) <= line

Scanned == Unfailed => InMeminfo /\ AtKey /\ InKey /\ InLine /\ AtDone

NothingNoted == scan = "before" => line = 0 /\ Noted(0)

ScanInv == ScanTypes /\ NothingNoted /\ Scanned

\* A fill under the scan: what it leaves and when it fails.
LEMMA FillEnd ==
  ASSUME BufferTypeOK, NEW f \in File, NEW from \in 0 .. Len(Content[f]), NEW p \in Nat,
         FillBuffer(f, from, p)
  PROVE  /\ errors \in Nat /\ errors' \in Nat /\ errors <= errors'
         /\ errors' = errors => FillResult # "error"
         /\ FillResult = "eof" => filled' = 0 /\ offset' = Len(Content[f])
         /\ from = Len(Content[f]) => FillResult # "ok"
<1>1. /\ filled' \in Int
      /\ FillResult = "error" <=> filled' < 0
      /\ FillResult = "eof" <=> filled' = 0
  <2>1. filled' \in Int
    BY Filling, Files DEF BufferTypeOK
  <2> QED
    BY <2>1 DEF FillResult
<1>2. errors \in Nat /\ Len(Content[f]) \in Nat /\ from \in Nat /\ BufferSize \in Nat \ {0}
  BY Files, ReadBufferAssumption DEF BufferTypeOK
<1>3. /\ \/ filled' >= 0 /\ errors' = errors
         \/ filled' = -1 /\ errors' = errors + 1
      /\ FillResult # "ok" => offset' = from
  <2>1. \A size \in Sizes(f, from) : size >= 0
    BY <1>2, SizesBounded
  <2> QED
    BY <1>2, <2>1 DEF FillBuffer
<1>4. FillResult = "eof" => from = Len(Content[f])
  BY Filling
<1>5. FillResult = "ok" => from < Len(Content[f])
  BY Filling
<1>6. errors' \in Nat /\ errors <= errors'
  BY <1>2, <1>3
<1>7. errors' = errors => FillResult # "error"
  BY <1>1, <1>2, <1>3
<1> QED
  BY <1>1, <1>2, <1>3, <1>4, <1>5, <1>6, <1>7

LEMMA AdvanceEnd ==
  ASSUME Inv, Advance
  PROVE  /\ errors \in Nat /\ errors' \in Nat /\ errors <= errors'
         /\ errors' = errors => NextResult # "error"
         /\ NextResult = "eof" => filled' = 0 /\ offset' = Len(Content[fd])
         /\ filled = 0 /\ offset = Len(Content[fd]) => NextResult # "ok"
<1>0. BufferTypeOK /\ pos \in Nat /\ pos + 1 \in Nat /\ filled \in Int /\ fd \in File /\ errors \in Nat
      /\ offset \in 0 .. Len(Content[fd])
  BY Files, ReadBufferAssumption DEF Inv, TypeOK, BufferTypeOK
<1>1. CASE pos + 1 < filled
  BY <1>0, <1>1 DEF Advance, NextResult
<1>2. CASE ~ (pos + 1 < filled)
  <2>1. FillBuffer(fd, offset, pos + 1) /\ NextResult = FillResult
    BY <1>2 DEF Advance, NextResult
  <2> QED
    BY <1>0, <2>1, FillEnd
<1> QED
  BY <1>1, <1>2

LEMMA ErrorsGrow ==
  ASSUME Inv, [Next]_vars
  PROVE  errors \in Nat /\ errors' \in Nat /\ errors <= errors'
<1>0. errors \in Nat
  BY ReadBufferAssumption DEF Inv, TypeOK
<1>1. ASSUME NEW f \in File, ReadStart(f)
      PROVE  errors' \in Nat /\ errors <= errors'
  <2>1. BufferTypeOK /\ pos \in Nat /\ 0 \in 0 .. Len(Content[f])
    BY Files DEF Inv, TypeOK, BufferTypeOK
  <2> QED
    BY <1>1, <2>1, FillEnd DEF ReadStart
<1>2. CASE UNCHANGED bufferVars \/ UNCHANGED vars
  BY <1>0, <1>2 DEF bufferVars, vars
<1>3. CASE Turn
  BY <1>2, <1>3, Turning, AdvanceEnd DEF Inv
<1>4. CASE \E parser \in Parser : StartCall(parser)
  BY <1>2, <1>4 DEF StartCall
<1> QED
  BY <1>0, <1>1, <1>2, <1>3, <1>4 DEF Next

\* A turn at the end of the file finds the end, and one before it the next
\* character or the end.
LEMMA MeminfoAdvance ==
  ASSUME Inv, InMeminfo, Advance, errors' = errors
  PROVE  /\ InMeminfo'
         /\ NextResult \in {"ok", "eof"} /\ health' = NextResult
         /\ health = "eof" => NextResult = "eof"
         /\ health = "ok" => at' = at + 1
         /\ health = "ok" /\ NextResult = "eof" => at + 1 = Size
<1>1. /\ NextResult \in {"ok", "eof"}
      /\ NextResult = "eof" => filled' = 0 /\ offset' = Size
      /\ health = "eof" => NextResult = "eof"
  BY AdvanceEnd, Advancing DEF Inv, InMeminfo, Size, Result
<1>2. /\ fd' = fd
      /\ health = "ok" =>
           /\ at' = at + 1
           /\ health' = NextResult
           /\ NextResult = "ok" => at + 1 < Size
           /\ NextResult = "eof" => at + 1 = Size
      /\ health # "ok" => health' = health
  BY Advancing DEF Inv, InMeminfo, Size
<1> QED
  BY <1>1, <1>2 DEF InMeminfo

LEMMA NotedStays ==
  ASSUME lineNumbers' = lineNumbers
  PROVE  \A n : Noted(n)' <=> Noted(n)
BY DEF Noted

\* The character at the reader.
LEMMA MeminfoChar ==
  ASSUME Inv, InMeminfo, health = "ok", NEW char \in Seen
  PROVE  /\ ClassOf(char) = Content[meminfo][at + 1]
         /\ at \in Nat /\ at < Size
         /\ LineStart(at) => ~ IsWhitespace(char)
<1>1. char = <<meminfo, at>>
  BY Looking DEF InMeminfo
<1>2. meminfo \notin NoFile
  BY Meminfo, ReadBufferAssumption
<1>3. ClassOf(char) = Content[meminfo][at + 1]
  BY <1>1, <1>2 DEF ClassOf
<1>4. at \in Nat /\ at < Size
  BY DEF Inv, TypeOK, InMeminfo
<1>5. ASSUME LineStart(at) PROVE ~ IsWhitespace(char)
  <2>1. at \in {0} \cup Newlines(Size)
    BY <1>4, <1>5, Meminfo DEF LineStart, Newlines
  <2>2. Content[meminfo][at + 1] \in {"digit", "other"}
    BY <1>4, <2>1, RamStartAssumption DEF Size
  <2> QED
    BY <1>3, <2>2 DEF IsWhitespace
<1> QED
  BY <1>3, <1>4, <1>5
\* A turn of read_next_string, which in the file begins at the line's first
\* character.
LEMMA KeyTurn ==
  ASSUME Inv, InMeminfo, InKey, scan = "reading", Turn, errors' = errors, UNCHANGED scanVars
  PROVE  InMeminfo' /\ InKey'
<1>0. /\ call = "string" /\ Noted(line) /\ line' = line /\ scan' = scan
      /\ phase = "blank" => got = <<>>
      /\ (Noted(line))'
  BY NotedStays DEF InKey, scanVars
<1>1. PICK char \in Seen : SkipWhitespaces(char) \/ ReadString(char)
  BY <1>0 DEF Turn, ReadNumber, SkipNext, NextLine, Loop
<1>2. call' = call /\ got \in Seq(FileChar \cup {Nul} \cup Beyond)
      /\ char \in FileChar \cup {Nul} \cup Beyond
  BY <1>1, Turning DEF Inv, TypeOK, Seen
<1>3. CASE health = "ok"
  <2>1. /\ at - Len(got) \in Nat /\ LineStart(at - Len(got))
        /\ Ends(at - Len(got)) = line /\ Ends(at) = line
        /\ phase # "blank" => got # <<>>
    BY <1>3 DEF InKey
  <2>2. /\ ClassOf(char) = Content[meminfo][at + 1]
        /\ at \in Nat /\ at < Size
        /\ LineStart(at) => ~ IsWhitespace(char)
    BY <1>1, <1>3, MeminfoChar
  <2>3. ~ SkipWhitespaces(char)
    <3>1. phase = "blank" => LineStart(at)
      BY <1>0, <2>1, <2>2
    <3> QED
      BY <2>2, <3>1 DEF SkipWhitespaces
  <2>4. ReadString(char) /\ Loop("string", char)
    BY <1>1, <2>3 DEF ReadString
  <2>5. CASE IsWhitespace(char) \/ Len(got) = MaxString - 1
    <3>1. phase' = "done" /\ last' = "ok" /\ UNCHANGED <<got, bufferVars>>
      BY <2>4, <2>5 DEF ReadString, Stop, Return
    <3>2. got # <<>>
      <4>1. MaxString - 1 # 0
        BY RamStartAssumption, ReadBufferAssumption
      <4>2. phase = "blank" => ~ IsWhitespace(char) /\ Len(got) = 0
        BY <1>0, <2>4 DEF Loop
      <4> QED
        BY <2>1, <2>5, <4>1, <4>2
    <3>3. InMeminfo'
      BY <3>1 DEF InMeminfo, bufferVars
    <3>4. health' = "ok" /\ at' = at /\ got' = got
      BY <1>3, <3>1 DEF bufferVars
    <3> QED
      BY <1>0, <1>2, <2>1, <3>1, <3>2, <3>3, <3>4 DEF InKey, Idle
  <2>6. CASE ~ (IsWhitespace(char) \/ Len(got) = MaxString - 1)
    <3>1. got' = Append(got, char) /\ Advance /\ GoOn(NextResult, "body")
      BY <2>4, <2>6 DEF ReadString, Take
    <3>2. /\ InMeminfo'
          /\ NextResult \in {"ok", "eof"} /\ health' = NextResult
          /\ at' = at + 1
          /\ NextResult = "eof" => at + 1 = Size
      BY <1>3, <3>1, MeminfoAdvance
    <3>3. got' # <<>> /\ Len(got') = Len(got) + 1 /\ Len(got) \in Nat
      BY <1>2, <3>1
    <3>4. at' - Len(got') = at - Len(got)
      BY <2>2, <3>2, <3>3
    <3>5. Ends(at + 1) = line
      BY <2>1, <2>2, <2>6, EndsOfNext DEF IsWhitespace
    <3>6. CASE NextResult = "ok"
      <4>1. phase' = "body"
        BY <3>1, <3>6 DEF GoOn
      <4>2. at' - Len(got') \in Nat /\ LineStart(at' - Len(got')) /\ Ends(at' - Len(got')) = line
            /\ Ends(at') = line
        BY <2>1, <3>2, <3>4, <3>5
      <4> QED
        BY <1>0, <1>2, <3>2, <3>3, <3>6, <4>1, <4>2 DEF InKey, Idle, LineStart, Ends, Newlines
    <3>7. CASE NextResult = "eof"
      <4>1. phase' = "done" /\ last' = "eof"
        BY <3>1, <3>7 DEF GoOn, Return
      <4>2. Ends(Size) <= line
        BY <3>2, <3>5, <3>7, EndsTypes, Meminfo
      <4> QED
        BY <1>0, <1>2, <3>2, <3>7, <4>1, <4>2 DEF InKey, Idle
    <3> QED
      BY <3>2, <3>6, <3>7
  <2> QED
    BY <2>5, <2>6
<1>4. CASE health = "eof"
  <2>1. phase \in {"blank", "done"} /\ Ends(Size) <= line
    BY <1>4 DEF InKey
  <2>2. ASSUME Advance, GoOn(NextResult, "body") \/ GoOn(NextResult, "blank")
        PROVE  InMeminfo' /\ health' = "eof" /\ phase' = "done" /\ last' = "eof"
    BY <1>4, <2>2, MeminfoAdvance DEF GoOn, Return
  <2>3. CASE SkipWhitespaces(char)
    <3>1. InMeminfo' /\ health' = "eof" /\ phase' = "done" /\ last' = "eof"
      BY <2>2, <2>3 DEF SkipWhitespaces
    <3> QED
      BY <1>0, <1>2, <2>1, <3>1 DEF InKey
  <2>4. CASE ReadString(char)
    <3>1. phase = "blank" /\ ~ IsWhitespace(char) /\ got = <<>>
      BY <1>0, <2>1, <2>4 DEF ReadString, Loop
    <3>2. Len(got) # MaxString - 1
      BY <3>1, RamStartAssumption, ReadBufferAssumption
    <3>3. InMeminfo' /\ health' = "eof" /\ phase' = "done" /\ last' = "eof"
      BY <2>2, <2>4, <3>1, <3>2 DEF ReadString, Take
    <3> QED
      BY <1>0, <1>2, <2>1, <3>3 DEF InKey
  <2> QED
    BY <1>1, <2>3, <2>4
<1> QED
  BY <1>3, <1>4 DEF InMeminfo

\* A turn of next_line, which ends behind the end of the line.
LEMMA LineTurn ==
  ASSUME Inv, InMeminfo, InLine, scan = "line", Turn, errors' = errors, UNCHANGED scanVars
  PROVE  InMeminfo' /\ InLine'
<1>0. /\ call = "line" /\ phase # "blank" /\ line' = line /\ scan' = scan
      /\ (Noted(line + 1))'
  BY NotedStays DEF InLine, scanVars
<1>1. PICK char \in Seen : NextLine(char)
  BY <1>0 DEF Turn, SkipWhitespaces, ReadNumber, ReadString, SkipNext, Loop
<1>2. ~ Idle /\ call' = call /\ Advance
  BY <1>0, <1>1 DEF NextLine, Loop, Idle
<1>3. health = "ok" /\ Ends(at) = line /\ line \in Nat
  <2>1. health = "ok" /\ Ends(at) = line
    BY <1>2 DEF InMeminfo, InLine
  <2> QED
    BY <2>1, EndsTypes DEF Inv, TypeOK
<1>4. /\ ClassOf(char) = Content[meminfo][at + 1]
      /\ at \in Nat /\ at < Size
  BY <1>1, <1>3, MeminfoChar
<1>5. /\ InMeminfo'
      /\ NextResult \in {"ok", "eof"} /\ health' = NextResult
      /\ at' = at + 1
      /\ NextResult = "eof" => at + 1 = Size
  BY <1>2, <1>3, MeminfoAdvance
<1>6. CASE ClassOf(char) = "newline"
  <2>1. phase' = "done"
    BY <1>1, <1>6 DEF NextLine, Return
  <2>2. Ends(at + 1) = line + 1 /\ LineStart(at + 1)
    BY <1>3, <1>4, <1>6, EndsOfNext
  <2>3. health' = "ok" => LineStart(at') /\ Ends(at') = line + 1
    BY <1>5, <2>2
  <2>4. health' = "eof" => Ends(Size) <= line + 1
    BY <1>3, <1>5, <2>2
  <2> QED
    BY <1>0, <1>2, <1>5, <2>1, <2>3, <2>4 DEF InLine, Idle, LineStart, Ends, Newlines
<1>7. CASE ClassOf(char) # "newline"
  <2>1. GoOn(NextResult, "body")
    BY <1>1, <1>7 DEF NextLine
  <2>2. Ends(at + 1) = line
    BY <1>3, <1>4, <1>7, EndsOfNext
  <2>3. NextResult = "ok" => phase' = "body" /\ Ends(at') = line
    BY <1>5, <2>1, <2>2 DEF GoOn
  <2>4. NextResult = "eof" => phase' = "done" /\ Ends(Size) <= line + 1
    BY <1>3, <1>5, <2>1, <2>2 DEF GoOn, Return
  <2> QED
    BY <1>0, <1>2, <1>5, <2>3, <2>4 DEF InLine, Idle, Ends, Newlines
<1> QED
  BY <1>6, <1>7
LEMMA ScanSteps ==
  ASSUME [StartNext]_startVars
  PROVE  [Next]_vars
<1>1. ASSUME OtherCall PROVE Next
  BY <1>1 DEF OtherCall, Next
<1>2. ASSUME CallRuns PROVE Next
  BY <1>2 DEF CallRuns, Next
<1>3. ASSUME ScanStart PROVE Next
  BY <1>3, Meminfo DEF ScanStart, Next
<1>4. ASSUME ReadKey \/ NoteLine PROVE Next
  BY <1>4 DEF ReadKey, NoteLine, Next, Parser
<1>5. ASSUME FileEnds \/ LineEnds PROVE UNCHANGED vars
  BY <1>5 DEF FileEnds, LineEnds
<1>6. ASSUME UNCHANGED startVars PROVE UNCHANGED vars
  BY <1>6 DEF startVars
<1> QED
  BY <1>1, <1>2, <1>3, <1>4, <1>5, <1>6 DEF StartNext, ScanGoesOn

LEMMA ScanInitInv ==
  ASSUME StartInit
  PROVE  ScanInv
<1>1. scan = "before" /\ line = 0 /\ failures = 0 /\ errors = 0
      /\ lineNumbers = [key \in Key |-> IF key = "total" THEN -1 ELSE 0]
  BY DEF StartInit, Init
<1>2. ScanTypes
  BY <1>1 DEF ScanTypes
<1>3. Noted(0)
  BY <1>1, Meminfo DEF Noted
<1> QED
  BY <1>1, <1>2, <1>3 DEF ScanInv, NothingNoted, Scanned, Unfailed

LEMMA ScanStartInv ==
  ASSUME Inv, ScanInv, ScanStart
  PROVE  ScanInv'
<1>1. /\ scan = "before" /\ ReadStart(meminfo) /\ scan' = "key" /\ failures' = errors
      /\ line' = line /\ lineNumbers' = lineNumbers
  BY DEF ScanStart
<1>2. errors \in Nat /\ errors' \in Nat /\ errors <= errors' /\ meminfo \in File
  <2>1. [Next]_vars /\ meminfo \in File
    BY <1>1, Meminfo DEF Next
  <2> QED
    BY <2>1, ErrorsGrow
<1>3. line = 0 /\ (Noted(0))' /\ ScanTypes'
  BY <1>1, <1>2, NotedStays DEF ScanInv, NothingNoted, ScanTypes
<1>4. ASSUME Unfailed' PROVE InMeminfo' /\ AtKey'
  <2>1. errors' = errors
    BY <1>1, <1>4 DEF Unfailed
  <2>2. /\ fd' = meminfo /\ at' = 0 /\ health' = FillResult /\ FillResult \in Result
        /\ FillResult = "ok" => 0 < Size
        /\ FillResult = "eof" => Size = 0
    BY <1>1, <1>2, Starting DEF Inv, Size
  <2>3. /\ FillResult # "error"
        /\ FillResult = "eof" => filled' = 0 /\ offset' = Size
    <3>1. FillBuffer(meminfo, 0, pos) /\ BufferTypeOK /\ pos \in Nat /\ 0 \in 0 .. Len(Content[meminfo])
      BY <1>1, <1>2, Files DEF ReadStart, Inv, TypeOK, BufferTypeOK
    <3> QED
      BY <1>2, <2>1, <3>1, FillEnd DEF Size
  <2>4. InMeminfo'
    BY <2>2, <2>3 DEF InMeminfo, Result
  <2>5. Idle'
    BY <1>1 DEF ReadStart, Begin, Idle
  <2>6. IF health' = "ok" THEN LineStart(at') /\ Ends(at') = line' ELSE Ends(Size) <= line'
    BY <1>1, <1>3, <2>2, <2>3, EndsOfNone DEF LineStart, Result
  <2>7. line' = 0
    BY <1>1, <1>3
  <2> QED
    BY <1>3, <2>4, <2>5, <2>6, <2>7 DEF AtKey, LineStart, Ends, Newlines, Noted
<1>5. Scanned'
  BY <1>1, <1>4 DEF Scanned, InKey, InLine, AtDone
<1> QED
  BY <1>1, <1>3, <1>5 DEF ScanInv, NothingNoted

\* The scan and the calls before it are calls of the read buffer, in an order
\* that it allows: what holds of those holds of them.
THEOREM ScanIsReads == StartSpec => Spec
<1>1. StartInit => Init
  BY DEF StartInit
<1> QED
  BY <1>1, ScanSteps, PTL DEF StartSpec, Spec

\* Where the scan's own steps and turns leave the reads that did not fail.
LEMMA StillUnfailed ==
  ASSUME Inv, ScanInv, [Next]_vars, failures' = failures, scan # "before", Unfailed'
  PROVE  Unfailed /\ errors' = errors
BY ErrorsGrow DEF ScanInv, ScanTypes, Unfailed

LEMMA TurnInv ==
  ASSUME Inv, ScanInv, (OtherCall \/ CallRuns) \/ UNCHANGED startVars
  PROVE  ScanInv'
<1>1. [Next]_vars /\ UNCHANGED scanVars
  BY ScanSteps DEF StartNext, OtherCall, CallRuns, startVars
<1>2. errors \in Nat /\ errors' \in Nat /\ errors <= errors'
  BY <1>1, ErrorsGrow
<1>3. ScanTypes' /\ NothingNoted'
  BY <1>1, <1>2, NotedStays DEF ScanInv, ScanTypes, NothingNoted, scanVars
<1>4. ASSUME Unfailed'
      PROVE  InMeminfo' /\ AtKey' /\ InKey' /\ InLine' /\ AtDone'
  <2>1. scan # "before" /\ scan' = scan /\ failures' = failures /\ line' = line /\ lineNumbers' = lineNumbers
    BY <1>1, <1>4 DEF Unfailed, scanVars
  <2>2. Unfailed /\ errors' = errors
    BY <1>1, <1>4, <2>1, StillUnfailed
  <2>3. InMeminfo /\ AtKey /\ InKey /\ InLine /\ AtDone
    BY <2>2 DEF ScanInv, Scanned
  <2>4. CASE Turn
    <3>1. phase # "done"
      BY <2>4 DEF Turn, SkipWhitespaces, ReadNumber, ReadString, SkipNext, NextLine, Loop
    <3>2. scan \in {"reading", "line"}
      BY <2>1, <2>3, <3>1 DEF AtKey, AtDone, Idle, ScanInv, ScanTypes
    <3>3. CASE scan = "reading"
      BY <1>1, <2>1, <2>2, <2>3, <2>4, <3>3, KeyTurn DEF AtKey, InLine, AtDone
    <3>4. CASE scan = "line"
      BY <1>1, <2>1, <2>2, <2>3, <2>4, <3>4, LineTurn DEF AtKey, InKey, AtDone
    <3> QED
      BY <3>2, <3>3, <3>4
  <2>5. CASE UNCHANGED vars
    <3>1. \A n : Noted(n)' <=> Noted(n)
      BY <2>1, NotedStays
    <3> QED
      BY <2>1, <2>3, <2>5, <3>1 DEF vars, InMeminfo, AtKey, InKey, InLine, AtDone, Idle, LineStart, Ends, Newlines
  <2> QED
    BY <2>1, <2>4, <2>5 DEF OtherCall, CallRuns, startVars
<1> QED
  BY <1>3, <1>4 DEF ScanInv, Scanned

LEMMA ReadKeyInv ==
  ASSUME Inv, ScanInv, ReadKey
  PROVE  ScanInv'
<1>1. /\ scan = "key" /\ StartCall("string") /\ scan' = "reading"
      /\ UNCHANGED <<arg, line, lineNumbers, failures>>
  BY DEF ReadKey
<1>2. call' = "string" /\ phase' = "blank" /\ got' = <<>> /\ UNCHANGED bufferVars
  BY <1>1 DEF StartCall, Begin
<1>3. ScanTypes' /\ NothingNoted'
  BY <1>1, <1>2 DEF ScanInv, ScanTypes, NothingNoted, bufferVars
<1>4. ASSUME Unfailed' PROVE InMeminfo' /\ InKey'
  <2>1. InMeminfo /\ AtKey
    BY <1>1, <1>2, <1>4 DEF Unfailed, ScanInv, Scanned, bufferVars
  <2>2. InMeminfo'
    BY <1>2, <2>1 DEF InMeminfo, bufferVars
  <2>3. /\ (Noted(line))' /\ line' = line /\ at' = at /\ health' = health
        /\ health = "ok" => LineStart(at) /\ Ends(at) = line
        /\ health = "eof" => Ends(Size) <= line
    BY <1>1, <1>2, <2>1, NotedStays DEF AtKey, bufferVars
  <2>4. at \in Nat /\ Len(got') = 0 /\ at' - Len(got') = at
    BY <1>2, <2>3 DEF Inv, TypeOK
  <2> QED
    BY <1>2, <2>2, <2>3, <2>4 DEF InKey, Idle, LineStart, Ends, Newlines
<1> QED
  BY <1>1, <1>3, <1>4 DEF ScanInv, Scanned, AtKey, InLine, AtDone

LEMMA FileEndsInv ==
  ASSUME Inv, ScanInv, FileEnds
  PROVE  ScanInv'
<1>1. /\ scan = "reading" /\ Idle /\ last = "eof" /\ scan' = "done"
      /\ UNCHANGED <<arg, line, lineNumbers, failures, vars>>
  BY DEF FileEnds
<1>2. ScanTypes' /\ NothingNoted'
  BY <1>1 DEF ScanInv, ScanTypes, NothingNoted, vars
<1>3. ASSUME Unfailed' PROVE InMeminfo' /\ AtDone'
  <2>1. InMeminfo /\ InKey
    BY <1>1, <1>3 DEF Unfailed, ScanInv, Scanned, vars
  <2>2. health = "eof" /\ Ends(Size) <= line /\ Noted(line)
    BY <1>1, <2>1 DEF InMeminfo, InKey
  <2>3. (Noted(line))' /\ Idle'
    BY <1>1, <2>2, NotedStays DEF Idle, vars
  <2>4. InMeminfo'
    BY <1>1, <2>1 DEF InMeminfo, vars
  <2> QED
    BY <1>1, <2>2, <2>3, <2>4 DEF AtDone
<1> QED
  BY <1>1, <1>2, <1>3 DEF ScanInv, Scanned, AtKey, InKey, InLine

LEMMA NoteLineInv ==
  ASSUME Inv, WordInv, ScanInv, NoteLine
  PROVE  ScanInv'
<1>1. /\ scan = "reading" /\ Idle /\ last # "eof" /\ scan' = "line"
      /\ arg' \in Written
      /\ lineNumbers' = [key \in Key |-> IF key = arg' THEN line ELSE lineNumbers[key]]
      /\ StartCall("line") /\ line' = line /\ failures' = failures
  BY DEF NoteLine
<1>2. call' = "line" /\ phase' = "body" /\ UNCHANGED bufferVars
  BY <1>1 DEF StartCall, Begin
<1>3. ScanTypes' /\ NothingNoted'
  BY <1>1, <1>2 DEF ScanInv, ScanTypes, NothingNoted, bufferVars
<1>4. ASSUME Unfailed' PROVE InMeminfo' /\ InLine'
  <2>1. InMeminfo /\ InKey /\ line \in Nat
    BY <1>1, <1>2, <1>4 DEF Unfailed, ScanInv, ScanTypes, Scanned, bufferVars
  <2>2. /\ health = "ok" /\ call = "string" /\ last = "ok" /\ got # <<>> /\ Noted(line)
        /\ at - Len(got) \in Nat /\ LineStart(at - Len(got))
        /\ Ends(at - Len(got)) = line /\ Ends(at) = line
    BY <1>1, <2>1 DEF InMeminfo, InKey, Idle
  <2>3. arg' = IF line + 1 \in DOMAIN Layout THEN Layout[line + 1] ELSE "other"
    <3>1. arg' = KeyOf(got)
      BY <1>1, <2>2 DEF Written
    <3>2. \A k \in DOMAIN got : got[k] = <<meminfo, (at - Len(got)) + k - 1>>
      BY <2>1, <2>2 DEF WordInv, InMeminfo
    <3>3. got \in Seq(FileChar \cup {Nul} \cup Beyond) /\ at - Len(got) \in 0 .. Size
      BY <2>1, <2>2, Meminfo DEF Inv, TypeOK, InMeminfo
    <3> QED
      BY <2>2, <3>1, <3>2, <3>3, KeyOfWord
  <2>4. (Noted(line + 1))'
    <3>1. SUFFICES ASSUME NEW key \in Key
                   PROVE  IF \E i \in DOMAIN Layout : i <= line + 1 /\ Layout[i] = key
                          THEN \E i \in DOMAIN Layout :
                                 i <= line + 1 /\ Layout[i] = key /\ lineNumbers'[key] = i - 1
                          ELSE lineNumbers'[key] = IF key = "total" THEN -1 ELSE 0
      BY <1>1 DEF Noted
    <3>2. lineNumbers'[key] = IF key = arg' THEN line ELSE lineNumbers[key]
      BY <1>1
    <3>3. DOMAIN Layout \subseteq Nat /\ key # "other"
      BY Meminfo DEF Key
    <3>4. CASE key = arg'
      <4>1. line + 1 \in DOMAIN Layout /\ Layout[line + 1] = key /\ lineNumbers'[key] = (line + 1) - 1
        BY <2>1, <2>3, <3>2, <3>3, <3>4
      <4> QED
        BY <2>1, <4>1
    <3>5. CASE key # arg'
      <4>1. \A i \in DOMAIN Layout : i <= line + 1 /\ Layout[i] = key <=> i <= line /\ Layout[i] = key
        BY <2>1, <2>3, <3>3, <3>5
      <4> QED
        BY <2>2, <3>2, <3>5, <4>1 DEF Noted
    <3> QED
      BY <3>4, <3>5
  <2>5. InMeminfo' /\ at' = at /\ health' = health
    BY <1>2, <2>1 DEF InMeminfo, bufferVars
  <2> QED
    BY <1>1, <1>2, <2>2, <2>4, <2>5 DEF InLine, Idle, Ends, Newlines
<1> QED
  BY <1>1, <1>3, <1>4 DEF ScanInv, Scanned, AtKey, InKey, AtDone

LEMMA LineEndsInv ==
  ASSUME Inv, ScanInv, LineEnds
  PROVE  ScanInv'
<1>1. /\ scan = "line" /\ Idle /\ line' = line + 1 /\ scan' = "key"
      /\ UNCHANGED <<arg, lineNumbers, failures, vars>>
  BY DEF LineEnds
<1>2. ScanTypes' /\ NothingNoted'
  BY <1>1 DEF ScanInv, ScanTypes, NothingNoted, vars
<1>3. ASSUME Unfailed' PROVE InMeminfo' /\ AtKey'
  <2>1. InMeminfo /\ InLine
    BY <1>1, <1>3 DEF Unfailed, ScanInv, Scanned, vars
  <2>2. InMeminfo' /\ Idle' /\ at' = at /\ health' = health /\ health \in {"ok", "eof"}
    BY <1>1, <2>1 DEF InMeminfo, Idle, vars
  <2>3. (Noted(line))'
    BY <1>1, <2>1, NotedStays DEF InLine, Noted
  <2>4. IF health = "ok" THEN LineStart(at) /\ Ends(at) = line + 1 ELSE Ends(Size) <= line + 1
    BY <1>1, <2>1, <2>2 DEF InLine
  <2> QED
    BY <1>1, <2>2, <2>3, <2>4 DEF AtKey, LineStart, Ends, Newlines
<1> QED
  BY <1>1, <1>2, <1>3 DEF ScanInv, Scanned, InKey, InLine, AtDone

LEMMA ScanStepInv ==
  ASSUME Inv, WordInv, ScanInv, [StartNext]_startVars
  PROVE  ScanInv'
BY TurnInv, ScanStartInv, ReadKeyInv, FileEndsInv, NoteLineInv, LineEndsInv DEF StartNext, ScanGoesOn

\* A scan of /proc/meminfo in which no read failed has noted the line of each key
\* the file has, for every size of the buffer, wherever its pieces end, and
\* whatever the calls of other modules left in it.
THEOREM LinesAreNoted == StartSpec => []LinesNoted
<1>1. StartInit => Inv /\ WordInv /\ ScanInv
  BY InitInv, ScanInitInv DEF StartInit, Init, WordInv
<1>2. Inv /\ WordInv /\ ScanInv /\ [StartNext]_startVars => (Inv /\ WordInv /\ ScanInv)'
  BY ScanSteps, StepInv, WordStep, ScanStepInv
<1>3. ScanInv => LinesNoted
  <2> SUFFICES ASSUME ScanInv, scan = "done", errors = failures, NEW key \in Key
               PROVE  IF \E i \in DOMAIN Layout : Layout[i] = key
                      THEN \E i \in DOMAIN Layout : Layout[i] = key /\ lineNumbers[key] = i - 1
                      ELSE lineNumbers[key] = IF key = "total" THEN -1 ELSE 0
    BY DEF LinesNoted
  <2>1. Noted(line) /\ Ends(Size) <= line /\ line \in Nat
    BY DEF ScanInv, ScanTypes, Scanned, Unfailed, AtDone
  <2>2. \A i \in DOMAIN Layout : i <= line
    BY <2>1, Meminfo
  <2> QED
    BY <2>1, <2>2 DEF Noted
<1> QED
  BY <1>1, <1>2, <1>3, PTL DEF StartSpec
=============================================================================
