----------------------------- MODULE CharStream ------------------------------
(***************************************************************************)
(* What read_buffer.c promises its callers: the characters of a file, one  *)
(* after the other and none twice, as if the file were not read in pieces, *)
(* and the end of the file only after the last of them.                    *)
(***************************************************************************)
EXTENDS Naturals

CONSTANTS File,     \* the files that can be read
          Length    \* how many characters each has

VARIABLES
  file,     \* the file being read
  at,       \* the place of the character the reader is at, from 0
  char,     \* that character, or NoChar after a failure
  health    \* "ok", or how reading failed: "eof", "error"

vars == <<file, at, char, health>>

NoChar == <<"none", 0>>

\* Arriving at a place of a file: it has a character, or it is the end, unless
\* the read failed.
Arrive(f, place) ==
  /\ \/ place < Length[f] /\ health' = "ok"
     \/ place = Length[f] /\ health' = "eof"
     \/ health' = "error"
  /\ char' = IF health' = "ok" THEN <<f, place>> ELSE NoChar
  /\ file' = f
  /\ at' = place

Init ==
  /\ file \in File
  /\ at = 0
  /\ char = NoChar
  /\ health = "error"

Open == \E f \in File : Arrive(f, 0)

\* After a failure nothing is promised until the next Open.
Advance == health = "ok" /\ Arrive(file, at + 1)

Next == Open \/ Advance

Spec == Init /\ [][Next]_vars
=============================================================================
