---------------------------- MODULE GenericModule ----------------------------
(***************************************************************************)
(* The module generic with diff (modules/generic.c): the change of the     *)
(* number in a file between two updates.  A read of the file may fail,     *)
(* which the module does not notice.                                       *)
(***************************************************************************)
EXTENDS Integers

CONSTANTS FileNumbers,  \* the numbers the file may hold
          StaleNumbers, \* what a digit another file left in the read buffer may
                        \* give, by itself or before the digits of the file
          NoNumber      \* what a read that failed has read

ASSUME GenericAssumption ==
  /\ FileNumbers \subseteq Int /\ StaleNumbers \subseteq Nat
  /\ NoNumber \notin Int

VARIABLES
  file,     \* the number in the file
  prev,     \* prev
  genOut,   \* the number write_data wrote last
  genFrom,  \* history: the file's number at the read before the last one, or
            \* NoNumber when that read failed
  genUpto   \* history: the same for the last read

genericVars == <<file, prev, genOut, genFrom, genUpto>>

\* read_next_int64 does not step over a '-': it finds no digits.
NextInt64(n) == IF n < 0 THEN 0 ELSE n

\* A read that failed leaves the parser with what is left in the buffer from
\* another file, and the next character makes it read again.  An error there
\* leaves the number as it was; else it is the file's behind white space, one that
\* begins with a digit left behind, or 0 behind anything else.
AfterFailure(n) == {n, 0, NextInt64(file)} \cup StaleNumbers

\* preload_data, on the 0 of calloc.
GenericInit ==
  /\ file \in FileNumbers
  /\ \/ prev = NextInt64(file) /\ genUpto = file
     \/ prev \in AfterFailure(0) /\ genUpto = NoNumber
  /\ genOut = 0
  /\ genFrom = genUpto

FileChanges ==
  /\ file' \in FileNumbers \ {file}
  /\ UNCHANGED <<prev, genOut, genFrom, genUpto>>

\* Mutant: the differences are all to the first read.
GenericWriteKeepsPrev ==
  /\ genOut' = NextInt64(file) - prev
  /\ genUpto' = file
  /\ genFrom' = genUpto
  /\ UNCHANGED <<file, prev>>

\* write_data, which does not look at what the read returned.
GenericWrite ==
  /\ \/ prev' = NextInt64(file) /\ genUpto' = file
     \/ prev' \in AfterFailure(prev) /\ genUpto' = NoNumber
  /\ genOut' = prev' - prev
  /\ genFrom' = genUpto
  /\ UNCHANGED file

GenericTypeOK ==
  /\ file \in FileNumbers
  /\ prev \in Int /\ genOut \in Int
  /\ genFrom \in FileNumbers \cup {NoNumber} /\ genUpto \in FileNumbers \cup {NoNumber}

-----------------------------------------------------------------------------
\* The number written is the change of the file's number between the last two
\* reads, when both succeeded and neither number had a sign.
GenericOutputIsChange ==
  genFrom \in Nat /\ genUpto \in Nat => genOut = genUpto - genFrom
=============================================================================
