----------------------------- MODULE UpdateText ------------------------------
(***************************************************************************)
(* update() (sys-mon.c) as calls on the writter (writter.c): every module  *)
(* writes its values one call after the other into sh_buf->data, ignoring  *)
(* what the calls return, and update() ends each line with '\n' and the    *)
(* text with a NUL.  A value that does not fit is dropped, whole; a text   *)
(* whose NUL does not fit ends the daemon.                                 *)
(*                                                                         *)
(* A value is what one write_uint, write_int64 or write_string writes:     *)
(* only its length matters here.                                           *)
(***************************************************************************)
EXTENDS Integers, Sequences

CONSTANTS SharedSize,   \* SHARED_SIZE, wr.len
          Layouts,      \* modules[]: the calls each module's write_data makes
          Lengths       \* the lengths a value may have

Call == {"value", "space"}

ASSUME LayoutAssumption ==
  /\ SharedSize \in Nat \ {0}
  /\ Layouts \in Seq(Seq(Call))
  /\ Lengths \subseteq Nat

ModulesN == Len(Layouts)

VARIABLES
  pos,      \* wr.pos
  module,   \* i of update()'s loop; ModulesN + 1 when it is over
  next,     \* the call of the module's write_data that comes next
  text,     \* what was stored: <<module, call>>, 0 standing for the '\n'
  status    \* "writing", "complete" or, after raise(SIGTERM), "raised"

vars == <<pos, module, next, text, status>>

EndOfLine == 0

TypeOK ==
  /\ pos \in 0 .. SharedSize
  /\ module \in 1 .. ModulesN + 1
  /\ next \in Nat \ {0}
  /\ text \in Seq((1 .. ModulesN) \X Nat)
  /\ status \in {"writing", "complete", "raised"}

\* update() begins: wr.pos = 0.
Init ==
  /\ pos = 0
  /\ module = 1
  /\ next = 1
  /\ text = <<>>
  /\ status = "writing"

-----------------------------------------------------------------------------
(* The writter.                                                            *)

\* Mutant: there is room, so the value fits.
FitsSomewhere(p, n) == p < SharedSize

\* write_string, write_uint and write_int64 leave room for a terminator.
Fits(p, n) == p + n < SharedSize

CharFits(p) == p # SharedSize

\* write_char, whose result the callers ignore.
StoreChar(token) ==
  IF CharFits(pos)
  THEN pos' = pos + 1 /\ text' = Append(text, token)
  ELSE UNCHANGED <<pos, text>>

-----------------------------------------------------------------------------
(* The calls of the modules' write_data.                                   *)

\* cpu, ram and disk_activity: each of k values and a space after it.
SpaceAfterEach(k) == [i \in 1 .. 2 * k |-> IF i % 2 = 1 THEN "value" ELSE "space"]

\* time: spaces between the values.
SpaceBetween(k) == [i \in 1 .. 2 * k - 1 |-> IF i % 2 = 1 THEN "value" ELSE "space"]

\* generic: one value.
OneValue == <<"value">>

-----------------------------------------------------------------------------
InModule == status = "writing" /\ module \in 1 .. ModulesN

WriteValue ==
  /\ InModule
  /\ next \in DOMAIN Layouts[module]
  /\ Layouts[module][next] = "value"
  /\ \E n \in Lengths :
       IF Fits(pos, n)
       THEN pos' = pos + n /\ text' = Append(text, <<module, next>>)
       ELSE UNCHANGED <<pos, text>>
  /\ next' = next + 1
  /\ UNCHANGED <<module, status>>

WriteSpace ==
  /\ InModule
  /\ next \in DOMAIN Layouts[module]
  /\ Layouts[module][next] = "space"
  /\ StoreChar(<<module, next>>)
  /\ next' = next + 1
  /\ UNCHANGED <<module, status>>

\* write_char(&wr, '\n')
EndLine ==
  /\ InModule
  /\ next = Len(Layouts[module]) + 1
  /\ StoreChar(<<module, EndOfLine>>)
  /\ module' = module + 1
  /\ next' = 1
  /\ UNCHANGED status

\* Mutant: the result of the last write_char is ignored as well.
TerminateAlways ==
  /\ status = "writing"
  /\ module = ModulesN + 1
  /\ status' = "complete"
  /\ UNCHANGED <<pos, module, next, text>>

\* if (write_char(&wr, 0) == -1) raise(SIGTERM)
Terminate ==
  /\ status = "writing"
  /\ module = ModulesN + 1
  /\ status' = IF CharFits(pos) THEN "complete" ELSE "raised"
  /\ UNCHANGED <<pos, module, next, text>>

\* The next update() of a daemon that was not ended.
Again ==
  /\ status = "complete"
  /\ pos' = 0
  /\ module' = 1
  /\ next' = 1
  /\ text' = <<>>
  /\ status' = "writing"

Next == WriteValue \/ WriteSpace \/ EndLine \/ Terminate \/ Again

Spec == Init /\ [][Next]_vars

-----------------------------------------------------------------------------
(* Properties.                                                             *)

Stored == {text[i] : i \in DOMAIN text}

\* README: "Each line correspondes to each module line specified".  A text the
\* clients see has the '\n' of every module, however many values were dropped.
LinePerModule ==
  status = "complete" => \A m \in 1 .. ModulesN : <<m, EndOfLine>> \in Stored

\* A text the clients see has every space, so that within a line, too, a value
\* that was dropped leaves its place empty.
SpacesKept ==
  status = "complete" =>
    \A m \in 1 .. ModulesN : \A k \in DOMAIN Layouts[m] :
      Layouts[m][k] = "space" => <<m, k>> \in Stored
=============================================================================
