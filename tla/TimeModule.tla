----------------------------- MODULE TimeModule ------------------------------
(***************************************************************************)
(* The module time with current and diff (modules/time.c).  The clock is   *)
(* TIME_UTC, which can be set back.                                        *)
(***************************************************************************)
EXTENDS Integers

CONSTANTS TimeFlags,    \* the flags given: "current", "diff"
          ClockSteps,   \* by how much the clock moves
          MaxClock      \* bound: milliseconds on the clock

ASSUME TimeAssumption ==
  TimeFlags \subseteq {"current", "diff"} /\ ClockSteps \subseteq Int /\ MaxClock \in Nat

VARIABLES
  clock,        \* timespec_get, in milliseconds
  milis,        \* milis
  timeCurrent,  \* the last number written for current
  timeDiff,     \* the last number written for diff
  timeBefore    \* history: the number written for current one update before

timeVars == <<clock, milis, timeCurrent, timeDiff, timeBefore>>

TimeInit ==
  /\ clock = 0
  /\ milis = clock
  /\ timeCurrent = clock
  /\ timeDiff = 0
  /\ timeBefore = clock

ClockMoves ==
  /\ \E step \in ClockSteps :
       /\ clock + step \in 0 .. MaxClock
       /\ clock' = clock + step
  /\ UNCHANGED <<milis, timeCurrent, timeDiff, timeBefore>>

\* write_data
TimeWrite ==
  /\ milis' = clock
  /\ timeCurrent' = IF "current" \in TimeFlags THEN milis' ELSE timeCurrent
  /\ timeDiff' = IF "diff" \in TimeFlags THEN milis' - milis ELSE timeDiff
  /\ timeBefore' = timeCurrent
  /\ UNCHANGED clock

TimeTypeOK ==
  /\ clock \in 0 .. MaxClock /\ milis \in Nat
  /\ timeCurrent \in Int /\ timeDiff \in Int

-----------------------------------------------------------------------------
\* The differences lead from one current time to the next, with a clock that is
\* set back as well.
TimeOutputChains ==
  {"current", "diff"} \subseteq TimeFlags => timeCurrent = timeBefore + timeDiff
=============================================================================
