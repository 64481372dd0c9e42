---------------------------- MODULE DemandUpdate -----------------------------
(***************************************************************************)
(* auto_update = false: SYS_MON_SYNC_SEMS.  A client that holds the mutex  *)
(* asks for an update with the semaphore in and waits for it on the        *)
(* semaphore out; the daemon serves in, updates and posts out.  A client   *)
(* may die anywhere in the call, a signal handler of the client's program  *)
(* may cut its sem_wait short, and the daemon may be stopped at any time.  *)
(***************************************************************************)
EXTENDS SharedBuf

CONSTANT MaxSignals     \* bound: sem_waits of clients that a signal cuts short

ASSUME SignalsAssumption == MaxSignals \in Nat

VARIABLES
  in,       \* value of sh_buf->in: updates asked for
  out,      \* value of sh_buf->out: updates finished
  left,     \* res of each client's drain loop
  clean,    \* history: nothing was outstanding when the client posted in
  signals   \* sem_waits cut short so far, bounded by MaxSignals

semVars == <<in, out, left, clean, signals>>
vars == <<mutex, data, dpc, line, round, pc, copied, seen, asked, calls, deaths,
          in, out, left, clean, signals>>

\* Between a successful lock and the unlock.
Section == {"recover", "getvalue", "drain", "wait", "copy", "unlock"}

TypeOK ==
  /\ SharedTypeOK
  /\ pc \in [Client -> {"idle", "lock"} \cup Section]
  /\ dpc \in {"wait_in", "update", "stopped"}
  /\ in \in Nat
  /\ out \in Nat
  /\ left \in [Client -> Nat]
  /\ clean \in [Client -> BOOLEAN]
  /\ signals \in 0 .. MaxSignals

Init ==
  /\ SharedInit
  /\ dpc = "wait_in"
  /\ in = 0
  /\ out = 0
  /\ left = [c \in Client |-> 0]
  /\ clean = [c \in Client |-> FALSE]
  /\ signals = 0

\* The daemon has taken a request and not answered it yet.
Busy == IF dpc = "update" THEN 1 ELSE 0

\* The client that waits for its answer is owed one.
Owed == IF \E c \in Client : pc[c] = "wait" THEN 1 ELSE 0

\* Requests and answers under way, and those nobody waits for.
Outstanding == in + Busy + out
Surplus == Outstanding - Owed

-----------------------------------------------------------------------------
(* The client.                                                             *)

Call(c) == EnterCall(c, round) /\ UNCHANGED semVars

Lock(c) == LockMutex(c, "getvalue") /\ UNCHANGED semVars

\* Mutant.
RecoverWithoutConsistent(c) == RecoverSkipsConsistent(c, "getvalue") /\ UNCHANGED semVars

Recover(c) == RecoverMutex(c, "getvalue") /\ UNCHANGED semVars

\* Mutant: the loop takes one answer more than there are.
GetValueOneMore(c) ==
  /\ pc[c] = "getvalue"
  /\ left' = [left EXCEPT ![c] = out + 1]
  /\ Goto(c, "drain")
  /\ UNCHANGED <<mutex, dpc, updateVars, clientVars, in, out, clean, signals>>

\* sem_getvalue(&out, &res)
GetValue(c) ==
  /\ pc[c] = "getvalue"
  /\ left' = [left EXCEPT ![c] = out]
  /\ Goto(c, "drain")
  /\ UNCHANGED <<mutex, dpc, updateVars, clientVars, in, out, clean, signals>>

\* while (res-- > 0) sem_wait(&out)
Drain(c) ==
  /\ pc[c] = "drain"
  /\ left[c] > 0
  /\ out > 0
  /\ left' = [left EXCEPT ![c] = @ - 1]
  /\ out' = out - 1
  /\ UNCHANGED <<mutex, dpc, updateVars, pc, clientVars, in, clean, signals>>

\* Mutant: the request is posted twice.
PostTwice(c) ==
  /\ pc[c] = "drain"
  /\ left[c] = 0
  /\ in' = in + 2
  /\ clean' = [clean EXCEPT ![c] = Surplus = 0]
  /\ Goto(c, "wait")
  /\ UNCHANGED <<mutex, dpc, updateVars, clientVars, out, left, signals>>

\* sem_post(&in), once the drain loop is over.
Post(c) ==
  /\ pc[c] = "drain"
  /\ left[c] = 0
  /\ in' = in + 1
  /\ clean' = [clean EXCEPT ![c] = Surplus = 0]
  /\ Goto(c, "wait")
  /\ UNCHANGED <<mutex, dpc, updateVars, clientVars, out, left, signals>>

\* sem_wait(&out)
Wait(c) ==
  /\ pc[c] = "wait"
  /\ out > 0
  /\ out' = out - 1
  /\ Goto(c, "copy")
  /\ UNCHANGED <<mutex, dpc, updateVars, clientVars, in, left, clean, signals>>

\* A handler runs in the client while sem_wait blocks: EINTR, which the code
\* does not look at.
WaitInterrupted(c) ==
  /\ pc[c] = "wait"
  /\ out = 0
  /\ signals < MaxSignals
  /\ signals' = signals + 1
  /\ clean' = [clean EXCEPT ![c] = FALSE]
  /\ Goto(c, "copy")
  /\ UNCHANGED <<mutex, dpc, updateVars, clientVars, in, out, left>>

Copy(c) == CopyLine(c) /\ UNCHANGED semVars

Unlock(c) == UnlockMutex(c) /\ UNCHANGED semVars

\* Mutant.
DieHolding(c) ==
  /\ ClientDiesHolding(c)
  /\ left' = [left EXCEPT ![c] = 0]
  /\ UNCHANGED <<in, out, clean, signals>>

Die(c) ==
  /\ ClientDies(c)
  /\ left' = [left EXCEPT ![c] = 0]
  /\ UNCHANGED <<in, out, clean, signals>>

-----------------------------------------------------------------------------
(* The daemon: while (true) { sem_wait(&in); update(); sem_post(&out); }   *)

TakeRequest ==
  /\ dpc = "wait_in"
  /\ in > 0
  /\ in' = in - 1
  /\ dpc' = "update"
  /\ BeginUpdate
  /\ UNCHANGED <<mutex, pc, clientVars, out, left, clean, signals>>

UpdateLine == WriteLine /\ UNCHANGED semVars

\* Mutant: the answer is posted before the text is complete.
PostTooEarly ==
  /\ dpc = "update"
  /\ dpc' = "wait_in"
  /\ out' = out + 1
  /\ UNCHANGED <<mutex, updateVars, pc, clientVars, in, left, clean, signals>>

\* Mutant: the answer is forgotten.
PostNothing ==
  /\ dpc = "update"
  /\ line = ModulesN + 1
  /\ dpc' = "wait_in"
  /\ UNCHANGED <<mutex, updateVars, pc, clientVars, semVars>>

PostOut ==
  /\ dpc = "update"
  /\ line = ModulesN + 1
  /\ dpc' = "wait_in"
  /\ out' = out + 1
  /\ UNCHANGED <<mutex, updateVars, pc, clientVars, in, left, clean, signals>>

\* handle_signal: SIGTERM or SIGINT from outside, or update() raising SIGTERM
\* because the text does not fit.  The daemon holds no lock in this mode.
Stop ==
  /\ dpc # "stopped"
  /\ dpc' = "stopped"
  /\ UNCHANGED <<mutex, updateVars, pc, clientVars, semVars>>

-----------------------------------------------------------------------------
ClientStep(c) ==
  \/ Lock(c) \/ Recover(c) \/ GetValue(c) \/ Drain(c) \/ Post(c)
  \/ Wait(c) \/ Copy(c) \/ Unlock(c)

DaemonStep == TakeRequest \/ UpdateLine \/ PostOut

Next ==
  \/ \E c \in Client : Call(c) \/ ClientStep(c) \/ WaitInterrupted(c) \/ Die(c)
  \/ DaemonStep
  \/ Stop

\* The kernel runs every process that is not blocked; nobody is obliged to
\* call, to die, to be signalled or to stop.
Fairness ==
  /\ \A c \in Client : WF_vars(ClientStep(c))
  /\ WF_vars(DaemonStep)

Spec == Init /\ [][Next]_vars
FairSpec == Spec /\ Fairness

-----------------------------------------------------------------------------
(* Properties.                                                             *)

\* The mutex of sys_mon_read_data is owned by the client that is between lock
\* and unlock, and by nobody when there is none: deaths included, no client is
\* ever inside without owning it, so there are never two.
OwnerInSection ==
  \A c \in Client : mutex.owner = c <=> pc[c] \in Section

\* No sequence of deaths, those between lock and pthread_mutex_consistent
\* included, leaves the mutex not recoverable: no call ever returns -1.
NeverUnrecoverable == mutex.state # "notrecoverable"

\* Both: the mutex survives every sequence of deaths and keeps its meaning.
MutexSound == OwnerInSection /\ NeverUnrecoverable

\* The drain loop never blocks: the answers sem_getvalue counted are still
\* there when the loop takes them.  (A client blocked here would hold the
\* mutex before asking for any update.)
DrainNeverBlocks ==
  \A c \in Client : pc[c] = "drain" => left[c] <= out

\* No lost wake-up: a client that waits for its answer has a request or an
\* answer under way, whatever died or was interrupted before.
AnswerUnderWay ==
  \A c \in Client : pc[c] = "wait" /\ dpc # "stopped" => Outstanding >= 1

\* Answers nobody waits for come from clients that died waiting or were
\* interrupted, one for each at most; they do not multiply.  (A daemon stopped
\* in its update takes the answer it owed with it.)
SurplusBound ==
  /\ dpc # "stopped" => 0 <= Surplus
  /\ Surplus <= deaths + signals

\* A call that began with nothing outstanding returns lines of one update,
\* begun after the call; so does every call while no client has died or been
\* interrupted in the middle of one.
IntactReply ==
  \A c \in Client :
    pc[c] = "unlock" /\ (clean[c] \/ deaths + signals = 0) =>
      Intact(c) /\ \A v \in seen[c] : v > asked[c]

\* README: "synced access".  Every call returns lines of one update.
SyncedAccess == \A c \in Client : pc[c] = "unlock" => Intact(c)

\* Every call returns or its client dies, even after other clients died in the
\* middle of theirs, unless the daemon is stopped.
EveryCallReturns ==
  \A c \in Client : pc[c] = "lock" ~> (pc[c] = "idle" \/ dpc = "stopped")

-----------------------------------------------------------------------------
\* The calls of this mode implement the strict service; one that found something
\* outstanding when it posted in promises nothing, and is seen as aborted.
Service == INSTANCE ReadService WITH
  Strict  <- TRUE,
  version <- round,
  active  <- {c \in Client : pc[c] # "idle"},
  floor   <- asked,
  reply   <- [c \in Client |-> IF clean[c] THEN Reply(c) ELSE 0]

ServiceSpec == Service!Spec
=============================================================================
