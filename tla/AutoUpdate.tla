----------------------------- MODULE AutoUpdate ------------------------------
(***************************************************************************)
(* auto_update = true: SYS_MON_SYNC_NONE.  A timer raises SIGALRM; for     *)
(* each one it receives, the daemon takes the mutex, updates and releases  *)
(* it.  A call copies under the mutex what it finds.  Clients may die      *)
(* anywhere in a call and the daemon may be stopped anywhere in its loop.  *)
(***************************************************************************)
EXTENDS SharedBuf

CONSTANT MaxTicks       \* bound: expirations of the timer

ASSUME TicksAssumption == MaxTicks \in Nat

VARIABLES alarm,    \* SIGALRM is pending
          ticks,    \* expirations so far, bounded by MaxTicks
          whole     \* history: no daemon had stopped half-way when the client locked

timerVars == <<alarm, ticks>>
autoVars == <<alarm, ticks, whole>>
vars == <<mutex, data, dpc, line, round, pc, copied, seen, asked, calls, deaths,
          alarm, ticks, whole>>

\* Where the client and the daemon own the mutex.
Section == {"recover", "copy", "unlock"}
DaemonSection == {"recover", "begin", "update", "unlock"}

TypeOK ==
  /\ SharedTypeOK
  /\ pc \in [Client -> {"idle", "lock"} \cup Section]
  /\ dpc \in {"sigwait", "lock", "stopped"} \cup DaemonSection
  /\ alarm \in BOOLEAN
  /\ ticks \in 0 .. MaxTicks
  /\ whole \in [Client -> BOOLEAN]

Init ==
  /\ SharedInit
  /\ dpc = "sigwait"
  /\ alarm = FALSE
  /\ ticks = 0
  /\ whole = [c \in Client |-> TRUE]

\* The lines of update round are all written, or some are those of round - 1.
HalfWritten == round > 0 /\ line \in Line
StoppedHalfWay == dpc = "stopped" /\ HalfWritten
Completed == IF HalfWritten THEN round - 1 ELSE round

-----------------------------------------------------------------------------
(* The client.                                                             *)

Call(c) == EnterCall(c, Completed) /\ UNCHANGED autoVars

\* Mutant: the text is read without the mutex.
LockIsNoOp(c) ==
  /\ pc[c] = "lock"
  /\ Goto(c, "copy")
  /\ whole' = [whole EXCEPT ![c] = ~StoppedHalfWay]
  /\ UNCHANGED <<mutex, dpc, updateVars, clientVars, timerVars>>

Lock(c) ==
  /\ LockMutex(c, "copy")
  /\ whole' = [whole EXCEPT ![c] = ~StoppedHalfWay]
  /\ UNCHANGED timerVars

\* Mutant.
RecoverWithoutConsistent(c) == RecoverSkipsConsistent(c, "copy") /\ UNCHANGED autoVars

Recover(c) == RecoverMutex(c, "copy") /\ UNCHANGED autoVars

Copy(c) == CopyLine(c) /\ UNCHANGED autoVars

Unlock(c) == UnlockMutex(c) /\ UNCHANGED autoVars

\* Mutant.
DieHolding(c) == ClientDiesHolding(c) /\ UNCHANGED autoVars

Die(c) == ClientDies(c) /\ UNCHANGED autoVars

-----------------------------------------------------------------------------
(* The daemon.                                                             *)

\* SIGALRM is not queued: an expiration while one is pending is lost.
Tick ==
  /\ dpc # "stopped"
  /\ ticks < MaxTicks
  /\ ticks' = ticks + 1
  /\ alarm' = TRUE
  /\ UNCHANGED <<mutex, dpc, updateVars, pc, clientVars, whole>>

SigWait ==
  /\ dpc = "sigwait"
  /\ alarm
  /\ alarm' = FALSE
  /\ dpc' = "lock"
  /\ UNCHANGED <<mutex, updateVars, pc, clientVars, ticks, whole>>

\* Unlike a client, the daemon goes on to update() whatever else
\* pthread_mutex_lock returns.
DaemonLock ==
  /\ dpc = "lock"
  /\ Lockable(mutex)
  /\ mutex' = Locked(mutex, Daemon)
  /\ dpc' = IF LockResult(mutex) = "EOWNERDEAD" THEN "recover" ELSE "begin"
  /\ UNCHANGED <<updateVars, pc, clientVars, autoVars>>

\* Mutant: EOWNERDEAD is ignored.
DaemonRecoverIgnored ==
  /\ dpc = "recover"
  /\ dpc' = "begin"
  /\ UNCHANGED <<mutex, updateVars, pc, clientVars, autoVars>>

DaemonRecover ==
  /\ dpc = "recover"
  /\ mutex' = MadeConsistent(mutex)
  /\ dpc' = "begin"
  /\ UNCHANGED <<updateVars, pc, clientVars, autoVars>>

StartUpdate ==
  /\ dpc = "begin"
  /\ dpc' = "update"
  /\ BeginUpdate
  /\ UNCHANGED <<mutex, pc, clientVars, autoVars>>

UpdateLine == WriteLine /\ UNCHANGED autoVars

EndUpdate ==
  /\ dpc = "update"
  /\ line = ModulesN + 1
  /\ dpc' = "unlock"
  /\ UNCHANGED <<mutex, updateVars, pc, clientVars, autoVars>>

DaemonUnlock ==
  /\ dpc = "unlock"
  /\ mutex' = Unlocked(mutex, Daemon)
  /\ dpc' = "sigwait"
  /\ UNCHANGED <<updateVars, pc, clientVars, autoVars>>

\* Mutant: the mutex is not robust.
StopHolding ==
  /\ dpc # "stopped"
  /\ dpc' = "stopped"
  /\ UNCHANGED <<mutex, updateVars, pc, clientVars, autoVars>>

\* handle_signal, SIGKILL, or update() raising SIGTERM: the process ends where
\* it is, in the middle of update() too.
Stop ==
  /\ dpc # "stopped"
  /\ dpc' = "stopped"
  /\ mutex' = Abandoned(mutex, Daemon)
  /\ UNCHANGED <<updateVars, pc, clientVars, autoVars>>

-----------------------------------------------------------------------------
ClientStep(c) == Lock(c) \/ Recover(c) \/ Copy(c) \/ Unlock(c)

DaemonStep ==
  \/ SigWait \/ DaemonLock \/ DaemonRecover \/ StartUpdate
  \/ UpdateLine \/ EndUpdate \/ DaemonUnlock

Next ==
  \/ \E c \in Client : Call(c) \/ ClientStep(c) \/ Die(c)
  \/ Tick
  \/ DaemonStep
  \/ Stop

\* The kernel runs every process that is not blocked.
Fairness ==
  /\ \A c \in Client : WF_vars(ClientStep(c))
  /\ WF_vars(DaemonStep)

Spec == Init /\ [][Next]_vars
FairSpec == Spec /\ Fairness

-----------------------------------------------------------------------------
(* Properties.                                                             *)

\* The mutex is owned by whoever is between lock and unlock, the daemon
\* included, so the daemon never writes while a client copies.
OwnerInSection ==
  /\ \A c \in Client : mutex.owner = c <=> pc[c] \in Section
  /\ mutex.owner = Daemon <=> dpc \in DaemonSection

\* No sequence of deaths leaves the mutex not recoverable.
NeverUnrecoverable == mutex.state # "notrecoverable"

\* Both: the mutex survives every sequence of deaths and stops and keeps its
\* meaning, although the daemon ignores the other results of its lock.
MutexSound == OwnerInSection /\ NeverUnrecoverable

\* A call returns the lines of one update, not older than the last one that
\* was complete when the call began, unless the daemon had been stopped half-way
\* through an update when the client took the mutex.
IntactReply ==
  \A c \in Client :
    pc[c] = "unlock" /\ whole[c] =>
      Intact(c) /\ \A v \in seen[c] : v >= asked[c]

\* README: "synced access".  Every call returns lines of one update.
SyncedAccess == \A c \in Client : pc[c] = "unlock" => Intact(c)

\* Every call returns or its client dies, whatever other clients and the
\* daemon do: dying while they hold the mutex included.
EveryCallReturns == \A c \in Client : pc[c] = "lock" ~> pc[c] = "idle"

\* README: "sys-mon data will be updated in the fixed time interval".  Every
\* SIGALRM is followed by an update, clients that died holding the mutex
\* notwithstanding, unless the daemon is stopped.
EveryAlarmUpdates == alarm ~> (dpc \in {"update", "stopped"})

-----------------------------------------------------------------------------
\* The calls of this mode implement the service that is not strict; one that
\* took the mutex over a text left half-written is seen as aborted.
Service == INSTANCE ReadService WITH
  Strict  <- FALSE,
  version <- Completed,
  active  <- {c \in Client : pc[c] # "idle"},
  floor   <- asked,
  reply   <- [c \in Client |-> IF whole[c] THEN Reply(c) ELSE 0]

ServiceSpec == Service!Spec
=============================================================================
