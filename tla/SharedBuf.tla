------------------------------ MODULE SharedBuf ------------------------------
(***************************************************************************)
(* struct shared_buf (shared_buf.h) with what both update methods share:   *)
(* the read call of a client (client/client.c, sys_mon_read_data) and the  *)
(* update() of the daemon (sys-mon.c).                                     *)
(*                                                                         *)
(* The text in sh_buf->data is abstracted to the number of the update()    *)
(* call that wrote it, kept per module line: the daemon writes the lines   *)
(* one after the other and strncpy copies them one after the other, so an  *)
(* update that overlaps a copy shows as a copy made of several updates.    *)
(***************************************************************************)
EXTENDS Integers, RobustMutex

CONSTANTS Client,       \* the client processes
          Daemon,       \* the sys-mon process
          ModulesN,     \* modules_n: lines in sh_buf->data
          MaxCalls,     \* bound: calls of sys_mon_read_data
          MaxDeaths     \* bound: client processes that die

ASSUME ConstantsAssumption ==
  /\ NoOwner \notin Client \cup {Daemon}
  /\ Daemon \notin Client
  /\ ModulesN \in Nat \ {0}
  /\ MaxCalls \in Nat
  /\ MaxDeaths \in Nat

VARIABLES
  mutex,    \* sh_buf->mutex
  data,     \* sh_buf->data: for each line the update() that wrote it
  dpc,      \* where the daemon is in its loop
  line,     \* the module update() writes next
  round,    \* history: update() calls begun so far
  pc,       \* where each client is in sys_mon_read_data
  copied,   \* the line each client's strncpy copies next
  seen,     \* the updates each client's buffer holds lines of
  asked,    \* history: the last update begun when the client called
  calls,    \* calls made so far, bounded by MaxCalls
  deaths    \* client processes dead so far, bounded by MaxDeaths

Line == 1 .. ModulesN

SharedTypeOK ==
  /\ mutex \in [owner : Client \cup {Daemon, NoOwner}, state : MutexState]
  /\ data \in [Line -> Nat]
  /\ line \in 1 .. ModulesN + 1
  /\ round \in Nat
  /\ copied \in [Client -> 1 .. ModulesN + 1]
  /\ seen \in [Client -> SUBSET Nat]
  /\ asked \in [Client -> Nat]
  /\ calls \in 0 .. MaxCalls
  /\ deaths \in 0 .. MaxDeaths

SharedInit ==
  /\ mutex = FreshMutex
  /\ data = [l \in Line |-> 0]
  /\ line = 1
  /\ round = 0
  /\ pc = [c \in Client |-> "idle"]
  /\ copied = [c \in Client |-> 1]
  /\ seen = [c \in Client |-> {}]
  /\ asked = [c \in Client |-> 0]
  /\ calls = 0
  /\ deaths = 0

clientVars == <<copied, seen, asked, calls, deaths>>
updateVars == <<data, line, round>>

Goto(c, label) == pc' = [pc EXCEPT ![c] = label]

-----------------------------------------------------------------------------
(* sys_mon_read_data: the parts common to both sync methods.               *)

\* A client calls, with an empty buffer, when the last update begun is now.
EnterCall(c, now) ==
  /\ pc[c] = "idle"
  /\ calls < MaxCalls
  /\ calls' = calls + 1
  /\ Goto(c, "lock")
  /\ copied' = [copied EXCEPT ![c] = 1]
  /\ seen' = [seen EXCEPT ![c] = {}]
  /\ asked' = [asked EXCEPT ![c] = now]
  /\ UNCHANGED <<mutex, data, dpc, line, round, deaths>>

\* switch (pthread_mutex_lock(...)): case 0 goes on, EOWNERDEAD first repairs
\* the mutex, ENOTRECOVERABLE returns -1.
AfterLock(m, onward) ==
  IF LockResult(m) = "0" THEN onward
  ELSE IF LockResult(m) = "EOWNERDEAD" THEN "recover"
  ELSE "idle"

LockMutex(c, onward) ==
  /\ pc[c] = "lock"
  /\ Lockable(mutex)
  /\ mutex' = Locked(mutex, c)
  /\ Goto(c, AfterLock(mutex, onward))
  /\ UNCHANGED <<dpc, updateVars, clientVars>>

\* Mutant: EOWNERDEAD is treated as success.
RecoverSkipsConsistent(c, onward) ==
  /\ pc[c] = "recover"
  /\ Goto(c, onward)
  /\ UNCHANGED <<mutex, dpc, updateVars, clientVars>>

\* case EOWNERDEAD: pthread_mutex_consistent, then fall through to case 0.
RecoverMutex(c, onward) ==
  /\ pc[c] = "recover"
  /\ mutex' = MadeConsistent(mutex)
  /\ Goto(c, onward)
  /\ UNCHANGED <<dpc, updateVars, clientVars>>

\* strncpy, one line at a time.
CopyLine(c) ==
  /\ pc[c] = "copy"
  /\ seen' = [seen EXCEPT ![c] = @ \cup {data[copied[c]]}]
  /\ copied' = [copied EXCEPT ![c] = @ + 1]
  /\ Goto(c, IF copied[c] = ModulesN THEN "unlock" ELSE "copy")
  /\ UNCHANGED <<mutex, dpc, updateVars, asked, calls, deaths>>

UnlockMutex(c) ==
  /\ pc[c] = "unlock"
  /\ mutex' = Unlocked(mutex, c)
  /\ Goto(c, "idle")
  /\ UNCHANGED <<dpc, updateVars, clientVars>>

\* Mutant: the mutex is not robust.
ClientDiesHolding(c) ==
  /\ pc[c] # "idle"
  /\ deaths < MaxDeaths
  /\ deaths' = deaths + 1
  /\ Goto(c, "idle")
  /\ copied' = [copied EXCEPT ![c] = 1]
  /\ seen' = [seen EXCEPT ![c] = {}]
  /\ UNCHANGED <<mutex, dpc, updateVars, asked, calls>>

\* The client process is killed anywhere in the call; c then stands for the
\* next process that opens the segment.
ClientDies(c) ==
  /\ pc[c] # "idle"
  /\ deaths < MaxDeaths
  /\ deaths' = deaths + 1
  /\ mutex' = Abandoned(mutex, c)
  /\ Goto(c, "idle")
  /\ copied' = [copied EXCEPT ![c] = 1]
  /\ seen' = [seen EXCEPT ![c] = {}]
  /\ UNCHANGED <<dpc, updateVars, asked, calls>>

-----------------------------------------------------------------------------
(* update(): wr.pos = 0, then every module writes its line.                *)

BeginUpdate ==
  /\ line' = 1
  /\ round' = round + 1
  /\ data' = data

\* Mutant: the loop runs once more than there are modules.
WriteLinePastEnd ==
  /\ dpc = "update"
  /\ line \in 1 .. ModulesN + 1
  /\ data' = [data EXCEPT ![line] = round]
  /\ line' = line + 1
  /\ UNCHANGED <<mutex, dpc, round, pc, clientVars>>

WriteLine ==
  /\ dpc = "update"
  /\ line \in Line
  /\ data' = [data EXCEPT ![line] = round]
  /\ line' = line + 1
  /\ UNCHANGED <<mutex, dpc, round, pc, clientVars>>

\* The buffer a client returns with comes from one update.
Intact(c) == \A u, v \in seen[c] : u = v

\* What a client's last call returned, seen as one snapshot: 0 for nothing and
\* Torn, which no service returns, for lines of several.
Torn == -1
Returned(place, lines) ==
  IF place # "idle" \/ lines = {} THEN 0
  ELSE IF \A u, v \in lines : u = v THEN CHOOSE v \in lines : TRUE
  ELSE Torn
Reply(c) == Returned(pc[c], seen[c])
=============================================================================
