------------------------------ MODULE Lifecycle ------------------------------
(***************************************************************************)
(* The life of the shared memory object: the daemon creates or reuses it,  *)
(* sizes it and initialises what is in it one call after the other (main   *)
(* of sys-mon.c), serves, and unlinks it when it is stopped but not when   *)
(* it is killed or gives up its boot; it may be started again.  Clients    *)
(* open the object by its name at any moment, the middle of the boot       *)
(* included (client/client.c).                                             *)
(*                                                                         *)
(* A call of sys_mon_read_data is coarser here than in DemandUpdate and    *)
(* AutoUpdate: clients do not die in it, so taking the mutex includes      *)
(* making it consistent, and draining out includes posting in.             *)
(***************************************************************************)
EXTENDS Integers, RobustMutex

CONSTANTS Client,       \* the client processes
          Daemon,       \* whichever sys-mon process is running
          MaxStarts,    \* bound: starts of the daemon
          MaxKills,     \* bound: daemons killed
          MaxCalls,     \* bound: calls of sys_mon_read_data
          MaxTicks      \* bound: alarms of the timer

ASSUME LifecycleAssumption ==
  /\ NoOwner \notin Client \cup {Daemon}
  /\ Daemon \notin Client
  /\ MaxStarts \in Nat /\ MaxKills \in Nat /\ MaxCalls \in Nat /\ MaxTicks \in Nat

VARIABLES
  mode,     \* what auto_update says: "SEMS" or "NONE"
  name,     \* the object shm_name is bound to, or Unbound
  objects,  \* objects created so far
  shm,      \* the struct shared_buf in each object
  dpc,      \* where the daemon is in main
  dshm,     \* the object the daemon maps
  pc,       \* where each client is
  cshm,     \* the object each client maps
  sync,     \* what each client's call read from sync_method
  overrun,  \* history: the mutex was initialised during the client's call
  spoilt,   \* history: objects a boot and a call overlapped on
  orphans,  \* history: objects left under the name without a daemon
  starts, kills, calls, ticks

daemonVars == <<dpc, dshm>>
clientVars == <<pc, cshm, sync, overrun>>
bounds == <<starts, kills, calls, ticks>>
vars == <<mode, name, objects, shm, dpc, dshm, pc, cshm, sync, overrun, spoilt, orphans,
          starts, kills, calls, ticks>>

Unbound == 0
Object == 1 .. MaxStarts
Method == {"SEMS", "NONE"}

\* ftruncate fills a new object with zeros: SYS_MON_SYNC_SEMS is 0, and so are
\* an unlocked mutex and two semaphores nobody posted.
Zeroed == [sized |-> FALSE, mutex |-> FreshMutex, method |-> "SEMS",
           in |-> 0, out |-> 0, inits |-> 0]

Boot == {"open", "truncate", "mutex", "method", "in", "out"}
InCall == {"lock", "ask", "wait", "unlock"}

TypeOK ==
  /\ mode \in Method
  /\ name \in Object \cup {Unbound}
  /\ objects \in 0 .. MaxStarts
  /\ shm \in [Object -> [sized : BOOLEAN,
                         mutex : [owner : Client \cup {Daemon, NoOwner}, state : MutexState],
                         method : Method, in : Nat, out : Nat, inits : Nat]]
  /\ dpc \in Boot \cup {"down", "serve", "answer", "sigwait", "lock", "update"}
  /\ dshm \in Object \cup {Unbound}
  /\ pc \in [Client -> InCall \cup {"closed", "ready"}]
  /\ cshm \in [Client -> Object \cup {Unbound}]
  /\ sync \in [Client -> Method]
  /\ overrun \in [Client -> BOOLEAN]
  /\ spoilt \subseteq Object /\ orphans \subseteq Object
  /\ starts \in 0 .. MaxStarts /\ kills \in 0 .. MaxKills
  /\ calls \in 0 .. MaxCalls /\ ticks \in 0 .. MaxTicks

Init ==
  /\ mode \in Method
  /\ name = Unbound
  /\ objects = 0
  /\ shm = [o \in Object |-> Zeroed]
  /\ dpc = "down"
  /\ dshm = Unbound
  /\ pc = [c \in Client |-> "closed"]
  /\ cshm = [c \in Client |-> Unbound]
  /\ sync = [c \in Client |-> "SEMS"]
  /\ overrun = [c \in Client |-> FALSE]
  /\ spoilt = {} /\ orphans = {}
  /\ starts = 0 /\ kills = 0 /\ calls = 0 /\ ticks = 0

Set(o, field, value) == shm' = [shm EXCEPT ![o][field] = value]

-----------------------------------------------------------------------------
(* The daemon.                                                             *)

Start ==
  /\ dpc = "down"
  /\ starts < MaxStarts
  /\ starts' = starts + 1
  /\ dpc' = "open"
  /\ UNCHANGED <<mode, name, objects, shm, dshm, clientVars, spoilt, orphans, kills, calls, ticks>>

\* shm_open(name, O_RDWR | O_CREAT): a daemon before may have left its object.
OpenShm ==
  /\ dpc = "open"
  /\ IF name = Unbound
     THEN objects' = objects + 1 /\ name' = objects + 1
     ELSE UNCHANGED <<objects, name>>
  /\ dshm' = name'
  /\ dpc' = "truncate"
  /\ spoilt' = spoilt \cup {o \in {name'} : \E c \in Client : pc[c] \in InCall /\ cshm[c] = o}
  /\ orphans' = orphans \ {name'}
  /\ UNCHANGED <<mode, shm, clientVars, bounds>>

Truncate ==
  /\ dpc = "truncate"
  /\ Set(dshm, "sized", TRUE)
  /\ dpc' = "mutex"
  /\ UNCHANGED <<mode, name, objects, dshm, clientVars, spoilt, orphans, bounds>>

\* exit(-1): shm_open fails, or ftruncate (the object keeps its size) or mmap
\* behind it, and then the name stays bound.
BootFails ==
  /\ \/ dpc = "open" /\ UNCHANGED <<shm, orphans>>
     \/ /\ dpc = "truncate"
        /\ UNCHANGED shm \/ Set(dshm, "sized", TRUE)
        /\ orphans' = orphans \cup {dshm}
  /\ dpc' = "down"
  /\ dshm' = Unbound
  /\ UNCHANGED <<mode, name, objects, clientVars, spoilt, bounds>>

\* pthread_mutex_init, whoever holds the mutex.
InitMutex ==
  /\ dpc = "mutex"
  /\ shm' = [shm EXCEPT ![dshm].mutex = FreshMutex, ![dshm].inits = @ + 1]
  /\ overrun' = [c \in Client |-> overrun[c] \/ (pc[c] \in InCall /\ cshm[c] = dshm)]
  /\ dpc' = "method"
  /\ UNCHANGED <<mode, name, objects, dshm, pc, cshm, sync, spoilt, orphans, bounds>>

SetMethod ==
  /\ dpc = "method"
  /\ Set(dshm, "method", mode)
  /\ dpc' = "in"
  /\ UNCHANGED <<mode, name, objects, dshm, clientVars, spoilt, orphans, bounds>>

InitIn ==
  /\ dpc = "in"
  /\ Set(dshm, "in", IF mode = "SEMS" THEN 0 ELSE 1)
  /\ dpc' = IF mode = "SEMS" THEN "out" ELSE "sigwait"
  /\ UNCHANGED <<mode, name, objects, dshm, clientVars, spoilt, orphans, bounds>>

InitOut ==
  /\ dpc = "out"
  /\ Set(dshm, "out", 0)
  /\ dpc' = "serve"
  /\ UNCHANGED <<mode, name, objects, dshm, clientVars, spoilt, orphans, bounds>>

\* Mutant: the daemon goes on when nobody asked (sem_trywait).
ServeUnasked ==
  /\ dpc = "serve"
  /\ Set(dshm, "in", shm[dshm].in - 1)
  /\ dpc' = "answer"
  /\ UNCHANGED <<mode, name, objects, dshm, clientVars, spoilt, orphans, bounds>>

\* sem_wait(&sh_buf->in)
Serve ==
  /\ dpc = "serve"
  /\ shm[dshm].in > 0
  /\ Set(dshm, "in", shm[dshm].in - 1)
  /\ dpc' = "answer"
  /\ UNCHANGED <<mode, name, objects, dshm, clientVars, spoilt, orphans, bounds>>

\* update(); sem_post(&sh_buf->out)
Answer ==
  /\ dpc = "answer"
  /\ Set(dshm, "out", shm[dshm].out + 1)
  /\ dpc' = "serve"
  /\ UNCHANGED <<mode, name, objects, dshm, clientVars, spoilt, orphans, bounds>>

\* sigwait returns.
Alarm ==
  /\ dpc = "sigwait"
  /\ ticks < MaxTicks
  /\ ticks' = ticks + 1
  /\ dpc' = "lock"
  /\ UNCHANGED <<mode, name, objects, shm, dshm, clientVars, spoilt, orphans, starts, kills, calls>>

DaemonLock ==
  /\ dpc = "lock"
  /\ Lockable(shm[dshm].mutex)
  /\ Set(dshm, "mutex", MadeConsistent(Locked(shm[dshm].mutex, Daemon)))
  /\ dpc' = "update"
  /\ UNCHANGED <<mode, name, objects, dshm, clientVars, spoilt, orphans, bounds>>

DaemonUnlock ==
  /\ dpc = "update"
  /\ Set(dshm, "mutex", Unlocked(shm[dshm].mutex, Daemon))
  /\ dpc' = "sigwait"
  /\ UNCHANGED <<mode, name, objects, dshm, clientVars, spoilt, orphans, bounds>>

\* The daemon's process ends; the kernel walks its robust list.
Exit ==
  /\ dpc # "down"
  /\ dpc' = "down"
  /\ dshm' = Unbound
  /\ shm' = IF dshm = Unbound THEN shm
            ELSE [shm EXCEPT ![dshm].mutex = Abandoned(@, Daemon)]
  /\ UNCHANGED <<mode, objects, clientVars, spoilt, starts, calls, ticks>>

\* Mutant: the handler exits without shm_unlink.
TerminateLinked == Exit /\ UNCHANGED <<name, kills, orphans>>

\* handle_signal: shm_unlink, close, exit.
Terminate == Exit /\ name' = Unbound /\ UNCHANGED <<kills, orphans>>

\* SIGKILL or a crash.
Kill ==
  /\ Exit
  /\ kills < MaxKills
  /\ kills' = kills + 1
  /\ orphans' = orphans \cup ({dshm} \ {Unbound})
  /\ UNCHANGED name

-----------------------------------------------------------------------------
(* The clients.                                                            *)

Goto(c, label) == pc' = [pc EXCEPT ![c] = label]

\* sys_mon_open: without the name the client exits.
Open(c) ==
  /\ pc[c] = "closed"
  /\ name # Unbound
  /\ cshm' = [cshm EXCEPT ![c] = name]
  /\ Goto(c, "ready")
  /\ UNCHANGED <<mode, name, objects, shm, daemonVars, sync, overrun, spoilt, orphans, bounds>>

Close(c) ==
  /\ pc[c] = "ready"
  /\ Goto(c, "closed")
  /\ cshm' = [cshm EXCEPT ![c] = Unbound]
  /\ UNCHANGED <<mode, name, objects, shm, daemonVars, sync, overrun, spoilt, orphans, bounds>>

\* sys_mon_read_data reads sync_method first; behind the end of an object that
\* is not sized yet that is a SIGBUS.
ReadMethod(c) ==
  /\ pc[c] = "ready"
  /\ calls < MaxCalls
  /\ calls' = calls + 1
  /\ Goto(c, IF shm[cshm[c]].sized THEN "lock" ELSE "closed")
  /\ sync' = [sync EXCEPT ![c] = shm[cshm[c]].method]
  /\ overrun' = [overrun EXCEPT ![c] = FALSE]
  /\ spoilt' = IF dshm = cshm[c] /\ dpc \in Boot THEN spoilt \cup {dshm} ELSE spoilt
  /\ UNCHANGED <<mode, name, objects, shm, daemonVars, cshm, orphans, starts, kills, ticks>>

\* Mutant: the mutex is not taken.
LockIsNoOp(c) ==
  /\ pc[c] = "lock"
  /\ Goto(c, IF sync[c] = "SEMS" THEN "ask" ELSE "unlock")
  /\ UNCHANGED <<mode, name, objects, shm, daemonVars, cshm, sync, overrun, spoilt, orphans, bounds>>

Lock(c) ==
  /\ pc[c] = "lock"
  /\ Lockable(shm[cshm[c]].mutex)
  /\ Set(cshm[c], "mutex", MadeConsistent(Locked(shm[cshm[c]].mutex, c)))
  /\ Goto(c, IF sync[c] = "SEMS" THEN "ask" ELSE "unlock")
  /\ UNCHANGED <<mode, name, objects, daemonVars, cshm, sync, overrun, spoilt, orphans, bounds>>

\* The drain loop and sem_post(&in).
Ask(c) ==
  /\ pc[c] = "ask"
  /\ shm' = [shm EXCEPT ![cshm[c]].out = 0, ![cshm[c]].in = @ + 1]
  /\ Goto(c, "wait")
  /\ UNCHANGED <<mode, name, objects, daemonVars, cshm, sync, overrun, spoilt, orphans, bounds>>

\* sem_wait(&out) and the copy.
Wait(c) ==
  /\ pc[c] = "wait"
  /\ shm[cshm[c]].out > 0
  /\ Set(cshm[c], "out", shm[cshm[c]].out - 1)
  /\ Goto(c, "unlock")
  /\ UNCHANGED <<mode, name, objects, daemonVars, cshm, sync, overrun, spoilt, orphans, bounds>>

\* Mutant: a return without pthread_mutex_unlock.
ReturnLocked(c) ==
  /\ pc[c] = "unlock"
  /\ Goto(c, "ready")
  /\ UNCHANGED <<mode, name, objects, shm, daemonVars, cshm, sync, overrun, spoilt, orphans, bounds>>

Unlock(c) ==
  /\ pc[c] = "unlock"
  /\ Set(cshm[c], "mutex", Unlocked(shm[cshm[c]].mutex, c))
  /\ Goto(c, "ready")
  /\ UNCHANGED <<mode, name, objects, daemonVars, cshm, sync, overrun, spoilt, orphans, bounds>>

-----------------------------------------------------------------------------
BootStep == OpenShm \/ Truncate \/ InitMutex \/ SetMethod \/ InitIn \/ InitOut
DaemonStep == BootStep \/ Serve \/ Answer \/ DaemonLock \/ DaemonUnlock
ClientStep(c) == Lock(c) \/ Ask(c) \/ Wait(c) \/ Unlock(c)

Next ==
  \/ Start \/ BootFails \/ Terminate \/ Kill
  \/ DaemonStep \/ Alarm
  \/ \E c \in Client : Open(c) \/ Close(c) \/ ReadMethod(c) \/ ClientStep(c)

Spec == Init /\ [][Next]_vars
FairSpec ==
  /\ Spec
  /\ WF_vars(DaemonStep)
  /\ \A c \in Client : WF_vars(ClientStep(c))

-----------------------------------------------------------------------------
(* Properties.                                                             *)

\* An object is initialised once, plus once for each daemon that was killed and
\* could not unlink it: no orderly restart runs pthread_mutex_init and sem_init
\* under clients of the daemon before.
InitialisedOnce == \A o \in Object : shm[o].inits <= 1 + kills

\* The name leads to the object of a daemon that is running, but where a daemon
\* was killed or gave up its boot and none has opened the object since: an
\* orderly stop never leaves clients an object nobody serves.
NameMeansDaemon == name \notin orphans \cup {Unbound} => dpc # "down" /\ dshm = name

Inside(c) == pc[c] \in {"ask", "wait", "unlock"}

\* Two clients are inside the same object only if its mutex was initialised
\* during the call of one of them.
OneInside ==
  \A c, d \in Client :
    c # d /\ Inside(c) /\ Inside(d) /\ cshm[c] = cshm[d] => overrun[c] \/ overrun[d]

\* A call on an object whose boot no call overlapped returns, or the daemon that
\* serves the object has ended.
CallsReturn ==
  \A c \in Client :
    pc[c] = "lock" ~>
      (pc[c] \in {"ready", "closed"} \/ dshm # cshm[c] \/ cshm[c] \in spoilt)

\* README: "[auto-update] if present and true, sys-mon data will be updated in
\* the fixed time interval".  Every alarm is followed by an update.
AlarmsUpdate == dpc = "lock" ~> dpc # "lock"
=============================================================================
