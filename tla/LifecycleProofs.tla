--------------------------- MODULE LifecycleProofs ---------------------------
(***************************************************************************)
(* Safety of the life cycle for every number of clients, of starts, of     *)
(* kills, of calls and of alarms: types, which object the daemon has       *)
(* mapped, how often an object is initialised, and who owns its mutex.     *)
(***************************************************************************)
EXTENDS Lifecycle, TLAPS

\* A daemon past shm_open has mapped what the name leads to; a client that has
\* opened has mapped some object.  Each object was created by one start.
Mapped ==
  /\ IF dpc \in {"down", "open"} THEN dshm = Unbound ELSE dshm = name /\ name # Unbound
  /\ objects <= starts
  /\ dpc = "open" => objects < starts
  /\ name <= objects
  /\ \A c \in Client : pc[c] # "closed" => cshm[c] \in Object

TypeInv == TypeOK /\ Mapped

\* Before a boot initialises the named object again, the object is owed to kills
\* alone; and a name that is bound where no daemon has opened it is an orphan.
InitsInv ==
  /\ \A o \in Object : o > objects => shm[o].inits = 0
  /\ InitialisedOnce
  /\ name # Unbound /\ dpc \in {"down", "open", "truncate", "mutex"} => shm[name].inits <= kills
  /\ name # Unbound /\ dpc \in {"down", "open"} => name \in orphans

\* The mutex is never lost, because no step leaves it inconsistent, and a client
\* inside owns it unless it was initialised during its call.
OwnerInv ==
  /\ \A o \in Object : shm[o].mutex.state \in {"ok", "ownerdead"}
  /\ \A c \in Client : Inside(c) /\ ~overrun[c] => shm[cshm[c]].mutex.owner = c

IInv == TypeInv /\ InitsInv /\ OwnerInv
-----------------------------------------------------------------------------
(* What the steps do to an object.                                         *)

Mutexes == [owner : Client \cup {Daemon, NoOwner}, state : MutexState]
Struct == [sized : BOOLEAN, mutex : Mutexes, method : Method, in : Nat, out : Nat, inits : Nat]

\* No object is initialised and no mutex is touched.
MutexesKept ==
  \A o \in Object : shm'[o].inits = shm[o].inits /\ shm'[o].mutex = shm[o].mutex

\* An object gets a mutex, and no other field of any changes.
MutexSet(o, m) ==
  \A q \in Object : /\ shm'[q].inits = shm[q].inits
                    /\ shm'[q].mutex = IF q = o THEN m ELSE shm[q].mutex

LEMMA MutexTypes ==
  ASSUME NEW m \in Mutexes, NEW p \in Client \cup {Daemon}
  PROVE  /\ Locked(m, p) \in Mutexes
         /\ MadeConsistent(m) \in Mutexes
         /\ Unlocked(m, p) \in Mutexes
         /\ Abandoned(m, p) \in Mutexes
BY DEF Mutexes, MutexState, Locked, LockResult, MadeConsistent, Unlocked, Abandoned

LEMMA SetMutex ==
  ASSUME shm \in [Object -> Struct], NEW o \in Object, NEW m \in Mutexes, Set(o, "mutex", m)
  PROVE  shm' \in [Object -> Struct] /\ MutexSet(o, m)
BY DEF Set, Struct, MutexSet

LEMMA SetSized ==
  ASSUME shm \in [Object -> Struct], NEW o \in Object, Set(o, "sized", TRUE)
  PROVE  shm' \in [Object -> Struct] /\ MutexesKept
BY DEF Set, Struct, MutexesKept

LEMMA SetMethodField ==
  ASSUME shm \in [Object -> Struct], NEW o \in Object, NEW v \in Method, Set(o, "method", v)
  PROVE  shm' \in [Object -> Struct] /\ MutexesKept
BY DEF Set, Struct, MutexesKept

LEMMA SetIn ==
  ASSUME shm \in [Object -> Struct], NEW o \in Object, NEW v \in Nat, Set(o, "in", v)
  PROVE  shm' \in [Object -> Struct] /\ MutexesKept
BY DEF Set, Struct, MutexesKept

LEMMA SetOut ==
  ASSUME shm \in [Object -> Struct], NEW o \in Object, NEW v \in Nat, Set(o, "out", v)
  PROVE  shm' \in [Object -> Struct] /\ MutexesKept
BY DEF Set, Struct, MutexesKept

\* The steps that touch no mutex.
QuietStep ==
  \/ Start \/ OpenShm \/ Truncate \/ SetMethod \/ InitIn \/ InitOut
  \/ Serve \/ Answer \/ Alarm
  \/ \E c \in Client : Open(c) \/ Close(c) \/ ReadMethod(c) \/ Ask(c) \/ Wait(c)

LEMMA Typed == TypeInv => shm \in [Object -> Struct]
BY DEF TypeInv, TypeOK, Struct, Mutexes

\* The daemon past shm_open and a client that has opened use objects.
LEMMA Uses ==
  ASSUME TypeInv
  PROVE  /\ dpc \notin {"down", "open"} => dshm \in Object /\ shm[dshm] \in Struct
         /\ \A c \in Client : pc[c] # "closed" => cshm[c] \in Object /\ shm[cshm[c]] \in Struct
         /\ \A o \in Object : shm[o].mutex \in Mutexes
<1>1. shm \in [Object -> Struct]
  BY Typed
<1>2. dpc \notin {"down", "open"} => dshm \in Object
  BY DEF TypeInv, TypeOK, Mapped
<1>3. \A c \in Client : pc[c] # "closed" => cshm[c] \in Object
  BY DEF TypeInv, Mapped
<1>4. \A o \in Object : shm[o] \in Struct
  BY <1>1
<1>5. \A o \in Object : shm[o].mutex \in Mutexes
  BY <1>4 DEF Struct
<1> QED
  BY <1>2, <1>3, <1>4, <1>5

LEMMA Quiet ==
  ASSUME TypeInv, QuietStep
  PROVE  shm' \in [Object -> Struct] /\ MutexesKept
<1>0. shm \in [Object -> Struct]
  BY Typed
<1> DEFINE Done == shm' \in [Object -> Struct] /\ MutexesKept
<1>1. ASSUME shm' = shm PROVE Done
  BY <1>0, <1>1 DEF MutexesKept
<1>2. CASE Start \/ OpenShm \/ Alarm \/ \E c \in Client : Open(c) \/ Close(c) \/ ReadMethod(c)
  BY <1>1, <1>2 DEF Start, OpenShm, Alarm, Open, Close, ReadMethod
<1>3. CASE Truncate
  BY <1>0, <1>3, Uses, SetSized DEF Truncate
<1>4. CASE SetMethod
  <2>1. mode \in Method
    BY DEF TypeInv, TypeOK
  <2> QED
    BY <1>0, <1>4, <2>1, Uses, SetMethodField DEF SetMethod
<1>5. CASE InitIn
  <2>1. (IF mode = "SEMS" THEN 0 ELSE 1) \in Nat
    OBVIOUS
  <2> QED
    BY <1>0, <1>5, <2>1, Uses, SetIn DEF InitIn
<1>6. CASE InitOut
  BY <1>0, <1>6, Uses, SetOut DEF InitOut
<1>7. CASE Serve
  <2>1. dshm \in Object /\ shm[dshm].in - 1 \in Nat
    BY <1>7, Uses DEF Serve, Struct
  <2> QED
    BY <1>0, <1>7, <2>1, SetIn DEF Serve
<1>8. CASE Answer
  <2>1. dshm \in Object /\ shm[dshm].out + 1 \in Nat
    BY <1>8, Uses DEF Answer, Struct
  <2> QED
    BY <1>0, <1>8, <2>1, SetOut DEF Answer
<1>9. ASSUME NEW c \in Client, Ask(c) PROVE Done
  <2>1. cshm[c] \in Object
    BY <1>9, Uses DEF Ask
  <2>2. shm' = [shm EXCEPT ![cshm[c]].out = 0, ![cshm[c]].in = @ + 1]
    BY <1>9 DEF Ask
  <2> QED
    BY <1>0, <2>1, <2>2 DEF Struct, MutexesKept
<1>10. ASSUME NEW c \in Client, Wait(c) PROVE Done
  <2>1. cshm[c] \in Object /\ shm[cshm[c]].out - 1 \in Nat
    BY <1>10, Uses DEF Wait, Struct
  <2> QED
    BY <1>0, <1>10, <2>1, SetOut DEF Wait
<1> QED
  BY <1>2, <1>3, <1>4, <1>5, <1>6, <1>7, <1>8, <1>9, <1>10 DEF QuietStep

LEMMA InitMutexSets ==
  ASSUME TypeInv, InitMutex
  PROVE  /\ shm' \in [Object -> Struct] /\ dshm \in Object
         /\ \A o \in Object :
              /\ shm'[o].mutex = IF o = dshm THEN FreshMutex ELSE shm[o].mutex
              /\ shm'[o].inits = IF o = dshm THEN shm[o].inits + 1 ELSE shm[o].inits
<1>0. shm \in [Object -> Struct] /\ dshm \in Object
  BY Typed, Uses DEF InitMutex
<1>1. FreshMutex \in Mutexes
  BY DEF FreshMutex, Mutexes, MutexState
<1>2. shm' = [shm EXCEPT ![dshm].mutex = FreshMutex, ![dshm].inits = @ + 1]
  BY DEF InitMutex
<1> QED
  BY <1>0, <1>1, <1>2 DEF Struct

LEMMA ExitSets ==
  ASSUME TypeInv, Exit
  PROVE  /\ shm' \in [Object -> Struct]
         /\ \A o \in Object :
              /\ shm'[o].mutex = IF o = dshm THEN Abandoned(shm[o].mutex, Daemon) ELSE shm[o].mutex
              /\ shm'[o].inits = shm[o].inits
<1>0. shm \in [Object -> Struct] /\ dshm \in Object \cup {Unbound}
  BY Typed DEF TypeInv, TypeOK
<1>1. CASE dshm = Unbound
  <2>1. shm' = shm /\ dshm \notin Object
    BY <1>1 DEF Exit, Unbound, Object
  <2> QED
    BY <1>0, <2>1
<1>2. CASE dshm # Unbound
  <2>1. dshm \in Object /\ shm' = [shm EXCEPT ![dshm].mutex = Abandoned(@, Daemon)]
    BY <1>0, <1>2 DEF Exit
  <2>2. Abandoned(shm[dshm].mutex, Daemon) \in Mutexes
    BY <2>1, Uses, MutexTypes
  <2> QED
    BY <1>0, <2>1, <2>2 DEF Struct
<1> QED
  BY <1>1, <1>2

\* What pthread_mutex_lock and _unlock of a process leave in an object.
LEMMA LockSets ==
  ASSUME TypeInv
  PROVE  /\ DaemonLock => shm' \in [Object -> Struct] /\ dshm \in Object /\
                          MutexSet(dshm, MadeConsistent(Locked(shm[dshm].mutex, Daemon)))
         /\ DaemonUnlock => shm' \in [Object -> Struct] /\ dshm \in Object /\
                            MutexSet(dshm, Unlocked(shm[dshm].mutex, Daemon))
         /\ \A c \in Client :
              Lock(c) => shm' \in [Object -> Struct] /\ cshm[c] \in Object /\
                         MutexSet(cshm[c], MadeConsistent(Locked(shm[cshm[c]].mutex, c)))
         /\ \A c \in Client :
              Unlock(c) => shm' \in [Object -> Struct] /\ cshm[c] \in Object /\
                           MutexSet(cshm[c], Unlocked(shm[cshm[c]].mutex, c))
<1>0. shm \in [Object -> Struct]
  BY Typed
<1>1. ASSUME NEW o \in Object, NEW p \in Client \cup {Daemon}
      PROVE  /\ MadeConsistent(Locked(shm[o].mutex, p)) \in Mutexes
             /\ Unlocked(shm[o].mutex, p) \in Mutexes
  BY Uses, MutexTypes
<1>2. ASSUME DaemonLock
      PROVE  shm' \in [Object -> Struct] /\ dshm \in Object /\
             MutexSet(dshm, MadeConsistent(Locked(shm[dshm].mutex, Daemon)))
  BY <1>0, <1>1, <1>2, Uses, SetMutex DEF DaemonLock
<1>3. ASSUME DaemonUnlock
      PROVE  shm' \in [Object -> Struct] /\ dshm \in Object /\
             MutexSet(dshm, Unlocked(shm[dshm].mutex, Daemon))
  BY <1>0, <1>1, <1>3, Uses, SetMutex DEF DaemonUnlock
<1>4. ASSUME NEW c \in Client, Lock(c)
      PROVE  shm' \in [Object -> Struct] /\ cshm[c] \in Object /\
             MutexSet(cshm[c], MadeConsistent(Locked(shm[cshm[c]].mutex, c)))
  BY <1>0, <1>1, <1>4, Uses, SetMutex DEF Lock
<1>5. ASSUME NEW c \in Client, Unlock(c)
      PROVE  shm' \in [Object -> Struct] /\ cshm[c] \in Object /\
             MutexSet(cshm[c], Unlocked(shm[cshm[c]].mutex, c))
  BY <1>0, <1>1, <1>5, Uses, SetMutex DEF Unlock
<1> QED
  BY <1>2, <1>3, <1>4, <1>5

LEMMA BootFailsSets ==
  ASSUME TypeInv, BootFails
  PROVE  shm' \in [Object -> Struct] /\ MutexesKept
<1>0. shm \in [Object -> Struct]
  BY Typed
<1>1. CASE shm' = shm
  BY <1>0, <1>1 DEF MutexesKept
<1>2. CASE dpc = "truncate" /\ Set(dshm, "sized", TRUE)
  BY <1>0, <1>2, Uses, SetSized
<1> QED
  BY <1>1, <1>2 DEF BootFails

LEMMA Cases ==
  Next <=> \/ QuietStep \/ BootFails \/ InitMutex \/ Terminate \/ Kill \/ DaemonLock \/ DaemonUnlock
           \/ \E c \in Client : Lock(c) \/ Unlock(c)
BY DEF Next, DaemonStep, BootStep, ClientStep, QuietStep

-----------------------------------------------------------------------------
(* Types, and what is mapped.                                              *)

LEMMA InitTyped == Init => TypeInv
BY LifecycleAssumption
   DEF Init, TypeInv, TypeOK, Mapped, Zeroed, FreshMutex, MutexState, Method, Unbound, Object,
       Boot, InCall

\* The variables a step of the daemon after its start leaves alone, and its place.
LEMMA DaemonTyped ==
  ASSUME TypeInv, shm' \in [Object -> Struct],
         dpc \notin {"down", "open"}, dpc' \in Boot \cup {"serve", "answer", "sigwait", "lock", "update"},
         dpc' # "open",
         UNCHANGED <<mode, name, objects, dshm, pc, cshm, sync, spoilt, orphans, starts, kills, calls>>,
         overrun' \in [Client -> BOOLEAN], ticks' \in 0 .. MaxTicks
  PROVE  TypeInv'
<1>1. TypeOK'
  BY DEF TypeInv, TypeOK, Struct, Mutexes, Object
<1>2. Mapped'
  BY DEF TypeInv, Mapped, Boot
<1> QED
  BY <1>1, <1>2 DEF TypeInv

LEMMA TypeInductive == TypeInv /\ [Next]_vars => TypeInv'
<1> SUFFICES ASSUME TypeInv, [Next]_vars PROVE TypeInv'
  OBVIOUS
<1>0. overrun \in [Client -> BOOLEAN] /\ ticks \in 0 .. MaxTicks
  BY DEF TypeInv, TypeOK
<1>1. CASE Start
  <2>1. shm' \in [Object -> Struct]
    BY <1>1, Quiet DEF QuietStep
  <2>2. starts' \in 0 .. MaxStarts
    BY <1>1, LifecycleAssumption DEF Start, TypeInv, TypeOK
  <2>3. TypeOK'
    BY <1>1, <2>1, <2>2 DEF Start, TypeInv, TypeOK, Struct, Mutexes, Boot, clientVars, Object
  <2>4. Mapped'
    BY <1>1 DEF Start, TypeInv, TypeOK, Mapped, clientVars
  <2> QED
    BY <2>3, <2>4 DEF TypeInv
<1>2. CASE OpenShm
  <2>1. shm' = shm /\ UNCHANGED <<mode, clientVars, bounds>>
    BY <1>2 DEF OpenShm
  <2>2. objects < starts /\ starts <= MaxStarts /\ objects \in Nat /\ MaxStarts \in Nat
    BY <1>2, LifecycleAssumption DEF OpenShm, TypeInv, TypeOK, Mapped
  <2>3. /\ objects' \in 0 .. MaxStarts /\ objects' <= starts
        /\ name' \in Object /\ name' <= objects' /\ name' # Unbound
    <3>1. CASE name = Unbound
      <4>1. objects' = objects + 1 /\ name' = objects + 1
        BY <1>2, <3>1 DEF OpenShm
      <4>2. objects + 1 \in 1 .. MaxStarts /\ objects + 1 <= starts
        <5>1. starts \in Nat
          BY DEF TypeInv, TypeOK
        <5> QED
          BY <2>2, <5>1
      <4> QED
        BY <2>2, <4>1, <4>2 DEF Object, Unbound
    <3>2. CASE name # Unbound
      <4>1. objects' = objects /\ name' = name /\ name \in Object /\ name <= objects
        BY <1>2, <3>2 DEF OpenShm, TypeInv, TypeOK, Mapped
      <4>2. objects <= starts /\ objects \in 0 .. MaxStarts
        BY DEF TypeInv, TypeOK, Mapped
      <4> QED
        BY <3>2, <4>1, <4>2
    <3> QED
      BY <3>1, <3>2
  <2>4. /\ spoilt' \subseteq Object /\ orphans' \subseteq Object
        /\ dshm' = name' /\ dpc' = "truncate"
    BY <1>2, <2>3 DEF OpenShm, TypeInv, TypeOK
  <2>5. TypeOK'
    BY <2>1, <2>3, <2>4 DEF TypeInv, TypeOK, Boot, clientVars, bounds, Object
  <2>6. Mapped'
    BY <2>1, <2>3, <2>4 DEF TypeInv, TypeOK, Mapped, clientVars, bounds, Object
  <2> QED
    BY <2>5, <2>6 DEF TypeInv
<1>3. CASE Truncate \/ SetMethod \/ InitIn \/ InitOut \/ Serve \/ Answer
  <2>1. shm' \in [Object -> Struct]
    BY <1>3, Quiet DEF QuietStep
  <2>2. /\ dpc \notin {"down", "open"} /\ dpc' # "open"
        /\ dpc' \in Boot \cup {"serve", "answer", "sigwait", "lock", "update"}
        /\ UNCHANGED <<mode, name, objects, dshm, clientVars, spoilt, orphans, bounds>>
    BY <1>3 DEF Truncate, SetMethod, InitIn, InitOut, Serve, Answer, Boot
  <2> QED
    BY <1>0, <2>1, <2>2, DaemonTyped DEF clientVars, bounds
<1>4. CASE InitMutex
  <2>1. overrun' \in [Client -> BOOLEAN]
    BY <1>4 DEF InitMutex
  <2>2. /\ dpc = "mutex" /\ dpc' = "method"
        /\ UNCHANGED <<mode, name, objects, dshm, pc, cshm, sync, spoilt, orphans, bounds>>
    BY <1>4 DEF InitMutex
  <2> QED
    BY <1>0, <1>4, <2>1, <2>2, InitMutexSets, DaemonTyped DEF bounds, Boot
<1>5. CASE Alarm
  <2>1. shm' \in [Object -> Struct] /\ ticks' \in 0 .. MaxTicks
    BY <1>0, <1>5, Quiet, LifecycleAssumption DEF QuietStep, Alarm
  <2> QED
    BY <1>0, <1>5, <2>1, DaemonTyped DEF Alarm, clientVars, Boot
<1>6. CASE DaemonLock \/ DaemonUnlock
  <2>1. shm' \in [Object -> Struct]
    BY <1>6, LockSets
  <2>2. /\ dpc \notin {"down", "open"} /\ dpc' \in {"update", "sigwait"}
        /\ UNCHANGED <<mode, name, objects, dshm, clientVars, spoilt, orphans, bounds>>
    BY <1>6 DEF DaemonLock, DaemonUnlock
  <2> QED
    BY <1>0, <2>1, <2>2, DaemonTyped DEF clientVars, bounds
<1>7. CASE Terminate \/ Kill
  <2>1. Exit /\ shm' \in [Object -> Struct]
    BY <1>7, ExitSets DEF Terminate, Kill
  <2>2. /\ name' \in {name, Unbound} /\ kills' \in 0 .. MaxKills
        /\ dpc' = "down" /\ dshm' = Unbound /\ orphans' \subseteq Object
        /\ UNCHANGED <<mode, objects, clientVars, spoilt, starts, calls, ticks>>
    BY <1>7, <2>1, LifecycleAssumption DEF Terminate, Kill, Exit, TypeInv, TypeOK
  <2>3. TypeOK'
    BY <2>1, <2>2 DEF TypeInv, TypeOK, Struct, Mutexes, clientVars, Object
  <2>4. Mapped'
    BY <2>2 DEF TypeInv, TypeOK, Mapped, clientVars, Unbound
  <2> QED
    BY <2>3, <2>4 DEF TypeInv
<1>8. ASSUME NEW c \in Client, Open(c) \/ Close(c) \/ ReadMethod(c) \/ ClientStep(c)
      PROVE  TypeInv'
  <2>1. shm' \in [Object -> Struct]
    BY <1>8, Quiet, LockSets DEF QuietStep, ClientStep
  <2>2. pc' \in [Client -> InCall \cup {"closed", "ready"}]
    BY <1>8 DEF TypeInv, TypeOK, InCall, Goto, Open, Close, ReadMethod, ClientStep,
                Lock, Ask, Wait, Unlock
  <2>3. cshm' \in [Client -> Object \cup {Unbound}]
    BY <1>8 DEF TypeInv, TypeOK, Open, Close, ReadMethod, ClientStep, Lock, Ask, Wait, Unlock
  <2>4. sync' \in [Client -> Method] /\ overrun' \in [Client -> BOOLEAN]
    <3>1. CASE ReadMethod(c)
      <4>1. cshm[c] \in Object /\ shm[cshm[c]].method \in Method
        BY <3>1, Uses DEF ReadMethod, Struct
      <4> QED
        BY <3>1, <4>1 DEF TypeInv, TypeOK, ReadMethod
    <3>2. CASE ~ReadMethod(c)
      BY <1>8, <3>2 DEF TypeInv, TypeOK, Open, Close, ClientStep, Lock, Ask, Wait, Unlock
    <3> QED
      BY <3>1, <3>2
  <2>5. spoilt' \subseteq Object /\ calls' \in 0 .. MaxCalls
    <3>1. CASE ReadMethod(c)
      <4>1. spoilt' \subseteq spoilt \cup {cshm[c]} /\ cshm[c] \in Object
        BY <3>1, Uses DEF ReadMethod
      <4> QED
        BY <3>1, <4>1, LifecycleAssumption DEF TypeInv, TypeOK, ReadMethod
    <3>2. CASE ~ReadMethod(c)
      BY <1>8, <3>2 DEF TypeInv, TypeOK, Open, Close, ClientStep, Lock, Ask, Wait, Unlock, bounds
    <3> QED
      BY <3>1, <3>2
  <2>6. UNCHANGED <<mode, name, objects, dpc, dshm, orphans, starts, kills, ticks>>
    BY <1>8 DEF Open, Close, ReadMethod, ClientStep, Lock, Ask, Wait, Unlock, daemonVars, bounds
  <2>7. TypeOK'
    BY <2>1, <2>2, <2>3, <2>4, <2>5, <2>6 DEF TypeInv, TypeOK, Struct, Mutexes, Object
  <2>8. ASSUME NEW d \in Client, pc'[d] # "closed" PROVE cshm'[d] \in Object
    <3>1. CASE Open(c)
      <4>1. name \in Object
        BY <3>1 DEF Open, TypeInv, TypeOK
      <4> QED
        BY <2>8, <3>1, <4>1, Uses DEF Open, Goto, TypeInv, TypeOK
    <3>2. CASE ~Open(c)
      BY <1>8, <2>8, <3>2, Uses DEF TypeInv, TypeOK, Goto, Close, ReadMethod, ClientStep,
                                    Lock, Ask, Wait, Unlock
    <3> QED
      BY <3>1, <3>2
  <2>9. Mapped'
    BY <2>6, <2>8 DEF TypeInv, Mapped, Object
  <2> QED
    BY <2>7, <2>9 DEF TypeInv
<1>9. CASE BootFails
  <2>1. shm' \in [Object -> Struct]
    BY <1>9, BootFailsSets
  <2>2. /\ dpc' = "down" /\ dshm' = Unbound /\ orphans' \subseteq Object
        /\ UNCHANGED <<mode, name, objects, clientVars, spoilt, bounds>>
    BY <1>9, Uses DEF BootFails, TypeInv, TypeOK
  <2>3. TypeOK'
    BY <2>1, <2>2 DEF TypeInv, TypeOK, Struct, Mutexes, clientVars, bounds, Object
  <2>4. Mapped'
    BY <2>2 DEF TypeInv, TypeOK, Mapped, clientVars, bounds, Unbound
  <2> QED
    BY <2>3, <2>4 DEF TypeInv
<1>10. CASE UNCHANGED vars
  BY <1>10 DEF vars, TypeInv, TypeOK, Mapped, Object
<1> QED
  BY <1>1, <1>2, <1>3, <1>4, <1>5, <1>6, <1>7, <1>8, <1>9, <1>10 DEF Next, DaemonStep, BootStep

-----------------------------------------------------------------------------
(* How often an object is initialised.                                     *)

LEMMA InitsStep == TypeInv /\ InitsInv /\ [Next]_vars => InitsInv'
<1> SUFFICES ASSUME TypeInv, InitsInv, [Next]_vars PROVE InitsInv'
  OBVIOUS
<1>0. /\ \A o \in Object : shm[o].inits \in Nat
      /\ kills \in Nat /\ objects \in Nat /\ starts \in Nat
      /\ Object \subseteq Nat
      /\ name \in Object \cup {Unbound}
  <2>1. shm \in [Object -> Struct]
    BY Typed
  <2> QED
    BY <2>1, LifecycleAssumption DEF TypeInv, TypeOK, Struct, Object
<1>1. ASSUME \A o \in Object : shm'[o].inits = shm[o].inits, name' = name, objects' = objects,
             kills' = kills, orphans' = orphans,
             dpc' \in {"down", "open", "truncate", "mutex"} =>
               dpc \in {"down", "open", "truncate", "mutex"},
             dpc' \in {"down", "open"} => dpc \in {"down", "open"}
      PROVE  InitsInv'
  BY <1>0, <1>1 DEF InitsInv, InitialisedOnce, Unbound
<1>2. CASE OpenShm
  <2>1. shm' = shm /\ kills' = kills /\ dpc' = "truncate" /\ dpc = "open"
    BY <1>2 DEF OpenShm, bounds
  <2>2. CASE name = Unbound
    <3>1. objects' = objects + 1 /\ name' = objects + 1
      BY <1>2, <2>2 DEF OpenShm
    <3>2. name' \in Object => shm[name'].inits = 0
      BY <1>0, <3>1 DEF InitsInv
    <3>3. name' \in Object
      BY <1>0, <2>1, <3>1, LifecycleAssumption DEF TypeInv, TypeOK, Mapped, Object
    <3>4. \A o \in Object : o > objects' => o > objects
      BY <1>0, <3>1, LifecycleAssumption DEF Object
    <3>5. shm'[name'].inits <= kills'
      BY <1>0, <2>1, <3>2, <3>3
    <3> QED
      BY <2>1, <3>4, <3>5 DEF InitsInv, InitialisedOnce
  <2>3. CASE name # Unbound
    <3>1. objects' = objects /\ name' = name
      BY <1>2, <2>3 DEF OpenShm
    <3> QED
      BY <1>0, <2>1, <2>3, <3>1 DEF InitsInv, InitialisedOnce
  <2> QED
    BY <2>2, <2>3
<1>3. CASE InitMutex
  <2>1. /\ dpc = "mutex" /\ dpc' = "method"
        /\ UNCHANGED <<name, objects, kills>>
    BY <1>3 DEF InitMutex, bounds
  <2>2. dshm = name /\ name # Unbound /\ name \in Object /\ name <= objects
    BY <1>0, <2>1 DEF TypeInv, Mapped
  <2>3. \A o \in Object :
          shm'[o].inits = IF o = dshm THEN shm[o].inits + 1 ELSE shm[o].inits
    BY <1>3, InitMutexSets
  <2>4. shm[name].inits <= kills
    BY <2>1, <2>2 DEF InitsInv
  <2>5. \A o \in Object : o > objects => shm'[o].inits = 0
    BY <1>0, <2>2, <2>3 DEF InitsInv
  <2>6. \A o \in Object : shm'[o].inits <= 1 + kills
    BY <1>0, <2>2, <2>3, <2>4 DEF InitsInv, InitialisedOnce
  <2> QED
    BY <2>1, <2>5, <2>6 DEF InitsInv, InitialisedOnce
<1>4. CASE Terminate \/ Kill
  <2>1. Exit /\ \A o \in Object : shm'[o].inits = shm[o].inits
    BY <1>4, ExitSets DEF Terminate, Kill
  <2>2. objects' = objects /\ dpc' = "down" /\ dpc # "down"
    BY <2>1 DEF Exit
  <2>3. CASE Terminate
    BY <1>0, <2>1, <2>2, <2>3 DEF Terminate, InitsInv, InitialisedOnce, Unbound
  <2>4. CASE Kill
    <3>1. kills' = kills + 1 /\ name' = name /\ orphans' = orphans \cup ({dshm} \ {Unbound})
      BY <2>4 DEF Kill
    <3>2. \A o \in Object : shm'[o].inits <= 1 + kills'
      BY <1>0, <2>1, <3>1 DEF InitsInv, InitialisedOnce
    <3>3. name' # Unbound => shm'[name'].inits <= kills'
      BY <1>0, <2>1, <3>1 DEF InitsInv, InitialisedOnce
    <3>4. name' # Unbound => name' \in orphans'
      BY <3>1 DEF InitsInv, TypeInv, Mapped
    <3> QED
      BY <1>0, <2>1, <2>2, <3>1, <3>2, <3>3, <3>4 DEF InitsInv, InitialisedOnce
  <2> QED
    BY <1>4, <2>3, <2>4
<1>5. CASE QuietStep /\ ~OpenShm
  <2>1. \A o \in Object : shm'[o].inits = shm[o].inits
    BY <1>5, Quiet DEF MutexesKept
  <2>2. /\ name' = name /\ objects' = objects /\ kills' = kills /\ orphans' = orphans
        /\ dpc' \in {"down", "open", "truncate", "mutex"} =>
             dpc \in {"down", "open", "truncate", "mutex"}
        /\ dpc' \in {"down", "open"} => dpc \in {"down", "open"}
    BY <1>5 DEF QuietStep, Start, Truncate, SetMethod, InitIn, InitOut, Serve, Answer, Alarm,
                Open, Close, ReadMethod, Ask, Wait, bounds, daemonVars
  <2> QED
    BY <1>1, <2>1, <2>2
<1>6. CASE DaemonLock \/ DaemonUnlock \/ \E c \in Client : Lock(c) \/ Unlock(c)
  <2>1. \A o \in Object : shm'[o].inits = shm[o].inits
    BY <1>6, LockSets DEF MutexSet
  <2>2. /\ name' = name /\ objects' = objects /\ kills' = kills /\ orphans' = orphans
        /\ dpc' = dpc \/ (dpc \in {"lock", "update"} /\ dpc' \in {"update", "sigwait"})
    BY <1>6 DEF DaemonLock, DaemonUnlock, Lock, Unlock, bounds, daemonVars
  <2> QED
    BY <1>1, <2>1, <2>2
<1>7. CASE BootFails
  <2>1. \A o \in Object : shm'[o].inits = shm[o].inits
    BY <1>7, BootFailsSets DEF MutexesKept
  <2>2. /\ name' = name /\ objects' = objects /\ kills' = kills
        /\ dpc \in {"open", "truncate"} /\ orphans \subseteq orphans'
        /\ dpc = "truncate" => dshm \in orphans'
    BY <1>7 DEF BootFails, bounds
  <2>3. name' # Unbound => name' \in orphans'
    BY <2>2 DEF InitsInv, TypeInv, Mapped
  <2> QED
    BY <1>0, <2>1, <2>2, <2>3 DEF InitsInv, InitialisedOnce
<1>8. CASE UNCHANGED vars
  BY <1>1, <1>8 DEF vars
<1> QED
  BY <1>2, <1>3, <1>4, <1>5, <1>6, <1>7, <1>8, Cases

-----------------------------------------------------------------------------
(* Who owns a mutex.                                                       *)

\* A client whose place, object and call stay what they were owns the mutex it
\* owned, unless that mutex was initialised.
LEMMA OwnerStep == TypeInv /\ OwnerInv /\ [Next]_vars => OwnerInv'
<1> SUFFICES ASSUME TypeInv, OwnerInv, [Next]_vars PROVE OwnerInv'
  OBVIOUS
<1> DEFINE Sound(m) == m.state \in {"ok", "ownerdead"}
           Owns(c) == Inside(c) /\ ~overrun[c] => shm[cshm[c]].mutex.owner = c
<1>0. /\ \A o \in Object : shm[o].mutex \in Mutexes /\ Sound(shm[o].mutex)
      /\ \A c \in Client : Inside(c) => cshm[c] \in Object
      /\ pc \in [Client -> InCall \cup {"closed", "ready"}]
      /\ cshm \in [Client -> Object \cup {Unbound}]
      /\ overrun \in [Client -> BOOLEAN]
      /\ NoOwner \notin Client \cup {Daemon} /\ Daemon \notin Client
  BY Uses, LifecycleAssumption DEF OwnerInv, TypeInv, TypeOK, Inside
<1>1. CASE QuietStep
  <2>1. \A o \in Object : shm'[o].mutex = shm[o].mutex
    BY <1>1, Quiet DEF MutexesKept
  <2>2. ASSUME NEW d \in Client, Inside(d)', ~overrun'[d]
        PROVE  Inside(d) /\ ~overrun[d] /\ cshm'[d] = cshm[d]
    <3>1. CASE \E c \in Client : Open(c) \/ Close(c) \/ ReadMethod(c)
      BY <1>0, <2>2, <3>1 DEF Open, Close, ReadMethod, Goto, Inside
    <3>2. CASE \E c \in Client : Ask(c) \/ Wait(c)
      <4>1. PICK c \in Client : Ask(c) \/ Wait(c)
        BY <3>2
      <4>2. /\ pc[c] \in {"ask", "wait"} /\ pc' = [pc EXCEPT ![c] = pc'[c]]
            /\ UNCHANGED <<cshm, overrun>>
        BY <1>0, <4>1 DEF Ask, Wait, Goto
      <4> QED
        BY <1>0, <2>2, <4>2 DEF Inside
    <3>3. CASE UNCHANGED clientVars
      BY <2>2, <3>3 DEF clientVars, Inside
    <3> QED
      BY <1>1, <3>1, <3>2, <3>3
         DEF QuietStep, Start, OpenShm, Truncate, SetMethod, InitIn, InitOut, Serve, Answer, Alarm
  <2> QED
    BY <1>0, <2>1, <2>2 DEF OwnerInv
<1>2. CASE InitMutex
  <2>1. /\ \A o \in Object :
             shm'[o].mutex = IF o = dshm THEN FreshMutex ELSE shm[o].mutex
        /\ overrun' = [c \in Client |-> overrun[c] \/ (pc[c] \in InCall /\ cshm[c] = dshm)]
        /\ UNCHANGED <<pc, cshm>>
    BY <1>2, InitMutexSets DEF InitMutex
  <2>2. \A o \in Object : Sound(shm'[o].mutex)
    BY <1>0, <2>1 DEF FreshMutex
  <2>3. ASSUME NEW d \in Client, Inside(d)', ~overrun'[d]
        PROVE  shm'[cshm'[d]].mutex.owner = d
    <3>1. Inside(d) /\ ~overrun[d] /\ cshm[d] # dshm
      BY <1>0, <2>1, <2>3 DEF Inside, InCall
    <3> QED
      BY <1>0, <2>1, <3>1 DEF OwnerInv
  <2> QED
    BY <2>2, <2>3 DEF OwnerInv
<1>3. CASE Terminate \/ Kill
  <2>1. Exit
    BY <1>3 DEF Terminate, Kill
  <2>2. UNCHANGED clientVars
    BY <2>1 DEF Exit
  <2>3. \A o \in Object :
          shm'[o].mutex = IF o = dshm THEN Abandoned(shm[o].mutex, Daemon) ELSE shm[o].mutex
    BY <2>1, ExitSets
  <2>4. \A m \in Mutexes : Sound(m) => Sound(Abandoned(m, Daemon))
    BY DEF Abandoned
  <2>5. \A m \in Mutexes : m.owner \in Client => Abandoned(m, Daemon) = m
    BY <1>0 DEF Abandoned
  <2> QED
    BY <1>0, <2>2, <2>3, <2>4, <2>5 DEF OwnerInv, clientVars, Inside
<1>4. ASSUME NEW o \in Object, NEW p \in Client \cup {Daemon}
      PROVE  LET m == MadeConsistent(Locked(shm[o].mutex, p)) IN Sound(m) /\ m.owner = p
  <2>1. shm[o].mutex \in Mutexes /\ Sound(shm[o].mutex)
    BY <1>0
  <2>2. \A m \in Mutexes : Sound(m) =>
          Locked(m, p) = [owner |-> p, state |-> IF m.state = "ok" THEN "ok" ELSE "inconsistent"]
    BY DEF Locked, LockResult
  <2>3. \A m \in {"ok", "inconsistent"} :
          MadeConsistent([owner |-> p, state |-> m]) = [owner |-> p, state |-> "ok"]
    BY DEF MadeConsistent
  <2>4. MadeConsistent(Locked(shm[o].mutex, p)) = [owner |-> p, state |-> "ok"]
    BY <2>1, <2>2, <2>3
  <2> QED
    BY <2>4
<1>5. ASSUME NEW o \in Object, NEW p \in Client \cup {Daemon}
      PROVE  LET m == Unlocked(shm[o].mutex, p)
             IN  Sound(m) /\ (shm[o].mutex.owner # p => m = shm[o].mutex)
  BY <1>0 DEF Unlocked
<1>6. CASE DaemonLock \/ DaemonUnlock
  <2>1. /\ UNCHANGED clientVars
        /\ dshm \in Object
        /\ \A o \in Object : o # dshm => shm'[o].mutex = shm[o].mutex
    BY <1>6, LockSets DEF DaemonLock, DaemonUnlock, MutexSet
  <2>2. Sound(shm'[dshm].mutex)
    BY <1>4, <1>5, <1>6, <2>1, LockSets DEF MutexSet
  <2>3. shm[dshm].mutex.owner \in Client => shm'[dshm].mutex = shm[dshm].mutex
    <3>1. CASE DaemonLock
      BY <1>0, <3>1 DEF DaemonLock, Lockable
    <3>2. CASE DaemonUnlock
      BY <1>0, <1>5, <2>1, <3>2, LockSets DEF MutexSet
    <3> QED
      BY <1>6, <3>1, <3>2
  <2> QED
    BY <1>0, <2>1, <2>2, <2>3 DEF OwnerInv, clientVars, Inside
<1>7. ASSUME NEW c \in Client, Lock(c) \/ Unlock(c) PROVE OwnerInv'
  <2>1. /\ cshm[c] \in Object
        /\ \A o \in Object : o # cshm[c] => shm'[o].mutex = shm[o].mutex
        /\ UNCHANGED <<cshm, overrun>>
        /\ \A d \in Client : d # c => pc'[d] = pc[d]
    BY <1>0, <1>7, LockSets DEF Lock, Unlock, MutexSet, Goto
  <2>2. Sound(shm'[cshm[c]].mutex)
    BY <1>4, <1>5, <1>7, <2>1, LockSets DEF MutexSet
  <2>3. ASSUME NEW d \in Client, d # c, shm[cshm[c]].mutex.owner = d
        PROVE  shm'[cshm[c]].mutex = shm[cshm[c]].mutex
    <3>1. CASE Lock(c)
      BY <1>0, <2>3, <3>1 DEF Lock, Lockable
    <3>2. CASE Unlock(c)
      BY <1>5, <2>1, <2>3, <3>2, LockSets DEF MutexSet
    <3> QED
      BY <1>7, <3>1, <3>2
  <2>4. Inside(c)' => shm'[cshm[c]].mutex.owner = c
    <3>1. CASE Lock(c)
      BY <1>4, <2>1, <3>1, LockSets DEF MutexSet
    <3>2. CASE Unlock(c)
      BY <1>0, <3>2 DEF Unlock, Goto, Inside
    <3> QED
      BY <1>7, <3>1, <3>2
  <2> QED
    BY <1>0, <2>1, <2>2, <2>3, <2>4 DEF OwnerInv, Inside
<1>8. CASE BootFails
  <2>1. UNCHANGED clientVars
    BY <1>8 DEF BootFails
  <2>2. \A o \in Object : shm'[o].mutex = shm[o].mutex
    BY <1>8, BootFailsSets DEF MutexesKept
  <2> QED
    BY <1>0, <2>1, <2>2 DEF OwnerInv, clientVars, Inside
<1>9. CASE UNCHANGED vars
  BY <1>9 DEF vars, OwnerInv, Inside
<1> QED
  BY <1>1, <1>2, <1>3, <1>6, <1>7, <1>8, <1>9, Cases

-----------------------------------------------------------------------------
LEMMA InitInv == Init => IInv
<1> SUFFICES ASSUME Init PROVE IInv
  OBVIOUS
<1>1. TypeInv
  BY InitTyped
<1>2. InitsInv
  BY LifecycleAssumption DEF Init, InitsInv, InitialisedOnce, Zeroed, Object
<1>3. OwnerInv
  BY DEF Init, OwnerInv, Zeroed, FreshMutex, Inside
<1> QED
  BY <1>1, <1>2, <1>3 DEF IInv

LEMMA StepInv == IInv /\ [Next]_vars => IInv'
BY TypeInductive, InitsStep, OwnerStep DEF IInv

LEMMA Invariance == Spec => []IInv
BY InitInv, StepInv, PTL DEF Spec

\* Every variable keeps its type: no semaphore is taken below zero, and nobody
\* uses an object that was not created.
THEOREM TypeCorrect == Spec => []TypeOK
<1>1. IInv => TypeOK
  BY DEF IInv, TypeInv
<1> QED
  BY <1>1, Invariance, PTL

\* However often the daemon is stopped and started, an object is initialised again
\* only after a kill, and once per kill: pthread_mutex_init and sem_init of main
\* never run under the clients of a daemon that ended in order.
THEOREM OncePerKill == Spec => []InitialisedOnce
<1>1. IInv => InitialisedOnce
  BY DEF IInv, InitsInv
<1> QED
  BY <1>1, Invariance, PTL

\* A client that opens the name finds the object of the daemon that runs, or what
\* a daemon left that was killed or failed in its boot, for any number of starts
\* and of such ends and whatever happened in between.
THEOREM NameIsServed == Spec => []NameMeansDaemon
<1>1. IInv => NameMeansDaemon
  BY DEF IInv, InitsInv, TypeInv, Mapped, NameMeansDaemon
<1> QED
  BY <1>1, Invariance, PTL

\* Two clients are inside one object only if a boot initialised its mutex in the
\* middle of the call of one of them, for any number of clients and restarts.
THEOREM MutualExclusion == Spec => []OneInside
<1>1. IInv => OneInside
  <2> SUFFICES ASSUME IInv, NEW c \in Client, NEW d \in Client,
                      c # d, Inside(c), Inside(d), cshm[c] = cshm[d]
               PROVE  overrun[c] \/ overrun[d]
    BY DEF OneInside
  <2> QED
    BY DEF IInv, OwnerInv
<1> QED
  BY <1>1, Invariance, PTL
=============================================================================
