-------------------------- MODULE AutoUpdateProofs --------------------------
(***************************************************************************)
(* Safety of the SYS_MON_SYNC_NONE protocol for every number of clients,   *)
(* of module lines, of calls, of deaths and of alarms: types, who owns the *)
(* mutex (the daemon included), and what the text holds while a client     *)
(* copies it.  From them follows that the protocol implements ReadService. *)
(***************************************************************************)
EXTENDS AutoUpdate, TLAPS

Mutexes == [owner : Client \cup {Daemon, NoOwner}, state : MutexState]

\* strncpy stays inside the text.
CopyInside ==
  \A c \in Client : pc[c] \notin {"idle", "unlock"} => copied[c] \in Line

TypeInv == TypeOK /\ CopyInside

\* Whoever is at "recover" owns the mutex, and exactly then it is inconsistent.
MutexHealthy ==
  /\ NeverUnrecoverable
  /\ mutex.state = "ownerdead" => mutex.owner = NoOwner
  /\ mutex.state = "inconsistent" => mutex.owner # NoOwner
  /\ \A c \in Client : pc[c] = "recover" <=>
       mutex.owner = c /\ mutex.state = "inconsistent"
  /\ dpc = "recover" <=> mutex.owner = Daemon /\ mutex.state = "inconsistent"

OwnerInv == OwnerInSection /\ MutexHealthy

\* The lines before line are those of the last update; a daemon that is neither
\* in update() nor stopped has written them all.
TextInv ==
  /\ \A l \in Line : round = 0 \/ l < line => data[l] = round
  /\ dpc \notin {"update", "stopped"} => ~HalfWritten
  /\ dpc = "update" => round > 0

\* A client in the section, unless it took the mutex over a half-written text,
\* copies a text that is whole.
CallInv(c) ==
  /\ asked[c] <= Completed
  /\ pc[c] \in {"lock", "recover"} => seen[c] = {}
  /\ pc[c] \in Section /\ whole[c] => ~HalfWritten /\ seen[c] \subseteq {round}

TextAndCalls == TextInv /\ \A c \in Client : CallInv(c)

IInv == TypeInv /\ OwnerInv /\ TextAndCalls

-----------------------------------------------------------------------------
(* Types.                                                                  *)

LEMMA MutexTypes ==
  ASSUME NEW m \in Mutexes, NEW p \in Client \cup {Daemon}
  PROVE  /\ Locked(m, p) \in Mutexes
         /\ MadeConsistent(m) \in Mutexes
         /\ Unlocked(m, p) \in Mutexes
         /\ Abandoned(m, p) \in Mutexes
BY DEF Mutexes, MutexState, Locked, LockResult, MadeConsistent, Unlocked, Abandoned

LEMMA InitTyped == Init => TypeInv
<1> SUFFICES ASSUME Init PROVE TypeInv
  OBVIOUS
<1>1. SharedTypeOK /\ CopyInside
  BY ConstantsAssumption
     DEF Init, SharedInit, SharedTypeOK, CopyInside, FreshMutex, MutexState, Line
<1>2. /\ pc \in [Client -> {"idle", "lock"} \cup Section]
      /\ dpc \in {"sigwait", "lock", "stopped"} \cup DaemonSection
      /\ whole \in [Client -> BOOLEAN]
  BY DEF Init, SharedInit
<1>3. alarm \in BOOLEAN
  BY DEF Init
<1>4. ticks \in 0 .. MaxTicks
  BY TicksAssumption DEF Init
<1> QED
  BY <1>1, <1>2, <1>3, <1>4 DEF TypeInv, TypeOK

LEMMA TypeInductive == TypeInv /\ [Next]_vars => TypeInv'
<1> SUFFICES ASSUME TypeInv, [Next]_vars PROVE TypeInv'
  OBVIOUS
<1> USE ConstantsAssumption, TicksAssumption
    DEF TypeInv, TypeOK, CopyInside, SharedTypeOK, Section, DaemonSection, Line, Mutexes
<1>1. ASSUME NEW c \in Client, Call(c) PROVE TypeInv'
  <2>1. Completed \in Nat
    BY DEF Completed, HalfWritten
  <2> QED
    BY <1>1, <2>1 DEF Call, EnterCall, Goto, autoVars
<1>2. ASSUME NEW c \in Client, Lock(c) PROVE TypeInv'
  <2>1. mutex' \in Mutexes
    BY <1>2, MutexTypes DEF Lock, LockMutex
  <2>2. whole' \in [Client -> BOOLEAN]
    BY <1>2 DEF Lock
  <2>3. AfterLock(mutex, "copy") \in {"copy", "recover", "idle"}
    BY DEF AfterLock
  <2> QED
    BY <1>2, <2>1, <2>2, <2>3 DEF Lock, LockMutex, Goto, timerVars, updateVars, clientVars
<1>3. ASSUME NEW c \in Client, Recover(c) PROVE TypeInv'
  BY <1>3, MutexTypes DEF Recover, RecoverMutex, Goto, autoVars, updateVars, clientVars
<1>4. ASSUME NEW c \in Client, Copy(c) PROVE TypeInv'
  <2>1. copied[c] \in Line /\ data[copied[c]] \in Nat
    BY <1>4 DEF Copy, CopyLine
  <2>2. seen' \in [Client -> SUBSET Nat]
    BY <1>4, <2>1 DEF Copy, CopyLine
  <2>3. pc' \in [Client -> {"idle", "lock"} \cup Section]
    BY <1>4 DEF Copy, CopyLine, Goto
  <2>4. copied' \in [Client -> 1 .. ModulesN + 1] /\ CopyInside'
    BY <1>4, <2>1 DEF Copy, CopyLine, Goto
  <2> QED
    BY <1>4, <2>2, <2>3, <2>4 DEF Copy, CopyLine, autoVars, updateVars
<1>5. ASSUME NEW c \in Client, Unlock(c) PROVE TypeInv'
  BY <1>5, MutexTypes DEF Unlock, UnlockMutex, Goto, autoVars, updateVars, clientVars
<1>6. ASSUME NEW c \in Client, Die(c) PROVE TypeInv'
  <2>1. mutex' \in Mutexes
    BY <1>6, MutexTypes DEF Die, ClientDies
  <2>2. deaths' \in 0 .. MaxDeaths
    BY <1>6 DEF Die, ClientDies
  <2>3. CopyInside' /\ copied' \in [Client -> 1 .. ModulesN + 1]
    BY <1>6 DEF Die, ClientDies, Goto
  <2> QED
    BY <1>6, <2>1, <2>2, <2>3 DEF Die, ClientDies, Goto, autoVars, updateVars
<1>7. CASE Tick
  <2>1. ticks' \in 0 .. MaxTicks /\ alarm' \in BOOLEAN
    BY <1>7 DEF Tick
  <2>2. UNCHANGED <<mutex, dpc, updateVars, pc, clientVars, whole>>
    BY <1>7 DEF Tick
  <2> QED
    BY <2>1, <2>2 DEF updateVars, clientVars
<1>8. CASE SigWait \/ DaemonLock \/ DaemonRecover \/ DaemonUnlock \/ Stop \/ EndUpdate
  <2>a. mutex \in Mutexes
    OBVIOUS
  <2>b. /\ Locked(mutex, Daemon) \in Mutexes /\ MadeConsistent(mutex) \in Mutexes
        /\ Unlocked(mutex, Daemon) \in Mutexes /\ Abandoned(mutex, Daemon) \in Mutexes
    BY <2>a, MutexTypes
  <2>1. mutex' \in Mutexes
    BY <1>8, <2>a, <2>b
       DEF SigWait, DaemonLock, DaemonRecover, DaemonUnlock, Stop, EndUpdate
  <2>2. dpc' \in {"sigwait", "lock", "stopped"} \cup DaemonSection
    BY <1>8 DEF SigWait, DaemonLock, DaemonRecover, DaemonUnlock, Stop, EndUpdate
  <2>3. alarm' \in BOOLEAN
    BY <1>8 DEF SigWait, DaemonLock, DaemonRecover, DaemonUnlock, Stop, EndUpdate, autoVars
  <2>4. UNCHANGED <<updateVars, pc, clientVars, ticks, whole>>
    BY <1>8 DEF SigWait, DaemonLock, DaemonRecover, DaemonUnlock, Stop, EndUpdate, autoVars
  <2> QED
    BY <2>1, <2>2, <2>3, <2>4 DEF updateVars, clientVars
<1>9. CASE StartUpdate \/ UpdateLine
  <2>1. dpc' = "update" /\ UNCHANGED <<mutex, pc, clientVars, autoVars>>
    BY <1>9 DEF StartUpdate, UpdateLine, WriteLine
  <2>2. data' \in [Line -> Nat] /\ round' \in Nat
    BY <1>9 DEF StartUpdate, BeginUpdate, UpdateLine, WriteLine
  <2>3. line' \in 1 .. ModulesN + 1
    BY <1>9 DEF StartUpdate, BeginUpdate, UpdateLine, WriteLine
  <2> QED
    BY <2>1, <2>2, <2>3 DEF autoVars, clientVars
<1>10. CASE UNCHANGED vars
  BY <1>10 DEF vars
<1> QED
  BY <1>1, <1>2, <1>3, <1>4, <1>5, <1>6, <1>7, <1>8, <1>9, <1>10
     DEF Next, ClientStep, DaemonStep

\* Every variable keeps its type: no line is written or copied outside the text.
THEOREM TypeCorrect == Spec => []TypeOK
BY InitTyped, TypeInductive, PTL DEF Spec, TypeInv

-----------------------------------------------------------------------------
(* Ownership.                                                              *)

LEMMA InitOwner == Init => OwnerInv
BY ConstantsAssumption
   DEF Init, SharedInit, FreshMutex, OwnerInv, OwnerInSection, MutexHealthy,
       NeverUnrecoverable, Section, DaemonSection

LEMMA OwnerInductive == TypeInv /\ OwnerInv /\ [Next]_vars => OwnerInv'
<1> SUFFICES ASSUME TypeInv, OwnerInv, [Next]_vars PROVE OwnerInv'
  OBVIOUS
<1> USE ConstantsAssumption
    DEF TypeInv, TypeOK, SharedTypeOK, MutexState, OwnerInv, OwnerInSection, MutexHealthy,
        NeverUnrecoverable, Section, DaemonSection
<1>1. ASSUME NEW c \in Client, Call(c) \/ Copy(c) PROVE OwnerInv'
  BY <1>1 DEF Call, EnterCall, Copy, CopyLine, Goto, updateVars
<1>2. ASSUME NEW c \in Client, Lock(c) PROVE OwnerInv'
  <2>1. /\ pc[c] = "lock" /\ mutex.owner = NoOwner /\ dpc' = dpc
        /\ mutex' = Locked(mutex, c)
        /\ pc' = [pc EXCEPT ![c] = AfterLock(mutex, "copy")]
    BY <1>2 DEF Lock, LockMutex, Goto, Lockable
  <2>2. mutex.state \in {"ok", "ownerdead"}
    BY <2>1
  <2>3. CASE mutex.state = "ok"
    BY <2>1, <2>3 DEF Locked, LockResult, AfterLock
  <2>4. CASE mutex.state = "ownerdead"
    BY <2>1, <2>4 DEF Locked, LockResult, AfterLock
  <2> QED
    BY <2>2, <2>3, <2>4
<1>3. ASSUME NEW c \in Client, Recover(c) PROVE OwnerInv'
  BY <1>3 DEF Recover, RecoverMutex, Goto, MadeConsistent
<1>4. ASSUME NEW c \in Client, Unlock(c) PROVE OwnerInv'
  BY <1>4 DEF Unlock, UnlockMutex, Goto, Unlocked
<1>5. ASSUME NEW c \in Client, Die(c) PROVE OwnerInv'
  <2>1. pc' = [pc EXCEPT ![c] = "idle"] /\ mutex' = Abandoned(mutex, c) /\ dpc' = dpc
    BY <1>5 DEF Die, ClientDies, Goto
  <2>2. CASE mutex.owner = c
    BY <2>1, <2>2 DEF Abandoned
  <2>3. CASE mutex.owner # c
    BY <2>1, <2>3 DEF Abandoned
  <2> QED
    BY <2>2, <2>3
<1>6. CASE DaemonLock
  <2>1. /\ dpc = "lock" /\ mutex.owner = NoOwner /\ pc' = pc
        /\ mutex' = Locked(mutex, Daemon)
        /\ dpc' = IF LockResult(mutex) = "EOWNERDEAD" THEN "recover" ELSE "begin"
    BY <1>6 DEF DaemonLock, Lockable
  <2>2. mutex.state \in {"ok", "ownerdead"}
    BY <2>1
  <2>3. CASE mutex.state = "ok"
    BY <2>1, <2>3 DEF Locked, LockResult
  <2>4. CASE mutex.state = "ownerdead"
    BY <2>1, <2>4 DEF Locked, LockResult
  <2> QED
    BY <2>2, <2>3, <2>4
<1>7. CASE DaemonRecover
  BY <1>7 DEF DaemonRecover, MadeConsistent
<1>8. CASE DaemonUnlock
  BY <1>8 DEF DaemonUnlock, Unlocked
<1>9. CASE Stop
  <2>1. dpc # "stopped" /\ dpc' = "stopped" /\ pc' = pc /\ mutex' = Abandoned(mutex, Daemon)
    BY <1>9 DEF Stop
  <2>2. CASE mutex.owner = Daemon
    BY <2>1, <2>2 DEF Abandoned
  <2>3. CASE mutex.owner # Daemon
    BY <2>1, <2>3 DEF Abandoned
  <2> QED
    BY <2>2, <2>3
<1>10. CASE Tick \/ SigWait \/ StartUpdate \/ UpdateLine \/ EndUpdate \/ UNCHANGED vars
  BY <1>10 DEF Tick, SigWait, StartUpdate, UpdateLine, WriteLine, EndUpdate, vars
<1> QED
  BY <1>1, <1>2, <1>3, <1>4, <1>5, <1>6, <1>7, <1>8, <1>9, <1>10
     DEF Next, ClientStep, DaemonStep

LEMMA OwnerAlways == Spec => [](TypeInv /\ OwnerInv)
<1>1. Init => TypeInv /\ OwnerInv
  BY InitTyped, InitOwner
<1>2. TypeInv /\ OwnerInv /\ [Next]_vars => (TypeInv /\ OwnerInv)'
  BY TypeInductive, OwnerInductive
<1> QED
  BY <1>1, <1>2, PTL DEF Spec

\* Whoever is between lock and unlock owns the mutex, the daemon included, and the
\* mutex is never lost, although the daemon ignores the result of its lock.
THEOREM MutexSurvives == Spec => []MutexSound
<1>1. OwnerInv => MutexSound
  BY DEF OwnerInv, MutexHealthy, MutexSound
<1> QED
  BY <1>1, OwnerAlways, PTL

-----------------------------------------------------------------------------
(* The text a call returns.                                                *)

LEMMA InitText == Init => TextAndCalls
BY ConstantsAssumption
   DEF Init, SharedInit, TextAndCalls, TextInv, CallInv, HalfWritten, Completed, Section

\* No client copies while the daemon owns the mutex.
LEMMA NobodyCopies ==
  ASSUME OwnerInv, dpc \in DaemonSection
  PROVE  \A c \in Client : pc[c] \notin Section
BY ConstantsAssumption DEF OwnerInv, OwnerInSection

\* Steps that leave the text alone, and what c does to the calls of the others.
LEMMA SameText ==
  ASSUME UNCHANGED <<data, line, round>>
  PROVE  /\ HalfWritten' = HalfWritten /\ Completed' = Completed
         /\ \A d \in Client :
              CallInv(d) /\ pc'[d] = pc[d] /\ seen'[d] = seen[d]
                /\ asked'[d] = asked[d] /\ whole'[d] = whole[d]
              => CallInv(d)'
BY DEF HalfWritten, Completed, CallInv

LEMMA TextInductive ==
  TypeInv /\ OwnerInv /\ TextAndCalls /\ [Next]_vars => TextAndCalls'
<1> SUFFICES ASSUME TypeInv, OwnerInv, TextAndCalls, [Next]_vars PROVE TextAndCalls'
  OBVIOUS
<1>a. /\ pc \in [Client -> {"idle", "lock"} \cup Section] /\ whole \in [Client -> BOOLEAN]
      /\ seen \in [Client -> SUBSET Nat] /\ asked \in [Client -> Nat]
      /\ data \in [Line -> Nat] /\ round \in Nat /\ line \in 1 .. ModulesN + 1
      /\ dpc \in {"sigwait", "lock", "stopped"} \cup DaemonSection
  BY DEF TypeInv, TypeOK, SharedTypeOK
<1>b. TextInv /\ \A c \in Client : CallInv(c)
  BY DEF TextAndCalls
<1>c. Completed \in Nat /\ Completed <= round /\ (~HalfWritten => Completed = round)
  BY <1>a DEF Completed, HalfWritten
<1>d. ASSUME UNCHANGED <<dpc, data, line, round>> PROVE TextInv'
  BY <1>b, <1>d DEF TextInv, HalfWritten
<1>1. ASSUME NEW c \in Client, Call(c) PROVE TextAndCalls'
  <2>1. /\ pc' = [pc EXCEPT ![c] = "lock"] /\ seen' = [seen EXCEPT ![c] = {}]
        /\ asked' = [asked EXCEPT ![c] = Completed]
        /\ UNCHANGED <<dpc, data, line, round, whole>>
    BY <1>1 DEF Call, EnterCall, Goto, autoVars
  <2>2. CallInv(c)'
    BY <2>1, <1>a, <1>c, SameText DEF CallInv, Section
  <2>3. ASSUME NEW d \in Client, d # c PROVE CallInv(d)'
    BY <2>1, <2>3, <1>a, <1>b, SameText
  <2> QED
    BY <2>1, <1>d, <2>2, <2>3 DEF TextAndCalls
<1>2. ASSUME NEW c \in Client, Lock(c) PROVE TextAndCalls'
  <2>1. /\ pc[c] = "lock" /\ mutex.owner = NoOwner
        /\ pc' = [pc EXCEPT ![c] = AfterLock(mutex, "copy")]
        /\ whole' = [whole EXCEPT ![c] = ~StoppedHalfWay]
        /\ UNCHANGED <<dpc, data, line, round, seen, asked>>
    BY <1>2 DEF Lock, LockMutex, Goto, Lockable, updateVars, clientVars
  <2>2. dpc \in {"sigwait", "lock", "stopped"}
    BY <2>1, <1>a, ConstantsAssumption DEF OwnerInv, OwnerInSection
  <2>3. whole'[c] => ~HalfWritten
    BY <2>1, <2>2, <1>a, <1>b DEF TextInv, StoppedHalfWay
  <2>4. seen[c] = {} /\ asked[c] <= Completed
    BY <2>1, <1>b DEF CallInv
  <2>5. CallInv(c)'
    BY <2>1, <2>3, <2>4, <1>a, SameText DEF CallInv
  <2>6. ASSUME NEW d \in Client, d # c PROVE CallInv(d)'
    BY <2>1, <2>6, <1>a, <1>b, SameText
  <2> QED
    BY <2>1, <1>d, <2>5, <2>6 DEF TextAndCalls
<1>3. ASSUME NEW c \in Client, Recover(c) PROVE TextAndCalls'
  <2>1. /\ pc[c] = "recover" /\ pc' = [pc EXCEPT ![c] = "copy"]
        /\ UNCHANGED <<dpc, data, line, round, seen, asked, whole>>
    BY <1>3 DEF Recover, RecoverMutex, Goto, autoVars, updateVars, clientVars
  <2>2. CallInv(c)'
    BY <2>1, <1>a, <1>b, SameText DEF CallInv, Section
  <2>3. ASSUME NEW d \in Client, d # c PROVE CallInv(d)'
    BY <2>1, <2>3, <1>a, <1>b, SameText
  <2> QED
    BY <2>1, <1>d, <2>2, <2>3 DEF TextAndCalls
<1>4. ASSUME NEW c \in Client, Copy(c) PROVE TextAndCalls'
  <2>1. /\ pc[c] = "copy" /\ pc'[c] \in {"copy", "unlock"}
        /\ \A d \in Client : d # c => pc'[d] = pc[d]
        /\ seen' = [seen EXCEPT ![c] = @ \cup {data[copied[c]]}]
        /\ UNCHANGED <<dpc, data, line, round, asked, whole>>
    BY <1>4, <1>a DEF Copy, CopyLine, Goto, autoVars, updateVars
  <2>2. copied[c] \in Line
    BY <2>1 DEF TypeInv, CopyInside
  <2>3. whole[c] => ~HalfWritten /\ seen[c] \subseteq {round}
    BY <2>1, <1>b DEF CallInv, Section
  <2>4. ~HalfWritten => data[copied[c]] = round
    BY <2>2, <1>a, <1>b, ConstantsAssumption DEF TextInv, HalfWritten, Line
  <2>5. CallInv(c)'
    BY <2>1, <2>3, <2>4, <1>a, <1>b, SameText DEF CallInv
  <2>6. ASSUME NEW d \in Client, d # c PROVE CallInv(d)'
    BY <2>1, <2>6, <1>a, <1>b, SameText
  <2> QED
    BY <2>1, <1>d, <2>5, <2>6 DEF TextAndCalls
<1>5. ASSUME NEW c \in Client, Unlock(c) \/ Die(c) PROVE TextAndCalls'
  <2>1. /\ pc' = [pc EXCEPT ![c] = "idle"]
        /\ \A d \in Client : d # c => seen'[d] = seen[d]
        /\ UNCHANGED <<dpc, data, line, round, asked, whole>>
    BY <1>5, <1>a DEF Unlock, UnlockMutex, Die, ClientDies, Goto, autoVars, updateVars, clientVars
  <2>2. CallInv(c)'
    BY <2>1, <1>a, <1>b, SameText DEF CallInv, Section
  <2>3. ASSUME NEW d \in Client, d # c PROVE CallInv(d)'
    BY <2>1, <2>3, <1>a, <1>b, SameText
  <2> QED
    BY <2>1, <1>d, <2>2, <2>3 DEF TextAndCalls
<1>6. CASE Tick \/ SigWait \/ DaemonLock \/ DaemonRecover \/ DaemonUnlock \/ Stop
  <2>1. /\ UNCHANGED <<data, line, round, pc, seen, asked, whole>>
        /\ dpc' = dpc \/ dpc' = "stopped" \/ (dpc \notin {"update", "stopped"} /\ dpc' # "update")
    BY <1>6 DEF Tick, SigWait, DaemonLock, DaemonRecover, DaemonUnlock, Stop, autoVars,
                updateVars, clientVars
  <2>2. TextInv'
    BY <2>1, <1>b DEF TextInv, HalfWritten
  <2> QED
    BY <2>1, <2>2, <1>b, SameText DEF TextAndCalls
<1>7. CASE StartUpdate
  <2>1. /\ dpc = "begin" /\ dpc' = "update" /\ round' = round + 1 /\ line' = 1
        /\ UNCHANGED <<data, pc, seen, asked, whole>>
    BY <1>7 DEF StartUpdate, BeginUpdate, autoVars, clientVars
  <2>2. TextInv'
    BY <2>1, <1>a, ConstantsAssumption DEF TextInv, Line
  <2>3. Completed' = Completed
    BY <2>1, <1>a, <1>b, <1>c, ConstantsAssumption DEF TextInv, Completed, HalfWritten, Line
  <2>4. \A c \in Client : CallInv(c)'
    BY <2>1, <2>3, <1>b, NobodyCopies DEF CallInv, DaemonSection
  <2> QED
    BY <2>2, <2>4 DEF TextAndCalls
<1>8. CASE UpdateLine
  <2>1. /\ dpc = "update" /\ dpc' = "update" /\ line \in Line /\ line' = line + 1
        /\ data' = [data EXCEPT ![line] = round]
        /\ UNCHANGED <<round, pc, seen, asked, whole>>
    BY <1>8 DEF UpdateLine, WriteLine, autoVars, clientVars
  <2>2. TextInv'
    BY <2>1, <1>a, <1>b, ConstantsAssumption DEF TextInv, Line
  <2>3. Completed' \in Nat /\ Completed <= Completed'
    BY <2>1, <1>a, ConstantsAssumption DEF Completed, HalfWritten, Line
  <2>4. ASSUME NEW c \in Client PROVE CallInv(c)'
    <3>1. pc[c] \notin Section /\ CallInv(c)
      BY <2>1, <1>b, NobodyCopies DEF DaemonSection
    <3>2. asked[c] <= Completed'
      BY <3>1, <2>3, <1>a, <1>c DEF CallInv
    <3> QED
      BY <2>1, <3>1, <3>2 DEF CallInv
  <2> QED
    BY <2>2, <2>4 DEF TextAndCalls
<1>9. CASE EndUpdate
  <2>1. /\ dpc = "update" /\ dpc' = "unlock" /\ line = ModulesN + 1
        /\ UNCHANGED <<data, line, round, pc, seen, asked, whole>>
    BY <1>9 DEF EndUpdate, autoVars, updateVars, clientVars
  <2>2. TextInv'
    BY <2>1, <1>b, ConstantsAssumption DEF TextInv, HalfWritten, Line
  <2> QED
    BY <2>1, <2>2, <1>b, SameText DEF TextAndCalls
<1>10. CASE UNCHANGED vars
  BY <1>10, <1>b, <1>d, SameText DEF vars, TextAndCalls
<1> QED
  BY <1>1, <1>2, <1>3, <1>4, <1>5, <1>6, <1>7, <1>8, <1>9, <1>10
     DEF Next, ClientStep, DaemonStep

LEMMA InvAlways == Spec => []IInv
<1>1. Init => IInv
  BY InitTyped, InitOwner, InitText DEF IInv
<1>2. IInv /\ [Next]_vars => IInv'
  BY TypeInductive, OwnerInductive, TextInductive DEF IInv
<1> QED
  BY <1>1, <1>2, PTL DEF Spec

\* A call returns lines of one update, not older than the last one complete when
\* it began, unless it took the mutex over a text left half-written.
THEOREM IntactReplies == Spec => []IntactReply
<1>1. IInv => IntactReply
  <2> SUFFICES ASSUME IInv, NEW c \in Client, pc[c] = "unlock", whole[c]
               PROVE  Intact(c) /\ \A v \in seen[c] : v >= asked[c]
    BY DEF IntactReply
  <2>1. CallInv(c) /\ round \in Nat /\ asked \in [Client -> Nat]
    BY DEF IInv, TextAndCalls, TypeInv, TypeOK, SharedTypeOK
  <2>2. seen[c] \subseteq {round} /\ asked[c] <= round
    BY <2>1 DEF CallInv, Section, Completed
  <2> QED
    BY <2>1, <2>2 DEF Intact
<1> QED
  BY <1>1, InvAlways, PTL

-----------------------------------------------------------------------------
(* The calls implement the service that is not strict.                     *)

LEMMA ReturnedFacts ==
  /\ \A place, lines : place # "idle" \/ lines = {} => Returned(place, lines) = 0
  /\ \A v : Returned("idle", {v}) = v
<1>1. ASSUME NEW v PROVE Returned("idle", {v}) = v
  <2>1. (CHOOSE u \in {v} : TRUE) \in {v}
    OBVIOUS
  <2>2. Returned("idle", {v}) = CHOOSE u \in {v} : TRUE
    BY DEF Returned
  <2> QED
    BY <2>1, <2>2
<1>2. ASSUME NEW place, NEW lines, place # "idle" \/ lines = {}
      PROVE  Returned(place, lines) = 0
  BY <1>2 DEF Returned
<1> QED
  BY <1>1, <1>2

\* What the service sees of the state.
Active == {c \in Client : pc[c] # "idle"}
Replies == [c \in Client |-> IF whole[c] THEN Reply(c) ELSE 0]

LEMMA ServiceInit == Init => Service!Init
<1> SUFFICES ASSUME Init PROVE Service!Init
  OBVIOUS
<1>1. Completed = 0 /\ asked = [c \in Client |-> 0] /\ Active = {}
  BY DEF Init, SharedInit, Active, Completed, HalfWritten
<1>2. \A c \in Client : Reply(c) = 0
  BY ReturnedFacts DEF Init, SharedInit, Reply
<1>3. Replies = [c \in Client |-> 0]
  BY <1>2 DEF Replies
<1> QED
  BY <1>1, <1>3 DEF Service!Init, Active, Replies

\* A step in a call of c changes nothing the service sees.
LEMMA InsideCall ==
  ASSUME NEW c \in Client, pc[c] # "idle", pc'[c] # "idle",
         \A d \in Client : d # c => pc'[d] = pc[d] /\ seen'[d] = seen[d] /\ whole'[d] = whole[d],
         UNCHANGED <<line, round, asked>>
  PROVE  UNCHANGED Service!vars
<1>1. Active' = Active /\ Completed' = Completed
  BY DEF Active, Completed, HalfWritten
<1>2. Reply(c) = 0 /\ Reply(c)' = 0
  BY ReturnedFacts DEF Reply
<1>3. \A d \in Client : d # c => Reply(d)' = Reply(d)
  BY DEF Reply
<1>4. Replies' = Replies
  BY <1>2, <1>3 DEF Replies
<1> QED
  BY <1>1, <1>4 DEF Service!vars, Active, Replies

\* A step of the daemon that leaves the clients alone changes at most the version.
LEMMA DaemonOnly ==
  ASSUME UNCHANGED <<pc, seen, asked, whole>>
  PROVE  Active' = Active /\ Replies' = Replies
BY DEF Active, Replies, Reply

\* The end of a call of c: it returns, or the service sees it aborted.
LEMMA EndOfCall ==
  ASSUME NEW c \in Client, pc[c] # "idle", pc'[c] = "idle",
         \A d \in Client : d # c => pc'[d] = pc[d] /\ seen'[d] = seen[d],
         UNCHANGED <<line, round, asked, whole>>, Completed \in Nat,
         whole[c] => seen'[c] = {} \/ (seen'[c] = {Completed} /\ Completed >= asked[c]),
         asked[c] \in Nat
  PROVE  Service!Return(c) \/ Service!Abort(c)
<1>1. c \in Active /\ Active' = Active \ {c} /\ Completed' = Completed
  BY DEF Active, Completed, HalfWritten
<1>2. Reply(c) = 0
  BY ReturnedFacts DEF Reply
<1>3. \A d \in Client : d # c => Reply(d)' = Reply(d)
  BY DEF Reply
<1>4. CASE whole[c] /\ seen'[c] = {Completed} /\ Completed >= asked[c]
  <2>1. Reply(c)' = Completed
    BY <1>4, ReturnedFacts DEF Reply
  <2>2. Replies' = [Replies EXCEPT ![c] = Completed]
    BY <1>3, <1>4, <2>1 DEF Replies
  <2>3. Completed \in 0 .. Completed /\ Service!RecentEnough(c, Completed)
    BY <1>4 DEF Service!RecentEnough
  <2>4. Service!Return(c)
    BY <1>1, <2>2, <2>3 DEF Service!Return, Active, Replies
  <2> QED
    BY <2>4
<1>5. CASE ~(whole[c] /\ seen'[c] = {Completed} /\ Completed >= asked[c])
  <2>1. whole[c] => Reply(c)' = 0
    BY <1>5, ReturnedFacts DEF Reply
  <2>2. Replies' = Replies
    BY <1>2, <1>3, <2>1 DEF Replies
  <2>3. Service!Abort(c)
    BY <1>1, <2>2 DEF Service!Abort, Active, Replies
  <2> QED
    BY <2>3
<1> QED
  BY <1>4, <1>5

LEMMA ServiceStep == IInv /\ [Next]_vars => [Service!Next]_(Service!vars)
<1> SUFFICES ASSUME IInv, [Next]_vars PROVE [Service!Next]_(Service!vars)
  OBVIOUS
<1>0. /\ pc \in [Client -> {"idle", "lock"} \cup Section]
      /\ seen \in [Client -> SUBSET Nat] /\ whole \in [Client -> BOOLEAN]
      /\ round \in Nat /\ line \in 1 .. ModulesN + 1 /\ asked \in [Client -> Nat]
      /\ NeverUnrecoverable /\ mutex.state \in MutexState
      /\ TextInv /\ \A c \in Client : CallInv(c)
  BY DEF IInv, TypeInv, TypeOK, SharedTypeOK, OwnerInv, MutexHealthy, TextAndCalls
<1>a. Completed \in Nat /\ (~HalfWritten => Completed = round)
  BY <1>0 DEF Completed, HalfWritten
<1>1. ASSUME NEW c \in Client, Call(c) PROVE Service!Call(c)
  <2>1. /\ pc[c] = "idle" /\ pc' = [pc EXCEPT ![c] = "lock"] /\ seen' = [seen EXCEPT ![c] = {}]
        /\ asked' = [asked EXCEPT ![c] = Completed] /\ UNCHANGED <<line, round, whole>>
    BY <1>1 DEF Call, EnterCall, Goto, autoVars
  <2>2. c \notin Active /\ Active' = Active \cup {c} /\ Completed' = Completed
    BY <2>1, <1>0 DEF Active, Completed, HalfWritten
  <2>3. Reply(c)' = 0 /\ \A d \in Client : d # c => Reply(d)' = Reply(d)
    BY <2>1, <1>0, ReturnedFacts DEF Reply
  <2>4. Replies' = [Replies EXCEPT ![c] = 0]
    BY <2>1, <2>3 DEF Replies
  <2> QED
    BY <2>1, <2>2, <2>4 DEF Service!Call, Active, Replies
<1>2. ASSUME NEW c \in Client, Lock(c) \/ Recover(c) \/ Copy(c)
      PROVE  UNCHANGED Service!vars
  <2>1. /\ pc[c] # "idle"
        /\ pc'[c] # "idle"
        /\ \A d \in Client : d # c => pc'[d] = pc[d]
    <3>1. CASE Lock(c)
      <4>1. pc' = [pc EXCEPT ![c] = AfterLock(mutex, "copy")] /\ mutex.owner = NoOwner
        BY <3>1 DEF Lock, LockMutex, Lockable, Goto
      <4>2. mutex.state \in {"ok", "ownerdead"}
        BY <4>1, <1>0 DEF IInv, OwnerInv, MutexHealthy, NeverUnrecoverable, MutexState
      <4>3. AfterLock(mutex, "copy") \in {"copy", "recover"}
        BY <4>1, <4>2 DEF AfterLock, LockResult
      <4> QED
        BY <3>1, <4>1, <4>3, <1>0 DEF Lock, LockMutex
    <3>2. CASE ~Lock(c)
      BY <3>2, <1>2, <1>0 DEF Recover, RecoverMutex, Copy, CopyLine, Goto
    <3> QED
      BY <3>1, <3>2
  <2>2. /\ UNCHANGED <<line, round, asked>>
        /\ \A d \in Client : d # c => seen'[d] = seen[d] /\ whole'[d] = whole[d]
    BY <1>2, <1>0
       DEF Lock, LockMutex, Recover, RecoverMutex, Copy, CopyLine, updateVars, clientVars, autoVars
  <2> QED
    BY <2>1, <2>2, InsideCall
<1>3. ASSUME NEW c \in Client, Unlock(c) \/ Die(c) PROVE Service!Return(c) \/ Service!Abort(c)
  <2>1. /\ pc[c] # "idle" /\ pc'[c] = "idle"
        /\ \A d \in Client : d # c => pc'[d] = pc[d] /\ seen'[d] = seen[d]
        /\ UNCHANGED <<line, round, asked, whole>>
    BY <1>3, <1>0 DEF Unlock, UnlockMutex, Die, ClientDies, Goto, updateVars, clientVars, autoVars
  <2>2. whole[c] => seen'[c] = {} \/ (seen'[c] = {Completed} /\ Completed >= asked[c])
    <3>1. CASE Unlock(c)
      <4>1. pc[c] = "unlock" /\ seen' = seen
        BY <3>1 DEF Unlock, UnlockMutex, clientVars
      <4>2. whole[c] => seen[c] \subseteq {Completed} /\ Completed >= asked[c]
        BY <4>1, <1>0, <1>a DEF CallInv, Section
      <4> QED
        BY <4>1, <4>2
    <3>2. CASE Die(c)
      BY <3>2, <1>0 DEF Die, ClientDies
    <3> QED
      BY <1>3, <3>1, <3>2
  <2> QED
    BY <2>1, <2>2, <1>0, <1>a, EndOfCall
<1>4. CASE StartUpdate
  <2>1. Completed' = Completed
    BY <1>4, <1>0, ConstantsAssumption
       DEF StartUpdate, BeginUpdate, TextInv, Completed, HalfWritten, Line
  <2> QED
    BY <1>4, <2>1, DaemonOnly DEF StartUpdate, clientVars, autoVars, Service!vars, Active, Replies
<1>5. CASE UpdateLine
  <2>1. Completed' \in {Completed, Completed + 1}
    BY <1>5, <1>0, ConstantsAssumption
       DEF UpdateLine, WriteLine, TextInv, Completed, HalfWritten, Line
  <2>2. Active' = Active /\ Replies' = Replies /\ asked' = asked
    BY <1>5, DaemonOnly DEF UpdateLine, WriteLine, clientVars, autoVars
  <2> QED
    BY <2>1, <2>2 DEF Service!vars, Service!Next, Service!Refresh, Active, Replies
<1>6. CASE \/ Tick \/ SigWait \/ DaemonLock \/ DaemonRecover \/ EndUpdate \/ DaemonUnlock
           \/ Stop \/ UNCHANGED vars
  <2>1. UNCHANGED <<line, round, pc, seen, asked, whole>>
    BY <1>6 DEF Tick, SigWait, DaemonLock, DaemonRecover, EndUpdate, DaemonUnlock, Stop,
                vars, autoVars, updateVars, clientVars
  <2>2. Completed' = Completed
    BY <2>1 DEF Completed, HalfWritten
  <2> QED
    BY <2>1, <2>2, DaemonOnly DEF Service!vars, Active, Replies
<1> QED
  BY <1>1, <1>2, <1>3, <1>4, <1>5, <1>6 DEF Next, ClientStep, DaemonStep, Service!Next

\* The calls of this mode are those of the service that is not strict: a call
\* that did not take the mutex over a half-written text returns one snapshot, at
\* least as recent as the last one complete when it began.
THEOREM ImplementsService == Spec => ServiceSpec
<1> QED
  BY InvAlways, ServiceInit, ServiceStep, PTL DEF Spec, ServiceSpec, Service!Spec
=============================================================================
