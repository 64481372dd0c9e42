------------------------- MODULE DemandUpdateProofs -------------------------
(***************************************************************************)
(* Safety of the SYS_MON_SYNC_SEMS protocol for every number of clients,   *)
(* of module lines, of calls, of deaths and of interruptions.  Four        *)
(* invariants, each on top of the ones before it: types, who owns the      *)
(* mutex, how many requests and answers are under way, and what the text   *)
(* holds while a client that began with nothing outstanding waits for and  *)
(* copies it.  From them follows that the protocol implements ReadService. *)
(***************************************************************************)
EXTENDS DemandUpdate, TLAPS

-----------------------------------------------------------------------------
(* The strengthenings.                                                     *)

\* strncpy stays inside the text.
CopyInside ==
  \A c \in Client : pc[c] \notin {"idle", "unlock"} => copied[c] \in Line

TypeInv == TypeOK /\ CopyInside

\* A client is at "recover" exactly while the mutex it owns is inconsistent.
MutexHealthy ==
  /\ NeverUnrecoverable
  /\ mutex.owner # Daemon
  /\ mutex.state = "ownerdead" => mutex.owner = NoOwner
  /\ mutex.state = "inconsistent" => mutex.owner # NoOwner
  /\ \A c \in Client : pc[c] = "recover" <=>
       mutex.owner = c /\ mutex.state = "inconsistent"

OwnerInv == OwnerInSection /\ MutexHealthy

CountInv == DrainNeverBlocks /\ SurplusBound

\* Every line is of the last update.
TextComplete == \A l \in Line : data[l] = round

\* The text is complete outside update() and, inside, up to line.
TextInv ==
  /\ dpc = "wait_in" => TextComplete
  /\ dpc = "update" => \A l \in Line : l < line => data[l] = round

\* What a call that began with nothing outstanding finds: while it waits, at
\* most one request or answer, its own; from then on none, and the text of an
\* update begun after the call.
CleanCall(c) ==
  /\ asked[c] <= round
  /\ pc[c] \in {"lock", "recover", "getvalue", "drain", "wait"} => seen[c] = {}
  /\ pc[c] \in {"wait", "copy", "unlock"} /\ deaths + signals = 0 => clean[c]
  /\ pc[c] = "wait" /\ clean[c] =>
       /\ Outstanding <= 1
       /\ dpc = "update" => round > asked[c]
       /\ out > 0 => TextComplete /\ round > asked[c]
  /\ pc[c] \in {"copy", "unlock"} /\ clean[c] =>
       /\ in = 0
       /\ dpc # "update"
       /\ TextComplete
       /\ round > asked[c]
       /\ seen[c] \subseteq {round}

TextAndCalls == TextInv /\ \A c \in Client : CleanCall(c)

IInv == TypeInv /\ OwnerInv /\ CountInv /\ TextAndCalls

-----------------------------------------------------------------------------
(* Types.                                                                  *)

LEMMA MutexTypes ==
  ASSUME NEW m \in [owner : Client \cup {Daemon, NoOwner}, state : MutexState],
         NEW p \in Client \cup {Daemon}
  PROVE  /\ Locked(m, p) \in [owner : Client \cup {Daemon, NoOwner}, state : MutexState]
         /\ MadeConsistent(m) \in [owner : Client \cup {Daemon, NoOwner}, state : MutexState]
         /\ Unlocked(m, p) \in [owner : Client \cup {Daemon, NoOwner}, state : MutexState]
         /\ Abandoned(m, p) \in [owner : Client \cup {Daemon, NoOwner}, state : MutexState]
BY DEF MutexState, Locked, LockResult, MadeConsistent, Unlocked, Abandoned

LEMMA InitTyped == Init => TypeInv
BY ConstantsAssumption, SignalsAssumption
   DEF Init, SharedInit, TypeInv, CopyInside, TypeOK, SharedTypeOK, FreshMutex, MutexState, Section, Line

LEMMA TypeInductive == TypeInv /\ [Next]_vars => TypeInv'
<1> SUFFICES ASSUME TypeInv, [Next]_vars PROVE TypeInv'
  OBVIOUS
<1> USE ConstantsAssumption, SignalsAssumption DEF TypeInv, TypeOK, CopyInside, SharedTypeOK, Section, Line
<1>1. ASSUME NEW c \in Client, Call(c) PROVE TypeInv'
  BY <1>1 DEF Call, EnterCall, Goto, semVars
<1>2. ASSUME NEW c \in Client, Lock(c) PROVE TypeInv'
  BY <1>2, MutexTypes
     DEF Lock, LockMutex, AfterLock, Goto, semVars, updateVars, clientVars
<1>3. ASSUME NEW c \in Client, Recover(c) PROVE TypeInv'
  BY <1>3, MutexTypes
     DEF Recover, RecoverMutex, Goto, semVars, updateVars, clientVars
<1>4. ASSUME NEW c \in Client, GetValue(c) PROVE TypeInv'
  BY <1>4 DEF GetValue, Goto, updateVars, clientVars
<1>5. ASSUME NEW c \in Client, Drain(c) PROVE TypeInv'
  BY <1>5 DEF Drain, updateVars, clientVars
<1>6. ASSUME NEW c \in Client, Post(c) PROVE TypeInv'
  BY <1>6 DEF Post, Goto, updateVars, clientVars
<1>7. ASSUME NEW c \in Client, Wait(c) PROVE TypeInv'
  BY <1>7 DEF Wait, Goto, updateVars, clientVars
<1>8. ASSUME NEW c \in Client, WaitInterrupted(c) PROVE TypeInv'
  BY <1>8 DEF WaitInterrupted, Goto, updateVars, clientVars
<1>9. ASSUME NEW c \in Client, Copy(c) PROVE TypeInv'
  <2>1. copied[c] \in Line /\ data[copied[c]] \in Nat
    BY <1>9 DEF Copy, CopyLine
  <2>2. seen' \in [Client -> SUBSET Nat]
    BY <1>9, <2>1 DEF Copy, CopyLine
  <2>3. pc' \in [Client -> {"idle", "lock"} \cup Section]
    BY <1>9 DEF Copy, CopyLine, Goto
  <2>4. copied' \in [Client -> 1 .. ModulesN + 1] /\ CopyInside'
    BY <1>9, <2>1 DEF Copy, CopyLine, Goto
  <2> QED
    BY <1>9, <2>2, <2>3, <2>4 DEF Copy, CopyLine, semVars, updateVars
<1>10. ASSUME NEW c \in Client, Unlock(c) PROVE TypeInv'
  BY <1>10, MutexTypes DEF Unlock, UnlockMutex, Goto, semVars, updateVars, clientVars
<1>11. ASSUME NEW c \in Client, Die(c) PROVE TypeInv'
  <2>1. mutex' \in [owner : Client \cup {Daemon, NoOwner}, state : MutexState]
    BY <1>11, MutexTypes DEF Die, ClientDies
  <2>2. deaths' \in 0 .. MaxDeaths
    BY <1>11 DEF Die, ClientDies
  <2>3. CopyInside' /\ copied' \in [Client -> 1 .. ModulesN + 1]
    BY <1>11 DEF Die, ClientDies, Goto
  <2> QED
    BY <1>11, <2>1, <2>2, <2>3 DEF Die, ClientDies, Goto, updateVars
<1>12. CASE TakeRequest
  BY <1>12 DEF TakeRequest, BeginUpdate, clientVars
<1>13. CASE UpdateLine
  BY <1>13 DEF UpdateLine, WriteLine, clientVars, semVars
<1>14. CASE PostOut
  BY <1>14 DEF PostOut, updateVars, clientVars
<1>15. CASE Stop
  BY <1>15 DEF Stop, updateVars, clientVars, semVars
<1>16. CASE UNCHANGED vars
  BY <1>16 DEF vars
<1> QED
  BY <1>1, <1>2, <1>3, <1>4, <1>5, <1>6, <1>7, <1>8, <1>9, <1>10, <1>11, <1>12,
     <1>13, <1>14, <1>15, <1>16 DEF Next, ClientStep, DaemonStep

\* Every variable keeps its type: no semaphore is taken below 0, no line is
\* written or copied outside the text.
THEOREM TypeCorrect == Spec => []TypeOK
BY InitTyped, TypeInductive, PTL DEF Spec, TypeInv

-----------------------------------------------------------------------------
(* Ownership.                                                              *)

LEMMA InitOwner == Init => OwnerInv
BY ConstantsAssumption
   DEF Init, SharedInit, FreshMutex, OwnerInv, OwnerInSection, MutexHealthy,
       NeverUnrecoverable, Section

\* A step within the section, or outside it, that leaves the mutex alone.
LEMMA SameSection ==
  ASSUME TypeInv, OwnerInv, UNCHANGED mutex, NEW c \in Client, NEW l,
         pc' = [pc EXCEPT ![c] = l],
         pc[c] \in Section <=> l \in Section,
         pc[c] # "recover", l # "recover"
  PROVE  OwnerInv'
BY DEF TypeInv, TypeOK, OwnerInv, OwnerInSection, MutexHealthy, NeverUnrecoverable

LEMMA OwnerInductive == TypeInv /\ OwnerInv /\ [Next]_vars => OwnerInv'
<1> SUFFICES ASSUME TypeInv, OwnerInv, [Next]_vars PROVE OwnerInv'
  OBVIOUS
<1>1. ASSUME NEW c \in Client, Call(c) PROVE OwnerInv'
  BY <1>1, SameSection DEF Call, EnterCall, Goto, Section
<1>2. ASSUME NEW c \in Client, Lock(c) PROVE OwnerInv'
  <2> USE ConstantsAssumption DEF TypeInv, TypeOK, SharedTypeOK, Section, MutexState
  <2>1. /\ pc[c] = "lock" /\ mutex.owner = NoOwner
        /\ mutex' = Locked(mutex, c)
        /\ pc' = [pc EXCEPT ![c] = AfterLock(mutex, "getvalue")]
    BY <1>2 DEF Lock, LockMutex, Goto, Lockable
  <2>2. mutex.state \in {"ok", "ownerdead"}
    BY <2>1 DEF OwnerInv, MutexHealthy, NeverUnrecoverable
  <2>3. CASE mutex.state = "ok"
    BY <2>1, <2>3 DEF OwnerInv, MutexHealthy, NeverUnrecoverable, OwnerInSection,
       Locked, LockResult, AfterLock
  <2>4. CASE mutex.state = "ownerdead"
    BY <2>1, <2>4 DEF OwnerInv, MutexHealthy, NeverUnrecoverable, OwnerInSection,
       Locked, LockResult, AfterLock
  <2> QED
    BY <2>2, <2>3, <2>4
<1>3. ASSUME NEW c \in Client, Recover(c) PROVE OwnerInv'
  BY <1>3, ConstantsAssumption
     DEF Recover, RecoverMutex, Goto, MadeConsistent, TypeInv, TypeOK, SharedTypeOK,
         Section, OwnerInv, MutexHealthy, NeverUnrecoverable, OwnerInSection
<1>4. ASSUME NEW c \in Client, GetValue(c) PROVE OwnerInv'
  BY <1>4, SameSection DEF GetValue, Goto, Section
<1>5. ASSUME NEW c \in Client, Drain(c) PROVE OwnerInv'
  BY <1>5 DEF Drain, OwnerInv, MutexHealthy, NeverUnrecoverable, OwnerInSection
<1>6. ASSUME NEW c \in Client, Post(c) PROVE OwnerInv'
  BY <1>6, SameSection DEF Post, Goto, Section
<1>7. ASSUME NEW c \in Client, Wait(c) PROVE OwnerInv'
  BY <1>7, SameSection DEF Wait, Goto, Section
<1>8. ASSUME NEW c \in Client, WaitInterrupted(c) PROVE OwnerInv'
  BY <1>8, SameSection DEF WaitInterrupted, Goto, Section
<1>9. ASSUME NEW c \in Client, Copy(c) PROVE OwnerInv'
  BY <1>9, SameSection DEF Copy, CopyLine, Goto, Section
<1>10. ASSUME NEW c \in Client, Unlock(c) PROVE OwnerInv'
  BY <1>10, ConstantsAssumption
     DEF Unlock, UnlockMutex, Goto, Unlocked, TypeInv, TypeOK, SharedTypeOK,
         Section, OwnerInv, MutexHealthy, NeverUnrecoverable, OwnerInSection
<1>11. ASSUME NEW c \in Client, Die(c) PROVE OwnerInv'
  <2> USE ConstantsAssumption DEF TypeInv, TypeOK, SharedTypeOK, Section, OwnerInv,
       MutexHealthy, NeverUnrecoverable, OwnerInSection
  <2>1. pc' = [pc EXCEPT ![c] = "idle"] /\ mutex' = Abandoned(mutex, c)
    BY <1>11 DEF Die, ClientDies, Goto
  <2>2. CASE mutex.owner = c
    BY <2>1, <2>2 DEF Abandoned
  <2>3. CASE mutex.owner # c
    BY <2>1, <2>3 DEF Abandoned
  <2> QED
    BY <2>2, <2>3
<1>12. CASE DaemonStep \/ Stop \/ UNCHANGED vars
  BY <1>12
     DEF DaemonStep, TakeRequest, UpdateLine, WriteLine, PostOut, Stop, vars,
         OwnerInv, MutexHealthy, NeverUnrecoverable, OwnerInSection
<1> QED
  BY <1>1, <1>2, <1>3, <1>4, <1>5, <1>6, <1>7, <1>8, <1>9, <1>10, <1>11, <1>12
     DEF Next, ClientStep

LEMMA OwnerAlways == Spec => [](TypeInv /\ OwnerInv)
<1>1. Init => TypeInv /\ OwnerInv
  BY InitTyped, InitOwner
<1>2. TypeInv /\ OwnerInv /\ [Next]_vars => (TypeInv /\ OwnerInv)'
  BY TypeInductive, OwnerInductive
<1> QED
  BY <1>1, <1>2, PTL DEF Spec

\* The client between lock and unlock owns the mutex, so at most one is, and the
\* mutex is never lost: no call of sys_mon_read_data returns -1.
THEOREM MutexSurvives == Spec => []MutexSound
<1>1. OwnerInv => MutexSound
  BY DEF OwnerInv, MutexHealthy, MutexSound
<1> QED
  BY <1>1, OwnerAlways, PTL

-----------------------------------------------------------------------------
(* Requests and answers under way.                                         *)

LEMMA CountTypes ==
  ASSUME TypeInv
  PROVE  /\ Busy \in {0, 1} /\ Owed \in {0, 1}
         /\ in \in Nat /\ out \in Nat /\ deaths \in Nat /\ signals \in Nat
         /\ Outstanding \in Nat /\ Surplus \in Int
BY ConstantsAssumption, SignalsAssumption
   DEF TypeInv, TypeOK, SharedTypeOK, Busy, Owed, Outstanding, Surplus

\* One client at most is in the section: that decides whether one waits.
LEMMA OwedInSection ==
  ASSUME OwnerInSection, NEW c \in Client, pc[c] \in Section
  PROVE  /\ pc[c] = "wait" => Owed = 1
         /\ pc[c] # "wait" => Owed = 0
BY DEF OwnerInSection, Owed, Section

LEMMA OwedAfterStep ==
  ASSUME OwnerInSection, NEW c \in Client, pc[c] \in Section,
         \A d \in Client : d # c => pc'[d] = pc[d]
  PROVE  /\ pc'[c] = "wait" => Owed' = 1
         /\ pc'[c] # "wait" => Owed' = 0
         /\ \A d \in Client : d # c => pc'[d] \notin {"drain", "wait"}
<1>1. \A d \in Client : d # c => pc'[d] \notin Section
  BY DEF OwnerInSection
<1> QED
  BY <1>1 DEF Owed, Section

LEMMA InitCount == Init => CountInv
BY ConstantsAssumption, SignalsAssumption
   DEF Init, SharedInit, CountInv, DrainNeverBlocks, SurplusBound, Surplus,
       Outstanding, Owed, Busy

\* A step of c that neither reaches, leaves nor drains the semaphores.
LEMMA SameCounts ==
  ASSUME TypeInv, CountInv, NEW c \in Client, NEW l,
         pc' = [pc EXCEPT ![c] = l],
         pc[c] \notin {"drain", "wait"}, l \notin {"drain", "wait"},
         UNCHANGED <<dpc, in, out, left, deaths, signals>>
  PROVE  CountInv'
<1>1. \A d \in Client : pc'[d] = "wait" <=> pc[d] = "wait"
  BY DEF TypeInv, TypeOK
<1>2. \A d \in Client : pc'[d] = "drain" <=> pc[d] = "drain"
  BY DEF TypeInv, TypeOK
<1>3. Owed' = Owed /\ Busy' = Busy
  BY <1>1 DEF Owed, Busy
<1> QED
  BY <1>2, <1>3 DEF CountInv, DrainNeverBlocks, SurplusBound, Surplus, Outstanding

LEMMA CountInductive == TypeInv /\ OwnerInv /\ CountInv /\ [Next]_vars => CountInv'
<1> SUFFICES ASSUME TypeInv, OwnerInv, CountInv, [Next]_vars PROVE CountInv'
  OBVIOUS
<1>0. /\ Busy \in {0, 1} /\ Owed \in {0, 1}
      /\ in \in Nat /\ out \in Nat /\ deaths \in Nat /\ signals \in Nat
  BY CountTypes
<1>a. /\ \A d \in Client : pc[d] = "drain" => left[d] <= out
      /\ dpc # "stopped" => 0 <= Surplus
      /\ Surplus <= deaths + signals
      /\ left \in [Client -> Nat]
  BY DEF CountInv, DrainNeverBlocks, SurplusBound, TypeInv, TypeOK
<1> USE DEF CountInv, DrainNeverBlocks, SurplusBound, Surplus, Outstanding
<1>1. ASSUME NEW c \in Client, Call(c) PROVE CountInv'
  BY <1>1, SameCounts DEF Call, EnterCall, Goto, semVars
<1>2. ASSUME NEW c \in Client, Lock(c) PROVE CountInv'
  <2>1. /\ pc[c] = "lock" /\ pc' = [pc EXCEPT ![c] = AfterLock(mutex, "getvalue")]
        /\ UNCHANGED <<dpc, in, out, left, deaths, signals>>
    BY <1>2 DEF Lock, LockMutex, Goto, semVars, clientVars
  <2>2. AfterLock(mutex, "getvalue") \notin {"drain", "wait"}
    BY DEF AfterLock
  <2> QED
    BY <2>1, <2>2, SameCounts
<1>3. ASSUME NEW c \in Client, Recover(c) PROVE CountInv'
  BY <1>3, SameCounts DEF Recover, RecoverMutex, Goto, semVars, clientVars
<1>4. ASSUME NEW c \in Client, GetValue(c) PROVE CountInv'
  <2>1. /\ pc[c] = "getvalue" /\ pc' = [pc EXCEPT ![c] = "drain"]
        /\ left' = [left EXCEPT ![c] = out]
        /\ UNCHANGED <<dpc, in, out, deaths, signals>>
    BY <1>4 DEF GetValue, Goto, clientVars
  <2>p. /\ OwnerInSection /\ pc[c] \in Section /\ pc'[c] = "drain"
        /\ \A d \in Client : d # c => pc'[d] = pc[d]
    BY <2>1 DEF OwnerInv, Section, TypeInv, TypeOK
  <2>2. Owed = 0 /\ Owed' = 0 /\ \A d \in Client : d # c => pc'[d] # "drain"
    BY <2>p, <2>1, OwedInSection, OwedAfterStep
  <2>3. Busy' = Busy
    BY <2>1 DEF Busy
  <2> QED
    BY <1>0, <1>a, <2>1, <2>2, <2>3
<1>5. ASSUME NEW c \in Client, Drain(c) PROVE CountInv'
  <2>1. /\ pc[c] = "drain" /\ out > 0 /\ out' = out - 1
        /\ left[c] > 0 /\ left' = [left EXCEPT ![c] = @ - 1]
        /\ UNCHANGED <<pc, dpc, in, deaths, signals>>
    BY <1>5 DEF Drain, clientVars
  <2>2. Owed = 0 /\ Owed' = Owed /\ Busy' = Busy
    BY <2>1, OwedInSection DEF OwnerInv, Section, Owed, Busy
  <2>3. \A d \in Client : pc[d] = "drain" => d = c
    BY <2>1 DEF OwnerInv, OwnerInSection, Section
  <2> QED
    BY <1>0, <1>a, <2>1, <2>2, <2>3
<1>6. ASSUME NEW c \in Client, Post(c) PROVE CountInv'
  <2>1. /\ pc[c] = "drain" /\ pc' = [pc EXCEPT ![c] = "wait"]
        /\ in' = in + 1
        /\ UNCHANGED <<dpc, out, left, deaths, signals>>
    BY <1>6 DEF Post, Goto, clientVars
  <2>p. /\ OwnerInSection /\ pc[c] \in Section /\ pc'[c] = "wait"
        /\ \A d \in Client : d # c => pc'[d] = pc[d]
    BY <2>1 DEF OwnerInv, Section, TypeInv, TypeOK
  <2>2. Owed = 0 /\ Owed' = 1 /\ \A d \in Client : pc'[d] # "drain"
    BY <2>p, <2>1, OwedInSection, OwedAfterStep
  <2>3. Busy' = Busy
    BY <2>1 DEF Busy
  <2> QED
    BY <1>0, <1>a, <2>1, <2>2, <2>3
<1>7. ASSUME NEW c \in Client, Wait(c) \/ WaitInterrupted(c) PROVE CountInv'
  <2>1. /\ pc[c] = "wait" /\ pc' = [pc EXCEPT ![c] = "copy"]
        /\ UNCHANGED <<dpc, in, left, deaths>>
        /\ \/ out > 0 /\ out' = out - 1 /\ signals' = signals
           \/ out' = out /\ signals' = signals + 1
    BY <1>7 DEF Wait, WaitInterrupted, Goto, clientVars
  <2>p. /\ OwnerInSection /\ pc[c] \in Section /\ pc'[c] = "copy"
        /\ \A d \in Client : d # c => pc'[d] = pc[d]
    BY <2>1 DEF OwnerInv, Section, TypeInv, TypeOK
  <2>2. Owed = 1 /\ Owed' = 0 /\ \A d \in Client : pc'[d] # "drain"
    BY <2>p, <2>1, OwedInSection, OwedAfterStep
  <2>3. Busy' = Busy
    BY <2>1 DEF Busy
  <2> QED
    BY <1>0, <1>a, <2>1, <2>2, <2>3
<1>8. ASSUME NEW c \in Client, Copy(c) \/ Unlock(c) PROVE CountInv'
  BY <1>8, SameCounts
     DEF Copy, CopyLine, Unlock, UnlockMutex, Goto, semVars, clientVars
<1>9. ASSUME NEW c \in Client, Die(c) PROVE CountInv'
  <2>1. /\ pc' = [pc EXCEPT ![c] = "idle"] /\ left' = [left EXCEPT ![c] = 0]
        /\ deaths' = deaths + 1
        /\ UNCHANGED <<dpc, in, out, signals>>
    BY <1>9 DEF Die, ClientDies, Goto
  <2>2. Owed' = Owed \/ (Owed = 1 /\ Owed' = 0)
    BY <2>1 DEF Owed, TypeInv, TypeOK
  <2>3. \A d \in Client : pc'[d] = "drain" => d # c /\ pc[d] = "drain"
    BY <2>1 DEF TypeInv, TypeOK
  <2>4. Busy' = Busy
    BY <2>1 DEF Busy
  <2>5. DrainNeverBlocks'
    BY <1>a, <2>1, <2>3
  <2>6. SurplusBound'
    BY <1>0, <1>a, <2>1, <2>2, <2>4
  <2> QED
    BY <2>5, <2>6
<1>10. CASE DaemonStep \/ Stop
  <2>1. Owed' = Owed /\ UNCHANGED <<pc, left, deaths, signals>>
    BY <1>10 DEF DaemonStep, TakeRequest, UpdateLine, WriteLine, PostOut, Stop,
       clientVars, semVars, updateVars, Owed
  <2>2. CASE TakeRequest
    BY <1>0, <1>a, <2>1, <2>2 DEF TakeRequest, Busy
  <2>3. CASE UpdateLine
    BY <1>0, <1>a, <2>1, <2>3 DEF UpdateLine, WriteLine, semVars, Busy
  <2>4. CASE PostOut
    BY <1>0, <1>a, <2>1, <2>4 DEF PostOut, Busy
  <2>5. CASE Stop
    BY <1>0, <1>a, <2>1, <2>5 DEF Stop, Busy, semVars
  <2> QED
    BY <1>10, <2>2, <2>3, <2>4, <2>5 DEF DaemonStep
<1>11. CASE UNCHANGED vars
  BY <1>11 DEF vars, Owed, Busy
<1> QED
  BY <1>1, <1>2, <1>3, <1>4, <1>5, <1>6, <1>7, <1>8, <1>9, <1>10, <1>11
     DEF Next, ClientStep

LEMMA CountAlways == Spec => [](TypeInv /\ OwnerInv /\ CountInv)
<1>1. Init => TypeInv /\ OwnerInv /\ CountInv
  BY InitTyped, InitOwner, InitCount
<1>2. TypeInv /\ OwnerInv /\ CountInv /\ [Next]_vars => (TypeInv /\ OwnerInv /\ CountInv)'
  BY TypeInductive, OwnerInductive, CountInductive
<1> QED
  BY <1>1, <1>2, PTL DEF Spec

\* The drain loop of a client that holds the mutex never blocks.
THEOREM DrainTerminates == Spec => []DrainNeverBlocks
<1>1. CountInv => DrainNeverBlocks
  BY DEF CountInv
<1> QED
  BY <1>1, CountAlways, PTL

\* Deaths and interruptions leave one answer each at most behind.
THEOREM SurplusBounded == Spec => []SurplusBound
<1>1. CountInv => SurplusBound
  BY DEF CountInv
<1> QED
  BY <1>1, CountAlways, PTL

\* A client that waits has a request or an answer under way.
THEOREM NoLostWakeup == Spec => []AnswerUnderWay
<1>1. ASSUME TypeInv, OwnerInv, CountInv PROVE AnswerUnderWay
  <2> SUFFICES ASSUME NEW c \in Client, pc[c] = "wait", dpc # "stopped"
               PROVE  Outstanding >= 1
    BY DEF AnswerUnderWay
  <2>1. Owed = 1
    BY DEF Owed
  <2> QED
    BY <1>1, <2>1, CountTypes DEF CountInv, SurplusBound, Surplus
<1> QED
  BY <1>1, CountAlways, PTL

-----------------------------------------------------------------------------
(* The text a call returns.                                                *)

LEMMA InitText == Init => TextAndCalls
BY ConstantsAssumption
   DEF Init, SharedInit, TextAndCalls, TextInv, TextComplete, CleanCall

\* What c does is nothing to the calls of the others: either they are outside
\* the section or c is, and then it leaves the semaphores alone.
LEMMA OthersClean ==
  ASSUME OwnerInSection, NEW c \in Client, NEW d \in Client, d # c, CleanCall(d),
         UNCHANGED <<dpc, data, round>>,
         pc'[d] = pc[d], seen'[d] = seen[d], asked'[d] = asked[d], clean'[d] = clean[d],
         deaths' + signals' = 0 => deaths + signals = 0,
         pc[c] \in Section \/ UNCHANGED <<in, out>>
  PROVE  CleanCall(d)'
<1>1. TextComplete' = TextComplete
  BY DEF TextComplete
<1>2. CASE pc[c] \in Section
  <2>1. pc[d] \notin {"wait", "copy", "unlock"}
    BY <1>2 DEF OwnerInSection, Section
  <2> QED
    BY <2>1 DEF CleanCall
<1>3. CASE UNCHANGED <<in, out>>
  <2>1. Outstanding' = Outstanding
    BY <1>3 DEF Outstanding, Busy
  <2> QED
    BY <1>1, <1>3, <2>1 DEF CleanCall
<1> QED
  BY <1>2, <1>3

LEMMA TextInductive ==
  TypeInv /\ OwnerInv /\ CountInv /\ TextAndCalls /\ [Next]_vars => TextAndCalls'
<1> SUFFICES ASSUME TypeInv, OwnerInv, CountInv, TextAndCalls, [Next]_vars
             PROVE  TextAndCalls'
  OBVIOUS
<1>0. /\ Busy \in {0, 1} /\ Owed \in {0, 1}
      /\ in \in Nat /\ out \in Nat /\ deaths \in Nat /\ signals \in Nat
      /\ Outstanding \in Nat /\ round \in Nat /\ asked \in [Client -> Nat]
  BY CountTypes DEF TypeInv, TypeOK, SharedTypeOK
<1>a. /\ OwnerInSection
      /\ \A c \in Client : CleanCall(c)
      /\ TextInv
  BY DEF OwnerInv, TextAndCalls
<1>b. /\ pc \in [Client -> {"idle", "lock"} \cup Section]
      /\ left \in [Client -> Nat] /\ clean \in [Client -> BOOLEAN]
      /\ seen \in [Client -> SUBSET Nat] /\ data \in [Line -> Nat]
  BY DEF TypeInv, TypeOK, SharedTypeOK
<1>c. ASSUME UNCHANGED <<dpc, data, line, round>> PROVE TextInv'
  BY <1>a, <1>c DEF TextInv, TextComplete
<1>1. ASSUME NEW c \in Client, Call(c) PROVE TextAndCalls'
  <2>1. CleanCall(c)'
    BY <1>1, <1>0, <1>b DEF Call, EnterCall, Goto, CleanCall
  <2>2. ASSUME NEW d \in Client, d # c PROVE CleanCall(d)'
    BY <1>1, <2>2, <1>a, <1>b, OthersClean DEF Call, EnterCall, Goto, semVars
  <2> QED
    BY <1>1, <1>c, <2>1, <2>2 DEF TextAndCalls, Call, EnterCall
<1>2. ASSUME NEW c \in Client, Lock(c) \/ Recover(c) \/ GetValue(c) \/ Drain(c)
      PROVE  TextAndCalls'
  <2> USE DEF Lock, LockMutex, Recover, RecoverMutex, GetValue, Drain, AfterLock, Goto,
          semVars, clientVars, updateVars
  <2>1. CleanCall(c)'
    BY <1>2, <1>a, <1>b DEF CleanCall
  <2>2. ASSUME NEW d \in Client, d # c PROVE CleanCall(d)'
    <3>1. pc[c] \in Section \/ UNCHANGED <<in, out>>
      BY <1>2 DEF Section
    <3> QED
      BY <3>1, <1>2, <2>2, <1>a, <1>b, OthersClean
  <2> QED
    BY <1>2, <1>c, <2>1, <2>2 DEF TextAndCalls
<1>3. ASSUME NEW c \in Client, Post(c) PROVE TextAndCalls'
  <2>1. /\ pc[c] = "drain" /\ pc' = [pc EXCEPT ![c] = "wait"]
        /\ in' = in + 1 /\ clean' = [clean EXCEPT ![c] = Surplus = 0]
        /\ UNCHANGED <<dpc, data, line, round, seen, asked, out, deaths, signals>>
    BY <1>3 DEF Post, Goto, clientVars, updateVars
  <2>2. Owed = 0
    BY <2>1, <1>a, OwedInSection DEF Section
  <2>3. Surplus = in + Busy + out /\ Surplus <= deaths + signals
    BY <2>2, <1>0 DEF Surplus, Outstanding, CountInv, SurplusBound
  <2>4. Busy' = Busy /\ (Busy = 0 => dpc # "update")
    BY <2>1 DEF Busy
  <2>5. (clean'[c] <=> Surplus = 0) /\ pc'[c] = "wait"
    BY <2>1, <1>b
  <2>6. deaths + signals = 0 => clean'[c]
    BY <2>3, <2>5, <1>0
  <2>7. clean'[c] => in = 0 /\ Busy = 0 /\ out = 0
    BY <2>3, <2>5, <1>0
  <2>8. clean'[c] => Outstanding' <= 1 /\ dpc' # "update" /\ ~(out' > 0)
    BY <2>7, <2>1, <2>4 DEF Outstanding
  <2>9. CleanCall(c)'
    BY <2>1, <2>5, <2>6, <2>8, <1>a DEF CleanCall
  <2>10. ASSUME NEW d \in Client, d # c PROVE CleanCall(d)'
    BY <2>1, <2>10, <1>a, <1>b, OthersClean DEF Section
  <2> QED
    BY <2>1, <1>c, <2>9, <2>10 DEF TextAndCalls
<1>4. ASSUME NEW c \in Client, Wait(c) PROVE TextAndCalls'
  <2>1. /\ pc[c] = "wait" /\ pc' = [pc EXCEPT ![c] = "copy"]
        /\ out > 0 /\ out' = out - 1
        /\ UNCHANGED <<dpc, data, line, round, seen, asked, clean, in, deaths, signals>>
    BY <1>4 DEF Wait, Goto, clientVars, updateVars
  <2>2. CleanCall(c) /\ pc'[c] = "copy" /\ TextComplete' = TextComplete
    BY <2>1, <1>a, <1>b DEF TextComplete
  <2>3. clean[c] => in = 0 /\ Busy = 0
    BY <2>1, <2>2, <1>0 DEF CleanCall, Outstanding
  <2>4. Busy = 0 => dpc # "update"
    BY DEF Busy
  <2>5. CleanCall(c)'
    BY <2>1, <2>2, <2>3, <2>4, <1>0 DEF CleanCall
  <2>6. ASSUME NEW d \in Client, d # c PROVE CleanCall(d)'
    BY <2>1, <2>6, <1>a, <1>b, OthersClean DEF Section
  <2> QED
    BY <2>1, <1>c, <2>5, <2>6 DEF TextAndCalls
<1>5. ASSUME NEW c \in Client, WaitInterrupted(c) PROVE TextAndCalls'
  <2>1. /\ pc[c] = "wait" /\ pc' = [pc EXCEPT ![c] = "copy"]
        /\ signals' = signals + 1 /\ clean' = [clean EXCEPT ![c] = FALSE]
        /\ UNCHANGED <<dpc, data, line, round, seen, asked, in, out, deaths>>
    BY <1>5 DEF WaitInterrupted, Goto, clientVars, updateVars
  <2>2. CleanCall(c)'
    BY <2>1, <1>0, <1>a, <1>b DEF CleanCall
  <2>3. ASSUME NEW d \in Client, d # c PROVE CleanCall(d)'
    <3>1. deaths' + signals' # 0
      BY <2>1, <1>0
    <3> QED
      BY <3>1, <2>1, <2>3, <1>a, <1>b, OthersClean DEF Section
  <2> QED
    BY <2>1, <1>c, <2>2, <2>3 DEF TextAndCalls
<1>6. ASSUME NEW c \in Client, Copy(c) PROVE TextAndCalls'
  <2>1. /\ pc[c] = "copy" /\ pc'[c] \in {"copy", "unlock"}
        /\ \A d \in Client : d # c => pc'[d] = pc[d]
        /\ seen' = [seen EXCEPT ![c] = @ \cup {data[copied[c]]}]
        /\ UNCHANGED <<dpc, data, line, round, asked, clean, in, out, deaths, signals>>
    BY <1>6, <1>b DEF Copy, CopyLine, Goto, semVars, updateVars
  <2>2. copied[c] \in Line
    BY <2>1 DEF TypeInv, CopyInside
  <2>3. CleanCall(c) /\ TextComplete' = TextComplete
    BY <2>1, <1>a DEF TextComplete
  <2>4. clean[c] => data[copied[c]] = round /\ seen[c] \subseteq {round}
    BY <2>1, <2>2, <2>3 DEF CleanCall, TextComplete
  <2>5. CleanCall(c)'
    BY <2>1, <2>3, <2>4, <1>b DEF CleanCall
  <2>6. ASSUME NEW d \in Client, d # c PROVE CleanCall(d)'
    BY <2>1, <2>6, <1>a, <1>b, OthersClean DEF Section
  <2> QED
    BY <2>1, <1>c, <2>5, <2>6 DEF TextAndCalls
<1>7. ASSUME NEW c \in Client, Unlock(c) \/ Die(c) PROVE TextAndCalls'
  <2>1. /\ pc'[c] = "idle" /\ \A d \in Client : d # c => pc'[d] = pc[d] /\ seen'[d] = seen[d]
        /\ deaths' = deaths \/ deaths' = deaths + 1
        /\ UNCHANGED <<dpc, data, line, round, asked, clean, in, out, signals>>
    BY <1>7, <1>b DEF Unlock, UnlockMutex, Die, ClientDies, Goto, semVars, updateVars, clientVars
  <2>2. CleanCall(c)'
    BY <2>1, <1>a DEF CleanCall
  <2>3. deaths' + signals' = 0 => deaths + signals = 0
    BY <2>1, <1>0
  <2>4. ASSUME NEW d \in Client, d # c PROVE CleanCall(d)'
    BY <2>1, <2>3, <2>4, <1>a, OthersClean
  <2> QED
    BY <2>1, <1>c, <2>2, <2>4 DEF TextAndCalls
<1>8. CASE TakeRequest
  <2>1. /\ dpc = "wait_in" /\ dpc' = "update" /\ in > 0 /\ in' = in - 1
        /\ round' = round + 1 /\ line' = 1 /\ data' = data
        /\ UNCHANGED <<pc, seen, asked, clean, out, deaths, signals>>
    BY <1>8 DEF TakeRequest, BeginUpdate, clientVars
  <2>2. TextInv'
    BY <2>1, ConstantsAssumption DEF TextInv, Line
  <2>3. Busy = 0 /\ Busy' = 1
    BY <2>1 DEF Busy
  <2>4. Outstanding' = Outstanding /\ Outstanding >= 1 + out
    BY <2>1, <2>3, <1>0 DEF Outstanding
  <2>5. ASSUME NEW c \in Client PROVE CleanCall(c)'
    <3>1. CleanCall(c) /\ asked[c] < round'
      BY <2>1, <1>0, <1>a DEF CleanCall
    <3>2. pc[c] \in {"copy", "unlock"} => ~ clean[c]
      BY <2>1, <3>1, <1>0 DEF CleanCall
    <3>3. pc[c] = "wait" /\ clean[c] => Outstanding' <= 1 /\ ~(out' > 0)
      BY <2>1, <2>4, <3>1, <1>0 DEF CleanCall
    <3> QED
      BY <2>1, <3>1, <3>2, <3>3, <1>0 DEF CleanCall
  <2> QED
    BY <2>2, <2>5 DEF TextAndCalls
<1>9. CASE UpdateLine
  <2>1. /\ dpc = "update" /\ dpc' = "update" /\ line \in Line /\ line' = line + 1
        /\ data' = [data EXCEPT ![line] = round]
        /\ UNCHANGED <<round, pc, seen, asked, clean, in, out, deaths, signals>>
    BY <1>9 DEF UpdateLine, WriteLine, clientVars, semVars
  <2>2. TextInv'
    BY <2>1, <1>a, <1>b, ConstantsAssumption DEF TextInv, Line
  <2>3. Busy = 1 /\ Outstanding' = Outstanding
    BY <2>1 DEF Busy, Outstanding
  <2>4. ASSUME NEW c \in Client PROVE CleanCall(c)'
    <3>1. CleanCall(c)
      BY <1>a
    <3>2. pc[c] = "wait" /\ clean[c] => ~(out > 0)
      BY <3>1, <2>3, <1>0 DEF CleanCall, Outstanding
    <3> QED
      BY <2>1, <2>3, <3>1, <3>2 DEF CleanCall
  <2> QED
    BY <2>2, <2>4 DEF TextAndCalls
<1>10. CASE PostOut
  <2>1. /\ dpc = "update" /\ dpc' = "wait_in" /\ line = ModulesN + 1 /\ out' = out + 1
        /\ UNCHANGED <<round, line, data, pc, seen, asked, clean, in, deaths, signals>>
    BY <1>10 DEF PostOut, clientVars, updateVars
  <2>2. TextComplete'
    BY <2>1, <1>a, ConstantsAssumption DEF TextInv, TextComplete, Line
  <2>3. Outstanding' = Outstanding
    BY <2>1, <1>0 DEF Busy, Outstanding
  <2>4. ASSUME NEW c \in Client PROVE CleanCall(c)'
    BY <1>a, <2>1, <2>2, <2>3 DEF CleanCall
  <2> QED
    BY <2>1, <2>2, <2>4 DEF TextAndCalls, TextInv, TextComplete
<1>11. CASE Stop
  <2>1. /\ dpc # "stopped" /\ dpc' = "stopped"
        /\ UNCHANGED <<round, data, pc, seen, asked, clean, in, out, deaths, signals>>
    BY <1>11 DEF Stop, clientVars, updateVars, semVars
  <2>2. Outstanding' <= Outstanding
    BY <2>1, <1>0 DEF Busy, Outstanding
  <2>3. ASSUME NEW c \in Client PROVE CleanCall(c)'
    <3>1. CleanCall(c) /\ TextComplete' = TextComplete
      BY <1>a, <2>1 DEF TextComplete
    <3>2. Outstanding <= 1 => Outstanding' <= 1
      BY <2>1, <2>2, <1>0 DEF Outstanding, Busy
    <3> QED
      BY <2>1, <3>1, <3>2 DEF CleanCall
  <2> QED
    BY <2>1, <2>3 DEF TextAndCalls, TextInv
<1>12. CASE UNCHANGED vars
  BY <1>12, <1>a, <1>c DEF vars, TextAndCalls, CleanCall, TextComplete, Outstanding, Busy
<1> QED
  BY <1>1, <1>2, <1>3, <1>4, <1>5, <1>6, <1>7, <1>8, <1>9, <1>10, <1>11, <1>12
     DEF Next, ClientStep, DaemonStep

LEMMA InvAlways == Spec => []IInv
<1>1. Init => IInv
  BY InitTyped, InitOwner, InitCount, InitText DEF IInv
<1>2. IInv /\ [Next]_vars => IInv'
  BY TypeInductive, OwnerInductive, CountInductive, TextInductive DEF IInv
<1> QED
  BY <1>1, <1>2, PTL DEF Spec

\* A call that began with nothing outstanding, and every call while nobody has
\* died or been interrupted in one, returns lines of one update begun after it.
THEOREM IntactReplies == Spec => []IntactReply
<1>1. IInv => IntactReply
  <2> SUFFICES ASSUME IInv, NEW c \in Client, pc[c] = "unlock",
                      clean[c] \/ deaths + signals = 0
               PROVE  Intact(c) /\ \A v \in seen[c] : v > asked[c]
    BY DEF IntactReply
  <2>1. CleanCall(c)
    BY DEF IInv, TextAndCalls
  <2> QED
    BY <2>1 DEF CleanCall, Intact
<1> QED
  BY <1>1, InvAlways, PTL

-----------------------------------------------------------------------------
(* The calls implement the strict service.                                 *)

LEMMA ReturnedFacts ==
  /\ \A place, lines : place # "idle" \/ lines = {} => Returned(place, lines) = 0
  /\ \A v : Returned("idle", {v}) = v
<1>1. ASSUME NEW v PROVE Returned("idle", {v}) = v
  <2>1. (CHOOSE u \in {v} : TRUE) \in {v}
    OBVIOUS
  <2>2. Returned("idle", {v}) = CHOOSE u \in {v} : TRUE
    BY DEF Returned
  <2> QED
    BY <2>1, <2>2
<1>2. ASSUME NEW place, NEW lines, place # "idle" \/ lines = {}
      PROVE  Returned(place, lines) = 0
  BY <1>2 DEF Returned
<1> QED
  BY <1>1, <1>2

\* What the service sees of the state.
Active == {c \in Client : pc[c] # "idle"}
Replies == [c \in Client |-> IF clean[c] THEN Reply(c) ELSE 0]

LEMMA ServiceInit == Init => Service!Init
<1> SUFFICES ASSUME Init PROVE Service!Init
  OBVIOUS
<1>1. round = 0 /\ asked = [c \in Client |-> 0] /\ Active = {}
  BY DEF Init, SharedInit, Active
<1>2. \A c \in Client : Reply(c) = 0
  BY ReturnedFacts DEF Init, SharedInit, Reply
<1>3. Replies = [c \in Client |-> 0]
  BY <1>2 DEF Replies
<1> QED
  BY <1>1, <1>3 DEF Service!Init, Active, Replies

\* A step in a call of c changes nothing the service sees.
LEMMA InsideCall ==
  ASSUME NEW c \in Client, pc[c] # "idle", pc'[c] # "idle",
         \A d \in Client : d # c => pc'[d] = pc[d] /\ seen'[d] = seen[d] /\ clean'[d] = clean[d],
         UNCHANGED <<round, asked>>
  PROVE  UNCHANGED Service!vars
<1>1. Active' = Active
  BY DEF Active
<1>2. Reply(c) = 0 /\ Reply(c)' = 0
  BY ReturnedFacts DEF Reply
<1>3. \A d \in Client : d # c => Reply(d)' = Reply(d)
  BY DEF Reply
<1>4. Replies' = Replies
  BY <1>2, <1>3 DEF Replies
<1> QED
  BY <1>1, <1>4 DEF Service!vars, Active, Replies

\* The end of a call of c: it returns, or the service sees it aborted.
LEMMA EndOfCall ==
  ASSUME NEW c \in Client, pc[c] # "idle", pc'[c] = "idle",
         \A d \in Client : d # c => pc'[d] = pc[d] /\ seen'[d] = seen[d],
         UNCHANGED <<round, asked, clean>>, round \in Nat,
         clean[c] => seen'[c] = {} \/ (seen'[c] = {round} /\ round > asked[c])
  PROVE  Service!Return(c) \/ Service!Abort(c)
<1>1. c \in Active /\ Active' = Active \ {c}
  BY DEF Active
<1>2. Reply(c) = 0
  BY ReturnedFacts DEF Reply
<1>3. \A d \in Client : d # c => Reply(d)' = Reply(d)
  BY DEF Reply
<1>4. CASE clean[c] /\ seen'[c] = {round}
  <2>1. Reply(c)' = round
    BY <1>4, ReturnedFacts DEF Reply
  <2>2. Replies' = [Replies EXCEPT ![c] = round]
    BY <1>3, <1>4, <2>1 DEF Replies
  <2>3. round \in 0 .. round /\ Service!RecentEnough(c, round)
    BY <1>4 DEF Service!RecentEnough
  <2>4. Service!Return(c)
    BY <1>1, <2>2, <2>3 DEF Service!Return, Active, Replies
  <2> QED
    BY <2>4
<1>5. CASE ~(clean[c] /\ seen'[c] = {round})
  <2>1. clean[c] => Reply(c)' = 0
    BY <1>5, ReturnedFacts DEF Reply
  <2>2. Replies' = Replies
    BY <1>2, <1>3, <2>1 DEF Replies
  <2>3. Service!Abort(c)
    BY <1>1, <2>2 DEF Service!Abort, Active, Replies
  <2> QED
    BY <2>3
<1> QED
  BY <1>4, <1>5

LEMMA ServiceStep == IInv /\ [Next]_vars => [Service!Next]_(Service!vars)
<1> SUFFICES ASSUME IInv, [Next]_vars PROVE [Service!Next]_(Service!vars)
  OBVIOUS
<1>0. /\ pc \in [Client -> {"idle", "lock"} \cup Section]
      /\ seen \in [Client -> SUBSET Nat] /\ clean \in [Client -> BOOLEAN]
      /\ round \in Nat /\ asked \in [Client -> Nat]
      /\ NeverUnrecoverable /\ mutex.state \in MutexState
      /\ \A c \in Client : CleanCall(c)
  BY DEF IInv, TypeInv, TypeOK, SharedTypeOK, OwnerInv, MutexHealthy, TextAndCalls
<1>1. ASSUME NEW c \in Client, Call(c) PROVE Service!Call(c)
  <2>1. /\ pc[c] = "idle" /\ pc' = [pc EXCEPT ![c] = "lock"] /\ seen' = [seen EXCEPT ![c] = {}]
        /\ asked' = [asked EXCEPT ![c] = round] /\ UNCHANGED <<round, clean>>
    BY <1>1 DEF Call, EnterCall, Goto, semVars
  <2>2. c \notin Active /\ Active' = Active \cup {c}
    BY <2>1, <1>0 DEF Active
  <2>3. Reply(c)' = 0 /\ \A d \in Client : d # c => Reply(d)' = Reply(d)
    BY <2>1, <1>0, ReturnedFacts DEF Reply
  <2>4. Replies' = [Replies EXCEPT ![c] = 0]
    BY <2>1, <2>3 DEF Replies
  <2> QED
    BY <2>1, <2>2, <2>4 DEF Service!Call, Active, Replies
<1>2. ASSUME NEW c \in Client,
             Lock(c) \/ Recover(c) \/ GetValue(c) \/ Drain(c) \/ Post(c) \/ Wait(c)
               \/ WaitInterrupted(c) \/ Copy(c)
      PROVE  UNCHANGED Service!vars
  <2>1. /\ pc[c] # "idle"
        /\ pc'[c] # "idle"
        /\ \A d \in Client : d # c => pc'[d] = pc[d]
    <3>1. CASE Lock(c)
      <4>1. pc' = [pc EXCEPT ![c] = AfterLock(mutex, "getvalue")] /\ mutex.owner = NoOwner
        BY <3>1 DEF Lock, LockMutex, Lockable, Goto
      <4>2. mutex.state \in {"ok", "ownerdead"}
        BY <4>1, <1>0 DEF IInv, OwnerInv, MutexHealthy, NeverUnrecoverable, MutexState
      <4>3. AfterLock(mutex, "getvalue") \in {"getvalue", "recover"}
        BY <4>1, <4>2 DEF AfterLock, LockResult
      <4> QED
        BY <3>1, <4>1, <4>3, <1>0 DEF Lock, LockMutex
    <3>2. CASE ~Lock(c)
      BY <3>2, <1>2, <1>0
         DEF Recover, RecoverMutex, GetValue, Drain, Post, Wait, WaitInterrupted, Copy, CopyLine, Goto
    <3> QED
      BY <3>1, <3>2
  <2>2. /\ UNCHANGED <<round, asked>>
        /\ \A d \in Client : d # c => seen'[d] = seen[d] /\ clean'[d] = clean[d]
    BY <1>2, <1>0
       DEF Lock, LockMutex, Recover, RecoverMutex, GetValue, Drain, Post, Wait,
           WaitInterrupted, Copy, CopyLine, updateVars, clientVars, semVars
  <2> QED
    BY <2>1, <2>2, InsideCall
<1>3. ASSUME NEW c \in Client, Unlock(c) \/ Die(c) PROVE Service!Return(c) \/ Service!Abort(c)
  <2>1. /\ pc[c] # "idle" /\ pc'[c] = "idle"
        /\ \A d \in Client : d # c => pc'[d] = pc[d] /\ seen'[d] = seen[d]
        /\ UNCHANGED <<round, asked, clean>>
    BY <1>3, <1>0 DEF Unlock, UnlockMutex, Die, ClientDies, Goto, updateVars, clientVars, semVars
  <2>2. clean[c] => seen'[c] = {} \/ (seen'[c] = {round} /\ round > asked[c])
    <3>1. CASE Unlock(c)
      <4>1. pc[c] = "unlock" /\ seen' = seen
        BY <3>1 DEF Unlock, UnlockMutex, clientVars
      <4>2. clean[c] => seen[c] \subseteq {round} /\ round > asked[c]
        BY <4>1, <1>0 DEF CleanCall
      <4> QED
        BY <4>1, <4>2
    <3>2. CASE Die(c)
      BY <3>2, <1>0 DEF Die, ClientDies
    <3> QED
      BY <1>3, <3>1, <3>2
  <2> QED
    BY <2>1, <2>2, <1>0, EndOfCall
<1>4. CASE TakeRequest
  BY <1>4 DEF TakeRequest, BeginUpdate, clientVars, Service!Next, Service!Refresh, Reply
<1>5. CASE UpdateLine \/ PostOut \/ Stop \/ UNCHANGED vars
  BY <1>5 DEF UpdateLine, WriteLine, PostOut, Stop, updateVars, clientVars, semVars, vars,
              Service!vars, Reply
<1> QED
  BY <1>1, <1>2, <1>3, <1>4, <1>5 DEF Next, ClientStep, DaemonStep, Service!Next

\* The calls of this mode are those of the strict service: a call that began with
\* nothing outstanding returns one snapshot, begun after it.
THEOREM ImplementsService == Spec => ServiceSpec
<1> QED
  BY InvAlways, ServiceInit, ServiceStep, PTL DEF Spec, ServiceSpec, Service!Spec
=============================================================================
