----------------------------- MODULE ReadService -----------------------------
(***************************************************************************)
(* What sys_mon_read_data promises (README: "synced access"), without      *)
(* mutex, semaphores or shared memory: the daemon takes snapshots, and a   *)
(* call returns one whole snapshot that is recent enough.  With Strict the *)
(* snapshot was begun after the call; without, it is at least as recent as *)
(* the last one finished before the call.                                  *)
(***************************************************************************)
EXTENDS Naturals

CONSTANTS Client,   \* the client processes
          Strict    \* whether a snapshot begun before the call is too old

VARIABLES version,  \* the newest snapshot
          active,   \* clients in a call
          floor,    \* the newest snapshot when each client called
          reply     \* what each client's last call returned, 0 for nothing

vars == <<version, active, floor, reply>>

Init ==
  /\ version = 0
  /\ active = {}
  /\ floor = [c \in Client |-> 0]
  /\ reply = [c \in Client |-> 0]

Refresh ==
  /\ version' = version + 1
  /\ UNCHANGED <<active, floor, reply>>

Call(c) ==
  /\ c \notin active
  /\ active' = active \cup {c}
  /\ floor' = [floor EXCEPT ![c] = version]
  /\ reply' = [reply EXCEPT ![c] = 0]
  /\ UNCHANGED version

RecentEnough(c, v) == v > floor[c] \/ (~Strict /\ v = floor[c])

Return(c) ==
  /\ c \in active
  /\ active' = active \ {c}
  /\ \E v \in 0 .. version :
       /\ RecentEnough(c, v)
       /\ reply' = [reply EXCEPT ![c] = v]
  /\ UNCHANGED <<version, floor>>

\* The client dies in the call and gets nothing.
Abort(c) ==
  /\ c \in active
  /\ active' = active \ {c}
  /\ UNCHANGED <<version, floor, reply>>

Next == Refresh \/ \E c \in Client : Call(c) \/ Return(c) \/ Abort(c)

Spec == Init /\ [][Next]_vars
=============================================================================
