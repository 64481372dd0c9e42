----------------------------- MODULE RobustMutex -----------------------------
(***************************************************************************)
(* The process-shared robust mutex of shared_buf.h, as values: what the    *)
(* POSIX calls that sys-mon.c and client.c make do to it.  pthread code is *)
(* outside the repository; it is modelled from how src/ uses it.           *)
(***************************************************************************)
CONSTANT NoOwner        \* the owner field of a mutex nobody holds

MutexState == {"ok", "ownerdead", "inconsistent", "notrecoverable"}

FreshMutex == [owner |-> NoOwner, state |-> "ok"]

\* pthread_mutex_lock blocks while somebody holds the mutex.
Lockable(m) == m.owner = NoOwner

\* What pthread_mutex_lock returns once it does not block any more.
LockResult(m) == IF m.state = "ok" THEN "0"
                 ELSE IF m.state = "ownerdead" THEN "EOWNERDEAD"
                 ELSE "ENOTRECOVERABLE"

\* The mutex after p's pthread_mutex_lock: with ENOTRECOVERABLE it is not taken.
Locked(m, p) ==
  IF LockResult(m) = "ENOTRECOVERABLE" THEN m
  ELSE [owner |-> p,
        state |-> IF LockResult(m) = "EOWNERDEAD" THEN "inconsistent" ELSE "ok"]

MadeConsistent(m) == IF m.state = "inconsistent" THEN [m EXCEPT !.state = "ok"] ELSE m

\* A robust mutex refuses (EPERM) to be unlocked by anybody but its owner, and
\* is lost for good when the owner unlocks it before making it consistent.
Unlocked(m, p) ==
  IF m.owner # p THEN m
  ELSE [owner |-> NoOwner,
        state |-> IF m.state = "inconsistent" THEN "notrecoverable" ELSE m.state]

\* p's process ends: the kernel walks its robust list.
Abandoned(m, p) == IF m.owner = p THEN [owner |-> NoOwner, state |-> "ownerdead"] ELSE m
=============================================================================
