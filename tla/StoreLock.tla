----------------------------- MODULE StoreLock -----------------------------
(***************************************************************************)
(* How the calls of the store take its lock.  A writer first takes the     *)
(* mutex of its process, then the lock file, exclusive; Get takes the lock *)
(* file shared, without the mutex, and only if the store exists.  The lock *)
(* file is polled: try, sleep, try again, until a deadline.  The calls do  *)
(* not end in number here, so that a caller can starve; what they do under *)
(* the lock is in module Store.                                            *)
(***************************************************************************)
CONSTANTS
  Thread,    \* the goroutines that call the store
  Process,   \* the processes they run in
  ProcOf,    \* the process of each thread
  NoThread   \* nobody holds it

ASSUME LockAssumption == ProcOf \in [Thread -> Process] /\ NoThread \notin Thread

VARIABLES
  exists,   \* whether the directory .salvager exists
  mutex,    \* s.mu of each process
  owner,    \* who holds the lock file exclusive
  sharers,  \* who holds it shared
  kind,     \* what each thread wants to do, "write" or "read"
  late,     \* whether the deadline of the thread's wait has passed
  pc        \* where each thread is

lockFile == <<owner, sharers>>
vars == <<exists, mutex, owner, sharers, kind, late, pc>>

Steps == {"idle", "mutex", "try", "sleep", "locked", "bare", "unlock"}

Goto(t, step) == pc' = [pc EXCEPT ![t] = step]

Init ==
  /\ exists \in BOOLEAN
  /\ mutex = [p \in Process |-> NoThread]
  /\ owner = NoThread
  /\ sharers = {}
  /\ kind = [t \in Thread |-> "read"]
  /\ late = [t \in Thread |-> FALSE]
  /\ pc = [t \in Thread |-> "idle"]

BeginWrite(t) ==
  /\ pc[t] = "idle"
  /\ kind' = [kind EXCEPT ![t] = "write"]
  /\ Goto(t, "mutex")
  /\ UNCHANGED <<exists, mutex, lockFile, late>>

\* A reader that finds no store takes no lock and creates nothing.
BeginRead(t) ==
  /\ pc[t] = "idle"
  /\ kind' = [kind EXCEPT ![t] = "read"]
  /\ late' = [late EXCEPT ![t] = FALSE]
  /\ Goto(t, IF exists THEN "try" ELSE "bare")
  /\ UNCHANGED <<exists, mutex, lockFile>>

\* The writer is alone in its process; it creates the store if need be and
\* starts to wait for the lock file.
LockMutex(t) ==
  /\ pc[t] = "mutex"
  /\ mutex[ProcOf[t]] = NoThread
  /\ mutex' = [mutex EXCEPT ![ProcOf[t]] = t]
  /\ exists' = TRUE
  /\ late' = [late EXCEPT ![t] = FALSE]
  /\ Goto(t, "try")
  /\ UNCHANGED <<lockFile, kind>>

\* A mutant: the lock is taken shared by everybody.
FreeForShared(t) == owner = NoThread

\* What the kernel grants at once.
FreeFor(t) == owner = NoThread /\ (kind[t] = "write" => sharers = {})

Acquire(t) ==
  /\ pc[t] = "try" /\ FreeFor(t)
  /\ IF kind[t] = "write"
       THEN owner' = t /\ UNCHANGED sharers
       ELSE sharers' = sharers \cup {t} /\ UNCHANGED owner
  /\ Goto(t, "locked")
  /\ UNCHANGED <<exists, mutex, kind, late>>

\* A mutant: the deadline is not looked at.
RetryForever(t) ==
  /\ pc[t] = "try" /\ ~FreeFor(t)
  /\ Goto(t, "sleep")
  /\ UNCHANGED <<exists, mutex, lockFile, kind, late>>

Retry(t) ==
  /\ pc[t] = "try" /\ ~FreeFor(t) /\ ~late[t]
  /\ Goto(t, "sleep")
  /\ UNCHANGED <<exists, mutex, lockFile, kind, late>>

Wake(t) ==
  /\ pc[t] = "sleep"
  /\ Goto(t, "try")
  /\ UNCHANGED <<exists, mutex, lockFile, kind, late>>

\* A mutant: the call returns from the timeout with the mutex locked.
GiveUpLocked(t) ==
  /\ pc[t] = "try" /\ ~FreeFor(t) /\ late[t]
  /\ Goto(t, "idle")
  /\ UNCHANGED <<exists, mutex, lockFile, kind, late>>

\* The lock is still busy when the deadline has passed: the call fails.
GiveUp(t) ==
  /\ pc[t] = "try" /\ ~FreeFor(t) /\ late[t]
  /\ Goto(t, IF kind[t] = "write" THEN "unlock" ELSE "idle")
  /\ UNCHANGED <<exists, mutex, lockFile, kind, late>>

\* The lock file cannot be opened or locked at all: the call fails at once.
Fail(t) ==
  /\ pc[t] = "try"
  /\ Goto(t, IF kind[t] = "write" THEN "unlock" ELSE "idle")
  /\ UNCHANGED <<exists, mutex, lockFile, kind, late>>

Deadline(t) ==
  /\ pc[t] \in {"try", "sleep"} /\ ~late[t]
  /\ late' = [late EXCEPT ![t] = TRUE]
  /\ UNCHANGED <<exists, mutex, lockFile, kind, pc>>

\* The call is done, well or with an error: the lock file goes first.
Release(t) ==
  /\ pc[t] = "locked"
  /\ owner' = IF owner = t THEN NoThread ELSE owner
  /\ sharers' = sharers \ {t}
  /\ Goto(t, IF kind[t] = "write" THEN "unlock" ELSE "idle")
  /\ UNCHANGED <<exists, mutex, kind, late>>

UnlockMutex(t) ==
  /\ pc[t] = "unlock"
  /\ mutex' = [mutex EXCEPT ![ProcOf[t]] = NoThread]
  /\ Goto(t, "idle")
  /\ UNCHANGED <<exists, lockFile, kind, late>>

BareDone(t) ==
  /\ pc[t] = "bare"
  /\ Goto(t, "idle")
  /\ UNCHANGED <<exists, mutex, lockFile, kind, late>>

\* The watcher creates the store when it starts, without a lock.
InitStore ==
  /\ ~exists /\ exists' = TRUE
  /\ UNCHANGED <<mutex, lockFile, kind, late, pc>>

ThreadsOf(p) == {t \in Thread : ProcOf[t] = p}

\* The process dies: the kernel closes its files and with them drops its locks.
Crash(p) ==
  /\ \E t \in ThreadsOf(p) : pc[t] # "idle"
  /\ pc' = [t \in Thread |-> IF t \in ThreadsOf(p) THEN "idle" ELSE pc[t]]
  /\ mutex' = [mutex EXCEPT ![p] = NoThread]
  /\ owner' = IF owner \in ThreadsOf(p) THEN NoThread ELSE owner
  /\ sharers' = sharers \ ThreadsOf(p)
  /\ UNCHANGED <<exists, kind, late>>

\* The steps of a thread inside a call, the mutex aside.
Run(t) ==
  \/ Acquire(t) \/ Retry(t) \/ Wake(t) \/ GiveUp(t)
  \/ Release(t) \/ UnlockMutex(t) \/ BareDone(t)

Next ==
  \/ \E t \in Thread :
       BeginWrite(t) \/ BeginRead(t) \/ LockMutex(t) \/ Run(t) \/ Fail(t) \/ Deadline(t)
  \/ InitStore
  \/ \E p \in Process : Crash(p)

\* A thread inside a call keeps running, whatever it does under the lock ends,
\* and time passes.  A Go mutex hands itself to a thread that waits too long,
\* so nobody is passed over for ever; nothing of the kind is assumed of the
\* lock file.
Fairness ==
  \A t \in Thread :
    WF_vars(Run(t)) /\ WF_vars(Deadline(t)) /\ SF_vars(LockMutex(t))

Spec == Init /\ [][Next]_vars /\ Fairness
-----------------------------------------------------------------------------
TypeOK ==
  /\ exists \in BOOLEAN
  /\ mutex \in [Process -> Thread \cup {NoThread}]
  /\ owner \in Thread \cup {NoThread}
  /\ sharers \subseteq Thread
  /\ kind \in [Thread -> {"write", "read"}]
  /\ late \in [Thread -> BOOLEAN]
  /\ pc \in [Thread -> Steps]

Writes(t) == pc[t] = "locked" /\ kind[t] = "write"

\* Nobody else works on the store under its lock while a writer does.
WritersExclude ==
  \A t, u \in Thread : Writes(t) /\ u # t => pc[u] # "locked"

Contends(t) == kind[t] = "write" /\ pc[t] \in {"try", "sleep", "locked"}

\* At most one writer of a process contends for the lock file.
OneWriterContends ==
  \A t, u \in Thread : Contends(t) /\ Contends(u) /\ ProcOf[t] = ProcOf[u] => t = u

\* No lock is held by a thread that is not in the call that took it: a
\* timeout, an error and a crash all give back what was taken.
NoOrphanLock ==
  /\ owner # NoThread => Writes(owner)
  /\ \A t \in sharers : pc[t] = "locked" /\ kind[t] = "read"
  /\ \A p \in Process : mutex[p] # NoThread =>
       /\ ProcOf[mutex[p]] = p
       /\ kind[mutex[p]] = "write" /\ pc[mutex[p]] \in {"try", "sleep", "locked", "unlock"}

\* Every call returns, with a result or a timeout, although other processes
\* keep taking the lock and readers may never leave it free.
CallsReturn == \A t \in Thread : (pc[t] # "idle") ~> (pc[t] = "idle")

-----------------------------------------------------------------------------
\* The converse of NoOrphanLock: who works has the lock, and a writer its mutex.
HoldersKnown ==
  \A t \in Thread :
    /\ pc[t] = "locked" => IF kind[t] = "write" THEN owner = t ELSE t \in sharers
    /\ kind[t] = "write" /\ pc[t] \in {"try", "sleep", "locked", "unlock"}
         => mutex[ProcOf[t]] = t
    /\ kind[t] = "read" => pc[t] \notin {"mutex", "unlock"}
    /\ kind[t] = "write" => pc[t] # "bare"

OwnerExcludes == owner # NoThread => sharers = {}

\* The inductive invariant.
LockInv == TypeOK /\ NoOrphanLock /\ HoldersKnown /\ OwnerExcludes
=============================================================================
