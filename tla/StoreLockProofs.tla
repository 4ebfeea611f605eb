-------------------------- MODULE StoreLockProofs --------------------------
(***************************************************************************)
(* The safety of the lock, for any number of threads and processes: the    *)
(* inductive invariant LockInv says who holds what in each step of a call; *)
(* mutual exclusion follows from it.                                       *)
(***************************************************************************)
EXTENDS StoreLock, TLAPS

\* The first state: nobody is in a call and nothing is held.
LEMMA LockInit == ASSUME Init PROVE LockInv
BY LockAssumption
   DEF Init, LockInv, TypeOK, Steps, NoOrphanLock, HoldersKnown, OwnerExcludes

\* A call begins.
LEMMA BeginKeeps ==
  ASSUME LockInv, NEW t \in Thread, BeginWrite(t) \/ BeginRead(t)
  PROVE  LockInv'
<1>1. CASE BeginWrite(t)
  BY <1>1, LockAssumption
     DEF BeginWrite, Goto, LockInv, TypeOK, Steps, NoOrphanLock, HoldersKnown,
         OwnerExcludes, Writes, lockFile
<1>2. CASE BeginRead(t)
  BY <1>2, LockAssumption
     DEF BeginRead, Goto, LockInv, TypeOK, Steps, NoOrphanLock, HoldersKnown,
         OwnerExcludes, Writes, lockFile
<1> QED BY <1>1, <1>2

\* A writer takes the mutex, and gives it back at the end.
LEMMA MutexKeeps ==
  ASSUME LockInv, NEW t \in Thread, LockMutex(t) \/ UnlockMutex(t)
  PROVE  LockInv'
<1> USE LockAssumption
<1>1. CASE LockMutex(t)
  <2>1. TypeOK'
    BY <1>1 DEF LockMutex, Goto, LockInv, TypeOK, Steps, lockFile
  <2>2. NoOrphanLock'
    BY <1>1 DEF LockMutex, Goto, LockInv, TypeOK, NoOrphanLock, HoldersKnown, Writes, lockFile
  <2>3. HoldersKnown'
    BY <1>1 DEF LockMutex, Goto, LockInv, TypeOK, HoldersKnown, lockFile
  <2>4. OwnerExcludes'
    BY <1>1 DEF LockMutex, LockInv, OwnerExcludes, lockFile
  <2> QED BY <2>1, <2>2, <2>3, <2>4 DEF LockInv
<1>2. CASE UnlockMutex(t)
  <2>1. TypeOK'
    BY <1>2 DEF UnlockMutex, Goto, LockInv, TypeOK, Steps, lockFile
  <2>2. NoOrphanLock'
    BY <1>2 DEF UnlockMutex, Goto, LockInv, TypeOK, NoOrphanLock, HoldersKnown, Writes, lockFile
  <2>3. HoldersKnown'
    BY <1>2 DEF UnlockMutex, Goto, LockInv, TypeOK, HoldersKnown, lockFile
  <2>4. OwnerExcludes'
    BY <1>2 DEF UnlockMutex, LockInv, OwnerExcludes, lockFile
  <2> QED BY <2>1, <2>2, <2>3, <2>4 DEF LockInv
<1> QED BY <1>1, <1>2

\* The lock file is taken and released.
LEMMA LockFileKeeps ==
  ASSUME LockInv, NEW t \in Thread, Acquire(t) \/ Release(t)
  PROVE  LockInv'
<1> USE LockAssumption
<1>1. CASE Acquire(t)
  <2>1. TypeOK'
    BY <1>1 DEF Acquire, Goto, LockInv, TypeOK, Steps
  <2>2. NoOrphanLock'
    BY <1>1 DEF Acquire, FreeFor, Goto, LockInv, TypeOK, NoOrphanLock, HoldersKnown, Writes
  <2>3. HoldersKnown'
    BY <1>1 DEF Acquire, FreeFor, Goto, LockInv, TypeOK, HoldersKnown
  <2>4. OwnerExcludes'
    BY <1>1 DEF Acquire, FreeFor, LockInv, TypeOK, OwnerExcludes
  <2> QED BY <2>1, <2>2, <2>3, <2>4 DEF LockInv
<1>2. CASE Release(t)
  <2>1. TypeOK'
    BY <1>2 DEF Release, Goto, LockInv, TypeOK, Steps
  <2>2. NoOrphanLock'
    BY <1>2 DEF Release, Goto, LockInv, TypeOK, NoOrphanLock, HoldersKnown, Writes
  <2>3. HoldersKnown'
    BY <1>2 DEF Release, Goto, LockInv, TypeOK, NoOrphanLock, HoldersKnown, Writes
  <2>4. OwnerExcludes'
    BY <1>2 DEF Release, LockInv, OwnerExcludes
  <2> QED BY <2>1, <2>2, <2>3, <2>4 DEF LockInv
<1> QED BY <1>1, <1>2

\* Waiting for the lock file changes nothing that is held.
LEMMA WaitKeeps ==
  ASSUME LockInv, NEW t \in Thread,
         Retry(t) \/ Wake(t) \/ GiveUp(t) \/ Fail(t) \/ Deadline(t) \/ BareDone(t)
  PROVE  LockInv'
<1> USE LockAssumption
        DEF LockInv, TypeOK, Steps, NoOrphanLock, HoldersKnown, OwnerExcludes, Writes, lockFile
<1>1. CASE Retry(t)
  BY <1>1 DEF Retry, Goto
<1>2. CASE Wake(t)
  BY <1>2 DEF Wake, Goto
<1>3. CASE GiveUp(t)
  BY <1>3 DEF GiveUp, Goto
<1>4. CASE Deadline(t)
  BY <1>4 DEF Deadline
<1>5. CASE BareDone(t)
  BY <1>5 DEF BareDone, Goto
<1>6. CASE Fail(t)
  BY <1>6 DEF Fail, Goto
<1> QED BY <1>1, <1>2, <1>3, <1>4, <1>5, <1>6

\* A process dies with whatever its threads hold.
LEMMA CrashKeeps == ASSUME LockInv, NEW p \in Process, Crash(p) PROVE LockInv'
<1> USE LockAssumption
<1>1. TypeOK'
  BY DEF Crash, ThreadsOf, LockInv, TypeOK, Steps
<1>2. NoOrphanLock'
  <2>1. owner' # NoThread => Writes(owner)'
    BY DEF Crash, ThreadsOf, LockInv, TypeOK, NoOrphanLock, Writes
  <2>2. \A t \in sharers' : pc'[t] = "locked" /\ kind'[t] = "read"
    BY DEF Crash, ThreadsOf, LockInv, TypeOK, NoOrphanLock
  <2>3. ASSUME NEW q \in Process, mutex'[q] # NoThread
        PROVE  /\ ProcOf[mutex'[q]] = q
               /\ kind'[mutex'[q]] = "write" /\ pc'[mutex'[q]] \in {"try", "sleep", "locked", "unlock"}
    <3>1. q # p /\ mutex'[q] = mutex[q]
      BY <2>3 DEF Crash, LockInv, TypeOK
    <3>2. mutex[q] \in Thread /\ ProcOf[mutex[q]] = q
      BY <2>3, <3>1 DEF LockInv, TypeOK, NoOrphanLock
    <3> QED BY <3>1, <3>2, <2>3 DEF Crash, ThreadsOf, LockInv, TypeOK, NoOrphanLock
  <2> QED BY <2>1, <2>2, <2>3 DEF NoOrphanLock
<1>3. HoldersKnown'
  BY DEF Crash, ThreadsOf, LockInv, TypeOK, HoldersKnown
<1>4. OwnerExcludes'
  BY DEF Crash, ThreadsOf, LockInv, TypeOK, OwnerExcludes
<1> QED BY <1>1, <1>2, <1>3, <1>4 DEF LockInv

\* Every step keeps the invariant.
LEMMA LockNext == ASSUME LockInv, [Next]_vars PROVE LockInv'
<1>1. CASE \E t \in Thread :
             BeginWrite(t) \/ BeginRead(t) \/ LockMutex(t) \/ Run(t) \/ Fail(t) \/ Deadline(t)
  BY <1>1, BeginKeeps, MutexKeeps, LockFileKeeps, WaitKeeps DEF Run
<1>2. CASE InitStore
  BY <1>2 DEF InitStore, LockInv, TypeOK, NoOrphanLock, HoldersKnown, OwnerExcludes, Writes, lockFile
<1>3. CASE \E p \in Process : Crash(p)
  BY <1>3, CrashKeeps
<1>4. CASE UNCHANGED vars
  BY <1>4 DEF vars, LockInv, TypeOK, NoOrphanLock, HoldersKnown, OwnerExcludes, Writes, lockFile
<1> QED BY <1>1, <1>2, <1>3, <1>4 DEF Next

\* Who holds the lock file and the mutexes is known in every reachable state.
THEOREM LockInvariant == Spec => []LockInv
<1> QED BY LockInit, LockNext, PTL DEF Spec

\* While a writer works on the store nobody else works on it under the lock,
\* whatever threads and processes there are and whichever of them die.
THEOREM MutualExclusion == Spec => []WritersExclude
<1>1. LockInv => WritersExclude
  BY LockAssumption DEF LockInv, TypeOK, HoldersKnown, OwnerExcludes, WritersExclude, Writes
<1> QED BY <1>1, LockInvariant, PTL

\* The writers of one process contend for the lock file one at a time.
THEOREM OneContender == Spec => []OneWriterContends
<1>1. LockInv => OneWriterContends
  BY DEF LockInv, HoldersKnown, OneWriterContends, Contends
<1> QED BY <1>1, LockInvariant, PTL

\* No timeout, error or crash leaves a lock behind.
THEOREM LocksGivenBack == Spec => []NoOrphanLock
<1>1. LockInv => NoOrphanLock
  BY DEF LockInv
<1> QED BY <1>1, LockInvariant, PTL
=============================================================================
