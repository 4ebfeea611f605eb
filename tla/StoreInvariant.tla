-------------------------- MODULE StoreInvariant --------------------------
(***************************************************************************)
(* The inductive invariant of the store: who may be where when the lock is *)
(* held, what the holder knows between two of its steps, and what is true  *)
(* of the logs and the objects at all times.                               *)
(***************************************************************************)
EXTENDS StoreHistory

\* The lock is exclusive or shared, its holder is the only one in a writing
\* step, and a shared holder is inside Get.
LockInv ==
  /\ writer # NoProc => readers = {}
  /\ \A p \in Proc :
       /\ pc[p] \in WriteStep => writer = p
       /\ pc[p] = "unlock" /\ call[p].kind # "get" => writer = p
       /\ writer = p => pc[p] \in WriteStep \cup {"unlock"}
       /\ p \in readers => pc[p] \in ReadStep \cup {"unlock"}

\* A log that has lines has a newest one.
LogsHaveNewest ==
  \A f \in File : HasLast(log[f]) => \E i \in DOMAIN log[f] : IsNewest(log[f], i)

\* The line about to be appended continues the log as it is.
LineFits(p) ==
  LET L == LogOf(p)
      l == line[p]
  IN /\ l.hash \in objects
     /\ l.label = "first-seen" <=> ~HasLast(L)
     /\ l.label = "modify" => Last(L).hash # l.hash \/ Last(L).label = "delete"
     /\ l.label = "delete" => Last(L).hash = l.hash /\ Last(L).label # "delete"
     /\ seen[p] # Absent /\ l.label # "restore" => l.hash = seen[p] /\ l.label # "delete"
     /\ seen[p] = Absent => l.label \in {"delete", "pre-restore", "restore"}
     /\ l.label = "restore" => Last(L).label = "pre-restore"
     /\ l.label \in {"pre-restore", "restore"} <=> Forced(p)

\* What a collection leaves out is never the newest line, nor a safeguard whose
\* restore it keeps.
DropIsSafe(p) ==
  \A f \in File : \A i \in drop[p][f] :
    /\ ~IsNewest(log[f], i)
    /\ "gc" \notin Ops => \A j \in DOMAIN log[f] : Paired(log[f], i, j) => j \in drop[p][f]

\* What each process relies on from one of its steps to the next.
LocalInv(p) ==
  /\ pc[p] # "idle" => call[p].kind \in Ops
  /\ pc[p] = "lock" => call[p].kind # "get"
  /\ pc[p] \in {"validate", "apply"} => Forced(p)
  /\ pc[p] \in {"open", "stream", "append"} => call[p].kind \in {"record", "restore"}
  /\ pc[p] \in {"plan", "rewrite", "sweep"} => call[p].kind \in {"gc", "gc-by-size"}
  /\ pc[p] \in ReadStep \cup {"shared"} => call[p].kind = "get"
  /\ pc[p] \in {"open", "stream", "append", "apply"} /\ Forced(p) => TargetInLog(p)
  /\ pc[p] = "stream" => seen[p] # Absent
  /\ pc[p] = "append" => LineFits(p)
  /\ pc[p] \in {"idle", "lock", "plan"} => referenced[p] = {}
  /\ pc[p] = "rewrite" => DropIsSafe(p) /\ referenced[p] = InUse(File \ todo[p])
  /\ pc[p] = "sweep" => referenced[p] = InUse(File)

PairsKept == "gc" \notin Ops => RestoreHasSafeguard

\* What is true of the logs, whoever is working on them.
LogInv == LogsHaveNewest /\ StrictTimestamps /\ PairsKept /\ OnlyChangesRecorded

\* What is true of one process.
ProcInv(p) ==
  /\ LocalInv(p)
  /\ SafeguardTaken(p)
  /\ p \in readers => Fetches(p)
  /\ Captured(p)
  /\ Collected(p) => objects = InUse(File)

\* What a collection leaves of a log: the logs it has rewritten are done with.
Remains(p, f) ==
  Without(log[f], IF pc[p] = "rewrite" /\ f \in todo[p] THEN drop[p][f] ELSE {})
RemainingLines(p) == UNION {{f} \X DOMAIN Remains(p, f) : f \in File}

\* From its plan on, a collection by size is on its way to the budget or to the
\* floor; the pool has finitely many objects to add up.
Sized(p) ==
  /\ call[p].kind = "gc-by-size"
  /\ pc[p] \in {"rewrite", "sweep"} \/ (pc[p] = "unlock" /\ result[p] = "ok")
BudgetMet(p) ==
  \/ BytesOf(RemainingLines(p)) <= MaxBytes
  \/ \A f \in File : DOMAIN Remains(p, f) \subseteq Pinned(Remains(p, f))
BudgetInv ==
  /\ IsFiniteSet(objects)
  /\ \A p \in Proc : Sized(p) => BudgetMet(p)

\* The inductive invariant: it implies every state property of the store but
\* BudgetOrFloor, which follows from BudgetInv.
StoreInv ==
  /\ TypeOK
  /\ LockInv
  /\ LogInv
  /\ ObjectsBacked
  /\ \A p \in Proc : ProcInv(p)
=============================================================================
