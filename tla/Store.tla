------------------------------- MODULE Store -------------------------------
(***************************************************************************)
(* The revision store of salvager (store/store.go): a pool of objects named *)
(* by the hash of their bytes, one log of revisions per file, and one lock *)
(* file that the processes working on a project (the watcher service, the  *)
(* command line, the MCP server) take exclusive to write and shared to     *)
(* read an object.                                                         *)
(*                                                                         *)
(* A process here is a thread of any of them: each makes one call at a     *)
(* time, and the lock excludes two threads of one process as well, since   *)
(* each opens the lock file for itself.  A call is cut where the code      *)
(* touches the file system, so that another process, the user's editor,    *)
(* the clock and a crash come between any two steps.  A hash is identified *)
(* with the content it is the SHA-256 of.                                  *)
(***************************************************************************)
EXTENDS RevisionLog, FiniteSetsExt

CONSTANTS
  Proc,          \* the processes that use the store
  File,          \* the files of the project
  Content,       \* what a file may hold
  Size,          \* the number of bytes of a content
  PathRank,      \* the order of the files by path
  MaxFileBytes,  \* the cap above which Record skips a file
  MaxAge,        \* the age, in clock ticks, beyond which GC drops a revision
  MaxBytes,      \* the budget of GCBySize
  Ops,           \* the calls made in this configuration
  MaxOps,        \* bound: how many calls are made in all
  MaxClock,      \* bound: the last value of the wall clock
  ClockMayStepBack, \* whether the wall clock may be set back
  Absent,        \* no such file on disk
  NoHash,        \* the empty hash field
  NoProc         \* nobody holds the exclusive lock

Kind == {"record", "restore", "get", "gc", "gc-by-size"}

ASSUME StoreAssumption ==
  /\ Absent \notin Content /\ NoHash \notin Content /\ NoProc \notin Proc
  /\ Size \in [Content -> Nat]
  /\ PathRank \in [File -> Nat]
  /\ \A f, g \in File : PathRank[f] = PathRank[g] => f = g
  /\ File # {}
  /\ MaxFileBytes \in Nat /\ MaxAge \in Nat /\ MaxBytes \in Nat
  /\ MaxOps \in Nat /\ MaxClock \in Nat
  /\ Ops \subseteq Kind
  /\ ClockMayStepBack \in BOOLEAN

VARIABLES
  disk,     \* the working tree: disk[f] is the content of f, or Absent
  clock,    \* the wall clock, in milliseconds (nowFunc)
  created,  \* whether the directory .salvager exists
  objects,  \* the contents under .salvager/objects
  log,      \* log[f]: the readable lines of .salvager/index/<f>.log
  writer,   \* who holds the lock file exclusive
  readers,  \* who holds it shared
  opCount,  \* how many calls were made (bounded by MaxOps)
  pc,       \* what each process does next
  call,     \* the call each process makes, with its arguments
  seen,     \* what the open file descriptor of record() reads
  line,     \* the label and hash about to be appended
  target,   \* the revision Restore or Get looked up
  drop,     \* drop[p][f]: the lines of f a collection leaves out
  todo,     \* the files a collection has not treated yet
  referenced, \* the hashes a collection found still in use
  result    \* how the call ended

treeVars   == <<disk, clock>>
storeVars  == <<created, objects, log>>
lockVars   == <<writer, readers>>
gcVars     == <<drop, todo, referenced>>
localVars  == <<call, seen, line, target, drop, todo, referenced, result>>
vars == <<disk, clock, created, objects, log, writer, readers, opCount, pc,
          call, seen, line, target, drop, todo, referenced, result>>

Hash == Content \cup {NoHash}
Revision == [ts : Nat, hash : Hash, label : Label]
Line == [hash : Hash, label : Label]

AnyFile == CHOOSE f \in File : TRUE
NoCall == [kind |-> "none", file |-> AnyFile, at |-> 0]
NoLine == [hash |-> NoHash, label |-> "modify"]
NoDrop == [f \in File |-> {}]

\* The steps a process takes while it holds the lock exclusive.
WriteStep == {"validate", "open", "stream", "append", "apply",
              "plan", "rewrite", "sweep"}
ReadStep == {"lookup", "fetch"}
Working == WriteStep \cup ReadStep \cup {"unlock"}

FileOf(p) == call[p].file
LogOf(p) == log[FileOf(p)]
Forced(p) == call[p].kind = "restore"
-----------------------------------------------------------------------------
Init ==
  /\ disk \in [File -> Content \cup {Absent}]
  /\ clock = 1
  /\ created = FALSE
  /\ objects = {}
  /\ log = [f \in File |-> EmptyLog]
  /\ writer = NoProc
  /\ readers = {}
  /\ opCount = 0
  /\ pc = [p \in Proc |-> "idle"]
  /\ call = [p \in Proc |-> NoCall]
  /\ seen = [p \in Proc |-> Absent]
  /\ line = [p \in Proc |-> NoLine]
  /\ target = [p \in Proc |-> NoLine]
  /\ drop = [p \in Proc |-> NoDrop]
  /\ todo = [p \in Proc |-> {}]
  /\ referenced = [p \in Proc |-> {}]
  /\ result = [p \in Proc |-> "none"]

Goto(p, step) == pc' = [pc EXCEPT ![p] = step]
Ends(p, r) == result' = [result EXCEPT ![p] = r] /\ Goto(p, "unlock")

-----------------------------------------------------------------------------
(* The calls of the store and its lock.                                    *)

Begin(p, c, step) ==
  /\ pc[p] = "idle"
  /\ c.kind \in Ops
  /\ opCount < MaxOps
  /\ opCount' = opCount + 1
  /\ call' = [call EXCEPT ![p] = c]
  /\ Goto(p, step)
  /\ UNCHANGED <<treeVars, storeVars, lockVars, seen, line, target, gcVars, result>>

BeginRecord(p, f) ==
  Begin(p, [kind |-> "record", file |-> f, at |-> 0], "lock")

\* The caller took the timestamp from List, which needs no lock; by the time
\* the lock is held the revision may be gone.
BeginRestore(p, f) ==
  \E i \in DOMAIN log[f] :
    Begin(p, [kind |-> "restore", file |-> f, at |-> log[f][i].ts], "lock")

BeginGC(p, k) ==
  /\ k \in {"gc", "gc-by-size"}
  /\ Begin(p, [kind |-> k, file |-> AnyFile, at |-> 0], "lock")

\* Get takes the shared lock only when .salvager exists at the time it looks.
BeginGet(p, f) ==
  \E t \in 1 .. MaxClock :
    Begin(p, [kind |-> "get", file |-> f, at |-> t],
          IF created THEN "shared" ELSE "lookup")

\* A mutant: writers wait for writers only.
AcquireExclusivePastReaders(p) ==
  /\ pc[p] = "lock"
  /\ writer = NoProc
  /\ writer' = p
  /\ created' = TRUE
  /\ Goto(p, CASE call[p].kind = "record" -> "open"
               [] call[p].kind = "restore" -> "validate"
               [] OTHER -> "plan")
  /\ UNCHANGED <<treeVars, objects, log, readers, opCount, localVars>>

\* The call makes the directory before it waits for the lock; that others see
\* it earlier is the action InitStore.
AcquireExclusive(p) ==
  /\ pc[p] = "lock"
  /\ writer = NoProc /\ readers = {}
  /\ writer' = p
  /\ created' = TRUE
  /\ Goto(p, CASE call[p].kind = "record" -> "open"
               [] call[p].kind = "restore" -> "validate"
               [] OTHER -> "plan")
  /\ UNCHANGED <<treeVars, objects, log, readers, opCount, localVars>>

AcquireShared(p) ==
  /\ pc[p] = "shared"
  /\ writer = NoProc
  /\ readers' = readers \cup {p}
  /\ Goto(p, "lookup")
  /\ UNCHANGED <<treeVars, storeVars, writer, opCount, localVars>>

\* The store as the process leaves it: the lock is dropped and every local of
\* the call is gone.
Leave(p) ==
  /\ writer' = IF writer = p THEN NoProc ELSE writer
  /\ readers' = readers \ {p}
  /\ Goto(p, "idle")
  /\ call' = [call EXCEPT ![p] = NoCall]
  /\ seen' = [seen EXCEPT ![p] = Absent]
  /\ line' = [line EXCEPT ![p] = NoLine]
  /\ target' = [target EXCEPT ![p] = NoLine]
  /\ drop' = [drop EXCEPT ![p] = NoDrop]
  /\ todo' = [todo EXCEPT ![p] = {}]
  /\ referenced' = [referenced EXCEPT ![p] = {}]
  /\ result' = [result EXCEPT ![p] = "none"]
  /\ UNCHANGED <<treeVars, storeVars, opCount>>

\* The wait is over and the lock was held by somebody all along: the call
\* fails without a step.
LockTimeout(p) ==
  /\ \/ pc[p] = "lock" /\ (writer # NoProc \/ readers # {})
     \/ pc[p] = "shared" /\ writer # NoProc
  /\ Leave(p)

Unlock(p) == pc[p] = "unlock" /\ Leave(p)

\* The process is killed, or a file operation fails and the call returns its
\* error: either way the lock goes and what was written so far stays.
Abort(p) == pc[p] \in Working \cup {"lock", "shared"} /\ Leave(p)
-----------------------------------------------------------------------------
(* record(): the body of Record, and with a forced label the safeguard of  *)
(* Restore.                                                                *)

ToAppend(p, label, hash) ==
  line' = [line EXCEPT ![p] = [hash |-> hash, label |-> label]] /\ Goto(p, "append")

\* The file is gone from disk: a safeguard says so with the last known hash,
\* a plain Record writes a deletion once.
OpenAbsent(p) ==
  /\ pc[p] = "open" /\ disk[FileOf(p)] = Absent
  /\ IF Forced(p)
       THEN /\ ToAppend(p, "pre-restore", IF HasLast(LogOf(p)) THEN Last(LogOf(p)).hash ELSE NoHash)
            /\ UNCHANGED result
       ELSE IF ~HasLast(LogOf(p)) \/ Last(LogOf(p)).label = "delete"
         THEN Ends(p, "ok") /\ UNCHANGED line
         ELSE ToAppend(p, "delete", Last(LogOf(p)).hash) /\ UNCHANGED result
  /\ seen' = [seen EXCEPT ![p] = Absent]
  /\ UNCHANGED <<treeVars, storeVars, lockVars, opCount, call, target, gcVars>>

\* A file over the cap is skipped without an error, unless it is a safeguard.
OverCap(p, c) == ~Forced(p) /\ Size[c] > MaxFileBytes

\* A mutant: the cap skips safeguards too, and the restore goes on without.
OpenPresentCapped(p) ==
  /\ pc[p] = "open" /\ disk[FileOf(p)] # Absent
  /\ seen' = [seen EXCEPT ![p] = disk[FileOf(p)]]
  /\ IF Size[disk[FileOf(p)]] > MaxFileBytes
       THEN IF Forced(p) THEN Goto(p, "apply") /\ UNCHANGED result ELSE Ends(p, "ok")
       ELSE Goto(p, "stream") /\ UNCHANGED result
  /\ UNCHANGED <<treeVars, storeVars, lockVars, opCount, call, line, target, gcVars>>

OpenPresent(p) ==
  /\ pc[p] = "open" /\ disk[FileOf(p)] # Absent
  /\ seen' = [seen EXCEPT ![p] = disk[FileOf(p)]]
  /\ IF OverCap(p, disk[FileOf(p)])
       THEN Ends(p, "ok")
       ELSE Goto(p, "stream") /\ UNCHANGED result
  /\ UNCHANGED <<treeVars, storeVars, lockVars, opCount, call, line, target, gcVars>>

\* A mutant: a file that came back as it was deleted counts as unchanged.
UnchangedHash(p, c) ==
  ~Forced(p) /\ HasLast(LogOf(p)) /\ Last(LogOf(p)).hash = c

\* The bytes streamed are those of the file opened, or of what was written
\* into it since; the object is in place before the log names it.
Unchanged(p, c) ==
  /\ ~Forced(p) /\ HasLast(LogOf(p))
  /\ Last(LogOf(p)).hash = c /\ Last(LogOf(p)).label # "delete"

CaptureStream(p) ==
  /\ pc[p] = "stream"
  /\ \E c \in {seen[p], disk[FileOf(p)]} \ {Absent} :
       /\ seen' = [seen EXCEPT ![p] = c]
       /\ objects' = objects \cup {c}
       /\ IF Unchanged(p, c)
            THEN Ends(p, "ok") /\ UNCHANGED line
            ELSE /\ ToAppend(p, IF Forced(p) THEN "pre-restore"
                              ELSE IF HasLast(LogOf(p)) THEN "modify"
                              ELSE "first-seen", c)
                 /\ UNCHANGED result
  /\ UNCHANGED <<treeVars, created, log, lockVars, opCount, call, target, gcVars>>

\* A mutant: a line of the same millisecond is not moved.
NextTimestampTie(L) ==
  IF HasLast(L) /\ clock < Last(L).ts THEN Last(L).ts + 1 ELSE clock

\* The new line's time: now, but always after the line before it.
NextTimestamp(L) ==
  IF HasLast(L) /\ clock <= Last(L).ts THEN Last(L).ts + 1 ELSE clock

AppendLog(p) ==
  /\ pc[p] = "append"
  /\ log' = [log EXCEPT ![FileOf(p)] =
       Appended(@, [ts |-> NextTimestamp(@), hash |-> line[p].hash, label |-> line[p].label])]
  /\ IF line[p].label = "pre-restore"
       THEN Goto(p, "apply") /\ UNCHANGED result
       ELSE Ends(p, "ok")
  /\ UNCHANGED <<treeVars, created, objects, lockVars, opCount,
                 call, seen, line, target, gcVars>>

-----------------------------------------------------------------------------
(* Restore.                                                                *)

\* The target is looked up before anything is written.
RestoreValidate(p) ==
  /\ pc[p] = "validate"
  /\ \/ /\ FirstAt(LogOf(p), call[p].at) = {}
        /\ Ends(p, "error") /\ UNCHANGED target
     \/ \E i \in FirstAt(LogOf(p), call[p].at) :
          /\ target' = [target EXCEPT ![p] = [hash |-> LogOf(p)[i].hash, label |-> LogOf(p)[i].label]]
          /\ Goto(p, "open") /\ UNCHANGED result
  /\ UNCHANGED <<treeVars, storeVars, lockVars, opCount, call, seen, line, gcVars>>

\* The safeguard is in the log: now the working tree is changed, by a remove
\* or by a temporary file renamed over the path.
RestoreApply(p) ==
  /\ pc[p] = "apply"
  /\ IF target[p].label # "delete" /\ target[p].hash \notin objects
       THEN Ends(p, "error") /\ UNCHANGED <<disk, line>>
       ELSE /\ disk' = [disk EXCEPT ![FileOf(p)] =
                         IF target[p].label = "delete" THEN Absent ELSE target[p].hash]
            /\ ToAppend(p, "restore", target[p].hash)
            /\ UNCHANGED result
  /\ UNCHANGED <<clock, storeVars, lockVars, opCount, call, seen, target, gcVars>>

-----------------------------------------------------------------------------
(* Get.                                                                    *)

GetLookup(p) ==
  /\ pc[p] = "lookup"
  /\ LET found == {i \in FirstAt(LogOf(p), call[p].at) : LogOf(p)[i].label # "delete"}
     IN \/ /\ found = {}
           /\ Ends(p, "error") /\ UNCHANGED target
        \/ \E i \in found :
             /\ target' = [target EXCEPT ![p] = [hash |-> LogOf(p)[i].hash, label |-> LogOf(p)[i].label]]
             /\ Goto(p, "fetch") /\ UNCHANGED result
  /\ UNCHANGED <<treeVars, storeVars, lockVars, opCount, call, seen, line, gcVars>>

GetFetch(p) ==
  /\ pc[p] = "fetch"
  /\ Ends(p, IF target[p].hash \in objects THEN "ok" ELSE "error")
  /\ UNCHANGED <<treeVars, storeVars, lockVars, opCount,
                 call, seen, line, target, gcVars>>

-----------------------------------------------------------------------------
(* Retention: GC drops by age, GCBySize by size; both then rewrite the logs *)
(* one by one and sweep the objects no log refers to.                      *)

AllLines == UNION {{f} \X DOMAIN log[f] : f \in File}

\* A mutant: age alone decides.
ExpiredUnpinned(f) ==
  {i \in DOMAIN log[f] : log[f][i].ts + MaxAge < clock}

\* Lines older than the cutoff go, except the pinned ones.
Expired(f) ==
  {i \in DOMAIN log[f] : log[f][i].ts + MaxAge < clock} \ Pinned(log[f])

\* The bytes of the objects that a set of lines refers to, each counted once.
BytesOf(lines) ==
  MapThenSumSet(LAMBDA h : IF h \in objects THEN Size[h] ELSE 0,
                {log[x[1]][x[2]].hash : x \in lines} \ {NoHash})

\* A mutant: no line is pinned.
EvictableAll(f) == DOMAIN log[f]

Evictable(f) == DOMAIN log[f] \ Pinned(log[f])

\* Units are evicted oldest first, ties in the order of the paths.
EvictedBefore(f, i) ==
  {x \in AllLines :
     /\ x[2] \in Evictable(x[1])
     /\ LET a == log[x[1]][UnitHead(log[x[1]], x[2])].ts
            b == log[f][UnitHead(log[f], i)].ts
        IN a < b \/ (a = b /\ PathRank[x[1]] < PathRank[f])}

\* A mutant: the eviction ends one unit early.
OverBudgetEarly(f) ==
  {i \in Evictable(f) :
     BytesOf(AllLines \ (EvictedBefore(f, i) \cup {<<f, j>> : j \in Unit(log[f], i)})) > MaxBytes}

\* A unit is evicted when what is left without the units before it is still
\* over the budget.
OverBudget(f) ==
  {i \in Evictable(f) : BytesOf(AllLines \ EvictedBefore(f, i)) > MaxBytes}

PlanRewrite(p, gone) ==
  /\ drop' = [drop EXCEPT ![p] = gone]
  /\ todo' = [todo EXCEPT ![p] = File]
  /\ Goto(p, "rewrite")
  /\ UNCHANGED <<treeVars, storeVars, lockVars, opCount,
                 call, seen, line, target, referenced, result>>

GCPlan(p) ==
  /\ pc[p] = "plan" /\ call[p].kind = "gc"
  /\ PlanRewrite(p, [f \in File |-> Expired(f)])

\* Within the budget already: nothing is touched.
GCBySizeNoop(p) ==
  /\ pc[p] = "plan" /\ call[p].kind = "gc-by-size"
  /\ BytesOf(AllLines) <= MaxBytes
  /\ Ends(p, "ok")
  /\ UNCHANGED <<treeVars, storeVars, lockVars, opCount,
                 call, seen, line, target, gcVars>>

GCBySizePlan(p) ==
  /\ pc[p] = "plan" /\ call[p].kind = "gc-by-size"
  /\ BytesOf(AllLines) > MaxBytes
  /\ PlanRewrite(p, [f \in File |-> OverBudget(f)])

\* A mutant: the hashes of a log that lost no line are not collected.
RewriteLogUncollected(p, f) ==
  /\ pc[p] = "rewrite" /\ f \in todo[p]
  /\ log' = [log EXCEPT ![f] = Without(@, drop[p][f])]
  /\ referenced' = IF drop[p][f] = {} THEN referenced
                   ELSE [referenced EXCEPT ![p] = @ \cup HashesOf(Without(log[f], drop[p][f]))]
  /\ todo' = [todo EXCEPT ![p] = @ \ {f}]
  /\ IF todo[p] = {f} THEN Goto(p, "sweep") ELSE UNCHANGED pc
  /\ UNCHANGED <<treeVars, created, objects, lockVars, opCount,
                 call, seen, line, target, drop, result>>

\* One log is replaced by a rename; its surviving hashes are in use.
RewriteLog(p, f) ==
  /\ pc[p] = "rewrite" /\ f \in todo[p]
  /\ log' = [log EXCEPT ![f] = Without(@, drop[p][f])]
  /\ referenced' = [referenced EXCEPT ![p] = @ \cup HashesOf(Without(log[f], drop[p][f]))]
  /\ todo' = [todo EXCEPT ![p] = @ \ {f}]
  /\ IF todo[p] = {f} THEN Goto(p, "sweep") ELSE UNCHANGED pc
  /\ UNCHANGED <<treeVars, created, objects, lockVars, opCount,
                 call, seen, line, target, drop, result>>

\* The sweep removes the other objects one file at a time.
SweepObject(p) ==
  /\ pc[p] = "sweep"
  /\ \E h \in objects \ referenced[p] : objects' = objects \ {h}
  /\ UNCHANGED <<treeVars, created, log, lockVars, opCount, pc, localVars>>

\* A mutant: the sweep stops before the last object and reports success.
SweepDoneEarly(p) ==
  /\ pc[p] = "sweep"
  /\ Ends(p, "ok")
  /\ UNCHANGED <<treeVars, storeVars, lockVars, opCount,
                 call, seen, line, target, gcVars>>

SweepDone(p) ==
  /\ pc[p] = "sweep" /\ objects \subseteq referenced[p]
  /\ Ends(p, "ok")
  /\ UNCHANGED <<treeVars, storeVars, lockVars, opCount,
                 call, seen, line, target, gcVars>>

-----------------------------------------------------------------------------
(* The rest of the world: the user's editor and the wall clock.            *)

Edit(f) ==
  /\ \E c \in Content \cup {Absent} : disk' = [disk EXCEPT ![f] = c]
  /\ UNCHANGED <<clock, storeVars, lockVars, opCount, pc, localVars>>

Tick ==
  /\ \E t \in 1 .. MaxClock :
       /\ t > clock \/ ClockMayStepBack
       /\ clock' = t
  /\ UNCHANGED <<disk, storeVars, lockVars, opCount, pc, localVars>>

\* The watcher creates the directory when it starts, without the lock.
InitStore ==
  /\ created' = TRUE
  /\ UNCHANGED <<treeVars, objects, log, lockVars, opCount, pc, localVars>>

-----------------------------------------------------------------------------
BeginCall(p) ==
  \/ \E f \in File : BeginRecord(p, f) \/ BeginRestore(p, f) \/ BeginGet(p, f)
  \/ \E k \in {"gc", "gc-by-size"} : BeginGC(p, k)

\* The steps the process owes once it made a call.
Step(p) ==
  \/ AcquireExclusive(p) \/ AcquireShared(p) \/ LockTimeout(p) \/ Unlock(p)
  \/ OpenAbsent(p) \/ OpenPresent(p) \/ CaptureStream(p) \/ AppendLog(p)
  \/ RestoreValidate(p) \/ RestoreApply(p)
  \/ GetLookup(p) \/ GetFetch(p)
  \/ GCPlan(p) \/ GCBySizeNoop(p) \/ GCBySizePlan(p)
  \/ \E f \in File : RewriteLog(p, f)
  \/ SweepObject(p) \/ SweepDone(p)

Next ==
  \/ \E p \in Proc : BeginCall(p) \/ Step(p) \/ Abort(p)
  \/ \E f \in File : Edit(f)
  \/ Tick
  \/ InitStore

Spec == Init /\ [][Next]_vars

\* The objects the logs of some files refer to.
InUse(files) == UNION {HashesOf(log[f]) : f \in files}

-----------------------------------------------------------------------------
(* Properties.                                                             *)

Steps == {"idle", "lock", "shared"} \cup Working

\* Every variable holds what its declaration says.
TypeOK ==
  /\ disk \in [File -> Content \cup {Absent}]
  /\ clock \in Nat
  /\ created \in BOOLEAN
  /\ objects \subseteq Content
  /\ DOMAIN log = File
  /\ \A f \in File :
       /\ DOMAIN log[f] \subseteq Nat \ {0}
       /\ log[f] \in [DOMAIN log[f] -> Revision]
  /\ writer \in Proc \cup {NoProc}
  /\ readers \subseteq Proc
  /\ opCount \in Nat
  /\ pc \in [Proc -> Steps]
  /\ call \in [Proc -> [kind : Kind \cup {"none"}, file : File, at : Nat]]
  /\ seen \in [Proc -> Content \cup {Absent}]
  /\ line \in [Proc -> Line]
  /\ target \in [Proc -> Line]
  /\ drop \in [Proc -> [File -> SUBSET Nat]]
  /\ todo \in [Proc -> SUBSET File]
  /\ referenced \in [Proc -> SUBSET Hash]
  /\ result \in [Proc -> {"none", "ok", "error"}]

\* Whatever process died where, the object of every revision that a log names
\* is in the pool, so that the revision can be read and restored; no line has
\* an empty hash.
ObjectsBacked == \A f \in File : HashesOf(log[f]) \subseteq objects

\* The timestamps of a file's revisions strictly increase, whichever process
\* wrote them and wherever the clock went: a timestamp names one revision.
StrictTimestamps ==
  \A f \in File : \A i, j \in DOMAIN log[f] : i < j => log[f][i].ts < log[f][j].ts

\* P1: no step takes a file's newest revision away, a collection that dies
\* half way included.
NewestSurvives ==
  [][\A f \in File : \A i \in DOMAIN log[f] :
       IsNewest(log[f], i) => i \in DOMAIN log'[f] /\ log'[f][i] = log[f][i]]_vars

\* P2: a restore in the log is preceded by the safeguard that undoes it.
RestoreHasSafeguard ==
  \A f \in File : \A j \in DOMAIN log[f] :
    log[f][j].label = "restore" => \E i \in DOMAIN log[f] : Paired(log[f], i, j)

\* What Record leaves behind when it returns without an error.
Captured(p) ==
  pc[p] = "unlock" /\ call[p].kind = "record" /\ result[p] = "ok" =>
    IF seen[p] = Absent
      THEN HasLast(LogOf(p)) => Last(LogOf(p)).label = "delete"
      ELSE \/ Size[seen[p]] > MaxFileBytes
           \/ /\ HasLast(LogOf(p))
              /\ Last(LogOf(p)).hash = seen[p] /\ Last(LogOf(p)).label # "delete"

\* When Record returns without an error, the newest revision of the file is
\* what Record read, unless the file is over the cap; of an absent file the
\* newest revision, if there is one, is a deletion.
RecordCaptures == \A p \in Proc : Captured(p)

\* The same without the exception for the cap: what the documents promise.
EveryRecordCaptures ==
  \A p \in Proc :
    pc[p] = "unlock" /\ call[p].kind = "record" /\ result[p] = "ok" /\ seen[p] # Absent
      => HasLast(LogOf(p)) /\ Last(LogOf(p)).hash = seen[p]

\* Only changes are recorded: "first-seen" opens a history and nothing else
\* does, a modification differs from the revision before it or follows a
\* deletion, and a deletion is recorded once.
OnlyChangesRecorded ==
  \A f \in File : \A i \in DOMAIN log[f] :
    /\ (log[f][i].label = "first-seen") <=> (i = 1)
    /\ i - 1 \in DOMAIN log[f] =>
         /\ log[f][i].label = "modify" =>
              log[f][i].hash # log[f][i - 1].hash \/ log[f][i - 1].label = "delete"
         /\ log[f][i].label = "delete" =>
              log[f][i].hash = log[f][i - 1].hash /\ log[f][i - 1].label # "delete"

\* The revision a Restore looked up is still in the log.
TargetInLog(p) ==
  \E i \in DOMAIN LogOf(p) :
    LogOf(p)[i].hash = target[p].hash /\ LogOf(p)[i].label = target[p].label

SafeguardTaken(p) ==
  pc[p] = "apply" =>
    /\ HasLast(LogOf(p)) /\ Last(LogOf(p)).label = "pre-restore"
    /\ seen[p] # Absent => Last(LogOf(p)).hash = seen[p]
    /\ TargetInLog(p)

\* When Restore is about to change the working tree, the content it read there
\* is the newest revision, labelled as its safeguard, and the revision it
\* restores is in the log.
SafeguardFirst == \A p \in Proc : SafeguardTaken(p)

\* What a restore replaces in the working tree is in the file's history.
NothingUnsavedOverwritten ==
  [][\A p \in Proc : pc[p] = "apply" /\ pc'[p] = "append" =>
       disk[FileOf(p)] \in HashesOf(LogOf(p)) \cup {Absent}]_vars

Fetches(p) == pc[p] = "fetch" => target[p].hash \in objects

\* Under the shared lock the object of the revision Get found is there when it
\* opens it: no sweep comes in between.
LockedGetFinds == \A p \in Proc : p \in readers => Fetches(p)

\* The same for every Get, one that found no store to lock included.
GetFinds == \A p \in Proc : Fetches(p)

Collected(p) ==
  /\ pc[p] = "unlock" /\ result[p] = "ok"
  /\ call[p].kind = "gc" \/ (call[p].kind = "gc-by-size" /\ referenced[p] # {})

\* A collection that ended well leaves exactly the objects the logs refer to:
\* those that interrupted captures left behind are gone too.
CollectionIsExact == \A p \in Proc : Collected(p) => objects = InUse(File)

\* Retention by size ends within the budget or at the floor where only pinned
\* revisions are left.
BudgetOrFloor ==
  \A p \in Proc :
    pc[p] = "unlock" /\ result[p] = "ok" /\ call[p].kind = "gc-by-size" =>
      BytesOf(AllLines) <= MaxBytes \/ \A f \in File : Evictable(f) = {}
=============================================================================
