---------------------------- MODULE StoreBatch ----------------------------
(***************************************************************************)
(* Restoring many files at once and undoing it (RestoreAt, UndoRestoreAt   *)
(* in store/store.go, the commands around them in main.go, the tool in     *)
(* mcp/mcp.go).  A batch works under one hold of the write lock, file by   *)
(* file; only the editor, the clock, a failing file operation or a crash   *)
(* come between its steps.  The other calls of the store are atomic here,  *)
(* module Store cuts them into steps.  The command line keeps the window   *)
(* of its last batch in a file that it reads and writes without the lock.  *)
(***************************************************************************)
EXTENDS RevisionLog

CONSTANTS
  File,       \* the files of the project
  Content,    \* what a file may hold, identified with its hash
  PathRank,   \* the order of the files by path
  Dir,        \* the directories a batch may be asked for, as sets of files
  Instant,    \* the instants a batch may be asked for
  Front,      \* who asks for batches: "cli", "mcp" or both
  Calls,      \* the calls made in this configuration
  MayFail,    \* whether file operations of a batch may fail
  CallsApart, \* what apart may be
  ClockMayStepBack, \* whether the wall clock may be set back
  MaxCalls,   \* bound: how many calls are made in all
  MaxEdits,   \* bound: how often the user edits a file
  MaxClock,   \* bound: the last value of the wall clock
  Absent,     \* no such file on disk
  NoWindow    \* there is no file .salvager/last-restore-at

\* A line of every file, 0 for none; and the file .salvager/last-restore-at, with
\* the safeguards it is to lead to.
LineMap == [File -> Nat]
Window == [first : Nat, last : Nat, dir : SUBSET File, pre : LineMap]

ASSUME BatchAssumption ==
  /\ Absent \notin Content /\ NoWindow \notin Window
  /\ PathRank \in [File -> Nat]
  /\ \A f, g \in File : PathRank[f] = PathRank[g] => f = g
  /\ Dir \subseteq SUBSET File /\ Instant \subseteq Nat
  /\ Front \subseteq {"cli", "mcp"}
  /\ Calls \subseteq {"record", "restore", "restore-at", "undo"}
  /\ CallsApart \cup {MayFail, ClockMayStepBack} \subseteq BOOLEAN
  /\ {MaxCalls, MaxEdits, MaxClock} \subseteq Nat

VARIABLES
  apart,     \* whether each call starts later than every recorded time
  disk,      \* the working tree: disk[f] is a content or Absent
  clock,     \* the wall clock in milliseconds
  log,       \* log[f]: the lines of .salvager/index/<f>.log
  window,    \* .salvager/last-restore-at
  owed,      \* what the command line has yet to do outside of the lock
  callCount, \* how many calls were made
  editCount, \* how many edits were made
  pc,        \* the next step of the batch that holds the lock, or "idle"
  job,       \* what that batch does
  todo,      \* the files it has yet to look at
  target,    \* the revision it restores the current file to
  maxPre,    \* the latest safeguard among its results
  restored,  \* its results: the files it reports as restored
  pre,       \* history: the line of each safeguard it has written
  changed,   \* history: the files it has changed on disk
  touched,   \* history: the files edited since it began
  lastPre    \* history: the safeguards of the last batch that changed a file

vars == <<apart, disk, clock, log, window, owed, callCount, editCount, pc, job, todo, target,
          maxPre, restored, pre, changed, touched, lastPre>>
worldVars == <<disk, clock, editCount, touched>>
batchVars == <<pc, job, todo, target, maxPre, restored, pre, changed, lastPre>>

NoPre == [f \in File |-> 0]
Of(m) == {f \in File : m[f] # 0}
NoJob == [kind |-> "none", front |-> "cli", dir |-> {}, at |-> 0,
          first |-> 0, last |-> 0, pre |-> NoPre]
NoTarget == [hash |-> Absent, label |-> "delete"]

\* Whoever calls the store finds the lock free.
LockFree == pc = "idle"

\* The new line's time: now, but always after the line before it.
NextTimestamp(L) ==
  IF HasLast(L) /\ clock <= Last(L).ts THEN Last(L).ts + 1 ELSE clock

\* A line, with the fact whether the file is absent in the state it stands for.
Put(L, label, hash, gone) ==
  Appended(L, [ts |-> NextTimestamp(L), hash |-> hash, label |-> label, gone |-> gone])

\* The safeguard of an absent file carries the last known hash.
WithSafeguard(f) ==
  Put(log[f], "pre-restore", IF disk[f] = Absent THEN Last(log[f]).hash ELSE disk[f],
      disk[f] = Absent)

Init ==
  /\ apart \in CallsApart
  /\ disk \in [File -> Content \cup {Absent}]
  /\ clock = 1
  /\ log = [f \in File |-> EmptyLog]
  /\ window = NoWindow
  /\ owed = {}
  /\ callCount = 0 /\ editCount = 0
  /\ pc = "idle" /\ job = NoJob /\ todo = {} /\ target = NoTarget
  /\ maxPre = 0 /\ restored = {}
  /\ pre = NoPre /\ changed = {} /\ touched = {} /\ lastPre = NoPre

\* The windows that are saved, about to be or read for an undo.
Windows == ({window} \cup {o.window : o \in owed}) \ {NoWindow}

\* The clock is later than every time in a log and the end of every window.
Apart ==
  apart => /\ \A f \in File : \A i \in DOMAIN log[f] : log[f][i].ts < clock
           /\ \A w \in Windows : w.last < clock

Counted(kind) ==
  /\ kind \in Calls /\ callCount < MaxCalls
  /\ callCount' = callCount + 1

Call(kind) == LockFree /\ Apart /\ Counted(kind)
-----------------------------------------------------------------------------
(* Calls for one file.                                                     *)

\* A file whose newest revision is what is on disk is left alone.
Record(f) ==
  /\ Call("record")
  /\ LET L == log[f]
         new == IF disk[f] # Absent
                  THEN ~HasLast(L) \/ Last(L).hash # disk[f] \/ Last(L).label = "delete"
                  ELSE HasLast(L) /\ Last(L).label # "delete"
         label == IF disk[f] = Absent THEN "delete"
                  ELSE IF HasLast(L) THEN "modify" ELSE "first-seen"
     IN log' = IF new
          THEN [log EXCEPT ![f] = Put(L, label, IF disk[f] = Absent THEN Last(L).hash ELSE disk[f],
                                      disk[f] = Absent)]
          ELSE log
  /\ UNCHANGED <<worldVars, window, owed, batchVars>>

\* A restore by somebody else, to any revision of the file.
Restore(f) ==
  /\ Call("restore")
  /\ \E i \in DOMAIN log[f] :
       LET to == log[f][i]
           gone == to.label = "delete"
       IN /\ disk' = [disk EXCEPT ![f] = IF gone THEN Absent ELSE to.hash]
          /\ log' = [log EXCEPT ![f] = Put(WithSafeguard(f), "restore", to.hash, gone)]
  /\ UNCHANGED <<clock, editCount, touched, window, owed, batchVars>>
-----------------------------------------------------------------------------
(* What a batch and its undo have in common: restoreLocked of one file     *)
(* after the other, in the order of the paths.                             *)

Begin(j) ==
  /\ pc' = "pick" /\ job' = j
  /\ todo' = {f \in j.dir : HasLast(log[f])}
  /\ maxPre' = 0 /\ restored' = {} /\ pre' = NoPre /\ changed' = {} /\ touched' = {}
  /\ UNCHANGED <<disk, clock, editCount, log, window, target, lastPre>>

IsCurrent(f) == f \in todo /\ \A g \in todo : PathRank[f] <= PathRank[g]

\* The file is left alone.
Skip(f) == todo' = todo \ {f} /\ UNCHANGED <<pc, target>>

RestoreTo(r) ==
  /\ target' = [hash |-> r.hash, label |-> r.label]
  /\ pc' = "safeguard" /\ UNCHANGED todo

Safeguard(f) ==
  /\ pc = "safeguard" /\ IsCurrent(f)
  /\ log' = [log EXCEPT ![f] = WithSafeguard(f)]
  /\ pre' = [pre EXCEPT ![f] = NextLine(log[f])]
  /\ pc' = "rewrite"
  /\ UNCHANGED <<worldVars, window, owed, callCount, job, todo, target, maxPre, restored, changed, lastPre>>

Rewrite(f) ==
  /\ pc = "rewrite" /\ IsCurrent(f)
  /\ disk' = [disk EXCEPT ![f] = target.hash]
  /\ changed' = changed \cup {f}
  /\ pc' = "mark"
  /\ UNCHANGED <<clock, editCount, touched, log, window, owed, callCount, job, todo, target, maxPre, restored, pre, lastPre>>

\* The result is noted when restoreLocked has returned without an error.
Mark(f) ==
  /\ pc = "mark" /\ IsCurrent(f)
  /\ log' = [log EXCEPT ![f] = Put(@, "restore", target.hash, FALSE)]
  /\ LET ts == log[f][pre[f]].ts IN maxPre' = IF ts > maxPre THEN ts ELSE maxPre
  /\ restored' = restored \cup {f}
  /\ todo' = todo \ {f}
  /\ pc' = "pick"
  /\ UNCHANGED <<worldVars, window, owed, callCount, job, target, pre, changed, lastPre>>

\* A file operation fails and the batch stops with what it has done.
Fail ==
  /\ MayFail /\ pc \in {"pick", "safeguard", "rewrite", "mark"}
  /\ pc' = "failed"
  /\ UNCHANGED <<worldVars, log, window, owed, callCount, job, todo, target,
                 maxPre, restored, pre, changed, lastPre>>

\* The process dies, and the lock with it.
Crash ==
  /\ pc # "idle"
  /\ pc' = "idle" /\ job' = NoJob /\ todo' = {} /\ target' = NoTarget
  /\ maxPre' = 0 /\ restored' = {} /\ pre' = NoPre /\ changed' = {}
  /\ lastPre' = IF job.kind = "restore-at" /\ changed # {} THEN pre ELSE lastPre
  /\ UNCHANGED <<worldVars, log, window, owed, callCount>>

\* The lock is released; what is owed comes later.
End(debts) ==
  /\ owed' = owed \cup debts
  /\ pc' = "idle" /\ job' = NoJob /\ todo' = {} /\ target' = NoTarget
  /\ maxPre' = 0 /\ restored' = {} /\ pre' = NoPre /\ changed' = {}
  /\ lastPre' = IF job.kind = "restore-at" /\ changed # {} THEN pre ELSE lastPre
  /\ UNCHANGED <<worldVars, log, window, callCount>>

Worked == pc = "pick" /\ todo = {}
-----------------------------------------------------------------------------
(* RestoreAt.                                                              *)

BatchBegin(front, dir, at) ==
  /\ Call("restore-at")
  /\ Begin([NoJob EXCEPT !.kind = "restore-at", !.front = front, !.dir = dir, !.at = at,
                        !.first = clock])
  /\ UNCHANGED owed

\* The newest line at or before an instant is the last one that is.
StateAt(L, at) ==
  LET before == {i \in DOMAIN L : L[i].ts <= at}
  IN {i \in before : \A j \in before : j <= i}

\* A mutant: deletions are restored too.
BatchPickExact(f) ==
  /\ pc = "pick" /\ job.kind = "restore-at" /\ IsCurrent(f)
  /\ LET differs == {i \in StateAt(log[f], job.at) : log[f][i].hash # disk[f]}
     IN \/ differs = {} /\ Skip(f)
        \/ \E i \in differs : RestoreTo(log[f][i])
  /\ UNCHANGED <<worldVars, log, window, owed, callCount, job, maxPre, restored, pre, changed, lastPre>>

\* No revision by then, a deletion, or nothing to change: the file is skipped.
BatchPick(f) ==
  /\ pc = "pick" /\ job.kind = "restore-at" /\ IsCurrent(f)
  /\ LET differs == {i \in StateAt(log[f], job.at) :
                       log[f][i].label # "delete" /\ log[f][i].hash # disk[f]}
     IN \/ differs = {} /\ Skip(f)
        \/ \E i \in differs : RestoreTo(log[f][i])
  /\ UNCHANGED <<worldVars, log, window, owed, callCount, job, maxPre, restored, pre, changed, lastPre>>

\* A mutant: the window ends now.
WindowEndNow == clock

\* The end of the window: now, but not before the last safeguard reported.
WindowEnd == IF maxPre > clock THEN maxPre ELSE clock

\* The command line saves the window of a batch that restored something; the
\* tool hands it to the agent.
BatchEnd ==
  /\ job.kind = "restore-at" /\ (Worked \/ pc = "failed")
  /\ End(IF job.front = "cli" /\ restored # {}
           THEN {[op |-> "save",
                  window |-> [first |-> job.first, last |-> WindowEnd, dir |-> job.dir, pre |-> pre]]}
           ELSE {})

SaveWindow(o) ==
  /\ o \in owed /\ o.op = "save"
  /\ window' = o.window
  /\ owed' = owed \ {o}
  /\ UNCHANGED <<worldVars, log, callCount, batchVars>>

\* The command line dies before it has paid what it owes.
Forget(o) ==
  /\ o \in owed
  /\ owed' = owed \ {o}
  /\ UNCHANGED <<worldVars, log, window, callCount, batchVars>>
-----------------------------------------------------------------------------
(* UndoRestoreAt.                                                          *)

\* The window is read before the lock is taken.
UndoRead ==
  /\ window # NoWindow /\ Counted("undo")
  /\ owed' = owed \cup {[op |-> "undo", window |-> window]}
  /\ UNCHANGED <<worldVars, log, window, batchVars>>

UndoBegin(o) ==
  /\ o \in owed /\ o.op = "undo" /\ LockFree /\ Apart
  /\ Begin([NoJob EXCEPT !.kind = "undo", !.dir = o.window.dir, !.first = o.window.first,
                        !.last = o.window.last, !.pre = o.window.pre])
  /\ owed' = owed \ {o}
  /\ UNCHANGED callCount

\* A mutant: the latest safeguard at or after the start of the window.
InWindowOpenEnd(L) ==
  LET pres == {i \in DOMAIN L : L[i].label = "pre-restore" /\ L[i].ts >= job.first}
  IN {i \in pres : \A j \in pres : j <= i}

\* The latest safeguard in the window.
InWindow(L) ==
  LET pres == {i \in DOMAIN L : L[i].label = "pre-restore" /\ L[i].ts \in job.first .. job.last}
  IN {i \in pres : \A j \in pres : j <= i}

UndoPick(f) ==
  /\ pc = "pick" /\ job.kind = "undo" /\ IsCurrent(f)
  /\ \/ InWindow(log[f]) = {} /\ Skip(f)
     \/ \E i \in InWindow(log[f]) : RestoreTo(log[f][i])
  /\ UNCHANGED <<worldVars, log, window, owed, callCount, job, maxPre, restored, pre, changed, lastPre>>

\* An undo that did something and did not fail takes the window away.
UndoEnd ==
  /\ job.kind = "undo" /\ (Worked \/ pc = "failed")
  /\ End(IF Worked /\ restored # {} THEN {[op |-> "drop", window |-> NoWindow]} ELSE {})

DropWindow(o) ==
  /\ o \in owed /\ o.op = "drop"
  /\ window' = NoWindow
  /\ owed' = owed \ {o}
  /\ UNCHANGED <<worldVars, log, callCount, batchVars>>
-----------------------------------------------------------------------------
\* Saving a file as it is does not count as an edit.
Edit(f) ==
  /\ \E c \in Content \cup {Absent} :
       /\ disk' = [disk EXCEPT ![f] = c]
       /\ editCount' = IF c = disk[f] THEN editCount ELSE editCount + 1
  /\ editCount' <= MaxEdits
  /\ touched' = IF LockFree THEN touched ELSE touched \cup {f}
  /\ UNCHANGED <<clock, log, window, owed, callCount, batchVars>>

Tick ==
  /\ \E t \in 1 .. MaxClock :
       /\ IF ClockMayStepBack THEN t # clock ELSE t = clock + 1
       /\ clock' = t
  /\ UNCHANGED <<disk, editCount, touched, log, window, owed, callCount, batchVars>>

Step ==
  \/ \E f \in File :
       \/ Record(f) \/ Restore(f) \/ Edit(f)
       \/ BatchPick(f) \/ UndoPick(f) \/ Safeguard(f) \/ Rewrite(f) \/ Mark(f)
  \/ \E front \in Front, dir \in Dir, at \in Instant : BatchBegin(front, dir, at)
  \/ BatchEnd \/ UndoRead \/ UndoEnd \/ Fail \/ Crash \/ Tick
  \/ \E o \in owed : SaveWindow(o) \/ Forget(o) \/ UndoBegin(o) \/ DropWindow(o)

Next == Step /\ UNCHANGED apart

Spec == Init /\ [][Next]_vars
-----------------------------------------------------------------------------
(* Properties.                                                             *)

Revision == [ts : Nat, hash : Content, label : Label, gone : BOOLEAN]
Job == [kind : {"none", "restore-at", "undo"}, front : {"cli", "mcp"}, dir : SUBSET File,
        at : Nat, first : Nat, last : Nat, pre : LineMap]
Debt == [op : {"save", "undo"}, window : Window] \cup {[op |-> "drop", window |-> NoWindow]}

\* Every variable holds what its declaration says.
TypeOK ==
  /\ apart \in BOOLEAN
  /\ disk \in [File -> Content \cup {Absent}]
  /\ {clock, callCount, editCount, maxPre} \subseteq Nat
  /\ \A f \in File : DOMAIN log[f] \subseteq Nat /\ log[f] \in [DOMAIN log[f] -> Revision]
  /\ window \in Window \cup {NoWindow} /\ owed \subseteq Debt
  /\ pc \in {"idle", "pick", "safeguard", "rewrite", "mark", "failed"} /\ job \in Job
  /\ {todo, restored, changed, touched} \subseteq SUBSET File
  /\ {pre, lastPre} \subseteq LineMap
  /\ pc \in {"rewrite", "mark"} => target.hash \in Content

Covers(w) == \A f \in Of(w.pre) : log[f][w.pre[f]].ts \in w.first .. w.last

\* The window of a batch, saved or about to be, holds every safeguard that the
\* batch wrote, so that the undo finds them all (batchEndOf).
WindowHoldsBatch == \A w \in Windows : Covers(w)

\* The same, and every variable holds a value of its kind.
WindowInv == TypeOK /\ WindowHoldsBatch

\* When each call starts later than everything recorded before it, an undo that
\* went well has reverted the files that the batch took a safeguard of and no
\* others, each to what that safeguard holds (UndoRestoreAt); calls in one
\* millisecond can share a window.
UndoIsExact ==
  apart /\ job.kind = "undo" /\ Worked =>
    /\ restored = Of(job.pre)
    /\ \A f \in restored \ touched : disk[f] = log[f][job.pre[f]].hash

\* The state of a file at the instant of the batch, which its own lines are no
\* part of, and whether the file is in it.
Found(f) ==
  LET then == {i \in DOMAIN log[f] : log[f][i].ts <= job.at /\ (f \in Of(pre) => i < pre[f])}
  IN {i \in then : \A j \in then : j <= i}
Rewound(f) ==
  /\ \A i \in Found(f) : log[f][i].label # "delete" => disk[f] = log[f][i].hash
  /\ f \in changed => \E i \in Found(f) : log[f][i].label # "delete"

\* A batch that went well has brought every file under its directory to its
\* newest revision at or before the instant, and left alone those whose
\* revision is a deletion and those that had none (restoreAtLocked).
BatchRewinds ==
  job.kind = "restore-at" /\ Worked => \A f \in job.dir \ touched : Rewound(f)

\* A batch that stops half way leaves a window through which everything it
\* changed can be undone (main.go: "including a partial batch").
PartialBatchUndoable ==
  job.kind = "restore-at" /\ job.front = "cli" /\ pc = "failed" /\ changed # {} =>
    /\ restored # {}
    /\ \A f \in changed : log[f][pre[f]].ts \in job.first .. WindowEnd

\* A file whose state at the instant was a deletion is not brought back.
DeletedStaysDeleted ==
  job.kind = "restore-at" /\ Worked =>
    \A f \in changed : \A i \in StateAt(Without(log[f], {j \in DOMAIN log[f] : j >= pre[f]}), job.at) :
      ~log[f][i].gone

\* What the undo works on is the most recent batch (main.go: the file "holds the
\* window of the most recent restore-at batch").
UndoIsOfLastBatch == job.kind = "undo" => job.pre = lastPre
=============================================================================
