----------------------------- MODULE Checkpoint -----------------------------
(***************************************************************************)
(* The recovery point the hook announces: an agent that edits a file, the  *)
(* watcher that captures it once it has been quiet for the debounce, the   *)
(* hook that answers a destructive command with an instant, and the        *)
(* restore-at to that instant after the command has done its damage.       *)
(* One file; a tick of the clock is the millisecond of the log.            *)
(***************************************************************************)
EXTENDS Naturals, Sequences, FiniteSetsExt

CONSTANTS
    Content,    \* contents of the file
    Gone,       \* the file is not there
    Debounce,   \* in ticks
    MaxTime     \* bound of the clock

TimeAssumption == Debounce \in Nat \ {0} /\ MaxTime \in Nat \ {0} /\ Gone \notin Content

VARIABLES
    now,        \* the clock
    disk,       \* the file
    before,     \* (of the model) what it was when the hook spoke
    events,     \* whether the backend holds an event of the file
    pending,    \* instant of the last event Run has taken, 0 for none
    read,       \* what the capture in progress has read, with the instant
    log,        \* [ts, content] of the revisions, Gone for a deletion
    hint,       \* instant the hook has told, 0 for none
    quiet,      \* (of the model) whether all was captured at that instant
    pc          \* of the agent: "edit", "command", "damaged", "restored"

vars == <<now, disk, before, events, pending, read, log, hint, quiet, pc>>
State == Content \cup {Gone}
Revision == [ts : Nat, content : State]
NoRead == [at |-> 0, content |-> Gone]

Init ==
    /\ now = 1
    /\ \E c \in Content :
          /\ disk = c /\ before = c
          /\ log \in {<<>>, <<[ts |-> 1, content |-> c]>>}
    /\ events = (log = <<>>)
    /\ pending = 0 /\ read = NoRead /\ hint = 0 /\ quiet = FALSE /\ pc = "edit"

Advance ==
    /\ now < MaxTime
    /\ now' = now + 1
    /\ UNCHANGED <<disk, before, events, pending, read, log, hint, quiet, pc>>

Change(c) ==
    /\ c # disk
    /\ disk' = c
    /\ events' = TRUE

Edit ==
    /\ pc = "edit"
    /\ \E c \in State : Change(c)
    /\ UNCHANGED <<now, before, pending, read, log, hint, quiet, pc>>

(* Run takes an event off the backend: the file's timer starts anew.       *)
Receive ==
    /\ events /\ read = NoRead
    /\ events' = FALSE
    /\ pending' = now
    /\ UNCHANGED <<now, disk, before, read, log, hint, quiet, pc>>

(* A mutant: the first tick after an event captures. *)
CaptureReadAtOnce ==
    /\ pending # 0 /\ read = NoRead
    /\ read' = [at |-> now, content |-> disk]
    /\ UNCHANGED <<now, disk, before, events, pending, log, hint, quiet, pc>>

(* A tick of Run finds the file quiet, and Record reads it.                *)
CaptureRead ==
    /\ pending # 0 /\ now - pending > Debounce /\ read = NoRead
    /\ read' = [at |-> now, content |-> disk]
    /\ UNCHANGED <<now, disk, before, events, pending, log, hint, quiet, pc>>

LastLog == log[Len(log)]
Known(c) == IF log = <<>> THEN c = Gone ELSE LastLog.content = c
(* appendLog: later than the line before it.                               *)
Stamp(t) == IF log # <<>> /\ LastLog.ts >= t THEN LastLog.ts + 1 ELSE t

(* The revision is appended, unless nothing has changed.  Run is in the    *)
(* capture meanwhile and takes no event.                                   *)
CaptureAppend ==
    /\ read # NoRead
    /\ log' = IF Known(read.content) THEN log
              ELSE Append(log, [ts |-> Stamp(now), content |-> read.content])
    /\ pending' = 0 /\ read' = NoRead
    /\ UNCHANGED <<now, disk, before, events, hint, quiet, pc>>

(* checkpoint: the hook names the instant, and captures nothing.           *)
Hook ==
    /\ pc = "edit"
    /\ hint' = now /\ before' = disk
    /\ quiet' = (~events /\ pending = 0 /\ Known(disk))
    /\ pc' = "command"
    /\ UNCHANGED <<now, disk, events, pending, read, log>>

(* The damage, which may go on until somebody sees it.  The process of the *)
(* hook ends and that of the command starts in between: not the same tick. *)
Command ==
    /\ pc \in {"command", "damaged"} /\ now > hint
    /\ \E c \in State : Change(c)
    /\ pc' = "damaged"
    /\ UNCHANGED <<now, before, pending, read, log, hint, quiet>>

(* A mutant: restore-at takes the next revision, not the last before it. *)
RestoreNext ==
    /\ pc = "damaged"
    /\ LET later == {i \in DOMAIN log : log[i].ts >= hint} IN
       disk' = IF later = {} \/ log[Min(later)].content = Gone THEN disk ELSE log[Min(later)].content
    /\ pc' = "restored"
    /\ UNCHANGED <<now, before, events, pending, read, log, hint, quiet>>

(* restoreAtLocked for the file: the last revision that is not later; none *)
(* or a deletion leaves the file.  Its safeguard is in StoreBatch.         *)
RestoreAt ==
    /\ pc = "damaged"
    /\ LET known == {i \in DOMAIN log : log[i].ts <= hint} IN
       disk' = IF known = {} \/ log[Max(known)].content = Gone THEN disk ELSE log[Max(known)].content
    /\ pc' = "restored"
    /\ UNCHANGED <<now, before, events, pending, read, log, hint, quiet>>

Next ==
    \/ Advance \/ Edit \/ Receive \/ CaptureRead \/ CaptureAppend
    \/ Hook \/ Command \/ RestoreAt
Spec == Init /\ [][Next]_vars
-----------------------------------------------------------------------------
(* Every variable holds a value of its kind, and the lines of the log are  *)
(* in order, each at its own instant (store.go:632).                       *)
TypeOK ==
    /\ now \in 1 .. MaxTime /\ disk \in State /\ pending \in 0 .. now
    /\ events \in BOOLEAN /\ quiet \in BOOLEAN
    /\ read = NoRead \/ read.at \in 1 .. now
    /\ log \in Seq(Revision)
    /\ \A i, j \in DOMAIN log : i < j => log[i].ts < log[j].ts

(* After the rewind the hint tells of, a file that was captured when the   *)
(* hook spoke has the content it had then, whatever was captured between   *)
(* the command and the rewind (guard.go:990).                              *)
QuietIsRecovered == pc = "restored" /\ quiet /\ before # Gone => disk = before

(* The hook has a recovery point as of the instant it names, whenever that *)
(* is, of a file that the watcher has captured before (guard.go:990).      *)
HintIsRecoveryPoint ==
    pc = "restored" /\ before # Gone /\ (\E i \in DOMAIN log : log[i].ts < hint) => disk = before
=============================================================================
