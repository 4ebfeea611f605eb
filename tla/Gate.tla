-------------------------------- MODULE Gate --------------------------------
(***************************************************************************)
(* The real-time path of one file (watch/watch.go): events of the backend  *)
(* become a pending entry, the debounce turns it into a capture, and the   *)
(* stat gate in front of the store leaves out the capture of a file that   *)
(* has not moved since the last one.  Between the steps of the watcher     *)
(* other programs write the file, with the clock's time or, as "cp         *)
(* --preserve" and formatters do, with the old one.                        *)
(*                                                                         *)
(* A step of the watcher is a place where it looks at the file: the Lstat  *)
(* of shouldCapture, the read inside the store's Record and the Lstat of   *)
(* markCaptured are three different moments.                               *)
(***************************************************************************)
EXTENDS Integers

CONSTANTS
    Content,        \* contents of the file
    Size,           \* the size of each: [Content -> Nat]
    Gone,           \* no file, and no revision or a deletion in the store
    None,           \* no gate entry, no pending entry
    Grains,         \* granularities of the file system's times, in ticks
    Lags,           \* how far a file server's clock is behind the watcher's
    HasCtimes,      \* whether the OS exposes a ctime: a subset of BOOLEAN
    DefaultSlop,    \* DefaultRacySlop, in ticks
    Debounce,       \* DefaultDebounce, in ticks
    CaptureTicks,   \* how long a capture may take from its read to its mark
    KeepsMtime,     \* moments at which a write may restore the old mtime
    FirstTick, LastTick, MaxWrites   \* bounds of the instance

ASSUME GateAssumption ==
    /\ Size \in [Content -> Nat]
    /\ Gone \notin Content
    /\ None \notin Nat
    /\ Grains \subseteq Nat \ {0}
    /\ HasCtimes \subseteq BOOLEAN
    /\ DefaultSlop \in Nat /\ Debounce \in Nat /\ CaptureTicks \in Nat
    /\ FirstTick \in Nat \ {0} /\ LastTick \in Nat /\ FirstTick <= LastTick
    /\ MaxWrites \in Nat
    /\ Lags \subseteq 0 .. FirstTick - 1
    /\ KeepsMtime \subseteq {"idle", "sameTick", "busy"}

VARIABLES
    file,       \* content, mtime and ctime of the file on disk
    clock,      \* the watcher's wall clock
    writes,     \* number of changes so far
    fs,         \* granularity and lag of the times, and whether there is a ctime
    slop,       \* Watcher.slop
    recorded,   \* content of the newest revision, Gone for a deletion or none
    gate,       \* Watcher.gate of this path
    queue,      \* events the backend has not delivered yet
    pending,    \* time of the pending entry of Run
    pc,         \* where the watcher's goroutine is
    since,      \* when the capture under way read the file
    failed      \* the last look at the file ended in an error of Record

vars == <<file, clock, writes, fs, slop, recorded, gate, queue, pending, pc, since,
          failed>>
env == <<file, clock, writes, fs, slop>>

(* What the file system writes down of a time. *)
Stamp(t) == (t - fs.lag) - ((t - fs.lag) % fs.grain)

(* What Lstat returns; a vanished file is an error. *)
Stat == [size |-> Size[file.content], mtime |-> file.mtime,
         ctime |-> IF fs.ctime THEN file.ctime ELSE 0]

(* captureDecision, its three branches. *)
Moved(cur, prev) == \/ cur.size # prev.size
                    \/ cur.mtime # prev.mtime
                    \/ cur.ctime # prev.ctime
Racy(prev) == prev.mtime + slop >= prev.capturedAt
(* A mutant: no racy window. *)
CaptureDecisionTrusting(cur, prev) == Moved(cur, prev) \/ cur.ctime = 0

(* A mutant: the change time is not compared. *)
CaptureDecisionNoCtime(cur, prev) == \/ cur.size # prev.size
                                     \/ cur.mtime # prev.mtime
                                     \/ cur.ctime = 0
                                     \/ Racy(prev)

CaptureDecision(cur, prev) == Moved(cur, prev) \/ cur.ctime = 0 \/ Racy(prev)

(* A mutant: a file that is gone is not captured. *)
ShouldCaptureFound == /\ file.content # Gone
                      /\ gate = None \/ CaptureDecision(Stat, gate)

ShouldCapture == \/ file.content = Gone
                 \/ gate = None
                 \/ CaptureDecision(Stat, gate)

Mark == IF file.content = Gone THEN None
        ELSE [size |-> Stat.size, mtime |-> Stat.mtime, ctime |-> Stat.ctime,
              capturedAt |-> clock]
-----------------------------------------------------------------------------
(* The watch is placed before the scan looks at the file, so Run starts    *)
(* with the scan's recordRealtime and with events from then on.  The store *)
(* may know the file from an earlier run.  ProbeRacySlop widens the slop   *)
(* to twice the granularity, or leaves it alone when the probe fails.      *)
Init ==
    /\ clock = FirstTick
    /\ fs \in [grain : Grains, lag : Lags, ctime : HasCtimes]
    /\ slop \in {DefaultSlop, IF 2 * fs.grain > DefaultSlop THEN 2 * fs.grain
                                                            ELSE DefaultSlop}
    /\ \E c \in Content, m \in {fs.lag + 1, FirstTick} :
           file = [content |-> c, mtime |-> Stamp(m), ctime |-> Stamp(m)]
    /\ recorded \in Content \cup {Gone}
    /\ gate = None
    /\ writes = 0
    /\ queue = 0
    /\ pending = None
    /\ pc = "gate"
    /\ since = FirstTick
    /\ failed = FALSE

(* Another program changes the file; each change is an event. *)
Change == /\ writes < MaxWrites
          /\ writes' = writes + 1
          /\ queue' = queue + 1
          /\ UNCHANGED <<clock, fs, slop, recorded, gate, pending, pc, since, failed>>

Write(c) ==
    /\ Change
    /\ file' = [content |-> c, mtime |-> Stamp(clock), ctime |-> Stamp(clock)]

(* An in-place rewrite that puts the old mtime back; the ctime cannot be   *)
(* put back, but in one tick it does not move either.                      *)
Moment == IF pc = "mark" THEN "busy"
          ELSE IF Stamp(clock) = file.ctime THEN "sameTick" ELSE "idle"
WriteKeepingMtime(c) ==
    /\ Moment \in KeepsMtime
    /\ file.content # Gone
    /\ Change
    /\ file' = [file EXCEPT !.content = c, !.ctime = Stamp(clock)]

Remove ==
    /\ file.content # Gone
    /\ Change
    /\ file' = [file EXCEPT !.content = Gone]

(* Time passes, within the bound on how long a capture takes. *)
Tick ==
    /\ clock < LastTick
    /\ pc = "mark" => clock < since + CaptureTicks
    /\ clock' = clock + 1
    /\ UNCHANGED <<file, writes, fs, slop, recorded, gate, queue, pending, pc, since,
                   failed>>
-----------------------------------------------------------------------------
(* Run receives an event: the path is pending, from now. *)
Deliver ==
    /\ pc = "loop"
    /\ queue > 0
    /\ queue' = queue - 1
    /\ pending' = clock
    /\ UNCHANGED <<env, recorded, gate, pc, since, failed>>

(* The ticker finds that the file has been quiet for longer than the debounce. *)
Fire ==
    /\ pc = "loop"
    /\ pending # None
    /\ clock > pending + Debounce
    /\ pending' = None
    /\ pc' = "gate"
    /\ UNCHANGED <<env, recorded, gate, queue, since, failed>>

(* recordRealtime: shouldCapture looks at the file. *)
PassGate ==
    /\ pc = "gate"
    /\ pc' = IF ShouldCapture THEN "record" ELSE "loop"
    /\ failed' = FALSE
    /\ UNCHANGED <<env, recorded, gate, queue, pending, since>>

(* The store reads the file and makes it the newest revision. *)
Record ==
    /\ pc = "record"
    /\ recorded' = file.content
    /\ since' = clock
    /\ pc' = "mark"
    /\ UNCHANGED <<env, gate, queue, pending, failed>>

(* Record returns an error, a lock timeout for one: it is logged. *)
RecordFails ==
    /\ pc = "record"
    /\ pc' = "loop"
    /\ failed' = TRUE
    /\ UNCHANGED <<env, recorded, gate, queue, pending, since>>

(* markCaptured looks at the file again, and at the clock. *)
MarkCaptured ==
    /\ pc = "mark"
    /\ gate' = Mark
    /\ pc' = "loop"
    /\ UNCHANGED <<env, recorded, queue, pending, since, failed>>

Watcher == Deliver \/ Fire \/ PassGate \/ Record \/ RecordFails \/ MarkCaptured
Next == \/ \E c \in Content : Write(c) \/ WriteKeepingMtime(c)
        \/ Remove
        \/ Tick
        \/ Watcher

Spec == Init /\ [][Next]_vars
-----------------------------------------------------------------------------
Times == 0 .. LastTick
Stats == [size : Nat, mtime : Times, ctime : Times]

(* The values every variable takes. *)
TypeOK ==
    /\ file \in [content : Content \cup {Gone}, mtime : Times, ctime : Times]
    /\ clock \in Times
    /\ writes \in 0 .. MaxWrites
    /\ queue \in 0 .. writes
    /\ fs \in [grain : Grains, lag : Lags, ctime : HasCtimes]
    /\ slop \in Nat
    /\ recorded \in Content \cup {Gone}
    /\ gate \in {None} \cup [size : Nat, mtime : Times, ctime : Times, capturedAt : Times]
    /\ pending \in Times \cup {None}
    /\ pc \in {"loop", "gate", "record", "mark"}
    /\ since \in Times
    /\ failed \in BOOLEAN

(* "This gate may only ever avoid work, never a capture"                   *)
(* (watch/watch.go:86-88): what shouldCapture turns away is recorded.      *)
NeverAvoidsACapture ==
    [][pc = "gate" /\ pc' = "loop" => recorded = file.content]_vars

(* When the watcher has nothing left to do for the file, no event and no   *)
(* pending entry, the newest revision is what is on disk, unless the last  *)
(* attempt to record it failed.  Earlier failures cost nothing: the next   *)
(* event is let through the gate (watch/watch.go:256-262, 435-438).        *)
Settled == queue = 0 /\ pending = None /\ pc = "loop"
QuietIsRecorded == Settled /\ ~failed => recorded = file.content

(* The watcher "captures every change" (README.md:187).  It does not: the  *)
(* pending entry of a capture that fails is gone, and nobody tries again.  *)
CapturesEveryChange == Settled => recorded = file.content
=============================================================================
