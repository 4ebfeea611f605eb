------------------------------ MODULE Watcher -------------------------------
(***************************************************************************)
(* The watcher (watch/watch.go): Run's goroutine places watches, scans and *)
(* captures, the sweep's goroutine polls the subtrees the backend refused, *)
(* and other programs change the tree under both.  The union of the two is *)
(* meant to be the whole tree.                                             *)
(*                                                                         *)
(* Left to module Gate: the debounce, which is here a pending file that is *)
(* captured at some later moment, and the gate in front of the capture.    *)
(***************************************************************************)
EXTENDS Sweep

CONSTANTS
    Refusable,      \* directories the backend may refuse at any time
    Unscannable,    \* directories the scan may be unable to read at times
    CaptureFails,   \* whether a real-time capture may fail
    EventsLost,     \* whether the kernel's queue may overflow
    Polling,        \* pollingAvailable
    AllowPartial,   \* Watcher.allowPartial
    EarlierRuns     \* whether the store may know files from earlier runs

ASSUME WatcherAssumption ==
    /\ Refusable \cup Unscannable \subseteq Dir
    /\ {CaptureFails, EventsLost, Polling, AllowPartial, EarlierRuns} \subseteq BOOLEAN

VARIABLES
    watched,    \* directories under a live watch
    events,     \* paths whose event is not delivered yet
    pending,    \* files of Run's pending map
    walk,       \* entries the walk under way has still to look at
    listing,    \* the directory it is about to list
    run         \* "scan" until the initial scan ends, "loop", "refused"

loop == <<watched, events, pending, walk, listing, run>>
vars == <<sweepVars, loop>>

Idle == walk = {} /\ listing = None

(* A running watcher that starts on a tree with some directories and files. *)
Init ==
    /\ SweepInit
    /\ dirs \in {D \in SUBSET Dir : Root \in D /\ \A d \in D \ {Root} : Parent[d] \in D}
    /\ stat \in {s \in [File -> {0, MaxChanges + 1}] :
                     \A f \in File : s[f] # 0 => Parent[f] \in dirs}
    /\ recorded \in IF EarlierRuns THEN {stat, [f \in File |-> 0]} ELSE {[f \in File |-> 0]}
    /\ watched = {}
    /\ events = {}
    /\ pending = {}
    /\ walk = {Root}
    /\ listing = None
    /\ run = "scan"
-----------------------------------------------------------------------------
(* A change raises an event if its directory is watched at that moment;    *)
(* the watch of a directory goes with the directory.                       *)
Raise(p) == events' = events \cup (IF Parent[p] \in watched THEN {p} ELSE {})

Disturb ==
    /\ \/ \E f \in File : (Put(f) \/ Remove(f)) /\ Raise(f) /\ UNCHANGED watched
       \/ \E d \in Dir \ {Root} : MakeDir(d) /\ Raise(d) /\ UNCHANGED watched
       \/ \E d \in Dir \ {Root} : /\ RemoveDir(d)
                                  /\ watched' = watched \ {d}
                                  /\ UNCHANGED events
    /\ UNCHANGED <<recorded, roots, seen, pass, pending, walk, listing, run>>

(* The kernel's queue overflows: Run only logs the error it gets. *)
LoseEvents ==
    /\ EventsLost
    /\ run = "loop"
    /\ events # {}
    /\ events' = {}
    /\ UNCHANGED <<sweepVars, watched, pending, walk, listing, run>>
-----------------------------------------------------------------------------
(* walkAndRegister at a directory: AddDir first. *)
Register(d) ==
    /\ listing = None
    /\ d \in walk
    /\ d \in dirs
    /\ walk' = walk \ {d}
    /\ watched' = watched \cup {d}
    /\ listing' = d
    /\ UNCHANGED <<sweepVars, events, pending, run>>

(* A mutant: a refused directory is handed to nobody. *)
HandOverDropped(d) ==
    /\ listing = None
    /\ d \in walk
    /\ d \in Refusable \/ d \notin dirs
    /\ walk' = walk \ {d}
    /\ UNCHANGED <<sweepVars, watched, events, pending, listing, run>>

(* AddDir fails, for the descriptor limit or because the directory is gone: *)
(* the sweep owns the subtree.                                              *)
HandOver(d) ==
    /\ listing = None
    /\ d \in walk
    /\ d \in Refusable \/ d \notin dirs
    /\ walk' = walk \ {d}
    /\ roots' = AddRoot(roots, d)
    /\ UNCHANGED <<disk, recorded, seen, pass, watched, events, pending, listing, run>>

(* A mutant: the scan of a new directory records no files. *)
ListEntriesDirs ==
    /\ listing # None
    /\ walk' = walk \cup (Entries(listing) \cap Dir)
    /\ listing' = None
    /\ UNCHANGED <<sweepVars, watched, events, pending, run>>

(* Then WalkDir reads its entries; an error is skipped. *)
ListEntries ==
    /\ listing # None
    /\ \E found \in {Entries(listing)}
                    \cup (IF listing \in Unscannable THEN {{}} ELSE {}) :
           walk' = walk \cup found
    /\ listing' = None
    /\ UNCHANGED <<sweepVars, watched, events, pending, run>>

(* A capture by Run's goroutine, which may fail and is then logged. *)
Capture(f) == recorded' \in {Captured(f)} \cup (IF CaptureFails THEN {recorded} ELSE {})

ScanFile(f) ==
    /\ listing = None
    /\ f \in walk
    /\ walk' = walk \ {f}
    /\ Capture(f)
    /\ UNCHANGED <<disk, roots, seen, pass, watched, events, pending, listing, run>>

(* A mutant: the run goes on without the sweep. *)
EnterLoopAnyway ==
    /\ run = "scan"
    /\ Idle
    /\ run' = "loop"
    /\ UNCHANGED <<sweepVars, watched, events, pending, walk, listing>>

(* Run after the initial scan: it refuses, or goes on and starts the sweep. *)
EnterLoop ==
    /\ run = "scan"
    /\ Idle
    /\ run' = IF roots # {} /\ ~Polling /\ ~AllowPartial THEN "refused" ELSE "loop"
    /\ UNCHANGED <<sweepVars, watched, events, pending, walk, listing>>

(* Run receives an event: a directory that exists is walked, a file is     *)
(* pending; the path of a directory that is gone has no revision to end.   *)
DeliverDir(d) ==
    /\ run = "loop" /\ Idle
    /\ d \in events
    /\ events' = events \ {d}
    /\ walk' = IF d \in dirs THEN {d} ELSE {}
    /\ UNCHANGED <<sweepVars, watched, pending, listing, run>>
DeliverFile(f) ==
    /\ run = "loop" /\ Idle
    /\ f \in events
    /\ events' = events \ {f}
    /\ pending' = pending \cup {f}
    /\ UNCHANGED <<sweepVars, watched, walk, listing, run>>

(* The ticker finds a pending file quiet. *)
Fire(f) ==
    /\ run = "loop" /\ Idle
    /\ f \in pending
    /\ pending' = pending \ {f}
    /\ Capture(f)
    /\ UNCHANGED <<disk, roots, seen, pass, watched, events, walk, listing, run>>

RunNext == \/ \E d \in Dir : Register(d) \/ HandOver(d) \/ DeliverDir(d)
           \/ \E f \in File : ScanFile(f) \/ DeliverFile(f) \/ Fire(f)
           \/ ListEntries
           \/ EnterLoop
Poll == run = "loop" /\ Polling /\ SweepNext /\ UNCHANGED loop
Next == Disturb \/ LoseEvents \/ RunNext \/ Poll

(* Two goroutines, each of which goes on while it can: Run's loop blocks   *)
(* only while it has nothing to do, and the sweep's wait ends.             *)
Spec == Init /\ [][Next]_vars
FairSpec == Spec /\ WF_vars(RunNext) /\ WF_vars(Poll)
-----------------------------------------------------------------------------
TypeOK ==
    /\ SweepTypeOK
    /\ watched \subseteq dirs
    /\ events \subseteq Path \ {Root}
    /\ pending \subseteq File
    /\ walk \subseteq Path
    /\ listing \in Dir \cup {None}
    /\ run \in {"scan", "loop", "refused"}

(* The places of the walks are in order, no root of the sweep lies in      *)
(* another (addRoot), and what the sweep would pass over next time is      *)
(* recorded, whatever Run's goroutine does meanwhile (walkRecord).         *)
WatcherInv == TypeOK /\ RootsDisjoint /\ SeenIsRecorded

(* "The union of watched and polled is always the whole tree"              *)
(* (watch/watch.go:9-10): when Run has nothing under way, every directory  *)
(* is watched or under a root of the sweep.                                *)
Covered(d) == d \in watched \/ (Polling /\ UnderAny(d, roots))
Whole == run = "loop" /\ Idle /\ events = {} => \A d \in dirs : Covered(d)

(* A file in a watched directory of which no event is left is as the store *)
(* has it; and so is one that is no longer there.                          *)
Settled(f) == run = "loop" /\ Idle /\ Parent[f] \in watched /\ f \notin events \cup pending
FilesAreRecorded == \A f \in File : Settled(f) /\ stat[f] # 0 => recorded[f] = stat[f]
DeletionsAreRecorded == \A f \in File : Settled(f) /\ stat[f] = 0 => recorded[f] = 0

(* Once the tree is left alone, the store comes to hold all that is in it. *)
EventuallyWhole == <>[](\A f \in File : stat[f] # 0 => recorded[f] = stat[f])

(* The sweep needs no event: whatever Run's goroutine misses, a file under *)
(* a root is followed for as long as it is there.                          *)
PolledIsFollowed ==
    \A f \in File : [](UnderAny(f, roots) => <>[](stat[f] # 0 => recorded[f] = stat[f]))

(* A file the sweep has seen and that vanishes is recorded as deleted,     *)
(* unless it comes back first.                                             *)
SeenVanishedIsFound ==
    \A f \in File : (stat[f] = 0 /\ seen[f] # 0) ~> (recorded[f] = 0 \/ stat[f] # 0)

(* The sweep "uses" the store's index "to detect files that vanished while *)
(* their directory was covered by polling" (store/store.go:1137-1138): a   *)
(* file that is there under a root is followed, to its end if it has one.  *)
VanishedIsFound ==
    \A f \in File : [](stat[f] # 0 /\ UnderAny(f, roots) => <>[](recorded[f] = stat[f]))
=============================================================================
