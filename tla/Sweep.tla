------------------------------- MODULE Sweep --------------------------------
(***************************************************************************)
(* The polling sweep (watch/sweep.go) over a tree that other programs      *)
(* change meanwhile.  A pass walks the roots the backend refused, compares *)
(* the stat of every file with the one it saw last, has the store record   *)
(* what moved, and ends by recording as deleted what it had seen and did   *)
(* not meet this time.                                                     *)
(*                                                                         *)
(* A change gives a file a stat of its own, the number of the change: what *)
(* two writes in one tick of a coarse clock do to a stat is the subject of *)
(* module Gate.  A path is a model value; Parent is the shape of the tree. *)
(***************************************************************************)
EXTENDS Naturals, FiniteSets

CONSTANTS
    Dir, File,      \* the paths that may be directories, and files
    Root,           \* Watcher.root
    Parent,         \* [(Dir \cup File) \ {Root} -> Dir]
    None,           \* no path
    SweepFails,     \* which captures of the sweep may fail: {"moved", "gone"}
    UnreadableDirs, \* directories a pass may be unable to read at times
    MaxChanges      \* bound of the instance: changes by other programs

Path == Dir \cup File

ASSUME SweepAssumption ==
    /\ Root \in Dir
    /\ Dir \cap File = {}
    /\ None \notin Path
    /\ Parent \in [Path \ {Root} -> Dir]
    /\ UnreadableDirs \subseteq Dir
    /\ SweepFails \subseteq {"moved", "gone"}
    /\ MaxChanges \in Nat

VARIABLES
    dirs,       \* the directories that exist
    stat,       \* the stat of every file, 0 where there is none
    changes,    \* number of changes so far
    recorded,   \* what the newest revision of every file was read from
    roots,      \* sweeper.roots
    seen,       \* sweeper.seen, 0 for no entry
    spc,        \* where the sweep is: "wait", "walk", "record", "gone"
    swept,      \* the roots this pass works on
    todo,       \* entries its walk has still to look at
    present,    \* files it has met
    held        \* the file it is about to record, with the stat it took

disk == <<dirs, stat, changes>>
pass == <<spc, swept, todo, present, held>>
sweepVars == <<disk, recorded, roots, seen, pass>>

NoFile == [file |-> None, stat |-> 0]

(* A path and everything above it, the least set with the path and every   *)
(* parent; isUnder.                                                        *)
Climbs(A) == \A q \in A \ {Root} : Parent[q] \in A
Above == [p \in Path |-> {q \in Path : \A A \in SUBSET Path : p \in A /\ Climbs(A) => q \in A}]

(* Everything the watcher looks at lies under its root. *)
ASSUME TreeAssumption == \A p \in Path : Root \in Above[p]

IsUnder(p, d) == d \in Above[p]
UnderAny(p, R) == Above[p] \cap R # {}

Exists(p) == IF p \in Dir THEN p \in dirs ELSE stat[p] # 0
Entries(d) == {p \in Path \ {Root} : Parent[p] = d /\ Exists(p)}

(* A mutant: roots are added whatever they cover. *)
AddRootPlain(R, d) == R \cup {d}

(* addRoot: nothing for what a root covers, otherwise it replaces the roots it covers. *)
AddRoot(R, d) == IF UnderAny(d, R) THEN R
                 ELSE {r \in R : ~IsUnder(r, d)} \cup {d}

(* A mutant: only what is found is captured, no deletion. *)
CapturedFound(f) == IF stat[f] = 0 THEN recorded ELSE [recorded EXCEPT ![f] = stat[f]]

(* The store's Record: the file as it is now becomes the newest revision,  *)
(* and a file that is missing a deletion.                                  *)
Captured(f) == [recorded EXCEPT ![f] = stat[f]]
-----------------------------------------------------------------------------
(* Other programs change the tree. *)
Changed == changes < MaxChanges /\ changes' = changes + 1

Put(f) == /\ Changed
          /\ Parent[f] \in dirs
          /\ stat' = [stat EXCEPT ![f] = changes + 1]
          /\ UNCHANGED dirs
Remove(f) == /\ Changed
             /\ stat[f] # 0
             /\ stat' = [stat EXCEPT ![f] = 0]
             /\ UNCHANGED dirs
MakeDir(d) == /\ Changed
              /\ d \notin dirs
              /\ Parent[d] \in dirs
              /\ dirs' = dirs \cup {d}
              /\ UNCHANGED stat
RemoveDir(d) == /\ Changed
                /\ d \in dirs \ {Root}
                /\ Entries(d) = {}
                /\ dirs' = dirs \ {d}
                /\ UNCHANGED stat
-----------------------------------------------------------------------------
(* sweepRoots takes a copy of the roots and starts a pass. *)
SweepStart ==
    /\ spc = "wait"
    /\ roots # {}
    /\ swept' = roots
    /\ todo' = roots
    /\ present' = {}
    /\ spc' = "walk"
    /\ UNCHANGED <<disk, recorded, roots, seen, held>>

(* walkRecord reads a directory; one that is gone or unreadable is skipped. *)
SweepDir(d) ==
    /\ spc = "walk"
    /\ d \in todo
    /\ \E found \in {IF d \in dirs THEN Entries(d) ELSE {}}
                    \cup (IF d \in UnreadableDirs THEN {{}} ELSE {}) :
           todo' = (todo \ {d}) \cup found
    /\ UNCHANGED <<disk, recorded, roots, seen, spc, swept, present, held>>

(* A mutant: presence counts, the stat does not. *)
SweepStatPresence(f) ==
    /\ spc = "walk"
    /\ f \in todo
    /\ todo' = todo \ {f}
    /\ present' = present \cup {f}
    /\ IF stat[f] = 0 \/ seen[f] # 0
       THEN UNCHANGED <<spc, held>>
       ELSE spc' = "record" /\ held' = [file |-> f, stat |-> stat[f]]
    /\ UNCHANGED <<disk, recorded, roots, seen, swept>>

(* walkRecord meets a file: present, and worth a capture if its stat moved. *)
SweepStat(f) ==
    /\ spc = "walk"
    /\ f \in todo
    /\ todo' = todo \ {f}
    /\ present' = present \cup {f}
    /\ IF stat[f] \in {0, seen[f]}
       THEN UNCHANGED <<spc, held>>
       ELSE spc' = "record" /\ held' = [file |-> f, stat |-> stat[f]]
    /\ UNCHANGED <<disk, recorded, roots, seen, swept>>

(* It captures the file as it is by now, and remembers the stat from before. *)
SweepRecord ==
    /\ spc = "record"
    /\ recorded' = Captured(held.file)
    /\ seen' = [seen EXCEPT ![held.file] = held.stat]
    /\ spc' = "walk"
    /\ held' = NoFile
    /\ UNCHANGED <<disk, roots, swept, todo, present>>

(* A mutant: a failed capture marks the file as seen. *)
SweepRecordFailsMarking ==
    /\ "moved" \in SweepFails
    /\ spc = "record"
    /\ seen' = [seen EXCEPT ![held.file] = held.stat]
    /\ spc' = "walk"
    /\ held' = NoFile
    /\ UNCHANGED <<disk, recorded, roots, swept, todo, present>>

(* A capture that fails leaves seen alone, so the next pass tries again. *)
SweepRecordFails ==
    /\ "moved" \in SweepFails
    /\ spc = "record"
    /\ spc' = "walk"
    /\ held' = NoFile
    /\ UNCHANGED <<disk, recorded, roots, seen, swept, todo, present>>

(* At the end of the walk: what was seen under the roots and was not met.  *)
SweepGone ==
    /\ spc = "walk"
    /\ todo = {}
    /\ todo' = {f \in File \ present : seen[f] # 0 /\ UnderAny(f, swept)}
    /\ spc' = "gone"
    /\ UNCHANGED <<disk, recorded, roots, seen, swept, present, held>>

(* Each is recorded, as deleted if it is, and forgotten, failure or not.   *)
SweepForget(f) ==
    /\ spc = "gone"
    /\ f \in todo
    /\ recorded' \in {Captured(f)} \cup (IF "gone" \in SweepFails THEN {recorded} ELSE {})
    /\ seen' = [seen EXCEPT ![f] = 0]
    /\ todo' = todo \ {f}
    /\ UNCHANGED <<disk, roots, spc, swept, present, held>>

SweepEnd ==
    /\ spc = "gone"
    /\ todo = {}
    /\ spc' = "wait"
    /\ swept' = {}
    /\ present' = {}
    /\ UNCHANGED <<disk, recorded, roots, seen, todo, held>>

SweepNext == \/ SweepStart
             \/ \E d \in Dir : SweepDir(d)
             \/ \E f \in File : SweepStat(f) \/ SweepForget(f)
             \/ SweepRecord
             \/ SweepRecordFails
             \/ SweepGone
             \/ SweepEnd
-----------------------------------------------------------------------------
SweepInit ==
    /\ changes = 0
    /\ roots = {}
    /\ seen = [f \in File |-> 0]
    /\ spc = "wait"
    /\ swept = {}
    /\ todo = {}
    /\ present = {}
    /\ held = NoFile

SweepTypeOK ==
    /\ Root \in dirs /\ dirs \subseteq Dir
    /\ \A p \in dirs \cup {f \in File : stat[f] # 0} : Above[p] \ {p} \subseteq dirs
    /\ stat \in [File -> 0 .. MaxChanges + 1]
    /\ recorded \in [File -> 0 .. MaxChanges + 1]
    /\ seen \in [File -> 0 .. MaxChanges + 1]
    /\ roots \subseteq Dir /\ swept \subseteq Dir
    /\ spc \in {"wait", "walk", "record", "gone"}
    /\ todo \subseteq Path /\ present \subseteq File
    /\ held.file \in File \cup {None}

(* The roots stay "minimal and non-overlapping" (watch/sweep.go:160-161).     *)
RootsDisjoint == \A r, s \in roots : IsUnder(r, s) => r = s

(* What the sweep would pass over next time is recorded: the stat it       *)
(* remembers is never newer than the content the store read.               *)
SeenIsRecorded ==
    \A f \in File : seen[f] # 0 /\ seen[f] = stat[f] => recorded[f] = stat[f]
=============================================================================
