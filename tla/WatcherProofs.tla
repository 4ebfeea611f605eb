--------------------------- MODULE WatcherProofs ---------------------------
(***************************************************************************)
(* The union of watched and polled is the whole tree, what is watched is   *)
(* recorded, and what the sweep passes over is recorded: for every tree,   *)
(* every order of the two goroutines and any number of changes.            *)
(***************************************************************************)
EXTENDS Walks, WellFoundedInduction, TLAPS

USE SweepAssumption, WatcherAssumption

-----------------------------------------------------------------------------
(* Above[p] has p and, of what it has, every parent.                       *)
LEMMA AboveClimbs ==
    ASSUME NEW p \in Path
    PROVE  p \in Above[p] /\ Above[p] \subseteq Path /\ Climbs(Above[p])
    BY DEF Above, Climbs, Path

(* It is the least such set.                                               *)
LEMMA AboveLeast ==
    ASSUME NEW p \in Path, NEW A \in SUBSET Path, p \in A, Climbs(A)
    PROVE  Above[p] \subseteq A
    BY DEF Above

(* What is above something above p is above p.                             *)
LEMMA AboveTrans ==
    ASSUME NEW p \in Path, NEW q \in Above[p]
    PROVE  q \in Path /\ Above[q] \subseteq Above[p]
<1>1. q \in Path /\ Above[p] \in SUBSET Path /\ Climbs(Above[p])
    BY AboveClimbs
<1> QED
    BY <1>1, AboveLeast

(* Above a path are the path and what is above its parent (isUnder).       *)
LEMMA AboveStep ==
    ASSUME NEW p \in Path \ {Root}
    PROVE  /\ Parent[p] \in Dir /\ Parent[p] \in Path
           /\ Above[p] = {p} \cup Above[Parent[p]]
<1>1. Parent[p] \in Dir /\ Parent[p] \in Path
    BY DEF Path
<1>2. Above[Parent[p]] \subseteq Above[p] /\ p \in Above[p]
    BY <1>1, AboveClimbs, AboveTrans DEF Climbs
<1>3. Above[p] \subseteq {p} \cup Above[Parent[p]]
  <2> DEFINE A == {p} \cup Above[Parent[p]]
  <2>1. A \in SUBSET Path /\ Climbs(A)
    BY <1>1, AboveClimbs DEF Climbs
  <2> QED
    BY <2>1, AboveLeast
<1> QED
    BY <1>1, <1>2, <1>3
-----------------------------------------------------------------------------
(* What a root covers, AddRoot covers, and the new directory (addRoot).    *)
LEMMA AddRootCovers ==
    ASSUME NEW R \in SUBSET Dir, NEW d \in Dir, NEW p \in Path
    PROVE  UnderAny(p, AddRoot(R, d)) <=> UnderAny(p, R) \/ IsUnder(p, d)
<1>1. CASE UnderAny(d, R)
  <2>1. PICK r \in R : r \in Above[d]
    BY <1>1 DEF UnderAny
  <2>2. IsUnder(p, d) => r \in Above[p]
    BY <2>1, AboveTrans DEF IsUnder
  <2> QED
    BY <1>1, <2>1, <2>2 DEF AddRoot, UnderAny
<1>2. CASE ~UnderAny(d, R)
  <2>1. AddRoot(R, d) = {r \in R : ~IsUnder(r, d)} \cup {d}
    BY <1>2 DEF AddRoot
  <2>2. ASSUME NEW r \in R, r \in Above[p], IsUnder(r, d)
        PROVE  d \in Above[p]
    BY <2>2, AboveTrans DEF IsUnder, Path
  <2> QED
    BY <2>1, <2>2 DEF UnderAny, IsUnder
<1> QED
    BY <1>1, <1>2

(* No root comes to lie in another (addRoot).                              *)
LEMMA AddRootDisjoint ==
    ASSUME NEW d \in Dir, roots \subseteq Dir, RootsDisjoint
    PROVE  \A r, s \in AddRoot(roots, d) : IsUnder(r, s) => r = s
    BY DEF AddRoot, RootsDisjoint, UnderAny, IsUnder
-----------------------------------------------------------------------------

(* What a stat may be: of the tree as Init found it, of a change so far.   *)
Stamps == 0 .. changes \cup {MaxChanges + 1}

(* Nothing remembers a change that has not happened yet.                   *)
StampInv ==
    /\ changes \in 0 .. MaxChanges
    /\ stat \in [File -> Stamps] /\ recorded \in [File -> Stamps]
    /\ seen \in [File -> Stamps]
    /\ spc = "record" => held.file \in File /\ held.stat \in Stamps

TreeInv == StampInv /\ WatcherInv

(* Types: the tree hangs together.                                         *)
HangsTogether ==
    \A p \in dirs \cup {f \in File : stat[f] # 0} : Above[p] \ {p} \subseteq dirs

(* The directories that nobody has taken care of yet.                      *)
Uncovered == {d \in dirs : ~Covered(d)}

(* Each of them is on its way: an event of it is queued, the walk has it   *)
(* on its list or is about to list where it lies, or its parent is one too.*)
OnTheWay(d) ==
    \/ d \in events \cup walk
    \/ d # Root /\ (listing = Parent[d] \/ Parent[d] \in Uncovered)
CoverInv == \A d \in Uncovered : OnTheWay(d)

(* A watched file that has moved is on its way to a capture.               *)
FileOnTheWay(f) == f \in events \cup pending \cup walk \/ listing = Parent[f]
FilesInv ==
    \A f \in File : Parent[f] \in watched /\ stat[f] # 0 /\ recorded[f] # stat[f]
                        => FileOnTheWay(f)
-----------------------------------------------------------------------------
(* What is added to the tree has its parent there.                         *)
LEMMA GrowTree ==
    ASSUME NEW p \in Path \ {Root}, Parent[p] \in dirs, dirs \subseteq Dir, HangsTogether
    PROVE  Above[p] \ {p} \subseteq dirs
    BY AboveStep DEF HangsTogether

(* A directory that has no entries is above nothing else.                  *)
LEMMA LeafTree ==
    ASSUME NEW d \in dirs \ {Root}, dirs \subseteq Dir, Entries(d) = {}, HangsTogether,
           NEW p \in dirs \cup {f \in File : stat[f] # 0}, p # d
    PROVE  d \notin Above[p]
<1> DEFINE A == {q \in {p} \cup dirs : q # d}
<1>1. A \in SUBSET Path /\ p \in A /\ p \in Path
    BY DEF Path
<1>2. ASSUME NEW q \in A \ {Root} PROVE Parent[q] \in A
  <2>1. q \in Path \ {Root} /\ Exists(q)
    BY <1>1, <1>2 DEF Exists, Path
  <2>2. Parent[q] # d
    BY <2>1 DEF Entries
  <2>3. Parent[q] \in Above[q]
    BY <2>1, AboveStep, AboveClimbs
  <2>4. Parent[q] \in dirs \/ Parent[q] = q
    BY <1>2, <2>3 DEF HangsTogether
  <2> QED
    BY <1>2, <2>2, <2>4
<1>3. Climbs(A)
    BY <1>2 DEF Climbs
<1>4. Above[p] \subseteq A
  <2> HIDE DEF A
  <2> QED
    BY <1>1, <1>3, AboveLeast
<1> QED
    BY <1>4

(* Changes by other programs keep the tree together and are new.           *)
LEMMA ChangeStep ==
    ASSUME SweepTypeOK, StampInv, SeenIsRecorded,
           \/ \E f \in File : Put(f) \/ Remove(f)
           \/ \E d \in Dir \ {Root} : MakeDir(d) \/ RemoveDir(d),
           UNCHANGED <<recorded, roots, seen, pass>>
    PROVE  SweepTypeOK' /\ StampInv' /\ SeenIsRecorded'
<1>1. HangsTogether /\ dirs \subseteq Dir /\ Root \in dirs
    BY DEF SweepTypeOK, HangsTogether
<1>2. changes' = changes + 1 /\ changes' \in 0 .. MaxChanges
    BY DEF Put, Remove, MakeDir, RemoveDir, Changed, StampInv
<1>3. Root \in dirs' /\ dirs' \subseteq Dir
    BY <1>1 DEF Put, Remove, MakeDir, RemoveDir
<1>4. /\ stat' \in [File -> Stamps']
      /\ \A f \in File : stat'[f] \in {0, stat[f], changes + 1}
    BY <1>2 DEF Put, Remove, MakeDir, RemoveDir, StampInv, Stamps
<1>5. StampInv'
    BY <1>2, <1>4 DEF StampInv, Stamps, pass
<1>6. HangsTogether'
  <2>1. ASSUME NEW f \in File, Put(f) PROVE HangsTogether'
    <3>1. f \in Path \ {Root} /\ Parent[f] \in dirs /\ dirs' = dirs
      BY <2>1 DEF Put, Path
    <3>2. {g \in File : stat'[g] # 0} \subseteq {g \in File : stat[g] # 0} \cup {f}
      BY <2>1 DEF Put, StampInv
    <3> QED
      BY <1>1, <3>1, <3>2, GrowTree DEF HangsTogether
  <2>2. ASSUME NEW f \in File, Remove(f) PROVE HangsTogether'
    <3>1. {g \in File : stat'[g] # 0} \subseteq {g \in File : stat[g] # 0} /\ dirs' = dirs
      BY <2>2 DEF Remove, StampInv
    <3> QED
      BY <1>1, <3>1 DEF HangsTogether
  <2>3. ASSUME NEW d \in Dir \ {Root}, MakeDir(d) PROVE HangsTogether'
    <3>1. /\ d \in Path \ {Root} /\ Parent[d] \in dirs
          /\ dirs' = dirs \cup {d} /\ stat' = stat
      BY <2>3 DEF MakeDir, Path
    <3> QED
      BY <1>1, <3>1, GrowTree DEF HangsTogether
  <2>4. ASSUME NEW d \in Dir \ {Root}, RemoveDir(d) PROVE HangsTogether'
    <3>1. d \in dirs \ {Root} /\ Entries(d) = {} /\ dirs' = dirs \ {d} /\ stat' = stat
      BY <2>4 DEF RemoveDir
    <3> QED
      BY <1>1, <3>1, LeafTree DEF HangsTogether
  <2> QED
    BY <2>1, <2>2, <2>3, <2>4
<1>7. SweepTypeOK'
    BY <1>3, <1>5, <1>6 DEF SweepTypeOK, HangsTogether, StampInv, Stamps, pass
<1>8. SeenIsRecorded'
  <2> SUFFICES ASSUME NEW f \in File, seen[f] # 0, seen[f] = stat'[f]
               PROVE  recorded[f] = stat'[f]
    BY DEF SeenIsRecorded
  <2>1. seen[f] # changes + 1
    BY <1>2 DEF StampInv, Stamps
  <2> QED
    BY <1>4, <2>1 DEF SeenIsRecorded
<1> QED
    BY <1>5, <1>7, <1>8

(* A capture takes the file as it is (store Record).                       *)
LEMMA CaptureIsNow ==
    ASSUME StampInv, NEW f \in File
    PROVE  /\ Captured(f) \in [File -> Stamps]
           /\ \A g \in File : Captured(f)[g] = IF g = f THEN stat[f] ELSE recorded[g]
    BY DEF StampInv, Captured

(* A pass of the sweep, step by step, keeps what it remembers recorded.    *)
LEMMA SweepStep ==
    ASSUME SweepTypeOK, StampInv, SeenIsRecorded, SweepNext
    PROVE  SweepTypeOK' /\ StampInv' /\ SeenIsRecorded'
<1>1. UNCHANGED <<disk, roots>>
    BY DEF SweepNext, SweepStart, SweepDir, SweepStat, SweepRecord, SweepRecordFails,
           SweepGone, SweepForget, SweepEnd
<1>2. Stamps' = Stamps /\ Stamps \subseteq 0 .. MaxChanges + 1
    BY <1>1 DEF Stamps, disk, StampInv
<1>3. ASSUME SweepStart \/ (\E d \in Dir : SweepDir(d)) \/ SweepGone \/ SweepEnd
      PROVE  /\ UNCHANGED <<recorded, seen, held>> /\ spc' # "record"
             /\ spc' \in {"wait", "walk", "gone"}
             /\ todo' \subseteq Path /\ present' \subseteq File /\ swept' \subseteq Dir
    BY <1>3 DEF SweepStart, SweepDir, SweepGone, SweepEnd, SweepTypeOK, Path, Entries
<1>4. CASE SweepStart \/ (\E d \in Dir : SweepDir(d)) \/ SweepGone \/ SweepEnd
    BY <1>1, <1>3, <1>4 DEF SweepTypeOK, StampInv, Stamps, SeenIsRecorded, disk
<1>5. ASSUME NEW f \in File, SweepStat(f)
      PROVE  SweepTypeOK' /\ StampInv' /\ SeenIsRecorded'
  <2>1. /\ UNCHANGED <<disk, recorded, roots, seen, swept>>
        /\ todo' \subseteq Path /\ present' \subseteq File /\ spc' \in {"walk", "record"}
        /\ held'.file \in File \cup {None}
        /\ spc' = "record" => held' = [file |-> f, stat |-> stat[f]]
    BY <1>5 DEF SweepStat, SweepTypeOK
  <2> QED
    BY <2>1, <1>2 DEF SweepTypeOK, StampInv, Stamps, SeenIsRecorded, disk
<1>6. CASE SweepRecord
  <2>1. /\ held.file \in File /\ held.stat \in Stamps
        /\ recorded' = Captured(held.file)
        /\ seen' = [seen EXCEPT ![held.file] = held.stat]
        /\ spc' = "walk" /\ held' = NoFile
        /\ UNCHANGED <<disk, roots, swept, todo, present>>
    BY <1>6 DEF SweepRecord, StampInv
  <2>2. StampInv'
    BY <1>2, <2>1, CaptureIsNow DEF StampInv, disk
  <2>3. SweepTypeOK'
    BY <1>2, <2>1, <2>2 DEF SweepTypeOK, StampInv, Stamps, disk, NoFile
  <2>4. SeenIsRecorded'
    BY <2>1, CaptureIsNow DEF SeenIsRecorded, StampInv, disk
  <2> QED
    BY <2>2, <2>3, <2>4
<1>7. CASE SweepRecordFails
    BY <1>1, <1>2, <1>7 DEF SweepRecordFails, SweepTypeOK, StampInv, Stamps, SeenIsRecorded,
                            disk, NoFile
<1>8. ASSUME NEW f \in File, SweepForget(f)
      PROVE  SweepTypeOK' /\ StampInv' /\ SeenIsRecorded'
  <2>1. /\ recorded' = Captured(f) \/ recorded' = recorded
        /\ seen' = [seen EXCEPT ![f] = 0]
        /\ todo' \subseteq Path /\ spc = "gone"
        /\ UNCHANGED <<disk, roots, spc, swept, present, held>>
    BY <1>8 DEF SweepForget, SweepTypeOK
  <2>2. StampInv'
    BY <1>2, <2>1, CaptureIsNow DEF StampInv, Stamps, disk
  <2>3. SweepTypeOK'
    BY <1>2, <2>1, <2>2 DEF SweepTypeOK, StampInv, Stamps, disk
  <2>4. SeenIsRecorded'
    BY <2>1, CaptureIsNow DEF SeenIsRecorded, StampInv, disk
  <2> QED
    BY <2>2, <2>3, <2>4
<1> QED
    BY <1>4, <1>5, <1>6, <1>7, <1>8 DEF SweepNext

(* What Run's goroutine does, seen from the sweep: it adds a root, or      *)
(* captures a file.                                                        *)
LEMMA RunStep ==
    ASSUME TypeOK, StampInv, RootsDisjoint, SeenIsRecorded, RunNext
    PROVE  SweepTypeOK' /\ StampInv' /\ RootsDisjoint' /\ SeenIsRecorded'
<1>1. UNCHANGED <<disk, seen, pass>>
    BY DEF RunNext, Register, HandOver, DeliverDir, ScanFile, DeliverFile, Fire, ListEntries,
           EnterLoop, sweepVars
<1>2. Stamps' = Stamps
    BY <1>1 DEF Stamps, disk
<1>3. \/ roots' = roots
      \/ \E d \in Dir : roots' = AddRoot(roots, d)
    BY DEF RunNext, Register, HandOver, DeliverDir, ScanFile, DeliverFile, Fire, ListEntries,
           EnterLoop, sweepVars
<1>4. roots' \subseteq Dir /\ RootsDisjoint'
    BY <1>3, AddRootDisjoint DEF RootsDisjoint, AddRoot, TypeOK, SweepTypeOK
<1>5. recorded' = recorded \/ \E f \in File : recorded' = Captured(f)
    BY DEF RunNext, Register, HandOver, DeliverDir, ScanFile, DeliverFile, Fire, ListEntries,
           EnterLoop, sweepVars, Capture
<1>6. recorded' \in [File -> Stamps] /\ SeenIsRecorded'
    BY <1>1, <1>5, CaptureIsNow DEF StampInv, SeenIsRecorded, disk
<1>7. StampInv'
    BY <1>1, <1>2, <1>6 DEF StampInv, disk, pass
<1>8. Stamps \subseteq 0 .. MaxChanges + 1
    BY DEF Stamps, StampInv
<1>9. SweepTypeOK'
    BY <1>1, <1>4, <1>6, <1>8 DEF TypeOK, SweepTypeOK, disk, pass
<1> QED
    BY <1>4, <1>6, <1>7, <1>9

(* The walk, the watches and the queue keep their places.                  *)
LEMMA LoopTypes ==
    ASSUME TypeOK, RunNext
    PROVE  /\ watched' \subseteq dirs' /\ events' \subseteq Path \ {Root}
           /\ pending' \subseteq File /\ walk' \subseteq Path
           /\ listing' \in Dir \cup {None} /\ run' \in {"scan", "loop", "refused"}
    BY DEF TypeOK, RunNext, Register, HandOver, DeliverDir, ScanFile, DeliverFile, Fire,
           ListEntries, EnterLoop, sweepVars, disk, Path, Entries

(* A change leaves the watches on directories that exist, and the queue.   *)
LEMMA DisturbTypes ==
    ASSUME TypeOK, Disturb
    PROVE  watched' \subseteq dirs' /\ events' \subseteq Path \ {Root}
    BY DEF TypeOK, Disturb, Raise, Put, Remove, MakeDir, RemoveDir, Path

-----------------------------------------------------------------------------
(* The watcher starts with the walks in order: every directory and file    *)
(* hangs from the root, and no stat is from the future.                    *)
LEMMA TreeInit == Init => TreeInv
<1> SUFFICES ASSUME Init PROVE TreeInv
    OBVIOUS
<1>1. /\ dirs \subseteq Dir /\ Root \in dirs /\ \A d \in dirs \ {Root} : Parent[d] \in dirs
      /\ stat \in [File -> {0, MaxChanges + 1}]
      /\ \A f \in File : stat[f] # 0 => Parent[f] \in dirs
      /\ recorded \in [File -> {0, MaxChanges + 1}]
    BY DEF Init
<1>2. HangsTogether
  <2> SUFFICES ASSUME NEW p \in dirs \cup {f \in File : stat[f] # 0}
               PROVE  Above[p] \subseteq {p} \cup dirs
    BY DEF HangsTogether
  <2> DEFINE A == {p} \cup dirs
  <2>1. A \in SUBSET Path /\ p \in Path /\ Climbs(A)
    BY <1>1 DEF Path, Climbs
  <2> QED
    BY <2>1, AboveLeast
<1>3. StampInv
    BY <1>1 DEF Init, SweepInit, StampInv, Stamps
<1>4. SweepTypeOK
    BY <1>1, <1>2, <1>3 DEF Init, SweepInit, SweepTypeOK, HangsTogether, StampInv, Stamps, NoFile
<1>5. TypeOK
    BY <1>1, <1>4 DEF Init, TypeOK, Path
<1>6. RootsDisjoint /\ SeenIsRecorded
    BY DEF Init, SweepInit, RootsDisjoint, SeenIsRecorded
<1> QED
    BY <1>3, <1>5, <1>6 DEF TreeInv, WatcherInv

(* Every step keeps them so: a change, a lost queue, either goroutine.     *)
LEMMA TreeNext == TreeInv /\ [Next]_vars => TreeInv'
<1> SUFFICES ASSUME TreeInv, [Next]_vars PROVE TreeInv'
    OBVIOUS
<1> USE DEF TreeInv, WatcherInv
<1>0. SweepTypeOK
    BY DEF TypeOK
<1>1. CASE Disturb
  <2>1. /\ \/ \E f \in File : Put(f) \/ Remove(f)
           \/ \E d \in Dir \ {Root} : MakeDir(d) \/ RemoveDir(d)
        /\ UNCHANGED <<recorded, roots, seen, pass>>
        /\ UNCHANGED <<pending, walk, listing, run>>
    BY <1>1 DEF Disturb
  <2>2. SweepTypeOK' /\ StampInv' /\ SeenIsRecorded'
    BY <1>0, <2>1, ChangeStep
  <2>3. TypeOK'
    BY <1>1, <2>1, <2>2, DisturbTypes DEF TypeOK
  <2> QED
    BY <2>1, <2>2, <2>3 DEF RootsDisjoint
<1>2. CASE LoseEvents
    BY <1>2 DEF LoseEvents, sweepVars, disk, pass, TypeOK, SweepTypeOK, StampInv, Stamps,
                RootsDisjoint, SeenIsRecorded
<1>3. CASE RunNext
    BY <1>3, RunStep, LoopTypes DEF TypeOK
<1>4. CASE Poll
  <2>1. SweepNext /\ UNCHANGED loop
    BY <1>4 DEF Poll
  <2>2. SweepTypeOK' /\ StampInv' /\ SeenIsRecorded'
    BY <1>0, <2>1, SweepStep
  <2>3. UNCHANGED <<dirs, roots>>
    BY <2>1 DEF SweepNext, SweepStart, SweepDir, SweepStat, SweepRecord, SweepRecordFails,
                SweepGone, SweepForget, SweepEnd, disk
  <2> QED
    BY <2>1, <2>2, <2>3 DEF TypeOK, RootsDisjoint, loop
<1>5. CASE UNCHANGED vars
    BY <1>5 DEF vars, loop, sweepVars, disk, pass, TypeOK, SweepTypeOK, StampInv, Stamps,
                RootsDisjoint, SeenIsRecorded
<1> QED
    BY <1>1, <1>2, <1>3, <1>4, <1>5 DEF Next

(* The roots stay minimal and non-overlapping (watch/sweep.go:160-161) and *)
(* what the sweep passes over is recorded (sweep.go:344), whatever fails:  *)
(* captures of both paths, the reading of directories, the delivery of     *)
(* events.                                                                 *)
THEOREM WalksAreInOrder == Spec => []WatcherInv
<1>1. TreeInv => WatcherInv
    BY DEF TreeInv
<1> QED
    BY <1>1, TreeInit, TreeNext, PTL DEF Spec

(* The same as an invariant, for the theorems that build on it.            *)
LEMMA TreeKept == Spec => []TreeInv
    BY TreeInit, TreeNext, PTL DEF Spec
-----------------------------------------------------------------------------
(* What a change does to the directories nobody takes care of: none comes  *)
(* into being but on its way (the backend's event for a new directory).    *)
LEMMA CoverDisturb ==
    ASSUME TreeInv, CoverInv, Disturb
    PROVE  CoverInv'
<1>1. UNCHANGED <<roots, walk, listing>> /\ dirs \subseteq Dir /\ HangsTogether
    BY DEF Disturb, TreeInv, WatcherInv, TypeOK, SweepTypeOK, HangsTogether
<1>2. CASE dirs' = dirs /\ watched' = watched /\ events \subseteq events'
    BY <1>1, <1>2 DEF CoverInv, OnTheWay, Uncovered, Covered
<1>3. ASSUME NEW d \in Dir \ {Root}, MakeDir(d), Raise(d), watched' = watched
      PROVE  CoverInv'
  <2>1. /\ d \notin dirs /\ Parent[d] \in dirs /\ dirs' = dirs \cup {d}
        /\ d \in Path \ {Root} /\ Parent[d] \in Dir /\ Above[d] = {d} \cup Above[Parent[d]]
        /\ events' = events \cup (IF Parent[d] \in watched THEN {d} ELSE {})
    BY <1>3, AboveStep DEF MakeDir, Raise, Path
  <2>2. Uncovered \subseteq Uncovered' /\ Uncovered' \subseteq Uncovered \cup {d}
    BY <1>1, <1>3, <2>1 DEF Uncovered, Covered
  <2>3. ASSUME d \in Uncovered' PROVE d \in events' \/ Parent[d] \in Uncovered
    BY <1>1, <1>3, <2>1, <2>3 DEF Uncovered, Covered, UnderAny
  <2> QED
    BY <1>1, <2>1, <2>2, <2>3 DEF CoverInv, OnTheWay
<1>4. ASSUME NEW d \in Dir \ {Root}, RemoveDir(d), watched' = watched \ {d}, events' = events
      PROVE  CoverInv'
  <2>1. d \in dirs /\ dirs' = dirs \ {d} /\ Entries(d) = {}
    BY <1>4 DEF RemoveDir
  <2>2. Uncovered' = Uncovered \ {d}
    BY <1>1, <1>4, <2>1 DEF Uncovered, Covered
  <2>3. ASSUME NEW e \in dirs \ {Root} PROVE Parent[e] # d
    BY <1>1, <2>1 DEF Entries, Exists, Path
  <2> QED
    BY <1>1, <1>4, <2>2, <2>3 DEF CoverInv, OnTheWay, Uncovered
<1> QED
    BY <1>2, <1>3, <1>4 DEF Disturb, Put, Remove, Raise

(* A directory that Run's goroutine takes off a list is watched or given   *)
(* to the sweep, and its entries are next (walkAndRegister).               *)
LEMMA CoverRun ==
    ASSUME Polling, Unscannable = {}, TreeInv, CoverInv, RunNext
    PROVE  CoverInv'
<1> USE DEF TreeInv, WatcherInv
<1>1. dirs' = dirs /\ dirs \subseteq Dir /\ roots \subseteq Dir
    BY DEF TypeOK, SweepTypeOK, RunNext, Register, HandOver, DeliverDir, ScanFile, DeliverFile,
           Fire, ListEntries, EnterLoop, sweepVars, disk
<1>2. ASSUME NEW d \in Dir, Register(d) PROVE CoverInv'
  <2>1. /\ listing = None /\ listing' = d /\ walk' = walk \ {d} /\ watched' = watched \cup {d}
        /\ UNCHANGED <<roots, events>>
    BY <1>2 DEF Register, sweepVars
  <2>2. Uncovered' = Uncovered \ {d}
    BY <1>1, <2>1 DEF Uncovered, Covered
  <2>3. \A e \in Uncovered : e # Root => Parent[e] \in Dir /\ Parent[e] # None
    BY <1>1 DEF Uncovered, Path
  <2> QED
    BY <2>1, <2>2, <2>3 DEF CoverInv, OnTheWay
<1>3. ASSUME NEW d \in Dir, HandOver(d) PROVE CoverInv'
  <2>1. /\ walk' = walk \ {d} /\ roots' = AddRoot(roots, d)
        /\ UNCHANGED <<events, listing, watched>>
    BY <1>3 DEF HandOver
  <2>2. Uncovered' = {e \in Uncovered : ~IsUnder(e, d)}
    BY <1>1, <2>1, AddRootCovers DEF Uncovered, Covered, Path
  <2>3. IsUnder(d, d)
    BY AboveClimbs DEF IsUnder, Path
  <2>4. ASSUME NEW e \in Dir \ {Root}, ~IsUnder(e, d) PROVE ~IsUnder(Parent[e], d)
    BY <2>4, AboveStep DEF IsUnder, Path
  <2> QED
    BY <1>1, <2>1, <2>2, <2>3, <2>4 DEF CoverInv, OnTheWay, Uncovered
<1>4. CASE ListEntries
  <2>1. /\ walk' = walk \cup Entries(listing) /\ listing' = None
        /\ UNCHANGED <<roots, events, watched>>
    BY <1>4 DEF ListEntries, sweepVars
  <2>2. Uncovered' = Uncovered
    BY <1>1, <2>1 DEF Uncovered, Covered
  <2>3. ASSUME NEW e \in Uncovered, e # Root, Parent[e] = listing PROVE e \in walk'
    BY <1>1, <2>1, <2>3 DEF Uncovered, Entries, Exists, Path
  <2> QED
    BY <2>1, <2>2, <2>3 DEF CoverInv, OnTheWay
<1>5. ASSUME NEW d \in Dir, DeliverDir(d) PROVE CoverInv'
  <2>1. /\ events' = events \ {d} /\ walk = {} /\ walk' = IF d \in dirs THEN {d} ELSE {}
        /\ UNCHANGED <<roots, listing, watched>>
    BY <1>5 DEF DeliverDir, Idle, sweepVars
  <2>2. Uncovered' = Uncovered
    BY <1>1, <2>1 DEF Uncovered, Covered
  <2> QED
    BY <2>1, <2>2 DEF CoverInv, OnTheWay, Uncovered
<1>6. CASE EnterLoop \/ \E f \in File : ScanFile(f) \/ DeliverFile(f) \/ Fire(f)
  <2>1. /\ UNCHANGED <<roots, listing, watched>>
        /\ \A d \in Dir : d \in events \cup walk => d \in events' \cup walk'
    BY <1>6 DEF EnterLoop, ScanFile, DeliverFile, Fire, sweepVars
  <2>2. Uncovered' = Uncovered
    BY <1>1, <2>1 DEF Uncovered, Covered
  <2> QED
    BY <1>1, <2>1, <2>2 DEF CoverInv, OnTheWay, Uncovered
<1> QED
    BY <1>2, <1>3, <1>4, <1>5, <1>6 DEF RunNext

(* Nobody is left out once nobody is on the way.                           *)
LEMMA CoveredInTheEnd ==
    ASSUME TreeInv, CoverInv, listing = None, walk = {}, events = {}
    PROVE  Uncovered = {}
<1> SUFFICES ASSUME NEW d \in Uncovered PROVE FALSE
    OBVIOUS
<1>1. dirs \subseteq Path /\ \A e \in dirs \ {Root} : Parent[e] # None
    BY DEF TreeInv, WatcherInv, TypeOK, SweepTypeOK, Path
<1>2. \A e \in Uncovered : e # Root /\ Parent[e] \in Uncovered
    BY <1>1 DEF CoverInv, OnTheWay, Uncovered
<1>3. Above[d] \subseteq Uncovered
    BY <1>1, <1>2, AboveLeast DEF Climbs, Uncovered
<1> QED
    BY <1>1, <1>2, <1>3, TreeAssumption DEF Uncovered

(* "The union of watched and polled is always the whole tree"              *)
(* (watch/watch.go:9-10): whenever Run has nothing under way, every        *)
(* directory there is is watched or under a root of the sweep; whichever   *)
(* directories the backend refuses, at whatever moment.  Where there is    *)
(* polling, no event is lost and every directory can be listed.            *)
THEOREM TreeIsCovered ==
    ASSUME Polling, ~EventsLost, Unscannable = {}
    PROVE  Spec => []Whole
<1>1. Init => CoverInv
  <2> SUFFICES ASSUME Init PROVE CoverInv
      OBVIOUS
  <2>1. walk = {Root} /\ watched = {} /\ roots = {} /\ dirs \subseteq Dir
      BY DEF Init, SweepInit
  <2>2. \A d \in dirs \ {Root} : Parent[d] \in dirs
      BY DEF Init
  <2>3. Uncovered = dirs
      BY <2>1 DEF Uncovered, Covered, UnderAny
  <2> QED
      BY <2>1, <2>2, <2>3 DEF CoverInv, OnTheWay
<1>2. ASSUME TreeInv, CoverInv, [Next]_vars PROVE CoverInv'
  <2>1. CASE Disturb
    BY <1>2, <2>1, CoverDisturb
  <2>2. CASE RunNext
    BY <1>2, <2>2, CoverRun
  <2>3. CASE Poll
    <3>1. UNCHANGED <<dirs, roots, loop>>
      BY <2>3 DEF Poll, SweepNext, SweepStart, SweepDir, SweepStat, SweepRecord,
                  SweepRecordFails, SweepGone, SweepForget, SweepEnd, disk
    <3> QED
      BY <1>2, <3>1 DEF loop, CoverInv, OnTheWay, Uncovered, Covered
  <2>4. CASE UNCHANGED vars
    BY <1>2, <2>4 DEF vars, loop, sweepVars, disk, CoverInv, OnTheWay, Uncovered, Covered
  <2> QED
    BY <1>2, <2>1, <2>2, <2>3, <2>4 DEF Next, LoseEvents
<1>3. TreeInv /\ CoverInv => Whole
    BY CoveredInTheEnd DEF Whole, Idle, Uncovered
<1> QED
    BY <1>1, <1>2, <1>3, TreeKept, PTL DEF Spec
-----------------------------------------------------------------------------
(* Run's goroutine: what it takes off a list it captures, and what it      *)
(* begins to watch it lists next (walkAndRegister, recordRealtime).        *)
LEMMA FilesRun ==
    ASSUME ~CaptureFails, Unscannable = {}, TreeInv, FilesInv, RunNext
    PROVE  FilesInv'
<1>1. /\ stat' = stat
      /\ \A f \in File : f \in Path \ {Root} /\ f \notin Dir /\ Parent[f] \in Dir /\ Parent[f] # None
      /\ StampInv
    BY DEF RunNext, Register, HandOver, DeliverDir, ScanFile, DeliverFile, Fire, ListEntries,
           EnterLoop, sweepVars, disk, Path, TreeInv
<1>2. ASSUME NEW d \in Dir, Register(d) PROVE FilesInv'
  <2>1. /\ listing = None /\ listing' = d /\ walk' = walk \ {d} /\ watched' = watched \cup {d}
        /\ UNCHANGED <<recorded, events, pending>>
    BY <1>2 DEF Register, sweepVars
  <2> QED
    BY <1>1, <2>1 DEF FilesInv, FileOnTheWay
<1>3. ASSUME NEW d \in Dir, HandOver(d) \/ DeliverDir(d) PROVE FilesInv'
  <2>1. /\ UNCHANGED <<recorded, watched, listing, pending>>
        /\ \A f \in File : f \in events \cup walk => f \in events' \cup walk'
    BY <1>1, <1>3 DEF HandOver, DeliverDir, Idle, sweepVars
  <2> QED
    BY <1>1, <2>1 DEF FilesInv, FileOnTheWay
<1>4. CASE ListEntries
  <2>1. /\ walk' = walk \cup Entries(listing) /\ listing' = None
        /\ UNCHANGED <<recorded, watched, events, pending>>
    BY <1>4 DEF ListEntries, sweepVars
  <2>2. ASSUME NEW f \in File, stat[f] # 0, Parent[f] = listing PROVE f \in walk'
    BY <1>1, <2>1, <2>2 DEF Entries, Exists
  <2> QED
    BY <1>1, <2>1, <2>2 DEF FilesInv, FileOnTheWay
<1>5. ASSUME NEW f \in File, ScanFile(f) \/ Fire(f) PROVE FilesInv'
  <2>1. /\ recorded' = Captured(f)
        /\ UNCHANGED <<watched, listing, events>>
        /\ \A g \in File \ {f} : g \in pending \cup walk => g \in pending' \cup walk'
    BY <1>5 DEF ScanFile, Fire, Capture
  <2>2. \A g \in File : recorded'[g] = IF g = f THEN stat[f] ELSE recorded[g]
    BY <1>1, <2>1, CaptureIsNow
  <2> QED
    BY <1>1, <2>1, <2>2 DEF FilesInv, FileOnTheWay
<1>6. CASE EnterLoop \/ \E f \in File : DeliverFile(f)
  <2>1. /\ UNCHANGED <<recorded, watched, listing>>
        /\ events \cup pending \cup walk \subseteq events' \cup pending' \cup walk'
    BY <1>6 DEF EnterLoop, DeliverFile, sweepVars
  <2> QED
    BY <1>1, <2>1 DEF FilesInv, FileOnTheWay
<1> QED
    BY <1>2, <1>3, <1>4, <1>5, <1>6 DEF RunNext

(* A change of a watched file raises its event.                            *)
LEMMA FilesDisturb ==
    ASSUME TreeInv, FilesInv, Disturb
    PROVE  FilesInv'
<1>1. /\ UNCHANGED <<recorded, pending, walk, listing>>
      /\ watched' \subseteq watched /\ events \subseteq events'
      /\ stat \in [File -> Stamps]
    BY DEF Disturb, Raise, TreeInv, StampInv
<1>2. ASSUME NEW f \in File, stat'[f] # stat[f], stat'[f] # 0, Parent[f] \in watched'
      PROVE  f \in events'
    BY <1>1, <1>2 DEF Disturb, Raise, Put, Remove, MakeDir, RemoveDir
<1> QED
    BY <1>1, <1>2 DEF FilesInv, FileOnTheWay

(* The sweep only ever records a file as it is.                            *)
LEMMA FilesPoll ==
    ASSUME TreeInv, FilesInv, Poll
    PROVE  FilesInv'
<1>1. UNCHANGED <<stat, loop>>
    BY DEF Poll, SweepNext, SweepStart, SweepDir, SweepStat, SweepRecord, SweepRecordFails,
           SweepGone, SweepForget, SweepEnd, disk
<1>2. recorded' = recorded \/ \E f \in File : recorded' = Captured(f)
    BY DEF Poll, SweepNext, SweepStart, SweepDir, SweepStat, SweepRecord, SweepRecordFails,
           SweepGone, SweepForget, SweepEnd, TreeInv, StampInv
<1>3. \A f \in File : recorded'[f] \in {recorded[f], stat[f]}
    BY <1>2, CaptureIsNow DEF TreeInv
<1> QED
    BY <1>1, <1>3 DEF FilesInv, FileOnTheWay, loop

(* A file in a watched directory is as the store has it once no event of   *)
(* it is left ("captures every change", README.md:187), whatever the sweep *)
(* does beside; where no capture fails, no event is lost and every         *)
(* directory can be listed.                                                *)
THEOREM WatchedIsRecorded ==
    ASSUME ~CaptureFails, ~EventsLost, Unscannable = {}
    PROVE  Spec => []FilesAreRecorded
<1>1. Init => FilesInv
    BY DEF Init, FilesInv
<1>2. ASSUME TreeInv, FilesInv, [Next]_vars PROVE FilesInv'
  <2>1. CASE UNCHANGED vars
    BY <1>2, <2>1 DEF vars, loop, sweepVars, disk, FilesInv, FileOnTheWay
  <2> QED
    BY <1>2, <2>1, FilesDisturb, FilesRun, FilesPoll DEF Next, LoseEvents
<1>3. TreeInv /\ FilesInv => FilesAreRecorded
    BY DEF FilesInv, FileOnTheWay, FilesAreRecorded, Settled, Idle, Path, TreeInv, WatcherInv,
           TypeOK, SweepTypeOK
<1> QED
    BY <1>1, <1>2, <1>3, TreeKept, PTL DEF Spec
-----------------------------------------------------------------------------
(* A run on a platform without polling, over a tree that nobody changes:   *)
(* as long as the backend has refused nothing, a directory is watched, or  *)
(* the walk comes to it, or its parent is not watched either; and what has *)
(* gone on to the loop has had nothing refused.                            *)
Reached(d) ==
    \/ d \in watched \cup walk
    \/ d # Root /\ (listing = Parent[d] \/ Parent[d] \notin watched)
AloneInv ==
    /\ dirs \subseteq Dir /\ \A d \in dirs \ {Root} : Parent[d] \in dirs
    /\ roots \subseteq Dir /\ changes = 0 /\ events = {}
    /\ roots = {} => \A d \in dirs : Reached(d)
    /\ run = "loop" => roots = {} /\ Idle

LEMMA AloneStart == Alone!Init => AloneInv
    BY DEF Alone!Init, Alone!SweepInit, AloneInv, Reached

(* A refused directory becomes a root or lies under one (addRoot).         *)
LEMMA AloneHandsOver ==
    ASSUME NEW R \in SUBSET Dir, NEW d \in Dir
    PROVE  Alone!AddRoot(R, d) # {} /\ Alone!AddRoot(R, d) \subseteq Dir
    BY DEF Alone!AddRoot, Alone!UnderAny

LEMMA AloneStep ==
    ASSUME ~AllowPartial, Unscannable = {}, AloneInv, Alone!Next
    PROVE  AloneInv'
<1>1. ~Alone!Disturb /\ ~Alone!LoseEvents /\ ~Alone!Poll
    BY DEF AloneInv, Alone!Disturb, Alone!LoseEvents, Alone!Poll, Alone!Put, Alone!Remove,
           Alone!MakeDir, Alone!RemoveDir, Alone!Changed
<1>2. Alone!RunNext
    BY <1>1 DEF Alone!Next
<1>3. UNCHANGED <<dirs, changes, events>>
    BY <1>2 DEF AloneInv, Alone!RunNext, Alone!Register, Alone!HandOver, Alone!DeliverDir,
           Alone!ScanFile, Alone!DeliverFile, Alone!Fire, Alone!ListEntries, Alone!EnterLoop,
           Alone!sweepVars, Alone!disk
<1>4. \A d \in dirs \ {Root} : Parent[d] \in Dir /\ Parent[d] # None /\ d \in Path /\ d \notin File
    BY DEF AloneInv, Path
<1>5. ASSUME NEW d \in Dir, Alone!Register(d) PROVE AloneInv'
  <2>1. /\ listing = None /\ listing' = d /\ walk' = walk \ {d} /\ watched' = watched \cup {d}
        /\ UNCHANGED <<roots, run>> /\ d \in walk
    BY <1>5 DEF Alone!Register, Alone!sweepVars
  <2> QED
    BY <1>3, <1>4, <2>1 DEF AloneInv, Reached, Idle
<1>6. ASSUME NEW d \in Dir, Alone!HandOver(d) PROVE AloneInv'
  <2>1. roots' = Alone!AddRoot(roots, d) /\ d \in walk /\ UNCHANGED run
    BY <1>6 DEF Alone!HandOver
  <2>2. roots' # {} /\ roots' \subseteq Dir
    BY <2>1, AloneHandsOver DEF AloneInv
  <2> QED
    BY <1>3, <2>1, <2>2 DEF AloneInv, Idle
<1>7. CASE Alone!ListEntries
  <2>1. /\ listing # None /\ walk' = walk \cup Alone!Entries(listing) /\ listing' = None
        /\ UNCHANGED <<roots, run, watched>>
    BY <1>7 DEF Alone!ListEntries, Alone!sweepVars
  <2>2. ASSUME NEW d \in dirs \ {Root}, Parent[d] = listing PROVE d \in walk'
    BY <1>4, <2>1, <2>2 DEF Alone!Entries, Alone!Exists, Alone!Path, Path, AloneInv
  <2> QED
    BY <1>3, <1>4, <2>1, <2>2 DEF AloneInv, Reached, Idle
<1>8. ASSUME NEW f \in File, Alone!ScanFile(f) PROVE AloneInv'
  <2>1. f \in walk /\ walk' = walk \ {f} /\ UNCHANGED <<roots, run, watched, listing>>
    BY <1>8 DEF Alone!ScanFile
  <2> QED
    BY <1>3, <1>4, <2>1 DEF AloneInv, Reached, Idle
<1>9. CASE Alone!EnterLoop
    BY <1>3, <1>9 DEF Alone!EnterLoop, Alone!Idle, Alone!sweepVars, AloneInv, Reached, Idle
<1>10. ASSUME NEW f \in File, Alone!Fire(f) PROVE AloneInv'
    BY <1>3, <1>10 DEF Alone!Fire, Alone!Idle, AloneInv, Reached, Idle
<1> QED
    BY <1>2, <1>5, <1>6, <1>7, <1>8, <1>9, <1>10
       DEF Alone!RunNext, Alone!DeliverDir, Alone!DeliverFile, AloneInv

(* What the loop runs on is the whole tree: of a directory that is not     *)
(* watched, nothing above would be, and the root is.                       *)
LEMMA AloneIsWhole == AloneInv => Alone!Whole
<1> SUFFICES ASSUME AloneInv, run = "loop", NEW d \in dirs, d \notin watched PROVE FALSE
    BY DEF Alone!Whole, Alone!Covered
<1> DEFINE A == dirs \ watched
<1>1. roots = {} /\ walk = {} /\ listing = None /\ dirs \subseteq Path
    BY DEF AloneInv, Idle, Path
<1>2. ASSUME NEW q \in A PROVE q # Root /\ Parent[q] \in A
    BY <1>1, <1>2 DEF AloneInv, Reached, Path
<1>3. A \in SUBSET Path /\ d \in A /\ Climbs(A)
    BY <1>1, <1>2 DEF Climbs
<1>4. Above[d] \subseteq A /\ Root \in Above[d]
  <2> HIDE DEF A
  <2> QED
    BY <1>1, <1>3, AboveLeast, TreeAssumption
<1> QED
    BY <1>2, <1>4
-----------------------------------------------------------------------------
(* The tree of the patterns: what is above a path.                         *)
USE DEF Scope!Path

LEMMA ScopeTreeFacts ==
    /\ ScopeRoot \in ScopeDir /\ ScopeDir \cap ScopeFile = {}
    /\ \A p \in Scope!Path \ {ScopeRoot} : ScopeParent[p] \in ScopeDir
    /\ \A p \in Scope!Path : /\ ScopeAbove[p] \in SUBSET Scope!Path /\ ScopeRoot \in ScopeAbove[p]
                             /\ p \in ScopeAbove[p] /\ Scope!Climbs(ScopeAbove[p])
    BY ScopeAssumption DEF Scope!IgnoreAssumption, Scope!IsLeast

LEMMA ScopeLeast ==
    ASSUME NEW p \in Scope!Path, NEW A \in SUBSET Scope!Path, p \in A, Scope!Climbs(A)
    PROVE  ScopeAbove[p] \subseteq A
    BY ScopeAssumption DEF Scope!IgnoreAssumption, Scope!IsLeast

LEMMA ScopeTrans ==
    ASSUME NEW p \in Scope!Path, NEW q \in ScopeAbove[p]
    PROVE  q \in Scope!Path /\ ScopeAbove[q] \subseteq ScopeAbove[p]
<1>1. q \in Scope!Path /\ ScopeAbove[p] \in SUBSET Scope!Path /\ Scope!Climbs(ScopeAbove[p])
    BY ScopeTreeFacts
<1> QED
    BY <1>1, ScopeLeast

LEMMA ScopeRootAbove == ScopeAbove[ScopeRoot] = {ScopeRoot}
<1>1. {ScopeRoot} \in SUBSET Scope!Path /\ Scope!Climbs({ScopeRoot})
    BY ScopeTreeFacts DEF Scope!Climbs
<1> QED
    BY <1>1, ScopeLeast, ScopeTreeFacts

LEMMA ScopeStep ==
    ASSUME NEW p \in Scope!Path \ {ScopeRoot}
    PROVE  ScopeParent[p] \in ScopeDir /\ ScopeAbove[p] = {p} \cup ScopeAbove[ScopeParent[p]]
<1>1. ScopeParent[p] \in ScopeDir /\ ScopeParent[p] \in Scope!Path
    BY ScopeTreeFacts
<1>2. ScopeAbove[ScopeParent[p]] \subseteq ScopeAbove[p] /\ p \in ScopeAbove[p]
    BY <1>1, ScopeTreeFacts, ScopeTrans DEF Scope!Climbs
<1> DEFINE A == {p} \cup ScopeAbove[ScopeParent[p]]
<1>3. A \in SUBSET Scope!Path /\ Scope!Climbs(A) /\ p \in A
    BY <1>1, ScopeTreeFacts DEF Scope!Climbs
<1>4. ScopeAbove[p] \subseteq A
    BY <1>3, ScopeLeast
<1> QED
    BY <1>1, <1>2, <1>4

(* A path does not lie above its parent: what is above it and below it, if *)
(* there were anything, would go on to the root.                           *)
LEMMA ScopeNoLoop ==
    ASSUME NEW p \in Scope!Path \ {ScopeRoot}
    PROVE  p \notin ScopeAbove[ScopeParent[p]]
<1> SUFFICES ASSUME p \in ScopeAbove[ScopeParent[p]] PROVE FALSE
    OBVIOUS
<1> DEFINE T == {q \in ScopeAbove[p] : p \in ScopeAbove[q]}
<1>1. T \in SUBSET Scope!Path /\ p \in T
    BY ScopeTreeFacts
<1>2. ASSUME NEW q \in T \ {ScopeRoot} PROVE ScopeParent[q] \in T
  <2>1. q \in Scope!Path \ {ScopeRoot} /\ ScopeParent[q] \in ScopeAbove[p]
    BY <1>1, <1>2, ScopeTreeFacts DEF Scope!Climbs
  <2>2. ScopeAbove[q] = {q} \cup ScopeAbove[ScopeParent[q]]
    BY <2>1, ScopeStep
  <2> QED
    BY <1>2, <2>1, <2>2
<1>3. Scope!Climbs(T)
    BY <1>2 DEF Scope!Climbs
<1>4. ScopeAbove[p] \subseteq T
  <2> HIDE DEF T
  <2> QED
    BY <1>1, <1>3, ScopeLeast
<1> QED
    BY <1>4, ScopeTreeFacts, ScopeRootAbove

LEMMA ScopeAntisym ==
    ASSUME NEW x \in Scope!Path, NEW y \in Scope!Path, x \in ScopeAbove[y], y \in ScopeAbove[x]
    PROVE  x = y
<1>1. CASE y = ScopeRoot
    BY <1>1, ScopeRootAbove
<1>2. CASE y # ScopeRoot /\ x # y
  <2>1. x \in ScopeAbove[ScopeParent[y]] /\ ScopeParent[y] \in Scope!Path
    BY <1>2, ScopeStep
  <2>2. y \in ScopeAbove[ScopeParent[y]]
    BY <2>1, ScopeTrans
  <2> QED
    BY <1>2, <2>2, ScopeNoLoop
<1> QED
    BY <1>1, <1>2

(* Nothing is below a file.                                                *)
LEMMA ScopeFileIsLeaf ==
    ASSUME NEW p \in Scope!Path, NEW f \in ScopeFile, f \in ScopeAbove[p]
    PROVE  p = f
<1> DEFINE A == {p} \cup ScopeDir
<1>1. A \in SUBSET Scope!Path /\ Scope!Climbs(A)
    BY ScopeTreeFacts DEF Scope!Climbs
<1>2. ScopeAbove[p] \subseteq A
    BY <1>1, ScopeLeast
<1> QED
    BY <1>2, ScopeTreeFacts

(* On the way from a path down to one below it comes an entry of the path. *)
LEMMA ScopeNextEntry ==
    ASSUME NEW p \in Scope!Path, NEW d \in ScopeAbove[p], d # p
    PROVE  \E e \in Scope!Entries(d) : e \in ScopeAbove[p]
<1> SUFFICES ASSUME \A e \in Scope!Entries(d) : e \notin ScopeAbove[p] PROVE FALSE
    OBVIOUS
<1> DEFINE A == ScopeAbove[p] \ {d}
<1>1. A \in SUBSET Scope!Path /\ p \in A
    BY ScopeTreeFacts
<1>2. Scope!Climbs(A)
    BY ScopeTreeFacts DEF Scope!Climbs, Scope!Entries
<1>3. ScopeAbove[p] \subseteq A
  <2> HIDE DEF A
  <2> QED
    BY <1>1, <1>2, ScopeLeast
<1> QED
    BY <1>3
-----------------------------------------------------------------------------
(* The last pattern that hits a path is one that does, and none after it.  *)
ScopeHits(p, slash) == {i \in DOMAIN gi : Scope!Hits(gi[i], p, slash)}

LEMMA ScopeLastHit ==
    ASSUME gi \in Lists, NEW p, NEW slash
    PROVE  IF ScopeHits(p, slash) = {} THEN Scope!LastHit(p, slash) = 0
           ELSE /\ Scope!LastHit(p, slash) \in ScopeHits(p, slash)
                /\ \A j \in ScopeHits(p, slash) : j <= Scope!LastHit(p, slash)
<1> DEFINE K == ScopeHits(p, slash)
<1>1. DOMAIN gi = 1 .. Len(gi) /\ Len(gi) \in Nat /\ K \subseteq DOMAIN gi
    BY ScopeAssumption DEF Scope!IgnoreAssumption, ScopeHits
<1>2. CASE K = {}
    BY <1>2 DEF Scope!LastHit, ScopeHits
<1>3. CASE K # {}
  <2> DEFINE U == {m \in Nat : \A j \in K : j <= m}
  <2>1. Len(gi) \in U
    BY <1>1
  <2>2. \E m \in U : \A u \in U : ~ (<<u, m>> \in OpToRel(<, Nat))
    <3>1. U # {} /\ U \in SUBSET Nat
      BY <2>1
    <3> HIDE DEF U
    <3> QED
      BY <3>1, NatLessThanWellFounded, WFMin
  <2>3. PICK m \in U : \A u \in U : ~ (u < m)
    BY <2>2 DEF OpToRel
  <2>4. m \in K
    <3> SUFFICES ASSUME m \notin K PROVE FALSE
      OBVIOUS
    <3>1. K \subseteq Nat /\ m \in Nat /\ \A j \in K : j <= m - 1
      BY <1>1, <2>3
    <3>2. m - 1 \in U
      BY <1>3, <3>1
    <3> QED
      BY <2>3, <3>1, <3>2
  <2>5. \E i \in K : \A j \in K : j <= i
    BY <2>3, <2>4
  <2>6. Scope!LastHit(p, slash) = CHOOSE i \in K : \A j \in K : j <= i
    BY <1>3 DEF Scope!LastHit, ScopeHits
  <2>7. K = ScopeHits(p, slash)
    OBVIOUS
  <2> HIDE DEF K
  <2>8. Scope!LastHit(p, slash) \in K /\ \A j \in K : j <= Scope!LastHit(p, slash)
    BY <2>5, <2>6
  <2> QED
    BY <1>3, <2>7, <2>8
<1> QED
    BY <1>2, <1>3
-----------------------------------------------------------------------------
(* A directory that only MatchDir puts out of scope is hit by a pattern    *)
(* for directories, and then everything below it is (isDir in match): the  *)
(* walk that asks Match finds the entries out of scope instead.            *)
LEMMA ScopeHidden ==
    ASSUME ListsAgree, gi \in Lists, NEW p \in Scope!Path, NEW d \in ScopeAbove[p], d # p,
           Scope!MatchDir(d), ~Scope!Match(d)
    PROVE  Scope!Match(p)
<1>1. /\ d \in Scope!Path \ {ScopeRoot} /\ p # ScopeRoot
      /\ Scope!MatchesPath(d, TRUE) /\ ~Scope!MatchesPath(d, FALSE)
    BY ScopeTreeFacts, ScopeRootAbove DEF Scope!MatchDir, Scope!Match, Scope!Matches
<1> DEFINE i == Scope!LastHit(d, TRUE)
<1>2. i \in ScopeHits(d, TRUE) /\ ~gi[i].negated /\ \A j \in ScopeHits(d, TRUE) : j <= i
    BY <1>1, ScopeLastHit DEF Scope!MatchesPath
<1>3. DOMAIN gi \subseteq Nat \ {0} /\ i \in DOMAIN gi /\ Scope!Hits(gi[i], d, TRUE)
  <2>1. DOMAIN gi = 1 .. Len(gi) /\ Len(gi) \in Nat
    BY ScopeAssumption DEF Scope!IgnoreAssumption
  <2>2. DOMAIN gi \subseteq Nat \ {0}
    BY <2>1
  <2> HIDE DEF i
  <2>3. i \in DOMAIN gi /\ Scope!Hits(gi[i], d, TRUE)
    BY <1>2 DEF ScopeHits
  <2> QED
    BY <2>2, <2>3
<1>4. ~Scope!Hits(gi[i], d, FALSE)
  <2> SUFFICES ASSUME i \in ScopeHits(d, FALSE) PROVE FALSE
    BY <1>3 DEF ScopeHits
  <2>1. ScopeHits(d, FALSE) \subseteq ScopeHits(d, TRUE)
    BY DEF ScopeHits, Scope!Hits
  <2>2. /\ Scope!LastHit(d, FALSE) \in ScopeHits(d, FALSE)
        /\ \A j \in ScopeHits(d, FALSE) : j <= Scope!LastHit(d, FALSE)
    BY ScopeLastHit
  <2>3. Scope!LastHit(d, FALSE) = i /\ i # 0
    <3> DEFINE k == Scope!LastHit(d, FALSE)
    <3>1. k \in ScopeHits(d, TRUE) /\ k <= i /\ i <= k /\ k \in Nat /\ i \in Nat /\ i # 0
      <4>1. ScopeHits(d, FALSE) \subseteq DOMAIN gi
        BY DEF ScopeHits
      <4> HIDE DEF i, k
      <4>2. k \in ScopeHits(d, FALSE) /\ \A j \in ScopeHits(d, FALSE) : j <= k
        BY <2>2 DEF k
      <4> QED
        BY <1>2, <1>3, <2>1, <4>1, <4>2
    <3> HIDE DEF i, k
    <3>2. k = i /\ i # 0
      BY <3>1
    <3> QED
      BY <3>2 DEF k
  <2> QED
    BY <1>1, <1>2, <2>3 DEF Scope!MatchesPath
<1>5. gi[i].at = d /\ gi[i].dirOnly
    BY <1>3, <1>4 DEF Scope!Hits
<1>6. \A j \in DOMAIN gi : ~gi[j].negated
  <2> HIDE DEF i
  <2> QED
    BY <1>2, <1>3, <1>5 DEF ListsAgree, Scope!Agreeing
<1>7. i \in ScopeHits(p, FALSE)
    BY <1>1, <1>3, <1>5 DEF ScopeHits, Scope!Hits, Scope!Components
<1>8. Scope!LastHit(p, FALSE) \in DOMAIN gi
    BY <1>7, ScopeLastHit DEF ScopeHits
<1>9. Scope!MatchesPath(p, FALSE)
    BY <1>3, <1>6, <1>8 DEF Scope!MatchesPath
<1> QED
    BY <1>1, <1>9 DEF Scope!Match, Scope!Matches
-----------------------------------------------------------------------------
(* What the two walks have still to look at, and what lies below it.       *)
Front == listed \cup sweeping
NoneBelowAnother(F) == \A x, y \in F : x \in ScopeAbove[y] => x = y
ScopeFilesIn == {f \in ScopeFile : Scope!InScope(f)}

(* The walks have each file in scope behind them, recorded, or ahead, below*)
(* exactly one path they have still to look at; and above that path they   *)
(* have looked at everything, each with the question it asks.              *)
ScopeInv ==
    /\ gi \in Lists
    /\ listed \subseteq Scope!Path /\ sweeping \subseteq Scope!Path
    /\ listed \cap sweeping = {} /\ NoneBelowAnother(Front)
    /\ \A p \in listed : \A d \in ScopeAbove[p] \ {p} : ~Scope!MatchDir(d)
    /\ \A p \in sweeping : \A d \in ScopeAbove[p] \ {p} : ~Scope!Match(d)
    /\ captured \subseteq ScopeFilesIn
    /\ \A f \in ScopeFilesIn : f \in captured \/ \E p \in Front : p \in ScopeAbove[f]

LEMMA ScopeStart == Scope!Init => ScopeInv
<1> SUFFICES ASSUME Scope!Init PROVE ScopeInv
    OBVIOUS
<1>1. /\ gi \in Lists /\ listed = {ScopeRoot} /\ sweeping = {} /\ captured = {}
      /\ ScopeRoot \in Scope!Path /\ Front = {ScopeRoot}
    BY ScopeTreeFacts DEF Scope!Init, Front
<1>2. \A f \in ScopeFilesIn : ScopeRoot \in ScopeAbove[f]
    BY ScopeTreeFacts DEF ScopeFilesIn
<1> QED
    BY <1>1, <1>2, ScopeRootAbove DEF ScopeInv, NoneBelowAnother

(* The entries of a path take its place: no other path of the front lies   *)
(* above or below them, and the way down to each file goes through one.    *)
LEMMA ScopeDescend ==
    ASSUME NEW F \in SUBSET Scope!Path, NEW d \in F, NoneBelowAnother(F)
    PROVE  /\ Scope!Entries(d) \subseteq Scope!Path \ {ScopeRoot}
           /\ \A e \in Scope!Entries(d) : ScopeAbove[e] = {e} \cup ScopeAbove[d]
           /\ Scope!Entries(d) \cap F = {}
           /\ NoneBelowAnother((F \ {d}) \cup Scope!Entries(d))
<1>1. \A e \in Scope!Entries(d) :
          /\ e \in Scope!Path \ {ScopeRoot} /\ d = ScopeParent[e]
          /\ ScopeAbove[e] = {e} \cup ScopeAbove[d] /\ e \notin ScopeAbove[d]
    BY ScopeStep, ScopeNoLoop DEF Scope!Entries
<1>2. d \in Scope!Path /\ d \in ScopeAbove[d]
    BY ScopeTreeFacts
<1>3. ASSUME NEW e \in Scope!Entries(d), NEW y \in F \ {d} PROVE e \notin ScopeAbove[y] /\ e # y
  <2>1. e \in Scope!Path /\ d \in ScopeAbove[e]
    BY <1>1, <1>2
  <2>2. e \notin ScopeAbove[y]
    <3> SUFFICES ASSUME e \in ScopeAbove[y] PROVE FALSE
      OBVIOUS
    <3>1. d \in ScopeAbove[y]
      BY <2>1, ScopeTrans
    <3> QED
      BY <1>3, <3>1 DEF NoneBelowAnother
  <2> QED
    BY <2>1, <2>2, ScopeTreeFacts
<1>4. ASSUME NEW x \in (F \ {d}) \cup Scope!Entries(d), NEW y \in (F \ {d}) \cup Scope!Entries(d),
             x \in ScopeAbove[y]
      PROVE  x = y
  <2>1. CASE y \in Scope!Entries(d) /\ x \in Scope!Entries(d)
    BY <1>1, <1>4, <2>1
  <2>2. CASE y \in Scope!Entries(d) /\ x \in F \ {d}
    BY <1>1, <1>4, <2>2 DEF NoneBelowAnother
  <2>3. CASE y \in F \ {d}
    BY <1>3, <1>4, <2>3 DEF NoneBelowAnother
  <2> QED
    BY <2>1, <2>2, <2>3
<1>5. Scope!Entries(d) \cap F = {}
    BY <1>1, <1>2, <1>3
<1> QED
    BY <1>1, <1>4, <1>5 DEF NoneBelowAnother

(* What is put out of scope takes everything below it along; a file is     *)
(* below itself only.                                                      *)
LEMMA ScopePruned ==
    ASSUME NEW d \in Scope!Path, NEW f \in ScopeFilesIn, d \in ScopeAbove[f]
    PROVE  /\ ~Scope!Match(d)
           /\ d \in ScopeDir => ~Scope!MatchDir(d)
           /\ d \in ScopeFile => d = f
<1>1. f \in ScopeFile /\ f \in Scope!Path /\ Scope!InScope(f)
    BY DEF ScopeFilesIn
<1>2. d \in ScopeFile => d = f
    BY <1>1, ScopeFileIsLeaf
<1>3. d # f => ~Scope!MatchDir(d)
    BY <1>1, ScopeTreeFacts DEF Scope!InScope, Scope!Components, Scope!MatchDir, Scope!Matches
<1>4. Scope!Match(d) => Scope!MatchDir(d)
    BY DEF Scope!Match, Scope!MatchDir, Scope!Matches
<1> QED
    BY <1>1, <1>2, <1>3, <1>4, ScopeTreeFacts DEF Scope!InScope

(* The way down to a file of the front's path goes on through an entry.    *)
LEMMA ScopeGoesOn ==
    ASSUME NEW d \in ScopeDir, NEW f \in ScopeFile, d \in ScopeAbove[f]
    PROVE  \E e \in Scope!Entries(d) : e \in ScopeAbove[f]
    BY ScopeNextEntry, ScopeTreeFacts
-----------------------------------------------------------------------------
(* The patterns are read once: what is in scope stays so.                  *)
LEMMA ScopeStays ==
    ASSUME gi' = gi
    PROVE  /\ ScopeFilesIn' = ScopeFilesIn
           /\ \A d : (Scope!MatchDir(d)' <=> Scope!MatchDir(d)) /\ (Scope!Match(d)' <=> Scope!Match(d))
    BY DEF ScopeFilesIn, Scope!InScope, Scope!MatchDir, Scope!Match, Scope!Matches,
           Scope!MatchesPath, Scope!LastHit, Scope!Hits, Scope!Components

(* The walk at a directory (walkAndRegister).                              *)
LEMMA ScopeWalksDir ==
    ASSUME ListsAgree, ScopeInv, NEW d \in ScopeDir,
           Scope!Prune(d) \/ Scope!AddDir(d) \/ Scope!AddRoot(d)
    PROVE  ScopeInv'
<1>1. /\ d \in listed /\ d \in Front /\ d \in Scope!Path /\ gi' = gi /\ captured' = captured
      /\ Front \in SUBSET Scope!Path /\ NoneBelowAnother(Front)
    BY DEF Scope!Prune, Scope!AddDir, Scope!AddRoot, ScopeInv, Front
<1>2. CASE Scope!Prune(d)
  <2>1. Scope!MatchDir(d) /\ listed' = listed \ {d} /\ sweeping' = sweeping
    BY <1>2 DEF Scope!Prune
  <2>2. Front' = Front \ {d} /\ NoneBelowAnother(Front')
    BY <1>1, <2>1 DEF Front, ScopeInv, NoneBelowAnother
  <2>3. \A f \in ScopeFilesIn : d \notin ScopeAbove[f]
    BY <1>1, <2>1, ScopePruned
  <2>4. \A f \in ScopeFilesIn : f \in captured \/ \E p \in Front' : p \in ScopeAbove[f]
    BY <2>2, <2>3 DEF ScopeInv
  <2> QED
    BY <1>1, <2>1, <2>2, <2>4, ScopeStays DEF ScopeInv
<1>3. CASE Scope!AddDir(d)
  <2> DEFINE E == Scope!Entries(d)
  <2>1. ~Scope!MatchDir(d) /\ listed' = (listed \ {d}) \cup E /\ sweeping' = sweeping
    BY <1>3 DEF Scope!AddDir
  <2>2. /\ E \subseteq Scope!Path /\ E \cap Front = {} /\ NoneBelowAnother((Front \ {d}) \cup E)
        /\ \A e \in E : ScopeAbove[e] = {e} \cup ScopeAbove[d]
    BY <1>1, ScopeDescend
  <2>3. \A f \in ScopeFilesIn : d \in ScopeAbove[f] => \E e \in E : e \in ScopeAbove[f]
    BY ScopeGoesOn DEF ScopeFilesIn
  <2> HIDE DEF E
  <2>4. Front' = (Front \ {d}) \cup E /\ listed' \cap sweeping' = {}
    BY <1>1, <2>1, <2>2 DEF Front, ScopeInv
  <2>5. \A p \in listed' : \A a \in ScopeAbove[p] \ {p} : ~Scope!MatchDir(a)
    BY <1>1, <2>1, <2>2 DEF ScopeInv
  <2>6. \A f \in ScopeFilesIn : f \in captured \/ \E p \in Front' : p \in ScopeAbove[f]
    BY <2>3, <2>4 DEF ScopeInv
  <2> QED
    BY <1>1, <2>1, <2>2, <2>4, <2>5, <2>6, ScopeStays DEF ScopeInv
<1>4. CASE Scope!AddRoot(d)
  <2>1. ~Scope!MatchDir(d) /\ listed' = listed \ {d} /\ sweeping' = sweeping \cup {d}
    BY <1>4 DEF Scope!AddRoot
  <2>2. Front' = Front /\ listed' \cap sweeping' = {}
    BY <1>1, <2>1 DEF Front, ScopeInv
  <2>3. \A a : Scope!Match(a) => Scope!MatchDir(a)
    BY DEF Scope!Match, Scope!MatchDir, Scope!Matches
  <2>4. \A p \in sweeping' : \A a \in ScopeAbove[p] \ {p} : ~Scope!Match(a)
    BY <1>1, <2>1, <2>3 DEF ScopeInv
  <2> QED
    BY <1>1, <2>1, <2>2, <2>4, ScopeStays DEF ScopeInv
<1> QED
    BY <1>2, <1>3, <1>4

(* The walk at a file (scanFile).                                          *)
LEMMA ScopeWalksFile ==
    ASSUME ListsAgree, ScopeInv, NEW f \in ScopeFile, Scope!Scan(f)
    PROVE  ScopeInv'
<1>1. /\ f \in listed /\ f \in Scope!Path /\ gi' = gi /\ sweeping' = sweeping
      /\ listed' = listed \ {f}
      /\ captured' = IF Scope!Match(f) THEN captured ELSE captured \cup {f}
    BY DEF Scope!Scan
<1>2. Front' = Front \ {f} /\ NoneBelowAnother(Front')
    BY <1>1 DEF Front, ScopeInv, NoneBelowAnother
<1>3. ~Scope!Match(f) => f \in ScopeFilesIn
    BY <1>1 DEF ScopeFilesIn, Scope!InScope, Scope!Components, ScopeInv
<1>4. \A g \in ScopeFilesIn : f \in ScopeAbove[g] => f = g /\ ~Scope!Match(f)
    BY <1>1, ScopePruned
<1>5. \A g \in ScopeFilesIn : g \in captured' \/ \E p \in Front' : p \in ScopeAbove[g]
    BY <1>1, <1>2, <1>4 DEF ScopeInv
<1> QED
    BY <1>1, <1>2, <1>3, <1>5, ScopeStays DEF ScopeInv

(* The sweep at a path of either kind (walkRecord).                        *)
LEMMA ScopeSweeps ==
    ASSUME ListsAgree, ScopeInv, NEW d \in Scope!Path, Scope!Sweep(d)
    PROVE  ScopeInv'
<1>1. /\ d \in sweeping /\ d \in Front /\ gi' = gi /\ listed' = listed
      /\ Front \in SUBSET Scope!Path /\ NoneBelowAnother(Front)
    BY DEF Scope!Sweep, ScopeInv, Front
<1>2. CASE Scope!Match(d)
  <2>1. sweeping' = sweeping \ {d} /\ captured' = captured
    BY <1>2 DEF Scope!Sweep
  <2>2. Front' = Front \ {d} /\ NoneBelowAnother(Front')
    BY <1>1, <2>1 DEF Front, ScopeInv, NoneBelowAnother
  <2>3. \A f \in ScopeFilesIn : d \notin ScopeAbove[f]
    BY <1>2, ScopePruned
  <2>4. \A f \in ScopeFilesIn : f \in captured \/ \E p \in Front' : p \in ScopeAbove[f]
    BY <2>2, <2>3 DEF ScopeInv
  <2> QED
    BY <1>1, <2>1, <2>2, <2>4, ScopeStays DEF ScopeInv
<1>3. CASE ~Scope!Match(d)
  <2> DEFINE E == Scope!Entries(d)
  <2>1. sweeping' = (sweeping \ {d}) \cup E /\ captured' = captured \cup ({d} \cap ScopeFile)
    BY <1>3 DEF Scope!Sweep
  <2>2. /\ E \subseteq Scope!Path /\ E \cap Front = {} /\ NoneBelowAnother((Front \ {d}) \cup E)
        /\ \A e \in E : ScopeAbove[e] = {e} \cup ScopeAbove[d]
    BY <1>1, ScopeDescend
  <2>3. \A f \in ScopeFilesIn : d \in ScopeAbove[f] =>
            (d \in ScopeFile /\ d = f) \/ \E e \in E : e \in ScopeAbove[f]
    BY ScopeGoesOn, ScopeFileIsLeaf DEF ScopeFilesIn
  <2>4. d \in ScopeFile => d \in ScopeFilesIn
    <3>1. \A a \in ScopeAbove[d] \ {d} : ~Scope!Match(a)
      BY <1>1 DEF ScopeInv
    <3>2. \A a \in ScopeAbove[d] \ {d} : ~Scope!MatchDir(a)
      BY <1>1, <1>3, <3>1, ScopeHidden DEF ScopeInv
    <3> QED
      BY <1>3, <3>2 DEF ScopeFilesIn, Scope!InScope, Scope!Components
  <2> HIDE DEF E
  <2>5. Front' = (Front \ {d}) \cup E /\ listed' \cap sweeping' = {}
    BY <1>1, <2>1, <2>2 DEF Front, ScopeInv
  <2>6. \A p \in sweeping' : \A a \in ScopeAbove[p] \ {p} : ~Scope!Match(a)
    BY <1>1, <1>3, <2>1, <2>2 DEF ScopeInv
  <2>7. \A f \in ScopeFilesIn : f \in captured' \/ \E p \in Front' : p \in ScopeAbove[f]
    BY <2>1, <2>3, <2>5 DEF ScopeInv
  <2> QED
    BY <1>1, <2>1, <2>2, <2>4, <2>5, <2>6, <2>7, ScopeStays DEF ScopeInv
<1> QED
    BY <1>2, <1>3
-----------------------------------------------------------------------------
LEMMA ScopeNext ==
    ASSUME ListsAgree, ScopeInv, Scope!Next
    PROVE  ScopeInv'
    BY ScopeWalksDir, ScopeWalksFile, ScopeSweeps DEF Scope!Next

LEMMA ScopeHolds ==
    ASSUME ScopeInv
    PROVE  Scope!TypeOK /\ Scope!WalksAgree /\ Scope!DefaultsStayOut
<1>1. ASSUME NEW f \in captured PROVE Scope!Components(f) \cap Default = {}
  <2>1. f \in ScopeFile /\ f # ScopeRoot /\ ~Scope!Match(f)
    BY <1>1, ScopeTreeFacts DEF ScopeInv, ScopeFilesIn, Scope!InScope
  <2> QED
    BY <2>1 DEF Scope!Match, Scope!Matches
<1>2. Scope!WalksAgree
    BY DEF Scope!WalksAgree, ScopeInv, ScopeFilesIn, Front
<1>3. Scope!TypeOK
    BY DEF Scope!TypeOK, ScopeInv, ScopeFilesIn
<1> QED
    BY <1>1, <1>2, <1>3 DEF Scope!DefaultsStayOut

(* Polling and watching agree on what is in scope, whichever directories   *)
(* the backend refuses and whatever the tree, the patterns and the order   *)
(* of the walks; nothing below a directory excluded by default is captured *)
(* (walkAndRegister, walkRecord, match).  And a run without polling goes   *)
(* on only if it watches the whole tree (Run), where every directory can   *)
(* be listed and nobody allowed a partial run.                             *)
THEOREM ApartFromTheWatcher ==
    ASSUME ListsAgree, ~AllowPartial, Unscannable = {}
    PROVE  SafetySpec => []ApartInv
<1> DEFINE PartsInv == /\ part = "alone" => AloneInv
                       /\ part = "scope" => ScopeInv
<1>1. SafetyInit => PartsInv
    BY AloneStart, ScopeStart DEF SafetyInit
<1>2. PartsInv /\ [SafetyNext]_<<vars, part, scopeVars>> => PartsInv'
  <2> SUFFICES ASSUME PartsInv, [SafetyNext]_<<vars, part, scopeVars>> PROVE PartsInv'
    OBVIOUS
  <2>1. part' = part
    BY DEF SafetyNext
  <2>2. CASE part = "alone" /\ Alone!Next
    BY <2>1, <2>2, AloneStep
  <2>3. CASE part = "scope" /\ Scope!Next
    BY <2>1, <2>3, ScopeNext
  <2>4. CASE UNCHANGED <<vars, part, scopeVars>>
    <3>1. AloneInv => AloneInv'
      BY <2>4 DEF vars, loop, sweepVars, disk, pass, AloneInv, Reached, Idle
    <3>2. ScopeInv => ScopeInv'
      BY <2>4, ScopeStays DEF scopeVars, ScopeInv, Front, NoneBelowAnother
    <3> QED
      BY <2>1, <3>1, <3>2
  <2>5. CASE part = "watcher"
    BY <2>1, <2>5
  <2> QED
    BY <2>2, <2>3, <2>4, <2>5 DEF SafetyNext
<1>3. PartsInv => ApartInv
    BY AloneIsWhole, ScopeHolds DEF ApartInv
<1> QED
    BY <1>1, <1>2, <1>3, PTL DEF SafetySpec
=============================================================================
