------------------------------ MODULE Timeline ------------------------------
(***************************************************************************)
(* The timeline (store/timeline.go): all logs merged by time, and bursts   *)
(* of destructive revisions cut out of the stream, each with an instant to *)
(* go back to.  Here the logs grow as captures and batches make them grow; *)
(* the timeline only reads.                                                *)
(***************************************************************************)
EXTENDS Naturals, Sequences, FiniteSets, SequencesExt

CONSTANTS
    Files,          \* the paths, a sequence of numbers
    Sub,            \* those under the directory of a scoped timeline
    MinFiles,       \* burstMinFiles
    Gap,            \* burstGapMs
    MaxTime,        \* bound on the clock
    MaxRevisions    \* bound on the revisions written after the start

TimelineAssumption ==
    /\ Files \in Seq(Nat) /\ ToSet(Sub) \subseteq ToSet(Files)
    /\ {MinFiles, Gap, MaxTime, MaxRevisions} \subseteq Nat /\ MinFiles > 0

Path == ToSet(Files)

VARIABLES
    logs,       \* the revisions of every file, oldest first
    clock

vars == <<logs, clock>>

(* shrunk: the signal is known and says that burstShrink lines went.       *)
Revision(ts, label, shrunk) == [timestamp |-> ts, label |-> label, shrunk |-> shrunk]
Init ==
    /\ clock = 1
    /\ logs \in [Path -> {<<>>, <<Revision(0, "first-seen", FALSE)>>}]
-----------------------------------------------------------------------------
(* ScanRevisions, over the files of a directory in any order.              *)
AllEvents(files) ==
    FoldLeft(LAMBDA out, f : out \o [i \in DOMAIN logs[f] |-> logs[f][i] @@ [path |-> f]],
             <<>>, files)

(* A mutant: file after file, as the logs are read. *)
ScanUnsorted(files) == AllEvents(files)

ScanRevisions(files) ==
    SortSeq(AllEvents(files),
            LAMBDA a, b : \/ a.timestamp < b.timestamp
                          \/ a.timestamp = b.timestamp /\ a.path < b.path)

(* A mutant: a restore to a shorter text is damage. *)
DestructiveShrunk(r) == r.label = "delete" \/ r.shrunk

Destructive(r) == r.label = "delete" \/ (r.label = "modify" /\ r.shrunk)

(* DetectBursts: flush, and the loop.                                      *)
Paths(cluster) == {cluster[i].path : i \in DOMAIN cluster}
Flush(bursts, cluster) ==
    IF Cardinality(Paths(cluster)) < MinFiles THEN bursts
    ELSE bursts \cup {[start |-> Head(cluster).timestamp,
                       end |-> cluster[Len(cluster)].timestamp,
                       files |-> Paths(cluster),
                       deletes |-> Cardinality({i \in DOMAIN cluster : cluster[i].label = "delete"}),
                       restoreAt |-> Head(cluster).timestamp - 1]}
(* A mutant: the gap is measured from the start of the cluster. *)
StepFromStart(acc, e) ==
    IF ~Destructive(e) THEN acc
    ELSE IF acc.cluster # <<>> /\ e.timestamp - Head(acc.cluster).timestamp > Gap
         THEN [bursts |-> Flush(acc.bursts, acc.cluster), cluster |-> <<e>>]
         ELSE [acc EXCEPT !.cluster = Append(@, e)]

(* A mutant: one unit too far apart is still together. *)
StepTooFar(acc, e) ==
    IF ~Destructive(e) THEN acc
    ELSE IF acc.cluster # <<>> /\ e.timestamp - acc.cluster[Len(acc.cluster)].timestamp > Gap + 1
         THEN [bursts |-> Flush(acc.bursts, acc.cluster), cluster |-> <<e>>]
         ELSE [acc EXCEPT !.cluster = Append(@, e)]

Step(acc, e) ==
    IF ~Destructive(e) THEN acc
    ELSE IF acc.cluster # <<>> /\ e.timestamp - acc.cluster[Len(acc.cluster)].timestamp > Gap
         THEN [bursts |-> Flush(acc.bursts, acc.cluster), cluster |-> <<e>>]
         ELSE [acc EXCEPT !.cluster = Append(@, e)]
DetectBursts(events) ==
    LET end == FoldLeft(Step, [bursts |-> {}, cluster |-> <<>>], events)
    IN IF end.cluster = <<>> THEN end.bursts ELSE Flush(end.bursts, end.cluster)
-----------------------------------------------------------------------------
(* What writes the logs: captures, and batches of the command line, each   *)
(* line later than the one before it in its log.                           *)
NewestOf(f) == logs[f][Len(logs[f])]
NextTimestamp(log) ==
    IF log # <<>> /\ log[Len(log)].timestamp >= clock
    THEN log[Len(log)].timestamp + 1 ELSE clock
Put(log, label, shrunk) == Append(log, Revision(NextTimestamp(log), label, shrunk))

Known == {f \in Path : logs[f] # <<>> /\ logs[f][1].timestamp = 0}
Bounded == Len(AllEvents(Files)) < MaxRevisions + Cardinality(Known)

Capture(f, label, shrunk) ==
    /\ Bounded
    /\ logs' = [logs EXCEPT ![f] = Put(@, label, shrunk)]
    /\ UNCHANGED clock
FirstSeen(f) == logs[f] = <<>> /\ Capture(f, "first-seen", FALSE)
Modify(f) ==
    /\ logs[f] # <<>>
    /\ \E shrunk \in IF NewestOf(f).label = "delete" THEN {FALSE} ELSE BOOLEAN :
           Capture(f, "modify", shrunk)
Delete(f) ==
    /\ logs[f] # <<>>
    /\ NewestOf(f).label # "delete"
    /\ Capture(f, "delete", TRUE)

(* RestoreAt: a safeguard and a restore for the files that had content.    *)
Pick(f, at) == SelectLastInSeq(logs[f], LAMBDA r : r.timestamp <= at)
RestoreAt(files) ==
    /\ Bounded
    /\ files # {}
    /\ \E at \in 0 .. clock : \A f \in files :
           Pick(f, at) # 0 /\ logs[f][Pick(f, at)].label # "delete"
    /\ logs' = [f \in Path |->
                   IF f \in files
                   THEN Put(Put(logs[f], "pre-restore", FALSE), "restore", TRUE)
                   ELSE logs[f]]
    /\ UNCHANGED clock

Tick == clock < MaxTime /\ clock' = clock + 1 /\ UNCHANGED logs

Next ==
    \/ \E f \in Path : FirstSeen(f) \/ Modify(f) \/ Delete(f)
    \/ \E files \in SUBSET Path : RestoreAt(files)
    \/ Tick

Spec == Init /\ [][Next]_vars
-----------------------------------------------------------------------------
Bursts == DetectBursts(ScanRevisions(Files))

TypeOK ==
    /\ clock \in 1 .. MaxTime
    /\ \A f \in Path : \A i \in DOMAIN logs[f] :
           /\ logs[f][i].label \in {"first-seen", "modify", "delete", "pre-restore", "restore"}
           /\ i > 1 => logs[f][i - 1].timestamp < logs[f][i].timestamp

(* The definition the loop is meant to compute: the destructive events are *)
(* cut wherever nothing happens for longer than the gap, and the pieces    *)
(* that hit enough files are the bursts, each with its exact files, count  *)
(* and instant.                                                            *)
Damage(files) == {e \in ToSet(AllEvents(files)) : Destructive(e)}
Cut(D, s, t) == {e \in D : e.timestamp \in s .. t}
IsRun(D, s, t) ==
    /\ \A e \in D : ~ (e.timestamp < s /\ s - e.timestamp <= Gap)
    /\ \A e \in D : ~ (e.timestamp > t /\ e.timestamp - t <= Gap)
    /\ \A e \in Cut(D, s, t) :
           e.timestamp < t => \E g \in D : g.timestamp \in e.timestamp + 1 .. e.timestamp + Gap
RunsOf(files) ==
    LET D == Damage(files) times == {e.timestamp : e \in D}
    IN {[start |-> s, end |-> t,
         files |-> {e.path : e \in Cut(D, s, t)},
         deletes |-> Cardinality({e \in Cut(D, s, t) : e.label = "delete"}),
         restoreAt |-> s - 1] : <<s, t>> \in {<<x, y>> \in times \X times : x <= y /\ IsRun(D, x, y)}}
BurstsAreRuns == Bursts = {r \in RunsOf(Files) : Cardinality(r.files) >= MinFiles}

(* A burst of a scoped timeline is part of a burst of the whole, which     *)
(* goes back at least as far.                                              *)
ScopesNest ==
    \A b \in DetectBursts(ScanRevisions(Sub)) : \E w \in Bursts :
        b.files \subseteq w.files /\ w.restoreAt <= b.restoreAt /\ b.end <= w.end

(* A burst that is over is reported the same for ever: what comes later    *)
(* than the gap after its end makes no difference to it.                   *)
SettledBurstsStay ==
    \A t \in 1 .. clock :
        \A b \in DetectBursts(SelectSeq(ScanRevisions(Files), LAMBDA e : e.timestamp <= t)) :
            b.end + Gap <= t => b \in Bursts

(* A batch restore is not mistaken for fresh damage: every file of a burst *)
(* was deleted or shortened in it by somebody else.                        *)
RestoresAreNoDamage ==
    \A b \in Bursts : \A f \in b.files : \E i \in DOMAIN logs[f] :
        /\ logs[f][i].label \in {"delete", "modify"}
        /\ logs[f][i].timestamp \in b.start .. b.end

(* The instant of a burst is just before the damage for each of its files: *)
(* a file has a revision to go back to, and loses no edit that was made    *)
(* before it was hit.                                                      *)
RewindsEveryFile ==
    \A b \in Bursts : \A f \in b.files :
        LET hit == CHOOSE e \in Damage(<<f>>) :
                       /\ e.timestamp >= b.start
                       /\ \A d \in Damage(<<f>>) : d.timestamp >= b.start => e.timestamp <= d.timestamp
        IN /\ Pick(f, b.restoreAt) # 0
           /\ Pick(f, b.restoreAt) = Pick(f, hit.timestamp - 1)
=============================================================================
