------------------------- MODULE StoreBatchProofs --------------------------
(***************************************************************************)
(* Batch restore and its undo, for any number of files, calls, failures    *)
(* and crashes: a batch rewinds what it covers, its window holds all its   *)
(* safeguards, and when calls are apart the undo finds them and no others. *)
(***************************************************************************)
EXTENDS Logs, WellFoundedInduction, TLAPS

-----------------------------------------------------------------------------
(* Logs: the newest line, and what appending a line does to it.            *)

\* A log as the store keeps it: positive line numbers and, unless it is empty,
\* a newest line.
IsLog(L) ==
  /\ DOMAIN L \subseteq Nat \ {0}
  /\ HasLast(L) => \E i \in DOMAIN L : IsNewest(L, i)

\* The newest line is the only one that no line follows (lastRevision).
LEMMA NewestIsUnique ==
  ASSUME NEW L, DOMAIN L \subseteq Nat, NEW i, IsNewest(L, i)
  PROVE  NewestLine(L) = i /\ IsNewest(L, NewestLine(L))
<1>1. \A j : IsNewest(L, j) => j = i
  BY DEF IsNewest
<1> QED BY <1>1 DEF NewestLine, IsNewest

\* A log with lines has its last line at NewestLine.
LEMMA NewestExists ==
  ASSUME NEW L, IsLog(L), HasLast(L)
  PROVE  /\ IsNewest(L, NewestLine(L))
         /\ NewestLine(L) \in DOMAIN L
         /\ NewestLine(L) \in Nat \ {0}
         /\ NextLine(L) = NewestLine(L) + 1
<1>1. PICK i \in DOMAIN L : IsNewest(L, i)
  BY DEF IsLog
<1>2. IsNewest(L, NewestLine(L))
  BY <1>1, NewestIsUnique DEF IsLog
<1> QED BY <1>2 DEF IsNewest, IsLog, NextLine

\* The next line number is after every line (O_APPEND).
LEMMA NextLineIsNew ==
  ASSUME NEW L, IsLog(L)
  PROVE  /\ NextLine(L) \in Nat \ {0}
         /\ \A i \in DOMAIN L : i < NextLine(L)
         /\ ~HasLast(L) <=> NextLine(L) = 1
<1>1. CASE HasLast(L)
  <2>1. /\ IsNewest(L, NewestLine(L))
        /\ NewestLine(L) \in Nat \ {0}
        /\ NextLine(L) = NewestLine(L) + 1
    BY <1>1, NewestExists
  <2>2. \A i \in DOMAIN L : i <= NewestLine(L) /\ i \in Nat
    BY <2>1 DEF IsNewest, IsLog
  <2> QED BY <1>1, <2>1, <2>2
<1>2. CASE ~HasLast(L)
  BY <1>2 DEF HasLast, NextLine
<1> QED BY <1>1, <1>2

\* Appending adds one line, the newest, and keeps the others.
LEMMA AppendedLog ==
  ASSUME NEW L, IsLog(L), NEW r
  PROVE  /\ DOMAIN Appended(L, r) = DOMAIN L \cup {NextLine(L)}
         /\ Appended(L, r)[NextLine(L)] = r
         /\ \A i \in DOMAIN L : Appended(L, r)[i] = L[i]
         /\ IsNewest(Appended(L, r), NextLine(L))
         /\ IsLog(Appended(L, r))
         /\ HasLast(Appended(L, r))
         /\ Last(Appended(L, r)) = r
<1> DEFINE n == NextLine(L)  A == Appended(L, r)
<1>1. n \in Nat \ {0} /\ \A i \in DOMAIN L : i < n
  BY NextLineIsNew
<1>2. DOMAIN A = DOMAIN L \cup {n} /\ A[n] = r
  BY DEF Appended
<1>3. \A i \in DOMAIN L : A[i] = L[i]
  <2> TAKE i \in DOMAIN L
  <2>1. i # n
    BY <1>1 DEF IsLog
  <2> QED BY <2>1 DEF Appended
<1>4. IsNewest(A, n)
  BY <1>1, <1>2 DEF IsNewest, IsLog
<1>5. IsLog(A) /\ HasLast(A)
  BY <1>1, <1>2, <1>4 DEF IsLog, HasLast
<1>6. NewestLine(A) = n
  BY <1>4, <1>5, NewestIsUnique DEF IsLog
<1> QED BY <1>2, <1>3, <1>4, <1>5, <1>6 DEF Last

-----------------------------------------------------------------------------
(* The inductive invariants.                                               *)

AtWork == pc \in {"safeguard", "rewrite", "mark"}

\* The lines of a map are safeguards of the files of a directory.
AreSafeguards(m, D) ==
  /\ Of(m) \subseteq D
  /\ \A f \in Of(m) : m[f] \in DOMAIN log[f] /\ log[f][m[f]].label = "pre-restore"

\* The logs are logs, and a batch goes through its files one by one: it notes a
\* file as restored when it is done with it, and has a safeguard of the files
\* it has noted and of the one it works on.
PlaceInv ==
  /\ TypeOK /\ apart \in CallsApart
  /\ log = [f \in File |-> log[f]] /\ \A f \in File : IsLog(log[f])
  /\ pc = "idle" <=> job.kind = "none"
  /\ pc = "failed" => MayFail
  /\ todo \subseteq {f \in job.dir : HasLast(log[f])}
  /\ AreSafeguards(pre, job.dir)
  /\ restored \cup changed \subseteq Of(pre) /\ restored \cap todo = {}
  /\ pc \in {"pick", "safeguard"} => Of(pre) = restored
  /\ pc \in {"rewrite", "mark"} => \A f \in File : IsCurrent(f) => Of(pre) = restored \cup {f}
  /\ AtWork => target.hash \in Content

\* What a batch is done with is rewound, and what it works on is on the way to
\* the state it had at the instant.
RewindInv ==
  job.kind = "restore-at" =>
    /\ \A f \in job.dir \ (todo \cup touched) : Rewound(f)
    /\ AtWork => \A f \in File : IsCurrent(f) => \E i \in Found(f) : /\ log[f][i].label # "delete"
                                                                     /\ log[f][i].hash = target.hash
    /\ pc = "mark" => \A f \in File : IsCurrent(f) /\ f \notin touched => disk[f] = target.hash

\* The safeguards of a batch are written after its start and before the end that
\* a window of it would have; when calls are apart, before now and after every
\* line that was there.
BatchSpan ==
  job.kind = "restore-at" =>
    /\ job.first <= clock
    /\ \A f \in Of(pre) : /\ job.first <= log[f][pre[f]].ts
                          /\ f \in restored => log[f][pre[f]].ts <= maxPre
    /\ apart => /\ maxPre <= clock
                /\ \A f \in Of(pre) : log[f][pre[f]].ts <= clock
                /\ \A f \in File \ Of(pre) : \A i \in DOMAIN log[f] : log[f][i].ts < job.first

\* So they are in every window that is made of the batch; one that failed made
\* one, with a safeguard it does not report, only if calls are apart.
SpanInv ==
  /\ BatchSpan
  /\ apart \/ ~MayFail => \A w \in Windows : AreSafeguards(w.pre, w.dir) /\ Covers(w)

\* The safeguards among the lines of a file in a span of time, and the one that
\* a batch wrote.
Span(f, first, last) ==
  {i \in DOMAIN log[f] : log[f][i].label = "pre-restore" /\ log[f][i].ts \in first .. last}
Own(m, f) == {i \in {m[f]} : f \in Of(m)}

\* When calls are apart, a span holds the safeguards of its batch and no others,
\* and a batch or an undo that is under way writes after every window there is.
WindowsExact ==
  \A w \in Windows : /\ \A f \in w.dir : Span(f, w.first, w.last) = Own(w.pre, f)
                     /\ pc # "idle" => w.last < clock

\* Since a batch began only its own safeguards were written.
BatchExact ==
  job.kind = "restore-at" =>
    \A f \in File : {i \in DOMAIN log[f] : /\ log[f][i].label = "pre-restore"
                                           /\ job.first <= log[f][i].ts} = Own(pre, f)

\* An undo restores the safeguards of its window and no other files.
UndoExact ==
  job.kind = "undo" =>
    /\ job.last < clock
    /\ AreSafeguards(job.pre, job.dir)
    /\ \A f \in job.dir : Span(f, job.first, job.last) = Own(job.pre, f)
    /\ restored = Of(job.pre) \ todo
    /\ \A f \in restored \ touched : disk[f] = log[f][job.pre[f]].hash
    /\ AtWork => \A f \in File : IsCurrent(f) => /\ f \in Of(job.pre)
                                                 /\ target.hash = log[f][job.pre[f]].hash
    /\ pc = "mark" => \A f \in File : IsCurrent(f) /\ f \notin touched => disk[f] = target.hash

ExactInv == apart => WindowsExact /\ BatchExact /\ UndoExact

-----------------------------------------------------------------------------
(* Logs.                                                                   *)

\* A log with one more line, which is later than the clock or as late.
Extends(A, L) ==
  /\ IsLog(A) /\ A \in [DOMAIN A -> Revision]
  /\ NextLine(L) \in Nat \ {0}
  /\ DOMAIN A = DOMAIN L \cup {NextLine(L)}
  /\ \A i \in DOMAIN L : i < NextLine(L) /\ A[i] = L[i]
  /\ clock <= A[NextLine(L)].ts
  /\ (\A i \in DOMAIN L : L[i].ts < clock) => A[NextLine(L)].ts = clock

\* The time of a new line is now or later; it is now when the log is older
\* (nextTimestamp).
LEMMA TimeIsLate ==
  ASSUME clock \in Nat, NEW L, IsLog(L), L \in [DOMAIN L -> Revision]
  PROVE  /\ NextTimestamp(L) \in Nat /\ clock <= NextTimestamp(L)
         /\ (\A i \in DOMAIN L : L[i].ts < clock) => NextTimestamp(L) = clock
<1>1. CASE ~HasLast(L)
  BY <1>1 DEF NextTimestamp
<1>2. CASE HasLast(L)
  <2>1. NewestLine(L) \in DOMAIN L
    BY <1>2, NewestExists
  <2>2. Last(L).ts \in Nat /\ ((\A i \in DOMAIN L : L[i].ts < clock) => Last(L).ts < clock)
    BY <2>1 DEF Last, Revision
  <2> QED
    BY <1>2, <2>2 DEF NextTimestamp
<1> QED
  BY <1>1, <1>2

\* What is put into a log extends it (appendRevision).
LEMMA PutExtends ==
  ASSUME clock \in Nat, NEW L, IsLog(L), L \in [DOMAIN L -> Revision],
         NEW label \in Label, NEW hash \in Content, NEW gone \in BOOLEAN
  PROVE  /\ Extends(Put(L, label, hash, gone), L)
         /\ Put(L, label, hash, gone)[NextLine(L)].label = label
         /\ Put(L, label, hash, gone)[NextLine(L)].hash = hash
<1> DEFINE r == [ts |-> NextTimestamp(L), hash |-> hash, label |-> label, gone |-> gone]
<1>1. /\ r \in Revision /\ clock <= r.ts
      /\ (\A i \in DOMAIN L : L[i].ts < clock) => r.ts = clock
  BY TimeIsLate DEF Revision
<1>2. r.label = label /\ r.hash = hash
  OBVIOUS
<1> HIDE DEF r
<1>3. /\ DOMAIN Appended(L, r) = DOMAIN L \cup {NextLine(L)}
      /\ Appended(L, r)[NextLine(L)] = r
      /\ \A i \in DOMAIN L : Appended(L, r)[i] = L[i]
      /\ IsLog(Appended(L, r))
  BY AppendedLog
<1>4. NextLine(L) \in Nat \ {0} /\ \A i \in DOMAIN L : i < NextLine(L)
  BY NextLineIsNew
<1>5. Appended(L, r) \in [DOMAIN Appended(L, r) -> Revision]
  <2>1. \A i \in DOMAIN Appended(L, r) : Appended(L, r)[i] \in Revision
    BY <1>1, <1>3
  <2> QED
    BY <2>1 DEF Appended
<1>6. Put(L, label, hash, gone) = Appended(L, r)
  BY DEF Put, r
<1> QED
  BY <1>1, <1>2, <1>3, <1>4, <1>5, <1>6 DEF Extends

\* The safeguard of a file that has revisions extends its log.
LEMMA SafeguardExtends ==
  ASSUME PlaceInv, NEW f \in File, HasLast(log[f])
  PROVE  /\ Extends(WithSafeguard(f), log[f])
         /\ WithSafeguard(f)[NextLine(log[f])].label = "pre-restore"
<1>1. /\ IsLog(log[f]) /\ log[f] \in [DOMAIN log[f] -> Revision] /\ clock \in Nat
      /\ disk[f] \in Content \cup {Absent}
  BY DEF PlaceInv, TypeOK
<1>2. Last(log[f]).hash \in Content
  <2>1. NewestLine(log[f]) \in DOMAIN log[f]
    BY <1>1, NewestExists
  <2> QED
    BY <1>1, <2>1 DEF Last, Revision
<1> DEFINE h == IF disk[f] = Absent THEN Last(log[f]).hash ELSE disk[f]
           g == disk[f] = Absent
<1>3. h \in Content /\ g \in BOOLEAN
  BY <1>1, <1>2
<1>4. WithSafeguard(f) = Put(log[f], "pre-restore", h, g)
  BY DEF WithSafeguard
<1> HIDE DEF h, g
<1>5. "pre-restore" \in Label
  BY DEF Label
<1> QED
  BY <1>1, <1>3, <1>4, <1>5, PutExtends

\* Two files are not worked on at a time.
LEMMA OneCurrent ==
  ASSUME TypeOK, NEW f \in File, NEW g \in File, IsCurrent(f), IsCurrent(g)
  PROVE  f = g
BY BatchAssumption DEF IsCurrent, TypeOK

\* Logs only grow, and what is new in them is not older than the clock.
Grown ==
  \A f \in File :
    /\ \A i \in DOMAIN log[f] : i \in DOMAIN log'[f] /\ log'[f][i] = log[f][i]
    /\ \A i \in DOMAIN log'[f] \ DOMAIN log[f] : clock <= log'[f][i].ts
LogsOK ==
  /\ log = [f \in File |-> log[f]]
  /\ \A f \in File : IsLog(log[f]) /\ log[f] \in [DOMAIN log[f] -> Revision]

\* One line more leaves logs what they are.
LEMMA GrowOne ==
  ASSUME PlaceInv, NEW f \in File, NEW A, Extends(A, log[f]), log' = [log EXCEPT ![f] = A]
  PROVE  LogsOK' /\ Grown
<1>1. LogsOK
  BY DEF PlaceInv, TypeOK, LogsOK
<1>2. log' = [g \in File |-> IF g = f THEN A ELSE log[g]]
  BY <1>1 DEF LogsOK
<1>3. LogsOK'
  BY <1>1, <1>2 DEF LogsOK, Extends
<1>4. Grown
  BY <1>1, <1>2 DEF Grown, Extends
<1> QED
  BY <1>3, <1>4

\* Every step leaves the logs logs and lets them grow.
LEMMA LogStep == ASSUME PlaceInv, Step PROVE LogsOK' /\ Grown
<1>0. /\ LogsOK /\ clock \in Nat
      /\ disk \in [File -> Content \cup {Absent}]
  BY DEF PlaceInv, TypeOK, LogsOK
<1>1. CASE UNCHANGED log
  BY <1>0, <1>1 DEF LogsOK, Grown
<1>2. ASSUME NEW f \in File, Record(f), log' # log PROVE LogsOK' /\ Grown
  <2> DEFINE L == log[f]
             label == IF disk[f] = Absent THEN "delete"
                      ELSE IF HasLast(L) THEN "modify" ELSE "first-seen"
             hash == IF disk[f] = Absent THEN Last(L).hash ELSE disk[f]
             gone == disk[f] = Absent
  <2>1. log' = [log EXCEPT ![f] = Put(L, label, hash, gone)] /\ (gone => HasLast(L))
    BY <1>2 DEF Record
  <2>2. HasLast(L) => Last(L).hash \in Content
    BY <1>0, NewestExists DEF LogsOK, Last, Revision
  <2>3. hash \in Content /\ label \in Label /\ gone \in BOOLEAN
    BY <1>0, <2>1, <2>2 DEF Label
  <2>4. IsLog(L) /\ L \in [DOMAIN L -> Revision]
    BY <1>0 DEF LogsOK
  <2> HIDE DEF label, hash, gone, L
  <2>5. Extends(Put(L, label, hash, gone), L)
    BY <1>0, <2>3, <2>4, PutExtends
  <2> QED
    BY <2>1, <2>5, GrowOne DEF L
<1>3. ASSUME NEW f \in File, Restore(f) PROVE LogsOK' /\ Grown
  <2>1. PICK i \in DOMAIN log[f] :
          log' = [log EXCEPT ![f] = Put(WithSafeguard(f), "restore", log[f][i].hash,
                                        log[f][i].label = "delete")]
    BY <1>3 DEF Restore
  <2> DEFINE W == WithSafeguard(f)
             gone == log[f][i].label = "delete"
             A == Put(W, "restore", log[f][i].hash, gone)
  <2>2. Extends(W, log[f])
    BY <2>1, SafeguardExtends DEF HasLast
  <2>3. log[f][i].hash \in Content /\ gone \in BOOLEAN /\ "restore" \in Label
    BY <1>0, <2>1 DEF LogsOK, Revision, Label
  <2> HIDE DEF W, gone
  <2>4. Extends(A, W)
    BY <1>0, <2>2, <2>3, PutExtends DEF Extends
  <2> HIDE DEF A
  <2>5. log' = [g \in File |-> IF g = f THEN A ELSE log[g]]
    BY <1>0, <2>1 DEF LogsOK, A, W, gone
  <2>6. LogsOK'
    BY <1>0, <2>4, <2>5 DEF LogsOK, Extends
  <2>7. Grown
    <3> SUFFICES ASSUME NEW g \in File
                 PROVE  /\ \A j \in DOMAIN log[g] : j \in DOMAIN log'[g] /\ log'[g][j] = log[g][j]
                        /\ \A j \in DOMAIN log'[g] \ DOMAIN log[g] : clock <= log'[g][j].ts
      BY DEF Grown
    <3>1. CASE g # f
      BY <2>5, <3>1
    <3>2. CASE g = f
      <4>1. log'[g] = A
        BY <2>5, <3>2
      <4>2. \A j \in DOMAIN log[f] : j \in DOMAIN A /\ A[j] = log[f][j]
        BY <2>2, <2>4 DEF Extends
      <4>3. \A j \in DOMAIN A \ DOMAIN log[f] : clock <= A[j].ts
        BY <2>2, <2>4 DEF Extends
      <4> QED
        BY <3>2, <4>1, <4>2, <4>3
    <3> QED
      BY <3>1, <3>2
  <2> QED
    BY <2>6, <2>7
<1>4. ASSUME NEW f \in File, Safeguard(f) PROVE LogsOK' /\ Grown
  <2>1. HasLast(log[f]) /\ log' = [log EXCEPT ![f] = WithSafeguard(f)]
    BY <1>4 DEF Safeguard, IsCurrent, PlaceInv
  <2> QED
    BY <2>1, SafeguardExtends, GrowOne
<1>5. ASSUME NEW f \in File, Mark(f) PROVE LogsOK' /\ Grown
  <2>1. log' = [log EXCEPT ![f] = Put(log[f], "restore", target.hash, FALSE)]
    BY <1>5 DEF Mark
  <2>2. target.hash \in Content /\ "restore" \in Label
    BY <1>5 DEF Mark, PlaceInv, AtWork, Label
  <2>3. Extends(Put(log[f], "restore", target.hash, FALSE), log[f])
    BY <1>0, <2>2, PutExtends DEF LogsOK
  <2> QED
    BY <2>1, <2>3, GrowOne
<1>6. log' = log \/ \E f \in File : (Record(f) /\ log' # log) \/ Restore(f) \/ Safeguard(f) \/ Mark(f)
  <2>1. ASSUME NEW f \in File, BatchPick(f) \/ UndoPick(f) \/ Rewrite(f) \/ Edit(f) PROVE log' = log
    BY <2>1 DEF BatchPick, UndoPick, Rewrite, Edit
  <2>2. ASSUME NEW front, NEW dir, NEW at, BatchBegin(front, dir, at) PROVE log' = log
    BY <2>2 DEF BatchBegin, Begin
  <2>3. ASSUME BatchEnd \/ UndoRead \/ UndoEnd \/ Fail \/ Crash \/ Tick PROVE log' = log
    BY <2>3 DEF BatchEnd, UndoRead, UndoEnd, End, Fail, Crash, Tick
  <2>4. ASSUME NEW o, SaveWindow(o) \/ Forget(o) \/ UndoBegin(o) \/ DropWindow(o) PROVE log' = log
    BY <2>4 DEF SaveWindow, Forget, UndoBegin, Begin, DropWindow
  <2> QED
    BY <2>1, <2>2, <2>3, <2>4 DEF Step
<1> QED
  BY <1>1, <1>2, <1>3, <1>4, <1>5, <1>6

-----------------------------------------------------------------------------
(* A batch goes from file to file.                                         *)

\* A window that is saved, about to be or read for an undo, as one of Window.
LEMMA DebtWindow ==
  ASSUME TypeOK, NEW o \in owed, o.op # "drop"
  PROVE  o.window \in Window /\ o.window \in Windows /\ o \in Debt
BY BatchAssumption DEF TypeOK, Debt, Windows

\* What a batch picks for a file is a line of its log.
LEMMA PickedLine ==
  ASSUME PlaceInv, NEW f \in File, BatchPick(f) \/ UndoPick(f)
  PROVE  \/ Skip(f)
         \/ \E i \in DOMAIN log[f] : RestoreTo(log[f][i]) /\ log[f][i].hash \in Content
<1>1. \A i \in DOMAIN log[f] : log[f][i].hash \in Content
  BY DEF PlaceInv, TypeOK, Revision
<1> QED
  BY <1>1 DEF BatchPick, UndoPick, StateAt, InWindow

\* Every step keeps the types.
LEMMA TypeStep == ASSUME PlaceInv, Step, UNCHANGED apart PROVE TypeOK'
<1>1. /\ \A f \in File : DOMAIN log'[f] \subseteq Nat /\ log'[f] \in [DOMAIN log'[f] -> Revision]
      /\ apart' \in BOOLEAN
  BY LogStep DEF LogsOK, IsLog, PlaceInv, TypeOK
<1>2. NoPre \in LineMap /\ NoJob \in Job
  BY DEF NoPre, LineMap, NoJob, Job
<1> USE DEF TypeOK, worldVars, batchVars
<1>3. ASSUME NEW f \in File, Record(f) \/ Restore(f) PROVE TypeOK'
  <2>1. /\ disk' \in [File -> Content \cup {Absent}] /\ callCount' = callCount + 1
        /\ UNCHANGED <<clock, editCount, touched, window, owed, batchVars>>
    BY <1>3 DEF PlaceInv, Record, Restore, Call, Counted, Revision
  <2> QED
    BY <1>1, <2>1 DEF PlaceInv
<1>4. ASSUME (\E f \in File : Edit(f)) \/ Tick PROVE TypeOK'
  BY <1>1, <1>4, BatchAssumption DEF PlaceInv, Edit, Tick
<1>5. ASSUME NEW f \in File, BatchPick(f) \/ UndoPick(f) PROVE TypeOK'
  <2>1. UNCHANGED <<worldVars, window, owed, callCount, job, maxPre, restored, pre, changed, lastPre>>
    BY <1>5 DEF BatchPick, UndoPick
  <2>2. /\ todo' \subseteq todo /\ pc \in {"pick"} /\ pc' \in {"pick", "safeguard"}
    BY <1>5, PickedLine DEF Skip, RestoreTo, BatchPick, UndoPick
  <2> QED
    BY <1>1, <2>1, <2>2 DEF PlaceInv
<1>6. ASSUME NEW f \in File, Safeguard(f) \/ Rewrite(f) \/ Mark(f) PROVE TypeOK'
  <2>1. pre' \in LineMap /\ target.hash \in Content /\ target' = target /\ maxPre' \in Nat
    <3>1. IsLog(log[f]) /\ target.hash \in Content
      BY <1>6 DEF PlaceInv, AtWork, Safeguard, Rewrite, Mark
    <3>2. CASE Mark(f)
      <4>1. pre[f] \in DOMAIN log[f]
        BY <3>2 DEF Mark, PlaceInv, AreSafeguards
      <4> QED
        BY <3>1, <3>2, <4>1 DEF Mark, PlaceInv, Revision
    <3>3. CASE ~Mark(f)
      BY <1>6, <3>1, <3>3, NextLineIsNew DEF Safeguard, Rewrite, PlaceInv, LineMap
    <3> QED
      BY <3>2, <3>3
  <2>2. CASE Safeguard(f)
    BY <1>1, <2>1, <2>2 DEF PlaceInv, Safeguard
  <2>3. CASE Rewrite(f)
    BY <1>1, <2>1, <2>3 DEF PlaceInv, Rewrite
  <2>4. CASE Mark(f)
    <3>1. /\ restored' = restored \cup {f} /\ todo' = todo \ {f} /\ pc' = "pick"
          /\ UNCHANGED <<worldVars, window, owed, callCount, job, target, pre, changed, lastPre>>
      BY <2>4 DEF Mark
    <3> QED
      BY <1>1, <2>1, <3>1 DEF PlaceInv
  <2> QED
    BY <1>6, <2>2, <2>3, <2>4
<1>7. ASSUME NEW j \in Job, Begin(j), owed' \subseteq owed, callCount' \in Nat PROVE TypeOK'
  BY <1>1, <1>2, <1>7 DEF PlaceInv, Begin, Job
<1>8. ASSUME NEW front \in Front, NEW dir \in Dir, NEW at \in Instant, BatchBegin(front, dir, at)
      PROVE  TypeOK'
  <2> DEFINE j == [NoJob EXCEPT !.kind = "restore-at", !.front = front, !.dir = dir, !.at = at,
                                !.first = clock]
  <2>1. j \in Job
    BY <1>2, BatchAssumption DEF PlaceInv, Job, NoJob
  <2>2. Begin(j) /\ owed' = owed /\ callCount' \in Nat
    BY <1>8 DEF BatchBegin, Call, Counted, PlaceInv
  <2> QED
    BY <1>7, <2>1, <2>2
<1>9. ASSUME NEW o \in owed, UndoBegin(o) PROVE TypeOK'
  <2> DEFINE j == [NoJob EXCEPT !.kind = "undo", !.dir = o.window.dir, !.first = o.window.first,
                                !.last = o.window.last, !.pre = o.window.pre]
  <2>1. o.window \in Window
    BY <1>9, DebtWindow DEF UndoBegin, PlaceInv
  <2>2. j \in Job
    BY <1>2, <2>1 DEF Job, NoJob, Window
  <2>3. Begin(j) /\ owed' \subseteq owed /\ callCount' \in Nat
    BY <1>9 DEF UndoBegin, PlaceInv
  <2> QED
    BY <1>7, <2>2, <2>3
<1>10. ASSUME NEW D \in SUBSET Debt, End(D) PROVE TypeOK'
  BY <1>1, <1>2, <1>10 DEF PlaceInv, End
<1>11. CASE BatchEnd
  <2> DEFINE w == [first |-> job.first, last |-> WindowEnd, dir |-> job.dir, pre |-> pre]
  <2>1. w \in Window
    BY DEF Window, WindowEnd, PlaceInv, Job
  <2>2. [op |-> "save", window |-> w] \in Debt
    BY <2>1 DEF Debt
  <2> QED
    BY <1>10, <1>11, <2>2 DEF BatchEnd
<1>12. CASE UndoEnd
  BY <1>10, <1>12 DEF UndoEnd, Debt
<1>13. CASE Fail \/ Crash
  BY <1>1, <1>2, <1>13 DEF PlaceInv, Fail, Crash
<1>14. CASE UndoRead
  <2>1. [op |-> "undo", window |-> window] \in Debt
    BY <1>14 DEF UndoRead, Debt, PlaceInv
  <2> QED
    BY <1>1, <1>14, <2>1 DEF UndoRead, Counted, PlaceInv
<1>15. ASSUME NEW o \in owed, SaveWindow(o) \/ Forget(o) \/ DropWindow(o) PROVE TypeOK'
  <2>1. /\ window' \in Window \cup {NoWindow} /\ owed' \subseteq owed
        /\ UNCHANGED <<worldVars, callCount, batchVars>>
    BY <1>15, DebtWindow DEF SaveWindow, Forget, DropWindow, PlaceInv
  <2> QED
    BY <1>1, <2>1 DEF PlaceInv
<1> QED
  BY <1>3, <1>4, <1>5, <1>6, <1>8, <1>9, <1>11, <1>12, <1>13, <1>14, <1>15 DEF Step

\* What a batch and an undo begin with (RestoreAt, UndoRestoreAt).
LEMMA Beginnings ==
  /\ \A front, dir, at : BatchBegin(front, dir, at) =>
       \E j : /\ Begin(j) /\ j.kind = "restore-at" /\ j.first = clock /\ j.dir = dir
             /\ LockFree /\ Apart /\ owed' = owed
  /\ \A o : UndoBegin(o) =>
       \E j : /\ Begin(j) /\ j.kind = "undo" /\ j.first = o.window.first
             /\ j.last = o.window.last /\ j.dir = o.window.dir /\ j.pre = o.window.pre
<1>1. ASSUME NEW front, NEW dir, NEW at, BatchBegin(front, dir, at)
      PROVE  \E j : /\ Begin(j) /\ j.kind = "restore-at" /\ j.first = clock /\ j.dir = dir
                    /\ LockFree /\ Apart /\ owed' = owed
  <2> DEFINE j == [NoJob EXCEPT !.kind = "restore-at", !.front = front, !.dir = dir, !.at = at,
                                !.first = clock]
  <2>1. Begin(j) /\ LockFree /\ Apart /\ owed' = owed
    BY <1>1 DEF BatchBegin, Call
  <2>2. j.kind = "restore-at" /\ j.first = clock /\ j.dir = dir
    BY DEF NoJob
  <2> HIDE DEF j
  <2> QED
    BY <2>1, <2>2
<1>2. ASSUME NEW o, UndoBegin(o)
      PROVE  \E j : /\ Begin(j) /\ j.kind = "undo" /\ j.first = o.window.first
                    /\ j.last = o.window.last /\ j.dir = o.window.dir /\ j.pre = o.window.pre
  <2> DEFINE j == [NoJob EXCEPT !.kind = "undo", !.dir = o.window.dir, !.first = o.window.first,
                                !.last = o.window.last, !.pre = o.window.pre]
  <2>1. Begin(j)
    BY <1>2 DEF UndoBegin
  <2>2. /\ j.kind = "undo" /\ j.first = o.window.first /\ j.last = o.window.last
        /\ j.dir = o.window.dir /\ j.pre = o.window.pre
    BY DEF NoJob
  <2> HIDE DEF j
  <2> QED
    BY <2>1, <2>2
<1> QED
  BY <1>1, <1>2

\* A step either leaves the batch alone or is one of its own.
LEMMA StepKinds ==
  ASSUME Step
  PROVE  \/ UNCHANGED batchVars
         \/ \E f \in File : BatchPick(f) \/ UndoPick(f) \/ Safeguard(f) \/ Rewrite(f) \/ Mark(f)
         \/ \E j : Begin(j) /\ j.kind # "none"
         \/ Fail \/ Crash \/ \E D : End(D)
<1>1. ASSUME NEW f \in File, Record(f) \/ Restore(f) \/ Edit(f) PROVE UNCHANGED batchVars
  BY <1>1 DEF Record, Restore, Edit
<1>2. ASSUME NEW front, NEW dir, NEW at, BatchBegin(front, dir, at) PROVE \E j : Begin(j) /\ j.kind # "none"
  BY <1>2, Beginnings
<1>3. ASSUME NEW o, UndoBegin(o) PROVE \E j : Begin(j) /\ j.kind # "none"
  BY <1>3, Beginnings
<1>4. ASSUME NEW o, SaveWindow(o) \/ Forget(o) \/ DropWindow(o) PROVE UNCHANGED batchVars
  BY <1>4 DEF SaveWindow, Forget, DropWindow
<1>5. ASSUME UndoRead \/ Tick PROVE UNCHANGED batchVars
  BY <1>5 DEF UndoRead, Tick
<1>6. ASSUME BatchEnd \/ UndoEnd PROVE \E D : End(D)
  BY <1>6 DEF BatchEnd, UndoEnd
<1> QED
  BY <1>1, <1>2, <1>3, <1>4, <1>5, <1>6 DEF Step

\* At the start no call is under way and nothing is recorded.
LEMMA PlaceInit == ASSUME Init PROVE PlaceInv
<1>1. /\ DOMAIN EmptyLog = {} /\ EmptyLog \in [DOMAIN EmptyLog -> Revision] /\ IsLog(EmptyLog)
  BY DEF EmptyLog, IsLog, HasLast
<1>2. NoPre \in LineMap /\ NoJob \in Job /\ Of(NoPre) = {}
  BY DEF NoPre, LineMap, NoJob, Job, Of
<1>3. TypeOK
  BY <1>1, <1>2, BatchAssumption DEF Init, TypeOK
<1> QED
  BY <1>1, <1>2, <1>3 DEF Init, PlaceInv, AreSafeguards, AtWork, NoJob

\* What a step leaves of the lines of a map: they are there still.
LEMMA PreKept ==
  ASSUME PlaceInv, Grown
  PROVE  /\ \A f \in Of(pre) : f \in job.dir /\ pre[f] \in DOMAIN log'[f] /\ log'[f][pre[f]].label = "pre-restore"
         /\ \A f \in todo : f \in job.dir /\ HasLast(log'[f])
BY DEF PlaceInv, TypeOK, Grown, AreSafeguards, Of, HasLast

\* Every step keeps the batch in its place.
LEMMA PlaceNext == ASSUME PlaceInv, Step, UNCHANGED apart PROVE PlaceInv'
<1>1. /\ TypeOK' /\ Grown /\ apart' \in CallsApart
      /\ log' = [f \in File |-> log'[f]] /\ \A f \in File : IsLog(log'[f])
  BY TypeStep, LogStep DEF LogsOK, PlaceInv
<1>2. Of(NoPre) = {} /\ NoJob.kind = "none"
  BY DEF NoPre, Of, NoJob
<1>3. /\ \A f \in Of(pre) : f \in job.dir /\ pre[f] \in DOMAIN log'[f] /\ log'[f][pre[f]].label = "pre-restore"
      /\ \A f \in todo : f \in job.dir /\ HasLast(log'[f])
  BY <1>1, PreKept
<1>4. CASE UNCHANGED batchVars
  BY <1>1, <1>3, <1>4 DEF PlaceInv, batchVars, AreSafeguards, AtWork, IsCurrent, Of
<1>5. ASSUME NEW f \in File, BatchPick(f) \/ UndoPick(f) PROVE PlaceInv'
  <2>1. /\ UNCHANGED <<job, restored, pre, changed>>
        /\ pc = "pick" /\ pc' \in {"pick", "safeguard"} /\ todo' \subseteq todo
        /\ pc' = "safeguard" => target'.hash \in Content
    BY <1>5, PickedLine DEF BatchPick, UndoPick, Skip, RestoreTo
  <2> QED
    BY <1>1, <1>3, <2>1 DEF PlaceInv, AreSafeguards, AtWork, Of
<1>6. ASSUME NEW f \in File, Safeguard(f) PROVE PlaceInv'
  <2>1. /\ pc = "safeguard" /\ pc' = "rewrite" /\ IsCurrent(f) /\ f \in todo
        /\ pre' = [pre EXCEPT ![f] = NextLine(log[f])]
        /\ log' = [log EXCEPT ![f] = WithSafeguard(f)]
        /\ UNCHANGED <<job, todo, target, restored, changed>>
    BY <1>6 DEF Safeguard, IsCurrent
  <2>2. /\ NextLine(log[f]) \in Nat \ {0}
        /\ NextLine(log[f]) \in DOMAIN log'[f] /\ log'[f][NextLine(log[f])].label = "pre-restore"
    BY <2>1, SafeguardExtends DEF PlaceInv, Extends
  <2>3. Of(pre') = Of(pre) \cup {f} /\ pre'[f] = NextLine(log[f]) /\ \A g \in File \ {f} : pre'[g] = pre[g]
    BY <2>1, <2>2 DEF PlaceInv, TypeOK, LineMap, Of
  <2>4. \A g \in File : IsCurrent(g)' => g = f
    BY <2>1, OneCurrent DEF PlaceInv, IsCurrent
  <2>5. AreSafeguards(pre, job.dir)'
    BY <1>3, <2>1, <2>2, <2>3 DEF AreSafeguards, PlaceInv, Of
  <2> QED
    BY <1>1, <1>3, <2>1, <2>3, <2>4, <2>5 DEF PlaceInv, AtWork, Of
<1>7. ASSUME NEW f \in File, Rewrite(f) PROVE PlaceInv'
  <2>1. /\ pc = "rewrite" /\ pc' = "mark" /\ IsCurrent(f) /\ changed' = changed \cup {f}
        /\ UNCHANGED <<log, job, todo, target, restored, pre>>
    BY <1>7 DEF Rewrite
  <2> QED
    BY <1>1, <2>1 DEF PlaceInv, AtWork, IsCurrent, AreSafeguards, Of
<1>8. ASSUME NEW f \in File, Mark(f) PROVE PlaceInv'
  <2>1. /\ pc = "mark" /\ pc' = "pick" /\ IsCurrent(f)
        /\ restored' = restored \cup {f} /\ todo' = todo \ {f}
        /\ UNCHANGED <<job, target, pre, changed>>
    BY <1>8 DEF Mark
  <2>2. Of(pre) = restored'
    BY <2>1 DEF PlaceInv
  <2> QED
    BY <1>1, <1>3, <2>1, <2>2 DEF PlaceInv, AtWork, AreSafeguards, Of
<1>9. ASSUME NEW j, Begin(j), j.kind # "none" PROVE PlaceInv'
  BY <1>1, <1>2, <1>9 DEF PlaceInv, Begin, AtWork, AreSafeguards, Of
<1>10. CASE Fail
  BY <1>1, <1>10 DEF PlaceInv, Fail, AtWork, AreSafeguards, Of
<1>11. CASE Crash \/ \E D : End(D)
  BY <1>1, <1>2, <1>11 DEF PlaceInv, Crash, End, AtWork, AreSafeguards, Of
<1> QED
  BY <1>4, <1>5, <1>6, <1>7, <1>8, <1>9, <1>10, <1>11, StepKinds

-----------------------------------------------------------------------------
(* A batch rewinds what it covers.                                         *)

\* What a batch found of a file stays: lines it writes itself come after.
LEMMA FoundKept ==
  ASSUME PlaceInv, Grown, LogsOK', NEW f \in File, job' = job,
         \/ f \in Of(pre) /\ pre' = pre
         \/ log'[f] = log[f] /\ pre'[f] = pre[f]
         \/ /\ f \notin Of(pre) /\ pre'[f] = NextLine(log[f])
            /\ DOMAIN log'[f] = DOMAIN log[f] \cup {NextLine(log[f])},
         f \in Of(pre) => \A i \in DOMAIN log'[f] \ DOMAIN log[f] : pre[f] < i
  PROVE  /\ Found(f)' = Found(f) /\ Found(f) \subseteq DOMAIN log[f]
         /\ \A i \in Found(f) : log'[f][i] = log[f][i]
         /\ \A i, j \in Found(f) : i = j
<1> DEFINE then == {i \in DOMAIN log[f] : log[f][i].ts <= job.at /\ (f \in Of(pre) => i < pre[f])}
<1>1. DOMAIN log[f] \subseteq Nat /\ IsLog(log[f])
  BY DEF PlaceInv, IsLog
<1>2. then \subseteq DOMAIN log[f] /\ Found(f) = {i \in then : \A j \in then : j <= i}
  BY DEF Found
<1>3. \A i \in DOMAIN log[f] : i \in DOMAIN log'[f] /\ log'[f][i] = log[f][i]
  BY DEF Grown
<1>4. NextLine(log[f]) \in Nat \ {0} /\ \A i \in DOMAIN log[f] : i < NextLine(log[f])
  BY <1>1, NextLineIsNew
<1>5. then' = then
  <2>1. CASE f \in Of(pre) /\ pre' = pre
    <3>1. f \in Of(pre') /\ pre'[f] = pre[f] /\ pre[f] \in Nat
      BY <2>1, <1>1 DEF PlaceInv, AreSafeguards, Of
    <3>2. \A i \in DOMAIN log'[f] : i < pre[f] => i \in DOMAIN log[f]
      BY <2>1, <3>1 DEF LogsOK, IsLog
    <3> QED
      BY <2>1, <1>3, <3>1, <3>2
  <2>2. CASE log'[f] = log[f] /\ pre'[f] = pre[f]
    BY <2>2 DEF Of
  <2>3. CASE /\ f \notin Of(pre) /\ pre'[f] = NextLine(log[f])
             /\ DOMAIN log'[f] = DOMAIN log[f] \cup {NextLine(log[f])}
    <3>1. f \in Of(pre')
      BY <2>3, <1>4 DEF Of
    <3> QED
      BY <2>3, <1>3, <1>4, <3>1
  <2> QED
    BY <2>1, <2>2, <2>3
<1>6. Found(f)' = {i \in then' : \A j \in then' : j <= i}
  BY DEF Found
<1> HIDE DEF then
<1> QED
  BY <1>1, <1>2, <1>3, <1>5, <1>6

\* Where a step leaves a file and its log alone, what was rewound stays so.
LEMMA RewoundKept ==
  ASSUME PlaceInv, Grown, LogsOK', NEW f \in File, job' = job, log'[f] = log[f], pre'[f] = pre[f],
         disk'[f] = disk[f], f \in changed' => f \in changed
  PROVE  Found(f)' = Found(f) /\ (Rewound(f) => Rewound(f)')
<1>1. Found(f)' = Found(f) /\ \A i \in Found(f) : log'[f][i] = log[f][i]
  BY FoundKept
<1> QED
  BY <1>1 DEF Rewound

\* Every step keeps what a batch has rewound, and each file that it is done
\* with is (restoreAtLocked).
LEMMA RewindNext == ASSUME PlaceInv, RewindInv, Step, PlaceInv' PROVE RewindInv'
<1>1. Grown /\ LogsOK'
  BY LogStep
<1>2. job.dir \subseteq File
  BY DEF PlaceInv, TypeOK, Job
<1>3. CASE UNCHANGED <<log, batchVars>> /\ disk' = disk /\ touched' = touched
  BY <1>3 DEF RewindInv, batchVars, AtWork, IsCurrent, Found, Rewound, Of
<1>4. CASE job'.kind # "restore-at"
  BY <1>4 DEF RewindInv
<1>5. ASSUME NEW f \in File, Edit(f), job.kind = "restore-at" PROVE RewindInv'
  <2>1. /\ UNCHANGED <<log, batchVars>> /\ touched' = touched \cup {f}
        /\ \A g \in File \ {f} : disk'[g] = disk[g]
    BY <1>5 DEF Edit, LockFree, PlaceInv, TypeOK
  <2>2. \A g \in File : Found(g)' = Found(g)
    BY <2>1 DEF Found, batchVars, Of
  <2>3. \A g \in File \ {f} : Rewound(g) => Rewound(g)'
    BY <2>1, <2>2 DEF Rewound, batchVars
  <2> QED
    BY <1>2, <1>5, <2>1, <2>2, <2>3 DEF RewindInv, batchVars, AtWork, IsCurrent
<1>6. ASSUME NEW front, NEW dir, NEW at, BatchBegin(front, dir, at) PROVE RewindInv'
  <2>1. PICK j : Begin(j) /\ j.kind = "restore-at"
    BY <1>6, Beginnings
  <2>2. /\ pc' = "pick" /\ log' = log /\ changed' = {} /\ job'.dir \subseteq File
        /\ \A f \in job'.dir \ todo' : DOMAIN log'[f] = {}
    BY <2>1 DEF Begin, HasLast, PlaceInv, TypeOK, Job
  <2>3. \A f \in job'.dir \ todo' : Rewound(f)'
    BY <2>2 DEF Rewound, Found
  <2> QED
    BY <2>2, <2>3 DEF RewindInv, AtWork
<1>7. ASSUME NEW f \in File, BatchPick(f) PROVE RewindInv'
  <2>1. /\ UNCHANGED <<worldVars, log, job, changed, pre>> /\ pc = "pick" /\ f \in todo
        /\ job.kind = "restore-at"
    BY <1>7 DEF BatchPick, IsCurrent
  <2>2. \A g \in File : Found(g)' = Found(g) /\ (Rewound(g) <=> Rewound(g)')
    BY <2>1 DEF Found, Rewound, Of, worldVars
  <2>3. f \notin Of(pre) /\ f \notin changed
    BY <2>1 DEF PlaceInv
  <2>4. Found(f) = StateAt(log[f], job.at)
    BY <2>3 DEF Found, StateAt
  <2>5. CASE Skip(f) /\ \A i \in Found(f) : log[f][i].label # "delete" => log[f][i].hash = disk[f]
    <3>1. Rewound(f)
      BY <2>3, <2>5 DEF Rewound
    <3> QED
      BY <1>2, <2>1, <2>2, <2>5, <3>1 DEF RewindInv, Skip, AtWork, worldVars
  <2>6. ASSUME NEW i \in Found(f), log[f][i].label # "delete", RestoreTo(log[f][i]) PROVE RewindInv'
    <3>1. /\ pc' = "safeguard" /\ todo' = todo /\ target'.hash = log[f][i].hash
      BY <2>6 DEF RestoreTo
    <3>2. \A g \in File : IsCurrent(g)' => g = f
      BY <1>7, <3>1, OneCurrent DEF BatchPick, IsCurrent, PlaceInv
    <3> QED
      BY <1>2, <2>1, <2>2, <2>6, <3>1, <3>2 DEF RewindInv, AtWork, worldVars
  <2> QED
    BY <1>7, <2>4, <2>5, <2>6 DEF BatchPick
<1>8. ASSUME NEW f \in File, Safeguard(f), job.kind = "restore-at" PROVE RewindInv'
  <2>1. /\ pc = "safeguard" /\ pc' = "rewrite" /\ IsCurrent(f) /\ f \in todo
        /\ pre' = [pre EXCEPT ![f] = NextLine(log[f])]
        /\ log' = [log EXCEPT ![f] = WithSafeguard(f)]
        /\ UNCHANGED <<worldVars, job, todo, target, changed>>
    BY <1>8 DEF Safeguard, IsCurrent
  <2>2. /\ pre'[f] = NextLine(log[f]) /\ f \notin Of(pre)
        /\ DOMAIN log'[f] = DOMAIN log[f] \cup {NextLine(log[f])}
    BY <2>1, SafeguardExtends DEF PlaceInv, TypeOK, LineMap, Extends
  <2>3. Found(f)' = Found(f) /\ \A i \in Found(f) : log'[f][i] = log[f][i]
    BY <1>1, <2>1, <2>2, FoundKept
  <2>4. ASSUME NEW g \in File \ {f} PROVE Rewound(g) => Rewound(g)'
    <3>1. log'[g] = log[g] /\ pre'[g] = pre[g] /\ disk'[g] = disk[g]
      BY <2>1 DEF PlaceInv, TypeOK, LineMap, worldVars
    <3> QED
      BY <1>1, <2>1, <3>1, RewoundKept
  <2>5. \A g \in File : IsCurrent(g)' => g = f
    BY <2>1, OneCurrent DEF IsCurrent, PlaceInv
  <2> QED
    BY <1>2, <2>1, <2>3, <2>4, <2>5 DEF RewindInv, AtWork, worldVars
<1>9. ASSUME NEW f \in File, Rewrite(f), job.kind = "restore-at" PROVE RewindInv'
  <2>1. /\ pc = "rewrite" /\ pc' = "mark" /\ IsCurrent(f) /\ f \in todo
        /\ disk' = [disk EXCEPT ![f] = target.hash] /\ changed' = changed \cup {f}
        /\ UNCHANGED <<touched, log, job, todo, target, pre>>
    BY <1>9 DEF Rewrite, IsCurrent
  <2>2. disk'[f] = target.hash /\ \A g \in File \ {f} : disk'[g] = disk[g]
    BY <2>1 DEF PlaceInv, TypeOK
  <2>3. \A g \in File : Found(g)' = Found(g)
    BY <2>1 DEF Found, Of
  <2>4. \A g \in File \ {f} : Rewound(g) => Rewound(g)'
    BY <2>1, <2>2, <2>3 DEF Rewound
  <2>5. \A g \in File : IsCurrent(g)' => g = f
    BY <2>1, OneCurrent DEF IsCurrent, PlaceInv
  <2> QED
    BY <1>2, <2>1, <2>2, <2>3, <2>4, <2>5 DEF RewindInv, AtWork, IsCurrent
<1>10. ASSUME NEW f \in File, Mark(f), job.kind = "restore-at" PROVE RewindInv'
  <2>1. /\ pc = "mark" /\ pc' = "pick" /\ IsCurrent(f) /\ f \in todo /\ todo' = todo \ {f}
        /\ log' = [log EXCEPT ![f] = Put(log[f], "restore", target.hash, FALSE)]
        /\ UNCHANGED <<worldVars, job, target, pre, changed>>
    BY <1>10 DEF Mark, IsCurrent
  <2>2. f \in Of(pre) /\ pre[f] \in DOMAIN log[f] /\ f \in job.dir
    BY <2>1 DEF PlaceInv, AreSafeguards
  <2>3. \A i \in DOMAIN log'[f] \ DOMAIN log[f] : pre[f] < i
    <3>1. DOMAIN log'[f] = DOMAIN log[f] \cup {NextLine(log[f])}
      BY <2>1 DEF PlaceInv, TypeOK, Put, Appended
    <3> QED
      BY <2>2, <3>1, NextLineIsNew DEF PlaceInv
  <2>4. /\ Found(f)' = Found(f) /\ \A i \in Found(f) : log'[f][i] = log[f][i]
        /\ \A i, k \in Found(f) : i = k
    BY <1>1, <2>1, <2>2, <2>3, FoundKept
  <2>5. PICK i \in Found(f) : log[f][i].label # "delete" /\ log[f][i].hash = target.hash
    BY <1>10, <2>1 DEF RewindInv, AtWork
  <2>6. f \notin touched => disk[f] = target.hash
    BY <1>10, <2>1 DEF RewindInv
  <2>7. f \notin touched => Rewound(f)'
    BY <2>1, <2>4, <2>5, <2>6 DEF Rewound, worldVars
  <2>8. ASSUME NEW g \in File \ {f} PROVE Rewound(g) => Rewound(g)'
    <3>1. log'[g] = log[g] /\ pre'[g] = pre[g] /\ disk'[g] = disk[g]
      BY <2>1 DEF PlaceInv, TypeOK, worldVars
    <3> QED
      BY <1>1, <2>1, <3>1, RewoundKept
  <2> QED
    BY <1>2, <2>1, <2>7, <2>8 DEF RewindInv, AtWork, worldVars
<1>11. CASE Fail
  <2>1. UNCHANGED <<worldVars, log, job, todo, pre, changed>> /\ pc' = "failed"
    BY <1>11 DEF Fail
  <2>2. \A g \in File : Rewound(g) => Rewound(g)'
    BY <2>1 DEF Found, Rewound, Of, worldVars
  <2> QED
    BY <1>2, <2>1, <2>2 DEF RewindInv, AtWork, worldVars
<1>12. ASSUME NEW f \in File, Record(f) \/ Restore(f) PROVE job'.kind # "restore-at"
  BY <1>12 DEF Record, Restore, Call, LockFree, batchVars, PlaceInv
<1>13. ASSUME NEW o, UndoBegin(o) PROVE job'.kind # "restore-at"
  BY <1>13, Beginnings DEF Begin
<1>14. ASSUME BatchEnd \/ UndoEnd \/ Crash PROVE job'.kind # "restore-at"
  BY <1>14 DEF BatchEnd, UndoEnd, Crash, End, NoJob
<1>15. ASSUME NEW f \in File, UndoPick(f) PROVE job'.kind # "restore-at"
  BY <1>15 DEF UndoPick
<1>16. ASSUME UndoRead \/ Tick \/ \E o \in owed : SaveWindow(o) \/ Forget(o) \/ DropWindow(o)
       PROVE  UNCHANGED <<log, batchVars>> /\ disk' = disk /\ touched' = touched
  BY <1>16 DEF UndoRead, Tick, SaveWindow, Forget, DropWindow, worldVars
<1>17. ASSUME NEW f \in File, Safeguard(f) \/ Rewrite(f) \/ Mark(f) \/ Edit(f) PROVE job' = job
  BY <1>17 DEF Safeguard, Rewrite, Mark, Edit, batchVars
<1> QED
  BY <1>3, <1>4, <1>5, <1>6, <1>7, <1>8, <1>9, <1>10, <1>11, <1>12, <1>13, <1>14, <1>15, <1>16,
     <1>17 DEF Step

\* A batch that went well has rewound every file under its directory that it
\* found a state of, whatever was edited, failed or died before it and whenever
\* the clock was set back (restoreAtLocked).
THEOREM BatchesRewind == Spec => []BatchRewinds
<1>1. Init => PlaceInv /\ RewindInv
  BY PlaceInit DEF Init, RewindInv, NoJob
<1>2. PlaceInv /\ RewindInv /\ [Next]_vars => PlaceInv' /\ RewindInv'
  <2> SUFFICES ASSUME PlaceInv, RewindInv, [Next]_vars PROVE PlaceInv' /\ RewindInv'
    OBVIOUS
  <2>1. CASE Next
    BY <2>1, PlaceNext, RewindNext DEF Next
  <2>2. CASE UNCHANGED vars
    <3>1. PlaceInv'
      BY <2>2 DEF vars, PlaceInv, TypeOK, AreSafeguards, AtWork, IsCurrent, Of
    <3>2. RewindInv'
      BY <2>2 DEF vars, RewindInv, AtWork, IsCurrent, Found, Rewound, Of
    <3> QED
      BY <3>1, <3>2
  <2> QED
    BY <2>1, <2>2
<1>3. PlaceInv /\ RewindInv => BatchRewinds
  BY DEF RewindInv, BatchRewinds, Worked
<1> QED
  BY <1>1, <1>2, <1>3, PTL DEF Spec

-----------------------------------------------------------------------------
(* A window holds its batch.                                               *)

\* The place of a batch as an invariant, for what builds on it.
LEMMA PlaceKept == Spec => []PlaceInv
<1>1. PlaceInv /\ [Next]_vars => PlaceInv'
  <2> SUFFICES ASSUME PlaceInv, [Next]_vars PROVE PlaceInv'
    OBVIOUS
  <2>1. CASE Next
    BY <2>1, PlaceNext DEF Next
  <2>2. CASE UNCHANGED vars
    BY <2>2 DEF vars, PlaceInv, TypeOK, AreSafeguards, AtWork, IsCurrent, Of
  <2> QED
    BY <2>1, <2>2
<1>2. Init => PlaceInv
  BY PlaceInit
<1> QED
  BY <1>1, <1>2, PTL DEF Spec

\* A window comes from a batch or from another one (SaveWindow, UndoRead).
LEMMA WindowsStep ==
  ASSUME TypeOK, Step
  PROVE  \/ Windows' \subseteq Windows
         \/ /\ BatchEnd
            /\ Windows' \subseteq Windows \cup
                 {[first |-> job.first, last |-> WindowEnd, dir |-> job.dir, pre |-> pre]}
<1>1. CASE UNCHANGED <<window, owed>>
  BY <1>1 DEF Windows
<1>2. CASE BatchEnd
  BY <1>2 DEF BatchEnd, End, Windows
<1>3. CASE UndoEnd
  BY <1>3 DEF UndoEnd, End, Windows
<1>4. CASE UndoRead
  BY <1>4 DEF UndoRead, Windows
<1>5. ASSUME NEW o \in owed, SaveWindow(o) PROVE Windows' \subseteq Windows
  <2>1. o.window \in Windows
    BY <1>5, DebtWindow DEF SaveWindow
  <2> QED
    BY <1>5, <2>1 DEF SaveWindow, Windows
<1>6. ASSUME NEW o \in owed, Forget(o) \/ DropWindow(o) \/ UndoBegin(o) PROVE Windows' \subseteq Windows
  BY <1>6 DEF Forget, DropWindow, UndoBegin, Begin, Windows
<1>7. ASSUME NEW f \in File, Record(f) \/ Restore(f) \/ Edit(f) \/ BatchPick(f) \/ UndoPick(f)
               \/ Safeguard(f) \/ Rewrite(f) \/ Mark(f)
      PROVE  UNCHANGED <<window, owed>>
  BY <1>7 DEF Record, Restore, Edit, BatchPick, UndoPick, Safeguard, Rewrite, Mark
<1>8. ASSUME NEW front, NEW dir, NEW at, BatchBegin(front, dir, at) PROVE UNCHANGED <<window, owed>>
  BY <1>8 DEF BatchBegin, Begin
<1>9. ASSUME Fail \/ Crash \/ Tick PROVE UNCHANGED <<window, owed>>
  BY <1>9 DEF Fail, Crash, Tick
<1> QED
  BY <1>1, <1>2, <1>3, <1>4, <1>5, <1>6, <1>7, <1>8, <1>9 DEF Step

\* Every window there is is one of Window.
LEMMA WindowsAreWindows == ASSUME TypeOK PROVE Windows \subseteq Window
BY DEF TypeOK, Windows, Debt

\* What a step does to windows, when the clock is not set back: they hold what
\* they held.
LEMMA CoversKept ==
  ASSUME PlaceInv, Grown, NEW w \in Windows, AreSafeguards(w.pre, w.dir), Covers(w)
  PROVE  /\ \A f \in Of(w.pre) : w.pre[f] \in DOMAIN log'[f] /\ f \in w.dir
         /\ \A f \in Of(w.pre) : log'[f][w.pre[f]].label = "pre-restore"
         /\ \A f \in Of(w.pre) : log'[f][w.pre[f]].ts \in w.first .. w.last
<1>1. \A f \in Of(w.pre) : f \in File /\ f \in w.dir /\ w.pre[f] \in DOMAIN log[f]
  BY DEF AreSafeguards, Of
<1>2. \A f \in Of(w.pre) : log'[f][w.pre[f]] = log[f][w.pre[f]] /\ w.pre[f] \in DOMAIN log'[f]
  BY <1>1 DEF Grown
<1> QED
  BY <1>1, <1>2 DEF AreSafeguards, Covers

\* When the clock is not set back it only goes on.
LEMMA ClockStep ==
  ASSUME ~ClockMayStepBack, clock \in Nat, Step
  PROVE  clock' \in Nat /\ clock <= clock'
<1>1. clock' = clock \/ clock' = clock + 1
  <2>1. ASSUME NEW f \in File, Record(f) \/ Restore(f) \/ Edit(f) \/ BatchPick(f) \/ UndoPick(f)
                 \/ Safeguard(f) \/ Rewrite(f) \/ Mark(f)
        PROVE  clock' = clock
    BY <2>1 DEF Record, Restore, Edit, BatchPick, UndoPick, Safeguard, Rewrite, Mark, worldVars
  <2>2. ASSUME NEW front, NEW dir, NEW at, BatchBegin(front, dir, at) PROVE clock' = clock
    BY <2>2 DEF BatchBegin, Begin
  <2>3. ASSUME BatchEnd \/ UndoRead \/ UndoEnd \/ Fail \/ Crash PROVE clock' = clock
    BY <2>3 DEF BatchEnd, UndoRead, UndoEnd, End, Fail, Crash, worldVars
  <2>4. ASSUME NEW o, SaveWindow(o) \/ Forget(o) \/ UndoBegin(o) \/ DropWindow(o) PROVE clock' = clock
    BY <2>4 DEF SaveWindow, Forget, UndoBegin, Begin, DropWindow, worldVars
  <2>5. CASE Tick
    BY <2>5 DEF Tick
  <2> QED
    BY <2>1, <2>2, <2>3, <2>4, <2>5 DEF Step
<1> QED
  BY <1>1

\* Every step keeps the times of a batch between its start and now.
LEMMA BatchSpanNext ==
  ASSUME ~ClockMayStepBack, PlaceInv, BatchSpan, Step, UNCHANGED apart, PlaceInv'
  PROVE  BatchSpan'
<1>1. /\ Grown /\ clock \in Nat /\ clock' \in Nat /\ clock <= clock' /\ maxPre \in Nat
      /\ job \in Job
  BY LogStep, ClockStep DEF PlaceInv, TypeOK
<1>2. CASE job'.kind # "restore-at"
  BY <1>2 DEF BatchSpan
<1>3. CASE /\ UNCHANGED <<log, job, pre, maxPre>> /\ restored' = restored /\ job.kind = "restore-at"
  <2>1. \A f \in Of(pre) : log[f][pre[f]].ts \in Nat
    BY DEF PlaceInv, TypeOK, AreSafeguards, Of, Revision
  <2> QED
    BY <1>1, <1>3, <2>1 DEF BatchSpan, Of, Job
<1>4. ASSUME NEW front, NEW dir, NEW at, BatchBegin(front, dir, at) PROVE BatchSpan'
  <2>1. PICK j : Begin(j) /\ j.kind = "restore-at" /\ j.first = clock /\ Apart
    BY <1>4, Beginnings
  <2>2. /\ job' = j /\ log' = log /\ pre' = NoPre /\ maxPre' = 0 /\ clock' = clock
    BY <2>1 DEF Begin
  <2>3. Of(pre') = {}
    BY <2>2 DEF Of, NoPre
  <2> QED
    BY <1>1, <2>1, <2>2, <2>3 DEF BatchSpan, Apart
<1>5. ASSUME NEW f \in File, Safeguard(f), job.kind = "restore-at" PROVE BatchSpan'
  <2>1. /\ pc = "safeguard" /\ IsCurrent(f) /\ f \in todo
        /\ pre' = [pre EXCEPT ![f] = NextLine(log[f])]
        /\ log' = [log EXCEPT ![f] = WithSafeguard(f)]
        /\ UNCHANGED <<clock, job, maxPre, restored>>
    BY <1>5 DEF Safeguard, IsCurrent, worldVars
  <2>2. f \notin Of(pre) /\ f \notin restored /\ Extends(WithSafeguard(f), log[f])
    BY <2>1, SafeguardExtends DEF PlaceInv
  <2>3. /\ pre'[f] = NextLine(log[f]) /\ log'[f] = WithSafeguard(f)
        /\ Of(pre') = Of(pre) \cup {f}
        /\ \A g \in File \ {f} : pre'[g] = pre[g] /\ log'[g] = log[g]
    BY <2>1, <2>2 DEF PlaceInv, TypeOK, LineMap, Of, Extends
  <2>4. /\ job.first <= clock /\ job.first \in Nat
        /\ clock <= log'[f][pre'[f]].ts /\ log'[f][pre'[f]].ts \in Nat
    <3>1. log'[f][pre'[f]].ts \in Nat
      BY <2>2, <2>3 DEF Extends, Revision
    <3> QED
      BY <1>1, <1>5, <2>2, <2>3, <3>1 DEF Extends, BatchSpan, Job
  <2>5. apart => log'[f][pre'[f]].ts = clock
    <3>1. ASSUME apart PROVE \A i \in DOMAIN log[f] : log[f][i].ts < clock
      <4>1. \A i \in DOMAIN log[f] : log[f][i].ts < job.first /\ log[f][i].ts \in Nat
        BY <1>5, <2>2, <3>1 DEF BatchSpan, PlaceInv, TypeOK, Revision
      <4> QED
        BY <1>1, <2>4, <4>1
    <3> QED
      BY <2>2, <2>3, <3>1 DEF Extends
  <2>6. \A g \in Of(pre) : g # f /\ g \in File
    BY <2>2 DEF Of
  <2>7. \A g \in Of(pre') : /\ job.first <= log'[g][pre'[g]].ts
                            /\ g \in restored' => log'[g][pre'[g]].ts <= maxPre'
    <3> SUFFICES ASSUME NEW g \in Of(pre')
                 PROVE  /\ job.first <= log'[g][pre'[g]].ts
                        /\ g \in restored' => log'[g][pre'[g]].ts <= maxPre'
      OBVIOUS
    <3>1. CASE g = f
      BY <1>1, <2>1, <2>2, <2>4, <3>1
    <3>2. CASE g # f
      <4>1. g \in Of(pre) /\ log'[g][pre'[g]] = log[g][pre[g]]
        BY <2>3, <2>6, <3>2
      <4> QED
        BY <1>5, <2>1, <4>1 DEF BatchSpan
    <3> QED
      BY <3>1, <3>2
  <2>8. ASSUME apart
        PROVE  /\ maxPre' <= clock'
               /\ \A g \in Of(pre') : log'[g][pre'[g]].ts <= clock'
               /\ \A g \in File \ Of(pre') : \A i \in DOMAIN log'[g] : log'[g][i].ts < job.first
    <3>1. maxPre' <= clock'
      BY <1>5, <2>1, <2>8 DEF BatchSpan
    <3>2. log'[f][pre'[f]].ts <= clock'
      BY <1>1, <2>1, <2>5, <2>8
    <3>3. \A g \in Of(pre) : log'[g][pre'[g]].ts <= clock'
      BY <1>5, <2>1, <2>3, <2>6, <2>8 DEF BatchSpan
    <3>4. \A g \in File \ Of(pre') : \A i \in DOMAIN log'[g] : log'[g][i].ts < job.first
      BY <1>5, <2>1, <2>3, <2>8 DEF BatchSpan
    <3> QED
      BY <2>3, <3>1, <3>2, <3>3, <3>4
  <2> QED
    BY <2>1, <2>4, <2>7, <2>8 DEF BatchSpan
<1>6. ASSUME NEW f \in File, Mark(f), job.kind = "restore-at" PROVE BatchSpan'
  <2>1. /\ pc = "mark" /\ IsCurrent(f) /\ restored' = restored \cup {f}
        /\ log' = [log EXCEPT ![f] = Put(log[f], "restore", target.hash, FALSE)]
        /\ maxPre' = IF log[f][pre[f]].ts > maxPre THEN log[f][pre[f]].ts ELSE maxPre
        /\ UNCHANGED <<clock, job, pre>>
    BY <1>6 DEF Mark, worldVars
  <2>2. f \in Of(pre)
    BY <2>1 DEF PlaceInv
  <2>3. \A g \in Of(pre) : /\ g \in File /\ pre[g] \in DOMAIN log[g] /\ log[g][pre[g]].ts \in Nat
                           /\ log'[g][pre[g]] = log[g][pre[g]]
    BY <1>1 DEF PlaceInv, TypeOK, AreSafeguards, Of, Revision, Grown
  <2>4. \A g \in File \ Of(pre) : log'[g] = log[g]
    BY <2>1, <2>2 DEF PlaceInv, TypeOK
  <2>5. Of(pre') = Of(pre)
    BY <2>1 DEF Of
  <2>6. maxPre <= maxPre' /\ log[f][pre[f]].ts <= maxPre' /\ maxPre' \in Nat
    <3>1. log[f][pre[f]].ts \in Nat
      BY <2>2, <2>3
    <3> QED
      BY <1>1, <2>1, <3>1
  <2>7. job.first <= clock /\ \A g \in Of(pre) : /\ job.first <= log'[g][pre[g]].ts
                                                 /\ g \in restored' => log'[g][pre[g]].ts <= maxPre'
    <3>1. job.first <= clock /\ \A g \in Of(pre) : job.first <= log'[g][pre[g]].ts
      BY <1>6, <2>3 DEF BatchSpan
    <3>2. ASSUME NEW g \in Of(pre), g \in restored' PROVE log'[g][pre[g]].ts <= maxPre'
      <4>1. CASE g = f
        BY <2>3, <2>6, <4>1
      <4>2. CASE g # f
        <5>1. log[g][pre[g]].ts <= maxPre
          BY <1>6, <2>1, <3>2, <4>2 DEF BatchSpan
        <5>2. log[g][pre[g]].ts \in Nat /\ log'[g][pre[g]].ts = log[g][pre[g]].ts
          BY <2>3
        <5> QED
          BY <1>1, <2>6, <5>1, <5>2
      <4> QED
        BY <4>1, <4>2
    <3> QED
      BY <3>1, <3>2
  <2>8. ASSUME apart
        PROVE  /\ maxPre' <= clock
               /\ \A g \in Of(pre) : log'[g][pre[g]].ts <= clock
               /\ \A g \in File \ Of(pre) : \A i \in DOMAIN log'[g] : log'[g][i].ts < job.first
    BY <1>6, <2>1, <2>2, <2>3, <2>4, <2>8 DEF BatchSpan
  <2> QED
    BY <2>1, <2>5, <2>7, <2>8 DEF BatchSpan
<1>7. ASSUME NEW f \in File, Record(f) \/ Restore(f) PROVE job'.kind # "restore-at"
  BY <1>7 DEF Record, Restore, Call, LockFree, batchVars, PlaceInv
<1>8. ASSUME NEW o, UndoBegin(o) PROVE job'.kind # "restore-at"
  BY <1>8, Beginnings DEF Begin
<1>9. ASSUME BatchEnd \/ UndoEnd \/ Crash PROVE job'.kind # "restore-at"
  BY <1>9 DEF BatchEnd, UndoEnd, Crash, End, NoJob
<1>10. ASSUME NEW f \in File, BatchPick(f) \/ UndoPick(f) \/ Rewrite(f) \/ Edit(f)
       PROVE  UNCHANGED <<log, job, pre, maxPre>> /\ restored' = restored
  BY <1>10 DEF BatchPick, UndoPick, Rewrite, Edit, batchVars
<1>11. ASSUME Fail \/ UndoRead \/ Tick \/ \E o \in owed : SaveWindow(o) \/ Forget(o) \/ DropWindow(o)
       PROVE  UNCHANGED <<log, job, pre, maxPre>> /\ restored' = restored
  BY <1>11 DEF Fail, UndoRead, Tick, SaveWindow, Forget, DropWindow, batchVars
<1>12. ASSUME NEW f \in File, Safeguard(f) \/ Mark(f) PROVE job' = job
  BY <1>12 DEF Safeguard, Mark
<1> QED
  BY <1>2, <1>3, <1>4, <1>5, <1>6, <1>7, <1>8, <1>9, <1>10, <1>11, <1>12 DEF Step

\* Every step keeps the safeguards in the windows (batchEndOf).
LEMMA SpanNext ==
  ASSUME ~ClockMayStepBack, PlaceInv, SpanInv, Step, UNCHANGED apart, PlaceInv'
  PROVE  SpanInv'
<1>1. Grown /\ BatchSpan'
  BY LogStep, BatchSpanNext DEF SpanInv
<1>2. ASSUME apart \/ ~MayFail, NEW w \in Windows PROVE AreSafeguards(w.pre, w.dir)' /\ Covers(w)'
  BY <1>1, <1>2, CoversKept DEF SpanInv, AreSafeguards, Covers, Of
<1>3. ASSUME apart \/ ~MayFail, BatchEnd,
             NEW w, w = [first |-> job.first, last |-> WindowEnd, dir |-> job.dir, pre |-> pre]
      PROVE  AreSafeguards(w.pre, w.dir)' /\ Covers(w)'
  <2>1. /\ job.kind = "restore-at" /\ log' = log /\ (Worked \/ pc = "failed")
        /\ clock \in Nat /\ maxPre \in Nat
    BY <1>3 DEF BatchEnd, End, PlaceInv, TypeOK
  <2>2. AreSafeguards(pre, job.dir)
    BY DEF PlaceInv
  <2>3. WindowEnd \in Nat /\ clock <= WindowEnd /\ maxPre <= WindowEnd
    BY <2>1 DEF WindowEnd
  <2>4. ASSUME NEW f \in Of(pre) PROVE log[f][pre[f]].ts \in job.first .. WindowEnd
    <3>1. log[f][pre[f]].ts \in Nat /\ job.first \in Nat
      BY <2>2 DEF PlaceInv, TypeOK, AreSafeguards, Of, Revision, Job
    <3>2. job.first <= log[f][pre[f]].ts
      BY <2>1 DEF SpanInv, BatchSpan
    <3>3. log[f][pre[f]].ts <= clock \/ log[f][pre[f]].ts <= maxPre
      <4>1. CASE apart
        BY <2>1, <4>1 DEF SpanInv, BatchSpan
      <4>2. CASE ~apart
        <5>1. Of(pre) = restored
          BY <1>3, <2>1, <4>2 DEF PlaceInv, Worked
        <5> QED
          BY <2>1, <5>1 DEF SpanInv, BatchSpan
      <4> QED
        BY <4>1, <4>2
    <3> QED
      BY <2>1, <2>3, <3>1, <3>2, <3>3
  <2> QED
    BY <1>3, <2>1, <2>2, <2>4 DEF AreSafeguards, Covers
<1>4. ASSUME apart \/ ~MayFail, NEW w \in Windows' PROVE AreSafeguards(w.pre, w.dir)' /\ Covers(w)'
  <2>1. TypeOK
    BY DEF PlaceInv
  <2> QED
    BY <1>2, <1>3, <1>4, <2>1, WindowsStep
<1> QED
  BY <1>1, <1>4 DEF SpanInv

\* No window and no batch to begin with.
LEMMA SpanInit == ASSUME Init PROVE SpanInv
BY DEF Init, SpanInv, BatchSpan, Windows, NoJob

\* The clock that is not set back, places and spans, as invariants.
LEMMA SpanKept == ASSUME ~ClockMayStepBack PROVE Spec => []SpanInv
<1>1. PlaceInv /\ PlaceInv' /\ SpanInv /\ [Next]_vars => SpanInv'
  <2> SUFFICES ASSUME PlaceInv, PlaceInv', SpanInv, [Next]_vars PROVE SpanInv'
    OBVIOUS
  <2>1. CASE Next
    BY <2>1, SpanNext DEF Next
  <2>2. CASE UNCHANGED vars
    BY <2>2 DEF vars, SpanInv, BatchSpan, Windows, AreSafeguards, Covers, Of
  <2> QED
    BY <2>1, <2>2
<1>2. Init => SpanInv
  BY SpanInit
<1> QED
  BY <1>1, <1>2, PlaceKept, PTL DEF Spec

\* The window of a batch, from the moment it is owed to the end of its undo,
\* holds every safeguard that the batch wrote, also where it stopped half way
\* (batchEndOf): as long as the clock is not set back and, for the batches that
\* fail, calls are apart.
THEOREM WindowsHoldTheirBatch ==
  ASSUME ~ClockMayStepBack, MayFail => CallsApart = {TRUE}
  PROVE  Spec => []WindowInv
<1>1. PlaceInv /\ SpanInv => WindowInv
  <2> SUFFICES ASSUME PlaceInv, SpanInv PROVE WindowInv
    OBVIOUS
  <2>1. TypeOK /\ (apart \/ ~MayFail)
    BY BatchAssumption DEF PlaceInv
  <2> QED
    BY <2>1 DEF SpanInv, WindowInv, WindowHoldsBatch
<1> QED
  BY <1>1, PlaceKept, SpanKept, PTL

-----------------------------------------------------------------------------
(* An undo is exact.                                                       *)

\* What is written now is outside of a span that is over.
LEMMA SpanIsOver ==
  ASSUME PlaceInv, Grown, LogsOK', NEW f \in File, NEW first \in Nat, NEW last \in Nat,
         last < clock
  PROVE  Span(f, first, last)' = Span(f, first, last)
<1>1. \A i \in DOMAIN log'[f] : log'[f][i].ts \in Nat
  BY DEF LogsOK, Revision
<1>2. clock \in Nat
  BY DEF PlaceInv, TypeOK
<1>3. \A i \in DOMAIN log'[f] : log'[f][i].ts \in first .. last => i \in DOMAIN log[f]
  BY <1>1, <1>2 DEF Grown
<1> QED
  BY <1>3 DEF Span, Grown

\* Who finds the lock free writes and begins after every window, and nobody
\* else writes or begins then.
LEMMA IdleStep ==
  ASSUME PlaceInv, Step, pc = "idle", apart
  PROVE  \/ \A w \in Windows : w.last < clock
         \/ log' = log /\ pc' = pc
<1>1. ASSUME NEW f \in File, Record(f) \/ Restore(f) PROVE \A w \in Windows : w.last < clock
  BY <1>1 DEF Record, Restore, Call, Apart
<1>2. ASSUME NEW front, NEW dir, NEW at, BatchBegin(front, dir, at)
      PROVE  \A w \in Windows : w.last < clock
  BY <1>2 DEF BatchBegin, Call, Apart
<1>3. ASSUME NEW o, UndoBegin(o) PROVE \A w \in Windows : w.last < clock
  BY <1>3 DEF UndoBegin, Apart
<1>4. ASSUME NEW f \in File, Edit(f) PROVE log' = log /\ pc' = pc
  BY <1>4 DEF Edit, batchVars
<1>5. ASSUME NEW f \in File, BatchPick(f) \/ UndoPick(f) \/ Safeguard(f) \/ Rewrite(f) \/ Mark(f)
      PROVE  FALSE
  BY <1>5 DEF BatchPick, UndoPick, Safeguard, Rewrite, Mark
<1>6. ASSUME BatchEnd \/ UndoEnd \/ Fail \/ Crash PROVE FALSE
  BY <1>6 DEF BatchEnd, UndoEnd, Fail, Crash, PlaceInv
<1>7. ASSUME UndoRead \/ Tick \/ \E o \in owed : SaveWindow(o) \/ Forget(o) \/ DropWindow(o)
      PROVE  log' = log /\ pc' = pc
  BY <1>7 DEF UndoRead, Tick, SaveWindow, Forget, DropWindow, batchVars
<1> QED
  BY <1>1, <1>2, <1>3, <1>4, <1>5, <1>6, <1>7 DEF Step

\* Every window stays the span of its batch.
LEMMA WindowsExactNext ==
  ASSUME ~ClockMayStepBack, PlaceInv, SpanInv, apart, WindowsExact, BatchExact, Step
  PROVE  WindowsExact'
<1>1. Grown /\ LogsOK' /\ clock \in Nat /\ clock' \in Nat /\ clock <= clock' /\ TypeOK
  BY LogStep, ClockStep DEF PlaceInv, TypeOK
<1>2. ASSUME NEW w \in Windows
      PROVE  /\ \A f \in w.dir : Span(f, w.first, w.last)' = Own(w.pre, f)
             /\ pc' # "idle" => w.last < clock'
  <2>1. w.first \in Nat /\ w.last \in Nat /\ w.dir \subseteq File
    BY <1>1, WindowsAreWindows DEF Window
  <2>2. CASE w.last < clock
    <3>1. \A f \in w.dir : Span(f, w.first, w.last)' = Span(f, w.first, w.last)
      BY <1>1, <2>1, <2>2, SpanIsOver
    <3> QED
      BY <1>1, <2>1, <2>2, <3>1 DEF WindowsExact
  <2>3. CASE log' = log /\ pc' = "idle"
    BY <2>3 DEF WindowsExact, Span
  <2> QED
    BY <2>2, <2>3, IdleStep DEF WindowsExact
<1>3. ASSUME BatchEnd,
             NEW w, w = [first |-> job.first, last |-> WindowEnd, dir |-> job.dir, pre |-> pre]
      PROVE  /\ \A f \in w.dir : Span(f, w.first, w.last)' = Own(w.pre, f)
             /\ pc' # "idle" => w.last < clock'
  <2>1. /\ job.kind = "restore-at" /\ log' = log /\ pc' = "idle"
        /\ w.dir \subseteq File /\ job.first \in Nat /\ maxPre \in Nat
        /\ w.first = job.first /\ w.last = WindowEnd /\ w.pre = pre
    BY <1>3 DEF BatchEnd, End, PlaceInv, TypeOK, Job
  <2>2. WindowEnd \in Nat /\ clock <= WindowEnd
    BY <1>1, <2>1 DEF WindowEnd
  <2>3. ASSUME NEW f \in w.dir PROVE Span(f, job.first, WindowEnd) = Own(pre, f)
    <3> DEFINE late == {i \in DOMAIN log[f] : /\ log[f][i].label = "pre-restore"
                                              /\ job.first <= log[f][i].ts}
    <3>1. late = Own(pre, f)
      BY <2>1 DEF BatchExact
    <3>2. \A i \in late : log[f][i].ts \in Nat /\ log[f][i].ts <= WindowEnd
      <4> SUFFICES ASSUME NEW i \in late PROVE log[f][i].ts \in Nat /\ log[f][i].ts <= WindowEnd
        OBVIOUS
      <4>1. f \in Of(pre) /\ i = pre[f]
        BY <3>1 DEF Own
      <4>2. log[f][i].ts <= clock
        BY <2>1, <4>1 DEF SpanInv, BatchSpan
      <4>3. log[f][i].ts \in Nat
        BY <2>1, <2>3 DEF PlaceInv, TypeOK, Revision
      <4> QED
        BY <1>1, <2>2, <4>2, <4>3
    <3>3. Span(f, job.first, WindowEnd) = late
      <4>1. \A i \in DOMAIN log[f] : log[f][i].ts \in Nat
        BY <2>1, <2>3 DEF PlaceInv, TypeOK, Revision
      <4>2. \A i \in DOMAIN log[f] :
              i \in late <=> log[f][i].label = "pre-restore" /\ log[f][i].ts \in job.first .. WindowEnd
        BY <2>1, <2>2, <3>2, <4>1
      <4> QED
        BY <4>2 DEF Span
    <3> QED
      BY <3>1, <3>3
  <2>4. \A f \in w.dir : Span(f, w.first, w.last)' = Span(f, job.first, WindowEnd)
    BY <2>1 DEF Span
  <2> QED
    BY <2>1, <2>3, <2>4
<1>4. ASSUME NEW w \in Windows'
      PROVE  /\ \A f \in w.dir : Span(f, w.first, w.last)' = Own(w.pre, f)
             /\ pc' # "idle" => w.last < clock'
  BY <1>1, <1>2, <1>3, WindowsStep
<1> QED
  BY <1>4 DEF WindowsExact, Own

\* Every step keeps a batch the only one that writes safeguards.
LEMMA BatchExactNext ==
  ASSUME PlaceInv, PlaceInv', BatchSpan, BatchExact, apart, Step
  PROVE  BatchExact'
<1>1. Grown /\ clock \in Nat
  BY LogStep DEF PlaceInv, TypeOK
<1>2. CASE job'.kind # "restore-at"
  BY <1>2 DEF BatchExact
<1>3. CASE UNCHANGED <<log, job, pre>>
  BY <1>3 DEF BatchExact, Own, Of
<1>4. ASSUME NEW front, NEW dir, NEW at, BatchBegin(front, dir, at) PROVE BatchExact'
  <2>1. PICK j : Begin(j) /\ j.kind = "restore-at" /\ j.first = clock /\ Apart
    BY <1>4, Beginnings
  <2>2. job' = j /\ log' = log /\ pre' = NoPre
    BY <2>1 DEF Begin
  <2>3. ASSUME NEW f \in File, NEW i \in DOMAIN log[f] PROVE ~(clock <= log[f][i].ts)
    <3>1. log[f][i].ts \in Nat /\ log[f][i].ts < clock
      BY <2>1, <2>3 DEF Apart, PlaceInv, TypeOK, Revision
    <3> QED
      BY <1>1, <3>1
  <2> QED
    BY <2>1, <2>2, <2>3 DEF BatchExact, Own, Of, NoPre
<1>5. ASSUME NEW f \in File, Safeguard(f), job.kind = "restore-at" PROVE BatchExact'
  <2>0. job.first <= clock
    BY <1>5 DEF BatchSpan
  <2>1. /\ pc = "safeguard" /\ IsCurrent(f) /\ f \in todo
        /\ pre' = [pre EXCEPT ![f] = NextLine(log[f])]
        /\ log' = [log EXCEPT ![f] = WithSafeguard(f)]
        /\ job' = job
    BY <1>5 DEF Safeguard, IsCurrent
  <2>2. /\ f \notin Of(pre) /\ Extends(WithSafeguard(f), log[f])
        /\ WithSafeguard(f)[NextLine(log[f])].label = "pre-restore"
    BY <2>1, SafeguardExtends DEF PlaceInv
  <2>3. /\ log'[f] = WithSafeguard(f) /\ pre'[f] = NextLine(log[f]) /\ f \in Of(pre')
        /\ \A g \in File \ {f} : log'[g] = log[g] /\ pre'[g] = pre[g] /\ (g \in Of(pre') <=> g \in Of(pre))
    BY <2>1, <2>2 DEF PlaceInv, TypeOK, LineMap, Of, Extends
  <2>4. \A i \in DOMAIN log[f] : ~(log[f][i].label = "pre-restore" /\ job.first <= log[f][i].ts)
    BY <1>5, <2>2 DEF BatchExact, Own
  <2>5. job.first <= log'[f][NextLine(log[f])].ts
    <3>1. job.first \in Nat /\ log'[f][NextLine(log[f])].ts \in Nat /\ clock <= log'[f][NextLine(log[f])].ts
      BY <2>2, <2>3 DEF PlaceInv, TypeOK, Job, Extends, Revision
    <3> QED
      BY <1>1, <2>0, <3>1
  <2>6. {i \in DOMAIN log'[f] : /\ log'[f][i].label = "pre-restore"
                                /\ job.first <= log'[f][i].ts} = {NextLine(log[f])}
    BY <2>2, <2>3, <2>4, <2>5 DEF Extends
  <2>7. Own(pre', f) = {NextLine(log[f])}
    BY <2>3 DEF Own
  <2>8. \A g \in File \ {f} : Own(pre', g) = Own(pre, g)
    BY <2>3 DEF Own
  <2>9. ASSUME NEW g \in File
        PROVE  {i \in DOMAIN log'[g] : /\ log'[g][i].label = "pre-restore"
                                       /\ job'.first <= log'[g][i].ts} = Own(pre', g)
    <3>1. CASE g = f
      BY <2>1, <2>6, <2>7, <3>1
    <3>2. CASE g # f
      <4>1. {i \in DOMAIN log[g] : /\ log[g][i].label = "pre-restore"
                                   /\ job.first <= log[g][i].ts} = Own(pre, g)
        BY <1>5 DEF BatchExact
      <4> QED
        BY <2>1, <2>3, <2>8, <3>2, <4>1
    <3> QED
      BY <3>1, <3>2
  <2> QED
    BY <2>9 DEF BatchExact, Own, Of
<1>6. ASSUME NEW f \in File, Mark(f), job.kind = "restore-at" PROVE BatchExact'
  <2>1. /\ log' = [log EXCEPT ![f] = Put(log[f], "restore", target.hash, FALSE)]
        /\ job' = job /\ pre' = pre /\ pc = "mark"
    BY <1>6 DEF Mark
  <2>2. /\ Extends(Put(log[f], "restore", target.hash, FALSE), log[f])
        /\ Put(log[f], "restore", target.hash, FALSE)[NextLine(log[f])].label = "restore"
    <3>1. /\ IsLog(log[f]) /\ log[f] \in [DOMAIN log[f] -> Revision]
          /\ target.hash \in Content /\ "restore" \in Label
      BY <2>1 DEF PlaceInv, TypeOK, AtWork, Label
    <3> QED
      BY <1>1, <3>1, PutExtends
  <2>3. /\ log'[f] = Put(log[f], "restore", target.hash, FALSE)
        /\ \A g \in File \ {f} : log'[g] = log[g]
    BY <2>1 DEF PlaceInv, TypeOK
  <2>4. ASSUME NEW g \in File
        PROVE  {i \in DOMAIN log'[g] : /\ log'[g][i].label = "pre-restore"
                                       /\ job.first <= log'[g][i].ts}
               = {i \in DOMAIN log[g] : /\ log[g][i].label = "pre-restore"
                                        /\ job.first <= log[g][i].ts}
    <3>1. CASE g = f
      <4>1. /\ DOMAIN log'[g] = DOMAIN log[g] \cup {NextLine(log[g])}
            /\ log'[g][NextLine(log[g])].label = "restore"
            /\ \A i \in DOMAIN log[g] : log'[g][i] = log[g][i]
        BY <2>2, <2>3, <3>1 DEF Extends
      <4> QED
        BY <4>1
    <3>2. CASE g # f
      BY <2>3, <3>2
    <3> QED
      BY <3>1, <3>2
  <2>5. \A g \in File : Own(pre', g) = Own(pre, g)
    BY <2>1 DEF Own, Of
  <2> QED
    BY <1>6, <2>1, <2>4, <2>5 DEF BatchExact
<1>7. ASSUME NEW f \in File, Record(f) \/ Restore(f) PROVE job'.kind # "restore-at"
  BY <1>7 DEF Record, Restore, Call, LockFree, batchVars, PlaceInv
<1>8. ASSUME NEW o, UndoBegin(o) PROVE job'.kind # "restore-at"
  BY <1>8, Beginnings DEF Begin
<1>9. ASSUME BatchEnd \/ UndoEnd \/ Crash PROVE job'.kind # "restore-at"
  BY <1>9 DEF BatchEnd, UndoEnd, Crash, End, NoJob
<1>10. ASSUME NEW f \in File, BatchPick(f) \/ UndoPick(f) \/ Rewrite(f) \/ Edit(f)
       PROVE  UNCHANGED <<log, job, pre>>
  BY <1>10 DEF BatchPick, UndoPick, Rewrite, Edit, batchVars
<1>11. ASSUME Fail \/ UndoRead \/ Tick \/ \E o \in owed : SaveWindow(o) \/ Forget(o) \/ DropWindow(o)
       PROVE  UNCHANGED <<log, job, pre>>
  BY <1>11 DEF Fail, UndoRead, Tick, SaveWindow, Forget, DropWindow, batchVars
<1>12. ASSUME NEW f \in File, Safeguard(f) \/ Mark(f) PROVE job' = job
  BY <1>12 DEF Safeguard, Mark
<1> QED
  BY <1>2, <1>3, <1>4, <1>5, <1>6, <1>7, <1>8, <1>9, <1>10, <1>11, <1>12 DEF Step

\* What an undo works from stays as it is while it works.
LEMMA UndoLines ==
  ASSUME ~ClockMayStepBack, PlaceInv, UndoExact, Step, job.kind = "undo", job' = job
  PROVE  /\ job.last < clock'
         /\ AreSafeguards(job.pre, job.dir)'
         /\ \A f \in job.dir : Span(f, job.first, job.last)' = Own(job.pre, f)
         /\ \A f \in Of(job.pre) : log'[f][job.pre[f]] = log[f][job.pre[f]]
         /\ todo \subseteq File /\ restored \subseteq Of(job.pre) /\ restored \cap todo = {}
<1>1. /\ Grown /\ LogsOK' /\ clock <= clock' /\ clock \in Nat /\ clock' \in Nat /\ job.last < clock
      /\ job.first \in Nat /\ job.last \in Nat /\ job.dir \subseteq File
      /\ todo \subseteq File /\ restored \subseteq Of(job.pre) /\ restored \cap todo = {}
  BY LogStep, ClockStep DEF PlaceInv, TypeOK, Job, UndoExact
<1>2. \A f \in job.dir : Span(f, job.first, job.last)' = Own(job.pre, f)
  <2>1. \A f \in job.dir : Span(f, job.first, job.last)' = Span(f, job.first, job.last)
    BY <1>1, SpanIsOver DEF Span
  <2> QED
    BY <2>1 DEF UndoExact
<1>3. AreSafeguards(job.pre, job.dir)' /\ \A f \in Of(job.pre) : log'[f][job.pre[f]] = log[f][job.pre[f]]
  BY <1>1 DEF UndoExact, AreSafeguards, Grown, Of
<1> QED
  BY <1>1, <1>2, <1>3

\* An undo that begins takes the safeguards of its window, and all of them.
LEMMA UndoBeginsExact ==
  ASSUME PlaceInv, PlaceInv', SpanInv, WindowsExact, apart, NEW o \in owed, UndoBegin(o)
  PROVE  UndoExact'
<1> DEFINE w == o.window
<1>1. /\ w \in Window /\ w \in Windows /\ w.last < clock
      /\ AreSafeguards(w.pre, w.dir)
      /\ \A f \in w.dir : Span(f, w.first, w.last) = Own(w.pre, f)
  <2>1. TypeOK /\ o.op # "drop"
    BY DEF UndoBegin, PlaceInv
  <2>2. w \in Window /\ w \in Windows
    BY <2>1, DebtWindow
  <2> QED
    BY <2>2 DEF UndoBegin, Apart, SpanInv, WindowsExact
<1>2. /\ pc' = "pick" /\ restored' = {} /\ log' = log /\ disk' = disk /\ clock' = clock
      /\ job' = [NoJob EXCEPT !.kind = "undo", !.dir = w.dir, !.first = w.first,
                              !.last = w.last, !.pre = w.pre]
      /\ todo' = {f \in w.dir : HasLast(log[f])}
  BY DEF UndoBegin, Begin, NoJob
<1>3. job'.dir = w.dir /\ job'.first = w.first /\ job'.last = w.last /\ job'.pre = w.pre
  BY <1>2 DEF NoJob
<1> HIDE DEF w
<1>4. Of(w.pre) \subseteq todo'
  BY <1>1, <1>2 DEF AreSafeguards, HasLast
<1>5. /\ AreSafeguards(job.pre, job.dir)'
      /\ \A f \in w.dir : Span(f, w.first, w.last)' = Own(w.pre, f)
  BY <1>1, <1>2, <1>3 DEF AreSafeguards, Of, Span
<1> QED
  BY <1>1, <1>2, <1>3, <1>4, <1>5 DEF UndoExact, AtWork, Own, Of, Span

\* Every step of an undo leads to the safeguards of its window.
LEMMA UndoExactNext ==
  ASSUME ~ClockMayStepBack, PlaceInv, PlaceInv', SpanInv, WindowsExact, UndoExact, apart, Step
  PROVE  UndoExact'
<1> DEFINE Current(g) == /\ g \in Of(job.pre)
                         /\ target.hash = log[g][job.pre[g]].hash
           Done == \A g \in restored \ touched : disk[g] = log[g][job.pre[g]].hash
           Ready == AtWork => \A g \in File : IsCurrent(g) => Current(g)
           Written == pc = "mark" => \A g \in File : IsCurrent(g) /\ g \notin touched =>
                                                       disk[g] = target.hash
<1>1. CASE job'.kind # "undo"
  BY <1>1 DEF UndoExact
<1>2. ASSUME NEW o \in owed, UndoBegin(o) PROVE UndoExact'
  BY <1>2, UndoBeginsExact
<1>3. ASSUME job.kind = "undo", job' = job,
             (restored = Of(job.pre) \ todo)', Done', Ready', Written'
      PROVE  UndoExact'
  BY <1>3, UndoLines DEF UndoExact, Own, Of, Span
<1>4. ASSUME job.kind = "undo"
      PROVE  restored = Of(job.pre) \ todo /\ Done /\ Ready /\ Written
  BY <1>4 DEF UndoExact
<1>5. ASSUME job.kind = "undo", job' = job
      PROVE  \A g \in Of(job.pre) : log'[g][job.pre[g]] = log[g][job.pre[g]]
  BY <1>5, UndoLines
<1>6. ASSUME NEW f \in File, UndoPick(f) PROVE UndoExact'
  <2>1. /\ job.kind = "undo" /\ job' = job /\ pc = "pick" /\ IsCurrent(f) /\ f \in todo /\ f \in job.dir
        /\ UNCHANGED <<disk, touched, log, restored>>
        /\ \/ InWindow(log[f]) = {} /\ Skip(f)
           \/ \E i \in InWindow(log[f]) : RestoreTo(log[f][i])
    BY <1>6 DEF UndoPick, IsCurrent, worldVars, PlaceInv
  <2>2. InWindow(log[f]) = Own(job.pre, f)
    <3>1. InWindow(log[f]) = {i \in Span(f, job.first, job.last) :
                                \A j \in Span(f, job.first, job.last) : j <= i}
      BY DEF InWindow, Span
    <3>2. Span(f, job.first, job.last) = Own(job.pre, f)
      BY <2>1 DEF UndoExact
    <3>3. \A i \in Own(job.pre, f) : i \in Nat
      BY <2>1 DEF Own, PlaceInv, TypeOK, Job, LineMap
    <3> QED
      BY <3>1, <3>2, <3>3 DEF Own
  <2>3. CASE Skip(f) /\ Own(job.pre, f) = {}
    <3>1. f \notin Of(job.pre) /\ pc' = "pick" /\ todo' = todo \ {f}
      BY <2>1, <2>3 DEF Own, Skip
    <3> QED
      BY <1>3, <1>4, <2>1, <3>1 DEF AtWork, Of
  <2>4. CASE \E i \in Own(job.pre, f) : RestoreTo(log[f][i])
    <3>1. /\ f \in Of(job.pre) /\ pc' = "safeguard" /\ todo' = todo
          /\ target'.hash = log[f][job.pre[f]].hash
      BY <2>4 DEF Own, RestoreTo
    <3>2. \A g \in File : IsCurrent(g)' => g = f
      BY <2>1, <3>1, OneCurrent DEF IsCurrent, PlaceInv
    <3> QED
      BY <1>3, <1>4, <2>1, <3>1, <3>2 DEF Of
  <2> QED
    BY <2>1, <2>2, <2>3, <2>4
<1>7. ASSUME NEW f \in File, Safeguard(f), job.kind = "undo" PROVE UndoExact'
  <2>1. /\ job' = job /\ pc = "safeguard" /\ pc' = "rewrite"
        /\ UNCHANGED <<disk, touched, todo, target, restored>>
    BY <1>7 DEF Safeguard, worldVars
  <2>2. Ready'
    BY <1>4, <1>5, <1>7, <2>1 DEF AtWork, IsCurrent, Of
  <2>3. Done'
    BY <1>4, <1>5, <1>7, <2>1
  <2> QED
    BY <1>3, <1>4, <1>7, <2>1, <2>2, <2>3 DEF Of
<1>8. ASSUME NEW f \in File, Rewrite(f), job.kind = "undo" PROVE UndoExact'
  <2>1. /\ job' = job /\ pc = "rewrite" /\ pc' = "mark" /\ IsCurrent(f) /\ f \in todo
        /\ disk' = [disk EXCEPT ![f] = target.hash]
        /\ UNCHANGED <<touched, todo, target, restored, log>>
    BY <1>8 DEF Rewrite, IsCurrent, worldVars
  <2>2. disk'[f] = target.hash /\ \A g \in restored : g # f /\ disk'[g] = disk[g]
    BY <1>4, <1>8, <2>1 DEF PlaceInv, TypeOK
  <2>3. \A g \in File : IsCurrent(g)' => g = f
    BY <2>1, OneCurrent DEF IsCurrent, PlaceInv
  <2>4. Ready'
    BY <1>4, <1>8, <2>1 DEF AtWork, IsCurrent, Of
  <2>5. Done' /\ Written'
    BY <1>4, <1>8, <2>1, <2>2, <2>3
  <2> QED
    BY <1>3, <1>4, <1>8, <2>1, <2>4, <2>5 DEF Of
<1>9. ASSUME NEW f \in File, Mark(f), job.kind = "undo" PROVE UndoExact'
  <2>1. /\ job' = job /\ pc = "mark" /\ pc' = "pick" /\ IsCurrent(f)
        /\ restored' = restored \cup {f} /\ todo' = todo \ {f}
        /\ UNCHANGED <<disk, touched>>
    BY <1>9 DEF Mark, worldVars
  <2>2. f \in Of(job.pre) /\ (f \notin touched => disk[f] = log[f][job.pre[f]].hash)
    BY <1>4, <1>9, <2>1 DEF AtWork
  <2>3. Done'
    BY <1>4, <1>5, <1>9, <2>1, <2>2
  <2>4. (restored = Of(job.pre) \ todo)'
    BY <1>4, <1>9, <2>1, <2>2 DEF Of
  <2> QED
    BY <1>3, <1>9, <2>1, <2>3, <2>4 DEF AtWork
<1>10. ASSUME NEW f \in File, Edit(f), job.kind = "undo" PROVE UndoExact'
  <2>1. /\ job' = job /\ touched' = touched \cup {f} /\ \A g \in File \ {f} : disk'[g] = disk[g]
        /\ UNCHANGED <<pc, todo, target, restored, log>>
    BY <1>10 DEF Edit, batchVars, LockFree, PlaceInv, TypeOK
  <2>2. Ready'
    BY <1>4, <1>10, <2>1 DEF AtWork, IsCurrent, Of
  <2>3. Done' /\ Written'
    <3>1. restored \subseteq File
      BY DEF PlaceInv, TypeOK
    <3> QED
      BY <1>4, <1>10, <2>1, <3>1 DEF IsCurrent
  <2> QED
    BY <1>3, <1>4, <1>10, <2>1, <2>2, <2>3 DEF Of
<1>11. ASSUME Fail \/ UndoRead \/ Tick \/ \E o \in owed : SaveWindow(o) \/ Forget(o) \/ DropWindow(o),
              job.kind = "undo"
       PROVE  UndoExact'
  <2>1. /\ UNCHANGED <<job, disk, touched, todo, target, restored, log>>
        /\ pc' = pc \/ pc' = "failed"
    BY <1>11 DEF Fail, UndoRead, Tick, SaveWindow, Forget, DropWindow, worldVars, batchVars
  <2>2. Ready' /\ Written'
    BY <1>4, <1>11, <2>1 DEF AtWork, IsCurrent, Of
  <2>3. Done' /\ (restored = Of(job.pre) \ todo)'
    BY <1>4, <1>11, <2>1 DEF Of
  <2> QED
    BY <1>3, <1>11, <2>1, <2>2, <2>3
<1>12. ASSUME NEW f \in File, Record(f) \/ Restore(f) PROVE job'.kind # "undo"
  BY <1>12 DEF Record, Restore, Call, LockFree, batchVars, PlaceInv
<1>13. ASSUME NEW front, NEW dir, NEW at, BatchBegin(front, dir, at) PROVE job'.kind # "undo"
  BY <1>13, Beginnings DEF Begin
<1>14. ASSUME BatchEnd \/ UndoEnd \/ Crash PROVE job'.kind # "undo"
  BY <1>14 DEF BatchEnd, UndoEnd, Crash, End, NoJob
<1>15. ASSUME NEW f \in File, BatchPick(f) PROVE job'.kind # "undo"
  BY <1>15 DEF BatchPick
<1>16. ASSUME NEW f \in File, Safeguard(f) \/ Rewrite(f) \/ Mark(f) \/ Edit(f) PROVE job' = job
  BY <1>16 DEF Safeguard, Rewrite, Mark, Edit, batchVars
<1>17. ASSUME Fail \/ UndoRead \/ Tick \/ \E o \in owed : SaveWindow(o) \/ Forget(o) \/ DropWindow(o)
       PROVE  job' = job
  BY <1>17 DEF Fail, UndoRead, Tick, SaveWindow, Forget, DropWindow, batchVars
<1> HIDE DEF Done, Ready, Written
<1> QED
  BY <1>1, <1>2, <1>6, <1>7, <1>8, <1>9, <1>10, <1>11, <1>12, <1>13, <1>14, <1>15, <1>16, <1>17 DEF Step

\* No window, no batch and no undo to begin with.
LEMMA ExactInit == ASSUME Init PROVE ExactInv
BY DEF Init, ExactInv, WindowsExact, BatchExact, UndoExact, Windows, NoJob

\* Exactness, as an invariant.
LEMMA ExactKept == ASSUME ~ClockMayStepBack PROVE Spec => []ExactInv
<1>1. PlaceInv /\ PlaceInv' /\ SpanInv /\ ExactInv /\ [Next]_vars => ExactInv'
  <2> SUFFICES ASSUME PlaceInv, PlaceInv', SpanInv, ExactInv, [Next]_vars, apart'
               PROVE  (WindowsExact /\ BatchExact /\ UndoExact)'
    BY DEF ExactInv
  <2>1. CASE Next
    <3>1. Step /\ apart /\ WindowsExact /\ BatchExact /\ UndoExact
      BY <2>1 DEF Next, ExactInv
    <3>2. BatchSpan
      BY DEF SpanInv
    <3> QED
      BY <3>1, <3>2, WindowsExactNext, BatchExactNext, UndoExactNext
  <2>2. CASE UNCHANGED vars
    <3>1. WindowsExact /\ BatchExact /\ UndoExact
      BY <2>2 DEF vars, ExactInv
    <3>2. WindowsExact'
      BY <2>2, <3>1 DEF vars, WindowsExact, Windows, Span, Own, Of
    <3>3. BatchExact'
      BY <2>2, <3>1 DEF vars, BatchExact, Own, Of
    <3>4. UndoExact'
      BY <2>2, <3>1 DEF vars, UndoExact, AreSafeguards, Span, Own, Of, AtWork, IsCurrent
    <3> QED
      BY <3>2, <3>3, <3>4
  <2> QED
    BY <2>1, <2>2
<1>2. Init => ExactInv
  BY ExactInit
<1> QED
  BY <1>1, <1>2, PlaceKept, SpanKept, PTL DEF Spec

\* When calls are apart and the clock is not set back, an undo that went well
\* has reverted the files of its window that the batch took a safeguard of, and
\* no others, each to that safeguard (UndoRestoreAt).
THEOREM UndosAreExact == ASSUME ~ClockMayStepBack PROVE Spec => []UndoIsExact
<1>1. ExactInv => UndoIsExact
  BY DEF ExactInv, UndoExact, UndoIsExact, Worked
<1> QED
  BY <1>1, ExactKept, PTL
-----------------------------------------------------------------------------
(* The text of a log (LogFile): columns, lines, and what a cut leaves.     *)

Value == Nat \cup Hash \cup LogText!Label \cup {"", "garbage"}
Pieces == [kind : LogText!Column, v : Value]
Columns == Seq(Pieces)
Lines == Seq(Columns)

\* A line begins with a timestamp or with what cuts left of one; a line that
\* went no further has no whole one.
IsLine(l) ==
  /\ l \in Lines /\ l # <<>> /\ \A c \in DOMAIN l : l[c] # <<>>
  /\ \A j \in DOMAIN l[1] : \/ l[1][j].kind = "ts" /\ l[1][j].v \in Nat \ {0}
                            \/ l[1][j].kind = "frag" /\ l[1][j].v \in Nat
  /\ Len(l) = 1 => \A j \in DOMAIN l[1] : l[1][j].kind = "frag"

\* What one append writes: its timestamp, or what is left of it, and on.
Writes(cols, ts) ==
  /\ IsLine(cols) /\ Len(cols[1]) = 1
  /\ cols[1][1].kind = "ts" => cols[1][1].v = ts

LineRead == [ts : Nat \ {0}, hash : Value, label : Value]

\* What a line is made of.
LEMMA ColumnsOfLine ==
  ASSUME NEW l \in Lines
  PROVE  Len(l) \in Nat /\ DOMAIN l = 1 .. Len(l) /\ \A c \in DOMAIN l : l[c] \in Columns
  BY DEF Lines

\* Four columns of one piece each.
LEMMA FourColumns ==
  ASSUME NEW a \in Pieces, NEW b \in Pieces, NEW c \in Pieces, NEW d \in Pieces,
         NEW l, l = << <<a>>, <<b>>, <<c>>, <<d>> >>
  PROVE  l \in Lines /\ Len(l) = 4 /\ DOMAIN l = 1 .. 4 /\ \A k \in 1 .. 4 : Len(l[k]) = 1
<1>1. <<a>> \in Columns /\ <<b>> \in Columns /\ <<c>> \in Columns /\ <<d>> \in Columns
  BY DEF Columns
<1>2. Len(<<a>>) = 1 /\ Len(<<b>>) = 1 /\ Len(<<c>>) = 1 /\ Len(<<d>>) = 1
  OBVIOUS
<1> QED
  BY <1>1, <1>2 DEF Lines

\* A line is read as it was formatted (formatLine, parseLine).
LEMMA ReadsWhatIsWritten ==
  ASSUME NEW r \in LineRead
  PROVE  LET l == LogText!FormatLine(r)
         IN /\ Writes(l, r.ts) /\ Len(l) = 4 /\ \A k \in 1 .. 4 : Len(l[k]) = 1
            /\ LogText!ParseLine(l) = r /\ LogText!TimestampOf(l[1]) = r.ts
<1> DEFINE a == LogText!Piece("ts", r.ts)
           b == LogText!Piece("hash", r.hash)
           c == LogText!Piece("label", r.label)
           d == LogText!Piece("signal", "")
           l == LogText!FormatLine(r)
<1>1. l = << <<a>>, <<b>>, <<c>>, <<d>> >>
  BY DEF LogText!FormatLine
<1>2. /\ a \in Pieces /\ a.kind = "ts" /\ a.v = r.ts
      /\ b \in Pieces /\ b.kind = "hash" /\ b.v = r.hash
      /\ c \in Pieces /\ c.kind = "label" /\ c.v = r.label
      /\ d \in Pieces
  BY DEF LogText!Piece, Pieces, LogText!Column, Value, LineRead
<1>3. r.ts \in Nat \ {0} /\ r = [ts |-> r.ts, hash |-> r.hash, label |-> r.label]
  BY DEF LineRead
<1> HIDE DEF a, b, c, d, l
<1>4. l \in Lines /\ Len(l) = 4 /\ DOMAIN l = 1 .. 4 /\ \A k \in 1 .. 4 : Len(l[k]) = 1
  BY <1>1, <1>2, FourColumns
<1>5. l[1] = <<a>> /\ l[2] = <<b>> /\ l[3] = <<c>> /\ l[4] = <<d>>
  BY <1>1
<1>6. l # <<>> /\ \A k \in DOMAIN l : l[k] # <<>>
  BY <1>4
<1>7. Writes(l, r.ts)
  BY <1>2, <1>3, <1>4, <1>5, <1>6 DEF IsLine, Writes
<1>8. LogText!TimestampOf(l[1]) = r.ts
  BY <1>2, <1>4, <1>5 DEF LogText!TimestampOf
<1>9. LogText!HashOf(l[2]) = r.hash /\ LogText!LabelOf(l[3]) = r.label
  BY <1>2, <1>5 DEF LogText!HashOf, LogText!LabelOf
<1>10. LogText!ParseLine(l) = r
  BY <1>3, <1>8, <1>9 DEF LogText!ParseLine
<1> QED
  BY <1>4, <1>7, <1>8, <1>10 DEF l

\* A cut in column k leaves the columns before it as they were written.
LEMMA CutLeaves ==
  ASSUME NEW r \in LineRead, NEW k \in 1 .. 4, NEW cols \in LogText!CutAt(r, k)
  PROVE  /\ Writes(cols, r.ts) /\ Len(cols) = k
         /\ k = 4 => LogText!ParseLine(cols) = r /\ LogText!TimestampOf(cols[1]) = r.ts
<1> DEFINE l == LogText!FormatLine(r)
<1>1. PICK p : /\ cols = Append(SubSeq(l, 1, k - 1), <<p>>)
               /\ k = 1 => \E d \in ShortCut : p = LogText!Frag(d)
               /\ k # 1 => p = LogText!Frag("") \/ p = l[k][1]
  BY DEF LogText!CutAt
<1>2. /\ Writes(l, r.ts) /\ Len(l) = 4 /\ \A c \in 1 .. 4 : Len(l[c]) = 1
      /\ LogText!ParseLine(l) = r /\ LogText!TimestampOf(l[1]) = r.ts
  BY ReadsWhatIsWritten
<1> HIDE DEF l
<1>3. l \in Lines /\ DOMAIN l = 1 .. 4 /\ \A c \in 1 .. 4 : l[c] \in Columns
  <2>1. l \in Lines
    BY <1>2 DEF Writes, IsLine
  <2> QED
    BY <1>2, <2>1, ColumnsOfLine
<1>4. p \in Pieces /\ (k = 1 => p.kind = "frag" /\ p.v \in Nat)
  <2>1. ShortCut \subseteq Nat
    BY LogAssumption DEF LogText!LogFileAssumption, LogText!Digits
  <2>2. CASE k = 1
    <3>1. PICK d \in ShortCut : p = LogText!Frag(d)
      BY <1>1, <2>2
    <3> QED
      BY <2>1, <3>1 DEF LogText!Frag, LogText!Piece, Pieces, LogText!Column, Value
  <2>3. CASE k # 1
    <3>1. l[k][1] \in Pieces
      BY <1>2, <1>3 DEF Columns
    <3>2. LogText!Frag("") \in Pieces
      BY DEF LogText!Frag, LogText!Piece, Pieces, LogText!Column, Value
    <3> QED
      BY <1>1, <2>3, <3>1, <3>2
  <2> QED
    BY <2>2, <2>3
<1>5. /\ cols \in Lines /\ Len(cols) = k /\ cols[k] = <<p>>
      /\ \A c \in 1 .. k - 1 : cols[c] = l[c]
  <2> DEFINE s == SubSeq(l, 1, k - 1)
  <2>1. s \in Lines /\ Len(s) = k - 1 /\ \A c \in 1 .. k - 1 : s[c] = l[c]
    BY <1>2, <1>3 DEF Lines
  <2>2. <<p>> \in Columns
    BY <1>4 DEF Columns
  <2>3. cols = Append(s, <<p>>)
    BY <1>1
  <2> HIDE DEF s
  <2> QED
    BY <2>1, <2>2, <2>3 DEF Lines
<1>6. \A c \in DOMAIN cols : Len(cols[c]) = 1 /\ cols[c] # <<>>
  <2> TAKE c \in DOMAIN cols
  <2>1. c \in 1 .. k
    BY <1>5, ColumnsOfLine
  <2>2. CASE c = k
    <3>1. cols[c] = <<p>>
      BY <1>5, <2>2
    <3> QED
      BY <3>1
  <2>3. CASE c # k
    <3>1. c \in 1 .. k - 1 /\ c \in 1 .. 4
      BY <2>1, <2>3
    <3>2. cols[c] = l[c] /\ Len(l[c]) = 1
      BY <1>2, <1>5, <3>1
    <3> QED
      BY <3>2
  <2> QED
    BY <2>2, <2>3
<1>7. 1 \in DOMAIN cols /\ DOMAIN cols[1] = {1} /\ cols # <<>> /\ Len(cols[1]) = 1
  <2>1. DOMAIN cols = 1 .. k /\ 1 \in DOMAIN cols /\ cols[1] \in Columns
    BY <1>5, ColumnsOfLine
  <2>2. Len(cols[1]) = 1
    BY <1>6, <2>1
  <2> QED
    BY <1>5, <2>1, <2>2 DEF Columns
<1>8. CASE k = 1
  BY <1>4, <1>5, <1>6, <1>7, <1>8 DEF IsLine, Writes
<1>9. CASE k # 1
  <2>1. cols[1] = l[1]
    BY <1>5, <1>9
  <2>2. Writes(cols, r.ts)
    BY <1>2, <1>5, <1>6, <1>7, <1>9, <2>1 DEF IsLine, Writes
  <2>3. k = 4 => cols[2] = l[2] /\ cols[3] = l[3]
    BY <1>5
  <2> QED
    BY <1>2, <1>5, <2>1, <2>2, <2>3 DEF LogText!ParseLine
<1> QED
  BY <1>8, <1>9

\* Sequences put together.
LEMMA JoinTwo ==
  ASSUME NEW S, NEW x \in Seq(S), NEW y \in Seq(S)
  PROVE  /\ x \o y \in Seq(S) /\ Len(x \o y) = Len(x) + Len(y)
         /\ x # <<>> => x \o y # <<>>
         /\ \A j \in 1 .. Len(x) + Len(y) : (x \o y)[j] = IF j <= Len(x) THEN x[j] ELSE y[j - Len(x)]
  OBVIOUS

LEMMA JoinThree ==
  ASSUME NEW S, NEW x \in Seq(S), NEW z \in S, NEW y \in Seq(S)
  PROVE  LET m == x \o <<z>> \o y
         IN /\ m \in Seq(S) /\ Len(m) = Len(x) + Len(y) + 1 /\ DOMAIN m = 1 .. Len(m)
            /\ \A c \in 1 .. Len(x) : m[c] = x[c]
            /\ m[Len(x) + 1] = z
            /\ \A c \in 1 .. Len(y) : m[Len(x) + 1 + c] = y[c]
  OBVIOUS

\* What goes on in an open line changes none of its columns but the last.
LEMMA ContinuedLine ==
  ASSUME NEW l, IsLine(l), NEW cols, IsLine(cols)
  PROVE  LET m == LogText!Continued(l, cols)
         IN /\ IsLine(m) /\ Len(m) = Len(l) + Len(cols) - 1
            /\ \A c \in 1 .. Len(l) - 1 : m[c] = l[c]
            /\ Len(l) = 1 => m[1] = l[1] \o cols[1]
<1> DEFINE front == LogText!Front(l)
           joined == LogText!Last(l) \o Head(cols)
           rest == Tail(cols)
           m == LogText!Continued(l, cols)
<1>1. /\ l \in Lines /\ l # <<>> /\ Len(l) \in Nat \ {0} /\ DOMAIN l = 1 .. Len(l)
      /\ cols \in Lines /\ cols # <<>> /\ Len(cols) \in Nat \ {0} /\ DOMAIN cols = 1 .. Len(cols)
  BY DEF IsLine, Lines
<1>2. /\ l[Len(l)] \in Columns /\ Len(l[Len(l)]) \in Nat \ {0}
      /\ l[1] \in Columns /\ Len(l[1]) \in Nat \ {0}
      /\ cols[1] \in Columns /\ Len(cols[1]) \in Nat \ {0}
  <2>1. \A s \in Columns : s # <<>> => Len(s) \in Nat \ {0}
    BY DEF Columns
  <2>2. Len(l) \in DOMAIN l /\ 1 \in DOMAIN l /\ 1 \in DOMAIN cols
    BY <1>1
  <2> QED
    BY <1>1, <2>1, <2>2, ColumnsOfLine DEF IsLine
<1>3. front \in Lines /\ Len(front) = Len(l) - 1 /\ \A c \in 1 .. Len(l) - 1 : front[c] = l[c]
  BY <1>1 DEF LogText!Front, Lines
<1>4. joined = l[Len(l)] \o cols[1] /\ joined \in Columns /\ joined # <<>>
  <2>1. joined = l[Len(l)] \o cols[1]
    <3>1. LogText!Last(l) = l[Len(l)]
      BY DEF LogText!Last
    <3>2. Head(cols) = cols[1]
      BY <1>1 DEF Lines
    <3> QED
      BY <3>1, <3>2
  <2> DEFINE x == l[Len(l)]  y == cols[1]
  <2>2. x \in Seq(Pieces) /\ y \in Seq(Pieces)
    BY <1>2 DEF Columns
  <2>3. x # <<>>
    BY <1>1 DEF IsLine
  <2> HIDE DEF x, y, joined
  <2>4. x \o y \in Seq(Pieces) /\ x \o y # <<>>
    BY <2>2, <2>3, JoinTwo
  <2> QED
    BY <2>1, <2>4 DEF Columns, x, y
<1>5. /\ rest \in Lines /\ Len(rest) = Len(cols) - 1
      /\ \A c \in 1 .. Len(cols) - 1 : rest[c] = cols[c + 1]
  BY <1>1 DEF Lines
<1>6. m = front \o <<joined>> \o rest
  BY DEF LogText!Continued
<1> HIDE DEF front, joined, rest, m
<1>7. /\ m \in Lines /\ Len(m) = Len(l) + Len(cols) - 1
      /\ \A c \in 1 .. Len(l) - 1 : m[c] = front[c]
      /\ m[Len(l)] = joined
      /\ \A c \in 1 .. Len(cols) - 1 : m[Len(l) + c] = rest[c]
  <2>1. /\ m \in Seq(Columns) /\ Len(m) = Len(front) + Len(rest) + 1
        /\ \A c \in 1 .. Len(front) : m[c] = front[c]
        /\ m[Len(front) + 1] = joined
        /\ \A c \in 1 .. Len(rest) : m[Len(front) + 1 + c] = rest[c]
    <3>1. front \in Seq(Columns) /\ rest \in Seq(Columns) /\ joined \in Columns
      BY <1>3, <1>4, <1>5 DEF Lines
    <3> QED
      BY <1>6, <3>1, JoinThree
  <2>2. Len(front) + 1 = Len(l)
    BY <1>1, <1>3
  <2> QED
    BY <1>1, <1>3, <1>5, <2>1, <2>2 DEF Lines
<1>8. m # <<>> /\ DOMAIN m = 1 .. Len(m) /\ Len(m) \in Nat \ {0}
  BY <1>1, <1>7 DEF Lines
<1>9. \A c \in DOMAIN m : m[c] # <<>>
  <2> TAKE c \in DOMAIN m
  <2>1. CASE c < Len(l)
    <3>1. c \in 1 .. Len(l) - 1 /\ c \in DOMAIN l
      BY <1>1, <1>8, <2>1
    <3>2. m[c] = l[c] /\ l[c] # <<>>
      BY <1>3, <1>7, <3>1 DEF IsLine
    <3> QED
      BY <3>2
  <2>2. CASE c = Len(l)
    BY <1>4, <1>7, <2>2
  <2>3. CASE c > Len(l)
    <3>1. c - Len(l) \in 1 .. Len(cols) - 1 /\ c = Len(l) + (c - Len(l)) /\ c - Len(l) + 1 \in DOMAIN cols
      BY <1>1, <1>7, <1>8, <2>3
    <3>2. m[c] = cols[c - Len(l) + 1]
      BY <1>5, <1>7, <3>1
    <3>3. cols[c - Len(l) + 1] # <<>>
      BY <3>1 DEF IsLine
    <3> QED
      BY <3>2, <3>3
  <2> QED
    BY <1>1, <1>8, <2>1, <2>2, <2>3
<1>10. CASE Len(l) = 1
  <2>1. m[1] = l[1] \o cols[1]
    BY <1>4, <1>7, <1>10
  <2> DEFINE x == l[1] y == cols[1] z == m[1]
  <2>2. x \in Seq(Pieces) /\ y \in Seq(Pieces) /\ z = x \o y
    BY <1>2, <2>1 DEF Columns
  <2> HIDE DEF x, y, z
  <2>3. ASSUME NEW j \in DOMAIN z
        PROVE  (j \in DOMAIN x /\ z[j] = x[j]) \/ (\E i \in DOMAIN y : z[j] = y[i])
    <3>1. z \in Seq(Pieces) /\ Len(z) = Len(x) + Len(y)
      BY <2>2, JoinTwo
    <3>2. j \in 1 .. Len(x) + Len(y) /\ z[j] = IF j <= Len(x) THEN x[j] ELSE y[j - Len(x)]
      BY <2>2, <3>1, JoinTwo
    <3>3. Len(x) \in Nat /\ Len(y) \in Nat /\ DOMAIN x = 1 .. Len(x) /\ DOMAIN y = 1 .. Len(y)
      BY <2>2
    <3>4. j <= Len(x) => j \in DOMAIN x
      BY <3>2, <3>3
    <3>5. ~(j <= Len(x)) => j - Len(x) \in DOMAIN y
      BY <3>2, <3>3
    <3> QED
      BY <3>2, <3>4, <3>5
  <2>4. \A j \in DOMAIN m[1] : (j \in DOMAIN l[1] /\ m[1][j] = l[1][j])
                              \/ (\E i \in DOMAIN cols[1] : m[1][j] = cols[1][i])
    BY <2>3 DEF x, y, z
  <2>5. IsLine(m)
    BY <1>1, <1>7, <1>8, <1>9, <1>10, <2>4 DEF IsLine
  <2> QED
    BY <1>1, <1>7, <1>10, <2>1, <2>5 DEF m
<1>11. CASE Len(l) # 1
  <2>1. m[1] = l[1] /\ Len(m) # 1 /\ \A c \in 1 .. Len(l) - 1 : m[c] = l[c]
    BY <1>1, <1>3, <1>7, <1>11
  <2>2. IsLine(m)
    BY <1>7, <1>8, <1>9, <2>1 DEF IsLine
  <2> QED
    BY <1>7, <1>11, <2>1, <2>2 DEF m
<1> QED
  BY <1>10, <1>11
\* The timestamp of a line, and whether a line is the last of the file.
TimeOf(i) == LogText!TimestampOf(lines[i][1])
IsTop(i) == \A j \in DOMAIN lines : j <= i

\* Lines have the numbers of their appends; only the last of a file that lacks
\* its newline is short.
LinesShaped ==
  /\ now \in Nat \ {0} /\ appends \in Nat /\ cuts \in Nat /\ torn \in Nat
  /\ DOMAIN lines \subseteq 1 .. appends + cuts
  /\ lines = [i \in DOMAIN lines |-> lines[i]]
  /\ \A i \in DOMAIN lines : IsLine(lines[i])
  /\ \A i \in DOMAIN lines : Len(lines[i]) >= 4 \/ (open /\ IsTop(i))
  /\ open => DOMAIN lines # {}
  /\ open <=> torn # 0

\* Times increase over all lines that begin with one, those of two columns,
\* which are not read yet, included.
TimesOrdered ==
  \A i, j \in DOMAIN lines : i < j /\ TimeOf(i) # 0 /\ TimeOf(j) # 0 => TimeOf(i) < TimeOf(j)

\* A line of four columns, that reads as the revision.
Holds(i, r) == Len(lines[i]) >= 4 /\ TimeOf(i) # 0 /\ LogText!ParseLine(lines[i]) = r

WholeHeld ==
  /\ objects \subseteq Hash
  /\ whole \subseteq LineRead
  /\ \A r \in whole : r.hash \in objects /\ \E i \in DOMAIN lines : Holds(i, r)

FileInv == LinesShaped /\ TimesOrdered /\ WholeHeld

\* The maximum of some numbers is the one that is no less than any.
LEMMA LastNumber ==
  ASSUME NEW K \in SUBSET Nat, NEW k \in K, \A j \in K : j <= k
  PROVE  LogText!Max(K) = k
<1>1. \A x \in K : (\A j \in K : x >= j) <=> x = k
  OBVIOUS
<1> QED
  BY <1>1 DEF LogText!Max

\* Among some line numbers there is a last one, and the maximum is it.
LEMMA MaxIsTop ==
  ASSUME NEW n \in Nat, NEW K \in SUBSET (1 .. n), K # {}
  PROVE  LogText!Max(K) \in K /\ \A j \in K : j <= LogText!Max(K)
<1> DEFINE U == {m \in Nat : \A j \in K : j <= m}
<1>1. n \in U
  OBVIOUS
<1>2. \E m \in U : \A u \in U : ~ (<<u, m>> \in OpToRel(<, Nat))
  <2>1. U # {} /\ U \in SUBSET Nat
    BY <1>1
  <2> HIDE DEF U
  <2> QED
    BY <2>1, NatLessThanWellFounded, WFMin
<1>3. PICK m \in U : \A u \in U : ~ (u < m)
  BY <1>2 DEF OpToRel
<1>4. m \in K
  <2> SUFFICES ASSUME m \notin K PROVE FALSE
    OBVIOUS
  <2>1. \A j \in K : j \in Nat /\ 1 <= j /\ j <= m /\ j # m
    OBVIOUS
  <2>2. m \in Nat /\ m # 0
    <3>1. PICK j \in K : j \in Nat /\ 1 <= j /\ j <= m
      BY <2>1
    <3> QED
      BY <1>3, <3>1
  <2>3. m - 1 \in U
    BY <2>1, <2>2
  <2> QED
    BY <1>3, <2>2, <2>3
<1>5. \A j \in K : j <= m
  OBVIOUS
<1> QED
  BY <1>4, <1>5, LastNumber

\* A timestamp read is a number; what stands in front of one makes it larger.
LEMMA TimeIsNumber ==
  ASSUME NEW l, IsLine(l)
  PROVE  LogText!TimestampOf(l[1]) \in Nat
<1>1. l[1] \in Columns /\ 1 \in DOMAIN l
  <2>1. l \in Lines /\ l # <<>>
    BY DEF IsLine
  <2>2. 1 \in DOMAIN l
    BY <2>1 DEF Lines
  <2> QED
    BY <2>1, <2>2, ColumnsOfLine
<1>2. Far \in Nat
  BY LogAssumption DEF LogText!LogFileAssumption
<1>3. DOMAIN l[1] = 1 .. Len(l[1])
  BY <1>1 DEF Columns
<1>4. Len(l[1]) = 1 /\ l[1][1].kind = "ts" => l[1][1].v \in Nat
  BY <1>3 DEF IsLine
<1>5. Len(l[1]) = 2 /\ l[1][1].kind = "frag" /\ l[1][2].kind = "ts" =>
        l[1][1].v \in Nat /\ l[1][2].v \in Nat
  BY <1>3 DEF IsLine
<1> DEFINE d == l[1][1].v  t == l[1][2].v
<1>6. ASSUME d \in Nat, t \in Nat PROVE Far * d + t \in Nat
  BY <1>2, <1>6
<1> QED
  BY <1>4, <1>5, <1>6 DEF LogText!TimestampOf

\* What is read of the file.
LEMMA RevsRead ==
  ASSUME LinesShaped
  PROVE  /\ DOMAIN LogText!Revs = {i \in DOMAIN lines : Len(lines[i]) >= 3 /\ TimeOf(i) # 0}
         /\ \A i \in DOMAIN LogText!Revs :
              /\ LogText!Revs[i] = LogText!ParseLine(lines[i])
              /\ LogText!Revs[i] \in LineRead
              /\ LogText!Revs[i].ts = TimeOf(i)
<1>1. /\ DOMAIN LogText!Revs = {i \in DOMAIN lines : Len(lines[i]) >= 3 /\ TimeOf(i) # 0}
      /\ \A i \in DOMAIN LogText!Revs : LogText!Revs[i] = LogText!ParseLine(lines[i])
  BY DEF LogText!Revs, LogText!ReadLog, LogText!Parses, TimeOf
<1>2. ASSUME NEW i \in DOMAIN LogText!Revs
      PROVE  LogText!ParseLine(lines[i]) \in LineRead /\ LogText!ParseLine(lines[i]).ts = TimeOf(i)
  <2> DEFINE l == lines[i]
  <2>1. IsLine(l) /\ Len(l) >= 3 /\ LogText!TimestampOf(l[1]) # 0
    BY <1>1 DEF LinesShaped, TimeOf
  <2>2. LogText!TimestampOf(l[1]) \in Nat \ {0}
    BY <2>1, TimeIsNumber
  <2>3. l[2] \in Columns /\ l[3] \in Columns
    <3>1. l \in Lines
      BY <2>1 DEF IsLine
    <3>2. 2 \in DOMAIN l /\ 3 \in DOMAIN l
      BY <2>1, <3>1, ColumnsOfLine
    <3> QED
      BY <3>1, <3>2, ColumnsOfLine
  <2>4. \A c \in Columns : Len(c) = 1 => c[1].v \in Value
    <3>1. \A c \in Columns : Len(c) = 1 => c[1] \in Pieces
      BY DEF Columns
    <3> QED
      BY <3>1 DEF Pieces
  <2>5. LogText!HashOf(l[2]) \in Value /\ LogText!LabelOf(l[3]) \in Value
    BY <2>3, <2>4 DEF LogText!HashOf, LogText!LabelOf, Value
  <2> HIDE DEF l
  <2>6. LogText!ParseLine(l) \in LineRead /\ LogText!ParseLine(l).ts = LogText!TimestampOf(l[1])
    BY <2>2, <2>5 DEF LogText!ParseLine, LineRead
  <2> QED
    BY <2>6 DEF l, TimeOf
<1> QED
  BY <1>1, <1>2

\* The last revision is the latest.
LEMMA LastIsLatest ==
  ASSUME LinesShaped, TimesOrdered, LogText!HasLast
  PROVE  /\ LogText!Max(DOMAIN LogText!Revs) \in DOMAIN LogText!Revs
         /\ \A i \in DOMAIN LogText!Revs : LogText!Revs[i].ts <= LogText!LastRevision.ts
<1> DEFINE K == DOMAIN LogText!Revs
           m == LogText!Max(K)
<1>1. K \subseteq DOMAIN lines /\ K # {}
  BY RevsRead DEF LogText!HasLast
<1>2. K \in SUBSET (1 .. appends + cuts) /\ appends + cuts \in Nat
  BY <1>1 DEF LinesShaped
<1>3. m \in K /\ \A i \in K : i <= m
  <2> HIDE DEF K
  <2> QED
    BY <1>1, <1>2, MaxIsTop
<1>4. ASSUME NEW i \in K PROVE LogText!Revs[i].ts <= LogText!Revs[m].ts
  <2>1. /\ LogText!Revs[i].ts = TimeOf(i) /\ LogText!Revs[m].ts = TimeOf(m)
        /\ TimeOf(i) # 0 /\ TimeOf(m) # 0
        /\ TimeOf(i) \in Nat /\ TimeOf(m) \in Nat
    BY <1>3, <1>4, RevsRead DEF LineRead
  <2>2. i \in DOMAIN lines /\ m \in DOMAIN lines /\ i \in Nat /\ m \in Nat /\ i <= m
    BY <1>1, <1>2, <1>3, <1>4
  <2> HIDE DEF m, K
  <2>3. i < m => TimeOf(i) < TimeOf(m)
    BY <2>1, <2>2 DEF TimesOrdered
  <2> QED
    BY <2>1, <2>2, <2>3
<1> QED
  BY <1>3, <1>4 DEF LogText!LastRevision

\* An append is later than all that is read (nextTimestamp).
LEMMA AppendsAreLater ==
  ASSUME LinesShaped, TimesOrdered
  PROVE  /\ LogText!NextTimestamp \in Nat \ {0}
         /\ \A i \in DOMAIN LogText!Revs : LogText!Revs[i].ts < LogText!NextTimestamp
<1> DEFINE T == LogText!LastRevision.ts
<1>1. now \in Nat \ {0}
  BY DEF LinesShaped
<1>2. \A i \in DOMAIN LogText!Revs : LogText!Revs[i].ts \in Nat \ {0}
  BY RevsRead DEF LineRead
<1>3. CASE ~LogText!HasLast
  BY <1>1, <1>3 DEF LogText!NextTimestamp, LogText!HasLast
<1>4. CASE LogText!HasLast
  <2>1. T \in Nat \ {0} /\ \A i \in DOMAIN LogText!Revs : LogText!Revs[i].ts <= T
    BY <1>2, <1>4, LastIsLatest DEF LogText!LastRevision
  <2>2. LogText!NextTimestamp = IF now <= T THEN T + 1 ELSE now
    BY <1>4 DEF LogText!NextTimestamp
  <2> HIDE DEF T
  <2>3. LogText!NextTimestamp \in Nat \ {0} /\ T < LogText!NextTimestamp
    BY <1>1, <2>1, <2>2
  <2> QED
    BY <1>2, <2>1, <2>3
<1> QED
  BY <1>3, <1>4

\* What goes on in an open line: the time of the line stays, or it had none and
\* has one no earlier than what is written.
LEMMA ContinuedTime ==
  ASSUME NEW l, IsLine(l), NEW ts \in Nat \ {0}, NEW cols, Writes(cols, ts)
  PROVE  LET m == LogText!Continued(l, cols)
             t == LogText!TimestampOf(m[1])
         IN t = LogText!TimestampOf(l[1]) \/ t = 0 \/ t >= ts
<1> DEFINE m == LogText!Continued(l, cols)
<1>1. IsLine(cols)
  BY DEF Writes
<1>2. /\ IsLine(m) /\ \A c \in 1 .. Len(l) - 1 : m[c] = l[c]
      /\ Len(l) = 1 => m[1] = l[1] \o cols[1]
  BY <1>1, ContinuedLine
<1>3. l \in Lines /\ Len(l) \in Nat \ {0}
  BY DEF IsLine, Lines
<1> HIDE DEF m
<1>4. CASE Len(l) # 1
  <2>1. 1 \in 1 .. Len(l) - 1
    BY <1>3, <1>4
  <2>2. m[1] = l[1]
    BY <1>2, <2>1
  <2> QED
    BY <2>2 DEF m
<1>5. CASE Len(l) = 1
  <2> DEFINE x == l[1]  y == cols[1]  z == m[1]
  <2>1. x \in Columns /\ y \in Columns /\ x # <<>>
    <3>1. cols \in Lines /\ cols # <<>>
      BY <1>1 DEF IsLine
    <3>2. 1 \in DOMAIN cols /\ 1 \in DOMAIN l
      BY <1>3, <1>5, <3>1 DEF Lines
    <3> QED
      BY <1>3, <3>1, <3>2, ColumnsOfLine DEF IsLine
  <2>2. z = x \o y /\ Len(y) = 1
    BY <1>2, <1>5 DEF Writes
  <2>3. \A j \in DOMAIN x : x[j].kind = "frag" /\ x[j].v \in Nat
    BY <1>5 DEF IsLine
  <2>4. y[1].kind = "ts" => y[1].v = ts
    BY DEF Writes
  <2> HIDE DEF x, y, z
  <2>5. /\ Len(x) \in Nat \ {0} /\ DOMAIN x = 1 .. Len(x)
        /\ Len(z) = Len(x) + 1
        /\ z[1] = x[1] /\ (Len(x) = 1 => z[2] = y[1])
    <3>1. x \in Seq(Pieces) /\ y \in Seq(Pieces) /\ x # <<>>
      BY <2>1 DEF Columns
    <3>2. Len(x) \in Nat \ {0} /\ DOMAIN x = 1 .. Len(x)
      BY <3>1
    <3>3. /\ Len(z) = Len(x) + 1
          /\ \A j \in 1 .. Len(x) + 1 : z[j] = IF j <= Len(x) THEN x[j] ELSE y[j - Len(x)]
      BY <2>2, <3>1, JoinTwo
    <3>4. 1 \in 1 .. Len(x) + 1 /\ 1 <= Len(x)
      BY <3>2
    <3>5. Len(x) = 1 => 2 \in 1 .. Len(x) + 1 /\ ~(2 <= Len(x)) /\ 2 - Len(x) = 1
      BY <3>2
    <3> QED
      BY <3>2, <3>3, <3>4, <3>5
  <2>6. x[1].v \in Nat /\ x[1].kind = "frag"
    BY <2>3, <2>5
  <2>7. Far * x[1].v + ts >= ts
    <3>1. Far \in Nat
      BY LogAssumption DEF LogText!LogFileAssumption
    <3> DEFINE d == x[1].v
    <3>2. d \in Nat
      BY <2>6
    <3> HIDE DEF d
    <3>3. Far * d + ts >= ts
      BY <3>1, <3>2
    <3> QED
      BY <3>3 DEF d
  <2>8. LogText!TimestampOf(z) = 0 \/ LogText!TimestampOf(z) >= ts
    <3>1. CASE Len(x) = 1 /\ y[1].kind = "ts"
      BY <2>4, <2>5, <2>6, <2>7, <3>1 DEF LogText!TimestampOf
    <3>2. CASE ~(Len(x) = 1 /\ y[1].kind = "ts")
      BY <2>5, <3>2 DEF LogText!TimestampOf
    <3> QED
      BY <3>1, <3>2
  <2> QED
    BY <2>8 DEF z, m
<1> QED
  BY <1>4, <1>5

\* The line an append writes to.
TopLine == IF open THEN LogText!Max(DOMAIN lines) ELSE LogText!NewLine

\* Lines that are not at the end are whole, and of those with a time an append
\* is later.
LEMMA OthersAreRead ==
  ASSUME FileInv, NEW i \in DOMAIN lines, ~(open /\ IsTop(i))
  PROVE  Len(lines[i]) >= 4 /\ TimeOf(i) \in Nat /\ (TimeOf(i) # 0 => TimeOf(i) < LogText!NextTimestamp)
<1>1. LinesShaped /\ TimesOrdered
  BY DEF FileInv
<1>2. IsLine(lines[i]) /\ Len(lines[i]) >= 4
  BY <1>1 DEF LinesShaped
<1>3. TimeOf(i) \in Nat
  BY <1>2, TimeIsNumber DEF TimeOf
<1>4. Len(lines[i]) >= 3
  BY <1>2, ColumnsOfLine DEF IsLine
<1>5. ASSUME TimeOf(i) # 0 PROVE TimeOf(i) < LogText!NextTimestamp
  <2>1. i \in DOMAIN LogText!Revs
    BY <1>1, <1>4, <1>5, RevsRead
  <2> QED
    BY <1>1, <2>1, RevsRead, AppendsAreLater
<1> QED
  BY <1>2, <1>3, <1>5

\* An append to a file that lacks its newline goes on in the last line.
LEMMA GluedOn ==
  ASSUME FileInv, open, NEW cols, Writes(cols, LogText!NextTimestamp), lines' = LogText!Glued(cols)
  PROVE  /\ DOMAIN lines' = DOMAIN lines /\ TopLine \in DOMAIN lines /\ IsTop(TopLine)
         /\ lines' = [i \in DOMAIN lines' |-> lines'[i]]
         /\ \A i \in DOMAIN lines \ {TopLine} : lines'[i] = lines[i]
         /\ lines'[TopLine] = LogText!Continued(lines[TopLine], cols)
         /\ IsLine(lines'[TopLine]) /\ Len(lines'[TopLine]) >= Len(cols)
<1> DEFINE m == LogText!Max(DOMAIN lines)
<1>1. LinesShaped /\ m = TopLine
  BY DEF FileInv, TopLine
<1>2. m \in DOMAIN lines /\ \A j \in DOMAIN lines : j <= m
  <2>1. DOMAIN lines \in SUBSET (1 .. appends + cuts) /\ DOMAIN lines # {} /\ appends + cuts \in Nat
    BY <1>1 DEF LinesShaped
  <2> QED
    BY <2>1, MaxIsTop
<1>3. lines' = [lines EXCEPT ![m] = LogText!Continued(lines[m], cols)]
  BY DEF LogText!Glued
<1> HIDE DEF m
<1>4. lines = [i \in DOMAIN lines |-> lines[i]]
  BY <1>1 DEF LinesShaped
<1>5. /\ DOMAIN lines' = DOMAIN lines
      /\ lines' = [i \in DOMAIN lines' |-> lines'[i]]
      /\ \A i \in DOMAIN lines \ {m} : lines'[i] = lines[i]
      /\ lines'[m] = LogText!Continued(lines[m], cols)
  BY <1>2, <1>3, <1>4
<1>6. IsLine(lines[m]) /\ IsLine(cols)
  BY <1>1, <1>2 DEF LinesShaped, Writes
<1>7. /\ IsLine(LogText!Continued(lines[m], cols))
      /\ Len(LogText!Continued(lines[m], cols)) = Len(lines[m]) + Len(cols) - 1
  BY <1>6, ContinuedLine
<1>8. Len(lines[m]) \in Nat \ {0} /\ Len(cols) \in Nat
  BY <1>6 DEF IsLine, Lines
<1>9. IsLine(lines'[m]) /\ Len(lines'[m]) >= Len(cols)
  BY <1>5, <1>7, <1>8
<1> QED
  BY <1>1, <1>2, <1>5, <1>9 DEF IsTop

\* Else it begins a line.
LEMMA GluedNew ==
  ASSUME FileInv, ~open, NEW cols, Writes(cols, LogText!NextTimestamp), lines' = LogText!Glued(cols)
  PROVE  /\ DOMAIN lines' = DOMAIN lines \cup {TopLine} /\ TopLine = appends + cuts + 1
         /\ \A i \in DOMAIN lines : i < TopLine
         /\ lines' = [i \in DOMAIN lines' |-> lines'[i]]
         /\ \A i \in DOMAIN lines : lines'[i] = lines[i]
         /\ lines'[TopLine] = cols /\ IsLine(cols)
<1>1. LinesShaped /\ TopLine = LogText!NewLine /\ LogText!NewLine = appends + cuts + 1
  BY DEF FileInv, TopLine, LogText!NewLine
<1>2. \A i \in DOMAIN lines : i < TopLine
  BY <1>1 DEF LinesShaped
<1>3. lines' = [i \in DOMAIN lines \cup {TopLine} |-> IF i = TopLine THEN cols ELSE lines[i]]
  BY <1>1 DEF LogText!Glued
<1>4. appends + cuts + 1 \in Nat /\ TopLine \notin DOMAIN lines
  BY <1>1, <1>2 DEF LinesShaped
<1> HIDE DEF TopLine
<1> QED
  BY <1>1, <1>2, <1>3, <1>4 DEF Writes

\* An append keeps the order of the times and what was whole; the line it wrote
\* to is the last.
LEMMA AppendKeeps ==
  ASSUME FileInv, NEW cols, Writes(cols, LogText!NextTimestamp), lines' = LogText!Glued(cols),
         now' = now, appends' \in Nat, cuts' \in Nat, appends' + cuts' = appends + cuts + 1,
         torn' \in Nat, open' <=> torn' # 0, Len(cols) >= 4 \/ open'
  PROVE  /\ LinesShaped' /\ TimesOrdered'
         /\ \A i \in DOMAIN lines, r \in LineRead : Holds(i, r) => i \in DOMAIN lines' /\ Holds(i, r)'
<1> DEFINE ts == LogText!NextTimestamp
<1>0. PICK t : t = TopLine
  OBVIOUS
<1>1. LinesShaped /\ TimesOrdered
  BY DEF FileInv
<1>2. /\ now \in Nat \ {0} /\ appends \in Nat /\ cuts \in Nat
      /\ DOMAIN lines \subseteq 1 .. appends + cuts
      /\ \A i \in DOMAIN lines : IsLine(lines[i])
  BY <1>1 DEF LinesShaped
<1>3. /\ DOMAIN lines' = DOMAIN lines \cup {t} /\ t \in 1 .. appends' + cuts'
      /\ \A i \in DOMAIN lines : i <= t
      /\ lines' = [i \in DOMAIN lines' |-> lines'[i]]
      /\ \A i \in DOMAIN lines \ {t} : lines'[i] = lines[i] /\ ~(open /\ IsTop(i))
      /\ IsLine(lines'[t]) /\ Len(lines'[t]) >= Len(cols)
  <2>1. CASE open
    <3>1. /\ DOMAIN lines' = DOMAIN lines /\ t \in DOMAIN lines /\ IsTop(t)
          /\ lines' = [i \in DOMAIN lines' |-> lines'[i]]
          /\ \A i \in DOMAIN lines \ {t} : lines'[i] = lines[i]
          /\ IsLine(lines'[t]) /\ Len(lines'[t]) >= Len(cols)
      BY <1>0, <2>1, GluedOn
    <3>2. \A i \in DOMAIN lines \ {t} : ~IsTop(i)
      BY <1>2, <3>1 DEF IsTop
    <3>3. DOMAIN lines \cup {t} = DOMAIN lines /\ \A i \in DOMAIN lines : i <= t
      BY <3>1 DEF IsTop
    <3>4. t \in 1 .. appends' + cuts'
      BY <1>2, <3>1
    <3> QED
      BY <3>1, <3>2, <3>3, <3>4
  <2>2. CASE ~open
    <3>1. /\ DOMAIN lines' = DOMAIN lines \cup {t} /\ t = appends + cuts + 1
          /\ \A i \in DOMAIN lines : i < t
          /\ lines' = [i \in DOMAIN lines' |-> lines'[i]]
          /\ \A i \in DOMAIN lines : lines'[i] = lines[i]
          /\ lines'[t] = cols /\ IsLine(cols)
      BY <1>0, <2>2, GluedNew
    <3>2. Len(cols) \in Nat
      BY <3>1 DEF IsLine, Lines
    <3> QED
      BY <1>2, <2>2, <3>1, <3>2
  <2> QED
    BY <2>1, <2>2
<1>4. /\ ts \in Nat \ {0}
      /\ \A i \in DOMAIN lines \ {t} :
           /\ Len(lines[i]) >= 4 /\ TimeOf(i) \in Nat
           /\ TimeOf(i)' = TimeOf(i) /\ (TimeOf(i) # 0 => TimeOf(i) < ts)
  BY <1>1, <1>3, AppendsAreLater, OthersAreRead DEF TimeOf
<1>5. TimeOf(t)' = 0 \/ TimeOf(t)' >= ts \/ (t \in DOMAIN lines /\ open /\ TimeOf(t)' = TimeOf(t))
  <2>1. CASE open
    <3>1. t \in DOMAIN lines /\ lines'[t] = LogText!Continued(lines[t], cols)
      BY <1>0, <2>1, GluedOn
    <3>2. IsLine(lines[t])
      BY <1>2, <3>1
    <3> HIDE DEF ts
    <3>3. \/ LogText!TimestampOf(lines'[t][1]) = LogText!TimestampOf(lines[t][1])
          \/ LogText!TimestampOf(lines'[t][1]) = 0
          \/ LogText!TimestampOf(lines'[t][1]) >= ts
      BY <1>4, <3>1, <3>2, ContinuedTime DEF ts
    <3> QED
      BY <2>1, <3>1, <3>3 DEF TimeOf
  <2>2. CASE ~open
    <3>1. lines'[t] = cols
      BY <1>0, <2>2, GluedNew
    <3>2. LogText!TimestampOf(cols[1]) = 0 \/ LogText!TimestampOf(cols[1]) = ts
      BY DEF LogText!TimestampOf, Writes
    <3> QED
      BY <1>4, <3>1, <3>2 DEF TimeOf
  <2> QED
    BY <2>1, <2>2
<1>6. TimeOf(t)' \in Nat
  BY <1>3, TimeIsNumber DEF TimeOf
<1> HIDE DEF ts
<1>7. TimesOrdered'
  <2> SUFFICES ASSUME NEW i \in DOMAIN lines', NEW j \in DOMAIN lines', i < j,
                      TimeOf(i)' # 0, TimeOf(j)' # 0
               PROVE  TimeOf(i)' < TimeOf(j)'
    BY DEF TimesOrdered
  <2>1. i \in DOMAIN lines \ {t} /\ i \in Nat /\ j \in Nat
    BY <1>2, <1>3
  <2>2. CASE j = t
    <3>1. TimeOf(i) < ts /\ TimeOf(i) \in Nat /\ TimeOf(i)' = TimeOf(i)
      BY <1>4, <2>1
    <3>2. CASE TimeOf(t)' >= ts
      BY <1>4, <1>6, <2>2, <3>1, <3>2
    <3>3. CASE t \in DOMAIN lines /\ TimeOf(t)' = TimeOf(t)
      BY <1>1, <2>1, <2>2, <3>1, <3>3 DEF TimesOrdered
    <3> QED
      BY <1>5, <2>2, <3>2, <3>3
  <2>3. CASE j # t
    BY <1>1, <1>3, <1>4, <2>1, <2>3 DEF TimesOrdered
  <2> QED
    BY <2>2, <2>3
<1>8. \A i \in DOMAIN lines' : Len(lines'[i]) >= 4 \/ (open' /\ IsTop(i)')
  <2>1. \A i \in DOMAIN lines' \ {t} : Len(lines'[i]) >= 4
    BY <1>3, <1>4
  <2>2. IsTop(t)'
    BY <1>2, <1>3 DEF IsTop
  <2>3. Len(lines'[t]) >= 4 \/ open'
    <3>1. Len(lines'[t]) \in Nat /\ Len(cols) \in Nat
      BY <1>3 DEF IsLine, Lines, Writes
    <3> QED
      BY <1>3, <3>1
  <2> QED
    BY <2>1, <2>2, <2>3
<1>9. LinesShaped'
  <2>1. \A i \in DOMAIN lines' : IsLine(lines'[i])
    BY <1>2, <1>3
  <2>2. DOMAIN lines' \subseteq 1 .. appends' + cuts' /\ DOMAIN lines' # {}
    BY <1>2, <1>3
  <2> QED
    BY <1>2, <1>3, <1>8, <2>1, <2>2 DEF LinesShaped
<1>10. ASSUME NEW i \in DOMAIN lines, NEW r \in LineRead, Holds(i, r)
       PROVE  i \in DOMAIN lines' /\ Holds(i, r)'
  <2>1. CASE i # t
    BY <1>3, <1>10, <2>1 DEF Holds, TimeOf
  <2>2. CASE i = t
    <3>1. open
      BY <1>0, <1>2, <2>2, GluedNew
    <3>2. lines'[i] = LogText!Continued(lines[i], cols)
      BY <1>0, <2>2, <3>1, GluedOn
    <3>3. /\ Len(lines'[i]) = Len(lines[i]) + Len(cols) - 1
          /\ \A c \in 1 .. Len(lines[i]) - 1 : lines'[i][c] = lines[i][c]
      <4> DEFINE l == lines[i]
      <4>1. IsLine(l) /\ IsLine(cols)
        BY <1>2 DEF Writes
      <4> HIDE DEF l
      <4>2. /\ Len(LogText!Continued(l, cols)) = Len(l) + Len(cols) - 1
            /\ \A c \in 1 .. Len(l) - 1 : LogText!Continued(l, cols)[c] = l[c]
        BY <4>1, ContinuedLine
      <4> QED
        BY <3>2, <4>2 DEF l
    <3>4. Len(lines[i]) \in Nat /\ Len(lines[i]) >= 4 /\ Len(cols) \in Nat \ {0}
      BY <1>2, <1>10 DEF Holds, IsLine, Lines, Writes
    <3>5. 1 \in 1 .. Len(lines[i]) - 1 /\ 2 \in 1 .. Len(lines[i]) - 1 /\ 3 \in 1 .. Len(lines[i]) - 1
      BY <3>4
    <3>6. lines'[i][1] = lines[i][1] /\ lines'[i][2] = lines[i][2] /\ lines'[i][3] = lines[i][3]
      BY <3>3, <3>5
    <3>7. Len(lines'[i]) >= 4
      BY <3>3, <3>4
    <3> QED
      BY <1>3, <1>10, <3>6, <3>7 DEF Holds, TimeOf, LogText!ParseLine
  <2> QED
    BY <2>1, <2>2
<1> QED
  BY <1>7, <1>9, <1>10

\* A whole line of its own holds its revision.
LEMMA NewLineHolds ==
  ASSUME FileInv, ~open, NEW r \in LineRead, r.ts = LogText!NextTimestamp,
         NEW cols, Writes(cols, r.ts), lines' = LogText!Glued(cols),
         Len(cols) = 4, LogText!ParseLine(cols) = r, LogText!TimestampOf(cols[1]) = r.ts
  PROVE  \E i \in DOMAIN lines' : Holds(i, r)'
<1>1. PICK t : t = TopLine
  OBVIOUS
<1>2. t \in DOMAIN lines' /\ lines'[t] = cols
  BY <1>1, GluedNew
<1>3. r.ts # 0
  BY DEF LineRead
<1>4. Holds(t, r)'
  <2>1. Len(lines'[t]) >= 4
    <3>1. Len(lines'[t]) = 4
      BY <1>2
    <3> QED
      BY <3>1
  <2>2. TimeOf(t)' # 0
    BY <1>2, <1>3 DEF TimeOf
  <2>3. LogText!ParseLine(lines'[t]) = r
    BY <1>2
  <2> QED
    BY <2>1, <2>2, <2>3 DEF Holds
<1> QED
  BY <1>2, <1>4

\* What an append writes is a revision.
LEMMA AppendIsRevision ==
  ASSUME FileInv, NEW h \in Hash, NEW label \in LogText!Label
  PROVE  [ts |-> LogText!NextTimestamp, hash |-> h, label |-> label] \in LineRead
<1>1. LogText!NextTimestamp \in Nat \ {0}
  BY AppendsAreLater DEF FileInv
<1> QED
  BY <1>1 DEF LineRead, Value

LEMMA AppendLogKeeps ==
  ASSUME FileInv, NEW h \in Hash, NEW label \in LogText!Label, LogText!AppendLog(h, label)
  PROVE  FileInv'
<1>0. PICK r : r = [ts |-> LogText!NextTimestamp, hash |-> h, label |-> label]
  OBVIOUS
<1>1. r \in LineRead /\ r.ts = LogText!NextTimestamp /\ r.hash = h
  BY <1>0, AppendIsRevision
<1> DEFINE cols == LogText!FormatLine(r)
<1>2. /\ appends' = appends + 1 /\ cuts' = cuts /\ now' = now
      /\ objects' = objects \cup {h} /\ lines' = LogText!Glued(cols)
      /\ open' = FALSE /\ torn' = 0
      /\ whole' = IF open THEN whole ELSE whole \cup {r}
  BY <1>0 DEF LogText!AppendLog
<1>3. /\ Writes(cols, r.ts) /\ Len(cols) = 4
      /\ LogText!ParseLine(cols) = r /\ LogText!TimestampOf(cols[1]) = r.ts
  BY <1>1, ReadsWhatIsWritten
<1> HIDE DEF cols
<1>4. Len(cols) >= 4
  BY <1>3
<1>5. appends' \in Nat /\ cuts' \in Nat /\ appends' + cuts' = appends + cuts + 1
  BY <1>2 DEF FileInv, LinesShaped
<1>6. /\ LinesShaped' /\ TimesOrdered'
      /\ \A i \in DOMAIN lines, q \in LineRead : Holds(i, q) => i \in DOMAIN lines' /\ Holds(i, q)'
  BY <1>1, <1>2, <1>3, <1>4, <1>5, AppendKeeps
<1>7. ~open => \E i \in DOMAIN lines' : Holds(i, r)'
  BY <1>1, <1>2, <1>3, NewLineHolds
<1>8. WholeHeld'
  BY <1>1, <1>2, <1>6, <1>7 DEF FileInv, WholeHeld
<1> QED
  BY <1>6, <1>8 DEF FileInv

LEMMA AppendTornKeeps ==
  ASSUME FileInv, NEW h \in Hash, NEW label \in LogText!Label, LogText!AppendTorn(h, label)
  PROVE  FileInv'
<1>0. PICK r : r = [ts |-> LogText!NextTimestamp, hash |-> h, label |-> label]
  OBVIOUS
<1>1. r \in LineRead /\ r.ts = LogText!NextTimestamp /\ r.hash = h
  BY <1>0, AppendIsRevision
<1>2. PICK k \in 1 .. 4 :
        \E cols \in LogText!CutAt(r, k) :
          /\ cuts' = cuts + 1 /\ appends' = appends /\ now' = now
          /\ objects' = objects \cup {h} /\ lines' = LogText!Glued(cols)
          /\ open' = TRUE /\ torn' = k
          /\ whole' = IF ~open /\ k = 4 THEN whole \cup {r} ELSE whole
  BY <1>0 DEF LogText!AppendTorn
<1>3. PICK cols \in LogText!CutAt(r, k) :
        /\ cuts' = cuts + 1 /\ appends' = appends /\ now' = now
        /\ objects' = objects \cup {h} /\ lines' = LogText!Glued(cols)
        /\ open' = TRUE /\ torn' = k
        /\ whole' = IF ~open /\ k = 4 THEN whole \cup {r} ELSE whole
  BY <1>2
<1>4. /\ Writes(cols, r.ts) /\ Len(cols) = k
      /\ k = 4 => LogText!ParseLine(cols) = r /\ LogText!TimestampOf(cols[1]) = r.ts
  BY <1>1, CutLeaves
<1>5. /\ appends' \in Nat /\ cuts' \in Nat /\ appends' + cuts' = appends + cuts + 1
      /\ torn' \in Nat /\ torn' # 0
  BY <1>3 DEF FileInv, LinesShaped
<1>6. /\ LinesShaped' /\ TimesOrdered'
      /\ \A i \in DOMAIN lines, q \in LineRead : Holds(i, q) => i \in DOMAIN lines' /\ Holds(i, q)'
  BY <1>1, <1>3, <1>4, <1>5, AppendKeeps
<1>7. ~open /\ k = 4 => \E i \in DOMAIN lines' : Holds(i, r)'
  BY <1>1, <1>3, <1>4, NewLineHolds
<1>8. WholeHeld'
  BY <1>1, <1>3, <1>6, <1>7 DEF FileInv, WholeHeld
<1> QED
  BY <1>6, <1>8 DEF FileInv

\* A collection writes the lines it keeps as they were read (collectLocked,
\* rewriteLog), and keeps the objects of them all.
LEMMA CollectKeeps ==
  ASSUME FileInv, NEW cutoff \in Nat, LogText!Collect(cutoff)
  PROVE  FileInv'
<1> DEFINE R == LogText!Revs
           last == LogText!Max(DOMAIN R)
           kept == {i \in DOMAIN R : R[i].ts >= cutoff \/ i = last}
<1>1. /\ LogText!HasLast
      /\ \/ kept = DOMAIN R /\ UNCHANGED <<lines, open, torn>>
         \/ /\ lines' = [i \in kept |-> LogText!FormatLine(R[i])]
            /\ open' = FALSE /\ torn' = 0
      /\ objects' = objects \cap LogText!InUse(kept, cutoff)
      /\ whole' = whole \ {r \in whole : r.ts < cutoff /\ r # LogText!LastRevision}
      /\ UNCHANGED <<now, cuts, appends>>
  BY DEF LogText!Collect
<1>2. LinesShaped /\ TimesOrdered /\ WholeHeld
  BY DEF FileInv
<1>3. /\ DOMAIN R = {i \in DOMAIN lines : Len(lines[i]) >= 3 /\ TimeOf(i) # 0}
      /\ \A i \in DOMAIN R : R[i] = LogText!ParseLine(lines[i]) /\ R[i] \in LineRead /\ R[i].ts = TimeOf(i)
  BY <1>2, RevsRead
<1>4. last \in DOMAIN R /\ R[last] = LogText!LastRevision
  BY <1>1, <1>2, LastIsLatest DEF LogText!LastRevision
<1> HIDE DEF R, last
<1>5. ASSUME NEW r \in whole'
      PROVE  r \in LineRead /\ r.hash \in objects' /\ \E i \in kept : Holds(i, r) /\ R[i] = r
  <2>1. r \in whole /\ r \in LineRead /\ r.hash \in objects /\ (r.ts >= cutoff \/ r = R[last])
    <3>1. r \in whole /\ ~(r.ts < cutoff /\ r # LogText!LastRevision)
      BY <1>1, <1>5
    <3>2. r \in LineRead /\ r.hash \in objects
      BY <1>2, <3>1 DEF WholeHeld
    <3>3. r.ts \in Nat
      BY <3>2 DEF LineRead
    <3> QED
      BY <1>4, <3>1, <3>2, <3>3
  <2>2. PICK i \in DOMAIN lines : Holds(i, r)
    BY <1>2, <2>1 DEF WholeHeld
  <2>3. i \in DOMAIN R /\ R[i] = r
    <3>1. Len(lines[i]) \in Nat
      BY <1>2 DEF LinesShaped, IsLine, Lines
    <3> QED
      BY <1>3, <2>2, <3>1 DEF Holds
  <2>4. r = R[last] => i = last
    <3> SUFFICES ASSUME r = R[last], i # last PROVE FALSE
      OBVIOUS
    <3>1. TimeOf(i) = TimeOf(last) /\ TimeOf(i) # 0 /\ TimeOf(i) \in Nat
      BY <1>3, <1>4, <2>3 DEF LineRead
    <3>2. i \in Nat /\ last \in Nat /\ i \in DOMAIN lines /\ last \in DOMAIN lines
      BY <1>2, <1>3, <1>4 DEF LinesShaped
    <3>3. i < last \/ last < i
      BY <3>2
    <3> QED
      BY <1>2, <3>1, <3>2, <3>3 DEF TimesOrdered
  <2>5. i \in kept
    BY <2>1, <2>3, <2>4
  <2>6. r.hash \in objects'
    BY <1>1, <2>1, <2>3, <2>5 DEF LogText!InUse, R
  <2> QED
    BY <2>1, <2>2, <2>3, <2>5, <2>6
<1>6. objects' \subseteq Hash
  BY <1>1, <1>2 DEF WholeHeld
<1>7. CASE UNCHANGED <<lines, open, torn>>
  <2>1. LinesShaped'
    BY <1>1, <1>2, <1>7 DEF LinesShaped, IsTop
  <2>2. TimesOrdered'
    BY <1>2, <1>7 DEF TimesOrdered, TimeOf
  <2>3. ASSUME NEW r \in whole'
        PROVE  r \in LineRead /\ r.hash \in objects' /\ \E i \in DOMAIN lines' : Holds(i, r)'
    BY <1>3, <1>5, <1>7 DEF Holds, TimeOf
  <2> QED
    BY <1>6, <2>1, <2>2, <2>3 DEF FileInv, WholeHeld
<1>8. CASE /\ lines' = [i \in kept |-> LogText!FormatLine(R[i])]
           /\ open' = FALSE /\ torn' = 0
  <2>1. ASSUME NEW i \in kept
        PROVE  /\ IsLine(lines'[i]) /\ Len(lines'[i]) >= 4
               /\ TimeOf(i)' = TimeOf(i) /\ TimeOf(i) # 0
               /\ LogText!ParseLine(lines'[i]) = R[i]
    <3>1. R[i] \in LineRead /\ R[i].ts = TimeOf(i) /\ TimeOf(i) # 0
      BY <1>3, <2>1
    <3>2. lines'[i] = LogText!FormatLine(R[i])
      BY <1>8, <2>1
    <3>3. /\ Writes(LogText!FormatLine(R[i]), R[i].ts) /\ Len(LogText!FormatLine(R[i])) = 4
          /\ LogText!ParseLine(LogText!FormatLine(R[i])) = R[i]
          /\ LogText!TimestampOf(LogText!FormatLine(R[i])[1]) = R[i].ts
      BY <3>1, ReadsWhatIsWritten
    <3>4. Len(lines'[i]) >= 4
      <4>1. Len(lines'[i]) = 4
        BY <3>2, <3>3
      <4> QED
        BY <4>1
    <3> QED
      BY <3>1, <3>2, <3>3, <3>4 DEF Writes, TimeOf
  <2>2. DOMAIN lines' = kept /\ kept \subseteq DOMAIN lines /\ lines' = [i \in DOMAIN lines' |-> lines'[i]]
    BY <1>3, <1>8
  <2> HIDE DEF kept
  <2>3. LinesShaped'
    BY <1>1, <1>2, <1>8, <2>1, <2>2 DEF LinesShaped
  <2>4. TimesOrdered'
    BY <1>2, <2>1, <2>2 DEF TimesOrdered
  <2>5. ASSUME NEW r \in whole'
        PROVE  r \in LineRead /\ r.hash \in objects' /\ \E i \in DOMAIN lines' : Holds(i, r)'
    <3>1. PICK i \in kept : R[i] = r
      BY <1>5, <2>5
    <3>2. Holds(i, r)'
      BY <2>1, <3>1 DEF Holds
    <3> QED
      BY <1>5, <2>2, <2>5, <3>1, <3>2
  <2> QED
    BY <1>6, <2>3, <2>4, <2>5 DEF FileInv, WholeHeld
<1> QED
  BY <1>1, <1>7, <1>8

\* An empty file.
LEMMA FileInit == ASSUME LogText!Init PROVE FileInv
<1>1. /\ lines = <<>> /\ open = FALSE /\ objects = {} /\ now = 1
      /\ whole = {} /\ torn = 0 /\ cuts = 0 /\ appends = 0
  BY DEF LogText!Init
<1>2. DOMAIN lines = {} /\ lines = [i \in DOMAIN lines |-> lines[i]]
  BY <1>1
<1> QED
  BY <1>1, <1>2 DEF FileInv, LinesShaped, TimesOrdered, WholeHeld

\* What the invariant says of what is read.
LEMMA FileImplies == FileInv => LogFileInv
<1> SUFFICES ASSUME FileInv PROVE LogFileInv
  OBVIOUS
<1>1. LinesShaped /\ TimesOrdered /\ WholeHeld
  BY DEF FileInv
<1>2. LogText!TypeOK
  <2>1. ASSUME NEW i \in DOMAIN lines, NEW c \in DOMAIN lines[i]
        PROVE  /\ lines[i][c] # <<>>
               /\ \A j \in DOMAIN lines[i][c] : lines[i][c][j].kind \in LogText!Column
    <3>1. IsLine(lines[i])
      BY <1>1 DEF LinesShaped
    <3>2. lines[i][c] \in Columns /\ lines[i][c] # <<>>
      BY <2>1, <3>1, ColumnsOfLine DEF IsLine
    <3>3. \A j \in DOMAIN lines[i][c] : lines[i][c][j] \in Pieces
      BY <3>2 DEF Columns
    <3> QED
      BY <3>2, <3>3 DEF Pieces
  <2>2. ASSUME NEW i \in DOMAIN lines, IsTop(i) PROVE i = LogText!Max(DOMAIN lines)
    <3>1. DOMAIN lines \in SUBSET Nat
      BY <1>1 DEF LinesShaped
    <3> QED
      BY <2>2, <3>1, LastNumber DEF IsTop
  <2>3. \A i \in DOMAIN lines : Len(lines[i]) >= 4 \/ (open /\ i = LogText!Max(DOMAIN lines))
    BY <1>1, <2>2 DEF LinesShaped
  <2>4. (open <=> torn # 0) /\ objects \subseteq Hash /\ {now, cuts, appends, torn} \subseteq Nat
    BY <1>1 DEF LinesShaped, WholeHeld
  <2> QED
    BY <2>1, <2>3, <2>4 DEF LogText!TypeOK
<1>3. LogText!RevisionsSurvive
  <2> SUFFICES ASSUME NEW r \in whole PROVE \E i \in DOMAIN LogText!Revs : LogText!Revs[i] = r
    BY DEF LogText!RevisionsSurvive
  <2>1. PICK i \in DOMAIN lines : Holds(i, r)
    BY <1>1 DEF WholeHeld
  <2>2. Len(lines[i]) \in Nat
    BY <1>1 DEF LinesShaped, IsLine, Lines
  <2> QED
    BY <1>1, <2>1, <2>2, RevsRead DEF Holds
<1>4. LogText!SurvivorsBacked
  BY <1>1 DEF WholeHeld, LogText!SurvivorsBacked
<1>5. LogText!TimesIncrease
  <2> SUFFICES ASSUME NEW i \in DOMAIN LogText!Revs, NEW j \in DOMAIN LogText!Revs, i < j
               PROVE  LogText!Revs[i].ts < LogText!Revs[j].ts
    BY DEF LogText!TimesIncrease
  <2>1. /\ i \in DOMAIN lines /\ TimeOf(i) # 0 /\ LogText!Revs[i].ts = TimeOf(i)
        /\ j \in DOMAIN lines /\ TimeOf(j) # 0 /\ LogText!Revs[j].ts = TimeOf(j)
    BY <1>1, RevsRead
  <2> QED
    BY <1>1, <2>1 DEF TimesOrdered
<1> QED
  BY <1>2, <1>3, <1>4, <1>5 DEF LogFileInv

\* However many appends are cut off, a revision that was written whole is read as
\* it was written and a collection keeps its object, and the times of a file
\* increase (appendLog, parseLine, nextTimestamp, collectLocked).
THEOREM WholeRevisionsSurvive == LogText!Spec => []LogFileInv
<1>1. LogText!Init => FileInv
  BY FileInit
<1>2. FileInv /\ [LogText!Next]_(LogText!vars) => FileInv'
  <2> SUFFICES ASSUME FileInv, [LogText!Next]_(LogText!vars) PROVE FileInv'
    OBVIOUS
  <2>1. ASSUME NEW h \in Hash, NEW label \in LogText!Label,
               LogText!AppendLog(h, label) \/ LogText!AppendTorn(h, label)
        PROVE  FileInv'
    BY <2>1, AppendLogKeeps, AppendTornKeeps
  <2>2. ASSUME NEW cutoff \in 1 .. LogClock, LogText!Collect(cutoff) PROVE FileInv'
    <3>1. cutoff \in Nat
      OBVIOUS
    <3> QED
      BY <2>2, <3>1, CollectKeeps
  <2>3. ASSUME UNCHANGED <<lines, open, objects, whole, torn, cuts, appends>>,
               now' = now \/ now' = now + 1
        PROVE  FileInv'
    <3>1. LinesShaped'
      BY <2>3 DEF FileInv, LinesShaped, IsTop
    <3>2. TimesOrdered' /\ WholeHeld'
      BY <2>3 DEF FileInv, TimesOrdered, WholeHeld, Holds, TimeOf
    <3> QED
      BY <3>1, <3>2 DEF FileInv
  <2>4. CASE LogText!Tick
    BY <2>3, <2>4 DEF LogText!Tick
  <2>5. CASE UNCHANGED LogText!vars
    BY <2>3, <2>5 DEF LogText!vars
  <2> QED
    BY <2>1, <2>2, <2>4, <2>5 DEF LogText!Next
<1> QED
  BY <1>1, <1>2, FileImplies, PTL DEF LogText!Spec

=============================================================================
