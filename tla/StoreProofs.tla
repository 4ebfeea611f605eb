---------------------------- MODULE StoreProofs ----------------------------
(***************************************************************************)
(* The safety of the store, for any number of processes, files, contents   *)
(* and calls: StoreInv is inductive, and the properties of module Store    *)
(* that it implies hold in every reachable state.  First the types, then   *)
(* what a step of one process leaves the others, then one lemma per kind   *)
(* of step, the theorems on safety, the budget of retention by size, and   *)
(* the refinement of the abstract history.                                 *)
(***************************************************************************)
EXTENDS StoreInvariant, TLAPS, FiniteSetTheorems, WellFoundedInduction

-----------------------------------------------------------------------------
(* Logs: what appending a line and leaving lines out do to the newest      *)
(* line, to the order of the lines and to the pairs of a safeguard and its *)
(* restore.                                                                *)

\* A log as the store keeps it: positive line numbers and, unless it is empty,
\* a newest line.
IsLog(L) ==
  /\ DOMAIN L \subseteq Nat \ {0}
  /\ HasLast(L) => \E i \in DOMAIN L : IsNewest(L, i)

\* The newest line is the only one that no line follows (lastRevision).
LEMMA NewestIsUnique ==
  ASSUME NEW L, DOMAIN L \subseteq Nat, NEW i, IsNewest(L, i)
  PROVE  NewestLine(L) = i /\ IsNewest(L, NewestLine(L))
<1>1. \A j : IsNewest(L, j) => j = i
  BY DEF IsNewest
<1> QED BY <1>1 DEF NewestLine, IsNewest

\* A log with lines has its last line at NewestLine.
LEMMA NewestExists ==
  ASSUME NEW L, IsLog(L), HasLast(L)
  PROVE  /\ IsNewest(L, NewestLine(L))
         /\ NewestLine(L) \in DOMAIN L
         /\ NewestLine(L) \in Nat \ {0}
         /\ NextLine(L) = NewestLine(L) + 1
<1>1. PICK i \in DOMAIN L : IsNewest(L, i)
  BY DEF IsLog
<1>2. IsNewest(L, NewestLine(L))
  BY <1>1, NewestIsUnique DEF IsLog
<1> QED BY <1>2 DEF IsNewest, IsLog, NextLine

\* The next line number is after every line (O_APPEND).
LEMMA NextLineIsNew ==
  ASSUME NEW L, IsLog(L)
  PROVE  /\ NextLine(L) \in Nat \ {0}
         /\ \A i \in DOMAIN L : i < NextLine(L)
         /\ ~HasLast(L) <=> NextLine(L) = 1
<1>1. CASE HasLast(L)
  <2>1. /\ IsNewest(L, NewestLine(L))
        /\ NewestLine(L) \in Nat \ {0}
        /\ NextLine(L) = NewestLine(L) + 1
    BY <1>1, NewestExists
  <2>2. \A i \in DOMAIN L : i <= NewestLine(L) /\ i \in Nat
    BY <2>1 DEF IsNewest, IsLog
  <2> QED BY <1>1, <2>1, <2>2
<1>2. CASE ~HasLast(L)
  BY <1>2 DEF HasLast, NextLine
<1> QED BY <1>1, <1>2

\* Appending adds one line, the newest, and keeps the others.
LEMMA AppendedLog ==
  ASSUME NEW L, IsLog(L), NEW r
  PROVE  /\ DOMAIN Appended(L, r) = DOMAIN L \cup {NextLine(L)}
         /\ Appended(L, r)[NextLine(L)] = r
         /\ \A i \in DOMAIN L : Appended(L, r)[i] = L[i]
         /\ IsNewest(Appended(L, r), NextLine(L))
         /\ IsLog(Appended(L, r))
         /\ HasLast(Appended(L, r))
         /\ Last(Appended(L, r)) = r
<1> DEFINE n == NextLine(L)  A == Appended(L, r)
<1>1. n \in Nat \ {0} /\ \A i \in DOMAIN L : i < n
  BY NextLineIsNew
<1>2. DOMAIN A = DOMAIN L \cup {n} /\ A[n] = r
  BY DEF Appended
<1>3. \A i \in DOMAIN L : A[i] = L[i]
  <2> TAKE i \in DOMAIN L
  <2>1. i # n
    BY <1>1 DEF IsLog
  <2> QED BY <2>1 DEF Appended
<1>4. IsNewest(A, n)
  BY <1>1, <1>2 DEF IsNewest, IsLog
<1>5. IsLog(A) /\ HasLast(A)
  BY <1>1, <1>2, <1>4 DEF IsLog, HasLast
<1>6. NewestLine(A) = n
  BY <1>4, <1>5, NewestIsUnique DEF IsLog
<1> QED BY <1>2, <1>3, <1>4, <1>5, <1>6 DEF Last

\* An append keeps every line there was.
LEMMA AppendedKeeps ==
  ASSUME NEW L, IsLog(L), NEW r, NEW i \in DOMAIN L
  PROVE  i \in DOMAIN Appended(L, r) /\ Appended(L, r)[i] = L[i]
<1>1. NextLine(L) # i
  <2>1. NextLine(L) \in Nat /\ i < NextLine(L) /\ i \in Nat
    BY NextLineIsNew DEF IsLog
  <2> QED BY <2>1
<1> QED BY <1>1 DEF Appended

\* Appending keeps every pair, and makes one of a safeguard at the end of the
\* log and a restore.
LEMMA AppendedPairs ==
  ASSUME NEW L, IsLog(L), NEW r
  PROVE  /\ \A i, j : Paired(L, i, j) => Paired(Appended(L, r), i, j)
         /\ HasLast(L) /\ Last(L).label = "pre-restore" /\ r.label = "restore"
              => Paired(Appended(L, r), NewestLine(L), NextLine(L))
<1> DEFINE n == NextLine(L)  A == Appended(L, r)
<1>1. /\ DOMAIN A = DOMAIN L \cup {n} /\ A[n] = r
      /\ \A i \in DOMAIN L : A[i] = L[i]
  BY AppendedLog
<1>2. n \in Nat \ {0} /\ \A i \in DOMAIN L : i < n /\ i \in Nat
  BY NextLineIsNew DEF IsLog
<1>3. ASSUME NEW i, NEW j, Paired(L, i, j)
      PROVE  Paired(A, i, j)
  BY <1>1, <1>2, <1>3 DEF Paired, Adjacent
<1>4. ASSUME HasLast(L), Last(L).label = "pre-restore", r.label = "restore"
      PROVE  Paired(A, NewestLine(L), n)
  <2>1. /\ NewestLine(L) \in DOMAIN L /\ IsNewest(L, NewestLine(L))
        /\ n = NewestLine(L) + 1
    BY <1>4, NewestExists
  <2> QED BY <1>1, <1>2, <1>4, <2>1 DEF Paired, Adjacent, IsNewest, Last
<1> QED BY <1>3, <1>4

\* Leaving lines out keeps the others as they are; the newest stays the newest
\* when it is not among them, and a pair stays a pair.
LEMMA WithoutLog ==
  ASSUME NEW L, IsLog(L), NEW gone, \A i \in gone : ~IsNewest(L, i)
  PROVE  /\ DOMAIN Without(L, gone) = DOMAIN L \ gone
         /\ \A i \in DOMAIN L \ gone : Without(L, gone)[i] = L[i]
         /\ IsLog(Without(L, gone))
         /\ \A i \in DOMAIN L : IsNewest(L, i) => IsNewest(Without(L, gone), i)
         /\ HasLast(Without(L, gone)) <=> HasLast(L)
         /\ HasLast(L) => Last(Without(L, gone)) = Last(L)
         /\ \A i, j \in DOMAIN L \ gone : Paired(L, i, j) => Paired(Without(L, gone), i, j)
<1> DEFINE W == Without(L, gone)
<1>1. DOMAIN W = DOMAIN L \ gone /\ \A i \in DOMAIN L \ gone : W[i] = L[i]
  BY DEF Without
<1>2. \A i \in DOMAIN L : IsNewest(L, i) => IsNewest(W, i)
  BY <1>1 DEF IsNewest
<1>3. HasLast(W) <=> HasLast(L)
  BY <1>1, <1>2 DEF HasLast, IsLog, IsNewest
<1>4. IsLog(W)
  BY <1>1, <1>2, <1>3 DEF IsLog, IsNewest
<1>5. ASSUME HasLast(L) PROVE Last(W) = Last(L)
  <2>1. IsNewest(L, NewestLine(L)) /\ NewestLine(L) \in DOMAIN L
    BY <1>5, NewestExists
  <2>2. IsNewest(W, NewestLine(L))
    BY <1>2, <2>1
  <2>3. NewestLine(W) = NewestLine(L)
    BY <2>2, <1>4, NewestIsUnique DEF IsLog
  <2> QED BY <1>1, <2>2, <2>3 DEF Last, IsNewest
<1>6. \A i, j \in DOMAIN L \ gone : Paired(L, i, j) => Paired(W, i, j)
  BY <1>1 DEF Paired, Adjacent
<1> QED BY <1>1, <1>2, <1>3, <1>4, <1>5, <1>6

\* A safeguard and its restore form one unit of eviction.
LEMMA PairIsUnit ==
  ASSUME NEW L, IsLog(L), NEW i, NEW j, Paired(L, i, j)
  PROVE  Unit(L, i) = {i, j} /\ Unit(L, j) = {i, j} /\ UnitHead(L, i) = UnitHead(L, j)
<1>1. i \in DOMAIN L /\ j \in DOMAIN L /\ i \in Nat /\ j \in Nat
  BY DEF Paired, Adjacent, IsLog
<1>2. \A k : ~Paired(L, k, i) /\ ~Paired(L, j, k)
  BY DEF Paired
<1>3. \A k : (Paired(L, i, k) => k = j) /\ (Paired(L, k, j) => k = i)
  BY DEF Paired, Adjacent, IsLog
<1>4. Unit(L, i) = {i, j} /\ Unit(L, j) = {i, j}
  BY <1>1, <1>2, <1>3 DEF Unit
<1> QED BY <1>4 DEF UnitHead

\* When the restore of a pair may be evicted, so may its safeguard, and the
\* other way round.
LEMMA PairPinnedTogether ==
  ASSUME NEW L, IsLog(L), NEW i, NEW j, Paired(L, i, j)
  PROVE  i \in Pinned(L) <=> j \in Pinned(L)
<1>1. i \in DOMAIN L /\ j \in DOMAIN L /\ i \in Nat /\ j \in Nat /\ i < j
  BY DEF Paired, Adjacent, IsLog
<1>2. ~IsNewest(L, i)
  BY <1>1 DEF IsNewest
<1>3. \A k : (Paired(L, i, k) => k = j) /\ ~Paired(L, j, k)
  BY DEF Paired, Adjacent, IsLog
<1> QED BY <1>1, <1>2, <1>3 DEF Pinned

-----------------------------------------------------------------------------

\* The file that calls without a file are given is a file.
LEMMA AnyFileIsFile == AnyFile \in File
BY StoreAssumption DEF AnyFile

-----------------------------------------------------------------------------
(* Type correctness.                                                       *)

\* The first state is of the declared types.
LEMMA TypeInit == ASSUME Init PROVE TypeOK
<1>1. /\ DOMAIN EmptyLog = {}
      /\ EmptyLog \in [DOMAIN EmptyLog -> Revision]
  BY DEF EmptyLog
<1>2. /\ disk \in [File -> Content \cup {Absent}]
      /\ clock \in Nat /\ created \in BOOLEAN /\ objects \subseteq Content
      /\ writer \in Proc \cup {NoProc} /\ readers \subseteq Proc /\ opCount \in Nat
  BY DEF Init
<1>3. NoLine \in Line /\ NoDrop \in [File -> SUBSET Nat]
  BY DEF NoLine, NoDrop, Line, Hash, Label
<1>4. NoCall \in [kind : Kind \cup {"none"}, file : File, at : Nat]
  BY AnyFileIsFile DEF NoCall
<1>5. \A f \in File : log[f] = EmptyLog /\ DOMAIN log = File
  BY DEF Init
<1>6. /\ pc \in [Proc -> Steps]
      /\ call \in [Proc -> [kind : Kind \cup {"none"}, file : File, at : Nat]]
      /\ seen \in [Proc -> Content \cup {Absent}]
      /\ line \in [Proc -> Line] /\ target \in [Proc -> Line]
      /\ drop \in [Proc -> [File -> SUBSET Nat]]
      /\ todo \in [Proc -> SUBSET File]
      /\ referenced \in [Proc -> SUBSET Hash]
      /\ result \in [Proc -> {"none", "ok", "error"}]
  BY <1>3, <1>4 DEF Init, Steps
<1>7. DOMAIN log = File
  BY DEF Init
<1> QED BY <1>1, <1>2, <1>5, <1>6, <1>7 DEF TypeOK

\* The end of a call, by a result, a timeout or a crash, keeps the types.
LEMMA TypeLeave == ASSUME TypeOK, NEW p \in Proc, Leave(p) PROVE TypeOK'
BY StoreAssumption, AnyFileIsFile
DEF TypeOK, Leave, Goto, treeVars, storeVars, NoCall, NoLine, NoDrop, Steps,
    Line, Hash, Label

\* Every call names a file and a time.
LEMMA TypeBegin == ASSUME TypeOK, NEW p \in Proc, BeginCall(p) PROVE TypeOK'
<1>1. ASSUME NEW k \in Kind, NEW f \in File, NEW t \in Nat, NEW s \in Steps,
             Begin(p, [kind |-> k, file |-> f, at |-> t], s)
      PROVE  TypeOK'
  BY <1>1 DEF TypeOK, Begin, Goto, treeVars, storeVars, lockVars, gcVars
<1>2. {"lock", "shared", "lookup"} \subseteq Steps
  BY DEF Steps, Working, ReadStep
<1>3. Kind = {"record", "restore", "get", "gc", "gc-by-size"}
  BY DEF Kind
<1>4. ASSUME NEW f \in File, BeginRecord(p, f) PROVE TypeOK'
  BY <1>1, <1>2, <1>3, <1>4 DEF BeginRecord
<1>5. ASSUME NEW f \in File, BeginRestore(p, f) PROVE TypeOK'
  <2>1. PICK i \in DOMAIN log[f] :
          Begin(p, [kind |-> "restore", file |-> f, at |-> log[f][i].ts], "lock")
    BY <1>5 DEF BeginRestore
  <2>2. log[f][i].ts \in Nat
    BY DEF TypeOK, Revision
  <2> QED BY <1>1, <1>2, <1>3, <2>1, <2>2
<1>6. ASSUME NEW f \in File, BeginGet(p, f) PROVE TypeOK'
  BY <1>1, <1>2, <1>3, <1>6, StoreAssumption DEF BeginGet
<1>7. ASSUME NEW k \in {"gc", "gc-by-size"}, BeginGC(p, k) PROVE TypeOK'
  BY <1>1, <1>2, <1>3, <1>7, AnyFileIsFile DEF BeginGC
<1> QED BY <1>4, <1>5, <1>6, <1>7 DEF BeginCall

\* Every line that a log can be read at is a revision, the last one too.
LEMMA LogTypes ==
  ASSUME TypeOK, LogsHaveNewest, NEW f \in File
  PROVE  /\ IsLog(log[f])
         /\ \A i \in DOMAIN log[f] :
              /\ log[f][i] \in Revision
              /\ [hash |-> log[f][i].hash, label |-> log[f][i].label] \in Line
         /\ HasLast(log[f]) => /\ Last(log[f]) \in Revision
                               /\ NewestLine(log[f]) \in DOMAIN log[f]
<1>1. IsLog(log[f])
  BY DEF TypeOK, LogsHaveNewest, IsLog
<1>2. \A i \in DOMAIN log[f] : log[f][i] \in Revision
  BY DEF TypeOK
<1>3. HasLast(log[f]) => NewestLine(log[f]) \in DOMAIN log[f]
  BY <1>1, NewestExists
<1> QED BY <1>1, <1>2, <1>3 DEF Last, Revision, Line

\* What a step sets of a process has the type of that variable.
LEMMA TypeGoto ==
  ASSUME TypeOK, NEW p \in Proc, NEW s \in Steps, Goto(p, s)
  PROVE  pc' \in [Proc -> Steps]
BY DEF TypeOK, Goto

\* So does the end of the work of a call.
LEMMA TypeEnds ==
  ASSUME TypeOK, NEW p \in Proc, NEW r \in {"ok", "error"}, Ends(p, r)
  PROVE  /\ pc' \in [Proc -> Steps]
         /\ result' \in [Proc -> {"none", "ok", "error"}]
BY DEF TypeOK, Ends, Goto, Steps, Working

\* The line prepared for appendLog is a line.
LEMMA TypeAppendLine ==
  ASSUME TypeOK, NEW p \in Proc, NEW l \in Label, NEW h \in Hash, ToAppend(p, l, h)
  PROVE  pc' \in [Proc -> Steps] /\ line' \in [Proc -> Line]
BY DEF TypeOK, ToAppend, Goto, Steps, Working, WriteStep, Line

\* The revision looked up is a line.
LEMMA TypeTarget ==
  ASSUME TypeOK, NEW p \in Proc, NEW t \in Line, target' = [target EXCEPT ![p] = t]
  PROVE  target' \in [Proc -> Line]
BY DEF TypeOK

\* The line that AppendLog writes is a revision.
LEMMA TypeAppend ==
  ASSUME TypeOK, LogsHaveNewest, NEW p \in Proc, AppendLog(p)
  PROVE  TypeOK'
<1> DEFINE f == FileOf(p)
           r == [ts |-> NextTimestamp(log[f]), hash |-> line[p].hash, label |-> line[p].label]
<1>1. f \in File
  BY DEF TypeOK, FileOf
<1>2. r \in Revision
  <2>1. NextTimestamp(log[f]) \in Nat
    BY <1>1, LogTypes DEF NextTimestamp, TypeOK, Revision
  <2> QED BY <2>1 DEF TypeOK, Line, Revision
<1>3. log' = [log EXCEPT ![f] = Appended(@, r)]
  BY DEF AppendLog
<1>4. /\ DOMAIN Appended(log[f], r) \subseteq Nat \ {0}
      /\ Appended(log[f], r) \in [DOMAIN Appended(log[f], r) -> Revision]
  <2>1. /\ DOMAIN Appended(log[f], r) = DOMAIN log[f] \cup {NextLine(log[f])}
        /\ Appended(log[f], r)[NextLine(log[f])] = r
        /\ \A i \in DOMAIN log[f] : Appended(log[f], r)[i] = log[f][i]
        /\ NextLine(log[f]) \in Nat \ {0}
    <3>1. IsLog(log[f])
      BY <1>1, LogTypes
    <3> HIDE DEF f, r
    <3> QED BY <3>1, AppendedLog, NextLineIsNew
  <2>2. \A i \in DOMAIN Appended(log[f], r) : Appended(log[f], r)[i] \in Revision
    BY <1>1, <1>2, <2>1, LogTypes
  <2>3. Appended(log[f], r) = [i \in DOMAIN Appended(log[f], r) |-> Appended(log[f], r)[i]]
    BY DEF Appended
  <2> QED BY <1>1, <2>1, <2>2, <2>3 DEF TypeOK
<1>5. /\ DOMAIN log' = File
      /\ \A g \in File : /\ DOMAIN log'[g] \subseteq Nat \ {0}
                         /\ log'[g] \in [DOMAIN log'[g] -> Revision]
  BY <1>1, <1>3, <1>4 DEF TypeOK
<1>6. pc' \in [Proc -> Steps] /\ result' \in [Proc -> {"none", "ok", "error"}]
  <2>1. "apply" \in Steps /\ "unlock" \in Steps
    BY DEF Steps, Working, WriteStep
  <2>2. CASE line[p].label = "pre-restore"
    BY <2>1, <2>2, TypeGoto DEF AppendLog, TypeOK
  <2>3. CASE line[p].label # "pre-restore"
    BY <2>3, TypeEnds DEF AppendLog
  <2> QED BY <2>2, <2>3
<1> QED BY <1>5, <1>6 DEF AppendLog, TypeOK, treeVars, lockVars, gcVars

\* A log rewritten without some of its lines holds revisions.
LEMMA TypeRewrite ==
  ASSUME TypeOK, NEW p \in Proc, NEW f \in File, RewriteLog(p, f)
  PROVE  TypeOK'
<1> DEFINE W == Without(log[f], drop[p][f])
<1>1. DOMAIN W \subseteq DOMAIN log[f] /\ \A i \in DOMAIN W : W[i] = log[f][i]
  BY DEF Without
<1>2. W \in [DOMAIN W -> Revision] /\ HashesOf(W) \subseteq Hash
  <2>1. W = [i \in DOMAIN W |-> W[i]]
    BY DEF Without
  <2>2. \A i \in DOMAIN W : W[i] \in Revision
    BY <1>1 DEF TypeOK
  <2> QED BY <2>1, <2>2 DEF HashesOf, Revision
<1>3. log' = [log EXCEPT ![f] = W]
  BY DEF RewriteLog
<1>4. /\ DOMAIN log' = File
      /\ \A g \in File : /\ DOMAIN log'[g] \subseteq Nat \ {0}
                         /\ log'[g] \in [DOMAIN log'[g] -> Revision]
  BY <1>1, <1>2, <1>3 DEF TypeOK
<1>5. referenced' \in [Proc -> SUBSET Hash] /\ todo' \in [Proc -> SUBSET File]
  BY <1>2 DEF RewriteLog, TypeOK
<1>6. pc' \in [Proc -> Steps]
  <2>1. CASE todo[p] = {f}
    <3>1. "sweep" \in Steps
      BY DEF Steps, Working, WriteStep
    <3> QED BY <2>1, <3>1, TypeGoto DEF RewriteLog
  <2>2. CASE todo[p] # {f}
    BY <2>2 DEF RewriteLog, TypeOK
  <2> QED BY <2>1, <2>2
<1> QED BY <1>4, <1>5, <1>6 DEF RewriteLog, TypeOK, treeVars, lockVars

\* Every step of a call keeps the types.
LEMMA TypeStep ==
  ASSUME TypeOK, LogsHaveNewest, NEW p \in Proc, Step(p)
  PROVE  TypeOK'
<1>0. /\ FileOf(p) \in File /\ LogOf(p) = log[FileOf(p)]
      /\ {"lookup", "fetch", "open", "stream", "rewrite"} \subseteq Steps
  BY DEF TypeOK, FileOf, LogOf, Steps, Working, WriteStep, ReadStep
<1> USE DEF treeVars, storeVars, lockVars, gcVars
<1>1. ASSUME AcquireExclusive(p) PROVE TypeOK'
  BY <1>1 DEF AcquireExclusive, TypeOK, localVars, Goto, Steps, Working, WriteStep
<1>2. ASSUME AcquireShared(p) PROVE TypeOK'
  BY <1>2 DEF AcquireShared, TypeOK, localVars, Goto, Steps, Working, ReadStep
<1>3. ASSUME LockTimeout(p) \/ Unlock(p) PROVE TypeOK'
  BY <1>3, TypeLeave DEF LockTimeout, Unlock
<1>4. ASSUME OpenAbsent(p) PROVE TypeOK'
  <2>1. HasLast(LogOf(p)) => Last(LogOf(p)).hash \in Hash
    BY <1>0, LogTypes DEF Revision
  <2>2. /\ pc' \in [Proc -> Steps] /\ line' \in [Proc -> Line]
        /\ result' \in [Proc -> {"none", "ok", "error"}]
    <3>1. CASE Forced(p)
      <4>1. PICK h \in Hash : ToAppend(p, "pre-restore", h)
        BY <1>4, <2>1, <3>1 DEF OpenAbsent, Hash
      <4> QED BY <1>4, <3>1, <4>1, TypeAppendLine DEF OpenAbsent, TypeOK, Label
    <3>2. CASE ~Forced(p) /\ (~HasLast(LogOf(p)) \/ Last(LogOf(p)).label = "delete")
      <4>1. Ends(p, "ok") /\ UNCHANGED line
        BY <1>4, <3>2 DEF OpenAbsent
      <4> QED BY <4>1, TypeEnds DEF TypeOK
    <3>3. CASE ~Forced(p) /\ ~(~HasLast(LogOf(p)) \/ Last(LogOf(p)).label = "delete")
      <4>1. ToAppend(p, "delete", Last(LogOf(p)).hash) /\ UNCHANGED result
        BY <1>4, <3>3 DEF OpenAbsent
      <4>2. Last(LogOf(p)).hash \in Hash /\ "delete" \in Label
        BY <2>1, <3>3 DEF Label
      <4> QED BY <4>1, <4>2, TypeAppendLine DEF TypeOK
    <3> QED BY <3>1, <3>2, <3>3
  <2> QED BY <1>4, <2>2 DEF OpenAbsent, TypeOK
<1>5. ASSUME OpenPresent(p) PROVE TypeOK'
  <2>1. /\ seen' = [seen EXCEPT ![p] = disk[FileOf(p)]]
        /\ UNCHANGED <<treeVars, storeVars, lockVars, opCount, call, line, target, gcVars>>
    BY <1>5 DEF OpenPresent
  <2>2. FileOf(p) \in File /\ "stream" \in Steps
    BY DEF FileOf, TypeOK, Steps, Working, WriteStep
  <2>3. seen' \in [Proc -> Content \cup {Absent}]
    BY <2>1, <2>2 DEF TypeOK
  <2>4. pc' \in [Proc -> Steps] /\ result' \in [Proc -> {"none", "ok", "error"}]
    <3>1. CASE OverCap(p, disk[FileOf(p)])
      BY <1>5, <3>1, TypeEnds DEF OpenPresent
    <3>2. CASE ~OverCap(p, disk[FileOf(p)])
      BY <1>5, <3>2, <2>2, TypeGoto DEF OpenPresent, TypeOK
    <3> QED BY <3>1, <3>2
  <2> QED BY <1>0, <2>1, <2>3, <2>4 DEF TypeOK, treeVars, storeVars, lockVars, gcVars
<1>6. ASSUME CaptureStream(p) PROVE TypeOK'
  <2>1. PICK c \in {seen[p], disk[FileOf(p)]} \ {Absent} :
          /\ seen' = [seen EXCEPT ![p] = c] /\ objects' = objects \cup {c}
          /\ IF Unchanged(p, c)
               THEN Ends(p, "ok") /\ UNCHANGED line
               ELSE /\ ToAppend(p, IF Forced(p) THEN "pre-restore"
                                 ELSE IF HasLast(LogOf(p)) THEN "modify"
                                 ELSE "first-seen", c)
                    /\ UNCHANGED result
    BY <1>6 DEF CaptureStream
  <2>2. c \in Content /\ c \in Hash
    BY <1>0 DEF TypeOK, Hash
  <2>3. /\ pc' \in [Proc -> Steps] /\ line' \in [Proc -> Line]
        /\ result' \in [Proc -> {"none", "ok", "error"}]
    <3>1. CASE Unchanged(p, c)
      BY <2>1, <3>1, TypeEnds DEF TypeOK
    <3>2. CASE ~Unchanged(p, c)
      <4>1. PICK l \in Label : ToAppend(p, l, c) /\ UNCHANGED result
        BY <2>1, <3>2 DEF Label
      <4> QED BY <2>2, <4>1, TypeAppendLine DEF TypeOK
    <3> QED BY <3>1, <3>2
  <2> QED BY <1>6, <2>1, <2>2, <2>3 DEF CaptureStream, TypeOK
<1>7. ASSUME AppendLog(p) PROVE TypeOK'
  BY <1>7, TypeAppend
<1>8. ASSUME RestoreValidate(p) PROVE TypeOK'
  <2>1. CASE Ends(p, "error") /\ UNCHANGED target
    BY <1>8, <2>1, TypeEnds DEF RestoreValidate, TypeOK
  <2>2. ASSUME NEW i \in FirstAt(LogOf(p), call[p].at), Goto(p, "open"), UNCHANGED result,
               target' = [target EXCEPT ![p] = [hash |-> LogOf(p)[i].hash, label |-> LogOf(p)[i].label]]
        PROVE  TypeOK'
    <3>1. [hash |-> LogOf(p)[i].hash, label |-> LogOf(p)[i].label] \in Line
      BY <1>0, LogTypes DEF FirstAt
    <3>2. target' \in [Proc -> Line] /\ pc' \in [Proc -> Steps]
      BY <1>0, <2>2, <3>1, TypeTarget, TypeGoto
    <3> QED BY <1>8, <2>2, <3>2 DEF RestoreValidate, TypeOK
  <2> QED BY <1>8, <2>1, <2>2 DEF RestoreValidate
<1>9. ASSUME RestoreApply(p) PROVE TypeOK'
  <2>1. CASE Ends(p, "error") /\ UNCHANGED <<disk, line>>
    BY <1>9, <2>1, TypeEnds DEF RestoreApply, TypeOK
  <2>2. CASE /\ ~(target[p].label # "delete" /\ target[p].hash \notin objects)
             /\ ToAppend(p, "restore", target[p].hash) /\ UNCHANGED result
             /\ disk' = [disk EXCEPT ![FileOf(p)] =
                           IF target[p].label = "delete" THEN Absent ELSE target[p].hash]
    <3>1. target[p].hash \in Hash /\ "restore" \in Label
      BY DEF TypeOK, Line, Label
    <3>2. pc' \in [Proc -> Steps] /\ line' \in [Proc -> Line]
      BY <2>2, <3>1, TypeAppendLine
    <3>3. disk' \in [File -> Content \cup {Absent}]
      BY <1>0, <2>2 DEF TypeOK
    <3> QED BY <1>9, <2>2, <3>2, <3>3 DEF RestoreApply, TypeOK
  <2> QED BY <1>9, <2>1, <2>2 DEF RestoreApply
<1>10. ASSUME GetLookup(p) PROVE TypeOK'
  <2>1. CASE Ends(p, "error") /\ UNCHANGED target
    BY <1>10, <2>1, TypeEnds DEF GetLookup, TypeOK
  <2>2. ASSUME NEW i \in FirstAt(LogOf(p), call[p].at), Goto(p, "fetch"), UNCHANGED result,
               target' = [target EXCEPT ![p] = [hash |-> LogOf(p)[i].hash, label |-> LogOf(p)[i].label]]
        PROVE  TypeOK'
    <3>1. [hash |-> LogOf(p)[i].hash, label |-> LogOf(p)[i].label] \in Line
      BY <1>0, LogTypes DEF FirstAt
    <3>2. target' \in [Proc -> Line] /\ pc' \in [Proc -> Steps]
      BY <1>0, <2>2, <3>1, TypeTarget, TypeGoto
    <3> QED BY <1>10, <2>2, <3>2 DEF GetLookup, TypeOK
  <2> QED BY <1>10, <2>1, <2>2 DEF GetLookup
<1>11. ASSUME GetFetch(p) PROVE TypeOK'
  <2>1. PICK r \in {"ok", "error"} : Ends(p, r)
    BY <1>11 DEF GetFetch
  <2> QED BY <1>11, <2>1, TypeEnds DEF GetFetch, TypeOK
<1>12. ASSUME NEW gone \in [File -> SUBSET Nat], PlanRewrite(p, gone) PROVE TypeOK'
  BY <1>0, <1>12 DEF PlanRewrite, TypeOK, Goto
<1>13. ASSUME GCPlan(p) \/ GCBySizePlan(p) PROVE TypeOK'
  <2>1. \A f \in File : Expired(f) \subseteq Nat /\ OverBudget(f) \subseteq Nat
    BY DEF Expired, OverBudget, Evictable, TypeOK
  <2> QED BY <1>12, <1>13, <2>1 DEF GCPlan, GCBySizePlan
<1>14. ASSUME GCBySizeNoop(p) PROVE TypeOK'
  BY <1>14, TypeEnds DEF GCBySizeNoop, TypeOK
<1>15. ASSUME NEW f \in File, RewriteLog(p, f) PROVE TypeOK'
  BY <1>15, TypeRewrite
<1>16. ASSUME SweepObject(p) PROVE TypeOK'
  BY <1>16 DEF SweepObject, localVars, TypeOK
<1>17. ASSUME SweepDone(p) PROVE TypeOK'
  BY <1>17, TypeEnds DEF SweepDone, TypeOK
<1> QED
  BY <1>1, <1>2, <1>3, <1>4, <1>5, <1>6, <1>7, <1>8, <1>9, <1>10, <1>11, <1>12,
     <1>13, <1>14, <1>15, <1>16, <1>17 DEF Step

-----------------------------------------------------------------------------
(* The inductive invariant: what a step of one process leaves alone.       *)

\* A step of p is a step of p only.
Own(p) ==
  \A q \in Proc \ {p} :
    /\ pc'[q] = pc[q] /\ call'[q] = call[q] /\ seen'[q] = seen[q]
    /\ line'[q] = line[q] /\ target'[q] = target[q] /\ drop'[q] = drop[q]
    /\ todo'[q] = todo[q] /\ referenced'[q] = referenced[q] /\ result'[q] = result[q]

\* As long as the logs and the objects stay as they are, or another process
\* holds the lock exclusive, a process that takes no step keeps what it knows.
LEMMA Bystander ==
  ASSUME StoreInv, NEW p \in Proc, Own(p), NEW q \in Proc \ {p},
         UNCHANGED <<log, objects>> \/ writer = p,
         q \in readers' <=> q \in readers
  PROVE  ProcInv(q)'
<1>1. CASE UNCHANGED <<log, objects>>
  BY SMTT(30), <1>1 DEF StoreInv, ProcInv, LocalInv, SafeguardTaken, Fetches, Captured, Collected,
              Own, Forced, LogOf, FileOf, TargetInLog, LineFits, DropIsSafe, InUse
<1>2. CASE writer = p
  <2>1. /\ pc[q] \notin WriteStep /\ q \notin readers
        /\ pc[q] = "unlock" => call[q].kind = "get"
    BY <1>2, StoreAssumption DEF StoreInv, LockInv, TypeOK
  <2>2. ProcInv(q)
    BY DEF StoreInv
  <2>3. LocalInv(q)'
    BY <2>1, <2>2 DEF ProcInv, LocalInv, Own, WriteStep
  <2>4. SafeguardTaken(q)' /\ Captured(q)' /\ ~Collected(q)'
    BY <2>1 DEF SafeguardTaken, Captured, Collected, Own, WriteStep
  <2> QED BY <2>1, <2>3, <2>4 DEF ProcInv
<1> QED BY <1>1, <1>2

\* The state of the logs is about the logs.
LEMMA LogInvUnchanged == ASSUME LogInv, UNCHANGED log PROVE LogInv'
BY DEF LogInv, LogsHaveNewest, StrictTimestamps, PairsKept, RestoreHasSafeguard, OnlyChangesRecorded

\* A step inside the critical section leaves the lock as it is.
LEMMA LockKept ==
  ASSUME StoreInv, NEW p \in Proc, Own(p), UNCHANGED <<lockVars, call>>,
         \/ pc[p] \in WriteStep /\ pc'[p] \in WriteStep \cup {"unlock"}
         \/ pc[p] \in ReadStep /\ pc'[p] \in ReadStep \cup {"unlock"}
  PROVE  LockInv'
<1>1. /\ writer' = writer /\ readers' = readers /\ call' = call
      /\ writer # NoProc => readers = {}
  BY DEF StoreInv, LockInv, lockVars
<1>2. ASSUME NEW q \in Proc, q # p
      PROVE  /\ pc'[q] \in WriteStep => writer = q
             /\ pc'[q] = "unlock" /\ call[q].kind # "get" => writer = q
             /\ writer = q => pc'[q] \in WriteStep \cup {"unlock"}
             /\ q \in readers => pc'[q] \in ReadStep \cup {"unlock"}
  <2>1. pc'[q] = pc[q]
    BY <1>2 DEF Own
  <2> QED BY <2>1 DEF StoreInv, LockInv
<1>3. /\ pc'[p] \in WriteStep => writer = p
      /\ pc'[p] = "unlock" /\ call[p].kind # "get" => writer = p
      /\ writer = p => pc'[p] \in WriteStep \cup {"unlock"}
      /\ p \in readers => pc'[p] \in ReadStep \cup {"unlock"}
  <2>1. CASE pc[p] \in WriteStep /\ pc'[p] \in WriteStep \cup {"unlock"}
    BY <2>1 DEF StoreInv, LockInv, WriteStep, ReadStep
  <2>2. CASE pc[p] \in ReadStep /\ pc'[p] \in ReadStep \cup {"unlock"}
    <3>1. call[p].kind = "get"
      BY <2>2 DEF StoreInv, ProcInv, LocalInv
    <3> QED BY <2>2, <3>1 DEF StoreInv, LockInv, WriteStep, ReadStep
  <2> QED BY <2>1, <2>2
<1> QED BY <1>1, <1>2, <1>3 DEF LockInv

\* What is left to show of a step of p.
LEMMA StepKeeps ==
  ASSUME StoreInv, TypeOK', NEW p \in Proc, Own(p),
         UNCHANGED <<log, objects>> \/ writer = p,
         \A q \in Proc \ {p} : q \in readers' <=> q \in readers,
         LockInv', LogInv', ObjectsBacked', ProcInv(p)'
  PROVE  StoreInv'
BY Bystander DEF StoreInv

\* The same for a step that touches neither a log nor an object.
LEMMA QuietStepKeeps ==
  ASSUME StoreInv, TypeOK', NEW p \in Proc, Own(p), UNCHANGED <<log, objects>>,
         \A q \in Proc \ {p} : q \in readers' <=> q \in readers,
         LockInv', ProcInv(p)'
  PROVE  StoreInv'
<1>1. LogInv' /\ ObjectsBacked'
  BY LogInvUnchanged DEF StoreInv, ObjectsBacked
<1> QED BY <1>1, StepKeeps

-----------------------------------------------------------------------------
(* The inductive invariant: one lemma per kind of step.                    *)

\* A call changes the local state of its own process only.
LEMMA OwnCall ==
  ASSUME TypeOK, NEW p \in Proc, BeginCall(p) \/ Step(p) \/ Leave(p)
  PROVE  Own(p)
<1> USE DEF TypeOK, Own, lockVars, gcVars, localVars, Goto, Ends, ToAppend
<1>1. ASSUME BeginCall(p) PROVE Own(p)
  BY <1>1 DEF BeginCall, BeginRecord, BeginRestore, BeginGet, BeginGC, Begin
<1>2. ASSUME Leave(p) PROVE Own(p)
  BY <1>2 DEF Leave
<1>3. ASSUME AcquireExclusive(p) \/ AcquireShared(p) PROVE Own(p)
  BY <1>3 DEF AcquireExclusive, AcquireShared
<1>4. ASSUME OpenAbsent(p) PROVE Own(p)
  BY <1>4 DEF OpenAbsent
<1>5. ASSUME OpenPresent(p) PROVE Own(p)
  BY <1>5 DEF OpenPresent
<1>6. ASSUME CaptureStream(p) PROVE Own(p)
  BY <1>6 DEF CaptureStream
<1>7. ASSUME AppendLog(p) PROVE Own(p)
  BY <1>7 DEF AppendLog
<1>8. ASSUME RestoreValidate(p) PROVE Own(p)
  BY <1>8 DEF RestoreValidate
<1>9. ASSUME RestoreApply(p) PROVE Own(p)
  BY <1>9 DEF RestoreApply
<1>10. ASSUME GetLookup(p) \/ GetFetch(p) PROVE Own(p)
  BY <1>10 DEF GetLookup, GetFetch
<1>11. ASSUME GCPlan(p) \/ GCBySizePlan(p) \/ GCBySizeNoop(p) PROVE Own(p)
  BY <1>11 DEF GCPlan, GCBySizePlan, GCBySizeNoop, PlanRewrite
<1>12. ASSUME NEW f \in File, RewriteLog(p, f) PROVE Own(p)
  BY <1>12 DEF RewriteLog
<1>13. ASSUME SweepObject(p) \/ SweepDone(p) PROVE Own(p)
  BY <1>13 DEF SweepObject, SweepDone
<1> QED
  BY <1>1, <1>2, <1>3, <1>4, <1>5, <1>6, <1>7, <1>8, <1>9, <1>10, <1>11, <1>12, <1>13
  DEF Step, LockTimeout, Unlock

\* The writer is in its writing steps: nobody else is, and nobody reads.
LEMMA WriterHolds ==
  ASSUME StoreInv, NEW p \in Proc, pc[p] \in WriteStep
  PROVE  writer = p /\ readers = {}
BY StoreAssumption DEF StoreInv, LockInv

\* A call starts with nothing in hand.
LEMMA BeginKeeps == ASSUME StoreInv, NEW p \in Proc, BeginCall(p) PROVE StoreInv'
<1>1. TypeOK' /\ Own(p)
  BY TypeBegin, OwnCall DEF StoreInv
<1>2. /\ UNCHANGED <<log, objects, lockVars, referenced>> /\ pc[p] = "idle"
      /\ pc'[p] \in {"lock", "shared", "lookup"}
      /\ pc'[p] = "lock" => call'[p].kind # "get"
      /\ pc'[p] \in {"shared", "lookup"} => call'[p].kind = "get"
      /\ call'[p].kind \in Ops
  <2>1. ASSUME NEW k, NEW f, NEW t, NEW s \in {"lock", "shared", "lookup"},
               Begin(p, [kind |-> k, file |-> f, at |-> t], s)
        PROVE  /\ UNCHANGED <<log, objects, lockVars, referenced>> /\ pc[p] = "idle"
               /\ pc'[p] = s /\ call'[p].kind = k /\ k \in Ops
    BY <2>1 DEF Begin, Goto, storeVars, gcVars, StoreInv, TypeOK
  <2>2. ASSUME NEW f \in File, BeginRecord(p, f) \/ BeginRestore(p, f) PROVE <1>2!:
    <3>1. ASSUME BeginRecord(p, f) PROVE <1>2!:
      BY <2>1, <3>1 DEF BeginRecord
    <3>2. ASSUME BeginRestore(p, f) PROVE <1>2!:
      <4>1. PICK t : Begin(p, [kind |-> "restore", file |-> f, at |-> t], "lock")
        BY <3>2 DEF BeginRestore
      <4> QED BY <2>1, <4>1
    <3> QED BY <2>2, <3>1, <3>2
  <2>3. ASSUME NEW f \in File, BeginGet(p, f) PROVE <1>2!:
    BY <2>1, <2>3 DEF BeginGet
  <2>4. ASSUME NEW k \in {"gc", "gc-by-size"}, BeginGC(p, k) PROVE <1>2!:
    BY <2>1, <2>4 DEF BeginGC
  <2> QED BY <2>2, <2>3, <2>4 DEF BeginCall
<1>3. p \notin readers /\ writer # p /\ referenced[p] = {}
  BY <1>2 DEF StoreInv, LockInv, ProcInv, LocalInv, WriteStep, ReadStep
<1>4. LockInv'
  BY <1>1, <1>2, <1>3 DEF StoreInv, LockInv, Own, lockVars, WriteStep, ReadStep
<1>5. ProcInv(p)'
  BY <1>2, <1>3 DEF ProcInv, LocalInv, SafeguardTaken, Fetches, Captured, Collected,
                    WriteStep, ReadStep, lockVars
<1> QED BY <1>1, <1>2, <1>4, <1>5, QuietStepKeeps DEF lockVars

\* A process that leaves the store, by its own will or not, keeps nothing.
LEMMA LeaveKeeps == ASSUME StoreInv, NEW p \in Proc, Leave(p) PROVE StoreInv'
<1>1. TypeOK' /\ Own(p)
  BY TypeLeave, OwnCall DEF StoreInv
<1>2. /\ UNCHANGED <<log, objects>> /\ pc'[p] = "idle" /\ referenced'[p] = {}
      /\ writer' = IF writer = p THEN NoProc ELSE writer
      /\ readers' = readers \ {p}
  BY DEF Leave, Goto, storeVars, StoreInv, TypeOK
<1>3. LockInv'
  BY <1>1, <1>2, StoreAssumption DEF StoreInv, LockInv, Own, WriteStep, ReadStep, TypeOK
<1>4. ProcInv(p)'
  BY <1>2 DEF ProcInv, LocalInv, SafeguardTaken, Fetches, Captured, Collected, WriteStep, ReadStep
<1> QED BY <1>1, <1>2, <1>3, <1>4, QuietStepKeeps

\* Whoever gets the lock exclusive is alone, whoever gets it shared shares it
\* with readers.
LEMMA AcquireKeeps ==
  ASSUME StoreInv, NEW p \in Proc, AcquireExclusive(p) \/ AcquireShared(p)
  PROVE  StoreInv'
<1>1. TypeOK' /\ Own(p)
  BY TypeStep, OwnCall DEF StoreInv, LogInv, Step
<1>2. ASSUME AcquireExclusive(p) PROVE StoreInv'
  <2>1. /\ UNCHANGED <<log, objects, call, referenced>> /\ pc[p] = "lock"
        /\ writer = NoProc /\ readers = {} /\ writer' = p /\ readers' = {}
        /\ pc'[p] = CASE call[p].kind = "record" -> "open"
                      [] call[p].kind = "restore" -> "validate"
                      [] OTHER -> "plan"
    BY <1>2 DEF AcquireExclusive, Goto, localVars, StoreInv, TypeOK
  <2>2. /\ call[p].kind \in {"record", "restore", "gc", "gc-by-size"}
        /\ call[p].kind \in Ops /\ referenced[p] = {}
    BY <2>1, StoreAssumption DEF StoreInv, ProcInv, LocalInv, Kind
  <2>3. pc'[p] \in {"open", "validate", "plan"}
    BY <2>1
  <2>4. LockInv'
    BY <1>1, <2>1, <2>3, StoreAssumption DEF StoreInv, LockInv, Own, WriteStep, TypeOK
  <2>5. ProcInv(p)'
    BY <2>1, <2>2 DEF ProcInv, LocalInv, SafeguardTaken, Fetches, Captured, Collected,
                      Forced, ReadStep
  <2> QED BY <1>1, <2>1, <2>4, <2>5, QuietStepKeeps
<1>3. ASSUME AcquireShared(p) PROVE StoreInv'
  <2>1. /\ UNCHANGED <<log, objects, writer, call, referenced>> /\ pc[p] = "shared"
        /\ writer = NoProc /\ readers' = readers \cup {p} /\ pc'[p] = "lookup"
    BY <1>3 DEF AcquireShared, Goto, storeVars, localVars, StoreInv, TypeOK
  <2>2. LockInv'
    BY <1>1, <2>1, StoreAssumption DEF StoreInv, LockInv, Own, WriteStep, ReadStep, TypeOK
  <2>3. ProcInv(p)'
    BY <2>1 DEF StoreInv, ProcInv, LocalInv, SafeguardTaken, Fetches, Captured, Collected, ReadStep
  <2> QED BY <1>1, <2>1, <2>2, <2>3, QuietStepKeeps
<1> QED BY <1>2, <1>3

\* Steps of Get: between the two, nobody sweeps.
LEMMA GetKeeps ==
  ASSUME StoreInv, NEW p \in Proc, GetLookup(p) \/ GetFetch(p)
  PROVE  StoreInv'
<1>1. TypeOK' /\ Own(p)
  BY TypeStep, OwnCall DEF StoreInv, LogInv, Step
<1>2. /\ UNCHANGED <<log, objects, lockVars, call>> /\ pc[p] \in ReadStep
      /\ pc'[p] \in {"fetch", "unlock"} /\ call[p].kind = "get" /\ "get" \in Ops
  <2>1. pc \in [Proc -> Steps] /\ LocalInv(p)
    BY DEF StoreInv, TypeOK, ProcInv
  <2>2. CASE GetLookup(p)
    <3>1. /\ UNCHANGED <<log, objects, lockVars, call>> /\ pc[p] = "lookup"
          /\ pc'[p] \in {"fetch", "unlock"}
      BY <2>1, <2>2 DEF GetLookup, Goto, Ends, storeVars
    <3> QED BY <2>1, <3>1 DEF LocalInv, ReadStep
  <2>3. CASE GetFetch(p)
    <3>1. /\ UNCHANGED <<log, objects, lockVars, call>> /\ pc[p] = "fetch"
          /\ pc'[p] = "unlock"
      BY <2>1, <2>3 DEF GetFetch, Goto, Ends, storeVars
    <3> QED BY <2>1, <3>1 DEF LocalInv, ReadStep
  <2> QED BY <2>2, <2>3
<1>3. LockInv'
  BY <1>1, <1>2, LockKept DEF ReadStep
<1>4. Fetches(p)'
  <2>1. SUFFICES ASSUME pc'[p] = "fetch" PROVE target'[p].hash \in objects
    BY <1>2 DEF Fetches
  <2>2. PICK i \in DOMAIN LogOf(p) :
          target' = [target EXCEPT ![p] = [hash |-> LogOf(p)[i].hash, label |-> LogOf(p)[i].label]]
    BY <2>1 DEF GetLookup, GetFetch, Goto, Ends, FirstAt, StoreInv, TypeOK
  <2>3. FileOf(p) \in File
    BY DEF StoreInv, TypeOK, FileOf
  <2> QED BY <2>2, <2>3 DEF StoreInv, TypeOK, ObjectsBacked, HashesOf, LogOf
<1>5. ProcInv(p)'
  BY <1>2, <1>4 DEF ProcInv, LocalInv, SafeguardTaken, Captured, Collected, ReadStep
<1> QED BY <1>1, <1>2, <1>3, <1>5, QuietStepKeeps DEF lockVars

\* The steps of record() and Restore that write no log line and no object.
LEMMA OpenKeeps ==
  ASSUME StoreInv, NEW p \in Proc,
         OpenAbsent(p) \/ OpenPresent(p) \/ RestoreValidate(p) \/ RestoreApply(p)
  PROVE  StoreInv'
<1> DEFINE f == FileOf(p)
<1>0. f \in File /\ LogOf(p) = log[f]
  BY DEF StoreInv, TypeOK, FileOf, LogOf
<1>1. TypeOK' /\ Own(p)
  BY TypeStep, OwnCall DEF StoreInv, LogInv, Step
<1>2. /\ UNCHANGED <<log, objects, lockVars, call, referenced>>
      /\ pc[p] \in {"open", "validate", "apply"}
      /\ pc'[p] \in {"open", "stream", "append", "unlock"}
  BY DEF OpenAbsent, OpenPresent, RestoreValidate, RestoreApply, ToAppend, Goto, Ends,
         storeVars, gcVars, StoreInv, TypeOK
<1>3. LockInv'
  BY <1>1, <1>2, LockKept DEF WriteStep
<1>4. ProcInv(p) /\ readers = {} /\ call[p].kind \in {"record", "restore"}
  BY <1>2, WriterHolds DEF StoreInv, WriteStep, ProcInv, LocalInv, Forced
<1>5. HasLast(log[f]) => NewestLine(log[f]) \in DOMAIN log[f]
  BY <1>0, LogTypes DEF StoreInv, LogInv
<1>6. ASSUME OpenAbsent(p) PROVE ProcInv(p)'
  <2>1. /\ seen'[p] = Absent /\ target' = target /\ pc[p] = "open"
        /\ pc'[p] \in {"append", "unlock"}
    BY <1>6 DEF OpenAbsent, ToAppend, Goto, Ends, StoreInv, TypeOK
  <2>2. ASSUME pc'[p] = "append" PROVE LineFits(p)'
    <3>1. CASE Forced(p)
      <4>1. HasLast(log[f])
        BY <1>0, <1>4, <2>1, <3>1 DEF ProcInv, LocalInv, TargetInLog, HasLast
      <4>2. line'[p] = [hash |-> Last(log[f]).hash, label |-> "pre-restore"]
        BY <1>0, <1>6, <3>1, <4>1 DEF OpenAbsent, ToAppend, StoreInv, TypeOK
      <4>3. Last(log[f]).hash \in objects
        BY <1>0, <1>5, <4>1 DEF StoreInv, ObjectsBacked, HashesOf, Last
      <4> QED BY <1>2, <2>1, <3>1, <4>1, <4>2, <4>3 DEF LineFits, LogOf, FileOf, Forced
    <3>2. CASE ~Forced(p)
      <4>1. /\ HasLast(log[f]) /\ Last(log[f]).label # "delete"
            /\ line'[p] = [hash |-> Last(log[f]).hash, label |-> "delete"]
        BY <1>0, <1>6, <2>2, <3>2 DEF OpenAbsent, ToAppend, Ends, Goto, StoreInv, TypeOK
      <4>2. Last(log[f]).hash \in objects
        BY <1>0, <1>5, <4>1 DEF StoreInv, ObjectsBacked, HashesOf, Last
      <4> QED BY <1>2, <2>1, <3>2, <4>1, <4>2 DEF LineFits, LogOf, FileOf, Forced
    <3> QED BY <3>1, <3>2
  <2>3. Captured(p)'
    <3>1. ASSUME pc'[p] = "unlock", call[p].kind = "record"
          PROVE  HasLast(log[f]) => Last(log[f]).label = "delete"
      BY <1>0, <1>6, <3>1 DEF OpenAbsent, ToAppend, Goto, Ends, Forced, StoreInv, TypeOK
    <3> QED BY <1>2, <2>1, <3>1 DEF Captured, LogOf, FileOf
  <2>4. LocalInv(p)'
    BY <1>2, <1>4, <2>1, <2>2 DEF ProcInv, LocalInv, ReadStep, Forced, TargetInLog, LogOf, FileOf
  <2> QED BY <1>2, <1>4, <2>1, <2>3, <2>4 DEF ProcInv, SafeguardTaken, Collected, lockVars
<1>7. ASSUME OpenPresent(p) PROVE ProcInv(p)'
  <2>1. /\ seen'[p] = disk[f] /\ disk[f] # Absent /\ target' = target /\ pc[p] = "open"
        /\ pc'[p] \in {"stream", "unlock"}
        /\ pc'[p] = "unlock" => Size[disk[f]] > MaxFileBytes
    BY <1>7 DEF OpenPresent, OverCap, Goto, Ends, StoreInv, TypeOK
  <2>2. LocalInv(p)'
    BY <1>2, <1>4, <2>1 DEF ProcInv, LocalInv, ReadStep, Forced, TargetInLog, LogOf, FileOf
  <2>3. Captured(p)'
    BY <2>1 DEF Captured
  <2> QED BY <1>2, <1>4, <2>1, <2>2, <2>3 DEF ProcInv, SafeguardTaken, Collected, lockVars
<1>8. ASSUME RestoreValidate(p) PROVE ProcInv(p)'
  <2>1. pc[p] = "validate" /\ Forced(p) /\ pc'[p] \in {"open", "unlock"}
    BY <1>4, <1>8 DEF RestoreValidate, Goto, Ends, StoreInv, TypeOK, ProcInv, LocalInv
  <2>2. pc'[p] = "open" => TargetInLog(p)'
    <3>1. ASSUME pc'[p] = "open"
          PROVE  \E i \in DOMAIN LogOf(p) : target'[p] = [hash |-> LogOf(p)[i].hash, label |-> LogOf(p)[i].label]
      BY <1>8, <3>1 DEF RestoreValidate, Ends, Goto, FirstAt, StoreInv, TypeOK
    <3>2. pc'[p] = "open" => \E i \in DOMAIN LogOf(p) :
            LogOf(p)[i].hash = target'[p].hash /\ LogOf(p)[i].label = target'[p].label
      <4>1. SUFFICES ASSUME pc'[p] = "open"
                     PROVE  \E i \in DOMAIN LogOf(p) :
                              LogOf(p)[i].hash = target'[p].hash /\ LogOf(p)[i].label = target'[p].label
        OBVIOUS
      <4>2. PICK i \in DOMAIN LogOf(p) :
              target'[p] = [hash |-> LogOf(p)[i].hash, label |-> LogOf(p)[i].label]
        BY <3>1, <4>1
      <4>3. target'[p].hash = LogOf(p)[i].hash /\ target'[p].label = LogOf(p)[i].label
        BY <4>2
      <4> QED BY <4>3
    <3> QED BY <1>2, <3>2 DEF TargetInLog, LogOf, FileOf
  <2>3. LocalInv(p)'
    BY <1>2, <1>4, <2>1, <2>2 DEF ProcInv, LocalInv, ReadStep, Forced
  <2> QED BY <1>2, <1>4, <2>1, <2>3 DEF ProcInv, SafeguardTaken, Captured, Collected, Forced, lockVars
<1>9. ASSUME RestoreApply(p) PROVE ProcInv(p)'
  <2>1. /\ pc[p] = "apply" /\ Forced(p) /\ pc'[p] \in {"append", "unlock"}
        /\ target' = target /\ seen' = seen
        /\ pc'[p] = "append" => line'[p] = [hash |-> target[p].hash, label |-> "restore"]
    BY <1>4, <1>9 DEF RestoreApply, ToAppend, Goto, Ends, StoreInv, TypeOK, ProcInv, LocalInv
  <2>2. SafeguardTaken(p)
    BY <1>4 DEF ProcInv
  <2>3. target[p].hash \in objects
    BY <1>0, <2>1, <2>2 DEF SafeguardTaken, TargetInLog, StoreInv, ObjectsBacked, HashesOf
  <2>4. pc'[p] = "append" => LineFits(p)'
    BY <1>0, <1>2, <2>1, <2>2, <2>3 DEF LineFits, SafeguardTaken, LogOf, FileOf, Forced
  <2>5. LocalInv(p)'
    BY <1>2, <1>4, <2>1, <2>2, <2>4
    DEF ProcInv, LocalInv, ReadStep, Forced, SafeguardTaken, TargetInLog, LogOf, FileOf
  <2> QED BY <1>2, <1>4, <2>1, <2>5 DEF ProcInv, SafeguardTaken, Captured, Collected, Forced, lockVars
<1> QED BY <1>1, <1>2, <1>3, <1>6, <1>7, <1>8, <1>9, QuietStepKeeps DEF lockVars

\* A capture puts its object in place before its line.
LEMMA CaptureKeeps == ASSUME StoreInv, NEW p \in Proc, CaptureStream(p) PROVE StoreInv'
<1> DEFINE f == FileOf(p)
<1>0. f \in File /\ LogOf(p) = log[f]
  BY DEF StoreInv, TypeOK, FileOf, LogOf
<1>1. TypeOK' /\ Own(p)
  BY TypeStep, OwnCall DEF StoreInv, LogInv, Step
<1>2. PICK c \in {seen[p], disk[f]} \ {Absent} :
        /\ seen' = [seen EXCEPT ![p] = c] /\ objects' = objects \cup {c}
        /\ IF Unchanged(p, c)
             THEN Ends(p, "ok") /\ UNCHANGED line
             ELSE /\ ToAppend(p, IF Forced(p) THEN "pre-restore"
                               ELSE IF HasLast(LogOf(p)) THEN "modify"
                               ELSE "first-seen", c)
                  /\ UNCHANGED result
  BY DEF CaptureStream
<1>3. /\ UNCHANGED <<log, lockVars, call, referenced, target>> /\ pc[p] = "stream"
      /\ seen'[p] = c /\ c # Absent
      /\ pc'[p] = IF Unchanged(p, c) THEN "unlock" ELSE "append"
  BY <1>2 DEF CaptureStream, ToAppend, Goto, Ends, gcVars, StoreInv, TypeOK
<1>4. LockInv'
  BY <1>1, <1>3, LockKept DEF WriteStep
<1>5. ProcInv(p) /\ writer = p /\ readers = {} /\ call[p].kind \in {"record", "restore"}
  BY <1>3, WriterHolds DEF StoreInv, WriteStep, ProcInv, LocalInv
<1>6. LogInv' /\ ObjectsBacked'
  BY <1>2, <1>3, LogInvUnchanged DEF StoreInv, ObjectsBacked
<1>7. ASSUME ~Unchanged(p, c) PROVE LineFits(p)'
  <2>1. line'[p] = [hash |-> c, label |-> IF Forced(p) THEN "pre-restore"
                                          ELSE IF HasLast(log[f]) THEN "modify"
                                          ELSE "first-seen"]
    BY <1>0, <1>2, <1>7 DEF ToAppend, StoreInv, TypeOK
  <2>2. Forced(p) => HasLast(log[f])
    BY <1>0, <1>3, <1>5 DEF ProcInv, LocalInv, TargetInLog, HasLast
  <2>3. ~Forced(p) /\ HasLast(log[f]) => Last(log[f]).hash # c \/ Last(log[f]).label = "delete"
    BY <1>0, <1>7 DEF Unchanged
  <2>4. /\ HasLast(LogOf(p))' <=> HasLast(log[f])
        /\ Last(LogOf(p))' = Last(log[f])
        /\ Forced(p)' <=> Forced(p)
        /\ c \in objects'
    BY <1>2, <1>3 DEF LogOf, FileOf, Forced
  <2> QED BY <1>3, <2>1, <2>2, <2>3, <2>4 DEF LineFits
<1>8. Captured(p)'
  <2>1. Unchanged(p, c) =>
          HasLast(log[f]) /\ Last(log[f]).hash = c /\ Last(log[f]).label # "delete"
    BY <1>0 DEF Unchanged
  <2> QED BY <1>3, <2>1 DEF Captured, LogOf, FileOf
<1>9. LocalInv(p)'
  BY <1>3, <1>5, <1>7 DEF ProcInv, LocalInv, ReadStep, Forced, TargetInLog, LogOf, FileOf
<1>10. ProcInv(p)'
  BY <1>3, <1>5, <1>8, <1>9 DEF ProcInv, SafeguardTaken, Collected, lockVars
<1> QED BY <1>1, <1>3, <1>4, <1>5, <1>6, <1>10, StepKeeps DEF lockVars

\* The line appended is the newest, later than the line before it.
LEMMA AppendKeeps == ASSUME StoreInv, NEW p \in Proc, AppendLog(p) PROVE StoreInv'
<1> DEFINE f == FileOf(p)
           r == [ts |-> NextTimestamp(log[f]), hash |-> line[p].hash, label |-> line[p].label]
           n == NextLine(log[f])
<1>0. f \in File /\ LogOf(p) = log[f]
  BY DEF StoreInv, TypeOK, FileOf, LogOf
<1>1. TypeOK' /\ Own(p)
  BY TypeStep, OwnCall DEF StoreInv, LogInv, Step
<1>2. /\ UNCHANGED <<objects, lockVars, call, referenced, target, seen>> /\ pc[p] = "append"
      /\ log' = [log EXCEPT ![f] = Appended(@, r)]
      /\ pc'[p] = IF line[p].label = "pre-restore" THEN "apply" ELSE "unlock"
  BY DEF AppendLog, Goto, Ends, gcVars, StoreInv, TypeOK
<1>3. LockInv'
  BY <1>1, <1>2, LockKept DEF WriteStep
<1>4. /\ ProcInv(p) /\ writer = p /\ readers = {} /\ call[p].kind \in {"record", "restore"}
      /\ LineFits(p)
  BY <1>2, WriterHolds DEF StoreInv, WriteStep, ProcInv, LocalInv
<1>5. log'[f] = Appended(log[f], r) /\ \A g \in File \ {f} : log'[g] = log[g]
  BY <1>0, <1>2 DEF StoreInv, TypeOK
<1>6. /\ IsLog(log[f])
      /\ DOMAIN log'[f] = DOMAIN log[f] \cup {n} /\ log'[f][n] = r
      /\ \A i \in DOMAIN log[f] : log'[f][i] = log[f][i]
      /\ IsNewest(log'[f], n) /\ HasLast(log'[f]) /\ Last(log'[f]) = r
      /\ n \in Nat \ {0} /\ (\A i \in DOMAIN log[f] : i < n)
      /\ ~HasLast(log[f]) <=> n = 1
  <2>1. IsLog(log[f])
    BY <1>0, LogTypes DEF StoreInv, LogInv
  <2>2. /\ DOMAIN Appended(log[f], r) = DOMAIN log[f] \cup {n}
        /\ Appended(log[f], r)[n] = r
        /\ \A i \in DOMAIN log[f] : Appended(log[f], r)[i] = log[f][i]
        /\ IsNewest(Appended(log[f], r), n)
        /\ HasLast(Appended(log[f], r)) /\ Last(Appended(log[f], r)) = r
    <3> HIDE DEF f, r
    <3> QED BY SMTT(30), <2>1, AppendedLog
  <2>3. /\ n \in Nat \ {0} /\ (\A i \in DOMAIN log[f] : i < n)
        /\ ~HasLast(log[f]) <=> n = 1
    <3> HIDE DEF f, r
    <3> QED BY <2>1, NextLineIsNew
  <2> HIDE DEF f, r, n
  <2> QED BY <1>5, <2>1, <2>2, <2>3
<1>7. HasLast(log[f]) =>
        /\ IsNewest(log[f], NewestLine(log[f])) /\ NewestLine(log[f]) \in DOMAIN log[f]
        /\ n = NewestLine(log[f]) + 1
  BY <1>6, NewestExists
<1>8. LogsHaveNewest'
  BY <1>5, <1>6 DEF StoreInv, LogInv, LogsHaveNewest, IsNewest
<1>9. StrictTimestamps'
  <2>1. \A i \in DOMAIN log[f] : log[f][i].ts < r.ts
    <3> TAKE i \in DOMAIN log[f]
    <3>1. HasLast(log[f])
      BY DEF HasLast
    <3>2. log[f][i].ts <= Last(log[f]).ts
      <4> DEFINE m == NewestLine(log[f])
      <4>1. m \in DOMAIN log[f] /\ i <= m /\ i \in Nat /\ m \in Nat
        BY <1>6, <1>7, <3>1 DEF IsNewest, IsLog
      <4>2. log[f][i].ts \in Nat /\ log[f][m].ts \in Nat
        BY <1>0, <4>1, LogTypes DEF StoreInv, LogInv, Revision
      <4>3. i < m => log[f][i].ts < log[f][m].ts
        BY <1>0, <4>1 DEF StoreInv, LogInv, StrictTimestamps
      <4> QED BY <4>1, <4>2, <4>3 DEF Last
    <3>3. Last(log[f]).ts < r.ts /\ r.ts \in Nat /\ Last(log[f]).ts \in Nat /\ log[f][i].ts \in Nat
      BY <1>0, <3>1, LogTypes DEF NextTimestamp, StoreInv, LogInv, TypeOK, Revision
    <3> QED BY <3>2, <3>3
  <2>2. \A i, j \in DOMAIN log'[f] : i < j => log'[f][i].ts < log'[f][j].ts
    BY <1>0, <1>6, <2>1 DEF StoreInv, LogInv, StrictTimestamps, IsLog
  <2> QED BY <1>5, <2>2 DEF StoreInv, LogInv, StrictTimestamps
<1>10. PairsKept'
  <2>1. SUFFICES ASSUME "gc" \notin Ops, NEW g \in File, NEW j \in DOMAIN log'[g],
                        log'[g][j].label = "restore"
                 PROVE  \E i \in DOMAIN log'[g] : Paired(log'[g], i, j)
    BY DEF PairsKept, RestoreHasSafeguard
  <2>2. RestoreHasSafeguard
    BY <2>1 DEF StoreInv, LogInv, PairsKept
  <2>3. CASE g # f
    BY <1>5, <2>1, <2>2, <2>3 DEF RestoreHasSafeguard
  <2>4. CASE g = f /\ j # n
    <3>1. PICK i \in DOMAIN log[f] : Paired(log[f], i, j)
      BY <1>0, <1>6, <2>1, <2>2, <2>4 DEF RestoreHasSafeguard
    <3>2. Paired(Appended(log[f], r), i, j)
      <4> HIDE DEF f, r
      <4> QED BY <1>6, <3>1, AppendedPairs
    <3> QED BY <1>5, <1>6, <2>4, <3>1, <3>2
  <2>5. CASE g = f /\ j = n
    <3>1. line[p].label = "restore"
      BY <1>6, <2>1, <2>5
    <3>2. HasLast(log[f]) /\ Last(log[f]).label = "pre-restore"
      BY <1>0, <1>4, <3>1 DEF LineFits
    <3>3. Paired(Appended(log[f], r), NewestLine(log[f]), n)
      <4>1. r.label = "restore"
        BY <3>1
      <4> HIDE DEF f, r
      <4> QED BY <1>6, <3>2, <4>1, AppendedPairs
    <3> QED BY <1>5, <1>6, <1>7, <2>5, <3>2, <3>3
  <2> QED BY <2>3, <2>4, <2>5
<1>11. OnlyChangesRecorded'
  <2>1. SUFFICES ASSUME NEW i \in DOMAIN log'[f]
                 PROVE  /\ (log'[f][i].label = "first-seen") <=> (i = 1)
                        /\ i - 1 \in DOMAIN log'[f] =>
                             /\ log'[f][i].label = "modify" =>
                                  log'[f][i].hash # log'[f][i - 1].hash \/ log'[f][i - 1].label = "delete"
                             /\ log'[f][i].label = "delete" =>
                                  log'[f][i].hash = log'[f][i - 1].hash /\ log'[f][i - 1].label # "delete"
    BY <1>5 DEF StoreInv, LogInv, OnlyChangesRecorded
  <2>2. CASE i = n
    <3>1. LineFits(p)
      BY <1>4
    <3>2. (r.label = "first-seen") <=> (n = 1)
      BY <1>0, <1>6, <3>1 DEF LineFits
    <3>3. n - 1 \in DOMAIN log'[f] => HasLast(log[f]) /\ log'[f][n - 1] = Last(log[f])
      BY <1>6, <1>7 DEF Last, HasLast, IsLog
    <3> QED BY <1>0, <1>6, <2>2, <3>1, <3>2, <3>3 DEF LineFits
  <2>3. CASE i # n
    <3>1. i \in DOMAIN log[f] /\ i \in Nat
      BY <1>6, <2>3 DEF IsLog
    <3>2. i - 1 \in DOMAIN log'[f] => i - 1 \in DOMAIN log[f]
      BY <1>6, <3>1
    <3> QED BY <1>0, <1>6, <3>1, <3>2 DEF StoreInv, LogInv, OnlyChangesRecorded
  <2> QED BY <2>2, <2>3
<1>12. LogInv'
  BY <1>8, <1>9, <1>10, <1>11 DEF LogInv
<1>13. ObjectsBacked'
  BY <1>0, <1>2, <1>4, <1>5, <1>6 DEF StoreInv, ObjectsBacked, HashesOf, LineFits
<1>14. Forced(p) => TargetInLog(p)'
  <2> SUFFICES ASSUME Forced(p) PROVE TargetInLog(p)'
    OBVIOUS
  <2>1. PICK i \in DOMAIN log[f] :
          log[f][i].hash = target[p].hash /\ log[f][i].label = target[p].label
    BY <1>0, <1>2, <1>4 DEF ProcInv, LocalInv, TargetInLog
  <2>2. i \in DOMAIN log'[f] /\ log'[f][i] = log[f][i]
    BY <1>6, <2>1
  <2>3. LogOf(p)' = log'[f] /\ target' = target
    BY <1>2 DEF LogOf, FileOf
  <2> QED BY <2>1, <2>2, <2>3 DEF TargetInLog
<1>15. /\ LogOf(p)' = log'[f] /\ Forced(p)' <=> Forced(p)
       /\ line[p].label = "pre-restore" => Forced(p)
       /\ ~Forced(p) => line[p].label \notin {"pre-restore", "restore"}
  BY <1>2, <1>4 DEF LogOf, FileOf, Forced, LineFits
<1>16. SafeguardTaken(p)' /\ Captured(p)'
  <2>1. /\ HasLast(LogOf(p))' /\ Last(LogOf(p))' = r
        /\ line[p].label = "pre-restore" /\ seen[p] # Absent => line[p].hash = seen[p]
    <3>1. line[p].label = "pre-restore" /\ seen[p] # Absent => line[p].hash = seen[p]
      BY <1>4 DEF LineFits
    <3>2. HasLast(log'[f]) /\ Last(log'[f]) = r
      BY <1>6
    <3> HIDE DEF r
    <3> QED BY <1>2, <3>1, <3>2 DEF LogOf, FileOf
  <2>2. SafeguardTaken(p)'
    BY <1>2, <1>14, <1>15, <2>1 DEF SafeguardTaken
  <2>3. call[p].kind = "record" =>
          IF seen[p] = Absent THEN r.label = "delete"
          ELSE r.hash = seen[p] /\ r.label # "delete"
    BY <1>4, <1>15 DEF LineFits, Forced
  <2>4. Captured(p)'
    BY <1>2, <2>1, <2>3 DEF Captured
  <2> QED BY <2>2, <2>4
<1>17. LocalInv(p)'
  BY <1>2, <1>4, <1>14, <1>15 DEF ProcInv, LocalInv, ReadStep
<1>18. ProcInv(p)'
  BY <1>2, <1>4, <1>16, <1>17 DEF ProcInv, Collected, lockVars
<1> QED BY <1>1, <1>2, <1>3, <1>4, <1>12, <1>13, <1>18, StepKeeps DEF lockVars

-----------------------------------------------------------------------------
(* The collections.                                                        *)

\* Retention by age leaves out no newest line.
LEMMA ExpiredIsSafe == ASSUME NEW f \in File, NEW i \in Expired(f) PROVE ~IsNewest(log[f], i)
BY DEF Expired, Pinned

\* Retention by size leaves out no newest line, and both lines of a pair or
\* none: they form one unit, so the same units come before them.
LEMMA OverBudgetIsSafe ==
  ASSUME StoreInv, NEW f \in File, NEW i \in OverBudget(f)
  PROVE  /\ ~IsNewest(log[f], i)
         /\ \A j \in DOMAIN log[f] : Paired(log[f], i, j) => j \in OverBudget(f)
<1>1. i \in Evictable(f) /\ BytesOf(AllLines \ EvictedBefore(f, i)) > MaxBytes
  BY DEF OverBudget
<1>2. ~IsNewest(log[f], i)
  BY <1>1 DEF Evictable, Pinned
<1>3. ASSUME NEW j \in DOMAIN log[f], Paired(log[f], i, j)
      PROVE  j \in OverBudget(f)
  <2>1. IsLog(log[f])
    BY LogTypes DEF StoreInv, LogInv
  <2>2. UnitHead(log[f], i) = UnitHead(log[f], j) /\ (i \in Pinned(log[f]) <=> j \in Pinned(log[f]))
    BY <1>3, <2>1, PairIsUnit, PairPinnedTogether
  <2>3. j \in Evictable(f)
    BY <1>1, <2>2 DEF Evictable
  <2>4. EvictedBefore(f, i) = EvictedBefore(f, j)
    BY <2>2 DEF EvictedBefore
  <2>5. BytesOf(AllLines \ EvictedBefore(f, j)) > MaxBytes
    BY <1>1, <2>4
  <2> QED BY <2>3, <2>5 DEF OverBudget
<1> QED BY <1>2, <1>3

\* The plan of a collection is safe to carry out.
LEMMA PlanKeeps ==
  ASSUME StoreInv, NEW p \in Proc, GCPlan(p) \/ GCBySizePlan(p) \/ GCBySizeNoop(p)
  PROVE  StoreInv'
<1>1. TypeOK' /\ Own(p)
  BY TypeStep, OwnCall DEF StoreInv, LogInv, Step
<1>2. /\ UNCHANGED <<log, objects, lockVars, call, referenced>> /\ pc[p] = "plan"
      /\ pc'[p] \in {"rewrite", "unlock"}
  BY DEF GCPlan, GCBySizePlan, GCBySizeNoop, PlanRewrite, Goto, Ends, storeVars, gcVars,
         StoreInv, TypeOK
<1>3. LockInv'
  BY <1>1, <1>2, LockKept DEF WriteStep
<1>4. /\ ProcInv(p) /\ readers = {} /\ referenced[p] = {}
      /\ call[p].kind \in {"gc", "gc-by-size"} /\ call[p].kind \in Ops
  BY <1>2, WriterHolds DEF StoreInv, WriteStep, ProcInv, LocalInv
<1>5. ASSUME pc'[p] = "rewrite"
      PROVE  DropIsSafe(p)' /\ todo'[p] = File
  <2>1. todo'[p] = File
    BY <1>5 DEF GCPlan, GCBySizePlan, GCBySizeNoop, PlanRewrite, Ends, Goto, StoreInv, TypeOK
  <2>2. CASE call[p].kind = "gc"
    <3>1. drop'[p] = [f \in File |-> Expired(f)]
      BY <1>5, <2>2 DEF GCPlan, GCBySizePlan, GCBySizeNoop, PlanRewrite, Ends, StoreInv, TypeOK
    <3> QED BY <1>2, <1>4, <2>1, <2>2, <3>1, ExpiredIsSafe DEF DropIsSafe
  <2>3. CASE call[p].kind = "gc-by-size"
    <3>1. drop'[p] = [f \in File |-> OverBudget(f)]
      BY <1>5, <2>3 DEF GCPlan, GCBySizePlan, GCBySizeNoop, PlanRewrite, Ends, Goto, StoreInv, TypeOK
    <3> QED BY <1>2, <2>1, <3>1, OverBudgetIsSafe DEF DropIsSafe
  <2> QED BY <1>4, <2>2, <2>3
<1>6. pc'[p] = "rewrite" => referenced'[p] = InUse(File \ todo[p])' /\ InUse(File \ todo[p])' = {}
  BY <1>2, <1>4, <1>5 DEF InUse
<1>7. LocalInv(p)'
  BY <1>2, <1>4, <1>5, <1>6 DEF LocalInv, ReadStep
<1>8. ~Collected(p)'
  BY <1>2, <1>4 DEF Collected, GCPlan, GCBySizePlan, GCBySizeNoop, PlanRewrite, Goto,
                    StoreInv, TypeOK
<1>9. ProcInv(p)'
  BY <1>2, <1>4, <1>7, <1>8 DEF ProcInv, SafeguardTaken, Captured, lockVars
<1> QED BY <1>1, <1>2, <1>3, <1>9, QuietStepKeeps DEF lockVars

\* Rewriting one log keeps its newest line and, without retention by age, its
\* pairs.
LEMMA RewriteKeeps ==
  ASSUME StoreInv, NEW p \in Proc, NEW f \in File, RewriteLog(p, f)
  PROVE  StoreInv'
<1> DEFINE W == Without(log[f], drop[p][f])
<1>1. TypeOK' /\ Own(p)
  BY TypeStep, OwnCall DEF StoreInv, LogInv, Step
<1>2. /\ UNCHANGED <<objects, lockVars, call>> /\ pc[p] = "rewrite" /\ f \in todo[p]
      /\ log'[f] = W /\ \A g \in File \ {f} : log'[g] = log[g]
      /\ pc'[p] = IF todo[p] = {f} THEN "sweep" ELSE "rewrite"
      /\ todo'[p] = todo[p] \ {f} /\ drop' = drop
      /\ referenced'[p] = referenced[p] \cup HashesOf(W)
  BY DEF RewriteLog, Goto, gcVars, StoreInv, TypeOK
<1>3. LockInv'
  BY <1>1, <1>2, LockKept DEF WriteStep
<1>4. /\ ProcInv(p) /\ writer = p /\ readers = {} /\ DropIsSafe(p)
      /\ call[p].kind \in {"gc", "gc-by-size"} /\ call[p].kind \in Ops
      /\ referenced[p] = InUse(File \ todo[p])
  BY <1>2, WriterHolds DEF StoreInv, WriteStep, ProcInv, LocalInv
<1>5. /\ IsLog(log[f]) /\ IsLog(W)
      /\ DOMAIN W = DOMAIN log[f] \ drop[p][f]
      /\ \A i \in DOMAIN W : W[i] = log[f][i]
      /\ \A i \in DOMAIN log[f] : IsNewest(log[f], i) => IsNewest(W, i)
      /\ \A i, j \in DOMAIN W : Paired(log[f], i, j) => Paired(W, i, j)
  <2>1. IsLog(log[f]) /\ \A i \in drop[p][f] : ~IsNewest(log[f], i)
    BY <1>4, LogTypes DEF StoreInv, LogInv, DropIsSafe
  <2>2. /\ DOMAIN W = DOMAIN log[f] \ drop[p][f]
        /\ \A i \in DOMAIN log[f] \ drop[p][f] : W[i] = log[f][i]
        /\ IsLog(W)
        /\ \A i \in DOMAIN log[f] : IsNewest(log[f], i) => IsNewest(W, i)
        /\ \A i, j \in DOMAIN log[f] \ drop[p][f] : Paired(log[f], i, j) => Paired(W, i, j)
    BY <2>1, WithoutLog
  <2> HIDE DEF W
  <2> QED BY <2>1, <2>2
<1>6. LogsHaveNewest'
  BY <1>2, <1>5 DEF StoreInv, LogInv, LogsHaveNewest, IsLog
<1>7. StrictTimestamps'
  BY <1>2, <1>5 DEF StoreInv, LogInv, StrictTimestamps
<1>8. PairsKept'
  <2>1. SUFFICES ASSUME "gc" \notin Ops, NEW j \in DOMAIN W, W[j].label = "restore"
                 PROVE  \E i \in DOMAIN W : Paired(W, i, j)
    BY <1>2 DEF PairsKept, RestoreHasSafeguard, StoreInv, LogInv
  <2>2. PICK i \in DOMAIN log[f] : Paired(log[f], i, j)
    BY <1>5, <2>1 DEF StoreInv, LogInv, PairsKept, RestoreHasSafeguard
  <2>3. i \notin drop[p][f]
    BY <1>4, <1>5, <2>1, <2>2 DEF DropIsSafe
  <2> QED BY <1>5, <2>1, <2>2, <2>3
<1>9. OnlyChangesRecorded'
  BY <1>2, <1>5 DEF StoreInv, LogInv, OnlyChangesRecorded
<1>10. LogInv'
  BY <1>6, <1>7, <1>8, <1>9 DEF LogInv
<1>11. HashesOf(W) \subseteq HashesOf(log[f])
  BY <1>5 DEF HashesOf
<1>12. ObjectsBacked'
  BY <1>2, <1>11 DEF StoreInv, ObjectsBacked
<1>13. DropIsSafe(p)'
  BY <1>2, <1>4, <1>5 DEF DropIsSafe, IsNewest, Paired, Adjacent
<1>14. referenced'[p] = InUse(File \ todo[p])'
  <2>1. File \ todo'[p] = (File \ todo[p]) \cup {f}
    BY <1>2
  <2>2. \A g \in File \ todo[p] : HashesOf(log'[g]) = HashesOf(log[g])
    BY <1>2
  <2> QED BY <1>2, <1>4, <2>1, <2>2 DEF InUse
<1>15. pc'[p] = "sweep" => File \ todo'[p] = File
  BY <1>2
<1>16. LocalInv(p)'
  BY <1>2, <1>4, <1>13, <1>14, <1>15 DEF LocalInv, ReadStep
<1>17. ProcInv(p)'
  BY <1>2, <1>4, <1>16 DEF ProcInv, SafeguardTaken, Captured, Collected, lockVars
<1> QED BY <1>1, <1>2, <1>3, <1>4, <1>10, <1>12, <1>17, StepKeeps DEF lockVars

\* The sweep removes what no log refers to and stops when that is done.
LEMMA SweepKeeps ==
  ASSUME StoreInv, NEW p \in Proc, SweepObject(p) \/ SweepDone(p)
  PROVE  StoreInv'
<1>1. TypeOK' /\ Own(p)
  BY TypeStep, OwnCall DEF StoreInv, LogInv, Step
<1>2. /\ UNCHANGED <<log, lockVars, call, referenced>> /\ pc[p] = "sweep"
      /\ pc'[p] \in {"sweep", "unlock"}
      /\ objects' \subseteq objects /\ objects \cap referenced[p] \subseteq objects'
      /\ pc'[p] = "unlock" => objects' \subseteq referenced[p]
  BY DEF SweepObject, SweepDone, localVars, storeVars, gcVars, Ends, Goto, StoreInv, TypeOK
<1>3. LockInv'
  BY <1>1, <1>2, LockKept DEF WriteStep
<1>4. /\ ProcInv(p) /\ writer = p /\ readers = {} /\ referenced[p] = InUse(File)
      /\ call[p].kind \in {"gc", "gc-by-size"} /\ call[p].kind \in Ops
  BY <1>2, WriterHolds DEF StoreInv, WriteStep, ProcInv, LocalInv
<1>5. ObjectsBacked'
  BY <1>2, <1>4 DEF StoreInv, ObjectsBacked, InUse
<1>6. InUse(File)' = InUse(File) /\ InUse(File) \subseteq objects
  BY <1>2 DEF InUse, StoreInv, ObjectsBacked
<1>7. LocalInv(p)'
  BY <1>2, <1>4, <1>6 DEF LocalInv, ReadStep
<1>8. ProcInv(p)'
  BY <1>2, <1>4, <1>6, <1>7 DEF ProcInv, SafeguardTaken, Captured, Collected, lockVars
<1>9. LogInv'
  BY <1>2, LogInvUnchanged DEF StoreInv
<1> QED BY <1>1, <1>2, <1>3, <1>4, <1>5, <1>8, <1>9, StepKeeps DEF lockVars

-----------------------------------------------------------------------------
(* The theorems.                                                           *)

\* The invariant holds in the first state.
LEMMA StoreInit == ASSUME Init PROVE StoreInv
<1>1. TypeOK
  BY TypeInit
<1>2. /\ \A f \in File : log[f] = EmptyLog /\ DOMAIN EmptyLog = {}
      /\ writer = NoProc /\ readers = {}
      /\ \A p \in Proc : pc[p] = "idle" /\ referenced[p] = {}
  BY DEF Init, EmptyLog
<1>3. LockInv
  BY <1>2, StoreAssumption DEF LockInv, WriteStep, ReadStep
<1>4. LogInv /\ ObjectsBacked
  BY <1>2 DEF LogInv, LogsHaveNewest, HasLast, StrictTimestamps, PairsKept,
              RestoreHasSafeguard, OnlyChangesRecorded, ObjectsBacked, HashesOf
<1>5. \A p \in Proc : ProcInv(p)
  BY <1>2 DEF ProcInv, LocalInv, SafeguardTaken, Fetches, Captured, Collected, ReadStep
<1> QED BY <1>1, <1>3, <1>4, <1>5 DEF StoreInv

\* The editor, the clock and the making of the directory touch nothing that a
\* call relies on.
LEMMA WorldKeeps ==
  ASSUME StoreInv, (\E f \in File : Edit(f)) \/ Tick \/ InitStore \/ UNCHANGED vars
  PROVE  StoreInv'
<1>1. TypeOK'
  <2>1. TypeOK
    BY DEF StoreInv
  <2>2. ASSUME NEW f \in File, Edit(f) PROVE TypeOK'
    BY <2>1, <2>2 DEF TypeOK, Edit, storeVars, lockVars, localVars
  <2>3. ASSUME Tick PROVE TypeOK'
    BY <2>1, <2>3, StoreAssumption DEF TypeOK, Tick, storeVars, lockVars, localVars
  <2>4. ASSUME InitStore PROVE TypeOK'
    BY <2>1, <2>4 DEF TypeOK, InitStore, treeVars, lockVars, localVars
  <2>5. ASSUME UNCHANGED vars PROVE TypeOK'
    BY <2>1, <2>5 DEF TypeOK, vars
  <2> QED BY <2>2, <2>3, <2>4, <2>5
<1>2. UNCHANGED <<objects, log, writer, readers, pc, call, seen, line, target, drop, todo,
                  referenced, result>>
  BY DEF Edit, Tick, InitStore, vars, storeVars, lockVars, localVars
<1>3. LockInv' /\ LogInv' /\ ObjectsBacked'
  BY <1>2, LogInvUnchanged DEF StoreInv, LockInv, ObjectsBacked
<1>4. \A p \in Proc : ProcInv(p)'
  BY <1>2 DEF StoreInv, ProcInv, LocalInv, SafeguardTaken, Fetches, Captured, Collected,
              Forced, LogOf, FileOf, TargetInLog, LineFits, DropIsSafe, InUse
<1> QED BY <1>1, <1>3, <1>4 DEF StoreInv

\* Every step keeps the invariant.
LEMMA StoreNext == ASSUME StoreInv, [Next]_vars PROVE StoreInv'
<1>1. ASSUME NEW p \in Proc, Step(p) PROVE StoreInv'
  BY <1>1, AcquireKeeps, LeaveKeeps, OpenKeeps, CaptureKeeps, AppendKeeps, GetKeeps,
     PlanKeeps, RewriteKeeps, SweepKeeps DEF Step, LockTimeout, Unlock
<1>2. ASSUME NEW p \in Proc, BeginCall(p) \/ Abort(p) PROVE StoreInv'
  BY <1>2, BeginKeeps, LeaveKeeps DEF Abort
<1> QED BY <1>1, <1>2, WorldKeeps DEF Next

\* The inductive invariant holds in every state of the store.
THEOREM StoreInvariant == Spec => []StoreInv
<1> QED BY StoreInit, StoreNext, PTL DEF Spec

\* Every variable keeps its type, whatever calls interleave.
THEOREM TypeCorrect == Spec => []TypeOK
<1>1. StoreInv => TypeOK
  BY DEF StoreInv
<1> QED BY <1>1, StoreInvariant, PTL

\* Every revision that a log names has its object, for any number of
\* processes, crashes included.
THEOREM ObjectsAlwaysBacked == Spec => []ObjectsBacked
<1>1. StoreInv => ObjectsBacked
  BY DEF StoreInv
<1> QED BY <1>1, StoreInvariant, PTL

\* Revision timestamps strictly increase, however the clock moves.
THEOREM TimestampsAlwaysStrict == Spec => []StrictTimestamps
<1>1. StoreInv => StrictTimestamps
  BY DEF StoreInv, LogInv
<1> QED BY <1>1, StoreInvariant, PTL

\* Without retention by age, no restore in a log lacks its safeguard.
THEOREM SafeguardsKept == ASSUME "gc" \notin Ops PROVE Spec => []RestoreHasSafeguard
<1>1. StoreInv => RestoreHasSafeguard
  BY DEF StoreInv, LogInv, PairsKept
<1> QED BY <1>1, StoreInvariant, PTL

\* A Record that returns has recorded what it read; only changes are recorded.
THEOREM RecordIsSound == Spec => [](RecordCaptures /\ OnlyChangesRecorded)
<1>1. StoreInv => RecordCaptures /\ OnlyChangesRecorded
  BY DEF StoreInv, LogInv, ProcInv, RecordCaptures
<1> QED BY <1>1, StoreInvariant, PTL

\* No restore changes the working tree before its safeguard is in the log.
THEOREM RestoreIsGuarded == Spec => []SafeguardFirst
<1>1. StoreInv => SafeguardFirst
  BY DEF StoreInv, ProcInv, SafeguardFirst
<1> QED BY <1>1, StoreInvariant, PTL

\* A Get under the shared lock never finds a revision without its object.
THEOREM LockedGetIsSafe == Spec => []LockedGetFinds
<1>1. StoreInv => LockedGetFinds
  BY DEF StoreInv, ProcInv, LockedGetFinds
<1> QED BY <1>1, StoreInvariant, PTL

\* A collection that ends well leaves no object unused and none missing.
THEOREM CollectionIsSound == Spec => []CollectionIsExact
<1>1. StoreInv => CollectionIsExact
  BY DEF StoreInv, ProcInv, CollectionIsExact
<1> QED BY <1>1, StoreInvariant, PTL

\* Only a capture, an append, a rewrite and a sweep touch the logs or the pool.
LEMMA PoolSteps ==
  ASSUME StoreInv, [Next]_vars
  PROVE  \/ UNCHANGED <<log, objects>>
         \/ \E p \in Proc : CaptureStream(p) \/ AppendLog(p) \/ SweepObject(p)
                              \/ \E f \in File : RewriteLog(p, f)
<1> DEFINE Still == UNCHANGED <<log, objects>>
<1>1. ASSUME NEW p \in Proc, BeginCall(p) PROVE Still
  BY <1>1 DEF BeginCall, BeginRecord, BeginRestore, BeginGet, BeginGC, Begin, storeVars
<1>2. ASSUME NEW p \in Proc, Abort(p) \/ LockTimeout(p) \/ Unlock(p) PROVE Still
  BY <1>2 DEF Abort, LockTimeout, Unlock, Leave, storeVars
<1>3. ASSUME NEW p \in Proc, AcquireExclusive(p) \/ AcquireShared(p) \/ OpenAbsent(p)
               \/ OpenPresent(p) \/ RestoreValidate(p) \/ RestoreApply(p)
      PROVE  Still
  BY <1>3 DEF AcquireExclusive, AcquireShared, OpenAbsent, OpenPresent,
              RestoreValidate, RestoreApply, storeVars
<1>4. ASSUME NEW p \in Proc, GetLookup(p) \/ GetFetch(p) \/ GCPlan(p) \/ GCBySizePlan(p)
               \/ GCBySizeNoop(p) \/ SweepDone(p)
      PROVE  Still
  BY <1>4 DEF GetLookup, GetFetch, GCPlan, GCBySizePlan, GCBySizeNoop, PlanRewrite,
              SweepDone, storeVars
<1>5. ASSUME (\E f \in File : Edit(f)) \/ Tick \/ InitStore \/ UNCHANGED vars PROVE Still
  BY <1>5 DEF Edit, Tick, InitStore, vars, storeVars
<1> QED BY <1>1, <1>2, <1>3, <1>4, <1>5 DEF Next, Step

\* Only an append and a rewrite touch a log.
LEMMA LogSteps ==
  ASSUME StoreInv, [Next]_vars
  PROVE  \/ UNCHANGED log
         \/ \E p \in Proc : AppendLog(p) \/ \E f \in File : RewriteLog(p, f)
BY PoolSteps DEF CaptureStream, SweepObject

\* P1 for every instance: no step takes the newest revision of a file.
THEOREM NewestAlwaysSurvives == Spec => NewestSurvives
<1> DEFINE Kept == \A f \in File : \A i \in DOMAIN log[f] :
                     IsNewest(log[f], i) => i \in DOMAIN log'[f] /\ log'[f][i] = log[f][i]
<1>1. ASSUME StoreInv, [Next]_vars PROVE Kept
  <2>1. CASE UNCHANGED log
    BY <2>1
  <2>2. ASSUME NEW p \in Proc, AppendLog(p) PROVE Kept
    <3> DEFINE f == FileOf(p)
               r == [ts |-> NextTimestamp(log[f]), hash |-> line[p].hash, label |-> line[p].label]
    <3>1. /\ f \in File /\ IsLog(log[f])
          /\ log' = [log EXCEPT ![f] = Appended(@, r)]
      BY <1>1, <2>2, LogTypes DEF StoreInv, LogInv, TypeOK, FileOf, AppendLog
    <3>2. \A i \in DOMAIN log[f] : i \in DOMAIN Appended(log[f], r) /\ Appended(log[f], r)[i] = log[f][i]
      <4>1. IsLog(log[f])
        BY <3>1
      <4> HIDE DEF f, r
      <4> QED BY <4>1, AppendedKeeps
    <3> HIDE DEF f, r
    <3> QED BY <1>1, <3>1, <3>2 DEF StoreInv, TypeOK
  <2>3. ASSUME NEW p \in Proc, NEW f \in File, RewriteLog(p, f) PROVE Kept
    <3>1. DropIsSafe(p) /\ log' = [log EXCEPT ![f] = Without(@, drop[p][f])]
      BY <1>1, <2>3 DEF RewriteLog, StoreInv, ProcInv, LocalInv
    <3> QED BY <1>1, <3>1 DEF DropIsSafe, Without, StoreInv, TypeOK
  <2> QED BY <1>1, <2>1, <2>2, <2>3, LogSteps
<1>2. ASSUME StoreInv, [Next]_vars PROVE [Kept]_vars
  BY <1>1, <1>2
<1> QED BY <1>2, StoreInvariant, PTL DEF Spec, NewestSurvives

-----------------------------------------------------------------------------
(* Sums over a finite set.  A fold over a set is a function on its subsets *)
(* that a recursive definition determines; what is said of it here is      *)
(* shown by looking at a smallest subset of which it would not be true.    *)

\* Among some subsets of a finite set there is a smallest.
LEMMA SmallestSubset ==
  ASSUME NEW S, IsFiniteSet(S), NEW T \in SUBSET (SUBSET S), T # {}
  PROVE  \E t \in T : \A u \in T : u \subseteq t => u = t
<1>1. IsWellFoundedOn(StrictSubsetOrdering(S), SUBSET S)
  BY FS_StrictSubsetOrderingWellFounded, FS_FiniteSubsetsOfFinite
<1>2. \E t \in T : \A u \in T : ~ (<<u, t>> \in StrictSubsetOrdering(S))
  BY <1>1, WFMin
<1> QED BY <1>2 DEF StrictSubsetOrdering

\* Among some numbers there is a smallest.
LEMMA SmallestNumber ==
  ASSUME NEW T \in SUBSET Nat, T # {}
  PROVE  \E t \in T : \A u \in T : t <= u
<1>1. \E t \in T : \A u \in T : ~ (<<u, t>> \in OpToRel(<, Nat))
  BY NatLessThanWellFounded, WFMin
<1>2. PICK t \in T : \A u \in T : ~ (u < t)
  BY <1>1 DEF OpToRel
<1> QED BY <1>2

\* The element of a set that a fold takes.
First(s) == CHOOSE x \in s : TRUE

\* g adds up the weights w over every subset of S.
Sums(w, S, g) ==
  g = [s \in SUBSET S |-> IF s = {} THEN 0 ELSE w[First(s)] + g[s \ {First(s)}]]

\* Two such functions agree where both are defined.
LEMMA SumIsUnique ==
  ASSUME NEW S, IsFiniteSet(S), NEW w, NEW R, R \subseteq S, NEW g, NEW h,
         Sums(w, S, g), Sums(w, R, h)
  PROVE  \A s \in SUBSET R : g[s] = h[s]
<1> DEFINE T == {s \in SUBSET R : g[s] # h[s]}
<1>1. SUFFICES ASSUME T # {} PROVE FALSE
  OBVIOUS
<1>2. IsFiniteSet(R) /\ T \in SUBSET (SUBSET R)
  BY FS_Subset
<1>3. PICK t \in T : \A u \in T : u \subseteq t => u = t
  <2> HIDE DEF T
  <2> QED BY <1>1, <1>2, SmallestSubset
<1>4. t # {}
  BY DEF Sums
<1>5. First(t) \in t
  BY <1>4 DEF First
<1>6. g[t \ {First(t)}] = h[t \ {First(t)}]
  BY <1>3, <1>5
<1> QED BY <1>4, <1>5, <1>6 DEF Sums

\* There is one for every finite set.
LEMMA SumExists ==
  ASSUME NEW S, IsFiniteSet(S), NEW w
  PROVE  \E g : Sums(w, S, g)
<1> DEFINE Bad == {s \in SUBSET S : ~ \E g : Sums(w, s, g)}
<1>1. SUFFICES ASSUME Bad # {} PROVE FALSE
  OBVIOUS
<1>2. PICK b \in Bad : \A u \in Bad : u \subseteq b => u = b
  <2>1. Bad \in SUBSET (SUBSET S)
    OBVIOUS
  <2> HIDE DEF Bad
  <2> QED BY <1>1, <2>1, SmallestSubset
<1>3. \A s \in (SUBSET b) \ {b} : \E g : Sums(w, s, g)
  BY <1>2
<1> DEFINE part == [s \in (SUBSET b) \ {b} |-> CHOOSE g : Sums(w, s, g)]
<1>4. \A s \in (SUBSET b) \ {b} : Sums(w, s, part[s])
  BY <1>3
<1> HIDE DEF part
<1> DEFINE below == [s \in (SUBSET b) \ {b} |-> part[s][s]]
           all == [s \in SUBSET b |->
                     IF s = {} THEN 0 ELSE w[First(s)] + below[s \ {First(s)}]]
<1>5. ASSUME NEW s \in (SUBSET b) \ {b}, s # {}
      PROVE  below[s] = w[First(s)] + below[s \ {First(s)}]
  <2>1. First(s) \in s /\ s \ {First(s)} \in (SUBSET b) \ {b} /\ IsFiniteSet(s)
    BY <1>5, <1>2, FS_Subset DEF First
  <2>2. part[s][s] = w[First(s)] + part[s][s \ {First(s)}]
    BY <1>4, <1>5 DEF Sums
  <2>3. part[s][s \ {First(s)}] = part[s \ {First(s)}][s \ {First(s)}]
    <3> DEFINE r == s \ {First(s)}
    <3>1. r \subseteq s /\ Sums(w, s, part[s]) /\ Sums(w, r, part[r]) /\ r \in SUBSET r
      BY <1>4, <2>1
    <3> HIDE DEF r
    <3>2. part[s][r] = part[r][r]
      BY <2>1, <3>1, SumIsUnique
    <3> QED BY <3>2 DEF r
  <2> QED BY <2>1, <2>2, <2>3
<1>6. b # {} => below[{}] = 0
  BY <1>4 DEF Sums
<1>7. \A s \in (SUBSET b) \ {b} : all[s] = below[s]
  BY <1>5, <1>6
<1>8. ASSUME NEW s \in SUBSET b, s # {} PROVE all[s] = w[First(s)] + all[s \ {First(s)}]
  <2>1. s \ {First(s)} \in (SUBSET b) \ {b}
    BY <1>8 DEF First
  <2> QED BY <1>7, <1>8, <2>1
<1>9. all = [s \in SUBSET b |-> IF s = {} THEN 0 ELSE w[First(s)] + all[s \ {First(s)}]]
  <2>1. all[{}] = 0 /\ all = [s \in SUBSET b |-> all[s]]
    OBVIOUS
  <2> HIDE DEF all
  <2>2. \A s \in SUBSET b : all[s] = IF s = {} THEN 0 ELSE w[First(s)] + all[s \ {First(s)}]
    BY <1>8, <2>1
  <2> QED BY <2>1, <2>2
<1>10. Sums(w, b, all)
  BY <1>9 DEF Sums
<1> QED BY <1>2, <1>10

\* Sums of natural numbers are natural numbers, whichever element is added
\* last.
LEMMA SumSplits ==
  ASSUME NEW S, IsFiniteSet(S), NEW w, \A x \in S : w[x] \in Nat, NEW g, Sums(w, S, g)
  PROVE  \A s \in SUBSET S :
           /\ g[s] \in Nat
           /\ \A x \in s : g[s] = w[x] + g[s \ {x}]
<1>1. \A s \in SUBSET S : s # {} =>
        First(s) \in s /\ g[s] = w[First(s)] + g[s \ {First(s)}]
  BY DEF Sums, First
<1>2. g[{}] = 0
  BY DEF Sums
<1>3. \A s \in SUBSET S : g[s] \in Nat
  <2> DEFINE T == {s \in SUBSET S : g[s] \notin Nat}
  <2>1. SUFFICES ASSUME T # {} PROVE FALSE
    OBVIOUS
  <2>2. T \in SUBSET (SUBSET S)
    OBVIOUS
  <2>3. PICK t \in T : \A u \in T : u \subseteq t => u = t
    <3> HIDE DEF T
    <3> QED BY <2>1, <2>2, SmallestSubset
  <2>4. t \in SUBSET S /\ g[t] \notin Nat
    OBVIOUS
  <2>5. t # {}
    BY <1>2, <2>4
  <2>6. First(t) \in t /\ g[t] = w[First(t)] + g[t \ {First(t)}]
    BY <1>1, <2>5
  <2>7. g[t \ {First(t)}] \in Nat
    BY <2>3, <2>6
  <2> QED BY <2>4, <2>6, <2>7
<1>4. \A s \in SUBSET S : \A x \in s : g[s] = w[x] + g[s \ {x}]
  <2> DEFINE T == {s \in SUBSET S : \E x \in s : g[s] # w[x] + g[s \ {x}]}
  <2>1. SUFFICES ASSUME T # {} PROVE FALSE
    OBVIOUS
  <2>2. T \in SUBSET (SUBSET S)
    OBVIOUS
  <2>3. PICK t \in T : \A u \in T : u \subseteq t => u = t
    <3> HIDE DEF T
    <3> QED BY <2>1, <2>2, SmallestSubset
  <2>4. PICK x \in t : g[t] # w[x] + g[t \ {x}]
    OBVIOUS
  <2> DEFINE y == First(t)
  <2>5. y \in t /\ g[t] = w[y] + g[t \ {y}] /\ x # y
    BY <1>1, <2>4
  <2> HIDE DEF y
  <2>6. g[t \ {y}] = w[x] + g[(t \ {y}) \ {x}]
    BY <2>3, <2>5
  <2>7. g[t \ {x}] = w[y] + g[(t \ {x}) \ {y}]
    BY <2>3, <2>5
  <2>8. g[(t \ {y}) \ {x}] = g[(t \ {x}) \ {y}]
    <3>1. (t \ {y}) \ {x} = (t \ {x}) \ {y}
      OBVIOUS
    <3> QED BY <3>1
  <2>9. w[x] \in Nat /\ w[y] \in Nat /\ g[(t \ {x}) \ {y}] \in Nat
    BY <1>3, <2>5
  <2> HIDE DEF T
  <2> QED BY <2>4, <2>5, <2>6, <2>7, <2>8, <2>9
<1> QED BY <1>3, <1>4

\* A larger set has a larger sum.
LEMMA SumIsMonotone ==
  ASSUME NEW S, IsFiniteSet(S), NEW w, \A x \in S : w[x] \in Nat, NEW g, Sums(w, S, g)
  PROVE  \A t \in SUBSET S : \A s \in SUBSET t : g[s] <= g[t]
<1>0. \A s \in SUBSET S : g[s] \in Nat /\ \A x \in s : g[s] = w[x] + g[s \ {x}]
  BY SumSplits
<1> DEFINE T == {t \in SUBSET S : \E s \in SUBSET t : ~ (g[s] <= g[t])}
<1>1. SUFFICES ASSUME T # {} PROVE FALSE
  OBVIOUS
<1>2. T \in SUBSET (SUBSET S)
  OBVIOUS
<1>3. PICK t \in T : \A u \in T : u \subseteq t => u = t
  <2> HIDE DEF T
  <2> QED BY <1>1, <1>2, SmallestSubset
<1>4. PICK s \in SUBSET t : ~ (g[s] <= g[t])
  OBVIOUS
<1>5. g[s] \in Nat /\ g[t] \in Nat
  BY <1>0
<1>6. PICK x \in t : x \notin s
  BY <1>4, <1>5
<1>7. g[s] <= g[t \ {x}]
  BY <1>3, <1>6
<1>8. g[t] = w[x] + g[t \ {x}] /\ g[t \ {x}] \in Nat /\ w[x] \in Nat
  BY <1>0
<1> QED BY <1>4, <1>5, <1>7, <1>8

\* What BytesOf is to return for lines whose objects are in the pool.
BytesAreSums ==
  \A lines, S, g :
    LET hashes == {log[x[1]][x[2]].hash : x \in lines} \ {NoHash}
    IN IsFiniteSet(S) /\ Sums(Size, S, g) /\ hashes \subseteq S /\ hashes \subseteq objects
         => BytesOf(lines) = g[hashes]

\* The bytes of some lines, all of whose objects are in the pool, are the sum
\* of the sizes of these objects.
LEMMA BytesAreSum == BytesAreSums
<1>1. ASSUME NEW lines, NEW S, NEW g, NEW hashes,
             hashes = {log[x[1]][x[2]].hash : x \in lines} \ {NoHash},
             IsFiniteSet(S), Sums(Size, S, g), hashes \subseteq S, hashes \subseteq objects
      PROVE  BytesOf(lines) = g[hashes]
  <2> DEFINE Adds(iter) ==
        iter = [s \in SUBSET hashes |-> IF s = {} THEN 0
                  ELSE LET x == CHOOSE y \in s : TRUE
                       IN (IF x \in objects THEN Size[x] ELSE 0) + iter[s \ {x}]]
  <2>1. \A h : Adds(h) <=> Sums(Size, hashes, h)
    <3> SUFFICES ASSUME NEW h PROVE Adds(h) <=> Sums(Size, hashes, h)
      OBVIOUS
    <3>1. \A s \in SUBSET hashes : s # {} => First(s) \in objects
      BY <1>1 DEF First
    <3>2. [s \in SUBSET hashes |-> IF s = {} THEN 0
             ELSE (IF First(s) \in objects THEN Size[First(s)] ELSE 0) + h[s \ {First(s)}]]
          = [s \in SUBSET hashes |-> IF s = {} THEN 0 ELSE Size[First(s)] + h[s \ {First(s)}]]
      BY <3>1
    <3> QED BY <3>2 DEF Sums, First
  <2>2. BytesOf(lines) = (CHOOSE iter : Adds(iter))[hashes]
    BY <1>1 DEF BytesOf, MapThenSumSet, MapThenFoldSet
  <2>3. \E iter : Sums(Size, hashes, iter)
    <3>1. IsFiniteSet(hashes)
      BY <1>1, FS_Subset
    <3> QED BY <3>1, SumExists
  <2> DEFINE sum == CHOOSE iter : Adds(iter)
  <2>4. Adds(sum)
    <3> HIDE DEF Adds
    <3> QED BY <2>1, <2>3
  <2>5. Sums(Size, hashes, sum)
    BY <2>1, <2>4
  <2>6. BytesOf(lines) = sum[hashes]
    BY <2>2
  <2> HIDE DEF sum, Adds
  <2>7. \A s \in SUBSET hashes : g[s] = sum[s]
    <3>1. IsFiniteSet(S) /\ Sums(Size, S, g) /\ hashes \subseteq S
      BY <1>1
    <3> QED BY ONLY <2>5, <3>1, SumIsUnique
  <2> QED BY <2>6, <2>7
<1> QED BY <1>1 DEF BytesAreSums

\* It is so in every state.
LEMMA BytesAreSumNext == BytesAreSums'
BY BytesAreSum, PTL

-----------------------------------------------------------------------------
(* The budget of retention by size.                                        *)

\* The objects that some lines refer to.
HashesIn(lines) == {log[x[1]][x[2]].hash : x \in lines} \ {NoHash}

\* The lines of the logs refer to objects of the pool; fewer lines refer to
\* fewer of them, and to fewer bytes.
LEMMA BytesOfLines ==
  ASSUME StoreInv, IsFiniteSet(objects)
  PROVE  /\ HashesIn(AllLines) \subseteq objects
         /\ \A lines \in SUBSET AllLines :
              /\ BytesOf(lines) \in Nat
              /\ \A less \in SUBSET lines : BytesOf(less) <= BytesOf(lines)
<1>1. HashesIn(AllLines) \subseteq objects
  <2>1. ASSUME NEW x \in AllLines PROVE log[x[1]][x[2]].hash \in objects
    BY DEF AllLines, StoreInv, ObjectsBacked, HashesOf
  <2> QED BY <2>1 DEF HashesIn
<1>2. PICK g : Sums(Size, objects, g)
  BY SumExists
<1>3. \A x \in objects : Size[x] \in Nat
  BY StoreAssumption DEF StoreInv, TypeOK
<1>4. \A lines \in SUBSET AllLines :
        HashesIn(lines) \subseteq objects /\ BytesOf(lines) = g[HashesIn(lines)]
  <2> TAKE lines \in SUBSET AllLines
  <2>1. HashesIn(lines) \subseteq objects
    BY <1>1 DEF HashesIn
  <2>2. BytesAreSums
    BY BytesAreSum
  <2>3. BytesOf(lines) = g[HashesIn(lines)]
    BY <1>2, <2>1, <2>2 DEF BytesAreSums, HashesIn
  <2> QED BY <2>1, <2>3
<1>5. \A t \in SUBSET objects : g[t] \in Nat /\ \A s \in SUBSET t : g[s] <= g[t]
  BY <1>2, <1>3, SumSplits, SumIsMonotone
<1>6. \A lines \in SUBSET AllLines : \A less \in SUBSET lines :
        HashesIn(less) \subseteq HashesIn(lines)
  BY DEF HashesIn
<1> QED BY <1>1, <1>4, <1>5, <1>6

\* Lines that stay as they are keep their bytes when no object of theirs goes.
LEMMA BytesOfLinesKept ==
  ASSUME StoreInv, IsFiniteSet(objects), objects' \subseteq objects,
         NEW lines \in SUBSET AllLines, HashesIn(lines) \subseteq objects',
         \A x \in lines : log'[x[1]][x[2]] = log[x[1]][x[2]]
  PROVE  BytesOf(lines)' = BytesOf(lines)
<1>1. PICK g : Sums(Size, objects, g)
  BY SumExists
<1>2. HashesIn(lines) \subseteq objects
  OBVIOUS
<1>3. BytesOf(lines) = g[HashesIn(lines)]
  <2>1. BytesAreSums
    BY BytesAreSum
  <2> QED BY <1>1, <1>2, <2>1 DEF BytesAreSums, HashesIn
<1>4. BytesOf(lines)' = g[HashesIn(lines)]
  <2>1. BytesAreSums'
    BY BytesAreSumNext
  <2>2. {log'[x[1]][x[2]].hash : x \in lines} = {log[x[1]][x[2]].hash : x \in lines}
    OBVIOUS
  <2> QED BY <1>1, <1>2, <2>1, <2>2 DEF BytesAreSums, HashesIn
<1> QED BY <1>3, <1>4

\* The oldest line of a unit is a line of the log.
LEMMA UnitHeadIsLine ==
  ASSUME NEW L, IsLog(L), NEW i \in DOMAIN L
  PROVE  UnitHead(L, i) \in DOMAIN L
<1>1. Unit(L, i) \in SUBSET Nat /\ Unit(L, i) # {}
  BY DEF Unit, IsLog
<1>2. \E j \in Unit(L, i) : \A k \in Unit(L, i) : j <= k
  BY <1>1, SmallestNumber
<1>3. UnitHead(L, i) \in Unit(L, i)
  BY <1>2 DEF UnitHead
<1> QED BY <1>3 DEF Unit

\* Leaving out evictable lines only keeps every pinned line pinned.
LEMMA PinnedStaysPinned ==
  ASSUME NEW L, IsLog(L), NEW gone, gone \subseteq DOMAIN L \ Pinned(L)
  PROVE  Pinned(L) \subseteq Pinned(Without(L, gone))
<1> DEFINE W == Without(L, gone)
<1>1. \A i \in gone : ~IsNewest(L, i)
  BY DEF Pinned, IsNewest
<1>2. /\ DOMAIN W = DOMAIN L \ gone
      /\ \A i \in DOMAIN L : IsNewest(L, i) => IsNewest(W, i)
      /\ \A i, j \in DOMAIN L \ gone : Paired(L, i, j) => Paired(W, i, j)
  BY <1>1, WithoutLog
<1>3. SUFFICES ASSUME NEW i \in Pinned(L) PROVE i \in Pinned(W)
  OBVIOUS
<1>4. i \in DOMAIN L \ gone
  BY DEF Pinned
<1>5. CASE IsNewest(L, i)
  BY <1>2, <1>4, <1>5 DEF Pinned
<1>6. ASSUME NEW j \in DOMAIN L, IsNewest(L, j), Paired(L, i, j) PROVE i \in Pinned(W)
  <2>1. j \in DOMAIN L \ gone
    BY <1>1, <1>6
  <2>2. IsNewest(W, j) /\ Paired(W, i, j)
    BY <1>2, <1>4, <1>6, <2>1
  <2> HIDE DEF W
  <2> QED BY <1>2, <1>4, <2>1, <2>2 DEF Pinned
<1> QED BY <1>3, <1>5, <1>6 DEF Pinned

\* Of the lines a plan spares although they may be evicted, one is the oldest.
LEMMA OldestSpared ==
  ASSUME StoreInv, NEW spared \in SUBSET AllLines, spared # {}
  PROVE  \E x \in spared :
           \A y \in spared : y \notin EvictedBefore(x[1], x[2])
<1> DEFINE age(x) == log[x[1]][UnitHead(log[x[1]], x[2])].ts
<1>1. ASSUME NEW x \in AllLines PROVE age(x) \in Nat /\ PathRank[x[1]] \in Nat
  <2>1. x[1] \in File /\ x[2] \in DOMAIN log[x[1]]
    BY DEF AllLines
  <2>2. IsLog(log[x[1]])
    BY <2>1, LogTypes DEF StoreInv, LogInv
  <2>3. UnitHead(log[x[1]], x[2]) \in DOMAIN log[x[1]]
    BY <2>1, <2>2, UnitHeadIsLine
  <2> QED BY <2>1, <2>3, StoreAssumption DEF StoreInv, TypeOK, Revision
<1>2. PICK x1 \in spared : \A y \in spared : age(x1) <= age(y)
  <2> DEFINE ages == {age(x) : x \in spared}
  <2>1. ages \in SUBSET Nat /\ ages # {}
    BY <1>1
  <2>2. PICK t \in ages : \A u \in ages : t <= u
    <3> HIDE DEF ages
    <3> QED BY <2>1, SmallestNumber
  <2> QED BY <2>2
<1> DEFINE first == {x \in spared : age(x) = age(x1)}
<1>3. PICK x2 \in first : \A y \in first : PathRank[x2[1]] <= PathRank[y[1]]
  <2> DEFINE ranks == {PathRank[x[1]] : x \in first}
  <2>1. ranks \in SUBSET Nat /\ ranks # {}
    BY <1>1
  <2>2. PICK t \in ranks : \A u \in ranks : t <= u
    <3> HIDE DEF ranks
    <3> QED BY <2>1, SmallestNumber
  <2> QED BY <2>2
<1>4. ASSUME NEW y \in spared PROVE y \notin EvictedBefore(x2[1], x2[2])
  <2>1. age(x2) <= age(y) /\ age(x2) \in Nat /\ age(y) \in Nat
    BY <1>1, <1>2, <1>3
  <2>2. age(y) = age(x2) => PathRank[x2[1]] <= PathRank[y[1]]
    BY <1>3
  <2>3. PathRank[x2[1]] \in Nat /\ PathRank[y[1]] \in Nat
    BY <1>1
  <2>4. ~(age(y) < age(x2) \/ (age(y) = age(x2) /\ PathRank[y[1]] < PathRank[x2[1]]))
    <3> HIDE DEF age
    <3> QED BY <2>1, <2>2, <2>3
  <2> QED BY <2>4 DEF EvictedBefore
<1> QED BY <1>3, <1>4

\* The plan: when every evictable line goes only pinned ones remain, and else
\* what remains is within what was left before the oldest line it spares.
LEMMA PlanMeetsBudget ==
  ASSUME StoreInv, IsFiniteSet(objects)
  PROVE  \/ BytesOf(UNION {{f} \X (DOMAIN log[f] \ OverBudget(f)) : f \in File}) <= MaxBytes
         \/ \A f \in File : DOMAIN log[f] \ OverBudget(f) = Pinned(log[f])
<1> DEFINE left == UNION {{f} \X (DOMAIN log[f] \ OverBudget(f)) : f \in File}
           spared == {x \in AllLines : x[2] \in Evictable(x[1]) \ OverBudget(x[1])}
<1>1. CASE spared = {}
  <2>1. \A f \in File : \A i \in Evictable(f) : i \in OverBudget(f)
    <3> TAKE f \in File
    <3> TAKE i \in Evictable(f)
    <3>1. <<f, i>> \in AllLines
      BY DEF AllLines, Evictable
    <3> QED BY <1>1, <3>1
  <2> QED BY <2>1 DEF OverBudget, Evictable, Pinned
<1>2. CASE spared # {}
  <2>1. PICK x \in spared :
          \A y \in spared : y \notin EvictedBefore(x[1], x[2])
    <3>1. spared \in SUBSET AllLines
      OBVIOUS
    <3> HIDE DEF spared
    <3> QED BY <1>2, <3>1, OldestSpared
  <2> DEFINE rest == AllLines \ EvictedBefore(x[1], x[2])
  <2>2. ~(BytesOf(rest) > MaxBytes)
    BY <2>1 DEF OverBudget
  <2>3. left \subseteq rest
    <3>1. SUFFICES ASSUME NEW f \in File, NEW i \in DOMAIN log[f] \ OverBudget(f)
                   PROVE  <<f, i>> \in rest
      OBVIOUS
    <3>2. <<f, i>> \in AllLines
      BY DEF AllLines
    <3>3. <<f, i>> \notin EvictedBefore(x[1], x[2])
      <4>1. CASE i \in Evictable(f)
        BY <2>1, <3>2, <4>1
      <4>2. CASE i \notin Evictable(f)
        BY <4>2 DEF EvictedBefore
      <4> QED BY <4>1, <4>2
    <3> QED BY <3>2, <3>3
  <2>4. BytesOf(left) <= BytesOf(rest) /\ BytesOf(left) \in Nat /\ BytesOf(rest) \in Nat
    <3>1. rest \in SUBSET AllLines
      OBVIOUS
    <3> HIDE DEF left, rest
    <3> QED BY <2>3, <3>1, BytesOfLines
  <2> HIDE DEF left, rest
  <2>5. BytesOf(left) <= MaxBytes
    BY <2>2, <2>4, StoreAssumption
  <2> QED BY <2>5 DEF left
<1> QED BY <1>1, <1>2

\* What the budget says of a process is about what remains of the logs: it
\* stays true as long as the same lines remain and their objects are there.
LEMMA BudgetStays ==
  ASSUME StoreInv, IsFiniteSet(objects), objects' \subseteq objects, StoreInv',
         NEW p \in Proc, BudgetMet(p),
         \A f \in File : Remains(p, f)' = Remains(p, f),
         \A f \in File : \A i \in DOMAIN Remains(p, f) :
           i \in DOMAIN log'[f] /\ log'[f][i] = log[f][i]
  PROVE  BudgetMet(p)'
<1>1. PICK lines : lines = RemainingLines(p)
  OBVIOUS
<1>2. RemainingLines(p)' = lines
  BY <1>1 DEF RemainingLines
<1>3. lines \in SUBSET AllLines
  BY <1>1 DEF RemainingLines, Remains, Without, AllLines
<1>4. \A x \in lines : x[1] \in File /\ x[2] \in DOMAIN log'[x[1]] /\ log'[x[1]][x[2]] = log[x[1]][x[2]]
  BY <1>1 DEF RemainingLines
<1>5. HashesIn(lines) \subseteq objects'
  BY <1>4 DEF HashesIn, StoreInv, ObjectsBacked, HashesOf
<1>6. BytesOf(lines)' = BytesOf(lines)
  BY <1>3, <1>4, <1>5, BytesOfLinesKept
<1>7. BytesOf(RemainingLines(p))' = BytesOf(RemainingLines(p))
  BY <1>1, <1>2, <1>6
<1> QED BY <1>7 DEF BudgetMet

\* The pool stays finite: a capture adds one object at a time.
LEMMA PoolStaysFinite ==
  ASSUME StoreInv, IsFiniteSet(objects), [Next]_vars
  PROVE  IsFiniteSet(objects')
<1>1. ASSUME NEW p \in Proc, CaptureStream(p) PROVE IsFiniteSet(objects')
  <2>1. PICK c : objects' = objects \cup {c}
    BY <1>1 DEF CaptureStream
  <2> QED BY <2>1, FS_AddElement
<1>2. ASSUME NEW p \in Proc, AppendLog(p) \/ (\E f \in File : RewriteLog(p, f)) \/ SweepObject(p)
      PROVE  IsFiniteSet(objects')
  <2>1. objects' \in SUBSET objects
    BY <1>2 DEF AppendLog, RewriteLog, SweepObject
  <2> QED BY <2>1, FS_Subset
<1> QED BY <1>1, <1>2, PoolSteps

\* A process gets into the hands of retention by size through its plan only.
LEMMA SizedSteps ==
  ASSUME StoreInv, NEW p \in Proc, BeginCall(p) \/ Step(p) \/ Abort(p), Sized(p)'
  PROVE  \/ GCBySizePlan(p) \/ GCBySizeNoop(p)
         \/ Sized(p) /\ ((\E f \in File : RewriteLog(p, f)) \/ SweepObject(p) \/ SweepDone(p))
<1>1. /\ pc[p] \in {"open", "stream", "append"} => call[p].kind \in {"record", "restore"}
      /\ pc[p] \in {"validate", "apply"} => call[p].kind = "restore"
      /\ pc[p] \in ReadStep \cup {"shared"} => call[p].kind = "get"
      /\ p \in DOMAIN pc /\ p \in DOMAIN call /\ p \in DOMAIN result
  BY DEF StoreInv, ProcInv, LocalInv, Forced, TypeOK
<1>2. /\ call'[p].kind = "gc-by-size"
      /\ pc'[p] \in {"rewrite", "sweep", "unlock"}
  BY DEF Sized
<1>3. ASSUME BeginCall(p) PROVE FALSE
  <2>1. ASSUME NEW c, NEW s \in {"lock", "shared", "lookup"}, Begin(p, c, s) PROVE FALSE
    BY <1>1, <1>2, <2>1 DEF Begin, Goto
  <2>2. ASSUME NEW f \in File, BeginRecord(p, f) \/ BeginRestore(p, f) PROVE FALSE
    BY <2>1, <2>2 DEF BeginRecord, BeginRestore
  <2>3. ASSUME NEW f \in File, BeginGet(p, f) PROVE FALSE
    BY <2>1, <2>3 DEF BeginGet
  <2>4. ASSUME NEW k \in {"gc", "gc-by-size"}, BeginGC(p, k) PROVE FALSE
    BY <2>1, <2>4 DEF BeginGC
  <2> QED BY <1>3, <2>2, <2>3, <2>4 DEF BeginCall
<1>4. ASSUME Leave(p) PROVE FALSE
  BY <1>1, <1>2, <1>4 DEF Leave, NoCall
<1>5. ASSUME AcquireExclusive(p) \/ AcquireShared(p) PROVE FALSE
  BY <1>1, <1>2, <1>5 DEF AcquireExclusive, AcquireShared, Goto
<1>6. ASSUME OpenAbsent(p) \/ OpenPresent(p) \/ CaptureStream(p) \/ AppendLog(p) PROVE FALSE
  BY <1>1, <1>2, <1>6 DEF OpenAbsent, OpenPresent, CaptureStream, AppendLog
<1>7. ASSUME RestoreValidate(p) \/ RestoreApply(p) PROVE FALSE
  BY <1>1, <1>2, <1>7 DEF RestoreValidate, RestoreApply
<1>8. ASSUME GetLookup(p) \/ GetFetch(p) PROVE FALSE
  BY <1>1, <1>2, <1>8 DEF GetLookup, GetFetch, ReadStep
<1>9. ASSUME GCPlan(p) PROVE FALSE
  BY <1>1, <1>2, <1>9 DEF GCPlan, PlanRewrite
<1>10. ASSUME (\E f \in File : RewriteLog(p, f)) \/ SweepObject(p) \/ SweepDone(p)
       PROVE  Sized(p)
  BY <1>1, <1>2, <1>10 DEF RewriteLog, SweepObject, SweepDone, localVars, Sized
<1> QED
  BY <1>3, <1>4, <1>5, <1>6, <1>7, <1>8, <1>9, <1>10 DEF Step, LockTimeout, Unlock, Abort

\* A step of a process keeps what the budget says of it.
LEMMA BudgetOfStep ==
  ASSUME StoreInv, StoreInv', BudgetInv, NEW p \in Proc,
         BeginCall(p) \/ Step(p) \/ Abort(p), Sized(p)'
  PROVE  BudgetMet(p)'
<1>1. IsFiniteSet(objects) /\ (Sized(p) => BudgetMet(p))
  BY DEF BudgetInv
<1>2. ASSUME GCBySizePlan(p) PROVE BudgetMet(p)'
  <2>1. /\ UNCHANGED <<log, objects>> /\ pc'[p] = "rewrite" /\ todo'[p] = File
        /\ \A f \in File : drop'[p][f] = OverBudget(f)
    BY <1>2 DEF GCBySizePlan, PlanRewrite, Goto, storeVars, StoreInv, TypeOK
  <2>2. PICK left : left = UNION {{f} \X (DOMAIN log[f] \ OverBudget(f)) : f \in File}
    OBVIOUS
  <2>3. \A f \in File : Remains(p, f)' = Without(log[f], OverBudget(f))
    BY <2>1 DEF Remains
  <2>4. \A f \in File : DOMAIN Without(log[f], OverBudget(f)) = DOMAIN log[f] \ OverBudget(f)
    BY DEF Without
  <2>5. CASE \A f \in File : DOMAIN log[f] \ OverBudget(f) = Pinned(log[f])
    <3>1. ASSUME NEW f \in File PROVE (DOMAIN Remains(p, f) \subseteq Pinned(Remains(p, f)))'
      <4>1. OverBudget(f) \subseteq DOMAIN log[f] \ Pinned(log[f])
        BY DEF OverBudget, Evictable
      <4>2. IsLog(log[f])
        BY LogTypes DEF StoreInv, LogInv
      <4>3. Pinned(log[f]) \subseteq Pinned(Without(log[f], OverBudget(f)))
        BY <4>1, <4>2, PinnedStaysPinned
      <4> QED BY <2>3, <2>4, <2>5, <4>3
    <3> QED BY <3>1 DEF BudgetMet
  <2>6. CASE BytesOf(left) <= MaxBytes
    <3>1. RemainingLines(p)' = left
      BY <2>2, <2>3, <2>4 DEF RemainingLines
    <3>2. left \in SUBSET AllLines
      BY <2>2 DEF AllLines
    <3>3. HashesIn(left) \subseteq objects'
      BY <1>1, <2>1, <3>2, BytesOfLines DEF HashesIn
    <3>4. BytesOf(left)' = BytesOf(left)
      BY <1>1, <2>1, <3>2, <3>3, BytesOfLinesKept
    <3> QED BY <2>6, <3>1, <3>4 DEF BudgetMet
  <2> QED BY <1>1, <2>2, <2>5, <2>6, PlanMeetsBudget
<1>3. ASSUME GCBySizeNoop(p) PROVE BudgetMet(p)'
  <2>1. /\ UNCHANGED <<log, objects>> /\ pc'[p] = "unlock" /\ BytesOf(AllLines) <= MaxBytes
    BY <1>3 DEF GCBySizeNoop, Ends, Goto, storeVars, StoreInv, TypeOK
  <2>2. PICK lines : lines = AllLines
    OBVIOUS
  <2>3. RemainingLines(p)' = lines
    BY <2>1, <2>2 DEF RemainingLines, Remains, Without, AllLines
  <2>4. BytesOf(lines)' = BytesOf(lines)
    <3>1. HashesIn(lines) \subseteq objects'
      BY <1>1, <2>1, <2>2, BytesOfLines
    <3> QED BY <1>1, <2>1, <2>2, <3>1, BytesOfLinesKept
  <2> QED BY <2>1, <2>2, <2>3, <2>4 DEF BudgetMet
<1>4. ASSUME NEW f \in File, RewriteLog(p, f), Sized(p) PROVE BudgetMet(p)'
  <2>1. /\ UNCHANGED objects /\ pc[p] = "rewrite" /\ f \in todo[p]
        /\ log'[f] = Without(log[f], drop[p][f]) /\ \A g \in File \ {f} : log'[g] = log[g]
        /\ pc'[p] = IF todo[p] = {f} THEN "sweep" ELSE "rewrite"
        /\ todo'[p] = todo[p] \ {f} /\ drop' = drop
    BY <1>4 DEF RewriteLog, Goto, gcVars, StoreInv, TypeOK
  <2>2. Remains(p, f) = Without(log[f], drop[p][f])
    BY <2>1 DEF Remains
  <2>3. Remains(p, f)' = Remains(p, f)
    <3>1. Remains(p, f)' = Without(log'[f], {})
      BY <2>1 DEF Remains
    <3> QED BY <2>1, <2>2, <3>1 DEF Without
  <2>4. \A g \in File \ {f} : Remains(p, g)' = Remains(p, g)
    BY <2>1 DEF Remains
  <2>5. \A g \in File : \A i \in DOMAIN Remains(p, g) :
          i \in DOMAIN log'[g] /\ log'[g][i] = log[g][i]
    BY <2>1, <2>2 DEF Remains, Without
  <2> QED BY <1>1, <1>4, <2>1, <2>3, <2>4, <2>5, BudgetStays
<1>5. ASSUME SweepObject(p) \/ SweepDone(p), Sized(p) PROVE BudgetMet(p)'
  <2>1. /\ UNCHANGED log /\ objects' \subseteq objects
        /\ pc[p] = "sweep" /\ pc'[p] \in {"sweep", "unlock"}
    BY <1>5 DEF SweepObject, SweepDone, Ends, Goto, storeVars, StoreInv, TypeOK
  <2>2. \A f \in File : Remains(p, f)' = Remains(p, f)
    BY <2>1 DEF Remains
  <2>3. \A f \in File : \A i \in DOMAIN Remains(p, f) :
          i \in DOMAIN log'[f] /\ log'[f][i] = log[f][i]
    BY <2>1 DEF Remains, Without
  <2> QED BY <1>1, <1>5, <2>1, <2>2, <2>3, BudgetStays
<1> QED BY <1>1, <1>2, <1>3, <1>4, <1>5, SizedSteps

\* Whoever is on its way to the budget holds the lock.
LEMMA SizedHolds == ASSUME StoreInv, NEW p \in Proc, Sized(p) PROVE writer = p
BY DEF Sized, StoreInv, LockInv, WriteStep

\* The steps of others and of the world leave the logs of the holder alone.
LEMMA BudgetNext ==
  ASSUME StoreInv, StoreInv', BudgetInv, [Next]_vars
  PROVE  BudgetInv'
<1>1. IsFiniteSet(objects')
  BY PoolStaysFinite DEF BudgetInv
<1>2. ASSUME NEW q \in Proc, Sized(q)' PROVE BudgetMet(q)'
  <2>1. CASE BeginCall(q) \/ Step(q) \/ Abort(q)
    BY <1>2, <2>1, BudgetOfStep
  <2>2. CASE ~(BeginCall(q) \/ Step(q) \/ Abort(q))
    <3>1. UNCHANGED <<pc[q], call[q], drop[q], todo[q], result[q]>>
      <4>1. ASSUME NEW p \in Proc \ {q}, BeginCall(p) \/ Step(p) \/ Abort(p) PROVE <3>1!:
        BY <4>1, OwnCall DEF Abort, Own, StoreInv
      <4>2. ASSUME (\E f \in File : Edit(f)) \/ Tick \/ InitStore \/ UNCHANGED vars PROVE <3>1!:
        BY <4>2 DEF Edit, Tick, InitStore, vars, localVars
      <4> QED BY <2>2, <4>1, <4>2 DEF Next
    <3>2. Sized(q) /\ writer = q
      BY <1>2, <3>1, SizedHolds DEF Sized
    <3>3. UNCHANGED <<log, objects>>
      <4>1. ASSUME NEW p \in Proc, CaptureStream(p) \/ AppendLog(p) \/ SweepObject(p)
                     \/ \E f \in File : RewriteLog(p, f)
            PROVE  FALSE
        <5>1. pc[p] \in WriteStep
          BY <4>1 DEF CaptureStream, AppendLog, SweepObject, RewriteLog, WriteStep
        <5>2. p = q
          BY <3>2, <5>1, WriterHolds
        <5> QED BY <2>2, <4>1, <5>2 DEF Step
      <4> QED BY <4>1, PoolSteps
    <3>4. BudgetMet(q) /\ IsFiniteSet(objects)
      BY <3>2 DEF BudgetInv
    <3>5. \A f \in File : Remains(q, f)' = Remains(q, f)
      BY <3>1, <3>3 DEF Remains
    <3>6. \A f \in File : \A i \in DOMAIN Remains(q, f) :
            i \in DOMAIN log'[f] /\ log'[f][i] = log[f][i]
      BY <3>3 DEF Remains, Without
    <3> QED BY <3>3, <3>4, <3>5, <3>6, BudgetStays
  <2> QED BY <2>1, <2>2
<1> QED BY <1>1, <1>2 DEF BudgetInv

\* A collection by size that ends well ends within the budget, or where only
\* pinned revisions are left.
THEOREM BudgetsAreMet == Spec => []BudgetOrFloor
<1>1. Init => BudgetInv
  BY FS_EmptySet DEF Init, BudgetInv, Sized
<1>2. BudgetInv => BudgetOrFloor
  <2>1. SUFFICES ASSUME BudgetInv, NEW p \in Proc, pc[p] = "unlock", result[p] = "ok",
                        call[p].kind = "gc-by-size"
                 PROVE  BytesOf(AllLines) <= MaxBytes \/ \A f \in File : Evictable(f) = {}
    BY DEF BudgetOrFloor
  <2>2. BudgetMet(p)
    BY <2>1 DEF BudgetInv, Sized
  <2>3. \A f \in File : Remains(p, f) = Without(log[f], {}) /\ DOMAIN Remains(p, f) = DOMAIN log[f]
    BY <2>1 DEF Remains, Without
  <2>4. RemainingLines(p) = AllLines
    BY <2>3 DEF RemainingLines, AllLines
  <2>5. \A f \in File : Pinned(Remains(p, f)) = Pinned(log[f])
    BY <2>3 DEF Without, Pinned, IsNewest, Paired, Adjacent
  <2> QED BY <2>2, <2>3, <2>4, <2>5 DEF BudgetMet, Evictable
<1> QED BY <1>1, <1>2, StoreInvariant, BudgetNext, PTL DEF Spec

-----------------------------------------------------------------------------
(* The store implements the abstract history.  By the inductive invariant  *)
(* every line of a log has its object, so the abstract history is the log  *)
(* under another name; then a step that appends a line is a capture or the *)
(* mark of a restore, a step that replaces a log is a purge, and every     *)
(* other step touches the working tree or nothing.                         *)

(* The operators on logs, as the abstract specification sees them.         *)

\* The instance has its own copies of the operators on logs: they agree.
LEMMA SameOperators ==
  ASSUME NEW L
  PROVE  /\ H!EmptyLog = EmptyLog
         /\ H!HasLast(L) <=> HasLast(L)
         /\ H!NewestLine(L) = NewestLine(L)
         /\ H!Last(L) = Last(L)
         /\ H!NextLine(L) = NextLine(L)
         /\ \A r : H!Appended(L, r) = Appended(L, r)
         /\ \A gone : H!Without(L, gone) = Without(L, gone)
         /\ \A i : H!IsNewest(L, i) <=> IsNewest(L, i)
         /\ \A i, j : H!Paired(L, i, j) <=> Paired(L, i, j)
BY DEF H!EmptyLog, EmptyLog, H!HasLast, HasLast, H!NewestLine, NewestLine, H!IsNewest, IsNewest,
       H!Last, Last, H!NextLine, NextLine, H!Appended, Appended, H!Without, Without,
       H!Paired, Paired, H!Adjacent, Adjacent

\* A log with its hashes read as contents.
Bar(L) == [i \in DOMAIN L |-> [ts |-> L[i].ts, content |-> L[i].hash, label |-> L[i].label]]
BarEntry(r) == [ts |-> r.ts, content |-> r.hash, label |-> r.label]

\* Lines, their order and their labels are the same.
LEMMA BarLog ==
  ASSUME NEW L, IsLog(L)
  PROVE  /\ DOMAIN Bar(L) = DOMAIN L
         /\ HasLast(Bar(L)) <=> HasLast(L)
         /\ \A i : IsNewest(Bar(L), i) <=> IsNewest(L, i)
         /\ \A i, j : Paired(Bar(L), i, j) <=> Paired(L, i, j)
         /\ NextLine(Bar(L)) = NextLine(L)
         /\ HasLast(L) => Last(Bar(L)).label = Last(L).label
<1>1. DOMAIN Bar(L) = DOMAIN L
  BY DEF Bar
<1>2. \A i \in DOMAIN L : Bar(L)[i].label = L[i].label
  BY DEF Bar
<1> HIDE DEF Bar
<1>3. \A i : IsNewest(Bar(L), i) <=> IsNewest(L, i)
  BY <1>1 DEF IsNewest
<1>4. \A i, j : Paired(Bar(L), i, j) <=> Paired(L, i, j)
  BY <1>1, <1>2 DEF Paired, Adjacent
<1>5. HasLast(Bar(L)) <=> HasLast(L)
  BY <1>1 DEF HasLast
<1>6. ASSUME HasLast(L) PROVE NewestLine(Bar(L)) = NewestLine(L) /\ NewestLine(L) \in DOMAIN L
  <2>1. IsNewest(L, NewestLine(L)) /\ NewestLine(L) \in DOMAIN L
    BY <1>6, NewestExists
  <2>2. IsNewest(Bar(L), NewestLine(L)) /\ DOMAIN Bar(L) \subseteq Nat
    BY <1>1, <1>3, <2>1 DEF IsLog
  <2> QED BY <2>1, <2>2, NewestIsUnique
<1>7. NextLine(Bar(L)) = NextLine(L)
  BY <1>5, <1>6 DEF NextLine
<1>9. HasLast(L) => Last(Bar(L)).label = Last(L).label
  BY <1>2, <1>6 DEF Last
<1> QED BY <1>1, <1>3, <1>4, <1>5, <1>7, <1>9

\* A line appended, and lines taken away.
LEMMA BarSteps ==
  ASSUME NEW L, IsLog(L), NEW r, NEW gone
  PROVE  /\ Bar(Appended(L, r)) = Appended(Bar(L), BarEntry(r))
         /\ Bar(Without(L, gone)) = Without(Bar(L), gone)
<1>1. Bar(Appended(L, r)) = Appended(Bar(L), BarEntry(r))
  <2>1. NextLine(Bar(L)) = NextLine(L) /\ DOMAIN Bar(L) = DOMAIN L
    BY BarLog
  <2> QED BY <2>1 DEF Appended, Bar, BarEntry
<1>2. Bar(Without(L, gone)) = Without(Bar(L), gone)
  BY DEF Without, Bar
<1> QED BY <1>1, <1>2

\* In a state of the store the abstract history of a file is its log.
LEMMA HistoryIsLog ==
  ASSUME StoreInv
  PROVE  histBar = [f \in File |-> Bar(log[f])]
<1>1. \A f \in File : \A i \in DOMAIN log[f] : log[f][i].hash \in objects
  BY DEF StoreInv, ObjectsBacked, HashesOf
<1> QED BY <1>1 DEF histBar, Bar

\* The same for the state after a step.
LEMMA HistoryIsLogNext ==
  ASSUME StoreInv'
  PROVE  histBar' = [f \in File |-> Bar(log'[f])]
<1>1. \A f \in File : \A i \in DOMAIN log'[f] : log'[f][i].hash \in objects'
  BY DEF StoreInv, ObjectsBacked, HashesOf
<1> QED BY <1>1 DEF histBar, Bar

-----------------------------------------------------------------------------
(* The simulation.                                                         *)

\* The store starts as an empty history.
LEMMA HistoryInit == ASSUME Init PROVE H!HInit
<1>1. \A f \in File : log[f] = EmptyLog
  BY DEF Init
<1>2. histBar = [f \in File |-> EmptyLog]
  BY <1>1 DEF histBar, EmptyLog
<1> QED BY <1>2, SameOperators DEF H!HInit, Init

\* A line appended is a capture, or the mark of a restore after its safeguard.
LEMMA AppendIsCapture ==
  ASSUME StoreInv, StoreInv', NEW p \in Proc, AppendLog(p)
  PROVE  H!HNext
<1> DEFINE f == FileOf(p)
           L == log[f]
           r == [ts |-> NextTimestamp(L), hash |-> line[p].hash, label |-> line[p].label]
           e == BarEntry(r)
           n == NextLine(L)
<1>1. /\ f \in File /\ LogOf(p) = L /\ log' = [log EXCEPT ![f] = Appended(@, r)]
      /\ UNCHANGED disk /\ pc[p] = "append" /\ IsLog(L)
  BY LogTypes DEF AppendLog, StoreInv, TypeOK, LogInv, FileOf, LogOf, treeVars
<1>2. /\ LineFits(p) /\ line[p] \in Line /\ objects \subseteq Content
  BY <1>1 DEF StoreInv, TypeOK, ProcInv, LocalInv
<1>3. log'[f] = Appended(L, r) /\ DOMAIN log = File
  BY <1>1 DEF StoreInv, TypeOK
<1>4. histBar = [g \in File |-> Bar(log[g])] /\ histBar' = [g \in File |-> Bar(log'[g])]
  BY HistoryIsLog, HistoryIsLogNext
<1>5. /\ DOMAIN Appended(L, r) = DOMAIN L \cup {n} /\ Appended(L, r)[n] = r
      /\ \A i \in DOMAIN L : Appended(L, r)[i] = L[i]
      /\ n \in Nat /\ \A i \in DOMAIN L : i < n
  <2>1. IsLog(L)
    BY <1>1
  <2> HIDE DEF f, r, L
  <2> QED BY <2>1, AppendedLog, NextLineIsNew
<1>6. /\ Bar(Appended(L, r)) = Appended(Bar(L), e)
      /\ NextLine(Bar(L)) = n /\ DOMAIN Bar(L) = DOMAIN L
      /\ HasLast(Bar(L)) <=> HasLast(L)
      /\ HasLast(L) => Last(Bar(L)).label = Last(L).label
  <2>1. IsLog(L)
    BY <1>1
  <2> HIDE DEF f, r, L
  <2> QED BY <2>1, BarLog, BarSteps
<1>7. /\ histBar[f] = Bar(L)
      /\ histBar' = [histBar EXCEPT ![f] = Appended(@, e)]
      /\ histBar'[f][n] = e /\ n \in DOMAIN histBar'[f]
  <2>1. histBar'[f] = Bar(Appended(L, r)) /\ histBar[f] = Bar(L)
    BY <1>1, <1>3, <1>4
  <2>2. \A g \in File \ {f} : histBar'[g] = histBar[g]
    BY <1>1, <1>3, <1>4
  <2>3. DOMAIN Bar(Appended(L, r)) = DOMAIN L \cup {n} /\ Bar(Appended(L, r))[n] = e
    BY <1>5 DEF Bar, BarEntry
  <2> HIDE DEF f, r, L, e, n
  <2>4. histBar'[f] = Appended(histBar[f], e)
    BY <2>1, <1>6
  <2> QED BY <2>1, <2>2, <2>3, <2>4, <1>4
<1>8. e \in H!Entry
  <2>1. r.ts \in Nat /\ r.ts = e.ts
    <3>1. r = log'[f][n] /\ n \in DOMAIN log'[f]
      BY <1>3, <1>5
    <3>2. log'[f] \in [DOMAIN log'[f] -> Revision]
      BY <1>1 DEF StoreInv, TypeOK
    <3> QED BY <3>1, <3>2 DEF Revision, BarEntry
  <2>2. e.content \in Content /\ e.label \in Label
    BY <1>2 DEF LineFits, Line, BarEntry
  <2> QED BY <2>1, <2>2 DEF H!Entry, BarEntry, H!Label, Label
<1>9. \A i \in DOMAIN histBar[f] : histBar[f][i].ts < e.ts
  <2>1. \A i \in DOMAIN L : log'[f][i].ts < log'[f][n].ts
    BY <1>1, <1>3, <1>5 DEF StoreInv, LogInv, StrictTimestamps
  <2>2. \A i \in DOMAIN L : L[i].ts < r.ts
    BY <2>1, <1>3, <1>5
  <2>3. DOMAIN Bar(L) = DOMAIN L /\ \A i \in DOMAIN L : Bar(L)[i].ts = L[i].ts
    <3> HIDE DEF L
    <3> QED BY DEF Bar
  <2>4. e.ts = r.ts
    BY DEF BarEntry
  <2>5. histBar[f] = Bar(L)
    BY <1>7
  <2> HIDE DEF f, r, L, e, n
  <2> QED BY <2>2, <2>3, <2>4, <2>5
<1>10. H!Added(f) = e /\ H!Add(f)
  <2> HIDE DEF f, r, L, e, n
  <2>1. H!NextLine(histBar[f]) = n
    BY <1>6, <1>7, SameOperators
  <2>2. H!Added(f) = e
    BY <1>7, <2>1 DEF H!Added
  <2>3. H!Appended(histBar[f], e) = Appended(histBar[f], e)
    BY SameOperators
  <2> QED BY <1>1, <1>7, <1>8, <1>9, <2>1, <2>2, <2>3 DEF H!Add
<1>11. /\ H!HasLast(histBar[f]) <=> HasLast(L)
       /\ HasLast(L) => H!Last(histBar[f]).label = Last(L).label
  <2> HIDE DEF f, r, L, e, n
  <2> QED BY <1>6, <1>7, SameOperators
<1>12. CASE line[p].label = "restore"
  <2>1. HasLast(L) /\ Last(L).label = "pre-restore"
    BY <1>1, <1>2, <1>12 DEF LineFits
  <2>2. H!MarkRestored(f)
    BY <1>10, <1>11, <1>12, <2>1 DEF H!MarkRestored, BarEntry
  <2> QED BY <1>1, <2>2 DEF H!HNext
<1>13. CASE line[p].label # "restore"
  <2>1. line[p].label = "first-seen" <=> ~HasLast(L)
    BY <1>1, <1>2 DEF LineFits
  <2>2. H!Capture(f)
    BY <1>10, <1>11, <1>13, <2>1 DEF H!Capture, BarEntry
  <2> QED BY <1>1, <2>2 DEF H!HNext
<1> QED BY <1>12, <1>13

\* A log rewritten without some lines is a purge.
LEMMA RewriteIsPurge ==
  ASSUME StoreInv, StoreInv', NEW p \in Proc, NEW f \in File, RewriteLog(p, f)
  PROVE  H!HNext
<1> DEFINE L == log[f]
           gone == drop[p][f] \cap DOMAIN L
<1>1. /\ log' = [log EXCEPT ![f] = Without(@, drop[p][f])] /\ UNCHANGED disk
      /\ DropIsSafe(p) /\ DOMAIN log = File /\ IsLog(L)
  BY LogTypes DEF RewriteLog, StoreInv, TypeOK, LogInv, ProcInv, LocalInv, treeVars
<1>2. histBar = [g \in File |-> Bar(log[g])] /\ histBar' = [g \in File |-> Bar(log'[g])]
  BY HistoryIsLog, HistoryIsLogNext
<1>3. /\ Bar(Without(L, gone)) = Without(Bar(L), gone) /\ DOMAIN Bar(L) = DOMAIN L
      /\ \A i : IsNewest(Bar(L), i) <=> IsNewest(L, i)
      /\ \A i, j : Paired(Bar(L), i, j) <=> Paired(L, i, j)
  <2>1. IsLog(L)
    BY <1>1
  <2> HIDE DEF L, gone
  <2> QED BY <2>1, BarLog, BarSteps
<1>4. Without(L, drop[p][f]) = Without(L, gone)
  BY DEF Without
<1>5. histBar' = [histBar EXCEPT ![f] = Without(@, gone)] /\ histBar[f] = Bar(L)
  <2>1. histBar'[f] = Bar(Without(L, gone)) /\ histBar[f] = Bar(L)
    BY <1>1, <1>2, <1>4
  <2>2. \A g \in File \ {f} : histBar'[g] = histBar[g]
    BY <1>1, <1>2
  <2> HIDE DEF L, gone
  <2> QED BY <2>1, <2>2, <1>2, <1>3
<1>6. /\ \A i \in gone : ~IsNewest(L, i)
      /\ "gc" \notin Ops => \A i \in gone, j \in DOMAIN L : Paired(L, i, j) => j \in gone
  BY <1>1 DEF DropIsSafe
<1>7. H!Purge(f)
  <2>1. gone \in SUBSET DOMAIN histBar[f]
    BY <1>3, <1>5
  <2> HIDE DEF L, gone
  <2>2. \A i \in gone : ~H!IsNewest(histBar[f], i)
    BY <1>3, <1>5, <1>6, SameOperators
  <2>3. "gc" \notin Ops =>
          \A i \in gone, j \in DOMAIN histBar[f] : H!Paired(histBar[f], i, j) => j \in gone
    BY <1>3, <1>5, <1>6, SameOperators
  <2>4. H!Without(histBar[f], gone) = Without(histBar[f], gone)
    BY SameOperators
  <2> QED BY <1>1, <1>5, <2>1, <2>2, <2>3, <2>4 DEF H!Purge
<1> QED BY <1>7 DEF H!HNext

\* A step that leaves the logs alone leaves the history alone.
LEMMA HistoryKept ==
  ASSUME StoreInv, StoreInv', UNCHANGED log
  PROVE  UNCHANGED histBar
BY HistoryIsLog, HistoryIsLogNext

\* The change of the working tree comes after the safeguard and leads to the
\* state of a revision.
LEMMA ApplyIsChange ==
  ASSUME StoreInv, StoreInv', NEW p \in Proc, RestoreApply(p)
  PROVE  H!HNext \/ UNCHANGED H!histVars
<1> DEFINE f == FileOf(p)
<1>1. /\ f \in File /\ LogOf(p) = log[f] /\ UNCHANGED log /\ IsLog(log[f])
      /\ pc[p] = "apply" /\ Forced(p)
  BY LogTypes DEF RestoreApply, StoreInv, TypeOK, LogInv, FileOf, LogOf, storeVars, ProcInv, LocalInv
<1>2. UNCHANGED histBar /\ histBar[f] = Bar(log[f])
  BY <1>1, HistoryKept, HistoryIsLog
<1>3. HasLast(log[f]) /\ Last(log[f]).label = "pre-restore"
  BY <1>1 DEF StoreInv, ProcInv, SafeguardTaken
<1>4. PICK i \in DOMAIN log[f] :
        log[f][i].hash = target[p].hash /\ log[f][i].label = target[p].label
  BY ZenonT(30), <1>1 DEF StoreInv, ProcInv, LocalInv, TargetInLog
<1>5. CASE UNCHANGED disk
  BY <1>2, <1>5 DEF H!histVars
<1>6. CASE disk' = [disk EXCEPT ![f] =
              IF target[p].label = "delete" THEN Absent ELSE target[p].hash]
  <2>1. H!HasLast(histBar[f]) /\ H!Last(histBar[f]).label = "pre-restore"
    <3>1. IsLog(log[f])
      BY <1>1
    <3> HIDE DEF f
    <3> QED BY <3>1, <1>2, <1>3, BarLog, SameOperators
  <2>2. /\ i \in DOMAIN histBar[f]
        /\ histBar[f][i].label = target[p].label /\ histBar[f][i].content = target[p].hash
    BY <1>2, <1>4 DEF Bar
  <2>3. H!ChangeTree(f)
    BY <1>2, <1>6, <2>1, <2>2 DEF H!ChangeTree
  <2> QED BY <1>1, <2>3 DEF H!HNext
<1> QED BY <1>5, <1>6 DEF RestoreApply

\* Who changes the working tree: the user and a restore.
LEMMA TreeSteps ==
  ASSUME StoreInv, [Next]_vars
  PROVE  \/ UNCHANGED disk
         \/ \E f \in File : Edit(f)
         \/ \E p \in Proc : RestoreApply(p)
<1>1. ASSUME NEW p \in Proc, BeginCall(p) PROVE UNCHANGED disk
  BY <1>1 DEF BeginCall, BeginRecord, BeginRestore, BeginGet, BeginGC, Begin, treeVars
<1>2. ASSUME NEW p \in Proc, Abort(p) \/ LockTimeout(p) \/ Unlock(p) PROVE UNCHANGED disk
  BY <1>2 DEF Abort, LockTimeout, Unlock, Leave, treeVars
<1>3. ASSUME NEW p \in Proc, AcquireExclusive(p) \/ AcquireShared(p) \/ OpenAbsent(p)
               \/ OpenPresent(p) \/ CaptureStream(p) \/ AppendLog(p) \/ RestoreValidate(p)
      PROVE  UNCHANGED disk
  BY <1>3 DEF AcquireExclusive, AcquireShared, OpenAbsent, OpenPresent, CaptureStream,
              AppendLog, RestoreValidate, treeVars
<1>4. ASSUME NEW p \in Proc, GetLookup(p) \/ GetFetch(p) \/ GCPlan(p) \/ GCBySizePlan(p)
               \/ GCBySizeNoop(p) \/ SweepObject(p) \/ SweepDone(p)
               \/ \E f \in File : RewriteLog(p, f)
      PROVE  UNCHANGED disk
  BY <1>4 DEF GetLookup, GetFetch, GCPlan, GCBySizePlan, GCBySizeNoop, PlanRewrite,
              SweepObject, SweepDone, RewriteLog, treeVars
<1>5. ASSUME Tick \/ InitStore \/ UNCHANGED vars PROVE UNCHANGED disk
  BY <1>5 DEF Tick, InitStore, vars, treeVars
<1> QED BY <1>1, <1>2, <1>3, <1>4, <1>5 DEF Next, Step

\* Every step of the store is a step of the history or leaves it alone.
LEMMA HistoryNext ==
  ASSUME StoreInv, StoreInv', [Next]_vars
  PROVE  [H!HNext]_(H!histVars)
<1>1. ASSUME NEW p \in Proc, AppendLog(p) PROVE H!HNext
  BY <1>1, AppendIsCapture
<1>2. ASSUME NEW p \in Proc, NEW f \in File, RewriteLog(p, f) PROVE H!HNext
  BY <1>2, RewriteIsPurge
<1>3. ASSUME UNCHANGED log, NEW f \in File, Edit(f) PROVE H!HNext
  <2>1. H!UserEdit(f)
    BY <1>3, HistoryKept DEF Edit, H!UserEdit
  <2> QED BY <2>1 DEF H!HNext
<1>4. ASSUME NEW p \in Proc, RestoreApply(p) PROVE [H!HNext]_(H!histVars)
  BY <1>4, ApplyIsChange
<1>5. ASSUME UNCHANGED log, UNCHANGED disk PROVE UNCHANGED H!histVars
  BY <1>5, HistoryKept DEF H!histVars
<1> QED BY <1>1, <1>2, <1>3, <1>4, <1>5, LogSteps, TreeSteps

\* The store implements the abstract history: for its callers every call is
\* atomic, whatever interleaves with it and wherever it is cut off.
THEOREM StoreImplementsHistory == Spec => ImplementsHistory
<1>1. Init => H!HInit
  BY HistoryInit
<1>2. StoreInv /\ StoreInv' /\ [Next]_vars => [H!HNext]_(H!histVars)
  BY HistoryNext
<1> QED BY <1>1, <1>2, StoreInvariant, PTL DEF Spec, ImplementsHistory, H!HSpec
=============================================================================
