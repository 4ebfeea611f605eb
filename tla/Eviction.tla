----------------------------- MODULE Eviction -----------------------------
(***************************************************************************)
(* The loop of retention by size as the code writes it: it cuts every log  *)
(* into units, sorts the units of all files, and evicts from the front     *)
(* while it keeps a reference count per object and a running total of the  *)
(* bytes left.  Module Store says which lines go without a loop, by what   *)
(* is left before each of them; here the two are compared.                 *)
(***************************************************************************)
EXTENDS Store, Sequences, TLC

LOCAL Seqs == INSTANCE SequencesExt

AsSeq(S) == FoldSet(LAMBDA x, s : Append(s, x), <<>>, S)

\* The slice readLog returns, as line numbers, oldest first.
Revs(f) == SortSeq(AsSeq(DOMAIN log[f]), LAMBDA i, j : i < j)

Member(f, i) == [file |-> f, ts |-> log[f][i].ts, hash |-> log[f][i].hash]

\* The units of one file from its n-th line on: the newest line is in none, a
\* safeguard and its restore are in one, a pair that ends the log in none.
RECURSIVE UnitsFrom(_, _)
UnitsFrom(f, n) ==
  LET revs == Revs(f)
      newest == Len(revs)
      label(k) == log[f][revs[k]].label
  IN IF n >= newest THEN <<>>
     ELSE IF label(n) # "pre-restore" \/ label(n + 1) # "restore"
       THEN <<<<Member(f, revs[n])>>>> \o UnitsFrom(f, n + 1)
     ELSE IF n + 1 = newest THEN <<>>
     ELSE <<<<Member(f, revs[n]), Member(f, revs[n + 1])>>>> \o UnitsFrom(f, n + 2)

Older(u, v) ==
  \/ u[1].ts < v[1].ts
  \/ u[1].ts = v[1].ts /\ PathRank[u[1].file] < PathRank[v[1].file]

EvictionUnits ==
  SortSeq(FoldSet(LAMBDA f, s : s \o UnitsFrom(f, 1), <<>>, File), Older)

\* What the loop starts with.
Counted ==
  [total   |-> BytesOf(AllLines),
   count   |-> [h \in Content |-> Cardinality({x \in AllLines : log[x[1]][x[2]].hash = h})],
   removed |-> {}]

\* A mutant: every reference that goes takes the object's bytes with it.
EvictMemberUncounted(acc, m) ==
  [total   |-> acc.total - Size[m.hash],
   count   |-> [acc.count EXCEPT ![m.hash] = @ - 1],
   removed |-> acc.removed \cup {<<m.file, m.ts>>}]

\* One reference goes; the object goes with the last one.
EvictMember(acc, m) ==
  [total   |-> IF acc.count[m.hash] = 1 THEN acc.total - Size[m.hash] ELSE acc.total,
   count   |-> IF acc.count[m.hash] > 0 THEN [acc.count EXCEPT ![m.hash] = @ - 1] ELSE acc.count,
   removed |-> acc.removed \cup {<<m.file, m.ts>>}]

\* A mutant: one unit too many goes when the budget is met exactly.
EvictUnitAtBudget(acc, u) ==
  IF acc.total < MaxBytes THEN acc ELSE Seqs!FoldLeft(EvictMember, acc, u)

EvictUnit(acc, u) ==
  IF acc.total <= MaxBytes THEN acc ELSE Seqs!FoldLeft(EvictMember, acc, u)

Evicted == Seqs!FoldLeft(EvictUnit, Counted, EvictionUnits)

\* The lines of f that survive: those whose timestamp was not removed.
Survives(f, i) == <<f, log[f][i].ts>> \notin Evicted.removed

-----------------------------------------------------------------------------
Deciding ==
  \E p \in Proc : pc[p] = "plan" /\ call[p].kind = "gc-by-size" /\ BytesOf(AllLines) > MaxBytes

\* The loop evicts the lines that the plan of module Store drops, no more and
\* no fewer: the oldest units first over all files, until the budget is met,
\* with objects that files share counted once.
LoopEvictsPlan ==
  Deciding => \A f \in File : \A i \in DOMAIN log[f] : Survives(f, i) <=> i \notin OverBudget(f)
=============================================================================
