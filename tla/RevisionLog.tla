---------------------------- MODULE RevisionLog ----------------------------
(***************************************************************************)
(* The history of one file, .salvager/index/<path>.log: the readable lines *)
(* of an append-only text file, oldest first.  A log is a function from    *)
(* line numbers to revisions.  Garbage collection rewrites a log with some *)
(* lines left out; the lines that survive keep their numbers here, so that *)
(* a revision can be followed from one state to the next.  The code never  *)
(* sees a line number: every operator below uses the order of the lines    *)
(* only.                                                                   *)
(***************************************************************************)
EXTENDS Naturals

\* Why a revision was recorded (type Label).
Label == {"first-seen", "modify", "delete", "pre-restore", "restore"}

EmptyLog == [i \in {} |-> i]

\* The readers of a log see it as a sequence: the newest line is the last one.
IsNewest(L, i) == i \in DOMAIN L /\ \A j \in DOMAIN L : j <= i

HasLast(L) == DOMAIN L # {}

NewestLine(L) == CHOOSE i \in DOMAIN L : IsNewest(L, i)

Last(L) == L[NewestLine(L)]

NextLine(L) == IF HasLast(L) THEN NewestLine(L) + 1 ELSE 1

\* O_APPEND: the new line goes after every line there is.
Appended(L, r) ==
  [i \in DOMAIN L \cup {NextLine(L)} |-> IF i = NextLine(L) THEN r ELSE L[i]]

\* The log rewritten without the lines in "gone".
Without(L, gone) == [i \in DOMAIN L \ gone |-> L[i]]

\* Line j is the successor of line i among the lines there are.
Adjacent(L, i, j) ==
  /\ i \in DOMAIN L /\ j \in DOMAIN L /\ i < j
  /\ \A k \in DOMAIN L : ~(i < k /\ k < j)

\* A safeguard and the restore that was written right after it.
Paired(L, i, j) ==
  /\ Adjacent(L, i, j)
  /\ L[i].label = "pre-restore"
  /\ L[j].label = "restore"

\* What retention never evicts: the newest line (P1) and, when that is a
\* restore, the safeguard before it (P2).
Pinned(L) ==
  {i \in DOMAIN L : IsNewest(L, i) \/ \E j \in DOMAIN L : IsNewest(L, j) /\ Paired(L, i, j)}

\* A mutant: every line goes alone.
UnitAlone(L, i) == {i}

\* The lines that go together with line i when retention by size evicts it.
Unit(L, i) == {j \in DOMAIN L : j = i \/ Paired(L, i, j) \/ Paired(L, j, i)}

\* The oldest line of the unit of line i.
UnitHead(L, i) == CHOOSE j \in Unit(L, i) : \A k \in Unit(L, i) : j <= k

\* The lines a search for timestamp t stops at: the first that carries it.
FirstAt(L, t) ==
  {i \in DOMAIN L : L[i].ts = t /\ \A j \in DOMAIN L : L[j].ts = t => i <= j}

HashesOf(L) == {L[i].hash : i \in DOMAIN L}
=============================================================================
