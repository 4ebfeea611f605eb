------------------------------ MODULE LogFile ------------------------------
(***************************************************************************)
(* The text of one revision log (formatLine, appendLog, parseLine, readLog,*)
(* rewriteLog in store/store.go) when an append may be cut off: by a crash *)
(* or a full disk.  A line is a sequence of columns, of which the four of  *)
(* the content signal count as one.  What is written after a cut continues *)
(* the line that was cut: a column is a sequence of pieces.  A line has the*)
(* number of the append that began it, and keeps it when others go.        *)
(***************************************************************************)
EXTENDS Naturals, FiniteSets, SequencesExt

CONSTANTS
  Hash,       \* the hashes that are recorded
  ShortCut,   \* how many digits of a timestamp a cut may leave
  MaxAppends, \* bound: how many lines are appended
  MaxTorn,    \* bound: how many of them are cut off
  MaxClock,   \* bound: the last value of the wall clock
  Far         \* what one more digit in front adds to a timestamp

\* The labels whose first letters matter: a deletion has no content.
Label == {"modify", "delete"}

\* A timestamp in milliseconds has 13 digits, an int64 no more than 19.
Digits == 13
MaxDigits == 19

LogFileAssumption ==
  /\ ShortCut \subseteq 1 .. Digits
  /\ {MaxAppends, MaxTorn, MaxClock} \subseteq Nat
  /\ Far \in Nat /\ Far > MaxClock + MaxAppends + MaxTorn

VARIABLES
  lines,   \* the lines of the file, by number
  open,    \* whether the last one lacks its newline
  objects, \* the objects of the store
  clock,   \* the wall clock
  acked,   \* history: the revisions whose append succeeded
  whole,   \* history: those of which all three columns were written on a line of their own
  torn,    \* history: the column in which the last line was cut, or 0
  cuts,    \* how many appends were cut off
  appends  \* how many were written to their end

vars == <<lines, open, objects, clock, acked, whole, torn, cuts, appends>>

Piece(kind, v) == [kind |-> kind, v |-> v]

\* What a cut leaves of a timestamp, so many digits, or of another column.
Frag(left) == Piece("frag", left)
-----------------------------------------------------------------------------
(* Reading.                                                                *)

\* The number a column is, or 0 when it is none: a whole timestamp, or one with
\* up to six digits of another in front of it.
TimestampOf(c) ==
  IF Len(c) = 1 /\ c[1].kind = "ts" THEN c[1].v
  ELSE IF Len(c) = 2 /\ c[1].kind = "frag" /\ c[2].kind = "ts" /\ c[1].v + Digits <= MaxDigits
    THEN Far * c[1].v + c[2].v
  ELSE 0

HashOf(c) == IF Len(c) = 1 /\ c[1].kind = "hash" THEN c[1].v ELSE "garbage"
LabelOf(c) == IF Len(c) = 1 /\ c[1].kind = "label" THEN c[1].v ELSE "garbage"

\* A mutant: a line with a corrupt signal is dropped.
ParsesWholly(l) == Len(l) = 4 /\ TimestampOf(l[1]) # 0 /\ Len(l[4]) = 1 /\ l[4][1].kind = "signal"

\* Three columns, the first of them a number: the others are taken as they are.
Parses(l) == Len(l) >= 3 /\ TimestampOf(l[1]) # 0

ParseLine(l) == [ts |-> TimestampOf(l[1]), hash |-> HashOf(l[2]), label |-> LabelOf(l[3])]

ReadLog(ls) == [i \in {n \in DOMAIN ls : Parses(ls[n])} |-> ParseLine(ls[i])]

Revs == ReadLog(lines)

HasLast == DOMAIN Revs # {}
LastRevision == Revs[Max(DOMAIN Revs)]
-----------------------------------------------------------------------------
(* Writing.                                                                *)

FormatLine(r) ==
  << <<Piece("ts", r.ts)>>, <<Piece("hash", r.hash)>>, <<Piece("label", r.label)>>, <<Piece("signal", "")>> >>

\* The columns of a line up to a cut in column k; the piece of column k that is
\* left may be all of it but the tab behind it.
CutAt(r, k) ==
  {Append(SubSeq(FormatLine(r), 1, k - 1), <<p>>) :
     p \in IF k = 1 THEN {Frag(d) : d \in ShortCut} ELSE {Frag(""), FormatLine(r)[k][1]}}

\* The first column written continues the last one of the line.
Continued(l, cols) == Front(l) \o << Last(l) \o Head(cols) >> \o Tail(cols)

\* O_APPEND: what is written goes on where the file ends.
NewLine == appends + cuts + 1
Glued(cols) ==
  IF open THEN [lines EXCEPT ![Max(DOMAIN lines)] = Continued(@, cols)]
  ELSE [i \in DOMAIN lines \cup {NewLine} |-> IF i = NewLine THEN cols ELSE lines[i]]

\* A mutant: a line of the same millisecond is not moved.
NextTimestampTie ==
  IF HasLast /\ clock < LastRevision.ts THEN LastRevision.ts + 1 ELSE clock

NextTimestamp ==
  IF HasLast /\ clock <= LastRevision.ts THEN LastRevision.ts + 1 ELSE clock

Init ==
  /\ lines = <<>> /\ open = FALSE /\ objects = {} /\ clock = 1
  /\ acked = {} /\ whole = {} /\ torn = 0 /\ cuts = 0 /\ appends = 0

\* An append that is written to its end.
AppendLog(h, label) ==
  LET r == [ts |-> NextTimestamp, hash |-> h, label |-> label]
  IN /\ appends < MaxAppends /\ appends' = appends + 1
     /\ objects' = objects \cup {h}
     /\ lines' = Glued(FormatLine(r))
     /\ open' = FALSE /\ torn' = 0
     /\ acked' = acked \cup {r}
     /\ whole' = IF open THEN whole ELSE whole \cup {r}
     /\ UNCHANGED <<clock, cuts>>

\* An append that is cut off: the call fails or its process dies.
AppendTorn(h, label) ==
  LET r == [ts |-> NextTimestamp, hash |-> h, label |-> label]
  IN \E k \in 1 .. 4 : \E cols \in CutAt(r, k) :
       /\ cuts < MaxTorn /\ cuts' = cuts + 1
       /\ objects' = objects \cup {h}
       /\ lines' = Glued(cols)
       /\ open' = TRUE /\ torn' = k
       /\ whole' = IF ~open /\ k = 4 THEN whole \cup {r} ELSE whole
       /\ UNCHANGED <<clock, acked, appends>>

\* A mutant: the newest revision stays and its object goes.
InUseByAge(kept, cutoff) == {Revs[i].hash : i \in {j \in kept : Revs[j].ts >= cutoff}}

\* The objects the surviving lines name.
InUse(kept, cutoff) == {Revs[i].hash : i \in kept}

\* Retention by age: the newest line stays, whatever its age.  A log that loses
\* no line is left as it is, else what was read is written anew.
Collect(cutoff) ==
  LET kept == {i \in DOMAIN Revs : Revs[i].ts >= cutoff \/ i = Max(DOMAIN Revs)}
      gone == {r \in whole : r.ts < cutoff /\ r # LastRevision}
  IN /\ HasLast
     /\ IF kept = DOMAIN Revs
          THEN UNCHANGED <<lines, open, torn>>
          ELSE /\ lines' = [i \in kept |-> FormatLine(Revs[i])]
               /\ open' = FALSE /\ torn' = 0
     /\ objects' = objects \cap InUse(kept, cutoff)
     /\ acked' = acked \ gone
     /\ whole' = whole \ gone
     /\ UNCHANGED <<clock, cuts, appends>>

Tick == clock < MaxClock /\ clock' = clock + 1 /\ UNCHANGED <<lines, open, objects, acked, whole, torn, cuts, appends>>

Next ==
  \/ \E h \in Hash, label \in Label : AppendLog(h, label) \/ AppendTorn(h, label)
  \/ \E cutoff \in 1 .. MaxClock : Collect(cutoff)
  \/ Tick

Spec == Init /\ [][Next]_vars
-----------------------------------------------------------------------------
(* Properties.                                                             *)

Column == {"ts", "hash", "label", "signal", "frag"}

\* Every variable holds what its declaration says; only the last line is short.
TypeOK ==
  /\ \A i \in DOMAIN lines : \A c \in DOMAIN lines[i] :
       lines[i][c] # <<>> /\ \A j \in DOMAIN lines[i][c] : lines[i][c][j].kind \in Column
  /\ \A i \in DOMAIN lines : Len(lines[i]) >= 4 \/ (open /\ i = Max(DOMAIN lines))
  /\ open <=> torn # 0
  /\ objects \subseteq Hash
  /\ {clock, cuts, appends, torn} \subseteq Nat

\* A revision whose line began a line of its own and has its three columns is
\* read as it was written, whatever was cut off before or after it, its own
\* signal included (parseLine).
RevisionsSurvive == \A r \in whole : \E i \in DOMAIN Revs : Revs[i] = r

\* The timestamps read from a file increase strictly, those of lines glued
\* together included: a timestamp names one revision.
TimesIncrease == \A i, j \in DOMAIN Revs : i < j => Revs[i].ts < Revs[j].ts

\* A collection keeps the objects of these revisions.
SurvivorsBacked == \A r \in whole : r.hash \in objects

\* A revision whose append succeeded can be read (stress_test.go: "Records still
\* work after the corruption is in place").
AckedReadable == \A r \in acked : \E i \in DOMAIN Revs : Revs[i] = r

\* A line cut off before its three columns are whole is not read (stress_test.go:
\* "a truncated final .log line must be ignored by List/Get").
TruncatedIgnored ==
  torn \in 1 .. 3 => \A i \in DOMAIN Revs : Revs[i].label \in Label /\ Revs[i].hash \in Hash
=============================================================================
