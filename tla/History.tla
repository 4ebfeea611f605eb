------------------------------ MODULE History ------------------------------
(***************************************************************************)
(* What the revision store promises its callers, with every call atomic:   *)
(* each file has a history of revisions whose contents can be read; a      *)
(* capture adds the newest one; the tool changes the working tree only     *)
(* after a safeguard, and only to a state that the history holds;          *)
(* retention takes old revisions away, never the newest.                   *)
(***************************************************************************)
EXTENDS RevisionLog

CONSTANTS
  File, Content, Absent,
  KeepPairs   \* whether retention keeps a safeguard as long as its restore

VARIABLES
  disk,   \* the working tree
  hist    \* hist[f]: the readable revisions of f

histVars == <<disk, hist>>

Entry == [ts : Nat, content : Content, label : Label]

HInit ==
  /\ disk \in [File -> Content \cup {Absent}]
  /\ hist = [f \in File |-> EmptyLog]

\* The revision that a step adds to the history of f.
Added(f) == hist'[f][NextLine(hist[f])]

\* A revision is added after all others, with a later timestamp.
Add(f) ==
  /\ NextLine(hist[f]) \in DOMAIN hist'[f]
  /\ Added(f) \in Entry
  /\ \A i \in DOMAIN hist[f] : hist[f][i].ts < Added(f).ts
  /\ hist' = [hist EXCEPT ![f] = Appended(@, Added(f))]
  /\ UNCHANGED disk

\* A capture: the first one of a file opens its history.
Capture(f) ==
  /\ Add(f)
  /\ Added(f).label # "restore"
  /\ Added(f).label = "first-seen" <=> ~HasLast(hist[f])

\* The end of a restore: recorded right after its safeguard.
MarkRestored(f) ==
  /\ HasLast(hist[f]) /\ Last(hist[f]).label = "pre-restore"
  /\ Add(f)
  /\ Added(f).label = "restore"

\* The working tree takes the state of a revision, once a safeguard is the
\* newest one.
ChangeTree(f) ==
  /\ HasLast(hist[f]) /\ Last(hist[f]).label = "pre-restore"
  /\ \E i \in DOMAIN hist[f] :
       disk' = [disk EXCEPT ![f] =
         IF hist[f][i].label = "delete" THEN Absent ELSE hist[f][i].content]
  /\ UNCHANGED hist

\* Retention: any revisions but the newest, and no safeguard without the
\* restore it undoes.
Purge(f) ==
  \E gone \in SUBSET DOMAIN hist[f] :
    /\ \A i \in gone : ~IsNewest(hist[f], i)
    /\ KeepPairs => \A i \in gone, j \in DOMAIN hist[f] : Paired(hist[f], i, j) => j \in gone
    /\ hist' = [hist EXCEPT ![f] = Without(@, gone)]
    /\ UNCHANGED disk

UserEdit(f) ==
  /\ \E c \in Content \cup {Absent} : disk' = [disk EXCEPT ![f] = c]
  /\ UNCHANGED hist

HNext ==
  \E f \in File :
    Capture(f) \/ MarkRestored(f) \/ ChangeTree(f) \/ Purge(f) \/ UserEdit(f)

HSpec == HInit /\ [][HNext]_histVars
=============================================================================
