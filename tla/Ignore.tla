------------------------------- MODULE Ignore -------------------------------
(***************************************************************************)
(* What is out of scope (ignore/ignore.go) and the two walks that ask: the *)
(* real-time walk (watch.go, walkAndRegister), which prunes with MatchDir, *)
(* and the sweep of what the backend refused (sweep.go, walkRecord), which *)
(* prunes with Match.  Whoever meets a file, the answer has to be the same.*)
(***************************************************************************)
EXTENDS Sequences, FiniteSets, Integers

CONSTANTS
    Dir, File, Root,    \* the tree, Root in Dir
    Parent,             \* [Path \ {Root} -> Dir]
    Above,              \* [Path -> SUBSET Path], a path and what is above it
    Default,            \* directories with one of the names in Defaults
    Temp,               \* paths with a base name in EditorTemp
    Lists,              \* contents of .gitignore: sequences of patterns
    Refusable           \* directories the backend may refuse

Path == Dir \cup File

(* What is above a path is the least set with the path and every parent. *)
Climbs(A) == \A q \in A \ {Root} : Parent[q] \in A
IsLeast(S, p) == /\ p \in S /\ Climbs(S)
                 /\ \A A \in SUBSET Path : p \in A /\ Climbs(A) => S \subseteq A

Pattern == [at : Path, dirOnly : BOOLEAN, negated : BOOLEAN]

IgnoreAssumption ==
    /\ Root \in Dir /\ Dir \cap File = {}
    /\ Parent \in [Path \ {Root} -> Dir]
    /\ Above \in [Path -> SUBSET Path]
    /\ \A p \in Path : IsLeast(Above[p], p) /\ Root \in Above[p]
    /\ Default \cup Refusable \subseteq Dir \ {Root} /\ Temp \subseteq Path \ {Root}
    /\ Lists \subseteq Seq(Pattern)

VARIABLES
    gi,         \* the patterns read when the matcher was built
    todo,       \* paths the real-time walk has still to look at
    sweeping,   \* paths the sweep has still to look at
    recorded    \* files that were captured

vars == <<gi, todo, sweeping, recorded>>

(* The components of a path relative to the root: itself and what is above.*)
Components(p) == Above[p] \ {Root}
Entries(d) == {p \in Path \ {Root} : Parent[p] = d}
-----------------------------------------------------------------------------
(* The library: a pattern [at, dirOnly, negated] is about the path at and  *)
(* all below it; with dirOnly at itself only in the form with a slash.     *)
Hits(pat, p, slash) ==
    \/ pat.at \in Components(p) \ {p}
    \/ pat.at = p /\ (pat.dirOnly => slash)
LastHit(p, slash) ==
    LET hits == {i \in DOMAIN gi : Hits(gi[i], p, slash)}
    IN IF hits = {} THEN 0 ELSE CHOOSE i \in hits : \A j \in hits : j <= i
MatchesPath(p, slash) == LastHit(p, slash) # 0 /\ ~gi[LastHit(p, slash)].negated

(* A mutant: .gitignore is asked first. *)
MatchesGitFirst(p, isDir) ==
    IF LastHit(p, isDir) # 0 THEN ~gi[LastHit(p, isDir)].negated
    ELSE p # Root /\ (Components(p) \cap Default # {} \/ p \in Temp)

(* Matcher.match. *)
Matches(p, isDir) ==
    /\ p # Root
    /\ \/ Components(p) \cap Default # {}
       \/ p \in Temp
       \/ MatchesPath(p, FALSE)
       \/ isDir /\ MatchesPath(p, TRUE)
Match(p) == Matches(p, FALSE)
MatchDir(p) == Matches(p, TRUE)
-----------------------------------------------------------------------------
Init ==
    /\ gi \in Lists
    /\ todo = {Root} /\ sweeping = {} /\ recorded = {}

(* walkAndRegister at a directory, and at a file. *)
Prune(d) ==
    /\ d \in todo \cap Dir
    /\ MatchDir(d)
    /\ todo' = todo \ {d}
    /\ UNCHANGED <<gi, sweeping, recorded>>

AddDir(d) ==
    /\ d \in todo \cap Dir
    /\ ~MatchDir(d)
    /\ todo' = (todo \ {d}) \cup Entries(d)
    /\ UNCHANGED <<gi, sweeping, recorded>>

(* A directory the backend refuses. *)
AddRoot(d) ==
    /\ d \in todo \cap Refusable
    /\ ~MatchDir(d)
    /\ todo' = todo \ {d}
    /\ sweeping' = sweeping \cup {d}
    /\ UNCHANGED <<gi, recorded>>

Scan(f) ==
    /\ f \in todo \cap File
    /\ todo' = todo \ {f}
    /\ recorded' = IF Match(f) THEN recorded ELSE recorded \cup {f}
    /\ UNCHANGED <<gi, sweeping>>

(* A mutant: the sweep captures whatever it finds. *)
SweepAll(p) ==
    /\ p \in sweeping
    /\ sweeping' = (sweeping \ {p}) \cup Entries(p)
    /\ recorded' = recorded \cup ({p} \cap File)
    /\ UNCHANGED <<gi, todo>>

(* walkRecord at a path of either kind. *)
Sweep(p) ==
    /\ p \in sweeping
    /\ IF Match(p)
       THEN sweeping' = sweeping \ {p} /\ UNCHANGED recorded
       ELSE /\ sweeping' = (sweeping \ {p}) \cup Entries(p)
            /\ recorded' = recorded \cup ({p} \cap File)
    /\ UNCHANGED <<gi, todo>>

Next ==
    \/ \E d \in Dir : Prune(d) \/ AddDir(d) \/ AddRoot(d)
    \/ \E f \in File : Scan(f)
    \/ \E p \in Path : Sweep(p)

Spec == Init /\ [][Next]_vars
-----------------------------------------------------------------------------
(* A path is never on both lists: what the sweep owns, the walk left alone.*)
TypeOK ==
    /\ gi \in Lists
    /\ todo \subseteq Path /\ sweeping \subseteq Path /\ recorded \subseteq File
    /\ todo \cap sweeping = {}

(* In scope is what no directory above puts out of scope.                  *)
InScope(f) == ~Match(f) /\ \A d \in Components(f) \ {f} : ~MatchDir(d)

(* Nothing is included again beside a pattern for directories only: those  *)
(* the sweep asks about by their bare name (sweep.go:307).                 *)
Agreeing(l) == ~ \E i, j \in DOMAIN l : l[i].dirOnly /\ ~l[i].negated /\ l[j].negated

(* Polling and watching agree: whatever the backend refuses, what is       *)
(* captured in the end is what is in scope.                                *)
WalksAgree == todo \cup sweeping = {} => recorded = {f \in File : InScope(f)}

(* Nothing below a default exclude is captured, the store's own directory  *)
(* first of all, no matter what .gitignore includes again.                 *)
DefaultsStayOut == \A f \in recorded : Components(f) \cap Default = {}
=============================================================================
