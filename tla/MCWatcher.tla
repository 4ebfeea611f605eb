----------------------------- MODULE MCWatcher ------------------------------
(***************************************************************************)
(* Walks for TLC: the tree of the watcher and that of the patterns.  The   *)
(* run of the liveness properties has two parts, that of the configuration *)
(* and                                                                     *)
(*   "faulty"   captures and listings fail, events are lost                *)
(***************************************************************************)
EXTENDS Walks, TLC

CONSTANTS top, outer, inner, f, g

\* A root with a directory in it, which holds another and a file; the inner one
\* holds a file too.
Tree == outer :> top @@ inner :> outer @@ f :> outer @@ g :> inner
Shallow == outer :> top @@ f :> outer @@ g :> top

Faulty == INSTANCE Watcher WITH Refusable <- {top, outer}, Unscannable <- {top, outer},
                                CaptureFails <- TRUE, EventsLost <- TRUE

\* A directory in a directory, a store, a directory named like an editor's
\* backup, and a file in each of them.
ScopeTree ==
  ("src" :> "root") @@ ("logs" :> "src") @@ ("store" :> "src")
    @@ ("backup" :> "root") @@ ("a" :> "root") @@ ("b" :> "src") @@ ("c" :> "logs")
    @@ ("rev" :> "store") @@ ("old" :> "backup")
TreeAbove[p \in {"root"} \cup DOMAIN ScopeTree] ==
  {p} \cup IF p = "root" THEN {} ELSE TreeAbove[ScopeTree[p]]
SomePattern == [at : {"src", "logs", "store", "b", "c"}, dirOnly : BOOLEAN, negated : BOOLEAN]
MCLists == {l \in {<<>>} \cup {<<p>> : p \in SomePattern} \cup {<<p, q>> : p, q \in SomePattern} :
              ~ \E i, j \in DOMAIN l : l[i].dirOnly /\ ~l[i].negated /\ l[j].negated}
ASSUME ListsAgree

FairInit == part \in {"watcher", "faulty"} /\ Init /\ ScopeAtRest

FairNext ==
  /\ \/ part = "watcher" /\ Next
     \/ part = "faulty" /\ Faulty!Next
  /\ UNCHANGED <<part, scopeVars>>

\* Both goroutines go on while they can, whatever may fail.
MCFairSpec ==
  /\ FairInit /\ [][FairNext]_<<vars, part, scopeVars>>
  /\ WF_vars(part = "watcher" /\ RunNext) /\ WF_vars(part = "watcher" /\ Poll)
  /\ WF_vars(part = "faulty" /\ Faulty!RunNext) /\ WF_vars(part = "faulty" /\ Faulty!Poll)
-----------------------------------------------------------------------------
\* When nothing fails and the tree is left alone, the store comes to hold all
\* that is in it, and the deletion of a file that the sweep has seen, unless the
\* file comes back first (Run, runSweepLoop, sweepRoots).
CalmSettles == part = "watcher" => EventuallyWhole /\ SeenVanishedIsFound
=============================================================================
