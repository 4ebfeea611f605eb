-------------------------------- MODULE Walks -------------------------------
(***************************************************************************)
(* The watcher beside two things that are looked at on their own: what its *)
(* walks leave out (Ignore), over a tree that is at rest, and a run on a   *)
(* platform without polling, over a tree that nobody changes.  A behaviour *)
(* is about one of the parts, chosen at the start.                         *)
(*   "watcher"  Watcher with the constants of the module                   *)
(*   "alone"    no polling: a run that is refused a watch gives up         *)
(*   "scope"    Ignore, with a tree of its own                             *)
(***************************************************************************)
EXTENDS Watcher, Sequences

CONSTANTS ScopeDir, ScopeFile, ScopeRoot, ScopeParent, ScopeAbove, Default, Temp, Lists, Unwatchable
VARIABLES part, gi, listed, sweeping, captured

Scope == INSTANCE Ignore WITH Dir <- ScopeDir, File <- ScopeFile, Root <- ScopeRoot,
                              Parent <- ScopeParent, Above <- ScopeAbove,
                              Refusable <- Unwatchable, todo <- listed,
                              recorded <- captured
ASSUME ScopeAssumption == Scope!IgnoreAssumption

Alone == INSTANCE Watcher WITH Polling <- FALSE, EarlierRuns <- TRUE, MaxChanges <- 0,
                               UnreadableDirs <- {}, SweepFails <- {}

scopeVars == <<gi, listed, sweeping, captured>>
WatcherAtRest == Init /\ dirs = {Root} /\ stat = [file \in File |-> 0]
ScopeAtRest == Scope!Init /\ gi = <<>>

SafetyInit ==
  \/ part = "watcher" /\ Init /\ ScopeAtRest
  \/ part = "alone" /\ Alone!Init /\ ScopeAtRest
  \/ part = "scope" /\ WatcherAtRest /\ Scope!Init

SafetyNext ==
  /\ \/ part = "watcher" /\ Next /\ UNCHANGED scopeVars
     \/ part = "alone" /\ Alone!Next /\ UNCHANGED scopeVars
     \/ part = "scope" /\ Scope!Next /\ UNCHANGED vars
  /\ UNCHANGED part

SafetySpec == SafetyInit /\ [][SafetyNext]_<<vars, part, scopeVars>>
-----------------------------------------------------------------------------
(* What the two walks capture is what is in scope, and never a file of a   *)
(* directory excluded by default (ignore.go, walkAndRegister, walkRecord); *)
(* and a run without polling goes on only if it watches the whole tree     *)
(* (Run).                                                                  *)
ApartInv ==
  /\ part = "scope" => Scope!TypeOK /\ Scope!WalksAgree /\ Scope!DefaultsStayOut
  /\ part = "alone" => Alone!Whole

(* Every list of patterns is one the walks agree on. *)
ListsAgree == \A l \in Lists : Scope!Agreeing(l)
=============================================================================
