----------------------------- MODULE SetUpFiles -----------------------------
(***************************************************************************)
(* The files of the set-up: how one of them is replaced (AtomicFile), and  *)
(* what "init" and "init --undo" make of them (SetUp), where each is read  *)
(* and written at once.                                                    *)
(***************************************************************************)
EXTENDS AtomicFile, Sequences

CONSTANTS Word, UserHook, NoFile, Documents, Settings, Registrations, Editable,
          MaxEdits, MaxRuns, MaxLen
VARIABLES md, hooks, json, mcp, step, undo, noMD, ok, words, others, edits, runs

Pieces == INSTANCE SetUp WITH pc <- step
ASSUME PiecesAssumption == Pieces!SetUpAssumption

setUpVars == <<md, hooks, json, mcp, step, undo, noMD, ok, words, others, edits, runs>>
-----------------------------------------------------------------------------
(* The hooks that are not ours are left as they are (stripSalvagerHooks).  *)
UserHooksKept == Pieces!UserHooksKept

(* No block of hooks is empty to begin with; an empty one is dropped.      *)
NoEmptyBlocks == \A bs \in Settings : \A i \in DOMAIN bs : DOMAIN bs[i].hooks # {}
=============================================================================
