------------------------------ MODULE MCSetUp -------------------------------
(***************************************************************************)
(* The files of the set-up for TLC: how one is written, and what a set-up  *)
(* makes of them.  A run is about one part, chosen at the start; the       *)
(* others rest in a first state.                                           *)
(*   "file"    AtomicFile with three calls, each with a content of its own *)
(*   "text"    SetUp: texts of up to three pieces with complete blocks     *)
(*   "pieces"  SetUp: hooks of the user and of ours, apart and in one      *)
(*             block, and every registration                               *)
(***************************************************************************)
EXTENDS SetUpFiles, TLC

CONSTANTS a, b, c, old
MCData == {a, b, c, old}
MCNew == [p \in {a, b, c} |-> p]

VARIABLE part

Snippets == {<<"w1">>, <<"w2">>, <<"nl">>, <<"end">>, <<"start", "body", "end">>, <<"start", "old", "end">>}
Texts == {x \o y \o z : x, y, z \in Snippets}
FewTexts == {<<"w1">>, <<"w1", "nl">>, <<"w1", "nl", "w2">>}

Current == [matcher |-> "current", hooks |-> <<"mine">>]
User == [matcher |-> "user", hooks |-> <<"lint">>]
Shared == [matcher |-> "current", hooks |-> <<"stale", "lint", "mine">>]
Narrow == [matcher |-> "narrow", hooks |-> <<"mine">>]
SomeSettings == {<<>>, <<User>>, <<Shared, User>>, <<User, Narrow>>, <<Narrow, Current>>}

NoScope == {[local |-> "none", user |-> "none"]}
AllScopes == [local : {"none", "mine", "stale", "odd"}, user : {"none", "stale"}]

Text == INSTANCE SetUp WITH Documents <- Texts, Settings <- {<<Narrow>>}, Registrations <- NoScope,
                            Editable <- {"w1", "nl"}, MaxEdits <- 1, MaxRuns <- 2, pc <- step
ASSUME Text!SetUpAssumption

FileAtRest == Init /\ file = Absent
SetUpAtRest == Text!Init /\ md = NoFile /\ ~json

MCInit ==
  \/ part = "file" /\ Init /\ SetUpAtRest
  \/ part = "text" /\ FileAtRest /\ Text!Init
  \/ part = "pieces" /\ FileAtRest /\ Pieces!Init

MCNext ==
  /\ \/ part = "file" /\ Next /\ UNCHANGED setUpVars
     \/ part = "text" /\ Text!Next /\ UNCHANGED vars
     \/ part = "pieces" /\ Pieces!Next /\ UNCHANGED vars
  /\ UNCHANGED part

MCSpec == MCInit /\ [][MCNext]_<<vars, part, setUpVars>>
-----------------------------------------------------------------------------
\* The user's words outside the markers outlive every run, over texts of any
\* length up to the bound (mergeBlock, undoClaudeMD).
TextInv == Text!TypeOK /\ Text!UserTextKept

\* A run leaves what another one would leave (mergeBlock, reconcileHook).
RunTwice == Text!RunTwice

\* A piece that is reported in order is (cmdInit, verifyMCP).
PiecesInPlace == Pieces!PiecesInPlace
=============================================================================
