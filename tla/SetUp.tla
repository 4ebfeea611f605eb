------------------------------- MODULE SetUp --------------------------------
(***************************************************************************)
(* "salvager init" and "salvager init --undo" (init.go): a run reconciles  *)
(* three pieces one after the other, the registration of the MCP server    *)
(* with the claude program, the block between two markers in the user's    *)
(* CLAUDE.md, and the hook in the settings of the project.  All three are  *)
(* the user's: between the steps of a run the user edits the text, and a   *)
(* run may end anywhere.                                                   *)
(*                                                                         *)
(* A text is a sequence of tokens: the two markers, the lines between      *)
(* them, the end of a line, and words of the user.  A block of hooks has a *)
(* matcher and the commands of its hooks; blocks, and commands in a block, *)
(* have numbers in the order of the file and keep them when others go.     *)
(***************************************************************************)
EXTENDS Naturals, Sequences, SequencesExt, FiniteSets

CONSTANTS
    Word,           \* words of the user
    UserHook,       \* hook commands of the user
    NoFile,         \* a text that is missing
    Documents,      \* texts the user may start with
    Settings,       \* blocks of hooks the user may start with
    Registrations,  \* registrations claude may start with
    Editable,       \* tokens the user may insert or delete
    MaxEdits, MaxRuns, MaxLen  \* bounds of the instance

Command == {"mine", "stale"} \cup UserHook
Block == [matcher : {"current", "narrow", "user"}, hooks : Seq(Command)]

SetUpAssumption ==
    /\ {MaxEdits, MaxRuns, MaxLen} \subseteq Nat
    /\ Settings \subseteq Seq(Block)

VARIABLES
    md,         \* ~/.claude/CLAUDE.md
    hooks,      \* PreToolUse of .claude/settings.local.json, by the number of the block
    json,       \* whether these settings are JSON
    mcp,        \* registrations of "salvager" with claude, by scope
    pc,         \* the step of the run under way, "user" when there is none
    undo,       \* whether the run is an --undo
    noMD,       \* whether it has --no-claude-md
    ok,         \* the pieces of the last run reported as in order
    words,      \* the user's words outside complete blocks, as last left
    others,     \* the user's part of the hooks, as last left
    edits, runs

vars == <<md, hooks, json, mcp, pc, undo, noMD, ok, words, others, edits, runs>>
call == <<undo, noMD, edits, runs, words, others, json>>

Token == {"start", "end", "body", "old", "nl"} \cup Word
-----------------------------------------------------------------------------
(* desiredBlock, the text between the markers included. *)
DesiredBlock == <<"start", "body", "end">>

IsBlank(c) == \A i \in 1 .. Len(c) : c[i] = "nl"

(* removeAllBlocks, as one walk over the text: from a start marker on,     *)
(* tokens are held back until an end marker drops them; a start without an *)
(* end stays.  at is where the first block was, from the left.             *)
Walk(s, t) ==
    IF s.open
    THEN IF t = "end"
         THEN [s EXCEPT !.open = FALSE, !.held = <<>>,
                        !.at = IF s.found THEN @ ELSE Len(s.out), !.found = TRUE]
         ELSE [s EXCEPT !.held = Append(@, t)]
    ELSE IF t = "start" THEN [s EXCEPT !.open = TRUE, !.held = <<t>>]
         ELSE [s EXCEPT !.out = Append(@, t)]
RemoveAllBlocks(c) ==
    LET s == FoldLeft(Walk, [out |-> <<>>, held |-> <<>>, open |-> FALSE,
                             found |-> FALSE, at |-> 0], c)
    IN [text |-> s.out \o s.held, at |-> s.at, found |-> s.found]

(* mergeBlock: one current block where the first one was, or at the end.   *)
MergeBlockNew(c) ==
    LET base == IF Last(c) = "nl" THEN c ELSE Append(c, "nl")
    IN base \o <<"nl">> \o DesiredBlock \o <<"nl">>
(* A mutant: a block is appended beside the one that is there. *)
MergeBlockTwice(c) == IF c = NoFile \/ IsBlank(c) THEN DesiredBlock \o <<"nl">>
                      ELSE MergeBlockNew(c)

(* A mutant: the file is written anew. *)
MergeBlockRegenerated(c) == DesiredBlock \o <<"nl">>

MergeBlock(c) ==
    IF c = NoFile \/ IsBlank(c) THEN DesiredBlock \o <<"nl">>
    ELSE LET r == RemoveAllBlocks(c)
         IN IF r.found
            THEN SubSeq(r.text, 1, r.at) \o DesiredBlock
                 \o SubSeq(r.text, r.at + 1, Len(r.text))
            ELSE MergeBlockNew(c)

(* collapseBlankRun and the trimming of undoClaudeMD. *)
Squeeze(s, t) == IF t = "nl" /\ Len(s) >= 2 /\ s[Len(s)] = "nl" /\ s[Len(s) - 1] = "nl"
                 THEN s ELSE Append(s, t)
TrimRight(c) == SubSeq(c, 1, CHOOSE n \in 0 .. Len(c) :
                                 /\ \A i \in n + 1 .. Len(c) : c[i] = "nl"
                                 /\ n > 0 => c[n] # "nl")
UndoClaudeMD(c) ==
    IF c = NoFile \/ ~RemoveAllBlocks(c).found THEN c
    ELSE LET t == TrimRight(FoldLeft(Squeeze, <<>>, RemoveAllBlocks(c).text))
         IN IF t = <<>> THEN t ELSE Append(t, "nl")
-----------------------------------------------------------------------------
(* isSalvagerHookCmd: the command of this binary, or of one that moved. *)
Ours(cmd) == cmd \in {"mine", "stale"}

(* salvagerHookState *)
OurHooks(bs) ==
    UNION {{<<i, j>> : j \in {k \in DOMAIN bs[i].hooks : Ours(bs[i].hooks[k])}} : i \in DOMAIN bs}
Correct(b, cmd) == cmd = "mine" /\ b.matcher = "current"
HasCorrect(bs) == \E p \in OurHooks(bs) : Correct(bs[p[1]], bs[p[1]].hooks[p[2]])
HasWrong(bs) == \E p \in OurHooks(bs) : ~Correct(bs[p[1]], bs[p[1]].hooks[p[2]])

(* A mutant: the whole block with an entry of ours goes. *)
StripOurBlocks(bs) ==
    [i \in {n \in DOMAIN bs : \A j \in DOMAIN bs[n].hooks : ~Ours(bs[n].hooks[j])} |-> bs[i]]

(* stripSalvagerHooks: a block without a hook left is dropped. *)
NotOurs(b) == {j \in DOMAIN b.hooks : ~Ours(b.hooks[j])}
Stripped(b) == [matcher |-> b.matcher, hooks |-> [j \in NotOurs(b) |-> b.hooks[j]]]
StripSalvagerHooks(bs) == [i \in {n \in DOMAIN bs : NotOurs(bs[n]) # {}} |-> Stripped(bs[i])]

DesiredHookBlock == [matcher |-> "current", hooks |-> <<"mine">>]
NewBlock(bs) == Max({0} \cup DOMAIN bs) + 1
AddBlock(bs) ==
    [i \in DOMAIN bs \cup {NewBlock(bs)} |-> IF i = NewBlock(bs) THEN DesiredHookBlock ELSE bs[i]]
(* A mutant: an entry that is wrong stays beside a right one. *)
ReconcileHookNarrow(bs) == IF HasCorrect(bs) THEN bs
                           ELSE AddBlock(StripSalvagerHooks(bs))

ReconcileHook(bs) == IF HasCorrect(bs) /\ ~HasWrong(bs) THEN bs
                     ELSE AddBlock(StripSalvagerHooks(bs))
UndoHook(bs) == IF OurHooks(bs) = {} THEN bs ELSE StripSalvagerHooks(bs)
-----------------------------------------------------------------------------
(* What of the two files is the user's. *)
IsWord(t) == t \in Word
UserWords(c) == IF c = NoFile THEN <<>> ELSE SelectSeq(RemoveAllBlocks(c).text, IsWord)
UserHooks(bs) ==
    [i \in {n \in DOMAIN bs : NotOurs(bs[n]) # {} \/ DOMAIN bs[n].hooks = {}} |-> Stripped(bs[i])]

Init ==
    /\ md \in Documents \cup {NoFile}
    /\ json \in BOOLEAN
    /\ hooks \in IF json THEN Settings ELSE {<<>>}
    /\ mcp \in Registrations
    /\ pc = "user"
    /\ undo = FALSE
    /\ noMD = FALSE
    /\ ok = {}
    /\ words = UserWords(md)
    /\ others = UserHooks(hooks)
    /\ edits = 0
    /\ runs = 0

(* The user inserts or deletes a token of the text, or the binary moves    *)
(* and with it the commands and the text that were current.                *)
UserEdits ==
    /\ edits < MaxEdits
    /\ edits' = edits + 1
    /\ md # NoFile
    /\ \/ /\ Len(md) < MaxLen
          /\ \E i \in 1 .. Len(md) + 1, t \in Editable : md' = InsertAt(md, i, t)
       \/ \E i \in 1 .. Len(md) : md[i] \in Editable /\ md' = RemoveAt(md, i)
    /\ words' = UserWords(md')
    /\ UNCHANGED <<hooks, json, mcp, pc, undo, noMD, ok, others, runs>>

Aged(cmd) == IF cmd = "mine" THEN "stale" ELSE cmd
BinaryMoves ==
    /\ pc = "user"
    /\ edits < MaxEdits
    /\ edits' = edits + 1
    /\ md' = IF md = NoFile THEN md
             ELSE [i \in 1 .. Len(md) |-> IF md[i] = "body" THEN "old" ELSE md[i]]
    /\ hooks' = [b \in DOMAIN hooks |->
                    [hooks[b] EXCEPT !.hooks = [j \in DOMAIN @ |-> Aged(@[j])]]]
    /\ mcp' = [s \in DOMAIN mcp |-> Aged(mcp[s])]
    /\ UNCHANGED <<json, pc, undo, noMD, ok, words, others, runs>>
-----------------------------------------------------------------------------
(* cmdInit; without the claude program the first piece is skipped. *)
Start ==
    /\ pc = "user"
    /\ runs < MaxRuns
    /\ runs' = runs + 1
    /\ undo' \in BOOLEAN
    /\ noMD' \in BOOLEAN
    /\ \/ pc' = "get" /\ ok' = {}
       \/ pc' = "md" /\ ok' = IF undo' THEN {"mcp"} ELSE {}
    /\ UNCHANGED <<md, hooks, json, mcp, words, others, edits>>

Found == IF mcp.local # "none" THEN mcp.local ELSE mcp.user  \* claude mcp get
Leave(p) == pc' = "md" /\ ok' = ok \cup p

(* reconcileMCP: absent, present but not readable, current, or wrong.      *)
GetMCP ==
    /\ pc = "get"
    /\ ~undo
    /\ CASE Found = "none" -> pc' = "add" /\ UNCHANGED ok
         [] Found \in {"odd", "mine"} -> Leave({"mcp"})
         [] Found = "stale" -> pc' = "remove" /\ UNCHANGED ok
    /\ UNCHANGED <<md, hooks, mcp, call>>

(* claude mcp remove --scope local, of which a reconciliation ignores the  *)
(* result; it fails when there is nothing of that scope.                   *)
RemoveMCP ==
    /\ pc = "remove"
    /\ mcp' \in {mcp, [mcp EXCEPT !.local = "none"]}
    /\ pc' = "add"
    /\ UNCHANGED <<md, hooks, ok, call>>

(* claude mcp add, which fails when the name is taken, or for another reason. *)
AddMCP ==
    /\ pc = "add"
    /\ \/ mcp.local = "none" /\ mcp' = [mcp EXCEPT !.local = "mine"] /\ pc' = "verify"
       \/ mcp' = mcp /\ pc' = "md"
    /\ UNCHANGED <<md, hooks, ok, call>>

(* verifyMCP looks again; the program may fail this time. *)
VerifyMCP ==
    /\ pc = "verify"
    /\ Leave({"mcp"}) \/ Leave({})
    /\ UNCHANGED <<md, hooks, mcp, call>>

UndoMCP ==
    /\ pc = "get"
    /\ undo
    /\ \/ Found = "none" /\ Leave({"mcp"}) /\ UNCHANGED mcp
       \/ Found # "none" /\ Leave({}) /\ UNCHANGED mcp
       \/ /\ mcp.local # "none"
          /\ mcp' = [mcp EXCEPT !.local = "none"]
          /\ Leave({"mcp"})
    /\ UNCHANGED <<md, hooks, call>>

(* reconcileClaudeMD and undoClaudeMD; the file may not be readable or     *)
(* writable.                                                               *)
ClaudeMD ==
    /\ pc = "md"
    /\ pc' = "hook"
    /\ IF noMD THEN UNCHANGED <<md, ok>>
       ELSE \/ md' = (IF undo THEN UndoClaudeMD(md) ELSE MergeBlock(md)) /\ ok' = ok \cup {"md"}
            \/ UNCHANGED <<md, ok>>
    /\ UNCHANGED <<hooks, mcp, call>>

(* reconcileHook and undoHook; settings that are not JSON are left alone,  *)
(* and a file that is missing is one without a block (readSettings).       *)
Hook ==
    /\ pc = "hook"
    /\ pc' = "user"
    /\ \/ /\ json
          /\ hooks' = IF undo THEN UndoHook(hooks) ELSE ReconcileHook(hooks)
          /\ ok' = ok \cup {"hook"}
       \/ UNCHANGED <<hooks, ok>>
    /\ UNCHANGED <<md, mcp, call>>

(* The run is killed between two pieces. *)
Crash == /\ pc # "user"
         /\ pc' = "user"
         /\ ok' = {}
         /\ UNCHANGED <<md, hooks, mcp, call>>

Next == \/ UserEdits \/ BinaryMoves
        \/ Start \/ GetMCP \/ RemoveMCP \/ AddMCP \/ VerifyMCP \/ UndoMCP
        \/ ClaudeMD \/ Hook \/ Crash
Spec == Init /\ [][Next]_vars
-----------------------------------------------------------------------------
(* The values every variable takes; runs do not make the text grow. *)
TypeOK ==
    /\ md = NoFile \/ (md \in Seq(Token) /\ Len(md) <= MaxLen + 6)
    /\ \A i \in DOMAIN hooks : \A j \in DOMAIN hooks[i].hooks : hooks[i].hooks[j] \in Command
    /\ mcp \in [local : {"none", "mine", "stale", "odd"}, user : {"none", "stale"}]
    /\ pc \in {"user", "get", "remove", "add", "verify", "md", "hook"}
    /\ ok \subseteq {"mcp", "md", "hook"}

(* The user's words outside the markers outlive every run: "Content        *)
(* outside the markers is preserved" (init.go:339, init.go:396).           *)
Count(c, t) == Cardinality({i \in 1 .. Len(c) : c[i] = t})
UserTextKept == md # NoFile => \A w \in Word : Count(md, w) >= Count(words, w)

(* A run takes away nothing of the user's hooks: "every other block and    *)
(* any non-Salvager hook inside a shared block is preserved untouched"     *)
(* (init.go:704-705).                                                      *)
UserHooksKept == UserHooks(hooks) = others

(* What a run leaves is what another one would leave: "run it twice and    *)
(* nothing changes" (README.md:164).                                       *)
RunTwice ==
    [][/\ pc = "md" /\ ~noMD /\ "md" \in ok' /\ ~undo => MergeBlock(md') = md'
       /\ pc = "hook" /\ "hook" \in ok' /\ ~undo => ReconcileHook(hooks') = hooks']_vars

(* A piece that is reported in order is: after a reconciliation one block  *)
(* and one kind of hook of ours, the current ones, and a registration that *)
(* is this binary's or could not be read; after an undo none of them.      *)
McpInPlace == IF undo THEN mcp'.local = "none" ELSE Found' \in {"mine", "odd"}
BlockInPlace == IF undo THEN md' = NoFile \/ ~RemoveAllBlocks(md').found
                ELSE Count(md', "body") = 1 /\ Count(md', "old") = 0
HookInPlace == IF undo THEN OurHooks(hooks') = {}
               ELSE HasCorrect(hooks') /\ ~HasWrong(hooks')
PiecesInPlace ==
    [][/\ pc \in {"get", "verify"} /\ "mcp" \in ok' => McpInPlace
       /\ pc = "md" /\ "md" \in ok' => BlockInPlace
       /\ pc = "hook" /\ "hook" \in ok' => HookInPlace]_vars

(* An undo takes a text back to what it was before the set-up, but for     *)
(* blank lines at its end: "Content outside the markers is preserved"      *)
(* (init.go:396).                                                          *)
RoundTrip ==
    md # NoFile /\ ~IsBlank(md) /\ ~RemoveAllBlocks(md).found
        => TrimRight(UndoClaudeMD(MergeBlock(md))) = TrimRight(md)
=============================================================================
