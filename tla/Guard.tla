-------------------------------- MODULE Guard -------------------------------
(***************************************************************************)
(* The command guard: the verdict on a tool call (guard/guard.go), the     *)
(* protected paths (guard/protect.go) and the hook that asks and answers   *)
(* (hook.go).  The clauses of a command are taken apart already; quoting   *)
(* and the shell's syntax are left out.                                    *)
(*                                                                         *)
(*   text    [clauses, substituted]                                        *)
(*     substituted  the clauses lifted out of $(...) and `...`             *)
(*   clause  [words, flags, into, args, exprs, redirects, inner]           *)
(*     words      the command with what stands before it (sudo, env, ...)  *)
(*     flags      what its flags mean                                      *)
(*     into       the value of -t, a sequence of at most one path          *)
(*     args       the arguments that are no flags; of find the roots       *)
(*     exprs      of find, the operands of its expression                  *)
(*     redirects  targets of >, >> and >|                                  *)
(*     inner      the clauses of a nested command                          *)
(*   path    [from, names]: below the project, from outside, or a variable *)
(*   rule    [kind, names, negated, tail]                                  *)
(*     kind, names  the base names, directories or paths a glob stands for *)
(*     tail         whether a comment stands behind it on its line         *)
(***************************************************************************)
EXTENDS Naturals, Sequences, FiniteSets, SequencesExt

CONSTANTS
    Texts,          \* the commands
    Edits,          \* the paths given to the tools that write a file
    Default,        \* defaultProtected
    UserRules,      \* contents of .salvager/protected
    Store,          \* the name .salvager
    Sinks,          \* files that keep nothing of what is written to them, /dev/null
    Nothing

Path == [from : {"project", "outside", "variable"}, names : Seq(STRING)]
Rule == [kind : {"base", "tree", "path"}, names : SUBSET Seq(STRING),
         negated : BOOLEAN, tail : BOOLEAN]
ClauseWith(inners) ==
    [words : Seq(STRING), flags : SUBSET STRING, into : Seq(Path), args : Seq(Path),
     exprs : Seq(Path), redirects : Seq(Path), inner : inners]
Clause == ClauseWith(Seq(ClauseWith({<<>>})))
Text == [clauses : Seq(Clause), substituted : Seq(Clause)]
NoText == [clauses |-> <<>>, substituted |-> <<>>]

GuardAssumption ==
    /\ Texts \subseteq Text
    /\ Edits \subseteq Path /\ Nothing \notin Edits
    /\ Default \in Seq(Rule) /\ UserRules \subseteq Seq(Rule)
ASSUME GuardAssumption

VARIABLES
    call,       \* [tool, text, path] of the tool call
    rules,      \* the user's layer
    freed,      \* paths for which the agent has added the exception it was told of
    todo,       \* clauses Classify has still to judge
    best,       \* the strictest verdict so far
    pc,         \* "read", "classify", "log", "answer", "done"
    logged,     \* the tier appended to hook-log
    answer,     \* what the agent is told: nothing, a hint, a deny
    failed      \* (of the model) the call was not understood, or Classify panicked

vars == <<call, rules, freed, todo, best, pc, logged, answer, failed>>

Tier == {"pass", "checkpoint", "deny"}
Rank == [t \in Tier |-> CASE t = "pass" -> 0 [] t = "checkpoint" -> 1 [] t = "deny" -> 2]
-----------------------------------------------------------------------------
(* pathClass. *)
PathClass(p) ==
    CASE p.from = "variable" -> "other"
      [] p.from = "outside" -> "outside"
      [] p.from = "project" /\ p.names = <<>> -> "root"
      [] p.from = "project" /\ p.names # <<>> -> IF p.names[1] = Store THEN "net" ELSE "inside"

(* normalizeRel: of what is outside only the base name.                    *)
Rel(p) == IF p.from = "outside" /\ p.names # <<>> THEN <<p.names[Len(p.names)]>> ELSE p.names

(* matchGlob: a base name, a directory with something beneath, or a path.  *)
MatchTree(pre, rel) ==
    \E i \in 0 .. Len(rel) - Len(pre) - 1 : SubSeq(rel, i + 1, i + Len(pre)) = pre
MatchGlob(rule, rel) ==
    CASE rule.kind = "base" -> <<rel[Len(rel)]>> \in rule.names
      [] rule.kind = "tree" -> \E pre \in rule.names : MatchTree(pre, rel)
      [] rule.kind = "path" -> rel \in rule.names

(* loadUserPatterns: a comment behind a pattern becomes part of it, and no *)
(* path has such a name.                                                   *)
LoadUserPatterns(lines) ==
    [i \in DOMAIN lines |-> IF lines[i].tail THEN [lines[i] EXCEPT !.names = {}] ELSE lines[i]]

Matches(rule, p) == Rel(p) # <<>> /\ MatchGlob(rule, Rel(p))
LastMatch(all, p) ==
    \E i \in DOMAIN all :
        /\ Matches(all[i], p) /\ ~all[i].negated
        /\ \A j \in DOMAIN all : Matches(all[j], p) => j <= i

(* A mutant: the defaults stand behind the user's lines. *)
DefaultsLast(p, lines) == LastMatch(LoadUserPatterns(lines) \o Default, p)

(* ProtectedHit: the defaults, then the user's lines, the last match wins. *)
ProtectedHit(p, lines) == LastMatch(Default \o LoadUserPatterns(lines), p)

Protected(p) == ProtectedHit(p, rules)
(* denyIfUnsafeWrite. *)
Unsafe(p) == Protected(p) \/ PathClass(p) \in {"net", "outside"}
AnyUnsafe(ps) == \E i \in DOMAIN ps : Unsafe(ps[i])
-----------------------------------------------------------------------------
(* The classifiers, one for a command.                                     *)
ClassifyRm(c) ==
    IF AnyUnsafe(c.args) \/ \E i \in DOMAIN c.args : PathClass(c.args[i]) = "root"
    THEN "deny"
    ELSE IF c.flags \cap {"recursive", "force"} # {} \/ Len(c.args) > 1 THEN "checkpoint" ELSE "pass"

(* The flags name one subcommand.                                          *)
GitDiscards(flags) ==
    \/ {"reset", "hard"} \subseteq flags
    \/ {"clean", "force"} \subseteq flags /\ "dry-run" \notin flags
    \/ "checkout" \in flags /\ flags \cap {"force", "--", "."} # {}
    \/ "stash" \in flags /\ flags \cap {"list", "show"} = {}
ClassifyGit(c) ==
    IF {"push", "force"} \subseteq c.flags THEN "deny"
    ELSE IF GitDiscards(c.flags) THEN "checkpoint" ELSE "pass"

(* The first argument is the script.                                       *)
ClassifySed(c) ==
    IF "in-place" \notin c.flags THEN "pass"
    ELSE IF c.args # <<>> /\ AnyUnsafe(Tail(c.args)) THEN "deny" ELSE "checkpoint"

Destructive(c) == c.flags \cap {"delete", "exec-destructive"} # {}
ClassifyFind(c) ==
    IF ~Destructive(c) THEN "pass"
    ELSE IF \/ AnyUnsafe(c.args)
            \/ \E i \in DOMAIN c.exprs : Protected(c.exprs[i])
         THEN "deny" ELSE "checkpoint"

ClassifyTruncate(c) ==
    IF AnyUnsafe(c.args) THEN "deny" ELSE IF c.args = <<>> THEN "pass" ELSE "checkpoint"

(* The destination is the value of -t, or the last argument.               *)
Dest(c) == IF c.into # <<>> THEN c.into
           ELSE IF c.args = <<>> THEN <<>> ELSE <<c.args[Len(c.args)]>>
Sources(c) == IF c.into # <<>> \/ c.args = <<>> THEN c.args ELSE SubSeq(c.args, 1, Len(c.args) - 1)
DenyIf(unsafe) == IF unsafe THEN "deny" ELSE "pass"
(* A mutant: every path of a copy is taken for one that is written. *)
ClassifyCpAll(c) == DenyIf(AnyUnsafe(c.args \o c.into))

ClassifyCp(c) == DenyIf(AnyUnsafe(Dest(c)))
ClassifyTee(c) == DenyIf(AnyUnsafe(c.args))
(* A mutant: a move only writes its destination. *)
ClassifyMvDest(c) == DenyIf(AnyUnsafe(Dest(c)))

(* A protected source is destroyed where it was; any other is only read.   *)
ClassifyMv(c) ==
    DenyIf((\E i \in DOMAIN Sources(c) : Protected(Sources(c)[i])) \/ AnyUnsafe(Dest(c)))
Base(p) == [from |-> "project", names |-> IF p.names = <<>> THEN <<>> ELSE <<p.names[Len(p.names)]>>]
BareLink(c) == c.into = <<>> /\ Len(c.args) = 1
ClassifyLn(c) ==
    IF BareLink(c) THEN DenyIf(Protected(Base(c.args[1])))
    ELSE DenyIf(AnyUnsafe(Dest(c)))

Wrappers == {"sudo", "env", "nice", "assignment"}
RealCommand(words) ==
    LET i == SelectInSeq(words, LAMBDA w : w \notin Wrappers)
    IN IF i = 0 THEN Nothing ELSE words[i]

Classifier(c) ==
    LET cmd == RealCommand(c.words) IN
    CASE cmd = "rm" -> ClassifyRm(c)
      [] cmd = "git" -> ClassifyGit(c)
      [] cmd = "sed" -> ClassifySed(c)
      [] cmd = "mv" -> ClassifyMv(c)
      [] cmd = "tee" -> ClassifyTee(c)
      [] cmd \in {"cp", "install"} -> ClassifyCp(c)
      [] cmd = "ln" -> ClassifyLn(c)
      [] cmd = "find" -> ClassifyFind(c)
      [] cmd = "truncate" -> ClassifyTruncate(c)
      [] cmd \in {"dd", "shred", "mkfs"} -> "deny"
      [] cmd = "xargs" -> IF "rm" \in c.flags THEN "checkpoint" ELSE "pass"
      [] OTHER -> "pass"

(* The stricter of two, the earlier one of equals.                         *)
Stricter(d, e) == IF Rank[e] > Rank[d] THEN e ELSE d
(* A clause of a nested command.                                           *)
ClassifySimple(c) == IF AnyUnsafe(c.redirects) THEN "deny" ELSE Classifier(c)
(* classifyClause: the redirections first, then what sh -c and eval nest,  *)
(* where a loop like that of Judge leaves the strictest verdict.           *)
Strictest(verdicts) ==
    IF "deny" \in verdicts THEN "deny" ELSE IF "checkpoint" \in verdicts THEN "checkpoint" ELSE "pass"
ClassifyClause(c) ==
    IF AnyUnsafe(c.redirects) THEN "deny"
    ELSE IF RealCommand(c.words) \in {"sh", "eval"}
    THEN Strictest({ClassifySimple(i) : i \in ToSet(c.inner)})
    ELSE Classifier(c)

(* splitClauses: what is substituted stands behind the rest.               *)
SplitClauses(text) == text.clauses \o text.substituted
-----------------------------------------------------------------------------
Init ==
    /\ call \in [tool : {"Bash"}, text : Texts, path : {Nothing}]
                \cup [tool : {"Edit"}, text : {NoText}, path : Edits]
                \cup [tool : {"other"}, text : {NoText}, path : {Nothing}]
    /\ rules \in UserRules
    /\ todo = <<>> /\ best = "pass" /\ pc = "read" /\ logged = "none" /\ answer = "none"
    /\ freed = {} /\ failed = FALSE

(* runHook up to the request: whatever is not understood is let through; a  *)
(* command of blanks has no clause to judge.                               *)
Read ==
    /\ pc = "read"
    /\ \/ /\ call.tool # "other"
          /\ todo' = SplitClauses(call.text)
          /\ pc' = IF call.tool = "Bash" /\ todo' = <<>> THEN "log" ELSE "classify"
          /\ UNCHANGED failed
       \/ pc' = "done" /\ failed' = TRUE /\ UNCHANGED todo
    /\ UNCHANGED <<call, rules, freed, best, logged, answer>>

(* The check of the path in front of the loop.                             *)
ClassifyFile ==
    /\ pc = "classify"
    /\ call.tool = "Edit"
    /\ best' = DenyIf(Protected(call.path))
    /\ pc' = "log"
    /\ UNCHANGED <<call, rules, freed, todo, logged, answer, failed>>

(* A mutant: the last clause decides. *)
JudgeLast ==
    /\ pc = "classify" /\ call.tool = "Bash"
    /\ todo # <<>>
    /\ best' = ClassifyClause(Head(todo))
    /\ todo' = Tail(todo)
    /\ pc' = IF todo' = <<>> \/ best' = "deny" THEN "log" ELSE "classify"
    /\ UNCHANGED <<call, rules, freed, logged, answer, failed>>

(* Classify, a clause at a time; nothing outranks a deny.                  *)
Judge ==
    /\ pc = "classify" /\ call.tool = "Bash"
    /\ todo # <<>>
    /\ best' = Stricter(best, ClassifyClause(Head(todo)))
    /\ todo' = Tail(todo)
    /\ pc' = IF todo' = <<>> \/ best' = "deny" THEN "log" ELSE "classify"
    /\ UNCHANGED <<call, rules, freed, logged, answer, failed>>

(* classifySafe: a panic is a pass.                                        *)
Panic ==
    /\ pc = "classify"
    /\ best' = "pass" /\ todo' = <<>> /\ failed' = TRUE
    /\ pc' = "log"
    /\ UNCHANGED <<call, rules, freed, logged, answer>>

(* LogAttempt, whose error is not looked at.                               *)
Log ==
    /\ pc = "log"
    /\ logged' \in {IF best = "pass" THEN "none" ELSE best, "none"}
    /\ pc' = "answer"
    /\ UNCHANGED <<call, rules, freed, todo, best, answer, failed>>

Answer ==
    /\ pc = "answer"
    /\ answer' = CASE best = "deny" -> "deny" [] best = "checkpoint" -> "hint" [] OTHER -> "none"
    /\ pc' = "done"
    /\ UNCHANGED <<call, rules, freed, todo, best, logged, failed>>

(* What a clause writes or deletes, from what the commands do.  Of what is *)
(* moved only a protected file is lost: the rest is there under a new name *)
(* (guard.go:768).                                                         *)
Deleted(c) == IF RealCommand(c.words) = "mv" THEN ToSet(Sources(c)) ELSE {}
Written(c) ==
    LET cmd == RealCommand(c.words) IN
    CASE cmd \in {"rm", "tee", "truncate"} -> ToSet(c.args)
      [] cmd = "sed" -> IF "in-place" \in c.flags /\ c.args # <<>> THEN ToSet(Tail(c.args)) ELSE {}
      [] cmd = "find" -> IF Destructive(c) THEN ToSet(c.args) ELSE {}
      [] cmd = "ln" -> IF BareLink(c) THEN {Base(c.args[1])} ELSE ToSet(Dest(c))
      [] cmd \in {"cp", "install", "mv"} -> ToSet(Dest(c))
      [] OTHER -> {}
(* What find may delete: what its expression names.                        *)
Named(c) == IF RealCommand(c.words) = "find" /\ Destructive(c) THEN ToSet(c.exprs) ELSE {}
Redirected(c) == ToSet(c.redirects) \ Sinks
Commands(text) ==
    LET top == ToSet(SplitClauses(text)) IN
    top \cup UNION {ToSet(c.inner) : c \in {d \in top : RealCommand(d.words) \in {"sh", "eval"}}}
Struck(c) == Written(c) \cup Named(c) \cup Redirected(c)
ChangedPaths(c) == Struck(c) \cup Deleted(c)
ProtectedPaths ==
    {p \in (UNION {ChangedPaths(c) : c \in Commands(call.text)}) \cup ({call.path} \ {Nothing}) :
        Protected(p)}

(* The agent follows a deny for a protected path: it adds the exception it *)
(* was told of as the last line, and makes the call again.                 *)
Override(p) ==
    [kind |-> IF Len(Rel(p)) = 1 THEN "base" ELSE "path", names |-> {Rel(p)},
     negated |-> TRUE, tail |-> FALSE]
Follow ==
    /\ pc = "done" /\ answer = "deny"
    /\ \E p \in ProtectedPaths :
          /\ rules' = Append(rules, Override(p))
          /\ freed' = freed \cup {p}
    /\ pc' = "read" /\ todo' = <<>> /\ best' = "pass" /\ logged' = "none" /\ answer' = "none"
    /\ UNCHANGED <<call, failed>>

Next == Read \/ ClassifyFile \/ Judge \/ Panic \/ Log \/ Answer \/ Follow
Spec == Init /\ [][Next]_vars
-----------------------------------------------------------------------------
(* Every variable holds a value of its kind (guard.go:60, hook.go:130).     *)
TypeOK ==
    /\ rules \in Seq(Rule) /\ freed \subseteq Path /\ todo \in Seq(Clause)
    /\ best \in Tier
    /\ pc \in {"read", "classify", "log", "answer", "done"}
    /\ logged \in {"none", "checkpoint", "deny"}
    /\ answer \in {"none", "hint", "deny"}
    /\ failed \in BOOLEAN

Answered == pc = "done" /\ ~failed

(* No text redirects to a file that keeps nothing.  The code denies such a  *)
(* redirection, as any that leads out of the project, though nothing is lost *)
(* by it (guard.go:317).                                                    *)
SinksUnwritten == \A t \in Texts : \A c \in Commands(t) : ToSet(c.redirects) \cap Sinks = {}

(* The answer is the strictest of the verdicts on all clauses, wherever they *)
(* stand, also behind the first deny, inside sh -c or in a substitution, and *)
(* whether or not the attempt could be logged; a call that is not understood *)
(* is let through (hook.go:80, guard.go:97, guard.go:1091).                  *)
AnswerIsStrictest ==
    /\ pc = "done" /\ failed => answer = "none"
    /\ Answered /\ call.tool = "Bash" =>
          LET verdicts == {ClassifyClause(c) : c \in ToSet(SplitClauses(call.text))} IN
          answer = CASE "deny" \in verdicts -> "deny"
                     [] "deny" \notin verdicts /\ "checkpoint" \in verdicts -> "hint"
                     [] OTHER -> "none"

(* A command that writes or deletes a protected path, or a file tool that  *)
(* is given one, is denied, in whatever place of whatever clause the path   *)
(* stands (README.md:382).                                                  *)
ProtectedIsDenied == Answered /\ ProtectedPaths # {} => answer = "deny"

(* A call is denied only for what cannot be recovered: a changed path that *)
(* is protected, outside, in the store or the project itself, or a command *)
(* that changes more than files.  What is only read is no reason           *)
(* (README.md:411).                                                         *)
OnlyDamageIsDenied ==
    Answered /\ answer = "deny" =>
        \/ ProtectedPaths # {}
        \/ \E c \in Commands(call.text) :
              \/ \E p \in Struck(c) : PathClass(p) \in {"net", "outside"}
              \/ RealCommand(c.words) = "rm" /\ \E p \in Written(c) : PathClass(p) = "root"
              \/ RealCommand(c.words) \in {"dd", "shred", "mkfs"}
              \/ RealCommand(c.words) = "git" /\ {"push", "force"} \subseteq c.flags

(* The answer is that of the strictest clause of the text (Classify,        *)
(* runHook).                                                                *)
VerdictInv == TypeOK /\ AnswerIsStrictest

(* A write to a protected path or a write or removal outside the project is *)
(* denied, and nothing else is (classifyClause and the classifiers).        *)
DenialIsExact == ProtectedIsDenied /\ OnlyDamageIsDenied

(* The exception a deny tells of works, and goes on working while others    *)
(* are added: a path that has been freed is never refused again             *)
(* (protect.go:187, protect.go:204).                                        *)
FreedStaysFreed == \A p \in freed : ~Protected(p)

(* A line of the user's file counts with a comment behind it, as the        *)
(* example in README.md:406 has it.                                         *)
CommentsDoNotCount ==
    Answered /\ call.tool = "Edit" =>
        (answer = "deny" <=>
            ProtectedHit(call.path, [i \in DOMAIN rules |-> [rules[i] EXCEPT !.tail = FALSE]]))
=============================================================================
