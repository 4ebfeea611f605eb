------------------------------- MODULE MCGuard ------------------------------
(***************************************************************************)
(* The hook for TLC: its verdict on a command, and the recovery point it   *)
(* announces.  A run is about one part, chosen at the start; the other     *)
(* rests in a first state.                                                 *)
(*   "verdict"  Guard over paths of every class, every command with up to  *)
(*              two of them, and up to three clauses of each verdict       *)
(*   "point"    Checkpoint with contents that are all alike                *)
(***************************************************************************)
EXTENDS Hook, TLC

VARIABLE part

InProject(names) == [from |-> "project", names |-> names]
Outside(names) == [from |-> "outside", names |-> names]

Plain == InProject(<<"a">>)
Key == InProject(<<".env">>)
DeepKey == InProject(<<"d", ".env">>)
Template == InProject(<<".env.example">>)
Internals == InProject(<<".git", "config">>)
Config == InProject(<<"d", "prod">>)
Project == InProject(<<>>)
Journal == InProject(<<".salvager", "log">>)
Elsewhere == Outside(<<"b">>)
KeyElsewhere == Outside(<<"b", ".env">>)
Device == Outside(<<"null">>)
Variable == [from |-> "variable", names |-> <<"v", ".env">>]

Paths == {Plain, Key, DeepKey, Template, Internals, Config, Project, Journal,
          Elsewhere, KeyElsewhere, Variable}
FilePaths == Paths \ {Project, Variable}

LineOf(kind, names, negated) == [kind |-> kind, names |-> names, negated |-> negated, tail |-> FALSE]
Base_(names) == LineOf("base", {<<n>> : n \in names}, FALSE)
MCDefault == <<Base_({".env", ".env.example"}),
               LineOf("base", {<<".env.example">>}, TRUE),
               LineOf("tree", {<<".git">>}, FALSE)>>
NoKey == LineOf("base", {<<".env">>}, TRUE)
AddConfig == LineOf("path", {<<"d", "prod">>}, FALSE)
AddDir == LineOf("tree", {<<"d">>}, FALSE)
MCUserRules == {<<>>, <<NoKey>>, <<NoKey, Base_({".env"})>>, <<AddConfig>>, <<AddDir, NoKey>>}

Command(words, flags, args) ==
    [words |-> words, flags |-> flags, into |-> <<>>, args |-> args, exprs |-> <<>>,
     redirects |-> <<>>, inner |-> <<>>]
UpTo2 == {<<>>} \cup {<<p>> : p \in Paths} \cup {<<p, q>> : p, q \in Paths}

Verbs == {Command(<<w>>, {}, a) : w \in {"rm", "mv", "tee", "cp", "install", "ln", "truncate"}, a \in UpTo2}
Rms == {Command(<<"sudo", "rm">>, f, <<p>>) : f \in {{"recursive"}, {"force"}}, p \in Paths}
Intos == {[Command(<<w>>, {}, <<q>>) EXCEPT !.into = <<p>>] :
            w \in {"mv", "cp", "ln"}, p \in Paths, q \in {Plain, Key, Elsewhere}}
Seds == {Command(<<"sed">>, f, <<Plain>> \o a) :
            f \in {{}, {"in-place"}}, a \in {<<>>} \cup {<<p>> : p \in Paths}}
Finds == {[Command(<<"find">>, f, <<p>>) EXCEPT !.exprs = e] :
            f \in {{}, {"delete"}, {"exec-destructive"}}, p \in Paths, e \in {<<>>, <<Key>>, <<Plain>>}}
Gits == {Command(<<"git">>, f, <<>>) :
            f \in {{"push"}, {"push", "force"}, {"reset"}, {"reset", "hard"}, {"clean", "force"},
                   {"clean", "force", "dry-run"}, {"checkout"}, {"checkout", "."}, {"stash"},
                   {"stash", "list"}, {}}}
Others == {Command(<<"dd">>, {}, <<Plain>>), Command(<<"cat">>, {}, <<Key, Elsewhere>>),
           Command(<<"env", "assignment">>, {}, <<>>), Command(<<"xargs">>, {"rm"}, <<>>),
           Command(<<"xargs">>, {}, <<>>)}
To(p) == [Command(<<"cat">>, {}, <<Key>>) EXCEPT !.redirects = <<Plain, p>>]
Tos == {To(p) : p \in Paths}

(* One command of each verdict, for the texts of several clauses.           *)
Parts == {Command(<<"cat">>, {}, <<Key>>), Command(<<"sudo", "rm">>, {"recursive"}, <<Plain>>),
          Command(<<"rm">>, {}, <<Key>>), To(Elsewhere)}
Nested == {[Command(<<w>>, {}, <<>>) EXCEPT !.inner = <<c, d>>] : w \in {"sh", "eval"}, c, d \in Parts}
Pieces == Parts \cup Nested
Says(clauses) == [clauses |-> clauses, substituted |-> <<>>]
Substituted ==
    {[clauses |-> s, substituted |-> <<c, d>>] :
        s \in {<<>>} \cup {<<e>> : e \in Parts}, c \in Pieces, d \in Parts}

MCTexts == {Says(<<c>>) :
               c \in Verbs \cup Rms \cup Intos \cup Seds \cup Finds \cup Gits \cup Others \cup Tos \cup Pieces}
           \cup {Says(<<c, d>>) : c, d \in Pieces}
           \cup {Says(<<c, d, e>>) : c, d, e \in Parts}
           \cup Substituted \cup {Says(<<>>)}
MCSinks == {Device}
ASSUME SinksUnwritten

Contents == Permutations(Content)

pointVars == <<now, disk, before, events, pending, read, log, hint, quiet, stage>>
VerdictAtRest == Init /\ call.tool = "other" /\ rules = <<>>
PointAtRest == Point!Init /\ log = <<>>

MCInit ==
  \/ part = "verdict" /\ Init /\ PointAtRest
  \/ part = "point" /\ VerdictAtRest /\ Point!Init

MCNext ==
  /\ \/ part = "verdict" /\ Next /\ UNCHANGED pointVars
     \/ part = "point" /\ Point!Next /\ UNCHANGED vars
  /\ UNCHANGED part

MCSpec == MCInit /\ [][MCNext]_<<vars, part, pointVars>>
=============================================================================
