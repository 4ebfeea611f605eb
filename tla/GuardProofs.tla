---------------------------- MODULE GuardProofs ----------------------------
(***************************************************************************)
(* The verdict on a call, for texts of any length, any rules and any       *)
(* number of exceptions the agent adds: the answer is that of the          *)
(* strictest clause, what is damaged for good is denied and nothing else,  *)
(* and an exception keeps its effect.  Last, the recovery point that the   *)
(* hook announces (Checkpoint).                                            *)
(***************************************************************************)
EXTENDS Hook, TLAPS, WellFoundedInduction

-----------------------------------------------------------------------------
(* The inductive invariant.                                                *)

Split == SplitClauses(call.text)
VerdictsUpTo(j) == {ClassifyClause(Split[i]) : i \in 1 .. j}
\* The verdict of Classify when it runs to its end.
Verdict ==
  IF call.tool = "Edit" THEN DenyIf(Protected(call.path))
  ELSE Strictest(VerdictsUpTo(Len(Split)))

\* The clauses that are left are the last ones, and best is the strictest
\* verdict on those before them; the loop goes on only without a deny.
LoopInv ==
  pc = "classify" =>
    /\ Len(todo) <= Len(Split)
    /\ \A i \in 1 .. Len(todo) : todo[i] = Split[Len(Split) - Len(todo) + i]
    /\ best = Strictest(VerdictsUpTo(Len(Split) - Len(todo))) /\ best # "deny"

Calls ==
  [tool : {"Bash"}, text : Texts, path : {Nothing}]
    \cup [tool : {"Edit"}, text : {NoText}, path : Edits]
    \cup [tool : {"other"}, text : {NoText}, path : {Nothing}]

Told(d) == CASE d = "deny" -> "deny" [] d = "checkpoint" -> "hint" [] OTHER -> "none"

\* What is known of the verdict at each place; a call that is not understood and
\* one whose classification panics end with a pass.
VerdictPlaces ==
  /\ failed => best = "pass" /\ pc \in {"log", "answer", "done"}
  /\ pc = "read" => best = "pass" /\ answer = "none"
  /\ pc = "classify" => call.tool # "other"
  /\ pc \in {"log", "answer", "done"} /\ ~failed => best = Verdict /\ call.tool # "other"
  /\ pc = "done" => answer = Told(best)

GuardInv == TypeOK /\ call \in Calls /\ LoopInv /\ VerdictPlaces /\ FreedStaysFreed

-----------------------------------------------------------------------------
(* Verdicts.                                                               *)

\* The strictest of no verdict and of a verdict more.
LEMMA StrictestOf ==
  /\ Strictest({}) = "pass"
  /\ \A V \in SUBSET Tier : Strictest(V) \in Tier
  /\ \A V, d : d \in Tier => Stricter(Strictest(V), d) = Strictest(V \cup {d})
BY DEF Strictest, Stricter, Rank, Tier

\* Every classifier has a verdict.
LEMMA VerdictsAreTiers ==
  ASSUME NEW c
  PROVE  ClassifyClause(c) \in Tier /\ Classifier(c) \in Tier /\ ClassifySimple(c) \in Tier
<1>1. /\ ClassifyRm(c) \in Tier /\ ClassifyGit(c) \in Tier /\ ClassifySed(c) \in Tier
      /\ ClassifyFind(c) \in Tier /\ ClassifyTruncate(c) \in Tier /\ ClassifyCp(c) \in Tier
      /\ ClassifyTee(c) \in Tier /\ ClassifyMv(c) \in Tier /\ ClassifyLn(c) \in Tier
  BY DEF ClassifyRm, ClassifyGit, ClassifySed, ClassifyFind, ClassifyTruncate, ClassifyCp,
         ClassifyTee, ClassifyMv, ClassifyLn, DenyIf, Tier
<1>2. Classifier(c) \in Tier
  BY <1>1 DEF Classifier, Tier
<1>3. ClassifySimple(c) \in Tier
  BY <1>2 DEF ClassifySimple, Tier
<1> QED BY <1>2, <1>3 DEF ClassifyClause, Strictest, Tier

\* A verdict depends on nothing that changes but the user's rules.
LEMMA VerdictsDependOnRules ==
  ASSUME UNCHANGED rules
  PROVE  /\ \A p : Protected(p)' = Protected(p)
         /\ \A c : ClassifyClause(c)' = ClassifyClause(c)
<1>1. \A p : Protected(p)' = Protected(p)
  BY DEF Protected
<1>2. \A ps : AnyUnsafe(ps)' = AnyUnsafe(ps)
  BY <1>1 DEF AnyUnsafe, Unsafe
<1>3. ASSUME NEW c PROVE Classifier(c)' = Classifier(c)
  <2>1. /\ ClassifyRm(c)' = ClassifyRm(c) /\ ClassifySed(c)' = ClassifySed(c)
        /\ ClassifyFind(c)' = ClassifyFind(c) /\ ClassifyTruncate(c)' = ClassifyTruncate(c)
        /\ ClassifyCp(c)' = ClassifyCp(c) /\ ClassifyTee(c)' = ClassifyTee(c)
        /\ ClassifyMv(c)' = ClassifyMv(c) /\ ClassifyLn(c)' = ClassifyLn(c)
    BY <1>1, <1>2 DEF ClassifyRm, ClassifySed, ClassifyFind, ClassifyTruncate, ClassifyCp,
                      ClassifyTee, ClassifyMv, ClassifyLn
  <2> QED BY <2>1 DEF Classifier
<1>4. \A c : ClassifySimple(c)' = ClassifySimple(c)
  BY <1>2, <1>3 DEF ClassifySimple
<1>5. ASSUME NEW c PROVE ClassifyClause(c)' = ClassifyClause(c)
  <2>1. {ClassifySimple(i) : i \in ToSet(c.inner)}' = {ClassifySimple(i) : i \in ToSet(c.inner)}
    BY <1>4
  <2> QED BY <1>2, <1>3, <2>1 DEF ClassifyClause
<1> QED BY <1>1, <1>5

-----------------------------------------------------------------------------
(* Exceptions.                                                             *)

\* The paths a clause changes are paths.
LEMMA ChangedArePaths ==
  ASSUME NEW inners, NEW c \in ClauseWith(inners)
  PROVE  ChangedPaths(c) \subseteq Path
<1>1. /\ c.into \in Seq(Path) /\ c.args \in Seq(Path) /\ c.exprs \in Seq(Path)
      /\ c.redirects \in Seq(Path)
  BY DEF ClauseWith
<1>2. \A s \in Seq(Path) : ToSet(s) \subseteq Path
  BY DEF ToSet
<1>3. Dest(c) \in Seq(Path) /\ Sources(c) \in Seq(Path)
  BY <1>1 DEF Dest, Sources
<1>4. c.args # <<>> => Tail(c.args) \in Seq(Path)
  BY <1>1
<1>5. ASSUME NEW p \in Path PROVE Base(p) \in Path
  <2>1. p.names \in Seq(STRING)
    BY DEF Path
  <2>2. p.names # <<>> => <<p.names[Len(p.names)]>> \in Seq(STRING)
    BY <2>1
  <2> QED BY <2>2 DEF Base, Path
<1>6. Written(c) \subseteq Path
  <2>1. BareLink(c) => c.args[1] \in Path
    BY <1>1 DEF BareLink
  <2> QED BY <1>1, <1>2, <1>3, <1>4, <1>5, <2>1 DEF Written
<1>7. Named(c) \subseteq Path /\ Redirected(c) \subseteq Path /\ Deleted(c) \subseteq Path
  BY <1>1, <1>2, <1>3 DEF Named, Redirected, Deleted
<1> QED BY <1>6, <1>7 DEF ChangedPaths, Struck

\* A protected path of the call is a path.
LEMMA ProtectedArePaths ==
  ASSUME call \in Calls
  PROVE  ProtectedPaths \subseteq Path
<1>1. call.text \in Text /\ (call.path = Nothing \/ call.path \in Path)
  <2>1. NoText \in Text
    BY DEF NoText, Text
  <2> QED BY <2>1, GuardAssumption DEF Calls, GuardAssumption
<1>2. ToSet(Split) \subseteq Clause
  <2>1. Split \in Seq(Clause)
    BY <1>1 DEF Split, SplitClauses, Text
  <2> QED BY <2>1 DEF ToSet
<1>3. ASSUME NEW c \in Commands(call.text) PROVE ChangedPaths(c) \subseteq Path
  <2>1. CASE c \in ToSet(Split)
    BY <1>2, <2>1, ChangedArePaths DEF Clause
  <2>2. CASE c \notin ToSet(Split)
    <3>1. PICK d \in ToSet(Split) : c \in ToSet(d.inner)
      BY <2>2 DEF Commands, Split
    <3>2. d.inner \in Seq(ClauseWith({<<>>}))
      BY <1>2, <3>1 DEF Clause, ClauseWith
    <3>3. c \in ClauseWith({<<>>})
      BY <3>1, <3>2 DEF ToSet
    <3> QED BY <3>3, ChangedArePaths
  <2> QED BY <2>1, <2>2
<1>4. {call.path} \ {Nothing} \subseteq Path
  BY <1>1
<1>5. UNION {ChangedPaths(c) : c \in Commands(call.text)} \subseteq Path
  BY <1>3
<1> QED BY <1>4, <1>5 DEF ProtectedPaths

\* A path that some rule matches is matched by the exception for it, which is
\* then the last one that does; it takes the protection away and gives none.
LEMMA OverrideFrees ==
  ASSUME NEW all \in Seq(Rule), NEW p \in Path, NEW q \in Path
  PROVE  /\ LastMatch(Append(all, Override(p)), q) => LastMatch(all, q)
         /\ LastMatch(all, p) => ~LastMatch(Append(all, Override(p)), p)
         /\ Override(p) \in Rule
<1> DEFINE o == Override(p)  more == Append(all, o)
<1>1. /\ DOMAIN more = DOMAIN all \cup {Len(all) + 1} /\ more[Len(all) + 1] = o
      /\ \A i \in DOMAIN all : more[i] = all[i] /\ i <= Len(all) /\ i \in Nat
      /\ Len(all) \in Nat
  OBVIOUS
<1>2. ~o.negated = FALSE
  BY DEF Override
<1>3. LastMatch(more, q) => LastMatch(all, q)
  BY <1>1, <1>2 DEF LastMatch
<1>4. Rel(p) \in Seq(STRING)
  <2>1. p.names \in Seq(STRING)
    BY DEF Path
  <2>2. p.names # <<>> => <<p.names[Len(p.names)]>> \in Seq(STRING)
    BY <2>1
  <2> QED BY <2>1, <2>2 DEF Rel
<1>5. Rel(p) # <<>> => Matches(o, p)
  <2>1. Len(Rel(p)) = 1 => <<Rel(p)[Len(Rel(p))]>> = Rel(p)
    BY <1>4
  <2> QED BY <2>1 DEF Matches, MatchGlob, Override
<1>6. ASSUME LastMatch(all, p) PROVE ~LastMatch(more, p)
  <2>1. Matches(o, p)
    BY <1>5, <1>6 DEF LastMatch, Matches
  <2> QED BY <1>1, <1>2, <2>1 DEF LastMatch
<1>7. o \in Rule
  BY <1>4 DEF Override, Rule
<1> QED BY <1>3, <1>6, <1>7

\* The lines as they are loaded are rules, and an exception is one of them.
LEMMA LoadedLines ==
  ASSUME NEW lines \in Seq(Rule), NEW p, Override(p) \in Rule
  PROVE  /\ LoadUserPatterns(lines) \in Seq(Rule)
         /\ LoadUserPatterns(Append(lines, Override(p))) = Append(LoadUserPatterns(lines), Override(p))
<1> DEFINE L == LoadUserPatterns(lines)  more == Append(lines, Override(p))
<1>1. \A r \in Rule : [r EXCEPT !.names = {}] \in Rule
  BY DEF Rule
<1>2. /\ DOMAIN L = 1 .. Len(lines) /\ Len(lines) \in Nat
      /\ \A i \in 1 .. Len(lines) : L[i] \in Rule
  BY <1>1 DEF LoadUserPatterns
<1>3. L \in Seq(Rule) /\ Len(L) = Len(lines)
  <2>1. L = [i \in 1 .. Len(lines) |-> L[i]]
    BY DEF LoadUserPatterns
  <2> QED BY <1>2, <2>1
<1>4. LoadUserPatterns(more) = Append(L, Override(p))
  <2>1. ~Override(p).tail
    BY DEF Override
  <2>2. DOMAIN more = 1 .. Len(lines) + 1 /\ more[Len(lines) + 1] = Override(p)
    OBVIOUS
  <2>3. \A i \in 1 .. Len(lines) : more[i] = lines[i]
    OBVIOUS
  <2>4. /\ DOMAIN Append(L, Override(p)) = 1 .. Len(lines) + 1
        /\ Append(L, Override(p))[Len(lines) + 1] = Override(p)
        /\ \A i \in 1 .. Len(lines) : Append(L, Override(p))[i] = L[i]
    BY <1>3
  <2> QED BY <1>2, <2>1, <2>2, <2>3, <2>4 DEF LoadUserPatterns
<1> QED BY <1>3, <1>4

\* An exception added as the last line frees its path and protects none.
LEMMA ExceptionWorks ==
  ASSUME NEW lines \in Seq(Rule), NEW p \in Path, NEW q \in Path
  PROVE  /\ Append(lines, Override(p)) \in Seq(Rule)
         /\ ProtectedHit(q, Append(lines, Override(p))) => ProtectedHit(q, lines)
         /\ ProtectedHit(p, lines) => ~ProtectedHit(p, Append(lines, Override(p)))
<1> DEFINE L == LoadUserPatterns(lines)
<1>1. Override(p) \in Rule
  BY OverrideFrees, GuardAssumption DEF GuardAssumption
<1>2. L \in Seq(Rule) /\ LoadUserPatterns(Append(lines, Override(p))) = Append(L, Override(p))
  BY <1>1, LoadedLines
<1>3. Default \o L \in Seq(Rule)
  BY <1>2, GuardAssumption DEF GuardAssumption
<1>4. Default \o Append(L, Override(p)) = Append(Default \o L, Override(p))
  BY <1>1, <1>2, GuardAssumption DEF GuardAssumption
<1> DEFINE all == Default \o L
<1>5. /\ LastMatch(Append(all, Override(p)), q) => LastMatch(all, q)
      /\ LastMatch(all, p) => ~LastMatch(Append(all, Override(p)), p)
  <2> HIDE DEF all, L
  <2> QED BY <1>3, OverrideFrees DEF all
<1>6. Append(lines, Override(p)) \in Seq(Rule)
  BY <1>1
<1>7. /\ ProtectedHit(q, lines) = LastMatch(all, q) /\ ProtectedHit(p, lines) = LastMatch(all, p)
      /\ \A r : ProtectedHit(r, Append(lines, Override(p))) = LastMatch(Append(all, Override(p)), r)
  BY <1>2, <1>4 DEF ProtectedHit
<1> QED BY <1>5, <1>6, <1>7

-----------------------------------------------------------------------------
(* GuardInv is inductive.                                                  *)

\* What a call is, and its clauses.
LEMMA CallParts ==
  ASSUME call \in Calls
  PROVE  /\ call.tool \in {"Bash", "Edit", "other"}
         /\ Split \in Seq(Clause)
         /\ call.tool # "Bash" => Split = <<>>
         /\ call.tool = "Bash" => call.text \in Texts /\ call.path = Nothing
         /\ call.tool = "Edit" => call.path \in Edits
<1>1. NoText \in Text /\ SplitClauses(NoText) = <<>>
  BY DEF NoText, Text, SplitClauses
<1>2. \A t \in Text : SplitClauses(t) \in Seq(Clause)
  BY DEF SplitClauses, Text
<1> QED BY <1>1, <1>2, GuardAssumption DEF Calls, GuardAssumption, Split

\* The verdict is that of the call and the rules.
LEMMA SameVerdict ==
  ASSUME UNCHANGED <<call, rules, freed>>, FreedStaysFreed
  PROVE  /\ Split' = Split /\ Verdict' = Verdict /\ FreedStaysFreed'
         /\ \A j : VerdictsUpTo(j)' = VerdictsUpTo(j)
<1>1. Split' = Split
  BY DEF Split
<1>2. \A j : VerdictsUpTo(j)' = VerdictsUpTo(j)
  BY <1>1, VerdictsDependOnRules DEF VerdictsUpTo
<1>3. Verdict' = Verdict
  BY <1>1, <1>2, VerdictsDependOnRules DEF Verdict
<1>4. FreedStaysFreed'
  BY VerdictsDependOnRules DEF FreedStaysFreed
<1> QED BY <1>1, <1>2, <1>3, <1>4

\* The first states satisfy GuardInv.
LEMMA GuardInit == ASSUME Init PROVE GuardInv
<1>1. rules \in Seq(Rule) /\ todo \in Seq(Clause) /\ freed \subseteq Path
  BY GuardAssumption DEF Init, GuardAssumption
<1>2. TypeOK
  BY <1>1 DEF Init, TypeOK, Tier
<1> QED BY <1>2 DEF Init, GuardInv, LoopInv, VerdictPlaces, FreedStaysFreed, Calls

\* Reading leaves every clause to be judged.
LEMMA ReadStep == ASSUME GuardInv, Read PROVE GuardInv'
<1>1. Split \in Seq(Clause) /\ call.tool \in {"Bash", "Edit", "other"}
  BY CallParts DEF GuardInv
<1>2. UNCHANGED <<call, rules, freed, best, answer>> /\ best = "pass"
  BY DEF Read, GuardInv, VerdictPlaces
<1>3. Split' = Split /\ Verdict' = Verdict /\ FreedStaysFreed'
  BY <1>2, SameVerdict DEF GuardInv
<1>4. TypeOK' /\ (call \in Calls)'
  BY <1>1, <1>2 DEF Read, GuardInv, TypeOK, Split
<1>5. LoopInv'
  <2>1. SUFFICES ASSUME pc' = "classify" PROVE LoopInv'
    BY DEF LoopInv
  <2>2. todo' = Split
    BY <2>1 DEF Read, Split, GuardInv, VerdictPlaces
  <2>3. Len(Split) - Len(todo') = 0
    BY <1>1, <2>2
  <2>4. Strictest(VerdictsUpTo(0)) = "pass"
    BY StrictestOf DEF VerdictsUpTo
  <2>5. VerdictsUpTo(Len(Split) - Len(todo))' = VerdictsUpTo(0)
    BY <1>2, <1>3, <2>3, SameVerdict DEF GuardInv
  <2>6. /\ Len(todo') <= Len(Split)
        /\ \A i \in 1 .. Len(todo') : todo'[i] = Split[Len(Split) - Len(todo') + i]
    BY <1>1, <2>2
  <2> QED BY <1>2, <1>3, <2>4, <2>5, <2>6 DEF LoopInv
<1>6. VerdictPlaces'
  <2>1. Strictest({}) = "pass"
    BY StrictestOf
  <2>2. ASSUME call.tool = "Bash", Split = <<>> PROVE Verdict = "pass"
    <3>1. Len(Split) = 0
      BY <2>2
    <3>2. VerdictsUpTo(0) = {}
      BY DEF VerdictsUpTo
    <3> QED BY <2>1, <2>2, <3>1, <3>2 DEF Verdict
  <2>3. pc' \in {"log", "answer", "done"} /\ ~failed' => pc' = "log" /\ call.tool = "Bash" /\ Split = <<>>
    BY DEF Read, GuardInv, VerdictPlaces, Split
  <2>4. /\ failed' => pc' = "done" \/ failed
        /\ pc' \in {"classify", "log", "done"} /\ (pc' = "done" => failed')
        /\ pc' # "done" => call.tool # "other"
    BY DEF Read
  <2>5. ~failed /\ answer' = "none"
    BY DEF Read, GuardInv, VerdictPlaces, TypeOK
  <2> QED BY <1>2, <1>3, <2>2, <2>3, <2>4, <2>5 DEF VerdictPlaces, Told
<1> QED BY <1>3, <1>4, <1>5, <1>6 DEF GuardInv

\* The path of a file tool is the whole verdict.
LEMMA ClassifyFileStep == ASSUME GuardInv, ClassifyFile PROVE GuardInv'
<1>1. UNCHANGED <<call, rules, freed, todo, logged, answer, failed>>
  BY DEF ClassifyFile
<1>2. Verdict' = best' /\ FreedStaysFreed'
  <2>1. Verdict' = Verdict /\ FreedStaysFreed'
    BY <1>1, SameVerdict DEF GuardInv
  <2> QED BY <2>1 DEF ClassifyFile, Verdict
<1>3. best' \in Tier
  BY DEF ClassifyFile, DenyIf, Tier
<1> QED BY <1>1, <1>2, <1>3 DEF ClassifyFile, GuardInv, TypeOK, LoopInv, VerdictPlaces

\* A clause is judged: it joins those before todo, and a deny is strictest
\* whatever the clauses are that are left.
LEMMA JudgeStep == ASSUME GuardInv, Judge PROVE GuardInv'
<1> DEFINE c == Head(todo)  n == Len(Split)  k == Len(todo)
           V(j) == VerdictsUpTo(j)
<1>1. /\ Split \in Seq(Clause) /\ todo \in Seq(Clause) /\ todo # <<>>
      /\ UNCHANGED <<call, rules, freed, logged, answer, failed>>
  BY CallParts DEF Judge, GuardInv, TypeOK
<1>2. /\ n \in Nat /\ k \in Nat /\ 1 <= k /\ k <= n
      /\ \A i \in 1 .. k : todo[i] = Split[n - k + i]
      /\ best = Strictest(V(n - k))
  BY <1>1 DEF Judge, GuardInv, LoopInv
<1>3. /\ todo' \in Seq(Clause) /\ Len(todo') = k - 1
      /\ \A i \in 1 .. k - 1 : todo'[i] = todo[i + 1]
  BY <1>1 DEF Judge
<1>4. \A i \in 1 .. k - 1 : todo'[i] = Split[n - (k - 1) + i]
  BY <1>2, <1>3
<1>5. best' = Strictest(V(n - (k - 1)))
  <2>1. c = Split[n - k + 1]
    BY <1>1, <1>2
  <2>2. 1 .. n - (k - 1) = (1 .. n - k) \cup {n - k + 1}
    BY <1>2
  <2>3. V(n - (k - 1)) = V(n - k) \cup {ClassifyClause(c)}
    BY <2>1, <2>2 DEF VerdictsUpTo
  <2> QED BY <1>2, <2>3, StrictestOf, VerdictsAreTiers DEF Judge
<1>6. best' \in Tier
  <2>1. V(n - (k - 1)) \in SUBSET Tier
    BY VerdictsAreTiers DEF VerdictsUpTo
  <2> QED BY <1>5, <2>1, StrictestOf
<1>7. Split' = Split /\ Verdict' = Verdict /\ FreedStaysFreed'
  BY <1>1, SameVerdict DEF GuardInv
<1>8. TypeOK' /\ (call \in Calls)'
  BY <1>1, <1>3, <1>6 DEF Judge, GuardInv, TypeOK
<1>9. LoopInv'
  <2>1. SUFFICES ASSUME pc' = "classify" PROVE LoopInv'
    BY DEF LoopInv
  <2>2. best' # "deny"
    BY <2>1 DEF Judge
  <2>3. VerdictsUpTo(Len(Split) - Len(todo))' = V(n - (k - 1))
    BY <1>1, <1>3, SameVerdict DEF GuardInv
  <2> QED BY <1>2, <1>3, <1>4, <1>5, <1>7, <2>2, <2>3 DEF LoopInv
<1>10. VerdictPlaces'
  <2>1. ~failed /\ call.tool = "Bash"
    BY DEF Judge, GuardInv, VerdictPlaces
  <2>2. ASSUME pc' = "log" PROVE best' = Verdict
    <3>1. Verdict = Strictest(V(n))
      BY <2>1 DEF Verdict
    <3>2. CASE todo' = <<>>
      <4>1. n - (k - 1) = n
        <5>1. Len(todo') = 0
          BY <3>2
        <5>2. k - 1 = 0
          BY <1>3, <5>1
        <5>3. n - 0 = n
          BY <1>2
        <5> HIDE DEF n, k
        <5> QED BY <5>2, <5>3
      <4> QED BY <1>5, <3>1, <4>1
    <3>3. CASE best' = "deny"
      <4>1. "deny" \in V(n - (k - 1))
        BY <1>5, <3>3 DEF Strictest
      <4>2. V(n - (k - 1)) \subseteq V(n)
        BY <1>2 DEF VerdictsUpTo
      <4> QED BY <3>1, <3>3, <4>1, <4>2 DEF Strictest
    <3> QED BY <2>2, <3>2, <3>3 DEF Judge
  <2> QED BY <1>1, <1>7, <2>1, <2>2 DEF Judge, VerdictPlaces
<1> QED BY <1>7, <1>8, <1>9, <1>10 DEF GuardInv

\* A panic leaves none of the verdict.
LEMMA PanicStep == ASSUME GuardInv, Panic PROVE GuardInv'
<1>1. UNCHANGED <<call, rules, freed, logged, answer>>
  BY DEF Panic
<1>2. FreedStaysFreed'
  BY <1>1, SameVerdict DEF GuardInv
<1>3. todo' \in Seq(Clause) /\ best' \in Tier
  BY DEF Panic, Tier
<1> QED BY <1>1, <1>2, <1>3 DEF Panic, GuardInv, TypeOK, LoopInv, VerdictPlaces

\* Whether the attempt is logged, and answering, leave the verdict alone.
LEMMA LogStep == ASSUME GuardInv, Log \/ Answer PROVE GuardInv'
<1>1. UNCHANGED <<call, rules, freed, todo, best, failed>>
  BY DEF Log, Answer
<1>2. Verdict' = Verdict /\ FreedStaysFreed'
  BY <1>1, SameVerdict DEF GuardInv
<1>3. CASE Log
  BY <1>1, <1>2, <1>3 DEF Log, GuardInv, TypeOK, Tier, LoopInv, VerdictPlaces
<1>4. CASE Answer
  BY <1>1, <1>2, <1>4 DEF Answer, Told, GuardInv, TypeOK, Tier, LoopInv, VerdictPlaces
<1> QED BY <1>3, <1>4

\* The new exception frees its path, and every path freed before stays free.
LEMMA FollowStep == ASSUME GuardInv, Follow PROVE GuardInv'
<1>1. PICK p \in ProtectedPaths : rules' = Append(rules, Override(p)) /\ freed' = freed \cup {p}
  BY DEF Follow
<1>2. rules \in Seq(Rule) /\ freed \subseteq Path /\ p \in Path /\ Protected(p)
  BY <1>1, ProtectedArePaths DEF GuardInv, TypeOK, ProtectedPaths
<1>3. rules' \in Seq(Rule) /\ freed' \subseteq Path
  BY <1>1, <1>2, ExceptionWorks
<1>4. FreedStaysFreed'
  <2>1. \A q \in freed : ~ProtectedHit(q, rules')
    BY <1>1, <1>2, ExceptionWorks DEF GuardInv, FreedStaysFreed, Protected
  <2>2. ~ProtectedHit(p, rules')
    BY <1>1, <1>2, ExceptionWorks DEF Protected
  <2> QED BY <1>1, <2>1, <2>2 DEF FreedStaysFreed, Protected
<1>5. ~failed
  BY DEF Follow, GuardInv, VerdictPlaces, Told
<1>6. todo' \in Seq(Clause)
  BY DEF Follow
<1> QED BY <1>3, <1>4, <1>5, <1>6 DEF Follow, GuardInv, TypeOK, Tier, LoopInv, VerdictPlaces

\* GuardInv holds in every reachable state.
LEMMA GuardInvariant == Spec => []GuardInv
<1>1. ASSUME GuardInv, [Next]_vars PROVE GuardInv'
  <2>1. CASE UNCHANGED vars
    <3>1. /\ UNCHANGED <<call, rules, freed, todo, best, pc, logged, answer, failed>>
          /\ FreedStaysFreed
      BY <1>1, <2>1 DEF vars, GuardInv
    <3>2. /\ Split' = Split /\ Verdict' = Verdict /\ FreedStaysFreed'
          /\ VerdictsUpTo(Len(Split) - Len(todo))' = VerdictsUpTo(Len(Split) - Len(todo))
      BY <3>1, SameVerdict
    <3> QED BY <1>1, <3>1, <3>2 DEF GuardInv, TypeOK, LoopInv, VerdictPlaces
  <2> QED BY <1>1, <2>1, ReadStep, ClassifyFileStep, JudgeStep, PanicStep, LogStep, FollowStep
          DEF Next
<1> QED BY <1>1, GuardInit, PTL DEF Spec

\* What is answered is the verdict on all clauses.
LEMMA InvGivesVerdict == ASSUME GuardInv PROVE VerdictInv
<1>1. pc = "done" /\ failed => answer = "none"
  BY DEF GuardInv, VerdictPlaces, Told
<1>2. ASSUME Answered, call.tool = "Bash"
      PROVE  answer = Told(Strictest({ClassifyClause(c) : c \in ToSet(Split)}))
  <2>1. {ClassifyClause(c) : c \in ToSet(Split)} = VerdictsUpTo(Len(Split))
    <3>1. DOMAIN Split = 1 .. Len(Split)
      BY CallParts DEF GuardInv
    <3> QED BY <3>1 DEF ToSet, VerdictsUpTo
  <2> QED BY <1>2, <2>1 DEF GuardInv, VerdictPlaces, Answered, Verdict
<1>3. AnswerIsStrictest
  BY <1>1, <1>2 DEF AnswerIsStrictest, Told, Strictest, Split
<1> QED BY <1>3 DEF GuardInv, VerdictInv

\* The answer is the strictest of the verdicts on all clauses, wherever they
\* stand and whether or not the attempt could be logged, and a call that is not
\* understood is let through (Classify, runHook).
THEOREM AnswersAreStrictest == Spec => []VerdictInv
BY GuardInvariant, InvGivesVerdict, PTL

\* The exception a deny tells of works, and goes on working while others are
\* added (ProtectedHit, denyProtected).
THEOREM ExceptionsLast == Spec => []FreedStaysFreed
<1>1. GuardInv => FreedStaysFreed
  BY DEF GuardInv
<1> QED BY <1>1, GuardInvariant, PTL

-----------------------------------------------------------------------------
(* What is denied.                                                         *)

\* What the answer may be justified by, for one command.
Damage(c) ==
  \/ \E p \in ChangedPaths(c) : Protected(p)
  \/ \E p \in Struck(c) : PathClass(p) \in {"net", "outside"}
  \/ RealCommand(c.words) = "rm" /\ \E p \in Written(c) : PathClass(p) = "root"
  \/ RealCommand(c.words) \in {"dd", "shred", "mkfs"}
  \/ RealCommand(c.words) = "git" /\ {"push", "force"} \subseteq c.flags

\* An unsafe sequence of paths has an unsafe member.
LEMMA UnsafeMembers ==
  ASSUME NEW ps
  PROVE  /\ AnyUnsafe(ps) <=> \E p \in ToSet(ps) : Unsafe(p)
         /\ \A i \in DOMAIN ps : ps[i] \in ToSet(ps)
BY DEF AnyUnsafe, ToSet

\* A command that changes a protected path is denied, whatever place the path
\* stands in.
LEMMA ProtectedChange ==
  ASSUME NEW c, NEW p \in ChangedPaths(c), Protected(p)
  PROVE  /\ ClassifySimple(c) = "deny"
         /\ RealCommand(c.words) \in {"sh", "eval"} => AnyUnsafe(c.redirects)
<1> DEFINE cmd == RealCommand(c.words)
<1>1. Unsafe(p)
  BY DEF Unsafe
<1>2. \A ps : p \in ToSet(ps) => AnyUnsafe(ps)
  BY <1>1, UnsafeMembers
<1>3. CASE p \in Redirected(c)
  BY <1>2, <1>3 DEF Redirected, ClassifySimple
<1>4. CASE p \in Deleted(c)
  <2>1. cmd = "mv" /\ p \in ToSet(Sources(c))
    BY <1>4 DEF Deleted
  <2>2. ClassifyMv(c) = "deny"
    BY <2>1 DEF ClassifyMv, DenyIf, ToSet
  <2> QED BY <2>1, <2>2 DEF ClassifySimple, Classifier
<1>5. CASE p \in Named(c)
  <2>1. cmd = "find" /\ Destructive(c) /\ p \in ToSet(c.exprs)
    BY <1>5 DEF Named
  <2>2. ClassifyFind(c) = "deny"
    BY <2>1 DEF ClassifyFind, ToSet
  <2> QED BY <2>1, <2>2 DEF ClassifySimple, Classifier
<1>6. CASE p \in Written(c)
  <2>1. cmd \in {"rm", "tee", "truncate", "sed", "find", "ln", "cp", "install", "mv"}
    BY <1>6 DEF Written
  <2>2. CASE cmd \in {"rm", "tee", "truncate"}
    <3>1. AnyUnsafe(c.args)
      BY <1>2, <1>6, <2>2 DEF Written
    <3>2. ClassifyRm(c) = "deny" /\ ClassifyTee(c) = "deny" /\ ClassifyTruncate(c) = "deny"
      BY <3>1 DEF ClassifyRm, ClassifyTee, ClassifyTruncate, DenyIf
    <3> QED BY <2>2, <3>2 DEF ClassifySimple, Classifier
  <2>3. CASE cmd = "sed"
    <3>1. "in-place" \in c.flags /\ c.args # <<>> /\ p \in ToSet(Tail(c.args))
      BY <1>6, <2>3 DEF Written
    <3>2. ClassifySed(c) = "deny"
      BY <1>2, <3>1 DEF ClassifySed
    <3> QED BY <2>3, <3>2 DEF ClassifySimple, Classifier
  <2>4. CASE cmd = "find"
    <3>1. Destructive(c) /\ p \in ToSet(c.args)
      BY <1>6, <2>4 DEF Written
    <3>2. ClassifyFind(c) = "deny"
      BY <1>2, <3>1 DEF ClassifyFind
    <3> QED BY <2>4, <3>2 DEF ClassifySimple, Classifier
  <2>5. CASE cmd = "ln"
    <3>1. p \in IF BareLink(c) THEN {Base(c.args[1])} ELSE ToSet(Dest(c))
      BY <1>6, <2>5 DEF Written
    <3>2. ClassifyLn(c) = "deny"
      BY <1>2, <3>1 DEF ClassifyLn, DenyIf
    <3> QED BY <2>5, <3>2 DEF ClassifySimple, Classifier
  <2>6. CASE cmd \in {"cp", "install", "mv"}
    <3>1. AnyUnsafe(Dest(c))
      BY <1>2, <1>6, <2>6 DEF Written
    <3>2. ClassifyCp(c) = "deny" /\ ClassifyMv(c) = "deny"
      BY <3>1 DEF ClassifyCp, ClassifyMv, DenyIf
    <3> QED BY <2>6, <3>2 DEF ClassifySimple, Classifier
  <2>7. cmd \notin {"sh", "eval"}
    BY <2>1
  <2> QED BY <2>1, <2>2, <2>3, <2>4, <2>5, <2>6, <2>7
<1> QED BY <1>3, <1>4, <1>5, <1>6 DEF ChangedPaths, Struck, Deleted, Named

\* A redirection to what is unsafe damages it, unless it is a sink.
LEMMA UnsafeRedirect ==
  ASSUME NEW c, AnyUnsafe(c.redirects), ToSet(c.redirects) \cap Sinks = {}
  PROVE  Damage(c)
<1>1. PICK p \in ToSet(c.redirects) : Unsafe(p)
  BY UnsafeMembers
<1>2. p \in Redirected(c)
  BY <1>1 DEF Redirected
<1> QED BY <1>1, <1>2 DEF Unsafe, Damage, Struck, ChangedPaths

\* An unsafe path among those a command writes is damage.
LEMMA UnsafeWrite ==
  ASSUME NEW c, NEW ps, AnyUnsafe(ps), ToSet(ps) \subseteq Written(c)
  PROVE  Damage(c)
<1>1. PICK p \in ToSet(ps) : Unsafe(p)
  BY UnsafeMembers
<1> QED BY <1>1 DEF Unsafe, Damage, Struck, ChangedPaths

\* A classifier denies only damage.
LEMMA DeniedIsDamage ==
  ASSUME NEW c, Classifier(c) = "deny"
  PROVE  Damage(c)
<1> DEFINE cmd == RealCommand(c.words)
<1>1. /\ cmd \in {"rm", "git", "sed", "mv", "tee", "cp", "install", "ln", "find", "truncate",
                 "dd", "shred", "mkfs"}
      /\ cmd = "rm" => ClassifyRm(c) = "deny"
      /\ cmd = "git" => ClassifyGit(c) = "deny"
      /\ cmd = "sed" => ClassifySed(c) = "deny"
      /\ cmd = "mv" => ClassifyMv(c) = "deny"
      /\ cmd = "tee" => ClassifyTee(c) = "deny"
      /\ cmd \in {"cp", "install"} => ClassifyCp(c) = "deny"
      /\ cmd = "ln" => ClassifyLn(c) = "deny"
      /\ cmd = "find" => ClassifyFind(c) = "deny"
      /\ cmd = "truncate" => ClassifyTruncate(c) = "deny"
  BY DEF Classifier
<1>2. CASE cmd = "rm"
  <2>1. Written(c) = ToSet(c.args)
    BY <1>2 DEF Written
  <2>2. CASE AnyUnsafe(c.args)
    BY <2>1, <2>2, UnsafeWrite
  <2>3. CASE \E i \in DOMAIN c.args : PathClass(c.args[i]) = "root"
    BY <1>2, <2>1, <2>3, UnsafeMembers DEF Damage
  <2> QED BY <1>1, <1>2, <2>2, <2>3 DEF ClassifyRm
<1>3. CASE cmd = "git"
  BY <1>1, <1>3 DEF ClassifyGit, Damage
<1>4. CASE cmd = "sed"
  <2>1. "in-place" \in c.flags /\ c.args # <<>> /\ AnyUnsafe(Tail(c.args))
    BY <1>1, <1>4 DEF ClassifySed
  <2>2. Written(c) = ToSet(Tail(c.args))
    BY <1>4, <2>1 DEF Written
  <2> QED BY <2>1, <2>2, UnsafeWrite
<1>5. CASE cmd = "mv"
  <2>1. CASE AnyUnsafe(Dest(c))
    <3>1. Written(c) = ToSet(Dest(c))
      BY <1>5 DEF Written
    <3> QED BY <2>1, <3>1, UnsafeWrite
  <2>2. CASE \E i \in DOMAIN Sources(c) : Protected(Sources(c)[i])
    BY <1>5, <2>2, UnsafeMembers DEF Damage, ChangedPaths, Deleted
  <2> QED BY <1>1, <1>5, <2>1, <2>2 DEF ClassifyMv, DenyIf
<1>6. CASE cmd \in {"tee", "truncate"}
  <2>1. AnyUnsafe(c.args)
    BY <1>1, <1>6 DEF ClassifyTee, ClassifyTruncate, DenyIf
  <2>2. Written(c) = ToSet(c.args)
    BY <1>6 DEF Written
  <2> QED BY <2>1, <2>2, UnsafeWrite
<1>7. CASE cmd \in {"cp", "install"}
  <2>1. AnyUnsafe(Dest(c))
    BY <1>1, <1>7 DEF ClassifyCp, DenyIf
  <2>2. Written(c) = ToSet(Dest(c))
    BY <1>7 DEF Written
  <2> QED BY <2>1, <2>2, UnsafeWrite
<1>8. CASE cmd = "ln"
  <2>1. CASE BareLink(c)
    <3>1. Written(c) = {Base(c.args[1])}
      BY <1>8, <2>1 DEF Written
    <3>2. Protected(Base(c.args[1]))
      BY <1>1, <1>8, <2>1 DEF ClassifyLn, DenyIf
    <3> QED BY <3>1, <3>2 DEF Damage, ChangedPaths, Struck
  <2>2. CASE ~BareLink(c)
    <3>1. Written(c) = ToSet(Dest(c))
      BY <1>8, <2>2 DEF Written
    <3>2. AnyUnsafe(Dest(c))
      BY <1>1, <1>8, <2>2 DEF ClassifyLn, DenyIf
    <3> QED BY <3>1, <3>2, UnsafeWrite
  <2> QED BY <2>1, <2>2
<1>9. CASE cmd = "find"
  <2>1. Destructive(c)
    BY <1>1, <1>9 DEF ClassifyFind
  <2>2. Written(c) = ToSet(c.args) /\ Named(c) = ToSet(c.exprs)
    BY <1>9, <2>1 DEF Written, Named
  <2>3. CASE AnyUnsafe(c.args)
    BY <2>2, <2>3, UnsafeWrite
  <2>4. CASE \E i \in DOMAIN c.exprs : Protected(c.exprs[i])
    BY <2>2, <2>4, UnsafeMembers DEF Damage, ChangedPaths, Struck
  <2> QED BY <1>1, <1>9, <2>1, <2>3, <2>4 DEF ClassifyFind
<1>10. CASE cmd \in {"dd", "shred", "mkfs"}
  BY <1>10 DEF Damage
<1> QED BY <1>1, <1>2, <1>3, <1>4, <1>5, <1>6, <1>7, <1>8, <1>9, <1>10

\* A call without a text changes the path it is given and nothing else.
LEMMA NoCommands == Commands(NoText) = {}
BY DEF Commands, NoText, SplitClauses, ToSet

\* What is answered when a call is understood.
LEMMA AnswerOf ==
  ASSUME GuardInv, Answered
  PROVE  /\ call.tool \in {"Bash", "Edit"}
         /\ call.tool = "Bash" =>
              (answer = "deny" <=> \E d \in ToSet(Split) : ClassifyClause(d) = "deny")
         /\ call.tool = "Edit" => (answer = "deny" <=> Protected(call.path))
<1>1. call.tool \in {"Bash", "Edit"} /\ answer = Told(Verdict)
  BY CallParts DEF GuardInv, VerdictPlaces, Answered
<1>2. VerdictInv
  BY InvGivesVerdict
<1>3. ASSUME call.tool = "Bash"
      PROVE  answer = "deny" <=> "deny" \in {ClassifyClause(c) : c \in ToSet(Split)}
  BY <1>2, <1>3 DEF VerdictInv, AnswerIsStrictest, Split
<1>4. call.tool = "Edit" => (answer = "deny" <=> Protected(call.path))
  BY <1>1 DEF Verdict, DenyIf, Told
<1> QED BY <1>1, <1>3, <1>4

\* What the invariant gives of the two halves of DenialIsExact.
LEMMA InvDeniesProtected == ASSUME GuardInv PROVE ProtectedIsDenied
<1> SUFFICES ASSUME Answered, NEW p \in ProtectedPaths PROVE answer = "deny"
  BY DEF ProtectedIsDenied
<1>1. Protected(p)
  BY DEF ProtectedPaths
<1>2. CASE p \in {call.path} \ {Nothing}
  <2>1. call.tool = "Edit" /\ p = call.path
    BY <1>2, CallParts, AnswerOf DEF GuardInv
  <2> QED BY <1>1, <2>1, AnswerOf
<1>3. CASE p \notin {call.path} \ {Nothing}
  <2>1. PICK c \in Commands(call.text) : p \in ChangedPaths(c)
    BY <1>3 DEF ProtectedPaths
  <2>2. call.tool = "Bash"
    BY <2>1, NoCommands, AnswerOf DEF GuardInv, Calls
  <2>3. /\ ClassifySimple(c) = "deny"
        /\ RealCommand(c.words) \in {"sh", "eval"} => AnyUnsafe(c.redirects)
    BY <1>1, <2>1, ProtectedChange
  <2>4. CASE c \in ToSet(Split)
    <3>1. ClassifyClause(c) = "deny"
      BY <2>3 DEF ClassifySimple, ClassifyClause
    <3> QED BY <2>2, <2>4, <3>1, AnswerOf
  <2>5. CASE c \notin ToSet(Split)
    <3>1. PICK d \in ToSet(Split) : RealCommand(d.words) \in {"sh", "eval"} /\ c \in ToSet(d.inner)
      BY <2>1, <2>5 DEF Commands, Split
    <3>2. "deny" \in {ClassifySimple(i) : i \in ToSet(d.inner)}
      BY <2>3, <3>1
    <3>3. ClassifyClause(d) = "deny"
      BY <3>1, <3>2 DEF ClassifyClause, Strictest
    <3> QED BY <2>2, <3>1, <3>3, AnswerOf
  <2> QED BY <2>4, <2>5
<1> QED BY <1>2, <1>3

LEMMA InvDeniesOnlyDamage == ASSUME SinksUnwritten, GuardInv PROVE OnlyDamageIsDenied
<1> SUFFICES ASSUME Answered, answer = "deny"
             PROVE  \/ ProtectedPaths # {}
                    \/ \E c \in Commands(call.text) :
                          \/ \E p \in Struck(c) : PathClass(p) \in {"net", "outside"}
                          \/ RealCommand(c.words) = "rm" /\ \E p \in Written(c) : PathClass(p) = "root"
                          \/ RealCommand(c.words) \in {"dd", "shred", "mkfs"}
                          \/ RealCommand(c.words) = "git" /\ {"push", "force"} \subseteq c.flags
  BY DEF OnlyDamageIsDenied
<1>1. CASE call.tool = "Edit"
  <2>1. Protected(call.path) /\ call.path # Nothing
    BY <1>1, AnswerOf, CallParts, GuardAssumption DEF GuardInv, GuardAssumption
  <2>2. call.path \in ProtectedPaths
    BY <2>1 DEF ProtectedPaths
  <2> QED BY <2>2
<1>2. CASE call.tool = "Bash"
  <2>1. PICK d \in ToSet(Split) : ClassifyClause(d) = "deny"
    BY <1>2, AnswerOf
  <2>2. \A c \in Commands(call.text) : ToSet(c.redirects) \cap Sinks = {}
    BY <1>2, CallParts DEF GuardInv, SinksUnwritten
  <2>3. d \in Commands(call.text)
    BY <2>1 DEF Commands, Split
  <2>4. \E c \in Commands(call.text) : Damage(c)
    <3>1. CASE AnyUnsafe(d.redirects)
      BY <2>2, <2>3, <3>1, UnsafeRedirect
    <3>2. CASE ~AnyUnsafe(d.redirects) /\ RealCommand(d.words) \in {"sh", "eval"}
      <4>1. PICK i \in ToSet(d.inner) : ClassifySimple(i) = "deny"
        BY <2>1, <3>2 DEF ClassifyClause, Strictest
      <4>2. i \in Commands(call.text)
        BY <2>1, <3>2, <4>1 DEF Commands, Split
      <4> QED BY <2>2, <4>1, <4>2, UnsafeRedirect, DeniedIsDamage DEF ClassifySimple
    <3>3. CASE ~AnyUnsafe(d.redirects) /\ RealCommand(d.words) \notin {"sh", "eval"}
      BY <2>1, <2>3, <3>3, DeniedIsDamage DEF ClassifyClause
    <3> QED BY <3>1, <3>2, <3>3
  <2>5. \A c \in Commands(call.text) : (\E p \in ChangedPaths(c) : Protected(p)) => ProtectedPaths # {}
    BY DEF ProtectedPaths
  <2> QED BY <2>4, <2>5 DEF Damage
<1> QED BY <1>1, <1>2, AnswerOf

\* A command that writes or deletes a protected path, or a file tool that is
\* given one, is denied (classifyClause and the classifiers, Classify).
THEOREM ProtectedAreDenied == Spec => []ProtectedIsDenied
BY GuardInvariant, InvDeniesProtected, PTL

\* It is, and a call is denied only for such a change, for a write or removal
\* outside the project, in the store or of the project itself, or for a command
\* that changes more than files.
THEOREM DenialsAreExact == ASSUME SinksUnwritten PROVE Spec => []DenialIsExact
<1>1. GuardInv => DenialIsExact
  BY InvDeniesProtected, InvDeniesOnlyDamage DEF DenialIsExact
<1> QED BY <1>1, GuardInvariant, PTL

-----------------------------------------------------------------------------
(* The recovery point the hook announces.                                  *)

\* The last revision is older than the event that is pending, a capture reads
\* a file that has been quiet since, and what it appends is never in the future.
CaptureInv ==
  /\ read # Point!NoRead => pending # 0 /\ read.content \in Point!State /\ read.at > pending
  /\ \A i \in DOMAIN log : log[i].ts <= now /\ (pending # 0 => log[i].ts <= pending)

\* The last revision of the file at the instant of the hint holds what the file
\* was then.
Recoverable ==
  \E k \in DOMAIN log : /\ log[k].content = before /\ log[k].ts <= hint
                        /\ \A j \in DOMAIN log : log[j].ts <= hint => j <= k

\* After a quiet hint nothing is under way until the command, which comes later.
HintInv ==
  /\ stage \in {"edit", "command", "damaged", "restored"}
  /\ hint \in Nat /\ hint <= now
  /\ stage = "damaged" => now > hint
  /\ stage = "command" /\ quiet => ~events /\ pending = 0 /\ disk = before
  /\ stage \in {"command", "damaged"} /\ quiet /\ before # Gone => Recoverable

PointInvariant == PointInv /\ CaptureInv /\ HintInv

\* The last of the lines that are not later.
LEMMA LastKnown ==
  ASSUME NEW K \in SUBSET Nat, NEW k \in K, \A j \in K : j <= k
  PROVE  Point!Max(K) = k
<1>1. \A x \in K : (\A j \in K : x >= j) <=> x = k
  OBVIOUS
<1> QED BY <1>1 DEF Point!Max

\* Among some lines there is a last one, and the maximum is it.
LEMMA MaxIsLine ==
  ASSUME NEW n \in Nat, NEW K \in SUBSET (1 .. n), K # {}
  PROVE  Point!Max(K) \in K
<1> DEFINE U == {m \in Nat : \A j \in K : j <= m}
<1>1. n \in U
  OBVIOUS
<1>2. \E m \in U : \A u \in U : ~ (<<u, m>> \in OpToRel(<, Nat))
  <2>1. U # {} /\ U \in SUBSET Nat
    BY <1>1
  <2> HIDE DEF U
  <2> QED BY <2>1, NatLessThanWellFounded, WFMin
<1>3. PICK m \in U : \A u \in U : ~ (u < m)
  BY <1>2 DEF OpToRel
<1>4. m \in K
  <2>1. SUFFICES ASSUME m \notin K PROVE FALSE
    OBVIOUS
  <2>2. \A j \in K : j \in Nat /\ 1 <= j /\ j <= m /\ j # m
    BY <2>1
  <2>3. m \in Nat /\ m # 0
    <3>1. PICK j \in K : j \in Nat /\ 1 <= j /\ j <= m
      BY <2>2
    <3> QED BY <1>3, <3>1
  <2>4. m - 1 \in U
    BY <2>2, <2>3
  <2> QED BY <1>3, <2>3, <2>4
<1>5. K \in SUBSET Nat /\ \A j \in K : j <= m
  OBVIOUS
<1> QED BY <1>4, <1>5, LastKnown

\* Every line of the log is a revision.
LEMMA LinesAreRevisions ==
  ASSUME log \in Seq(Point!Revision)
  PROVE  /\ \A i \in DOMAIN log : log[i].ts \in Nat /\ log[i].content \in Point!State
         /\ DOMAIN log = 1 .. Len(log) /\ Len(log) \in Nat
<1>1. \A i \in DOMAIN log : log[i] \in Point!Revision
  OBVIOUS
<1> QED BY <1>1 DEF Point!Revision

\* The instant of an append after a capture is the clock's.
LEMMA StampIsNow ==
  ASSUME log \in Seq(Point!Revision), now \in Nat,
         \A i \in DOMAIN log : log[i].ts < now
  PROVE  Point!Stamp(now) = now
<1>1. log # <<>> => Len(log) \in DOMAIN log
  OBVIOUS
<1>2. \A i \in DOMAIN log : log[i].ts \in Nat
  BY LinesAreRevisions
<1> QED BY <1>1, <1>2 DEF Point!Stamp, Point!LastLog

\* The first states satisfy PointInvariant.
LEMMA PointInit == ASSUME Point!Init PROVE PointInvariant
<1>1. PICK c \in Content : /\ disk = c /\ before = c
                           /\ log \in {<<>>, <<[ts |-> 1, content |-> c]>>}
  BY DEF Point!Init
<1>2. now = 1 /\ pending = 0 /\ read = Point!NoRead /\ hint = 0 /\ quiet = FALSE /\ stage = "edit"
      /\ events \in BOOLEAN
  BY DEF Point!Init
<1>3. c \in Point!State
  BY DEF Point!State
<1>4. /\ log \in Seq(Point!Revision)
      /\ \A i \in DOMAIN log : i = 1 /\ log[i].ts = 1
  <2>1. [ts |-> 1, content |-> c] \in Point!Revision
    BY <1>3 DEF Point!Revision
  <2>2. CASE log = <<>>
    BY <2>2
  <2>3. CASE log = <<[ts |-> 1, content |-> c]>>
    BY <2>1, <2>3
  <2> QED BY <1>1, <2>2, <2>3
<1>5. Point!TypeOK
  <2>1. MaxTime \in Nat /\ 1 \in 1 .. MaxTime
    BY PointAssumption DEF Point!TimeAssumption
  <2>2. \A i, j \in DOMAIN log : i < j => log[i].ts < log[j].ts
    BY <1>4
  <2>3. now \in 1 .. MaxTime /\ pending \in 0 .. now
    BY <1>2, <2>1
  <2>4. disk \in Point!State /\ events \in BOOLEAN /\ quiet \in BOOLEAN
    BY <1>1, <1>2, <1>3
  <2> QED BY <1>2, <1>4, <2>2, <2>3, <2>4 DEF Point!TypeOK
<1> QED BY <1>2, <1>4, <1>5 DEF PointInvariant, PointInv, Point!QuietIsRecovered, CaptureInv, HintInv

\* Steps that leave the log, the hint and what is before it alone.
LEMMA QuietSteps ==
  ASSUME PointInvariant,
         Point!Advance \/ Point!Edit \/ Point!Receive \/ Point!CaptureRead \/ Point!Command
  PROVE  PointInvariant'
<1>1. UNCHANGED <<before, log, hint, quiet>>
  BY DEF Point!Advance, Point!Edit, Point!Receive, Point!CaptureRead, Point!Command
<1>2. now \in 1 .. MaxTime /\ now' \in 1 .. MaxTime /\ now <= now' /\ MaxTime \in Nat
  BY PointAssumption DEF PointInvariant, PointInv, Point!TypeOK, Point!TimeAssumption,
         Point!Advance, Point!Edit, Point!Receive, Point!CaptureRead, Point!Command
<1>3. Recoverable' = Recoverable
  BY <1>1 DEF Recoverable
<1>4. \A i \in DOMAIN log : log[i].ts \in Nat
  BY LinesAreRevisions DEF PointInvariant, PointInv, Point!TypeOK
<1>5. ASSUME NEW c \in Point!State, Point!Change(c) PROVE disk' \in Point!State /\ events' = TRUE
  BY <1>5 DEF Point!Change
<1>6. Point!TypeOK'
  <2>1. Point!TypeOK
    BY DEF PointInvariant, PointInv
  <2>2. disk' \in Point!State /\ events' \in BOOLEAN
    BY <1>5, <2>1
       DEF Point!TypeOK, Point!Advance, Point!Edit, Point!Receive, Point!CaptureRead, Point!Command
  <2>3. pending' \in 0 .. now' /\ (read' = Point!NoRead \/ read'.at \in 1 .. now')
    BY <1>2, <2>1
       DEF Point!TypeOK, Point!Advance, Point!Edit, Point!Receive, Point!CaptureRead, Point!Command
  <2> QED BY <1>1, <1>2, <2>1, <2>2, <2>3 DEF Point!TypeOK
<1>7. CaptureInv'
  BY <1>1, <1>2, <1>4, PointAssumption
     DEF PointInvariant, PointInv, Point!TypeOK, CaptureInv, Point!TimeAssumption,
         Point!Advance, Point!Edit, Point!Receive, Point!CaptureRead, Point!Command, Point!NoRead
<1>8. HintInv' /\ Point!QuietIsRecovered'
  BY <1>1, <1>2, <1>3
     DEF PointInvariant, PointInv, Point!TypeOK, HintInv, Point!QuietIsRecovered, CaptureInv,
         Point!Advance, Point!Edit, Point!Receive, Point!CaptureRead, Point!Command
<1> QED BY <1>6, <1>7, <1>8 DEF PointInvariant, PointInv

\* A capture appends at an instant after the event, so after a quiet hint: the
\* last line that is not later stays the last.
LEMMA AppendStep ==
  ASSUME PointInvariant, Point!CaptureAppend
  PROVE  PointInvariant'
<1> DEFINE r == [ts |-> Point!Stamp(now), content |-> read.content]  n == Len(log)
<1>1. /\ log \in Seq(Point!Revision) /\ now \in 1 .. MaxTime
      /\ \A i, j \in DOMAIN log : i < j => log[i].ts < log[j].ts
      /\ pending \in Nat /\ MaxTime \in Nat
  BY PointAssumption DEF PointInvariant, PointInv, Point!TypeOK, Point!TimeAssumption
<1>2. /\ read # Point!NoRead /\ pending' = 0 /\ read' = Point!NoRead
      /\ UNCHANGED <<now, disk, before, events, hint, quiet, stage>>
      /\ log' = log \/ log' = Append(log, r)
  BY DEF Point!CaptureAppend
<1>3. /\ read.at \in 1 .. now /\ read.at > pending /\ pending # 0 /\ read.content \in Point!State
  BY <1>2 DEF PointInvariant, PointInv, Point!TypeOK, CaptureInv
<1>4. \A i \in DOMAIN log : log[i].ts \in Nat /\ log[i].ts < now
  BY <1>1, <1>3, LinesAreRevisions DEF PointInvariant, CaptureInv
<1>5. r.ts = now /\ r \in Point!Revision
  BY <1>1, <1>3, <1>4, StampIsNow DEF Point!Revision
<1>6. ASSUME log' = Append(log, r)
      PROVE  /\ log' \in Seq(Point!Revision) /\ DOMAIN log' = DOMAIN log \cup {n + 1}
             /\ log'[n + 1] = r /\ n \in Nat
             /\ \A i \in DOMAIN log : log'[i] = log[i] /\ i <= n /\ i \in Nat
  BY <1>1, <1>5, <1>6
<1>7. Point!TypeOK'
  <2>1. log' \in Seq(Point!Revision)
    BY <1>1, <1>2, <1>6
  <2>2. (\A i, j \in DOMAIN log : i < j => log[i].ts < log[j].ts)'
    BY <1>1, <1>2, <1>4, <1>5, <1>6
  <2> QED BY <1>1, <1>2, <2>1, <2>2 DEF PointInvariant, PointInv, Point!TypeOK
<1>8. CaptureInv'
  <2>1. \A i \in DOMAIN log' : log'[i].ts <= now
    BY <1>1, <1>2, <1>4, <1>5, <1>6
  <2> QED BY <1>2, <2>1 DEF CaptureInv
<1>9. stage = "command" => ~quiet
  BY <1>3 DEF PointInvariant, HintInv
<1>10. ASSUME stage = "damaged", Recoverable PROVE Recoverable'
  <2>1. now > hint /\ hint \in Nat
    BY <1>10 DEF PointInvariant, HintInv
  <2> QED BY <1>1, <1>2, <1>4, <1>5, <1>6, <1>10, <2>1 DEF Recoverable
<1>11. HintInv' /\ Point!QuietIsRecovered'
  BY <1>2, <1>9, <1>10 DEF PointInvariant, PointInv, HintInv, Point!QuietIsRecovered
<1> QED BY <1>7, <1>8, <1>11 DEF PointInvariant, PointInv

\* When all was captured, the last revision of all is the file as it is.
LEMMA HookStep == ASSUME PointInvariant, Point!Hook PROVE PointInvariant'
<1>1. UNCHANGED <<now, disk, events, pending, read, log>> /\ hint' = now /\ before' = disk
  BY DEF Point!Hook
<1>2. /\ log \in Seq(Point!Revision) /\ now \in Nat
      /\ \A i \in DOMAIN log : log[i].ts <= now
  BY DEF PointInvariant, PointInv, Point!TypeOK, CaptureInv
<1>3. ASSUME quiet', disk # Gone PROVE Recoverable'
  <2>1. log # <<>> /\ log[Len(log)].content = disk
    BY <1>3 DEF Point!Hook, Point!Known, Point!LastLog
  <2>2. Len(log) \in DOMAIN log /\ \A i \in DOMAIN log : i <= Len(log)
    BY <1>2, <2>1
  <2> QED BY <1>1, <1>2, <2>1, <2>2 DEF Recoverable
<1>4. quiet' \in BOOLEAN /\ (quiet' => ~events /\ pending = 0) /\ stage' = "command"
  BY DEF Point!Hook
<1>5. Point!TypeOK' /\ CaptureInv'
  BY <1>1, <1>4 DEF PointInvariant, PointInv, Point!TypeOK, CaptureInv
<1> QED BY <1>1, <1>2, <1>3, <1>4, <1>5 DEF PointInvariant, PointInv, HintInv, Point!QuietIsRecovered

\* The rewind takes the line that Recoverable speaks of.
LEMMA RestoreStep == ASSUME PointInvariant, Point!RestoreAt PROVE PointInvariant'
<1> DEFINE known == {i \in DOMAIN log : log[i].ts <= hint}
<1>1. /\ UNCHANGED <<now, before, events, pending, read, log, hint, quiet>>
      /\ stage = "damaged" /\ stage' = "restored"
      /\ disk' = IF known = {} \/ log[Point!Max(known)].content = Gone THEN disk
                 ELSE log[Point!Max(known)].content
  BY DEF Point!RestoreAt
<1>2. log \in Seq(Point!Revision)
  BY DEF PointInvariant, PointInv, Point!TypeOK
<1>3. known \in SUBSET Nat
  BY <1>2
<1>4. ASSUME quiet, before # Gone PROVE disk' = before
  <2>1. PICK k \in known : log[k].content = before /\ \A j \in known : j <= k
    BY <1>1, <1>4 DEF PointInvariant, HintInv, Recoverable
  <2>2. Point!Max(known) = k
    BY <1>3, <2>1, LastKnown
  <2> QED BY <1>1, <1>4, <2>1, <2>2
<1>5. disk' \in Point!State
  <2>1. known # {} => Point!Max(known) \in known
    BY <1>2, LinesAreRevisions, MaxIsLine
  <2>2. disk \in Point!State
    BY DEF PointInvariant, PointInv, Point!TypeOK
  <2> QED BY <1>1, <1>2, <2>1, <2>2, LinesAreRevisions
<1>6. Point!TypeOK' /\ CaptureInv'
  BY <1>1, <1>5 DEF PointInvariant, PointInv, Point!TypeOK, CaptureInv
<1> QED BY <1>1, <1>4, <1>6 DEF PointInvariant, PointInv, HintInv, Point!QuietIsRecovered

\* After the rewind the hint tells of, a file that was captured when the hook
\* spoke has the content it had then, however the agent, the watcher and the
\* clock went on meanwhile (checkpoint, restoreAtLocked).
THEOREM HintsAreRecoveryPoints == Point!Spec => []PointInv
<1>1. ASSUME PointInvariant, [Point!Next]_Point!vars PROVE PointInvariant'
  <2>1. CASE UNCHANGED Point!vars
    BY <1>1, <2>1 DEF Point!vars, PointInvariant, PointInv, Point!TypeOK, CaptureInv, HintInv,
                      Recoverable, Point!QuietIsRecovered
  <2> QED BY <1>1, <2>1, QuietSteps, AppendStep, HookStep, RestoreStep DEF Point!Next
<1>2. PointInvariant => PointInv
  BY DEF PointInvariant
<1> QED BY <1>1, <1>2, PointInit, PTL DEF Point!Spec
=============================================================================
