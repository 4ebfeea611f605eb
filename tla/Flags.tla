-------------------------------- MODULE Flags -------------------------------
(***************************************************************************)
(* The flags of `salvager gc` and `salvager watch` (main.go:109-197 and    *)
(* main.go:469-571): the loops over the arguments, the numbers in words of *)
(* a fixed width, and what the two commands then ask of the store.  The    *)
(* revisions are those of one file, each a unit of size, known by age.     *)
(***************************************************************************)
EXTENDS Integers, Sequences, FiniteSets, FiniteSetsExt, SequencesExt

CONSTANTS
    Half,           \* a word holds -Half .. Half - 1
    Day,            \* a day in the unit of durations
    DefaultAge,     \* the seven days of gc
    DefaultCap,     \* DefaultMaxFileBytes
    Ages,           \* ages of the revisions in the log
    Calls,          \* [command, args]: what is typed
    Cwd             \* the directory the command is started in

(* An argument is [kind, n, mult]: "days" n, "time" n (a Go duration),     *)
(* "size" n times mult, "off", "path" (mult 0), or the name of a flag.     *)
Flag == {"--max-age", "--max-bytes", "--allow-partial", "--max-file-size", "--root"}
Argument == [kind : Flag \cup {"days", "time", "size", "off", "path"}, n : Int, mult : Nat]

(* There is a newest revision. *)
WordAssumption ==
    /\ Half \in Nat /\ Half > 1 /\ Day \in Nat
    /\ DefaultAge \in 0 .. Half - 1 /\ DefaultCap \in 0 .. Half - 1
    /\ Ages \subseteq Int /\ \E a \in Ages : \A b \in Ages : a <= b
    /\ Calls \subseteq [command : {"gc", "watch"}, args : Seq(Argument)]
    /\ \A c \in Calls : \A k \in DOMAIN c.args : c.args[k].kind = "size" => c.args[k].mult > 0

VARIABLES
    call,       \* the command and its arguments
    i,          \* index of the argument the loop looks at
    age, bytes,             \* maxAge and maxBytes of cmdGC
    root, partial, maxFile, \* the results of parseWatchFlags
    pc,         \* "parse", "parsed", "aged", "done", "refused"
    kept,       \* ages of the revisions in the log
    limit       \* the cap of the running watcher, 0 while there is none

vars == <<call, i, age, bytes, root, partial, maxFile, pc, kept, limit>>

Wrap(n) == ((n + Half) % (2 * Half)) - Half
Word == -Half .. Half - 1
Unlimited == Half - 1       \* math.MaxInt64

(* A parser returns the set of its result, empty for an error.             *)

(* A mutant: a day has no hours. *)
AgeInHours(v) == IF v.kind = "days" THEN {v.n} ELSE {}

(* parseMaxAge: days are multiplied out in a word; a bare 0 is a duration. *)
ParseMaxAge(v) ==
    CASE v.kind = "days" /\ v.n \in Word -> {Wrap(v.n * Day)}
      [] v.kind = "time" /\ v.n \in Word -> {v.n}
      [] v.kind = "size" /\ v.n = 0 /\ v.mult = 1 -> {0}
      [] OTHER -> {}

(* A mutant: the product is not checked. *)
BytesUnchecked(v) == IF v.kind = "size" /\ v.n \in 0 .. Half - 1 THEN {Wrap(v.n * v.mult)} ELSE {}
(* parseMaxBytes. *)
ParseMaxBytes(v) ==
    IF v.kind = "size" /\ v.n \in 0 .. Half - 1 /\ v.n <= (Half - 1) \div v.mult
    THEN {v.n * v.mult} ELSE {}

NoLimit(v) == v.kind = "off" \/ (v.kind = "size" /\ v.n = 0 /\ v.mult = 1)
ParseFileSize(v) == IF NoLimit(v) THEN {-1} ELSE ParseMaxBytes(v)
-----------------------------------------------------------------------------
Init ==
    /\ call \in Calls
    /\ i = 1 /\ age = DefaultAge /\ bytes = -1
    /\ root = Cwd /\ partial = FALSE /\ maxFile = -2
    /\ pc = "parse" /\ kept = Ages /\ limit = 0

Looking(command) == pc = "parse" /\ call.command = command /\ i <= Len(call.args)
At(flag) == call.args[i].kind = flag
HasValue == i + 1 <= Len(call.args)
Value == call.args[i + 1]
Take(flag) == At(flag) /\ HasValue

Refuse == pc' = "refused" /\ UNCHANGED <<call, i, age, bytes, root, partial, maxFile, kept, limit>>

Newest == Min(Ages)
(* A mutant: the age is applied where it is read. *)
GCAgeAtOnce ==
    /\ Looking("gc") /\ Take("--max-age")
    /\ \E n \in ParseMaxAge(Value) : age' = n /\ kept' = {a \in kept : a <= n \/ a = Newest}
    /\ i' = i + 2
    /\ UNCHANGED <<call, bytes, root, partial, maxFile, pc, limit>>

GCAge ==
    /\ Looking("gc") /\ Take("--max-age")
    /\ \E n \in ParseMaxAge(Value) : age' = n
    /\ i' = i + 2
    /\ UNCHANGED <<call, bytes, root, partial, maxFile, pc, kept, limit>>

GCBytes ==
    /\ Looking("gc") /\ Take("--max-bytes")
    /\ \E n \in ParseMaxBytes(Value) : bytes' = n
    /\ i' = i + 2
    /\ UNCHANGED <<call, age, root, partial, maxFile, pc, kept, limit>>

(* A number that cannot be read, a flag without a value, any other word.   *)
GCRefuse ==
    /\ Looking("gc")
    /\ ~(Take("--max-age") /\ ParseMaxAge(Value) # {})
    /\ ~(Take("--max-bytes") /\ ParseMaxBytes(Value) # {})
    /\ Refuse

WatchPartial ==
    /\ Looking("watch") /\ At("--allow-partial")
    /\ partial' = TRUE
    /\ i' = i + 1
    /\ UNCHANGED <<call, age, bytes, root, maxFile, pc, kept, limit>>

WatchSize ==
    /\ Looking("watch") /\ Take("--max-file-size")
    /\ \E n \in ParseFileSize(Value) : maxFile' = n
    /\ i' = i + 2
    /\ UNCHANGED <<call, age, bytes, root, partial, pc, kept, limit>>

WatchRoot ==
    /\ Looking("watch") /\ Take("--root") /\ Value.kind \notin Flag
    /\ root' = Value
    /\ i' = i + 2
    /\ UNCHANGED <<call, age, bytes, partial, maxFile, pc, kept, limit>>

WatchRefuse ==
    /\ Looking("watch")
    /\ ~At("--allow-partial")
    /\ ~(Take("--max-file-size") /\ ParseFileSize(Value) # {})
    /\ ~(Take("--root") /\ Value.kind \notin Flag)
    /\ Refuse

Parsed ==
    /\ pc = "parse" /\ i > Len(call.args)
    /\ pc' = "parsed"
    /\ UNCHANGED <<call, i, age, bytes, root, partial, maxFile, kept, limit>>

(* GC: what is older than the cutoff goes, the newest stays.               *)
RunAge ==
    /\ pc = "parsed" /\ call.command = "gc"
    /\ kept' = {a \in kept : a <= age \/ a = Newest}
    /\ pc' = "aged"
    /\ UNCHANGED <<call, i, age, bytes, root, partial, maxFile, limit>>

(* GCBySize, the oldest first down to the newest; skipped without the flag. *)
RunBytes ==
    /\ pc = "aged"
    /\ kept' = IF bytes < 0 THEN kept
               ELSE {a \in kept : a = Newest \/ Cardinality({b \in kept : b <= a}) <= bytes}
    /\ pc' = "done"
    /\ UNCHANGED <<call, i, age, bytes, root, partial, maxFile, limit>>

(* cmdWatch: SetMaxFileBytes unless the flag is absent, and maxBytes.      *)
RunWatch ==
    /\ pc = "parsed" /\ call.command = "watch"
    /\ limit' = CASE maxFile \in {-2, 0} -> DefaultCap
                  [] maxFile = -1 -> Unlimited
                  [] maxFile \notin {-2, -1, 0} -> IF maxFile < 0 THEN Unlimited ELSE maxFile
    /\ pc' = "done"
    /\ UNCHANGED <<call, i, age, bytes, root, partial, maxFile, kept>>

Next ==
    \/ GCAge \/ GCBytes \/ GCRefuse
    \/ WatchPartial \/ WatchSize \/ WatchRoot \/ WatchRefuse
    \/ Parsed \/ RunAge \/ RunBytes \/ RunWatch
Spec == Init /\ [][Next]_vars
-----------------------------------------------------------------------------
(* The last value given for a flag of an accepted call, as it was typed.   *)
LastOf(flag) == SelectLastInSeq(call.args, LAMBDA v : v.kind = flag)
Given(flag) == call.args[LastOf(flag) + 1]
Accepted == pc \in {"parsed", "aged", "done"}

(* Every number of the flags is a word, and what is watched is a path, not *)
(* a flag taken for one (main.go:141).                                     *)
TypeOK ==
    /\ {age, bytes, maxFile} \subseteq Word
    /\ root = Cwd \/ root.kind \notin Flag
    /\ partial \in BOOLEAN /\ kept \subseteq Ages
    /\ limit \in Word

(* A size is taken exactly as typed or refused: the last one counts, it    *)
(* never wraps, and none is mistaken for the -1 or the -2 that say that    *)
(* the flag is absent or has no limit (main.go:113, main.go:471).          *)
SizesAreExact ==
    Accepted =>
        /\ LET n == LastOf("--max-bytes") IN
           bytes = IF n = 0 THEN -1 ELSE Given("--max-bytes").n * Given("--max-bytes").mult
        /\ bytes >= 0 <=> LastOf("--max-bytes") # 0
        /\ maxFile = -2 <=> LastOf("--max-file-size") = 0
        /\ maxFile = -1 <=> LastOf("--max-file-size") # 0 /\ NoLimit(Given("--max-file-size"))

(* gc keeps every revision that is not older than the age it was given,    *)
(* before it looks at the size (architecture.md:74).                       *)
YoungerSurvives ==
    pc = "aged" =>
        LET v == Given("--max-age")
            asked == IF LastOf("--max-age") = 0 THEN DefaultAge
                     ELSE v.n * (IF v.kind = "days" THEN Day ELSE 1)
        IN \A a \in Ages : a <= asked => a \in kept

(* A command one of whose arguments is refused has changed nothing, though *)
(* those before it were in order, and no pass ever takes the newest.       *)
RefusedChangesNothing ==
    /\ pc = "refused" => kept = Ages /\ limit = 0
    /\ Newest \in kept

(* A size of zero lifts the cap, in whatever unit (main.go:124,            *)
(* README.md:195).                                                         *)
ZeroIsNoLimit ==
    pc = "done" /\ LastOf("--max-file-size") # 0 =>
        LET v == Given("--max-file-size") IN
        v.kind = "size" /\ v.n * v.mult = 0 => limit = Unlimited
=============================================================================
