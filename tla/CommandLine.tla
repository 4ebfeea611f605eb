----------------------------- MODULE CommandLine ----------------------------
(***************************************************************************)
(* Two parts of the command line (main.go): the service command (Service)  *)
(* and the flags of gc and watch (Flags).  They share no state: a unit     *)
(* names two of the flags (service.go:385), which the watcher that it      *)
(* starts parses like those that are typed.                                *)
(***************************************************************************)
EXTENDS Service, Integers, Sequences

CONSTANTS Half, Day, DefaultAge, DefaultCap, Ages, Calls, Cwd
VARIABLES call, i, age, bytes, root, partial, maxFile, stage, kept, limit

Line == INSTANCE Flags WITH pc <- stage
ASSUME LineAssumption == Line!WordAssumption

(* No number of days is so large that its product with a day leaves a word.*)
DaysFit ==
    \A c \in Calls : \A k \in DOMAIN c.args :
        c.args[k].kind = "days" => c.args[k].n * Day \in Line!Word

(* A size is taken exactly as typed or refused, gc keeps every revision    *)
(* that is not older than the age it was given, and a command one of whose *)
(* arguments is refused has changed nothing (parseMaxBytes, parseMaxAge,   *)
(* cmdGC, parseWatchFlags).                                                *)
FlagsInv ==
    /\ Line!TypeOK
    /\ Line!SizesAreExact
    /\ Line!YoungerSurvives
    /\ Line!RefusedChangesNothing
=============================================================================
