---------------------------- MODULE MCStoreBatch ----------------------------
(***************************************************************************)
(* What the revision logs hold and what is read from them, for TLC, side   *)
(* by side: a run is about one part, chosen at the start, and the others   *)
(* rest in a first state.                                                  *)
(*   "batch"     StoreBatch, every call later than all recorded times      *)
(*   "close"     StoreBatch, calls in one millisecond                      *)
(*   "file"      LogFile; six digits and the 13 of a timestamp fit an      *)
(*               int64, seven do not                                       *)
(*   "timeline"  Timeline, of three files, two of them with a revision     *)
(*               before the start, and of two of the three                 *)
(***************************************************************************)
EXTENDS Logs, TLC

CONSTANTS f1, f2, a, b

MCPathRank == f1 :> 1 @@ f2 :> 2
MCSymmetry == Permutations({a, b})
MCTree == {{f1, f2}}
MCDirs == {{f1, f2}, {f2}}

\* now is the clock of the last two parts.
VARIABLES part, logs

Close == INSTANCE StoreBatch WITH Dir <- MCDirs, Front <- {"cli", "mcp"}, MayFail <- FALSE,
                                  Instant <- {1, 2}, CallsApart <- {FALSE}, MaxCalls <- 3,
                                  MaxClock <- 2

Stream == INSTANCE Timeline WITH Files <- <<1, 2, 3>>, Sub <- <<2, 3>>, MinFiles <- 2,
                                 Gap <- 1, MaxTime <- 3, MaxRevisions <- 4,
                                 clock <- now
ASSUME Stream!TimelineAssumption

BatchAtRest == Init /\ disk = [f \in File |-> Absent]
StreamAtRest == Stream!Init /\ \A f \in Stream!Path : logs[f] = <<>>
StreamStarts == Stream!Init /\ \A f \in {1, 2} : logs[f] # <<>>

MCInit ==
  \/ part = "batch" /\ Init /\ LogText!Init /\ StreamAtRest
  \/ part = "close" /\ Close!Init /\ LogText!Init /\ StreamAtRest
  \/ part = "file" /\ BatchAtRest /\ LogText!Init /\ StreamAtRest
  \/ part = "timeline" /\ BatchAtRest /\ LogText!Init /\ StreamStarts

MCNext ==
  /\ \/ part = "batch" /\ Next /\ UNCHANGED <<now, fileState, logs>>
     \/ part = "close" /\ Close!Next /\ UNCHANGED <<now, fileState, logs>>
     \/ part = "file" /\ LogText!Next /\ UNCHANGED <<vars, logs>>
     \/ part = "timeline" /\ Stream!Next /\ UNCHANGED <<vars, fileState>>
  /\ UNCHANGED part

MCSpec == MCInit /\ [][MCNext]_<<vars, part, now, fileState, logs>>
-----------------------------------------------------------------------------
\* A revision whose append succeeded can be read; the code does not keep this
\* after an append that was cut off (stress_test.go: "Records still work after
\* the corruption is in place").
AckedReadable == LogText!AckedReadable

\* The bursts reported are exactly the stretches of damage without a longer gap
\* that hit enough files; those of a scope lie in those of the whole; one that
\* is over is reported the same for ever; a batch restore is no damage
\* (DetectBursts, Timeline, destructive).
TimelineInv ==
  part = "timeline" =>
    /\ Stream!TypeOK
    /\ Stream!BurstsAreRuns
    /\ Stream!ScopesNest
    /\ Stream!SettledBurstsStay
    /\ Stream!RestoresAreNoDamage
=============================================================================
