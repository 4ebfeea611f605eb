-------------------------------- MODULE Logs -------------------------------
(***************************************************************************)
(* The batches beside the text of one revision log (LogFile), which they   *)
(* take to be a sequence of revisions.                                     *)
(***************************************************************************)
EXTENDS StoreBatch, Sequences

CONSTANTS Hash, ShortCut, MaxAppends, MaxTorn, LogClock, Far
VARIABLES now, lines, open, objects, acked, whole, torn, cuts, appends

LogText == INSTANCE LogFile WITH MaxClock <- LogClock, clock <- now
ASSUME LogAssumption == LogText!LogFileAssumption

fileState == <<lines, open, objects, acked, whole, torn, cuts, appends>>
-----------------------------------------------------------------------------
(* A revision whose own three columns are whole is read as it was written  *)
(* whatever was cut off before or after it, and keeps its object over a    *)
(* collection; the times read from a file increase, glued lines included   *)
(* (parseLine, nextTimestamp, collectLocked).                              *)
LogFileInv ==
  /\ LogText!TypeOK
  /\ LogText!RevisionsSurvive
  /\ LogText!SurvivorsBacked
  /\ LogText!TimesIncrease
=============================================================================
