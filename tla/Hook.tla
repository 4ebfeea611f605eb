--------------------------------- MODULE Hook -------------------------------
(***************************************************************************)
(* The hook of the agent as a whole: its verdict on a call (Guard) and     *)
(* what the instant it names is worth afterwards (Checkpoint).  The two    *)
(* share no state: the verdict does not depend on what the watcher has     *)
(* captured, and the hint is the clock's time whatever the command was     *)
(* (guard.go:980).                                                         *)
(***************************************************************************)
EXTENDS Guard

CONSTANTS Content, Gone, Debounce, MaxTime
VARIABLES now, disk, before, events, pending, read, log, hint, quiet, stage

Point == INSTANCE Checkpoint WITH pc <- stage
ASSUME PointAssumption == Point!TimeAssumption

(* The log is in order, and after the rewind the hint tells of, a file that *)
(* was captured when the hook spoke has the content it had then, whatever  *)
(* was captured between the command and the rewind (guard.go:990).         *)
PointInv == Point!TypeOK /\ Point!QuietIsRecovered
=============================================================================
