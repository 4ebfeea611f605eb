--------------------------- MODULE StoreHistory ---------------------------
(***************************************************************************)
(* The store implements the abstract history: a revision of the history is *)
(* a line of the log together with the object it names.  A capture takes   *)
(* effect when its line is appended, a collection file by file when a log  *)
(* is replaced; every other step of the store leaves the history alone.    *)
(***************************************************************************)
EXTENDS Store

\* A line whose object is missing has no content.
Lost == NoHash

histBar ==
  [f \in File |-> [i \in DOMAIN log[f] |->
     [ts |-> log[f][i].ts,
      content |-> IF log[f][i].hash \in objects THEN log[f][i].hash ELSE Lost,
      label |-> log[f][i].label]]]

H == INSTANCE History WITH hist <- histBar, KeepPairs <- "gc" \notin Ops

\* The store does nothing that the abstract history does not allow, however
\* the calls of two processes, the editor and crashes interleave.
ImplementsHistory == H!HSpec
=============================================================================
