------------------------------ MODULE MCService -----------------------------
(***************************************************************************)
(* The service and the flags of the command line for TLC.  A run is about  *)
(* one part, chosen at the start; the other rests in a first state.        *)
(*   "service"  Service on both platforms                                  *)
(*   "flags"    Flags in words of eight bits, with up to four arguments    *)
(***************************************************************************)
EXTENDS CommandLine

VARIABLE part

Token(kind, n, mult) == [kind |-> kind, n |-> n, mult |-> mult]
Names == {Token(f, 0, 0) : f \in {"--max-age", "--max-bytes", "--allow-partial", "--max-file-size", "--root"}}
Sizes == {Token("size", n, m) : n \in {-2, 0, 2, 31, 32}, m \in {1, 4}}
Times == {Token("days", n, 0) : n \in {-1, 7, 12}} \cup {Token("time", n, 0) : n \in {3, 200}}
Words == {Token("off", 0, 0), Token("path", 0, 0)}
Args == Names \cup Sizes \cup Times \cup Words
Values == Sizes \cup Times \cup Words

\* Up to two arguments of any kind, and two pairs of which the first is a flag
\* with a value.
Of(name, args) == [command |-> name, args |-> args]
Short == {<<>>} \cup {<<x>> : x \in Args} \cup {<<x, y>> : x, y \in Args}
Pairs(flags) ==
  {<<Token(f, 0, 0), v, x, y>> : f \in flags, v \in Values, x \in Names, y \in Args}
MCCalls ==
  {Of(c, s) : c \in {"gc", "watch"}, s \in Short}
    \cup {Of("gc", s) : s \in Pairs({"--max-age", "--max-bytes"})}
    \cup {Of("watch", s) : s \in Pairs({"--max-file-size", "--root"})}

MCCwd == Token("path", 1, 0)
ASSUME DaysFit

lineVars == <<call, i, age, bytes, root, partial, maxFile, stage, kept, limit>>
ServiceAtRest == Init /\ platform = "launchd" /\ ~linger /\ ~starved
LineAtRest == Line!Init /\ call = Of("gc", <<>>)

MCInit ==
  \/ part = "service" /\ Init /\ LineAtRest
  \/ part = "flags" /\ ServiceAtRest /\ Line!Init

MCNext ==
  /\ \/ part = "service" /\ Next /\ UNCHANGED lineVars
     \/ part = "flags" /\ Line!Next /\ UNCHANGED vars
  /\ UNCHANGED part

MCFairSpec ==
  /\ MCInit /\ [][MCNext]_<<vars, part, lineVars>>
  /\ WF_vars(Restart) /\ WF_vars(Boot)
-----------------------------------------------------------------------------
\* A claimed watcher comes up again, after a crash on launchd and after a restart
\* of the machine on both (KeepAlive, WantedBy).
ClaimedComesUp == KeptUp /\ SurvivesReboot
=============================================================================
