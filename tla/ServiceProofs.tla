--------------------------- MODULE ServiceProofs ----------------------------
(***************************************************************************)
(* What the reports of the service command promise, for any number of      *)
(* retries, crashes and restarts of the machine.  The two reports that     *)
(* systemd's code does not verify are not among them.  And what the flags  *)
(* of gc and watch come to, for words of any width and any arguments.      *)
(***************************************************************************)
EXTENDS CommandLine, TLAPS

USE ServiceAssumption

(* The commands of an install that come after the write of the unit.       *)
Installing == {"load", "start", "await"}
Uninstalling == {"stop", "remove", "verify"}

(* What a command relies on between its steps: the unit it wrote is there, *)
(* systemd was told to link it, and no claim survives the start of an      *)
(* uninstall.                                                              *)
CommandInv ==
    /\ pc \in Installing => unit
    /\ platform = "systemd" /\ pc = "await" => enabled
    /\ claimed => pc \notin Uninstalling

(* launchd runs what it has loaded, and links nothing. *)
LaunchdInv ==
    platform = "launchd" => /\ ~enabled
                            /\ active \in {"running", "waiting"} => loaded

(* The flags are truth values. *)
BooleansInv ==
    /\ unit \in BOOLEAN /\ loaded \in BOOLEAN /\ enabled \in BOOLEAN
    /\ linger \in BOOLEAN /\ claimed \in BOOLEAN

ServiceInv == BooleansInv /\ CommandInv /\ LaunchdInv /\ ClaimIsBacked

(* A fresh machine satisfies it.                                           *)
LEMMA InitInv == Init => ServiceInv
    BY DEF Init, ServiceInv, BooleansInv, CommandInv, LaunchdInv, ClaimIsBacked, NoReport,
           Installing, Uninstalling

(* "Running" is what both managers say of an active job only.             *)
LEMMA StatesDiffer == State = "running" => active = "running"
    BY DEF State, LaunchdState, SystemdState

(* The steps of an install keep it: the unit is written before anything    *)
(* else is tried, and a claim is made by Await alone.                      *)
LEMMA InstallStep ==
    ASSUME ServiceInv,
           \/ \E allow \in BOOLEAN : Install(allow)
           \/ WriteUnit \/ Load \/ Kickstart \/ Enable \/ Await
    PROVE  ServiceInv'
<1> USE DEF ServiceInv, BooleansInv, CommandInv, LaunchdInv, ClaimIsBacked, Say, manager,
            command, World, Installing, Uninstalling
<1>1. ASSUME NEW allow \in BOOLEAN, Install(allow) PROVE ServiceInv'
    BY <1>1 DEF Install
<1>2. CASE WriteUnit
    BY <1>2 DEF WriteUnit
<1>3. CASE Load
  <2>1. CASE UNCHANGED manager
    BY <1>3, <2>1 DEF Load
  <2>2. CASE loaded' = (loaded \/ unit)
    <3>1. loaded' \in BOOLEAN /\ (loaded' <=> loaded \/ unit)
      BY <2>2, Zenon
    <3>2. platform = "launchd" => (active' \in {"running", "waiting"} => loaded')
      BY <1>3, <3>1 DEF Load
    <3> HIDE DEF LaunchdInv
    <3>3. LaunchdInv'
      BY <1>3, <3>2 DEF Load, LaunchdInv
    <3> QED
      BY <1>3, <3>1, <3>3 DEF Load
  <2> QED
    BY <1>3, <2>1, <2>2 DEF Load
<1>4. CASE Kickstart
    BY <1>4 DEF Kickstart
<1>5. CASE Enable
    BY <1>5 DEF Enable
<1>6. CASE Await
  <2>1. claimed' \in {claimed, claimed \/ Persistent}
    BY <1>6, Zenon DEF Await
  <2>2. claimed' \in BOOLEAN /\ (claimed' => claimed \/ Persistent)
    BY <2>1, Zenon
  <2> QED
    BY <1>6, <2>2 DEF Await, Persistent
<1> QED
    BY <1>1, <1>2, <1>3, <1>4, <1>5, <1>6

(* The steps of an uninstall keep it, having taken the claim back first,   *)
(* and a status changes nothing but the report.                            *)
LEMMA UninstallStep ==
    ASSUME ServiceInv,
           Uninstall \/ Stop \/ RemoveUnit \/ VerifyLaunchd \/ VerifySystemd \/ Status
    PROVE  ServiceInv'
<1> USE DEF ServiceInv, BooleansInv, CommandInv, LaunchdInv, ClaimIsBacked, Say, manager,
            command, World, Installing, Uninstalling
<1>1. CASE Uninstall
    BY <1>1 DEF Uninstall
<1>2. CASE Stop
  <2>1. loaded' \in BOOLEAN
    BY <1>2, Zenon DEF Stop
  <2>2. pc = "stop" /\ pc' = "remove" /\ UNCHANGED <<platform, unit, linger, claimed>>
    BY <1>2 DEF Stop
  <2>3. /\ enabled' \in BOOLEAN
        /\ UNCHANGED <<loaded, active, enabled>> \/ (active' = "off" /\ ~enabled')
    BY <1>2, Zenon DEF Stop
  <2> QED
    BY <2>1, <2>2, <2>3
<1>3. CASE RemoveUnit
    BY <1>3 DEF RemoveUnit
<1>4. CASE VerifyLaunchd
    BY <1>4 DEF VerifyLaunchd
<1>5. CASE VerifySystemd
    BY <1>5 DEF VerifySystemd
<1>6. CASE Status
  <2>1. Persistent \in BOOLEAN
    BY DEF Persistent, Installed
  <2> QED
    BY <1>6, <2>1 DEF Status
<1> QED
    BY <1>1, <1>2, <1>3, <1>4, <1>5, <1>6

(* So do the managers, and a user who leaves the unit alone.               *)
LEMMA WorldStep ==
    ASSUME ServiceInv, "delete" \notin Meddling,
           Die \/ Restart \/ Reboot \/ Boot \/ Meddle
    PROVE  ServiceInv'
<1> USE DEF ServiceInv, BooleansInv, CommandInv, LaunchdInv, ClaimIsBacked, manager,
            command, World, Installing, Uninstalling, Trouble
<1>1. CASE Die
    BY <1>1 DEF Die
<1>2. CASE Restart
    BY <1>2 DEF Restart
<1>3. CASE Reboot
    BY <1>3 DEF Reboot
<1>4. CASE Boot
    BY <1>4 DEF Boot
<1>5. CASE Meddle
  <2>1. linger' \in BOOLEAN
    BY <1>5, Zenon DEF Meddle
  <2>2. UNCHANGED <<platform, unit, loaded, active, enabled, pc>>
    BY <1>5 DEF Meddle
  <2>3. claimed' \in BOOLEAN /\ (UNCHANGED <<linger, claimed>> \/ ~claimed')
    BY <1>5, Zenon DEF Meddle
  <2> QED
    BY <2>1, <2>2, <2>3
<1> QED
    BY <1>1, <1>2, <1>3, <1>4, <1>5

(* Every step keeps the invariant.                                        *)
LEMMA NextInv ==
    ASSUME ServiceInv, "delete" \notin Meddling, [Next]_vars
    PROVE  ServiceInv'
<1>1. CASE UNCHANGED vars
    BY <1>1 DEF vars, manager, command, ServiceInv, BooleansInv, CommandInv, LaunchdInv,
                ClaimIsBacked
<1>2. CASE Next
    BY <1>2, InstallStep, UninstallStep, WorldStep DEF Next, Commands
<1> QED
    BY <1>1, <1>2

(* Every variable keeps its type, whatever the managers and the user do.   *)
LEMMA TypeStep == TypeOK /\ [Next]_vars => TypeOK'
<1> SUFFICES ASSUME TypeOK, [Next]_vars PROVE TypeOK'
    OBVIOUS
<1> USE DEF TypeOK, manager, command, World, Say, Trouble
<1>1. CASE UNCHANGED vars
    BY <1>1 DEF vars
<1>2. ASSUME NEW allow \in BOOLEAN, Install(allow) PROVE TypeOK'
  <2>1. tries' = tries \/ tries' = Retries
    BY <1>2, Zenon DEF Install
  <2>2. pc' \in {"idle", "write"}
    BY <1>2 DEF Install
  <2>3. UNCHANGED <<platform, unit, loaded, active, enabled, linger, starved, claimed, troubles>>
    BY <1>2 DEF Install
  <2> QED
    BY <2>1, <2>2, <2>3
<1>3. CASE WriteUnit
    BY <1>3 DEF WriteUnit
<1>4. CASE Load
    BY <1>4 DEF Load
<1>5. CASE Kickstart
    BY <1>5 DEF Kickstart
<1>6. CASE Enable
    BY <1>6 DEF Enable
<1>7. CASE Await
  <2>1. claimed' \in BOOLEAN
    BY <1>7, Zenon DEF Await, Persistent
  <2>2. tries' = tries \/ (tries > 0 /\ tries' = tries - 1)
    BY <1>7, Zenon DEF Await
  <2>3. pc' \in {"idle", "await"} /\ UNCHANGED <<unit, manager, World>>
    BY <1>7 DEF Await
  <2> QED
    BY <2>1, <2>2, <2>3
<1>8. CASE Uninstall
    BY <1>8 DEF Uninstall
<1>9. CASE Stop
    BY <1>9 DEF Stop
<1>10. CASE RemoveUnit
    BY <1>10 DEF RemoveUnit
<1>11. CASE VerifyLaunchd
    BY <1>11 DEF VerifyLaunchd
<1>12. CASE VerifySystemd
    BY <1>12 DEF VerifySystemd
<1>13. CASE Status
    BY <1>13 DEF Status
<1>14. CASE Die
    BY <1>14 DEF Die
<1>15. CASE Restart
    BY <1>15 DEF Restart
<1>16. CASE Reboot
  <2>1. troubles' \in 0 .. MaxTroubles
    BY <1>16 DEF Reboot
  <2>2. /\ active' = "down" /\ pc' = "idle" /\ loaded' \in BOOLEAN
        /\ UNCHANGED <<platform, unit, enabled, linger, starved, tries, claimed>>
    BY <1>16 DEF Reboot
  <2> QED
    BY <2>1, <2>2
<1>17. CASE Boot
    BY <1>17 DEF Boot
<1>18. CASE Meddle
  <2>1. /\ unit' \in BOOLEAN /\ linger' \in BOOLEAN
        /\ starved' \in BOOLEAN /\ claimed' \in BOOLEAN
    BY <1>18, Zenon DEF Meddle
  <2> QED
    BY <1>18, <2>1 DEF Meddle
<1> QED
    BY <1>1, <1>2, <1>3, <1>4, <1>5, <1>6, <1>7, <1>8, <1>9, <1>10, <1>11, <1>12,
       <1>13, <1>14, <1>15, <1>16, <1>17, <1>18 DEF Next, Commands

(* Every variable of the service commands keeps its type.                  *)
THEOREM TypesKept == Spec => []TypeOK
<1>1. Init => TypeOK
  <2> SUFFICES ASSUME Init PROVE TypeOK
    OBVIOUS
  <2>1. tries \in 0 .. Retries /\ troubles \in 0 .. MaxTroubles
    BY DEF Init
  <2>2. /\ platform \in Platforms /\ active = "off" /\ pc = "idle"
        /\ unit = FALSE /\ loaded = FALSE /\ enabled = FALSE /\ claimed = FALSE
        /\ linger \in BOOLEAN /\ starved \in BOOLEAN
    BY DEF Init
  <2> QED
    BY <2>1, <2>2 DEF TypeOK
<1> QED
    BY <1>1, TypeStep, PTL DEF Spec

(* The invariant of the service commands.                                  *)
THEOREM CommandsRely ==
    ASSUME "delete" \notin Meddling
    PROVE  Spec => []ServiceInv
    BY InitInv, NextInv, PTL DEF Spec

(* An install that claimed persistence (the report of service.go) has left *)
(* what the manager needs to start the watcher again, through whatever     *)
(* crashes, restarts of the machine and later installs follow.             *)
THEOREM ClaimsAreBacked ==
    ASSUME "delete" \notin Meddling
    PROVE  Spec => []ClaimIsBacked
<1>1. ServiceInv => ClaimIsBacked
    BY DEF ServiceInv
<1> QED
    BY <1>1, CommandsRely, PTL

(* What is printed is read back from the report.                           *)
LEMMA Said ==
    ASSUME NEW verb, NEW says, NEW ok, NEW persistent, Say(verb, says, ok, persistent)
    PROVE  report'.verb = verb /\ report'.ok = ok /\ pc' = "idle"
    BY DEF Say

(* Commands that begin, and what happens around them, print no last word.  *)
LEMMA NoLastWord ==
    ASSUME NEW verb, Prints(verb), Next
    PROVE  Commands
<1>1. ~(\E allow \in BOOLEAN : Install(allow)) /\ ~Uninstall /\ ~Status
    BY DEF Prints, Install, Uninstall, Status
<1>2. ~Die /\ ~Restart /\ ~Reboot /\ ~Boot /\ ~Meddle
    BY DEF Prints, Die, Restart, Reboot, Boot, Meddle, command
<1> QED
    BY <1>1, <1>2 DEF Next

(* Nor do the commands in the middle.                                      *)
LEMMA NoWordHalfway ==
    ASSUME NEW verb, Prints(verb)
    PROVE  ~Load /\ ~Kickstart /\ ~Stop
    BY DEF Prints, Load, Kickstart, Stop

(* An install that reports success leaves its unit and a watcher that      *)
(* runs, on both managers, whatever their commands did.                    *)
THEOREM InstallsAreTrue ==
    ASSUME "delete" \notin Meddling
    PROVE  Spec => InstallIsTrue
<1>1. ServiceInv /\ [Next]_vars
        => [Prints("install") /\ report'.ok => unit' /\ active' = "running"]_vars
  <2> SUFFICES ASSUME ServiceInv, Next, Prints("install"), report'.ok
               PROVE  unit' /\ active' = "running"
    OBVIOUS
  <2>1. CASE Await
    <3>1. State = "running"
      <4>1. CASE UNCHANGED pc
        BY <4>1 DEF Prints
      <4>2. CASE Say("install", "not running", FALSE, FALSE)
        BY <4>2, Said, Zenon
      <4> QED
        BY <2>1, <4>1, <4>2, Zenon DEF Await
    <3>2. pc = "await" /\ UNCHANGED <<unit, active>>
      BY <2>1 DEF Await, manager
    <3> QED
      BY <3>1, <3>2, StatesDiffer DEF ServiceInv, CommandInv, Installing
  <2>2. ~WriteUnit
    <3>1. CASE Say("install", "could not write", FALSE, FALSE)
      BY <3>1, Said, Zenon
    <3>2. CASE pc' = "load"
      BY <3>2 DEF Prints
    <3> QED
      BY <3>1, <3>2, Zenon DEF WriteUnit
  <2>3. ~Enable
    <3>1. CASE Say("install", "could not enable", FALSE, FALSE)
      BY <3>1, Said, Zenon
    <3>2. CASE pc' = "await"
      BY <3>2 DEF Prints
    <3> QED
      BY <3>1, <3>2, Zenon DEF Enable
  <2>4. ~RemoveUnit
    <3>1. CASE Say("uninstall", "could not remove", FALSE, FALSE)
      BY <3>1, Said, Zenon
    <3>2. CASE pc' = "verify"
      BY <3>2 DEF Prints
    <3> QED
      BY <3>1, <3>2, Zenon DEF RemoveUnit
  <2>5. ~VerifyLaunchd /\ ~VerifySystemd
    <3>1. ASSUME NEW says, NEW ok PROVE ~Say("uninstall", says, ok, FALSE)
      BY Said, "install" # "uninstall" DEF Prints
    <3> QED
      BY <3>1, Zenon DEF VerifyLaunchd, VerifySystemd
  <2> QED
    BY <2>1, <2>2, <2>3, <2>4, <2>5, NoLastWord, NoWordHalfway, Zenon DEF Commands
<1> QED
    BY <1>1, CommandsRely, PTL DEF Spec, InstallIsTrue

(* On launchd, which is asked again after bootout, an uninstall that       *)
(* reports success leaves nothing that runs or would be started again.     *)
THEOREM UninstallsAreTrue ==
    ASSUME "delete" \notin Meddling
    PROVE  Spec => UninstallIsTrue
<1>1. ServiceInv /\ [Next]_vars
        => [platform = "launchd" /\ Prints("uninstall") /\ report'.ok
              => ~unit' /\ ~loaded' /\ ~enabled' /\ active' # "running"]_vars
  <2> SUFFICES ASSUME ServiceInv, Next, platform = "launchd", Prints("uninstall"), report'.ok
               PROVE  ~unit' /\ ~loaded' /\ ~enabled' /\ active' # "running"
    OBVIOUS
  <2>1. CASE VerifyLaunchd
    <3>1. ~Installed
      BY <2>1, Said, Zenon DEF VerifyLaunchd
    <3>2. UNCHANGED <<unit, loaded, active, enabled>>
      BY <2>1 DEF VerifyLaunchd, manager
    <3> QED
      BY <3>1, <3>2 DEF ServiceInv, LaunchdInv, Installed
  <2>2. ~RemoveUnit
    <3>1. CASE Say("uninstall", "could not remove", FALSE, FALSE)
      BY <3>1, Said, Zenon
    <3>2. CASE pc' = "verify"
      BY <3>2 DEF Prints
    <3> QED
      BY <3>1, <3>2, Zenon DEF RemoveUnit
  <2>3. ~WriteUnit /\ ~Enable /\ ~Await
    <3>1. ASSUME NEW says, NEW ok, NEW persistent
          PROVE  ~Say("install", says, ok, persistent)
      BY Said, "install" # "uninstall" DEF Prints
    <3>2. pc' \notin {"load", "await"}
      BY DEF Prints
    <3>3. ~WriteUnit
      BY <3>1, <3>2 DEF WriteUnit
    <3>4. ~Enable
      BY DEF Enable
    <3>5. ~Await
      BY <3>1 DEF Await, Prints
    <3> QED
      BY <3>3, <3>4, <3>5
  <2>4. ~VerifySystemd
    BY DEF VerifySystemd
  <2> QED
    BY <2>1, <2>2, <2>3, <2>4, NoLastWord, NoWordHalfway, Zenon DEF Commands
<1> QED
    BY <1>1, CommandsRely, PTL DEF Spec, UninstallIsTrue
-----------------------------------------------------------------------------
(* The flags of gc and watch.                                              *)

Words == Line!Word

(* A word is a word, and what fits in one is not wrapped. *)
LEMMA WrapIsWord == ASSUME NEW n \in Int PROVE Line!Wrap(n) \in Words
<1>1. (n + Half) % (2 * Half) \in 0 .. 2 * Half - 1
    BY LineAssumption DEF Line!WordAssumption
<1> QED
    BY <1>1, LineAssumption DEF Line!Wrap, Words, Line!Word, Line!WordAssumption

LEMMA WrapFits == ASSUME NEW n \in Words PROVE Line!Wrap(n) = n
<1>1. n \in Int /\ n + Half \in 0 .. 2 * Half - 1
    BY LineAssumption DEF Words, Line!Word, Line!WordAssumption
<1>2. (n + Half) % (2 * Half) = n + Half
    BY <1>1, LineAssumption DEF Line!WordAssumption
<1> QED
    BY <1>1, <1>2, LineAssumption DEF Line!Wrap, Line!WordAssumption

(* A number whose quotient allows it stays a word when it is multiplied.   *)
LEMMA ProductFits ==
    ASSUME NEW a \in Nat, NEW m \in Nat, m > 0, NEW n \in Nat, n <= a \div m
    PROVE  n * m \in 0 .. a
<1> DEFINE q == a \div m
<1>1. q \in Nat /\ m * q <= a
    OBVIOUS
<1>2. n * m <= q * m /\ n * m \in Nat
  <2>1. PICK d \in Nat : q = n + d
      BY <1>1
  <2>2. q * m = n * m + d * m /\ d * m \in Nat /\ n * m \in Nat
      BY <2>1
  <2> QED BY <2>2
<1>3. q * m = m * q
    BY <1>1
<1> QED BY <1>1, <1>2, <1>3

(* What the parsers return. *)
LEMMA AgeIsWord == ASSUME NEW v \in Line!Argument PROVE Line!ParseMaxAge(v) \subseteq Words
<1>1. v.n * Day \in Int /\ 0 \in Words
    BY LineAssumption DEF Line!WordAssumption, Line!Argument, Words, Line!Word
<1> QED
    BY <1>1, WrapIsWord DEF Line!ParseMaxAge, Words

SizeOf(v) == v.n * v.mult

LEMMA BytesAreExact ==
    ASSUME NEW v \in Line!Argument, v.kind = "size" => v.mult > 0, NEW n \in Line!ParseMaxBytes(v)
    PROVE  n = SizeOf(v) /\ n \in 0 .. Half - 1
<1>1. /\ v.mult \in Nat /\ v.mult > 0 /\ v.n \in Nat /\ Half - 1 \in Nat
      /\ v.n <= (Half - 1) \div v.mult /\ n = v.n * v.mult
    BY LineAssumption DEF Line!WordAssumption, Line!Argument, Line!ParseMaxBytes
<1> QED
    BY <1>1, ProductFits DEF SizeOf

LEMMA FileSizeIsExact ==
    ASSUME NEW v \in Line!Argument, v.kind = "size" => v.mult > 0, NEW n \in Line!ParseFileSize(v)
    PROVE  n \in -1 .. Half - 1 /\ (n = -1 <=> Line!NoLimit(v))
    BY BytesAreExact, LineAssumption DEF Line!ParseFileSize, Line!WordAssumption

(* The arguments of a kind that the loop has passed, and the last of them. *)
Passed(flag) == {k \in DOMAIN call.args : k < i /\ call.args[k].kind = flag}
IsLatest(k, flag) == k \in Passed(flag) /\ \A j \in Passed(flag) : j <= k

(* A number is that of the latest flag of its kind, of which the loop has  *)
(* passed the value too.                                                   *)
AgeRead ==
    IF Passed("--max-age") = {} THEN age = DefaultAge
    ELSE \E k \in DOMAIN call.args :
             IsLatest(k, "--max-age") /\ k + 1 < i /\ age \in Line!ParseMaxAge(call.args[k + 1])
BytesRead ==
    IF Passed("--max-bytes") = {} THEN bytes = -1
    ELSE \E k \in DOMAIN call.args :
             IsLatest(k, "--max-bytes") /\ k + 1 < i /\ bytes \in Line!ParseMaxBytes(call.args[k + 1])
SizeRead ==
    IF Passed("--max-file-size") = {} THEN maxFile = -2
    ELSE \E k \in DOMAIN call.args :
             IsLatest(k, "--max-file-size") /\ k + 1 < i /\ maxFile \in Line!ParseFileSize(call.args[k + 1])

(* Where the loop is, and that nothing is done before it has ended.        *)
LoopInv ==
    /\ call \in Calls /\ i \in 1 .. Len(call.args) + 1
    /\ stage \in {"parse", "parsed", "aged", "done", "refused"}
    /\ stage \in {"parsed", "aged", "done"} => i = Len(call.args) + 1
    /\ stage \in {"parse", "parsed", "refused"} => kept = Ages
    /\ stage \in {"parse", "parsed", "aged", "refused"} => limit = 0
    /\ stage = "aged" => \A a \in Ages : a <= age => a \in kept

LineInv ==
    /\ LoopInv /\ Line!TypeOK
    /\ AgeRead /\ BytesRead /\ SizeRead
    /\ Line!Newest \in kept

(* What an argument is. *)
LEMMA Arguments ==
    ASSUME LineInv
    PROVE  /\ call.args \in Seq(Line!Argument)
           /\ Len(call.args) \in Nat /\ DOMAIN call.args = 1 .. Len(call.args)
           /\ \A k \in DOMAIN call.args :
                  /\ call.args[k] \in Line!Argument
                  /\ call.args[k].kind = "size" => call.args[k].mult > 0
    BY LineAssumption DEF LineInv, LoopInv, Line!WordAssumption

(* One argument on, or two of which the second is no flag.                 *)
LEMMA OneOn ==
    ASSUME LineInv, i <= Len(call.args), i' = i + 1, call' = call,
           NEW flag, call.args[i].kind # flag
    PROVE  Passed(flag)' = Passed(flag)
    BY Arguments DEF Passed, LineInv, LoopInv

LEMMA TwoOn ==
    ASSUME LineInv, i + 1 <= Len(call.args), i' = i + 2, call' = call,
           NEW flag, NEW k, k = i, call.args[k + 1].kind # flag
    PROVE  /\ call.args[k].kind # flag => Passed(flag)' = Passed(flag)
           /\ call.args[k].kind = flag =>
                  Passed(flag)' # {} /\ k \in DOMAIN call.args /\ IsLatest(k, flag)'
<1>1. k \in Nat /\ k \in DOMAIN call.args /\ k + 1 \in DOMAIN call.args
    BY Arguments DEF LineInv, LoopInv
<1>2. Passed(flag)' = Passed(flag) \cup (IF call.args[k].kind = flag THEN {k} ELSE {})
    BY <1>1, Arguments DEF Passed
<1>3. \A j \in Passed(flag) : j < k
    BY DEF Passed
<1>4. ASSUME call.args[k].kind = flag PROVE IsLatest(k, flag)'
  <2>1. k \in Passed(flag)' /\ \A j \in Passed(flag)' : j <= k
      BY <1>1, <1>2, <1>3, <1>4, Arguments DEF Passed
  <2> QED BY <2>1 DEF IsLatest
<1> QED BY <1>1, <1>2, <1>4

(* A flag that was not passed leaves what was read. *)
LEMMA ReadKept ==
    ASSUME LineInv, call' = call, i' \in Nat, i' >= i
    PROVE  /\ Passed("--max-age")' = Passed("--max-age") /\ age' = age => AgeRead'
           /\ Passed("--max-bytes")' = Passed("--max-bytes") /\ bytes' = bytes => BytesRead'
           /\ Passed("--max-file-size")' = Passed("--max-file-size") /\ maxFile' = maxFile => SizeRead'
<1>1. i \in Nat /\ \A k \in DOMAIN call.args : k \in Nat
    BY Arguments DEF LineInv, LoopInv
<1>2. \A k \in DOMAIN call.args : k + 1 < i => k + 1 < i'
    BY <1>1
<1>3. ASSUME Passed("--max-age")' = Passed("--max-age"), age' = age PROVE AgeRead'
    BY <1>2, <1>3 DEF AgeRead, IsLatest, LineInv, Line!ParseMaxAge, Line!Word, Line!Wrap
<1>4. ASSUME Passed("--max-bytes")' = Passed("--max-bytes"), bytes' = bytes PROVE BytesRead'
    BY <1>2, <1>4 DEF BytesRead, IsLatest, LineInv, Line!ParseMaxBytes
<1>5. ASSUME Passed("--max-file-size")' = Passed("--max-file-size"), maxFile' = maxFile PROVE SizeRead'
    BY <1>2, <1>5 DEF SizeRead, IsLatest, LineInv, Line!ParseFileSize, Line!NoLimit, Line!ParseMaxBytes
<1> QED BY <1>3, <1>4, <1>5

LEMMA LineInit == Line!Init => LineInv
<1> SUFFICES ASSUME Line!Init PROVE LineInv
    OBVIOUS
<1>1. call.args \in Seq(Line!Argument)
    BY LineAssumption DEF Line!Init, Line!WordAssumption
<1>2. LoopInv
    BY <1>1 DEF Line!Init, LoopInv
<1>3. Line!TypeOK
  <2>1. /\ age = DefaultAge /\ bytes = -1 /\ maxFile = -2 /\ limit = 0
        /\ root = Cwd /\ partial = FALSE /\ kept = Ages
      BY DEF Line!Init
  <2>2. {DefaultAge, -1, -2, 0} \subseteq Line!Word
      BY LineAssumption DEF Line!WordAssumption, Line!Word
  <2> QED BY <2>1, <2>2 DEF Line!TypeOK
<1>4. \A flag : Passed(flag) = {}
    BY <1>1 DEF Line!Init, Passed
<1>5. Line!Newest \in kept
    BY LineAssumption DEF Line!Init, Line!Newest, Line!Min, Line!WordAssumption
<1> QED
    BY <1>2, <1>3, <1>4, <1>5 DEF LineInv, AgeRead, BytesRead, SizeRead, Line!Init

LoopVars == <<age, bytes, root, partial, maxFile>>

(* The loop of gc: each of its flags takes the argument after it.          *)
LEMMA GCStep ==
    ASSUME LineInv, Line!GCAge \/ Line!GCBytes
    PROVE  LineInv'
<1>1. /\ i + 1 <= Len(call.args) /\ i' = i + 2 /\ stage = "parse"
      /\ UNCHANGED <<call, root, partial, maxFile, stage, kept, limit>>
    BY DEF Line!GCAge, Line!GCBytes, Line!Take, Line!HasValue, Line!Looking
<1>2. PICK k : k = i
    OBVIOUS
<1>3. /\ k \in Nat /\ k \in DOMAIN call.args /\ k + 1 \in DOMAIN call.args
      /\ call.args[k + 1] \in Line!Argument
      /\ call.args[k + 1].kind = "size" => call.args[k + 1].mult > 0
    BY <1>1, <1>2, Arguments DEF LineInv, LoopInv
<1>4. LoopInv'
    BY <1>1, Arguments DEF LineInv, LoopInv
<1>5. Line!Newest' \in kept'
    BY <1>1 DEF LineInv, Line!Newest
<1>6. CASE Line!GCAge
  <2>1. /\ call.args[k].kind = "--max-age" /\ age' \in Line!ParseMaxAge(call.args[k + 1])
        /\ bytes' = bytes
      BY <1>2, <1>6 DEF Line!GCAge, Line!Take, Line!At, Line!Value
  <2>2. call.args[k + 1].kind \notin Line!Flag
      BY <2>1 DEF Line!ParseMaxAge, Line!Flag
  <2>3. AgeRead'
    <3>1. Passed("--max-age")' # {} /\ IsLatest(k, "--max-age")'
        BY <1>1, <1>2, <2>1, <2>2, TwoOn DEF Line!Flag
    <3>2. k \in DOMAIN call'.args /\ k + 1 < i' /\ (age \in Line!ParseMaxAge(call.args[k + 1]))'
        BY <1>1, <1>2, <1>3, <2>1 DEF Line!ParseMaxAge, Line!Word, Line!Wrap
    <3> QED BY <3>1, <3>2 DEF AgeRead
  <2>4. BytesRead' /\ SizeRead'
      BY <1>1, <1>2, <1>3, <2>1, <2>2, TwoOn, ReadKept DEF Line!Flag
  <2>5. Line!TypeOK'
      BY <1>1, <1>3, <2>1, AgeIsWord DEF LineInv, Line!TypeOK, Words, Line!Word
  <2> QED BY <1>4, <1>5, <2>3, <2>4, <2>5 DEF LineInv
<1>7. CASE Line!GCBytes
  <2>1. /\ call.args[k].kind = "--max-bytes" /\ bytes' \in Line!ParseMaxBytes(call.args[k + 1])
        /\ age' = age
      BY <1>2, <1>7 DEF Line!GCBytes, Line!Take, Line!At, Line!Value
  <2>2. call.args[k + 1].kind \notin Line!Flag
      BY <2>1 DEF Line!ParseMaxBytes, Line!Flag
  <2>3. BytesRead'
    <3>1. Passed("--max-bytes")' # {} /\ IsLatest(k, "--max-bytes")'
        BY <1>1, <1>2, <2>1, <2>2, TwoOn DEF Line!Flag
    <3>2. k \in DOMAIN call'.args /\ k + 1 < i' /\ (bytes \in Line!ParseMaxBytes(call.args[k + 1]))'
        BY <1>1, <1>2, <1>3, <2>1 DEF Line!ParseMaxBytes
    <3> QED BY <3>1, <3>2 DEF BytesRead
  <2>4. AgeRead' /\ SizeRead'
      BY <1>1, <1>2, <1>3, <2>1, <2>2, TwoOn, ReadKept DEF Line!Flag
  <2>5. Line!TypeOK'
    <3>1. bytes' \in Line!Word
        BY <1>3, <2>1, BytesAreExact, LineAssumption DEF Line!Word, Line!WordAssumption
    <3> QED BY <1>1, <2>1, <3>1 DEF LineInv, Line!TypeOK, Line!Word
  <2> QED BY <1>4, <1>5, <2>3, <2>4, <2>5 DEF LineInv
<1> QED BY <1>6, <1>7

(* The loop of watch.                                                      *)
LEMMA WatchStep ==
    ASSUME LineInv, Line!WatchPartial \/ Line!WatchSize \/ Line!WatchRoot
    PROVE  LineInv'
<1>1. /\ i <= Len(call.args) /\ i' \in {i + 1, i + 2} /\ i' <= Len(call.args) + 1 /\ stage = "parse"
      /\ UNCHANGED <<call, age, bytes, stage, kept, limit>>
    BY Arguments DEF Line!WatchPartial, Line!WatchSize, Line!WatchRoot, Line!Take, Line!HasValue,
                     Line!Looking, LineInv, LoopInv
<1>2. PICK k : k = i
    OBVIOUS
<1>3. k \in Nat /\ k \in DOMAIN call.args /\ i' \in Nat /\ i' >= i
    BY <1>1, <1>2, Arguments DEF LineInv, LoopInv
<1>4. LoopInv'
    BY <1>1, Arguments DEF LineInv, LoopInv
<1>5. Line!Newest' \in kept'
    BY <1>1 DEF LineInv, Line!Newest
<1>6. CASE Line!WatchPartial
  <2>1. /\ call.args[k].kind = "--allow-partial" /\ i' = i + 1
        /\ UNCHANGED <<root, maxFile>> /\ partial' = TRUE
      BY <1>2, <1>6 DEF Line!WatchPartial, Line!At
  <2>2. AgeRead' /\ BytesRead' /\ SizeRead'
      BY <1>1, <1>2, <1>3, <2>1, OneOn, ReadKept
  <2>3. Line!TypeOK'
      BY <1>1, <2>1 DEF LineInv, Line!TypeOK, Line!Word
  <2> QED BY <1>4, <1>5, <2>2, <2>3 DEF LineInv
<1>7. CASE Line!WatchSize
  <2>1. /\ call.args[k].kind = "--max-file-size" /\ i' = i + 2 /\ i + 1 <= Len(call.args)
        /\ maxFile' \in Line!ParseFileSize(call.args[k + 1]) /\ UNCHANGED <<root, partial>>
      BY <1>2, <1>7 DEF Line!WatchSize, Line!Take, Line!At, Line!HasValue, Line!Value
  <2>2. call.args[k + 1].kind \notin Line!Flag
      BY <2>1 DEF Line!ParseFileSize, Line!NoLimit, Line!ParseMaxBytes, Line!Flag
  <2>3. k + 1 \in DOMAIN call.args
      BY <1>2, <1>3, <2>1, Arguments
  <2>4. SizeRead'
    <3>1. Passed("--max-file-size")' # {} /\ IsLatest(k, "--max-file-size")'
        BY <1>1, <1>2, <2>1, <2>2, TwoOn DEF Line!Flag
    <3>2. k \in DOMAIN call'.args /\ k + 1 < i' /\ (maxFile \in Line!ParseFileSize(call.args[k + 1]))'
        BY <1>1, <1>2, <1>3, <2>1 DEF Line!ParseFileSize, Line!NoLimit, Line!ParseMaxBytes
    <3> QED BY <3>1, <3>2 DEF SizeRead
  <2>5. AgeRead' /\ BytesRead'
      BY <1>1, <1>2, <1>3, <2>1, <2>2, TwoOn, ReadKept DEF Line!Flag
  <2>6. Line!TypeOK'
    <3>1. maxFile' \in Line!Word
        BY <2>1, <2>3, Arguments, FileSizeIsExact, LineAssumption DEF Line!Word, Line!WordAssumption
    <3> QED BY <1>1, <2>1, <3>1 DEF LineInv, Line!TypeOK, Line!Word
  <2> QED BY <1>4, <1>5, <2>4, <2>5, <2>6 DEF LineInv
<1>8. CASE Line!WatchRoot
  <2>1. /\ call.args[k].kind = "--root" /\ i' = i + 2 /\ i + 1 <= Len(call.args)
        /\ call.args[k + 1].kind \notin Line!Flag /\ root' = call.args[k + 1]
        /\ UNCHANGED <<maxFile, partial>>
      BY <1>2, <1>8 DEF Line!WatchRoot, Line!Take, Line!At, Line!HasValue, Line!Value
  <2>2. AgeRead' /\ BytesRead' /\ SizeRead'
      BY <1>1, <1>2, <1>3, <2>1, TwoOn, ReadKept DEF Line!Flag
  <2>3. Line!TypeOK'
      BY <1>1, <2>1 DEF LineInv, Line!TypeOK, Line!Word
  <2> QED BY <1>4, <1>5, <2>2, <2>3 DEF LineInv
<1> QED BY <1>6, <1>7, <1>8

(* A refusal, the end of the loop, and what is then asked of the store.    *)
LEMMA CarryOutStep ==
    ASSUME LineInv,
           \/ Line!GCRefuse \/ Line!WatchRefuse \/ Line!Parsed
           \/ Line!RunAge \/ Line!RunBytes \/ Line!RunWatch
    PROVE  LineInv'
<1>1. UNCHANGED <<call, i, age, bytes, root, partial, maxFile>>
    BY DEF Line!GCRefuse, Line!WatchRefuse, Line!Refuse, Line!Parsed, Line!RunAge, Line!RunBytes,
           Line!RunWatch
<1>2. AgeRead' /\ BytesRead' /\ SizeRead'
  <2>1. \A flag : Passed(flag)' = Passed(flag)
      BY <1>1 DEF Passed
  <2>2. i' \in Nat /\ i' >= i
      BY <1>1, Arguments DEF LineInv, LoopInv
  <2> QED BY <1>1, <2>1, <2>2, ReadKept
<1>3. /\ limit' \in Line!Word
      /\ kept' \subseteq kept /\ (Line!Newest \in kept => Line!Newest \in kept')
  <2>1. CASE Line!RunWatch
    <3>1. maxFile \in Line!Word /\ DefaultCap \in Line!Word /\ Line!Unlimited \in Line!Word
        BY LineAssumption DEF LineInv, Line!TypeOK, Line!WordAssumption, Line!Word, Line!Unlimited
    <3>2. limit' \in {DefaultCap, Line!Unlimited, maxFile} /\ kept' = kept
        BY <2>1 DEF Line!RunWatch
    <3> QED BY <3>1, <3>2
  <2>2. CASE Line!RunAge \/ Line!RunBytes
      BY <2>2 DEF Line!RunAge, Line!RunBytes, LineInv, Line!TypeOK
  <2>3. CASE Line!GCRefuse \/ Line!WatchRefuse \/ Line!Parsed
      BY <2>3 DEF Line!GCRefuse, Line!WatchRefuse, Line!Refuse, Line!Parsed, LineInv, Line!TypeOK
  <2> QED BY <2>1, <2>2, <2>3
<1>4. Line!TypeOK'
    BY <1>1, <1>3 DEF LineInv, Line!TypeOK, Line!Word
<1>5. Line!Newest' \in kept'
    BY <1>3 DEF LineInv, Line!Newest
<1>6. LoopInv'
  <2>1. CASE Line!RunAge
      BY <2>1, <1>1 DEF Line!RunAge, LineInv, LoopInv
  <2>2. CASE Line!RunBytes \/ Line!RunWatch
      BY <2>2, <1>1 DEF Line!RunBytes, Line!RunWatch, LineInv, LoopInv
  <2>3. CASE Line!Parsed
      BY <2>3, <1>1, Arguments DEF Line!Parsed, LineInv, LoopInv
  <2>4. CASE Line!GCRefuse \/ Line!WatchRefuse
      BY <2>4, <1>1 DEF Line!GCRefuse, Line!WatchRefuse, Line!Refuse, Line!Looking, LineInv, LoopInv
  <2> QED BY <2>1, <2>2, <2>3, <2>4
<1> QED BY <1>2, <1>4, <1>5, <1>6 DEF LineInv

(* When the loop has ended, the latest flag is the last one typed.         *)
LEMMA LastIsLatest ==
    ASSUME LineInv, Line!Accepted, NEW flag
    PROVE  /\ Passed(flag) = {} => Line!LastOf(flag) = 0
           /\ \A k \in DOMAIN call.args : IsLatest(k, flag) => Line!LastOf(flag) = k /\ k # 0
<1> DEFINE I == {k \in 1 .. Len(call.args) : call.args[k].kind = flag}
<1>1. i = Len(call.args) + 1
    BY DEF LineInv, LoopInv, Line!Accepted
<1>2. I = Passed(flag)
    BY <1>1, Arguments DEF Passed
<1>3. Line!LastOf(flag) = IF I # {} THEN Line!Max(I) ELSE 0
    BY DEF Line!LastOf, Line!SelectLastInSeq
<1>4. ASSUME NEW k \in DOMAIN call.args, IsLatest(k, flag) PROVE Line!LastOf(flag) = k /\ k # 0
  <2>1. k \in I /\ \A j \in I : j <= k
      BY <1>2, <1>4 DEF IsLatest
  <2>2. I \subseteq Int
      OBVIOUS
  <2>3. Line!Max(I) = k
      BY <2>1, <2>2 DEF Line!Max
  <2> QED BY <1>3, <2>1, <2>3
<1> QED BY <1>2, <1>3, <1>4

LEMMA SizesFollow == LineInv => Line!SizesAreExact
<1> SUFFICES ASSUME LineInv, Line!Accepted PROVE Line!SizesAreExact
    BY DEF Line!SizesAreExact
<1>1. ASSUME Passed("--max-bytes") # {}
      PROVE  /\ Line!LastOf("--max-bytes") # 0
             /\ bytes = SizeOf(Line!Given("--max-bytes")) /\ bytes >= 0
  <2>1. PICK k \in DOMAIN call.args :
            IsLatest(k, "--max-bytes") /\ k + 1 < i /\ bytes \in Line!ParseMaxBytes(call.args[k + 1])
      BY <1>1 DEF LineInv, BytesRead
  <2>2. k + 1 \in DOMAIN call.args
      BY <2>1, Arguments DEF LineInv, LoopInv
  <2>3. Line!LastOf("--max-bytes") = k /\ k # 0 /\ Line!Given("--max-bytes") = call.args[k + 1]
      BY <2>1, LastIsLatest DEF Line!Given
  <2>4. bytes = SizeOf(call.args[k + 1]) /\ bytes \in 0 .. Half - 1
      BY <2>1, <2>2, Arguments, BytesAreExact
  <2> QED BY <2>3, <2>4, LineAssumption DEF Line!WordAssumption
<1>2. ASSUME Passed("--max-file-size") # {}
      PROVE  /\ Line!LastOf("--max-file-size") # 0 /\ maxFile >= -1 /\ maxFile \in Int
             /\ maxFile = -1 <=> Line!NoLimit(Line!Given("--max-file-size"))
  <2>1. PICK k \in DOMAIN call.args :
            IsLatest(k, "--max-file-size") /\ k + 1 < i /\ maxFile \in Line!ParseFileSize(call.args[k + 1])
      BY <1>2 DEF LineInv, SizeRead
  <2>2. k + 1 \in DOMAIN call.args
      BY <2>1, Arguments DEF LineInv, LoopInv
  <2>3. Line!LastOf("--max-file-size") = k /\ k # 0 /\ Line!Given("--max-file-size") = call.args[k + 1]
      BY <2>1, LastIsLatest DEF Line!Given
  <2>4. maxFile \in -1 .. Half - 1 /\ (maxFile = -1 <=> Line!NoLimit(call.args[k + 1]))
      BY <2>1, <2>2, Arguments, FileSizeIsExact
  <2> QED BY <2>3, <2>4, LineAssumption DEF Line!WordAssumption
<1>3. Passed("--max-bytes") = {} => bytes = -1 /\ Line!LastOf("--max-bytes") = 0
    BY LastIsLatest DEF LineInv, BytesRead
<1>4. Passed("--max-file-size") = {} => maxFile = -2 /\ Line!LastOf("--max-file-size") = 0
    BY LastIsLatest DEF LineInv, SizeRead
<1> QED BY <1>1, <1>2, <1>3, <1>4 DEF Line!SizesAreExact, SizeOf

LEMMA AgesFollow == ASSUME DaysFit, LineInv PROVE Line!YoungerSurvives
<1> SUFFICES ASSUME stage = "aged"
             PROVE  age = IF Line!LastOf("--max-age") = 0 THEN DefaultAge
                          ELSE LET v == Line!Given("--max-age")
                               IN v.n * (IF v.kind = "days" THEN Day ELSE 1)
    BY DEF Line!YoungerSurvives, LineInv, LoopInv
<1>1. Line!Accepted
    BY DEF Line!Accepted
<1>2. CASE Passed("--max-age") = {}
    BY <1>1, <1>2, LastIsLatest DEF LineInv, AgeRead
<1>3. CASE Passed("--max-age") # {}
  <2>1. PICK k \in DOMAIN call.args :
            IsLatest(k, "--max-age") /\ k + 1 < i /\ age \in Line!ParseMaxAge(call.args[k + 1])
      BY <1>3 DEF LineInv, AgeRead
  <2>2. k + 1 \in DOMAIN call.args
      BY <2>1, Arguments DEF LineInv, LoopInv
  <2>3. Line!LastOf("--max-age") = k /\ k # 0 /\ Line!Given("--max-age") = call.args[k + 1]
      BY <1>1, <2>1, LastIsLatest DEF Line!Given
  <2>4. call.args[k + 1].n \in Int
      BY <2>2, Arguments DEF Line!Argument
  <2>5. CASE call.args[k + 1].kind = "days"
    <3>1. call.args[k + 1].n * Day \in Words /\ age = Line!Wrap(call.args[k + 1].n * Day)
        BY <2>1, <2>2, <2>5 DEF DaysFit, Words, LineInv, LoopInv, Line!ParseMaxAge
    <3> QED BY <2>3, <2>5, <3>1, WrapFits
  <2>6. CASE call.args[k + 1].kind # "days"
    <3>1. age = call.args[k + 1].n
        BY <2>1, <2>6 DEF Line!ParseMaxAge
    <3> QED BY <2>3, <2>4, <2>6, <3>1
  <2> QED BY <2>5, <2>6
<1> QED BY <1>2, <1>3

(* A size is taken exactly as typed or refused, gc keeps every revision    *)
(* that is not older than the age it was given, and a command one of whose *)
(* arguments is refused has changed nothing (main.go:109-197, 469-571):    *)
(* for words of any width and any arguments whose days fit in a word (the  *)
(* code multiplies them out unchecked, main.go:537).                       *)
THEOREM FlagsAreExact == ASSUME DaysFit PROVE Line!Spec => []FlagsInv
<1>1. ASSUME LineInv, [Line!Next]_Line!vars PROVE LineInv'
  <2>1. CASE UNCHANGED Line!vars
    <3>1. UNCHANGED <<call, i, age, bytes, root, partial, maxFile, stage, kept, limit>>
        BY <2>1 DEF Line!vars
    <3>2. AgeRead' /\ BytesRead' /\ SizeRead'
      <4>1. \A flag : Passed(flag)' = Passed(flag)
          BY <3>1 DEF Passed
      <4> QED BY <1>1, <3>1, <4>1, ReadKept, Arguments DEF LineInv, LoopInv
    <3> QED BY <1>1, <3>1, <3>2 DEF LineInv, LoopInv, Line!TypeOK, Line!Newest, Line!Word
  <2> QED BY <1>1, <2>1, GCStep, WatchStep, CarryOutStep DEF Line!Next
<1>2. LineInv => FlagsInv
  <2>1. LineInv => Line!RefusedChangesNothing
      BY DEF LineInv, LoopInv, Line!RefusedChangesNothing
  <2> QED BY <2>1, SizesFollow, AgesFollow DEF LineInv, FlagsInv
<1> QED BY <1>1, <1>2, LineInit, PTL DEF Line!Spec
=============================================================================
