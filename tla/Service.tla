------------------------------- MODULE Service ------------------------------
(***************************************************************************)
(* The watcher as a service of the user: install, uninstall and status     *)
(* (service.go) over launchd (service_launchd.go) or systemd               *)
(* (service_systemd.go).  Every command of the manager is a step; it may   *)
(* fail or do nothing, and between two steps the watcher may crash, the    *)
(* machine restart and the user meddle.  What counts is that a report is   *)
(* true when it is printed.                                                *)
(***************************************************************************)
EXTENDS Naturals

CONSTANTS
    Platforms,      \* the managers there are
    Retries,        \* serviceStartRetries
    Meddling,       \* what the user does behind the command's back
    MaxTroubles     \* bound on crashes, restarts and meddling

ASSUME ServiceAssumption ==
    /\ Platforms \subseteq {"launchd", "systemd"}
    /\ Retries \in Nat /\ MaxTroubles \in Nat
    /\ Meddling \subseteq {"delete", "linger", "limit"}

VARIABLES
    platform,   \* the manager of the platform, "launchd" or "systemd"
    unit,       \* the plist or the unit file is there
    loaded,     \* the manager knows the job
    active,     \* "off", "waiting" (to be started again), "running", "failed", "down" (no manager)
    enabled,    \* systemd: default.target wants the unit
    linger,     \* systemd: the user's services outlive the session
    starved,    \* the kernel refuses a new watch instance
    pc,         \* the next step of the command that runs
    tries,      \* polls of awaitRunning that are left
    report,     \* the last report printed
    claimed,    \* history: an install reported persistence, and nothing took it back
    troubles    \* bounds Trouble

manager == <<loaded, active, enabled>>
command == <<pc, tries>>
vars == <<platform, unit, manager, linger, starved, command, report, claimed, troubles>>

NoReport == [verb |-> "none", says |-> "none", ok |-> TRUE, persistent |-> FALSE]

Init ==
    /\ platform \in Platforms
    /\ unit = FALSE /\ loaded = FALSE /\ active = "off" /\ enabled = FALSE
    /\ linger \in BOOLEAN /\ starved \in BOOLEAN
    /\ pc = "idle" /\ tries = 0
    /\ report = NoReport /\ claimed = FALSE /\ troubles = 0
-----------------------------------------------------------------------------
(* What a manager's status makes of what it is told.                       *)
Installed == loaded \/ unit
LaunchdState == IF ~Installed THEN "not-installed"
                ELSE IF loaded /\ active = "running" THEN "running" ELSE "stopped"
SystemdState ==
    CASE ~Installed -> "not-installed"
      [] Installed /\ active = "running" -> "running"
      [] Installed /\ active = "waiting" -> "flapping"
      [] Installed /\ active = "failed" -> "failed"
      [] OTHER -> "stopped"
State == IF platform = "launchd" THEN LaunchdState ELSE SystemdState
(* A mutant: lingering is not asked for. *)
PersistentInstalled == Installed

Persistent == Installed /\ (platform = "systemd" => linger)

(* The exit code is the conjunction of the pieces, of the running one in   *)
(* an install.                                                             *)
Say(verb, says, ok, persistent) ==
    /\ report' = [verb |-> verb, says |-> says, ok |-> ok, persistent |-> persistent]
    /\ pc' = "idle"
    /\ UNCHANGED tries
World == <<platform, linger, starved, troubles>>
-----------------------------------------------------------------------------
(* Install: the checks, the unit, the manager's two commands, the wait.    *)
(* preflight does not look at --allow-partial, which only adds an argument *)
(* to the unit.                                                            *)
Install(allow) ==
    /\ pc = "idle"
    /\ active # "down"
    /\ \/ /\ State = "running"
          /\ Say("install", "already running", TRUE, FALSE)
       \/ /\ State # "running" /\ starved
          /\ Say(IF allow THEN "install --allow-partial" ELSE "install",
                   "preflight failed", FALSE, FALSE)
       \/ /\ State # "running" /\ ~starved
          /\ pc' = "write" /\ tries' = Retries
          /\ UNCHANGED report
    /\ UNCHANGED <<unit, manager, claimed, World>>

(* A mutant: a failed write is not looked at. *)
WriteUnitAnyway ==
    /\ pc = "write"
    /\ unit' \in {unit, TRUE} /\ pc' = "load"
    /\ UNCHANGED <<manager, tries, report, claimed, World>>

WriteUnit ==
    /\ pc = "write"
    /\ \/ unit' = TRUE /\ pc' = "load" /\ UNCHANGED <<tries, report>>
       \/ UNCHANGED unit /\ Say("install", "could not write", FALSE, FALSE)
    /\ UNCHANGED <<manager, claimed, World>>

(* bootstrap loads and, with RunAtLoad, starts a job that is not loaded;   *)
(* daemon-reload reads the unit.  Neither exit code is looked at.          *)
Load ==
    /\ pc = "load"
    /\ \/ UNCHANGED manager
       \/ /\ loaded' = (loaded \/ unit)
          /\ active' = IF platform = "launchd" /\ unit /\ ~loaded THEN "running" ELSE active
          /\ UNCHANGED enabled
    /\ pc' = "start"
    /\ UNCHANGED <<unit, tries, report, claimed, World>>

(* kickstart -k starts afresh a job that is loaded.                        *)
Kickstart ==
    /\ platform = "launchd" /\ pc = "start"
    /\ \/ UNCHANGED active
       \/ loaded /\ active' \in {"running", "waiting"}
    /\ pc' = "await"
    /\ UNCHANGED <<unit, loaded, enabled, tries, report, claimed, World>>

(* A mutant: the unit is started and not enabled. *)
EnableStart ==
    /\ platform = "systemd" /\ pc = "start"
    /\ unit
    /\ loaded' = TRUE /\ active' = "running" /\ pc' = "await"
    /\ UNCHANGED <<unit, enabled, tries, report, claimed, World>>

(* enable --now reads the unit, links it and starts it.  With another exit *)
(* code than 0 any part of that may be done.                               *)
Enable ==
    /\ platform = "systemd" /\ pc = "start"
    /\ \/ /\ unit
          /\ loaded' = TRUE /\ enabled' = TRUE /\ active' = "running"
          /\ pc' = "await"
          /\ UNCHANGED <<tries, report>>
       \/ /\ loaded' = (loaded \/ unit)
          /\ enabled' \in {enabled, enabled \/ unit}
          /\ active' \in {active, IF unit THEN "failed" ELSE active}
          /\ Say("install", "could not enable", FALSE, FALSE)
    /\ UNCHANGED <<unit, claimed, World>>

(* A mutant: installed is taken for running. *)
AwaitInstalled ==
    /\ pc = "await"
    /\ Installed
    /\ Say("install", "running", TRUE, Persistent)
    /\ claimed' = (claimed \/ Persistent)
    /\ UNCHANGED <<unit, manager, World>>

Await ==
    /\ pc = "await"
    /\ \/ /\ State = "running"
          /\ Say("install", "running", TRUE, Persistent)
          /\ claimed' = (claimed \/ Persistent)
       \/ /\ State # "running" /\ tries > 0
          /\ tries' = tries - 1
          /\ UNCHANGED <<pc, report, claimed>>
       \/ /\ State # "running" /\ tries = 0
          /\ Say("install", "not running", FALSE, FALSE)
          /\ UNCHANGED claimed
    /\ UNCHANGED <<unit, manager, World>>
-----------------------------------------------------------------------------
(* Uninstall: stop, remove the unit, and on launchd look again.            *)
Uninstall ==
    /\ pc = "idle"
    /\ active # "down"
    /\ \/ ~Installed /\ Say("uninstall", "nothing to remove", TRUE, FALSE)
       \/ Installed /\ pc' = "stop" /\ UNCHANGED <<tries, report>>
    /\ claimed' = FALSE
    /\ UNCHANGED <<unit, manager, World>>

(* bootout; disable --now.  Neither exit code is looked at.                *)
Stop ==
    /\ pc = "stop"
    /\ \/ UNCHANGED manager
       \/ active' = "off" /\ enabled' = FALSE /\ loaded' = (loaded /\ platform = "systemd")
    /\ pc' = "remove"
    /\ UNCHANGED <<unit, tries, report, claimed, World>>

RemoveUnit ==
    /\ pc = "remove"
    /\ \/ unit' = FALSE /\ pc' = "verify" /\ UNCHANGED <<tries, report>>
       \/ unit /\ UNCHANGED unit /\ Say("uninstall", "could not remove", FALSE, FALSE)
    /\ UNCHANGED <<manager, claimed, World>>

(* A mutant: bootout is trusted. *)
VerifyNothing ==
    /\ platform = "launchd" /\ pc = "verify"
    /\ Say("uninstall", "removed", TRUE, FALSE)
    /\ UNCHANGED <<unit, manager, claimed, World>>

VerifyLaunchd ==
    /\ platform = "launchd" /\ pc = "verify"
    /\ \/ Installed /\ Say("uninstall", "still loaded", FALSE, FALSE)
       \/ ~Installed /\ Say("uninstall", "removed", TRUE, FALSE)
    /\ UNCHANGED <<unit, manager, claimed, World>>

(* daemon-reload forgets a unit without its file; what runs, runs on.      *)
VerifySystemd ==
    /\ platform = "systemd" /\ pc = "verify"
    /\ loaded' \in {loaded, loaded /\ unit}
    /\ Say("uninstall", "removed", TRUE, FALSE)
    /\ UNCHANGED <<unit, active, enabled, claimed, World>>

Status ==
    /\ pc = "idle"
    /\ active # "down"
    /\ Say("status", State, TRUE, Persistent)
    /\ UNCHANGED <<unit, manager, claimed, World>>
-----------------------------------------------------------------------------
(* The managers and the user.                                              *)
Trouble == troubles < MaxTroubles /\ troubles' = troubles + 1

(* systemd starts again after a failure, and gives up after a burst; a     *)
(* job with KeepAlive is always started again.                             *)
Die ==
    /\ Trouble
    /\ active = "running"
    /\ active' \in {"waiting"} \cup (IF platform = "systemd" THEN {"failed", "off"} ELSE {})
    /\ UNCHANGED <<platform, unit, loaded, enabled, linger, starved, command, report, claimed>>

(* A mutant: no KeepAlive. *)
RestartNever ==
    /\ active = "waiting" /\ platform = "systemd"
    /\ active' = "running"
    /\ UNCHANGED <<unit, loaded, enabled, command, report, claimed, World>>

Restart ==
    /\ active = "waiting"
    /\ active' = "running"
    /\ UNCHANGED <<unit, loaded, enabled, command, report, claimed, World>>

(* The machine goes down, and the command with it.                         *)
Reboot ==
    /\ Trouble
    /\ active' = "down" /\ loaded' = FALSE
    /\ pc' = "idle"
    /\ UNCHANGED <<platform, unit, enabled, linger, starved, tries, report, claimed>>

(* launchd loads every plist at login; systemd starts what is wanted, with *)
(* nobody logged in if the user lingers.                                   *)
Boot ==
    /\ active = "down"
    /\ loaded' = unit
    /\ active' \in IF unit /\ (platform = "systemd" => enabled /\ linger)
                   THEN {"running"} ELSE {"off"}
    /\ UNCHANGED <<unit, enabled, command, report, claimed, World>>

Meddle ==
    /\ Trouble
    /\ \/ /\ "delete" \in Meddling /\ unit /\ unit' = FALSE
          /\ claimed' = FALSE
          /\ UNCHANGED <<linger, starved>>
       \/ /\ "linger" \in Meddling /\ linger' = ~linger
          /\ claimed' = FALSE
          /\ UNCHANGED <<unit, starved>>
       \/ /\ "limit" \in Meddling /\ starved' = ~starved
          /\ UNCHANGED <<unit, linger, claimed>>
    /\ UNCHANGED <<platform, manager, command, report>>

Commands ==
    \/ WriteUnit \/ Load \/ Kickstart \/ Enable \/ Await
    \/ Stop \/ RemoveUnit \/ VerifyLaunchd \/ VerifySystemd
Next ==
    \/ \E allow \in BOOLEAN : Install(allow)
    \/ Uninstall \/ Status \/ Commands
    \/ Die \/ Restart \/ Reboot \/ Boot \/ Meddle

Spec == Init /\ [][Next]_vars
(* A manager gets to what it has to start.                                 *)
FairSpec == Spec /\ WF_vars(Restart) /\ WF_vars(Boot)
-----------------------------------------------------------------------------
TypeOK ==
    /\ platform \in Platforms
    /\ unit \in BOOLEAN /\ loaded \in BOOLEAN /\ enabled \in BOOLEAN
    /\ linger \in BOOLEAN /\ starved \in BOOLEAN /\ claimed \in BOOLEAN
    /\ active \in {"off", "waiting", "running", "failed", "down"}
    /\ pc \in {"idle", "write", "load", "start", "await", "stop", "remove", "verify"}
    /\ tries \in 0..Retries
    /\ troubles \in 0..MaxTroubles

Prints(verb) == pc # "idle" /\ pc' = "idle" /\ report'.verb = verb /\ report' # report

(* An install that ends in success leaves a watcher that runs and a unit;  *)
(* an install that claims persistence has verified it.                     *)
InstallIsTrue ==
    [][Prints("install") /\ report'.ok => unit' /\ active' = "running"]_vars

(* An uninstall that ends in success leaves nothing that runs, that the    *)
(* manager knows or that it would start again, on launchd, which is asked  *)
(* again after bootout (service_launchd.go); systemd is not asked.         *)
UninstallIsTrue ==
    [][platform = "launchd" /\ Prints("uninstall") /\ report'.ok
         => ~unit' /\ ~loaded' /\ ~enabled' /\ active' # "running"]_vars

(* As long as nobody takes back what an install claimed, the manager has   *)
(* what it needs to start the watcher again, whatever crashes, restarts    *)
(* and later installs there are.                                           *)
ClaimIsBacked == claimed => unit /\ (platform = "systemd" => enabled /\ linger)

(* A status that reports persistence is right.                             *)
StatusIsTrue ==
    [][report' # report /\ report'.persistent
         => unit' /\ (platform = "systemd" => enabled' /\ linger')]_vars

(* "Not installed" is said of a watcher that does not run.                 *)
AbsentIsTrue == [][report' # report /\ report'.says = "not-installed" => active' # "running"]_vars

(* What a failed preflight offers, --allow-partial, is a way out.          *)
OfferHolds == ~ (report.verb = "install --allow-partial" /\ report.says = "preflight failed")

(* On launchd a watcher that was claimed persistent always comes up again  *)
(* (KeepAlive); systemd gives up after a burst of failures.                *)
KeptUp == platform = "launchd" /\ claimed ~> (active = "running" \/ ~claimed)

(* A machine that comes up starts what was claimed persistent.             *)
SurvivesReboot == claimed /\ active = "down" ~> (active = "running" \/ ~claimed)
=============================================================================
