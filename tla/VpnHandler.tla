----------------------------- MODULE VpnHandler -----------------------------
(***************************************************************************)
(* The 24-hour VPN warning of the Electron main process:                   *)
(* electron/vpnViolationHandler.js and its state file                      *)
(* electron/vpnWarningState.js, with what calls them (the IPC handlers,    *)
(* the start-up sequence of main.js, the network watch) and what they call *)
(* (the single-flight lockdown and its worker thread, the restoration of   *)
(* the system).                                                            *)
(*                                                                         *)
(* Main-process code between two awaits is one action.  A failing          *)
(* challenge is the exception: it restores the system with synchronous     *)
(* PowerShell calls that take seconds, during which the lockdown worker    *)
(* runs on and the process may be killed; `restoring' marks that interval. *)
(*                                                                         *)
(* Without an active saved challenge the commands of a lockdown and of a   *)
(* restoration are mocks, and single ones fail unnoticed: both may leave   *)
(* the system as it is.  Times are left out: `due' says whether the clock  *)
(* has passed reapplyDeadlineAt.                                           *)
(***************************************************************************)
EXTENDS Naturals, FiniteSets

CONSTANTS
    Reapplies,    \* reapplyProtection() calls that may run at the same time
    MaxRestarts   \* bound: restarts of the app

ASSUME HandlerAssumption == MaxRestarts \in Nat

VARIABLES
    (* vpn-warning-state.json; a missing file reads as NoWarning. *)
    file, due,
    (* module variables of vpnViolationHandler.js *)
    challengeFailed, enforcementDisabled, lastVpnActive,
    watch,       \* networkWatchStop is set: the timer of the watch runs
    (* monitorManager's `running', and how far main.js has started *)
    monitors, boot,
    (* pending asynchronous calls *)
    reapply,     \* [Reapplies -> {"idle", "lockdown", "health"}]
    probe,       \* runWatchCheck: "idle", "probing", "lockdown"
    lockdown,    \* activeLockdown: "idle", "running", "applied" by the worker
    restoring,   \* a failing challenge restores the system
    (* the world *)
    vpn, locked, restarts,
    dashboard,   \* the page that polls is open
    (* History, read by the properties only. *)
    warnings,    \* warnings given since the last failure
    outstanding, \* a warning was given and neither resolved nor failed
    gap,         \* the VPN has been down since the last warning
    cause,       \* why this process failed the challenge
    excuses      \* what may lock or watch the system of a failed challenge

fileVars == <<file, due>>
memVars == <<challengeFailed, enforcementDisabled, lastVpnActive, watch>>
bootVars == <<monitors, boot>>
callVars == <<reapply, probe, lockdown, restoring>>
worldVars == <<vpn, locked, restarts, dashboard>>
historyVars == <<warnings, outstanding, gap, cause, excuses>>
vars == <<fileVars, memVars, bootVars, callVars, worldVars, historyVars>>

Reports == {"none", "warning", "expired", "second"}
FinalReports == {"expired", "second"}

\* A lockdown, watch check or re-apply was on its way, or the start-up check
\* failed the challenge; the restoration was incomplete; a page called
\* "restore-dns" or "monitoring:start" after the failure.
Excuses == {"inflight", "unfinished", "asked"}

\* `warned' stands for firstVpnDetectedAt, reapplyDeadlineAt and
\* attemptCount >= 1, which are set and cleared together.  The ids and
\* reapplyClickedAt are written but never read, and are left out.
State == [warned : BOOLEAN, acknowledged : BOOLEAN, paused : BOOLEAN,
          expired : BOOLEAN, resolved : BOOLEAN, clearedOnce : BOOLEAN,
          report : Reports]

NoWarning ==
    [warned |-> FALSE, acknowledged |-> FALSE, paused |-> FALSE,
     expired |-> FALSE, resolved |-> FALSE, clearedOnce |-> FALSE,
     report |-> "none"]

FirstWarning ==
    [NoWarning EXCEPT !.warned = TRUE, !.paused = TRUE, !.report = "warning"]

IsActiveWarning(s) == s.paused /\ s.warned /\ ~s.expired /\ ~s.resolved

IsEnforcementDisabled == enforcementDisabled \/ challengeFailed

\* getRuntimeChallengeState
RuntimeStatus ==
    IF challengeFailed THEN "failed"
    ELSE IF IsActiveWarning(file) THEN "warning" ELSE "protected"

Init ==
    /\ file = NoWarning /\ due = FALSE
    /\ challengeFailed = FALSE /\ enforcementDisabled = FALSE
    /\ lastVpnActive = FALSE /\ watch = FALSE
    /\ monitors = FALSE /\ boot = "window"
    /\ reapply = [r \in Reapplies |-> "idle"]
    /\ probe = "idle" /\ lockdown = "idle" /\ restoring = FALSE
    /\ vpn \in BOOLEAN /\ locked = FALSE
    /\ restarts = 0 /\ dashboard = FALSE
    /\ warnings = 0 /\ outstanding = FALSE /\ gap = FALSE
    /\ cause = "none" /\ excuses = {}

-----------------------------------------------------------------------------
(* Failing the challenge *)

\* runLockdown is single-flight: a caller joins the lockdown on its way.
JoinLockdown == lockdown' = IF lockdown = "idle" THEN "running" ELSE lockdown
Pending ==
    \/ lockdown # "idle" \/ probe # "idle"
    \/ \E r \in Reapplies : reapply[r] # "idle"

\* failChallenge up to the restoration: markExpired or markSecondAttemptFail
\* writes the final report to the file.
Fail(reason, pending) ==
    /\ challengeFailed' = TRUE
    /\ enforcementDisabled' = TRUE
    /\ watch' = FALSE
    /\ file' = [file EXCEPT !.expired = TRUE, !.paused = FALSE, !.report = reason]
    /\ restoring' = TRUE
    /\ cause' = reason
    /\ excuses' = IF pending THEN {"inflight"} ELSE {}
    /\ outstanding' = FALSE
    /\ UNCHANGED <<due, monitors, reapply, probe, lockdown, worldVars,
                   warnings, gap>>

\* restorePreNetfastSystemState returns and the caller clears the state file.
\* Its failing steps are collected as warnings, and it reports systemRestored in
\* any case.  At start-up main.js only logs the failure and locks down.
FailDone ==
    /\ restoring
    /\ restoring' = FALSE
    /\ locked' \in {FALSE, locked}
    /\ excuses' = excuses \cup (IF locked' THEN {"unfinished"} ELSE {})
    /\ file' = NoWarning /\ due' = FALSE
    /\ warnings' = 0
    /\ IF boot = "failed" THEN boot' = "lockdown" /\ JoinLockdown
                          ELSE UNCHANGED <<boot, lockdown>>
    /\ UNCHANGED <<memVars, monitors, reapply, probe, vpn, restarts,
                   dashboard, outstanding, gap, cause>>

-----------------------------------------------------------------------------
(* processVpnCheck, called by the IPC handlers "get-vector-status" and
   "get-vpn-challenge-state".  The latter goes on to take the pending report
   out of the file and hands it to the renderer. *)

Answer(ipc, s) == file' = IF ipc = "state" THEN [s EXCEPT !.report = "none"] ELSE s

RisingEdge == vpn /\ ~lastVpnActive

\* Mutant: the deadline is looked at only when the VPN comes up.
VpnCheckFailsOnEdge(reason) ==
    /\ ~challengeFailed
    /\ RisingEdge
    /\ \/ reason = "expired" /\ IsActiveWarning(file) /\ due
       \/ reason = "second" /\ IsActiveWarning(file) /\ ~due /\ file.clearedOnce
       \/ reason = "second" /\ ~IsActiveWarning(file) /\ file.resolved /\ file.warned
    /\ lastVpnActive' = vpn
    /\ Fail(reason, Pending)
    /\ UNCHANGED boot

VpnCheckFails(reason) ==
    /\ ~challengeFailed
    /\ \/ /\ reason = "expired"
          /\ IsActiveWarning(file) /\ due
          /\ UNCHANGED lastVpnActive
       \/ /\ reason = "second"
          /\ RisingEdge
          /\ \/ IsActiveWarning(file) /\ ~due /\ file.clearedOnce
             \/ ~IsActiveWarning(file) /\ file.resolved /\ file.warned
          /\ lastVpnActive' = vpn
    /\ Fail(reason, Pending)
    /\ UNCHANGED boot

\* Mutant: any poll of a running VPN session counts as the end of it.
VpnCheckDuringWarningEager(ipc) ==
    /\ ~challengeFailed
    /\ IsActiveWarning(file) /\ ~due
    /\ ~(RisingEdge /\ file.clearedOnce)
    /\ Answer(ipc, [file EXCEPT !.clearedOnce = @ \/ lastVpnActive])
    /\ lastVpnActive' = vpn
    /\ UNCHANGED <<due, challengeFailed, enforcementDisabled, watch, historyVars>>

\* A warning is running: remember that the VPN went down.
VpnCheckDuringWarning(ipc) ==
    /\ ~challengeFailed
    /\ IsActiveWarning(file) /\ ~due
    /\ ~(RisingEdge /\ file.clearedOnce)
    /\ Answer(ipc, [file EXCEPT !.clearedOnce = @ \/ (~vpn /\ lastVpnActive)])
    /\ lastVpnActive' = vpn
    /\ UNCHANGED <<due, challengeFailed, enforcementDisabled, watch, historyVars>>

\* Mutant: a resolved challenge is warned again.
VpnCheckWarnsAgain(ipc) ==
    /\ ~challengeFailed
    /\ ~IsActiveWarning(file) /\ RisingEdge
    /\ Answer(ipc, FirstWarning)
    /\ due' = FALSE
    /\ lastVpnActive' = TRUE
    /\ warnings' = IF warnings < 2 THEN warnings + 1 ELSE 2
    /\ outstanding' = TRUE
    /\ gap' = FALSE
    /\ UNCHANGED <<challengeFailed, enforcementDisabled, watch, cause, excuses>>

\* initFirstWarning
VpnCheckWarns(ipc) ==
    /\ ~challengeFailed
    /\ ~IsActiveWarning(file) /\ RisingEdge /\ ~file.warned
    /\ Answer(ipc, FirstWarning)
    /\ due' = FALSE
    /\ lastVpnActive' = TRUE
    /\ warnings' = IF warnings < 2 THEN warnings + 1 ELSE 2
    /\ outstanding' = TRUE
    /\ gap' = FALSE
    /\ UNCHANGED <<challengeFailed, enforcementDisabled, watch, cause, excuses>>

\* Nothing to do: the challenge has failed, a warning that expired in an
\* earlier run is on file, or the VPN did not just come up.
VpnCheckIdle(ipc) ==
    /\ \/ challengeFailed /\ UNCHANGED lastVpnActive
       \/ /\ ~challengeFailed /\ ~IsActiveWarning(file)
          /\ RisingEdge => file.warned /\ ~file.resolved
          /\ lastVpnActive' = vpn
    /\ Answer(ipc, file)
    /\ UNCHANGED <<due, challengeFailed, enforcementDisabled, watch, historyVars>>

VpnCheck ==
    \/ \E reason \in FinalReports : VpnCheckFails(reason)
    \/ /\ \E ipc \in {"vectors", "state"} :
            VpnCheckDuringWarning(ipc) \/ VpnCheckWarns(ipc) \/ VpnCheckIdle(ipc)
       /\ UNCHANGED <<bootVars, callVars, vpn, locked, restarts, dashboard>>

\* acknowledgeVpnWarning
Acknowledge ==
    /\ IsActiveWarning(file)
    /\ file' = [file EXCEPT !.acknowledged = TRUE]
    /\ UNCHANGED <<due, memVars, bootVars, callVars, worldVars, historyVars>>

-----------------------------------------------------------------------------
(* Lockdowns *)

\* monitorManager.start: ignored while it runs; else it starts the watch, whose
\* timer is the only one, and hands the stop function to the handler.
StartMonitors == monitors' = TRUE /\ watch' = (watch \/ ~monitors)

\* The worker thread has changed the system; the main process does not know.
LockdownApplied ==
    /\ lockdown = "running"
    /\ lockdown' = "applied"
    /\ locked' \in {TRUE, locked}
    /\ UNCHANGED <<fileVars, memVars, bootVars, reapply, probe, restoring, vpn,
                   restarts, dashboard, historyVars>>

\* Mutant: the watch check that waits is not resumed.
LockdownDoneForgets(ok) ==
    /\ lockdown = IF ok THEN "applied" ELSE "running"
    /\ lockdown' = "idle"
    /\ reapply' = [r \in Reapplies |->
                     IF reapply[r] = "lockdown"
                       THEN IF ok THEN "health" ELSE "idle" ELSE reapply[r]]
    /\ boot' = IF boot = "lockdown" THEN "done" ELSE boot
    /\ IF ok /\ boot = "lockdown" THEN StartMonitors
                                  ELSE UNCHANGED <<monitors, watch>>
    /\ UNCHANGED <<fileVars, challengeFailed, enforcementDisabled, lastVpnActive,
                   probe, restoring, worldVars, historyVars>>

\* All callers resume.  ok = FALSE: the worker failed and they get an error.
LockdownDone(ok) ==
    /\ lockdown = IF ok THEN "applied" ELSE "running"
    /\ lockdown' = "idle"
    /\ reapply' = [r \in Reapplies |->
                     IF reapply[r] = "lockdown"
                       THEN IF ok THEN "health" ELSE "idle" ELSE reapply[r]]
    /\ probe' = IF probe = "lockdown" THEN "idle" ELSE probe
    /\ boot' = IF boot = "lockdown" THEN "done" ELSE boot
    \* main.js starts the monitors after its lockdown.
    /\ IF ok /\ boot = "lockdown" THEN StartMonitors
                                  ELSE UNCHANGED <<monitors, watch>>
    /\ UNCHANGED <<fileVars, challengeFailed, enforcementDisabled, lastVpnActive,
                   restoring, worldVars, historyVars>>

\* runWatchCheck, by the timer of the watch or an event of the tamper sensor:
\* the guards, then the awaited probes of the system ...
WatchCheck ==
    /\ monitors \/ watch
    /\ probe = "idle"
    /\ ~IsEnforcementDisabled /\ lockdown = "idle"
    /\ probe' = "probing"
    /\ UNCHANGED <<fileVars, memVars, bootVars, reapply, lockdown, restoring,
                   worldVars, historyVars>>

\* ... then a lockdown if they call for one and none is running.
WatchProbed ==
    /\ probe = "probing"
    /\ \/ probe' = "idle" /\ UNCHANGED lockdown
       \/ lockdown = "idle" /\ probe' = "lockdown" /\ JoinLockdown
    /\ UNCHANGED <<fileVars, memVars, bootVars, reapply, restoring, worldVars,
                   historyVars>>

\* Mutant: filtering is restored for a failed challenge, too.
AutoRestoreAlways ==
    /\ lockdown = "idle" /\ JoinLockdown
    /\ UNCHANGED <<fileVars, memVars, bootVars, reapply, probe, restoring,
                   worldVars, historyVars>>

\* "get-vector-status" finds filtering inactive and restores it.
AutoRestore ==
    /\ ~IsEnforcementDisabled
    /\ lockdown = "idle" /\ JoinLockdown
    /\ UNCHANGED <<fileVars, memVars, bootVars, reapply, probe, restoring,
                   worldVars, historyVars>>

\* "restore-dns": a lockdown, whether enforcement is disabled or not.
RestoreDns ==
    /\ JoinLockdown
    /\ excuses' = excuses \cup (IF challengeFailed THEN {"asked"} ELSE {})
    /\ UNCHANGED <<fileVars, memVars, bootVars, reapply, probe, restoring,
                   worldVars, warnings, outstanding, gap, cause>>

\* "monitoring:start", likewise.
StartMonitoring ==
    /\ StartMonitors
    /\ excuses' = excuses \cup (IF challengeFailed THEN {"asked"} ELSE {})
    /\ UNCHANGED <<fileVars, challengeFailed, enforcementDisabled, lastVpnActive,
                   boot, callVars, worldVars, warnings, outstanding, gap, cause>>

\* "monitoring:stop"
StopMonitoring ==
    /\ monitors
    /\ monitors' = FALSE /\ watch' = FALSE
    /\ UNCHANGED <<fileVars, challengeFailed, enforcementDisabled, lastVpnActive,
                   boot, callVars, worldVars, historyVars>>

-----------------------------------------------------------------------------
(* reapplyProtection *)

\* Mutant: the clock is not looked at.
ReapplyExpiredAlways(r) ==
    /\ reapply[r] = "idle"
    /\ file.paused
    /\ Fail("expired", Pending)
    /\ UNCHANGED <<boot, lastVpnActive>>

\* The user is too late.
ReapplyExpired(r) ==
    /\ reapply[r] = "idle"
    /\ file.paused /\ due
    /\ Fail("expired", Pending)
    /\ UNCHANGED <<boot, lastVpnActive>>

\* The VPN is down: enforcement is allowed again and a full lockdown awaited.
ReapplyStart(r) ==
    /\ reapply[r] = "idle"
    /\ file.paused /\ ~due /\ ~vpn
    /\ enforcementDisabled' = FALSE
    /\ reapply' = [reapply EXCEPT ![r] = "lockdown"]
    /\ JoinLockdown
    /\ UNCHANGED <<fileVars, challengeFailed, lastVpnActive, watch, bootVars,
                   probe, restoring, worldVars, historyVars>>

\* The health check is over.  validateFullProtection needs the VPN down and the
\* system locked (and more that can fail); then the challenge resumes, whatever
\* the state file says by now.
ReapplyEnd(r) ==
    /\ reapply[r] = "health"
    /\ reapply' = [reapply EXCEPT ![r] = "idle"]
    /\ \/ UNCHANGED <<file, lastVpnActive, watch, outstanding>>
       \/ /\ ~vpn /\ locked
          /\ file' = [file EXCEPT !.resolved = TRUE, !.paused = FALSE, !.report = "none"]
          /\ lastVpnActive' = FALSE
          /\ watch' = TRUE
          /\ outstanding' = FALSE
    /\ UNCHANGED <<due, challengeFailed, enforcementDisabled, bootVars,
                   probe, lockdown, restoring, worldVars, warnings, gap, cause,
                   excuses>>

-----------------------------------------------------------------------------
(* Start-up: runBackgroundLockdown in main.js *)

StartupSkipped ==
    /\ boot = "window" /\ IsEnforcementDisabled
    /\ boot' = "done"
    /\ UNCHANGED <<fileVars, memVars, monitors, callVars, worldVars, historyVars>>

\* checkDeadlineOnStartup fails the challenge; see FailDone for what follows.
StartupExpired ==
    /\ boot = "window" /\ ~IsEnforcementDisabled
    /\ IsActiveWarning(file) /\ due
    /\ Fail("expired", TRUE)
    /\ boot' = "failed"
    /\ UNCHANGED lastVpnActive

StartupLockdown ==
    /\ boot = "window" /\ ~IsEnforcementDisabled
    /\ ~(IsActiveWarning(file) /\ due)
    /\ boot' = "lockdown"
    /\ JoinLockdown
    /\ UNCHANGED <<fileVars, memVars, monitors, reapply, probe, restoring,
                   worldVars, historyVars>>

\* Mutant: the warning is kept in memory only.
RestartForgets ==
    /\ restarts < MaxRestarts
    /\ restarts' = restarts + 1
    /\ file' = NoWarning /\ due' = FALSE
    /\ challengeFailed' = FALSE /\ enforcementDisabled' = FALSE
    /\ lastVpnActive' = FALSE /\ watch' = FALSE
    /\ monitors' = FALSE /\ boot' = "window"
    /\ reapply' = [r \in Reapplies |-> "idle"]
    /\ probe' = "idle" /\ lockdown' = "idle" /\ restoring' = FALSE
    /\ locked' \in {locked, FALSE}
    /\ cause' = "none" /\ excuses' = {} /\ dashboard' = FALSE
    /\ UNCHANGED <<vpn, warnings, outstanding, gap>>

\* The app quits or is killed, also during a restoration, and starts again.
\* A regular quit may take the firewall down.
Restart ==
    /\ restarts < MaxRestarts
    /\ restarts' = restarts + 1
    /\ challengeFailed' = FALSE /\ enforcementDisabled' = FALSE
    /\ lastVpnActive' = FALSE /\ watch' = FALSE
    /\ monitors' = FALSE /\ boot' = "window"
    /\ reapply' = [r \in Reapplies |-> "idle"]
    /\ probe' = "idle" /\ lockdown' = "idle" /\ restoring' = FALSE
    /\ locked' \in {locked, FALSE}
    /\ cause' = "none" /\ excuses' = {} /\ dashboard' = FALSE
    /\ UNCHANGED <<fileVars, vpn, warnings, outstanding, gap>>

-----------------------------------------------------------------------------
(* The world *)

VpnToggles ==
    /\ vpn' = ~vpn
    /\ gap' = (gap \/ vpn)
    /\ UNCHANGED <<fileVars, memVars, bootVars, callVars, locked, restarts,
                   dashboard, warnings, outstanding, cause, excuses>>

DeadlinePasses ==
    /\ file.warned /\ ~due
    /\ due' = TRUE
    /\ UNCHANGED <<file, memVars, bootVars, callVars, worldVars, historyVars>>

\* The user opens the Dashboard or leaves it, for another page or the tray.
Navigate ==
    /\ dashboard' = ~dashboard
    /\ UNCHANGED <<fileVars, memVars, bootVars, callVars, vpn, locked,
                   restarts, historyVars>>

\* The main process handles no event while it restores the system.
MainProcess ==
    /\ ~restoring
    /\ \/ VpnCheck \/ Acknowledge
       \/ \E ok \in BOOLEAN : LockdownDone(ok)
       \/ WatchCheck \/ WatchProbed \/ AutoRestore
       \/ RestoreDns \/ StartMonitoring \/ StopMonitoring
       \/ \E r \in Reapplies : ReapplyExpired(r) \/ ReapplyStart(r) \/ ReapplyEnd(r)
       \/ StartupSkipped \/ StartupExpired \/ StartupLockdown

World == VpnToggles \/ DeadlinePasses \/ Navigate \/ Restart

Next == MainProcess \/ FailDone \/ LockdownApplied \/ World

Spec == Init /\ [][Next]_vars

\* The Dashboard polls every 30 seconds while it is open, and the synchronous
\* restoration ends.
FairSpec ==
    /\ Spec
    /\ WF_vars(dashboard /\ ~restoring /\ VpnCheck)
    /\ WF_vars(FailDone)

-----------------------------------------------------------------------------

LockdownAwaited ==
    \/ probe = "lockdown" \/ boot = "lockdown"
    \/ \E r \in Reapplies : reapply[r] = "lockdown"

TypeOK ==
    /\ file \in State /\ due \in BOOLEAN
    /\ challengeFailed \in BOOLEAN /\ enforcementDisabled \in BOOLEAN
    /\ lastVpnActive \in BOOLEAN /\ watch \in BOOLEAN
    /\ monitors \in BOOLEAN /\ boot \in {"window", "failed", "lockdown", "done"}
    /\ reapply \in [Reapplies -> {"idle", "lockdown", "health"}]
    /\ probe \in {"idle", "probing", "lockdown"}
    /\ lockdown \in {"idle", "running", "applied"}
    /\ restoring \in BOOLEAN
    /\ vpn \in BOOLEAN /\ locked \in BOOLEAN
    /\ restarts \in 0..MaxRestarts /\ dashboard \in BOOLEAN
    /\ warnings \in 0..2 /\ outstanding \in BOOLEAN /\ gap \in BOOLEAN
    /\ cause \in Reports /\ excuses \subseteq Excuses
    \* Whoever waits for a lockdown waits for one that runs.
    /\ LockdownAwaited => lockdown # "idle"

\* One VPN session is one attempt (vpnViolationHandler.js:147,168): a challenge
\* fails for a second attempt only if the VPN really was down since the
\* warning, across restarts that forget lastVpnActive, re-applies in flight
\* and polls that missed what happened in between.
SecondAttemptIsANewSession == cause = "second" => gap

\* "Local state prevents app restart bypass" (VPN_DETECTION_REAPPLY.md:122):
\* from the first detection until the challenge is resolved or fails, every
\* status the app shows is the warning, whatever is restarted or still in
\* flight.
WarningOutlastsRestart == outstanding => RuntimeStatus = "warning"

\* "First and final warning": until a failure wipes the file no second warning
\* is given, whatever restarts, re-applies and polls happen in between.
OneWarning == warnings <= 1

\* "Do not re-apply lockdown again for the failed challenge"
\* (VPN_DETECTION_REAPPLY.md:151): what a failed challenge left is neither locked
\* nor watched again (vpnViolationHandler.js:42,56) but by what was on its way
\* when it failed, or by an IPC call that does not look at the failure.  A
\* restoration of which a step failed leaves the lock, but starts no watch.
FailedStaysRestored ==
    challengeFailed /\ ~restoring =>
      /\ locked => excuses \cap {"inflight", "unfinished", "asked"} # {}
      /\ watch => excuses \cap {"inflight", "asked"} # {}

\* A missed deadline has its consequence (vpnViolationHandler.js:142): while the
\* Dashboard is open, a warning whose time is up does not stay open, however
\* often the app restarts and whatever is in flight; it fails the challenge
\* unless a re-apply that was already on its way resolves it.
DeadlineIsEnforced ==
    (outstanding /\ due) ~> (~outstanding \/ ~dashboard)

-----------------------------------------------------------------------------
(* What the user is promised. *)

\* A warning that a re-apply resolves after the file was wiped is no warning.
Stage ==
    IF challengeFailed \/ file.expired THEN "failed"
    ELSE IF ~file.warned THEN "clean"
    ELSE IF file.resolved THEN "resolved" ELSE "warned"

Warning == INSTANCE VpnWarning WITH stage <- Stage, late <- due, gap <- gap

\* The handler keeps the promise of module VpnWarning through restarts, kills
\* during a restoration and re-applies that end after the file was rewritten: a
\* warning is decided by a re-apply, by its deadline or by a further VPN session,
\* in time if the user stays on the Dashboard, and a failed challenge is not
\* resolved again (vpnViolationHandler.js:126-300, vpnWarningState.js).
KeepsPromise == Warning!Spec /\ (<>[]dashboard => Warning!Decided)

=============================================================================
