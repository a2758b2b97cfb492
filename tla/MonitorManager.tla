---------------------------- MODULE MonitorManager ----------------------------
(***************************************************************************)
(* The lifecycle of the background monitors as a whole: module Monitoring   *)
(* (sensor and network watch) composed with module DnsHealth (the DNS       *)
(* health monitor).  monitorManager.js starts and stops all three,          *)
(* vpnViolationHandler.js stops and starts the two without the sensor, and  *)
(* a lockdown of the watch ends by asking for a health check.  Each of      *)
(* these handlers is synchronous, so it is one step of both.                *)
(***************************************************************************)
EXTENDS Monitoring, DnsHealth

managerVars == <<vars, healthVars>>

ManagerInit == Init /\ HealthInit

-----------------------------------------------------------------------------
\* monitorManager.start
StartMonitors == Start /\ StartHealth

\* monitorManager.stop
StopMonitors == Stop /\ StopHealth

\* The end of reapplyProtection: the watch only if the handler has none, the
\* health monitor in any case.
ResumeMonitors ==
    /\ Reapply \/ (handle /\ UNCHANGED vars)
    /\ StartHealth

\* failChallenge: stopEnforcementLoops, then a restoration that stops the health
\* monitor once more.
FailMonitors == FailChallenge /\ StopHealth

\* A caller of runHealthCheck that starts nothing when a check runs.
AskInPassing == RunHealthCheck /\ UNCHANGED <<world, report, diagnosis, timer>>

\* runLockdownInner: a lockdown that comes to its end asks for a check, one that
\* throws does not.
LockdownOver == EndLockdown /\ (AskInPassing \/ UNCHANGED healthVars)

\* What the two do on their own.
WatchAlone ==
    /\ Sensor \/ Change \/ Watch \/ OtherLockdown \/ Tick
    /\ UNCHANGED healthVars

HealthAlone ==
    /\ TimerFires \/ Ask \/ Diagnose \/ Probes \/ WorldChanges
    /\ UNCHANGED vars

ManagerNext ==
    \/ StartMonitors \/ StopMonitors \/ ResumeMonitors \/ FailMonitors
    \/ LockdownOver
    \/ WatchAlone \/ HealthAlone

ManagerSpec == ManagerInit /\ [][ManagerNext]_managerVars

-----------------------------------------------------------------------------
(* Properties *)

\* One lifecycle, though two modules with a stop function each start and stop the
\* monitors: the health timer is set exactly while the watch is on and the
\* handler can stop it, and a manager that runs has both unless the challenge
\* has failed (monitorManager.js:12-20, vpnViolationHandler.js:42-54 and :285-292).
OneLifecycle ==
    /\ timer = watch.active /\ watch.active = handle
    /\ running /\ enabled => timer
===============================================================================
