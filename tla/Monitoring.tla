------------------------------ MODULE Monitoring ------------------------------
(***************************************************************************)
(* The background monitoring of the Electron main process: the tamper      *)
(* sensor (electron/tamperWatch.js), the network watch with its backstop   *)
(* timer (electron/networkWatch.js) and the manager that owns both         *)
(* (electron/monitoring/monitorManager.js), in discrete time.              *)
(*                                                                         *)
(* One tick is the debounce window of the sensor; the other periods are    *)
(* constants, scaled down in the configuration with their order and their  *)
(* equalities kept (MaxBackoff = Fast, Cooldown = StableReset = 2 * Fast), *)
(* and a first report before the back-off is at its longest.               *)
(* Ticks count the time the event loop is free, and a timer that has run   *)
(* out fires before the next one: the synchronous commands of the main     *)
(* process hold up all its timers alike and come on top.  What a lockdown  *)
(* does to the machine is module Lockdown; here it takes time and may or   *)
(* may not repair it.  The network fingerprint (watchLast) is left out: a  *)
(* check may find the network changed at any time.  The saved challenge is *)
(* taken to be active throughout: without one the watch does nothing.      *)
(***************************************************************************)
EXTENDS Naturals

CONSTANTS
    InitialBackoff, MaxBackoff, StableReset, DownAfter, \* tamperWatch.js
    Backstop, Fast, Cooldown,                           \* networkWatch.js
    CheckTime,   \* a check is over after at most so many ticks
    ScanAge,     \* it may take the adapters from a scan so many ticks old
    LockTime     \* a lockdown is over after at most so many ticks

ASSUME MonitoringAssumption ==
    /\ {InitialBackoff, MaxBackoff, StableReset, DownAfter, Backstop, Fast,
        Cooldown, CheckTime, LockTime} \subseteq Nat \ {0}
    /\ ScanAge \in Nat /\ ScanAge < Cooldown

\* What keeps a dying sensor from holding up the polls: from the second report
\* on it comes back no sooner than the fast interval.  In the code the back-off
\* doubles from 2 s to 30 s with the failures 1 to 4, and the interval is 30 s.
ASSUME BackoffAssumption ==
    /\ InitialBackoff <= MaxBackoff
    /\ Fast <= MaxBackoff /\ Fast < StableReset /\ Fast <= Backstop
    /\ \/ 2 * InitialBackoff >= MaxBackoff
       \/ 4 * InitialBackoff >= MaxBackoff /\ DownAfter >= 2
       \/ 8 * InitialBackoff >= MaxBackoff /\ DownAfter >= 3
       \/ 16 * InitialBackoff >= MaxBackoff /\ DownAfter >= 4

VARIABLES
    running,   \* monitorManager's `running'
    handle,    \* vpnViolationHandler holds the stop function of the watch
    enabled,   \* ~isEnforcementDisabled()
    sensor,    \* the PowerShell process: state, ticks, backoff, failures
    pending,   \* the debounce windows: "none", "armed", "due"
    watch,     \* watchActive, the interval and what is left of it
    checks,    \* calls of runWatchCheck that wait for their probes: their age
               \* and whether the machine has been `broken' for all they read
    lockdown,  \* ticks left of activeLockdown, 0 when there is none
    cooldown,  \* ticks left of WATCH_LOCKDOWN_COOLDOWN_MS
    broken,    \* the firewall, DoH or the adapters are not as locked down
    (* History, read by the properties only. *)
    blind,     \* ticks since the watch last looked, or was known to
    exposed    \* ticks the machine has been broken and not locked down

vars == <<running, handle, enabled, sensor, pending, watch, checks, lockdown,
          cooldown, broken, blind, exposed>>

\* The sensor's five vectors end in the same handler: they are one, "change".
Vectors == {"change", "sensor_down"}

\* The bounds of the properties, where the counters of the history end: a sensor
\* that dies can arm the interval anew just before it fires, twice.
BlindBound == Backstop + 2 * Fast
AnswerBound == BlindBound + Cooldown + CheckTime

NoSensor == [state |-> "off", ticks |-> 0, backoff |-> InitialBackoff, failures |-> 0]
NewSensor == [NoSensor EXCEPT !.state = "up"]
Quiet == [v \in Vectors |-> "none"]
NoWatch == [active |-> FALSE, period |-> Backstop, left |-> 0]

AtMost(n, limit) == IF n < limit THEN n ELSE limit
Less(n) == IF n = 0 THEN 0 ELSE n - 1

Init ==
    /\ running = FALSE /\ handle = FALSE /\ enabled = TRUE
    /\ sensor = NoSensor /\ pending = Quiet /\ watch = NoWatch /\ checks = {}
    /\ lockdown = 0 /\ cooldown = 0
    /\ broken = FALSE
    /\ blind = 0 /\ exposed = 0

-----------------------------------------------------------------------------
(* Starting and stopping *)

\* startNetworkWatch and its scheduleWatch: the interval is armed anew.
StartWatch ==
    /\ watch' = [active |-> TRUE, period |-> Backstop, left |-> Backstop]
    /\ handle' = TRUE
    /\ blind' = 0 /\ exposed' = 0

\* The function startNetworkWatch returns.
StopWatch == watch' = [watch EXCEPT !.active = FALSE, !.left = 0]

\* monitorManager.start, after the start-up lockdown or over IPC.
Start ==
    /\ ~running
    /\ running' = TRUE
    /\ StartWatch
    /\ sensor' = NewSensor /\ pending' = Quiet
    /\ UNCHANGED <<enabled, checks, lockdown, cooldown, broken>>

\* monitorManager.stop: it returns early unless `running', even if a re-apply
\* has started the watch on its own.
Stop ==
    /\ running
    /\ running' = FALSE /\ handle' = FALSE
    /\ StopWatch
    /\ sensor' = NoSensor /\ pending' = Quiet
    /\ UNCHANGED <<enabled, checks, lockdown, cooldown, broken,
                   blind, exposed>>

\* The end of reapplyProtection: the watch is started only when the handler has
\* no stop function, also for a challenge that failed under the re-apply.
\* Mutant: it is started in any case.
ReapplyAnyway ==
    /\ StartWatch
    /\ UNCHANGED <<running, enabled, sensor, pending, checks, lockdown, cooldown, broken>>

Reapply ==
    /\ ~handle
    /\ StartWatch
    /\ UNCHANGED <<running, enabled, sensor, pending, checks, lockdown, cooldown, broken>>

\* failChallenge: stopEnforcementLoops stops the watch; the manager goes on
\* `running' and its sensor goes on reporting.
FailChallenge ==
    /\ enabled' = FALSE
    /\ handle' = FALSE
    /\ IF handle THEN StopWatch ELSE UNCHANGED watch
    /\ UNCHANGED <<running, sensor, pending, checks, lockdown, cooldown,
                   broken, blind, exposed>>

-----------------------------------------------------------------------------
(* The sensor *)

\* A vector that is pending absorbs further hits.
Emitted(v) == IF pending[v] = "none" THEN [pending EXCEPT ![v] = "armed"] ELSE pending

\* Mutant: the backoff is never raised.
NextBackoffConstant(b) == InitialBackoff

NextBackoff(b) == AtMost(2 * b, MaxBackoff)

\* child 'exit': a retry is scheduled, and the fourth failure in a row (and each
\* one after it) is reported.
SensorExits ==
    /\ sensor.state = "up" /\ sensor.ticks > 0
    /\ LET n == AtMost(sensor.failures + 1, DownAfter) IN
       /\ sensor' = [state |-> "retry", ticks |-> sensor.backoff,
                     backoff |-> NextBackoff(sensor.backoff), failures |-> n]
       /\ pending' = IF n >= DownAfter THEN Emitted("sensor_down") ELSE pending
    /\ UNCHANGED <<running, handle, enabled, watch, checks, lockdown, cooldown, broken, blind, exposed>>

\* spawnSensor: a process that cannot be spawned emits 'error' and no 'exit',
\* so nothing ever retries.
SpawnSensor ==
    /\ sensor.state = "retry" /\ sensor.ticks = 0
    /\ \E s \in {"up", "lost"} : sensor' = [sensor EXCEPT !.state = s]
    /\ UNCHANGED <<running, handle, enabled, pending, watch, checks, lockdown,
                   cooldown, broken, blind, exposed>>

\* What is known to a check while the machine is whole, be it for a moment.
Mended(c) == [c EXCEPT !.broken = FALSE]

\* Something changes on the machine, or only seems to; a living sensor may tell.
Change ==
    /\ broken' \in BOOLEAN
    /\ exposed' = IF broken' THEN exposed ELSE 0
    /\ checks' = IF broken' THEN checks ELSE {Mended(c) : c \in checks}
    /\ \/ UNCHANGED pending
       \/ sensor.state = "up" /\ sensor.ticks > 0 /\ pending' = Emitted("change")
    /\ UNCHANGED <<running, handle, enabled, sensor, watch, lockdown, cooldown, blind>>

-----------------------------------------------------------------------------
(* The watch *)

\* runWatchCheck up to its end: a check has begun.  A poll refreshes rules first
\* (what that throws is caught), then the probes read the machine one by one, the
\* adapters perhaps from an earlier scan: only what has been broken for longer,
\* and stays so, is sure to be seen.  There is none while a lockdown is on its way.
RunWatchCheck ==
    IF enabled /\ lockdown = 0
    THEN /\ checks' = checks \cup {[broken |-> broken /\ exposed >= ScanAge, age |-> 0]}
         /\ blind' = 0
    ELSE UNCHANGED <<checks, blind>>

\* setWatchFastFallback(true): the interval is armed anew.
Fallback ==
    watch' = IF watch.active THEN [watch EXCEPT !.period = Fast, !.left = Fast] ELSE watch

\* handleTamperEvent, when the debounce window closes.
Tampered(v) ==
    /\ pending[v] = "due"
    /\ pending' = [pending EXCEPT ![v] = "none"]
    /\ IF v = "sensor_down" THEN Fallback /\ UNCHANGED <<checks, blind>>
                            ELSE RunWatchCheck /\ UNCHANGED watch
    /\ UNCHANGED <<running, handle, enabled, sensor, lockdown, cooldown,
                   broken, exposed>>

\* The interval of scheduleWatch.
Poll ==
    /\ watch.active /\ watch.left = 0
    /\ watch' = [watch EXCEPT !.left = watch.period]
    /\ RunWatchCheck
    /\ UNCHANGED <<running, handle, enabled, sensor, pending, lockdown, cooldown, broken, exposed>>

Relock ==
    /\ lockdown' = LockTime /\ cooldown' = Cooldown
    /\ exposed' = 0

\* What a check may come to: a machine that was whole for a moment, or seemed so,
\* may be taken for compromised as well (the network has changed, a probe failed).
Findings(c) == {TRUE, c.broken}

\* runWatchCheck after its probes: by now the machine may have changed, another
\* check may have locked down, and the challenge may have failed.  A probe that
\* fails is a compromised machine to it.
\* Mutant: the cooldown is started before it is looked at.
FinishCheckExtended(c) ==
    /\ checks' = checks \ {c}
    /\ \E bad \in Findings(c) :
         IF bad /\ lockdown = 0
         THEN IF cooldown > 0
              THEN cooldown' = Cooldown /\ UNCHANGED <<lockdown, exposed>>
              ELSE Relock
         ELSE UNCHANGED <<lockdown, cooldown, exposed>>
    /\ UNCHANGED <<running, handle, enabled, sensor, pending, watch, broken, blind>>

FinishCheck(c) ==
    /\ checks' = checks \ {c}
    /\ \E bad \in Findings(c) :
         IF bad /\ lockdown = 0 /\ cooldown = 0
         THEN Relock
         ELSE UNCHANGED <<lockdown, cooldown, exposed>>
    /\ UNCHANGED <<running, handle, enabled, sensor, pending, watch, broken, blind>>

\* A lockdown that a re-apply or the window asked for; it starts no cooldown.
OtherLockdown ==
    /\ lockdown = 0
    /\ lockdown' = LockTime
    /\ exposed' = 0
    /\ UNCHANGED <<running, handle, enabled, sensor, pending, watch, checks,
                   cooldown, broken, blind>>

\* A lockdown ends, whatever it has achieved.
EndLockdown ==
    /\ lockdown > 0
    /\ lockdown' = 0
    /\ broken' \in {FALSE, broken}
    /\ checks' = IF broken' THEN checks ELSE {Mended(c) : c \in checks}
    /\ blind' = 0
    /\ UNCHANGED <<running, handle, enabled, sensor, pending, watch, cooldown, exposed>>

-----------------------------------------------------------------------------
(* Time *)

Guarded == watch.active /\ enabled

\* A sensor that has been up for a while is a new one.
Aged(s) ==
    IF s.state = "retry" THEN [s EXCEPT !.ticks = @ - 1]
    ELSE IF s.state # "up" THEN s
    ELSE IF s.ticks + 1 < StableReset THEN [s EXCEPT !.ticks = @ + 1]
    ELSE [NewSensor EXCEPT !.ticks = StableReset]

\* Whatever is due comes first; the probes of a check are over by their time-outs.
Tick ==
    /\ \A v \in Vectors : pending[v] # "due"
    /\ sensor.state = "retry" => sensor.ticks > 0
    /\ watch.active => watch.left > 0
    /\ \A c \in checks : c.age < CheckTime
    /\ lockdown # 1
    /\ pending' = [v \in Vectors |-> IF pending[v] = "armed" THEN "due" ELSE pending[v]]
    /\ sensor' = Aged(sensor)
    /\ watch' = [watch EXCEPT !.left = Less(@)]
    /\ checks' = {[c EXCEPT !.age = @ + 1] : c \in checks}
    /\ lockdown' = Less(lockdown) /\ cooldown' = Less(cooldown)
    /\ blind' = IF Guarded /\ lockdown = 0 THEN AtMost(blind + 1, BlindBound + 1) ELSE 0
    /\ exposed' = IF Guarded /\ lockdown = 0 /\ broken
                  THEN AtMost(exposed + 1, AnswerBound) ELSE 0
    /\ UNCHANGED <<running, handle, enabled, broken>>

Manager == Start \/ Stop \/ Reapply \/ FailChallenge
Sensor == SensorExits \/ SpawnSensor
Check == \E c \in checks : FinishCheck(c)
Watch == Poll \/ (\E v \in Vectors : Tampered(v)) \/ Check

Next == Manager \/ Sensor \/ Change \/ Watch \/ OtherLockdown \/ EndLockdown \/ Tick

Spec == Init /\ [][Next]_vars

-----------------------------------------------------------------------------
(* Properties *)

\* The state is well typed, the counters of the timers within their periods.
TypeOK ==
    /\ {running, handle, enabled, broken} \subseteq BOOLEAN
    /\ sensor \in [state : {"off", "up", "retry", "lost"}, ticks : Nat,
                   backoff : 1..MaxBackoff, failures : 0..DownAfter]
    /\ pending \in [Vectors -> {"none", "armed", "due"}]
    /\ watch \in [active : BOOLEAN, period : {Fast, Backstop}, left : Nat]
    /\ watch.left <= watch.period
    /\ checks \subseteq [broken : BOOLEAN, age : 0..CheckTime]
    /\ lockdown \in 0..LockTime /\ cooldown \in 0..Cooldown
    /\ blind \in 0..BlindBound + 1 /\ exposed \in 0..AnswerBound

\* While the watch is on and no lockdown runs, it looks at the machine again and
\* again: a sensor that keeps dying, and arms the interval anew each time it is
\* reported down, holds it up twice at most (networkWatch.js:497 and
\* tamperWatch.js:150).
BlindSpotIsBounded == Guarded => blind <= BlindBound

\* A machine that is not as locked down, and stays so, gets a lockdown within a
\* bound, whether or not the sensor told: a change dropped by the cooldown or by
\* a running lockdown, or overlooked in an old scan of the adapters, is made up
\* for by the interval (networkWatch.js:425-441, dns.js:171).  Nothing but a
\* lockdown, or a machine that is whole again, counts as the answer.
TamperingIsAnswered == Guarded => exposed < AnswerBound

\* As long as the sensor keeps dying the watch polls fast: nothing arms the
\* slow interval again behind its back (networkWatch.js:497) but a re-apply that
\* ends after the challenge has failed, when polls do nothing any more.
DeadSensorMeansFastPolling ==
    (/\ Guarded /\ sensor.state = "retry" /\ sensor.failures = DownAfter
     /\ pending["sensor_down"] = "none")
    => watch.period = Fast
===============================================================================
