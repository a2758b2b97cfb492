# NetFast: specifications, model checking and proofs

NetFast is an accountability tool: a user pays a deposit for a challenge of some
days, the desktop app forces a filtering DNS on the machine, a background
service watches it, and a server warns once and then takes the deposit for a
second violation, or refunds it at the end. This directory holds the TLA+ model of the
parts of NetFast whose correctness depends on interleavings, crashes, retries
and deadlines, the TLC runs that check them, and the TLAPS proofs. Paths below are
relative to `src/`.

## 1. The system

### Components

| Part | State | Operations | Hard because |
|---|---|---|---|
| Offline queue `service/sync/offlineQueue.js` | `this.items`, one JSON file | `enqueue`, `flush`, constructor | `flush` awaits a send per item while iterating over the live array; flushes overlap; crash between sends and persist |
| Heartbeat and backend client `service/sync/heartbeatClient.js`, `backendClient.js` | two queues | `sendHeartbeat`, `recordViolation`, `flush` | time-outs count as offline, so requests are repeated |
| Service manager `service/serviceManager.js`, `monitors/challengeMonitor.js`, `storage/serviceState.js` | timers by name, mode, protection snapshot, service-state.json | checks, heartbeat, challenge sync, `reconcileMode`, start and stop | awaited checks and syncs against challenge changes; crash between raising a violation and saving the snapshot |
| Monitors `service/monitors/*`, `util/commandRunner.js` | listings in a shared cache, commands in flight, a file watcher | one `check()` each | results that are old when they are used, and applied out of order |
| Control API, logging, installation | token, endpoint file | HTTP routes | - |
| Violation engine `server/services/violationEngine.js` with `routes/heartbeat.js`, `routes/violations.js` | the challenge document | heartbeat, VPN report | read, change, save across awaits; repeated requests; partial failure |
| Payments and refunds `server/routes/payments.js`, `services/paymentService.js`, `jobs/refundProcessor.js` | deposit status, payment id | verify, daily job, refund | a bank call between two saves; a job over documents read earlier |
| VPN warning handler `electron/vpnViolationHandler.js`, `vpnWarningState.js` | 4 module variables, vpn-warning-state.json | poll, acknowledge, re-apply, start-up check, fail | 24 h deadline over restarts; re-apply awaits a lockdown; failing restores the system for seconds |
| Lockdown and network watch `electron/networkWatch.js`, `lockdownRunner.js`, `lockdownCore.js` | `activeLockdown`, fingerprints, cooldown | `runLockdown`, `runWatchCheck` | single-flight with joiners, guard before an await and effect after it |
| Snapshot, restoration, enforcement backup `electron/preLockdownSnapshot.js`, `systemRestore.js`, `networkEnforcement.js` | snapshot and backup files | capture, restore | partial failure, re-capture of an already locked system |
| Firewall `electron/firewall.js`, `dnsBypassFirewall.js`, `processExclusions.js`, `developerFirewall.js` | the rules of Windows, firewall-schema.json | clean up, ensure, verify, renew, remove | the rules outlive processes, modes and versions; removal next to a worker that creates |
| Adapters, DoH template, hosts, browser policies `electron/dns.js`, `networkEnforcement.js` | operating system | apply, audit, verify | rollback, strict fallback |
| Monitoring lifecycle `electron/monitoring/monitorManager.js`, `tamperWatch.js` | sensor process, back-off | start, stop, events | respawn, debounce, sensor down |
| DNS validation, checks and caches `electron/services/dns/*`, `watchdog.js`, `dnsStatusCache.js`, `functionalDnsVerification.js` | last report, three caches, single-flight promises | probes, verdicts, status, vectors | results computed before an invalidation land after it; what the badge says is spread over six files |
| Start-up, IPC, tray `electron/main.js`, `ipc.js` | boot sequence | IPC handlers | order of start-up steps |
| Renderer `src/store/challengeStore.js`, pages | polled state | poll every 30 s on the Dashboard, re-apply | a report taken from the file is posted at most once |

### How they interact

```
 renderer --IPC--> VPN handler --> lockdown (worker thread) --> operating system
    |                  |  ^                                          ^
    |                  |  +-- network watch, tamper sensor <---------+
    |  final report    +-- vpn-warning-state.json                    |
    v                                                                |
 server <--heartbeats, violations-- offline queues <-- service manager: checks
    ^
    +-- payments, daily refund job, bank, mail
```

All parts are JavaScript: one callback at a time per process, so code between
two awaits is atomic and everything that goes wrong goes wrong at an await,
between two processes (app, service, server, worker thread), or at a crash. The
models cut every operation exactly there.

### What makes each part correct

* Queue: an accepted item is delivered or kept, once, in order, within the cap;
  it leaves in the end.
* Handler: one warning, then a resolution or a failure; the warning survives
  restarts; a second attempt is a new VPN session; a deadline is enforced; a
  failed challenge stays unlocked.
* Server: one warning before a termination, one refund at most, status, deposit,
  bank and mail tell the same story; every challenge is closed.
* Service: what is monitored is what is open at the server; violations of a vector
  alternate with good results; a restart forgets none of them.
* Lockdown: whoever waits for a lockdown waits for one that runs; whatever was
  changed is on file and can be given back; what is bypassed is locked again, and
  what is locked is left alone.
* Firewall: "locked" is true, a removal leaves nothing, exceptions end with the mode.
* Monitoring: tampering is seen within a bound, with and without the sensor.
* Status: the window ends up showing the machine, and a report is about something
  that was the case.

The `hazards` of `PROJECT.json` list the lines where these can go wrong.

## 2. Modules

| Module | Models | Extends |
|---|---|---|
| `OfflineQueue` | the queue, with overlapping flushes, failing writes, crashes | standard modules |
| `VpnWarning` | the abstract promise of the warning: warned, then resolved or failed | - |
| `VpnHandler` | handler, state file, lockdown as seen by those who wait for it, watch, start-up, restarts | standard modules; instance of `VpnWarning` |
| `Escrow` | the abstract promise about a deposit: closed stays closed, one outcome with grounds, one refund | - |
| `ViolationEngine` | challenge document, handlers, payment, refund job, crashes | standard modules; instance of `Escrow` |
| `ChallengeMonitor` | challenge state and file, sync, modes, heartbeats, restarts of the service | standard modules |
| `ProtectionChecks` | checks of the service, violations in flight, the saved flags, restarts | standard modules |
| `ServiceMonitors` | the machine below those checks, the monitors with their cache, in discrete time | `ProtectionChecks` |
| `Lockdown` | what a lockdown changes on the machine and how it is undone | standard modules |
| `FirewallRules` | the rules of the Windows firewall over modes, versions and processes | standard modules |
| `Monitoring` | tamper sensor, network watch, monitor manager, in discrete time | standard modules |
| `DnsVerdict` | how answers of resolvers become a verdict: pure functions | standard modules |
| `DnsHealth` | the health check over a world that changes | `DnsVerdict` |
| `MonitorManager` | starts, stops, re-applies and failures as one lifecycle of watch, sensor and health monitor | `Monitoring`, `DnsHealth` |
| `ProtectionStatus` | how a machine becomes a verification, a badge and violated vectors: pure functions | - |
| `StatusCache` | the caches, the questions of the renderer and the screen | `ProtectionStatus` |
| `MCOfflineQueue`, `MCDnsHealth` | sets and symmetry for TLC | the module they are named after |
| `..._proofs` (of `OfflineQueue`, `VpnHandler`, `ViolationEngine`, `ChallengeMonitor`, `ProtectionChecks` with `ServiceMonitors`, `Lockdown`, `FirewallRules`, `Monitoring` with `DnsHealth` and `MonitorManager`) | theorems | the component and `TLAPS` |

### OfflineQueue

An item is its id. `items` is `this.items`, `file` the JSON file. A running
flush `f` awaits the send of `sending[f]`, the element at index `at[f]` of its
array. That array is the live one (`f \in live`) until some flush ends and assigns
the survivors to `this.items`; from then on it is a detached array, `snap[f]`.
This is the heart of the code: `for (const item of this.items)` has an index, not
a copy, and `splice` in `enqueue` moves elements down under it. `Finish`
is the end of a flush (lines 88-89); an offline answer keeps the item and the rest and
ends the flush without another await (`SendOffline`), any other answer settles
the item (`SendSettled`). `Persist` may fail silently, as `persist()` does.
`Crash` is a restart that reads the file. `flushable` says whether `reconcileMode` has set
the timer that flushes and its probe finds the backend; it changes at any time
(`ConditionsChange`). `owed`, `twice` and `hazard` are history: how often
an item was accepted but not settled, which items were settled although nothing was owed,
and which of four unguarded events happened: `overlap` (two flushes), `cut` (cap during
a flush), `disk` (crash while the file is older than the memory), `replay` (crash while a
flush is beyond its first item). The first three can lose an item, the last
only repeats uploads.

### VpnHandler and VpnWarning

`file` is vpn-warning-state.json with the fields that are read; `due` abstracts
the clock to "the deadline has passed". The four module variables keep their
names (`watch` is `networkWatchStop # null`). `processVpnCheck` is `VpnCheck`, split into
its four outcomes; it runs in both IPC handlers, and `Answer` adds what
get-vpn-challenge-state does next: it takes the report out of the file. `dashboard` says
whether the page that polls is open (`Navigate`). `RestoreDns`, `StartMonitoring` and
`StopMonitoring` are IPC calls that lock, watch or stop without a look at a failure. `reapply`, `probe`, `boot` are the pending asynchronous
functions, `lockdown` the single-flight promise with the worker's progress. A
failure is two steps: `Fail` up to the restoration and `FailDone` after it, because the
restoration takes seconds in which the worker thread goes on and the process may be
killed. The system need not be unlocked then, nor locked after a lockdown: single commands fail
unnoticed, and without an active saved challenge all are mocks. `Restart` resets
everything but the file and the system. `excuses` is history: what may lock or watch the
system of a failed challenge. The state file is written as a whole (a torn one would read
as no warning, vpnWarningState.js:28-47).

`VpnWarning` has three variables: the stage of the challenge, whether the deadline
has passed, and whether the VPN has been down since the warning. `VpnHandler` implements
it with `Stage` computed from the state file and `challengeFailed`, `late` from `due` and
`gap` from the history of the VPN; the fairness of the abstract module, a warning whose
deadline has passed is decided, is part of the property `KeepsPromise`.

### ViolationEngine and Escrow

`db` is the document; a request is its copy, what it will save and the vectors
still to do; `Saved` is what mongoose writes: the changed paths, and all of
`vectors` once marked modified. The job is `cron`, with `ahead` standing for other
due challenges before this one whose refund may throw and end the loop. A
heartbeat may be repeated (`HeartbeatAgain`), because the service resends after a
time-out. `resolveGroup` maps some vectors to group names for which the schema has
no path, so the look-up falls back to the vector's own state: the model gives each
vector its own.

`Escrow` says what all of this is for, without requests, copies or jobs: a status with the
vector it was terminated for, whether the last day is over, the vectors there are grounds
against, and the refunds of the bank. A challenge may be completed and then terminated or
the other way round (two handlers each hold an older copy), but it never opens again.
`ViolationEngine` implements it with `status` and `cause` of the document and the vectors
that have `Earned` a termination as `grounds`.

### ChallengeMonitor

`state` is the in-memory copy of service-state.json, `stateFile` the file, `mode` is
`currentMode`: the monitor timers exist in active mode only. Every change of the
state is followed by `reconcileMode` in the same synchronous block (`Update`). `sync`
holds what `challengeMonitor.sync` read before its await; the answer is applied to
whatever state is there by then, and `crossed` records that this was another
challenge. A restart loads the file, starts a sync and takes the mode of the status.
Electron's `monitoring:start` and `monitoring:stop` reach the control API, but no page
of the renderer calls them; starts and stops are therefore free.

### ProtectionChecks and ServiceMonitors

A check is a vector and what started it. `CheckDone` is everything after the awaited
probes up to the request of a raised violation, `RecordDone` the rest. `okFile` is
protection-status.json: it gets the flags of all vectors whenever some check ends
(`Finalize`), which may be while another vector's violation is on its way (`early`).
In `ProtectionChecks` the probes' results and the presence of a challenge are free, so
it needs nothing of `ChallengeMonitor`, and what holds of it holds in the composition,
which only restricts them.

`ServiceMonitors` puts the machine below: a vector is listed by a PowerShell command (VPN
adapters, virtual machines), probed by a DNS query, or read from files. `fetch` is the
promise in flight of `commandRunner.cached`, `cache` its last result with its age from
the end of the command; a check that finds one takes it. Time is the age of things in
units of one second: `Tick` is disabled while something that is due has not happened.
`sees` is what each check was answered; it is applied when the check runs on, which for
a DNS probe may be after a later one (`behind`).

### Lockdown

`nic` is an adapter: its servers, and whether its IPv6 binding is on; `fw` the firewall as one
bit and the raw rules one by one, `extras` the DoH template, NRPT and tunnels. `snapshot` and
`backup` are the two files. `ld` is the lockdown in the worker thread, one phase per
batch of PowerShell calls, with the copy of the backup it read at its start
(`ld.stale`, networkEnforcement.js:944); `restoring` is `restoreSystem` of the main process, which
has a copy of its own. Any step may be the last (`Restart`). Commands of a restoration all work,
some fail, or all are mocks, because the challenge is no longer active (`Commanded`,
`RulesLeft`): each adapter then has the setting it had or the one it was to get. Files
are written as a whole (`saveBackup` is a plain `writeFileSync`, networkEnforcement.js:87-90).
That the watch also locks down after a change of networks is left to `Monitoring`. History: `own` (what the user
had), `held` (adapters NetFast has changed), `lost` (entries a stale copy has overwritten), `moved`
(settings changed by the user after they were saved), `missed` (what the last restoration
did not give back).

### FirewallRules

The rules are a function to absent, off, on, over six groups: allow (DoH and plain), block
(bypass), raw, the block-all rules of an older version, one exempt and one developer rule
per program. The worker goes group by group (`Clean`, `EnsureCore`, ..., `Judge`, `Deferred`);
`Ensured` is `ensureFirewallRule`: present, enabled by a command, or created. Commands fail by
choice (`Failing`), within the bound. `main` is the main process with its removal and with what
it remembers of the last refresh; `schema` the file that says when the cleanup ran. `Restart`
may change the mode.

### Monitoring

The sensor process, its restart timer and back-off, its stable timer and its failure
count; the interval of the watch and its mode; checks in flight with the time of their
cooldown; the manager's `running` and its four entry points. `blind` and `exposed` are
history in ticks: since the watch last looked, and since the machine was not as
locked down and no lockdown began. Ticks count the time the event loop is free: the rule
refreshes of a poll and a restoration are synchronous, hold up all timers alike
and come on top. A check takes up to `CheckTime` and may read the adapters from a scan that is
`ScanAge` old; what it reads only counts if it was the same all the while.
A probe that fails is a compromised machine (`Findings`).

### MonitorManager

monitorManager.js and vpnViolationHandler.js both start and stop the monitors, each with a
stop function of its own, and a lockdown of the watch ends with a health check. Each of
these handlers is synchronous where it touches watch and health monitor, so it is one step
of `Monitoring` and one of `DnsHealth` (`StartMonitors`, `StopMonitors`, `ResumeMonitors`,
`FailMonitors`, `LockdownOver`); everything else is a step of one of them (`WatchAlone`,
`HealthAlone`). Watch and health monitor exist once per process: `startNetworkWatch`
arms one interval, `getDnsHealthMonitor` returns one object.

### DnsVerdict and DnsHealth

`Wire` and `Json` are the two readers of a DoH answer, `Judge` is `evaluateDomainProtection`,
`Summary` `runDohHealthSummary`, `Validation` the decision of `runFullValidation`. `DnsHealth` runs
them over a world that changes between two probes: `check` has the judgements so far. App
checks skip the restricted domains, diagnoses do not. The validator hands its DoH client
on, which reads the wire format; `health-doh` (cli.js:58, ipc.js:536) has none, so each of its
queries reads JSON, or the wire format if that fails. `Diagnose` does both: `status`
is that of a full validation, `final` that of `health-doh`.

### ProtectionStatus and StatusCache

A machine is the set of what is wrong with it (16 faults). `Verified` is
`buildVerifyDnsResult`, `State` and `Warns` are `buildProtectionUiStatus`, `Badge` adds the label the
dashboard looks at first, `Violated` is `buildFullCheckResult` over the watchdog's checks. In
`StatusCache` an entry has a value, is fresh or not, and has a refresh in flight with the
machine it read; `functional` is the probe's own cache, `health` the last report. A question
of the renderer is answered from the cache, or waits for the refresh; `screen` gets
both answers at once. Durations are left open: anything fresh may become stale at any time.
The store has three writers of that screen (`loadAll`, `refreshVectors`, `reapplyVpnProtection`); the
model has the second, which is the one that polls.

## 3. Runs

| Run | Checks | Instance |
|---|---|---|
| `offline_queue` | `TypeOK`, `Conservation`, `NoDuplicateIds`, `CapHolds`, `FIFO` | 3 items, cap 2, 2 flushes, 4 enqueues, 2 crashes, failing writes, symmetry |
| `offline_queue_live` | `EverythingLeaves` | 3 items, cap 2, 1 flush, 4 enqueues, 2 crashes |
| `vpn_handler` | `TypeOK`, `SecondAttemptIsANewSession`, `WarningOutlastsRestart`, `OneWarning`, `FailedStaysRestored`, `DeadlineIsEnforced`, `KeepsPromise` | 2 re-applies, 1 restart; polls, IPC calls and VPN toggles unbounded |
| `violation_engine` | `AtMostOneRefund`, `TerminationIsEarned`, `BooksAgree`, `WarningsStand`, `EveryChallengeCloses` | 2 vectors, 2 requests at a time, 3 in all, 1 crash, 1 other challenge |
| `challenge_monitor` | `IdleWithoutChallenge`, `ClosedAtTheServer`, `ClosureIsNoticed`, `MonitoringResumes` | 2 challenges, no counters: starts, stops, answers, failed writes and restarts are unbounded |
| `protection_checks` | `AlarmOnce`, `AlarmsOutliveCrashes` | 2 vectors, 2 overlapping checks of each, no counters |
| `service_monitors` | `NoticedInTime`, `OneAlarmPerSession` | 1 vector of any of the three kinds, period 4, delays up to 3, 2 faults |
| `lockdown` | `OriginalsAreSaved`, `RestoreReturnsOriginals`, `LockedInTheEnd`, `WatchComesToRest` | an adapter in use and one to plug in, 2 raw rules, 2 events of the environment |
| `firewall_rules` | `LockedIsTrue`, `RemovalIsComplete`, `ExceptionsEndWithTheMode` | 1 rule per group, 1 program, all three modes, 3 events |
| `monitoring` | `BlindSpotIsBounded`, `TamperingIsAnswered`, `DeadSensorMeansFastPolling` | durations scaled, see below |
| `dns_health` | `ReportIsTrue`, `DiagnosisFindsOpenDomains`, `NewsArrives` | 1 domain of each kind, 4 answers, 2 layers, no counters |
| `status_cache` | `ScreenSettles` and the assumption `StatusIsTrue` | 2 machines, strict mode, 1 change, 1 failed refresh; the assumption: every machine in every mode |

`MonitorManager` has no run: the product of its two modules has some millions of states on
the smallest instance. TLC finds `OneLifecycle` and the invariants it rests on true there,
and they are theorems. The same goes for `KeepsEscrow`, which would add half a minute to the longest run.

Every property has at least one change of a modelled definition under which TLC finds it
violated (`mutants` in `PROJECT.json`): a dropped guard, a missing reset, a swapped
order.

### What the properties say

The comment above each definition states it in full. Those that need a second look:

* `Conservation`: an item that was accepted and not settled is in line, wherever the service
  crashes, unless two flushes overlapped, the cap cut the array during a flush, or a failed
  write preceded a crash; and nothing else is in line and no item is settled twice, unless
  besides these a crash met a flush beyond its first item. An upload whose answer was lost
  is not counted: the client cannot know of it.
* `EverythingLeaves`: if the challenge stays active and the backend in reach from some time on.
* `FailedStaysRestored`: the system of a failed challenge is locked only by what was in flight
  when it failed, by a restoration of which a step failed, or by an IPC call that does not
  look at the failure; and watched only by the first and the last.
* `DeadlineIsEnforced`: while the Dashboard is open. Elsewhere nobody looks until the next
  start, re-apply or visit to the Dashboard.
* `KeepsPromise`: `VpnHandler` implements `VpnWarning`; the fairness of that module, a
  warning whose deadline has passed is decided, holds if the user stays on the Dashboard.
* `BooksAgree`: status, deposit, bank and mail of a challenge tell one story.
* `OriginalsAreSaved`: what NetFast has changed on an adapter is in the backup
  with the user's values (guards `lost`, `moved`); `RestoreReturnsOriginals`: a
  restoration that no lockdown disturbed gives these back, to every adapter its commands did not
  miss (`missed`; all of it if the challenge is not active); `WatchComesToRest`: with no more
  events the watch stops locking down again, unless an adapter has no IPv6 binding.
* `LockedIsTrue`: when the worker reports "locked" every allow and block rule is there and
  enabled and no block-all rule is left, unless someone changed rules after the
  lockdown began (`disturbed`). Where the code itself goes wrong is in section 5.
* `NoticedInTime`: a violation that lasts is raised within `2*Period + 2*MaxDelay - 2`
  ticks, `OneAlarmPerSession`: and once, unless answers were applied out of order
  (`behind`); both unless a reading failed (`misled`, which is never taken back, so behind a
  failed reading the run says nothing more about that behaviour).
* `BlindSpotIsBounded`: the watch looks at the machine at least every
  `Backstop + 2 * Fast` ticks (360 s) whatever happens to the sensor, because two reports that
  it is down can arm the interval anew just before it fires; `TamperingIsAnswered`: and
  within a cooldown and a check more (420 s and the duration of a check, in which only the time the
  event loop is free counts) a lockdown begins, unless the machine is whole again.
* `DeadSensorMeansFastPolling`: while the watch is on and enforcement is not disabled, a
  sensor that keeps dying leaves it polling fast (section 5 has the case the guard excludes).
* `ReportIsTrue`: as long as the world is as the check found it, the app's report says exactly
  whether the provider is down and whether a safe domain is tampered with.
  `DiagnosisFindsOpenDomains`: a diagnosis that says "protected" found every restricted
  domain that is open, but for two holes the property names: `Silent`, and for
  `health-doh` only `ReadAsBlocked`. `NewsArrives`: a world that
  stays is reported in the end.
* `ScreenSettles`: a machine that stays as it is, with an app that stays awake, ends up on the
  screen, badge and vectors. Together with `StatusIsTrue`, which compares badge and
  vectors of all machines with what they ought to be, the screen ends up true.

### Why the bounds are enough

Queue: a cap of two with three items is the smallest instance in which the cap cuts an
array under an iterator, and two flushes the smallest overlap; a third flush
behaves to the second as the second to the first. Handler: only the counter of restarts is
bounded; everything else is finite by itself. One restart separates every pair of
steps; two re-applies suffice for one to finish under the other. Service: two challenges
are the one asked about and the one that is current when the answer comes; two vectors
are the one in flight and the one that saves the flags, and the theorems do not depend on
these numbers. Server: three requests are the warning, the second detection and one
that interferes; a fourth only repeats. Lockdown: one adapter that is there from the
start and one that arrives later are the two cases the backup distinguishes; two raw rules
show a failure between them; the adapters do not interact otherwise. Firewall: rules
of a group are created, judged and removed by the same loop, so one of each group stands for all; an
event is a restart, a rule changed by hand or a failing command, and three of them allow a
failure in one mode, a restart into another and a second failure there. Monitoring: the
durations keep the order and the equalities of the real ones (first back-off 2 s < longest
back-off and polling while the sensor is down 30 s < stable reset and cooldown 60 s <
backstop 300 s). In the code the back-off doubles with each of four failures, so the first
report of a dead sensor comes before the back-off is at its longest and the second after;
scaled to 1, 2, 3 ticks and two failures it does, too. The theorems hold for all durations
with this property (`BackoffAssumption`), the real ones included. `ScanAge` is the 5 s cache of the adapter scan
(networkEnforcement.js:15, read at dns.js:171), one tick here; `CheckTime`, 3 ticks, is assumed: the probes have time-outs of 15 s
(powershell.js:51), the netsh listing has none. The bound of the property grows with it, and
the theorem holds for any value. The run has no other bound. Monitors: delays shorter than the
period, as the commands' time-outs are, and a vector alone, because vectors share nothing here. DNS: one safe, one
adult and one domain unknown to the filter are the three roles of the lists; the four answers are
those the judgement and the two readers tell apart. Status: the two
machines differ in everything the badge depends on, and one change is what the property
is about (the machine before, the machine after).

Symmetry is used only in a run without liveness properties and only over sets whose
elements the model never tells apart.

CHECK_DEADLOCK is FALSE where bounded counters run out or there is nothing left to do
(queue, server, lockdown, firewall); the other runs check deadlock. In the two modules with
discrete time a deadlock would be a `Tick` that waits for something nobody can do.

### Fairness

* Queue (`FairSpec`): while its timer exists and its probe finds the backend (`flushable`),
  a flush starts when none runs and there are items. Nothing starts one otherwise:
  the timer exists in active mode only (serviceManager.js:302-311) and the flush is gated
  by the probe (heartbeatClient.js:57). A send ends within the request time-out
  (serviceConfig.js:65), and strong fairness of `SendSettled`: a backend that is
  asked again and again is reachable again and again. Without the last the property is
  plainly false: an offline backend keeps everything queued.
* Handler: the renderer polls every 30 seconds while the Dashboard is mounted
  (Dashboard.jsx:102-122; weak fairness of a check while `dashboard`). The other poll,
  `startHeartbeat` (challengeStore.js:129), has no caller. Synchronous PowerShell calls
  return within their time-outs. Nothing is assumed of lockdowns, re-applies, watch checks or
  the user, who may leave the Dashboard for good.
* Challenge monitor (`FairSpec`): the challengeSync timer runs in both modes
  (serviceManager.js:341), a request ends within its time-out, and strong fairness of
  `SyncReplies`: a backend that is asked again and again answers again and again.
* Server: the job is scheduled daily and its awaited calls return or throw.
* Lockdown: the worker's commands return, a restoration goes on, and the watch
  looks when it is due (weak fairness of each). Commands may fail at any time; nothing
  is assumed of the user or of restarts.
* DNS health: probes have time-outs, and the timer of the health check fires.
* Status: timers and time-outs again: start-up, expiry of the functional cache, health
  checks, questions every 30 s, refreshes that end, entries that expire (each weakly fair). The
  questions come from the Dashboard, the only page that shows this screen, while it is mounted.
* Monitoring and monitors: none. Time passes only when nothing is due (`Tick` is disabled
  otherwise), and what must happen in the end is stated as a bound, a safety
  property of the history variables.

## 4. Proofs

All proofs are for every value of the constants and are checked by TLAPS from
nothing (SMT, Zenon and LS4 backends). The inductive invariants were checked by TLC first.

`OfflineQueue_proofs`. `IInv == TypeOK /\ CapInv`. `TypeOK` alone is inductive for the
types but not for its last conjunct: that the iterator index of a live flush stays
inside the array needs that an enqueue never shortens the array (`PushFacts`) and
that a flush that ends detaches the others with the array they had. `CapInv` extends
the cap to the detached arrays: survivors are a suffix of the array a flush iterates
over (`SurvivorFacts`), so the cap of `this.items` after an overlap rests on the cap
of arrays nobody else sees any more. Theorems `TypeCorrect`, `CapSafe`.

The line itself needs three more invariants on top. `UniqueInv`: no array, attached or
detached, has an id twice, which includes the file and what a flush puts back. `LoneInv`:
undisturbed, at most one flush runs and its array is the live one, so that what it
puts back is what everybody else sees. `Conservation`: what is owed is what is in line behind the
iterator, without `replay` exactly, with it at least: a crash puts back what a flush had
settled, and takes nothing away. The last needs both others: a settled item leaves the line because it was
there once, and nobody else puts it back. `FIFO` is an action property and is proved from
the same facts about suffixes (`RestFacts`, `RestElems`). Theorems `IdsUnique`, `BacklogConserved`,
`OrderKept`.

`VpnHandler_proofs`. `IInv` is `TypeOK` and five named parts: `FailureInv` (what
`challengeFailed` says of file, history and restoration), `WarningInv` and
`OutstandingInv` (the file against the history of warnings), `SessionInv`
(`hadVpnClearedOnce`, a resolution or a down VPN against the gap since the warning) and
`QuietInv` (unless something was in flight at the failure or a page asks for it afterwards,
nothing gets in flight; the lock may be left by a restoration that missed a step). None of
the four safety properties is inductive: for example a second attempt is decided by
`clearedOnce` and `resolved` in the file, so the proof must carry what those fields
say about the past through restarts that forget `lastVpnActive`. There is one step per
action, and under it one per conjunct the action can disturb. Theorems `TypeCorrect`,
`SecondAttemptSafe`, `WarningSafe`, `OneWarningSafe`, `FailedSafe`.

The refinement is in the same module. `PromiseKept`: every behaviour of `VpnHandler` is one of
`Warning!Spec`, the safety part of the promise. `InitRefines` and `StepRefines` map initial states and steps; the
latter uses `IInv` and `FileInv`, which ties the fields of the
state file to each other (a pause or an expiry is that of a warning) and to `challengeFailed`.

`ChallengeMonitor_proofs`. The two safety properties speak of the state, but a restart
replaces the state by the file, which after failed writes may be any earlier one.
The invariant `BothSound` therefore says the same (`Sound`) of both, and is stable because
the server never reopens a challenge (`ClosingIsSound`). Theorems `TypeCorrect`,
`IdleWithoutChallengeHolds`, `ClosedAtTheServerHolds`.

`ProtectionChecks_proofs`. `AlarmOnce` rests on `GoodIsCalm`: a flag that is good had a
good result since the last violation. `AlarmsOutliveCrashes` needs three parts
(`SafeFlight`): the file is never worse than a good flag (`FileFollows`), a violation in
flight has a check that waits for it (`FlightHasACheck`) and is not on file
(`FlightIsNotOnFile`); `FinalizeClean` says what a save that met no hazard leaves.
Theorems `TypeCorrect`, `AlarmOnceHolds`, `AlarmsOutliveCrashesHolds`.

The monitors below the checks are in the same module. `MonitorsRefineChecks`: whatever the monitors
answer, the checks do what `ProtectionChecks` says, so its types and theorems hold here,
too. `MonitorsInv` has four more parts. `ReadingInv`: a cached listing and a running one exclude each
other, and an answer not yet applied is that of the cache, or of the machine. `RaisedInv`: while
what a violation was raised for lasts, nobody holds a better result (`NoGood`), neither cache
nor command nor check. `StaleInv`: a better result from before the change is at least as old as the
change, counted from the end of the command at most `MaxDelay` later. `NoticeInv` is a
chain of deadlines: the timer is due in time (`Due`), or its check is answered, asks the
resolver or waits for a listing (`Answered`, `Resolving`, `Listing`), each with the time it has
left, or the flag is down and stays so (`Known`). What makes the bound
hold is in the first link: a timer whose check was answered with an old listing (`TimerAsks`)
got that answer early enough for its next check to fall inside the bound. Theorems `MonitorsTypeCorrect`, `OneAlarm`, `Noticed`.

`Lockdown_proofs`. `IInv` is `TypeOK`, `Core` (the copies of the backup that worker and
restoration hold are sound, every adapter NetFast holds has its original kept, every
other is untouched, and so are the IPv6 bindings), `SnapshotFirst` (nothing is changed before the snapshot is on file), and
what the phases of the worker and of the restoration guarantee (`WorkerSound`,
`RestoringSound`: every phase leaves what it undoes undone, or noted in `missed`). A
restoration may be mocked or half done, so what is true of it is true of each adapter:
whatever commands fail, one that is no longer held has been given back (`RestoreAdaptersSound`). The properties speak of the backup file, but each phase writes it from a
copy taken earlier: the proof must say of the copies what it says of the file, and
name the one step where this fails (`lost`). Theorems `TypeCorrect`, `OriginalsSaved`,
`RestoreReturns`.

`ViolationEngine_proofs`. `IInv` is `TypeOK` and six parts. `Shaped`: what a request is about to
save is its own copy with one warning, one termination or one payment more, and nothing else.
`RefundInv`: while the job is at the bank the challenge is closed and past its last day, so
no second run and no request finds it open. `DetectionInv`: every vector with a warning,
given or about to be saved, and every vector that still waits in a request has a detection
of its own; two requests that wait for the same vector have two. This is why requests that
overwrite each other's warnings still cannot terminate for one detection: a lost warning
makes the server too lenient, never too strict. `CauseInv`: whoever terminates names
a vector that has earned it. `AloneInv`: without a hazard whoever holds a copy holds the document.
`BooksInv`: `BooksAgree` with what a deposit and a mail say of the payment and the warnings.
The first theorems hold with overlapping handlers, the last two until they overlap. Theorems
`TypeCorrect`, `OneRefund`, `TerminationEarned`, `BooksCorrect`, `WarningsAreKept`.

The refinement of `Escrow` is in the same module (`EscrowKept`). It excludes no hazard: copies may be
saved over each other at will. A save maps to a termination or to nothing, a payment to
nothing, the job's first save to a completion, its call of the bank to a refund; whatever looks at the
document only adds grounds (`Accuse`), because detections never fall. What has to be added
to `IInv` is `ClosedInv`: who works on the copy of a closed challenge works on a closed challenge. With it a
save that found the status "terminated" already, and so does not save the status but only a new
cause, still hits a closed document. The mapping does not say which outcome wins, since the code
does not: that is `BooksCorrect`, without overlap.

`Monitoring_proofs`. None of the three properties of `Monitoring` is inductive, and two are about time. The argument is about
`Level == blind + watch.left`, how long the watch will not have looked when its interval
fires. Time leaves it as it is; only a report that the sensor is down raises it, by arming the
interval anew with the fast one. `BlindInv` counts the reports: none, and `Level` is within the
backstop; one, and it is within one fast interval more; two, and then the next report comes after
the interval has fired, because from the second on the sensor waits for at least
`Fast` before it can die again (`Quieted`). For that `SensorInv` keeps the ladder of the back-off:
how long it is after 1, 2, 3, 4 failures. `BackoffAssumption` says that the ladder has
reached the fast interval when the sensor is reported down, which is so for the constants of the code;
with a longest back-off below it a dying sensor could hold up the polls for ever. `ManagerInv` says
who may arm the slow interval while the sensor is down (only a re-apply that ends after the challenge has failed), and `ExposedInv` turns
blindness into exposure: until the cooldown is over as long as the cooldown, then as long as
the watch is blind or a check is under way that will see it. Whether it will is decided by
what was exposed when it read, hence `CheckTime` and `ScanAge` in the bound. Theorems `TypeCorrect`, `BlindBounded`,
`FastPolling`, `Answered`.

The health monitor is in the same module. `HealthInv` is `HealthTypeOK`, the two properties and
`CheckInv`: as long as the world has not changed under a check, what it has stored is what
the world says, the answer of the provider and the judgement of every domain it no longer
has to do. At the end of the check (`Finish`) this turns the report into a function of one
world, and lemmas about `Judge`, `Summary` and `Validation` say which statuses it can
have. A change of the world takes the claim back, never the report. The
proof is for any domains, answers and layers, so the three-domain
instance of the run leaves nothing out. Theorems `HealthTypeCorrect`, `ReportTrue`, `DiagnosisTrue`.

The composition comes last. `ManagerSteps`: every step of `MonitorManager` is a step of the watch, of
the health monitor or of both. Hence `WatchImplemented` and `HealthImplemented`, and all theorems
of the two modules hold of the whole. `LifecycleShared` is about the two together and uses the
invariants of `Monitoring`, because who may start what depends on the handle.

`FirewallRules_proofs`. `IInv` is `TypeOK`, the properties and four parts that follow the phases of the
worker and of the removal. `OrderInv`: one of them at a time, or the worker has been disturbed.
`LockInv`: an undisturbed lockdown past the group of the allow rules has them all on, but for the
ones it noted as failed, and so on group by group; the list `Judge` looks at is the rules that are there,
or empty because the listing failed. `DevInv` does the same for the exceptions of a program in
strict mode, `RemovalInv` and `RemovedInv` for the groups a removal has taken down. The verdict is
true although a failed listing reads as "no rules", and the proof shows why: with no rules listed the
expected ones are missing and the verdict is "open" - if there are expected rules, hence `Core \cup Bypass # {}` in
`FirewallAssumption`, along with the groups being told apart by the names of their rules.
Theorems `TypeCorrect`, `VerdictIsTrue`, `RemovalWhole`, `NoExceptionInStrictMode`.

Only model-checked:

* everything that needs fairness (the liveness properties and the fairness part of
  `KeepsPromise`), which is out of the prover's reach;
* the verdicts of `ProtectionStatus` (`StatusIsTrue`): TLC compares them with their definitions for
  every machine in every mode, so there is no larger instance to prove;
* `StatusCache`, whose property is liveness.

## 5. Disagreements between the code and its documentation

None is a run of its own: each shows in a passing run as the guard without which TLC
refutes the property, or as the exception the property names.

Queue and service

* An item can be skipped by a flush and dropped unsent when the cap cuts the array under
  the iterator (offlineQueue.js:61; the comment at :6-9 says nothing is lost): `cut`.
  Overlapping flushes upload an item twice (:55, against :7): `overlap`.
* A flush writes the file at its end only (:89). After a crash during a flush everything it had
  delivered is uploaded again (against :6-7, "no duplicate uploads"): `replay`.
* What is queued when a challenge ends is not lost, but stays queued until the next one: the
  timer is cleared with the challenge (serviceManager.js:88 and 302).
* The answer about a closed challenge switches off the monitoring of the next one until the next
  sync (challengeMonitor.js:61, against "The service must always know whether a challenge
  is active", :7), and a second such answer leaves an active status without a challenge,
  which no sync corrects: `crossed`.
* The flags saved by one check can make a restart forget another vector's unsent
  violation (serviceManager.js:239): `early`.
* A listing that fails reads as "no VPN", so the session that goes on is a second violation:
  `misled`. A DNS query that times out counts as "not blocked" (dnsMonitor.js:58-66), so an
  outage of the network is a violation, and the branch for inconclusive results (:84-89) is not
  reached; the app's own probe takes the same time-out for "blocked"
  (functionalDnsVerification.js:40). A late DNS result applied after a newer one raises
  a second violation: `behind`.

Handler and server

* The final report is deleted with the state file before it is delivered
  (vpnViolationHandler.js:143-144, against VPN_DETECTION_REAPPLY.md:35 and 48).
* A failed challenge's system is locked again by start-up or by a lockdown in flight
  (main.js:347, networkWatch.js:290, against VPN_DETECTION_REAPPLY.md:151): `inflight`; by
  `restore-dns` and `monitoring:start`, which do not look at the failure (ipc.js:481 and 227;
  exposed to the renderer, though no page calls them): `asked`; and it stays locked when steps
  of its restoration fail, which reports `systemRestored: true` all the same
  (systemRestore.js:70-124): `unfinished`.
* The deadline of a warning is enforced by the poll of the Dashboard, a start or a re-apply. On
  another page or in the tray nobody looks (Dashboard.jsx:102-122, against the 24 hours of
  VPN_DETECTION_REAPPLY.md:33): `dashboard` in `DeadlineIsEnforced`.
* One detection reported twice terminates the challenge (violationEngine.js:105; the mail
  says "a second detection will terminate", emailService.js:33 and 56): `repeated`.

Lockdown and restoration

* Enforcement that failed reports `rolledBack: true` (networkEnforcement.js:1043, dns.js:293), but the
  rollback uses the copy of the backup read before the merge (944 and 1034), which has no
  entry for a new adapter (IPV4_IPV6_ENFORCEMENT.md:293-297).
  Strict fallback saves that copy (994-996), and the entry is gone: `lost`. A restoration that
  loads, removes and saves (862-870) can overwrite a merge the same way.
* The snapshot is taken once and never again, and an entry of the backup is never
  renewed: what the user changes later is not given back: `moved`.
* The audit does not know of strict mode (dns.js:137): without an IPv6 binding the watch
  locks down again for ever. It is the exception of `WatchComesToRest`.
* A restoration while the challenge is not active is a mock: no command runs
  (powershell.js:16-18, firewall.js:115-117). While it is, single commands fail unnoticed
  (preLockdownSnapshot.js:127 and 167, networkEnforcement.js:841). Both report
  `systemRestored: true` (systemRestore.js:124): `missed`.
* A challenge that ends normally is not restored (IPV4_IPV6_ENFORCEMENT.md:167-175); a
  quit removes firewall and NRPT only, and not if the challenge is over.

Firewall

* `applyRawDnsBlockRules` that fails midway removes rules that were there before
  (dnsBypassFirewall.js:173, HARDENED_DNS_ENFORCEMENT.md:179-187).
* The raw rules are verified after the verdict `firewall` is computed, and removed then if
  incomplete (lockdownCore.js:58-100).
* The fast path of a refresh looks at names only, so a disabled rule passes, and in strict mode
  it leaves developer rules alone (DEVELOPER_MODE.md:326-333 says they are removed).
* Without an active challenge a removal skips most rules. The time of the stale cleanup is saved
  before the cleanup (firewall.js:297-312): if that fails the next one is a day later.

Monitoring, DNS and status

* A sensor that cannot be spawned emits `error` and no `exit` and is not tried again
  (tamperWatch.js:141, against :17); the backstop bounds the harm, which is what
  `BlindSpotIsBounded` says. A report that the sensor is down arms the interval anew
  (networkWatch.js:497), so a sensor that dies at the right moments holds up the next look at
  the machine by up to a minute.
* A re-apply that is in flight when the challenge fails starts watch and health timer again
  (vpnViolationHandler.js:285-292 does not look at `challengeFailed`, against
  `stopEnforcementLoops`, :42): the watch is on its slow interval and does nothing, because
  enforcement is disabled; the health checks go on. It is why `DeadSensorMeansFastPolling`
  is about a guarded machine.
* `getDnsHealthMonitor` ignores its argument once the monitor exists
  (DnsHealthMonitor.js:293-299). The start-up lockdown asks it for a check
  (networkWatch.js:375) before `monitorManager.start` passes `onStatusChange`
  (monitorManager.js:84), so after a start with enforcement that callback is not
  installed and reports of the health monitor are not broadcast.
* The JSON reader takes an empty answer for a block (dohHealth.js:44), and the answers for A and
  AAAA are merged (domainProtection.js:94). So `health-doh` (cli.js:58, ipc.js:536), which has no
  DoH client, passes an open domain without IPv6 addresses as blocked, and takes a safe domain
  without them for blocked: `ReadAsBlocked`.
* The text of DEGRADED says that fallback blocking is in force (DnsValidator.js:390), the
  code below decides otherwise (420-432).
* `health.summary` does not exist at the top level (dns.js:494 and ipc.js:99 read it). With
  the filter leaking, the badge says "Protected with warnings" as long as the
  provider is reachable (ipc.js:113-118), although `buildLockdownStatus` calls
  functional filtering authoritative. `TrueBadge` states what the code does, and
  `ScreenSettles` that the window gets there.
* A refresh in flight survives an invalidation (dnsStatusCache.js:74), and a failed verification is
  cached as a fresh one: the screen is wrong for a while, not for good.

## 6. Plan

Done: the protocols of queue, service, handler, server, lockdown, firewall, monitoring and
status, abstract specifications of the warning and of the deposit with their refinements, the
composition of the monitors, and the proofs. Next:

1. `ChallengeFlow`: renderer, control API and service. `syncChallengeState` runs on page
   mounts only, start and stop are requests nobody waits for, and may be
   reordered.
2. The heartbeat client's two queues with the token, composed with `ChallengeMonitor`: a
   queue flushed before there is a token is settled by a 401.
3. `Accountability`: service, handler and server composed, against "warned, then 24 hours, then
   terminated or resolved".

The safety and action properties of the runs are all proved; what the provers can reach beyond them
are the compositions above.

## 7. Not modelled

* Presentation and I/O: React pages and vendored UI components, Windows service
  installation, `stop()` and the health tick of the service, log rotation, static files,
  account routes, texts of the Docker, WSL and Mongo diagnoses.
* `ChallengeFlow` and the token, see the plan.
* Dead code: `isHostsFileEnforcementEnabled()` is constantly false, so most of hosts.js
  (219-620), mongoDns.js (424-545), systemRestore.js (16-50), the watchdog's hosts check
  (195-222) and `syncHostsIfEnabled` never run.
* PowerShell and netsh scripts are represented by their effect. Policy modes are modelled where they decide
  something (`FirewallRules`, `ProtectionStatus`); elsewhere the mode is strict and the
  enforcement real. With mock enforcement nothing is changed and nothing can be checked.
* Liveness in real time: where time matters (`Monitoring`, `ServiceMonitors`) it is counted in
  ticks, elsewhere a time-out may fire at any moment.
