------------------------------- MODULE Lockdown -------------------------------
(***************************************************************************)
(* What a lockdown changes on the machine and how it is undone:            *)
(* lockdownCore.js in its worker thread with networkEnforcement.js, dns.js, *)
(* firewall.js and dnsBypassFirewall.js, and systemRestore.js with          *)
(* preLockdownSnapshot.js in the main process.  The two share two files,    *)
(* the pre-lockdown snapshot and the enforcement backup, and the machine.   *)
(*                                                                         *)
(* An adapter has one value for its DNS servers (the address families are   *)
(* set and restored together) and its IPv6 binding; without the binding it  *)
(* lists no IPv6 servers.  Firewall rules other than the raw DNS blocks are *)
(* one bit.  A worker step is one batch of PowerShell calls; main-process   *)
(* steps and kills come in between.  Every command asks first whether the   *)
(* challenge is active and is mocked if not, and a file is written as a     *)
(* whole.                                                                   *)
(***************************************************************************)
EXTENDS Naturals

CONSTANTS
    Adapters,     \* network adapters (loopback left out)
    Up,           \* those with Status = Up
    Rules,        \* the raw DNS block rules of dnsBypassFirewall.js
    MaxEvents     \* bound: failures, kills, requests and acts of the user

ASSUME LockdownAssumption ==
    Up \subseteq Adapters /\ Up # {} /\ Rules # {} /\ MaxEvents \in Nat

VARIABLES
    nic,          \* [Adapters -> Settings]: the machine's adapters
    fw,           \* core: allow and bypass rules; raw: the raw DNS block rules
    extras,       \* browser policies, Windows DoH and NRPT, tunnels: NetFast's
    snapshot,     \* pre-lockdown-snapshot.json
    backup,       \* enforcement-network-backup.json
    ld,           \* the lockdown in the worker thread
    restoring,    \* how far restorePreNetfastSystemState is, with its backup copy
    main,         \* main process: booted, applied, failed, watch
    active,       \* the saved challenge is active (challenge-cache.json)
    events,
    (* History, read by the properties and by the acts of the user. *)
    own,          \* the user's settings
    held,         \* adapters NetFast changed and has not given back
    lost,         \* adapters whose backup entry a stale copy has overwritten
    moved,        \* adapters whose settings the user changed after they were saved
    missed,       \* what the last restoration has failed to give back
    restored      \* a restoration met no lockdown, and none began since

machineVars == <<nic, fw, extras>>
fileVars == <<snapshot, backup>>
historyVars == <<own, held, lost, moved, missed, restored>>
vars == <<machineVars, fileVars, ld, restoring, main, active, events, historyVars>>

UserDns == {"home", "work"}
Settings == [dns : UserDns \cup {"cb"}, v6 : BOOLEAN]
NotSaved == [dns |-> "none", v6 |-> FALSE]
Saved == [Adapters -> Settings \cup {NotSaved}]
NothingSaved == [a \in Adapters |-> NotSaved]
NoBackup == [strict |-> FALSE, saved |-> NothingSaved]
Extras == {"chromium", "doh", "tunnels"}

Phases == {"idle", "snapshot", "prepare", "enumerate", "merge", "apply", "verify", "strict",
           "disable", "judge", "firewall", "raw", "tunnels", "finish"}
Firewalls == [core : BOOLEAN, raw : SUBSET Rules]
Backups == [strict : BOOLEAN, saved : Saved]
Workers == [phase : Phases, startup : BOOLEAN, strict : BOOLEAN, stale : Backups, rows : Saved,
            targets : SUBSET Adapters, todo : SUBSET Adapters, stuck : SUBSET Adapters,
            rawOk : BOOLEAN]
Restorations == [phase : {"idle", "remove", "snapshot", "backup", "save"}, copy : Backups]
Processes == [booted : BOOLEAN, applied : BOOLEAN, failed : BOOLEAN, watch : BOOLEAN]

Idle == [phase |-> "idle", startup |-> FALSE, strict |-> FALSE, stale |-> NoBackup,
         rows |-> NothingSaved, targets |-> {}, todo |-> {}, stuck |-> {},
         rawOk |-> FALSE]
NotRestoring == [phase |-> "idle", copy |-> NoBackup]

Init ==
    /\ own \in [Adapters -> [dns : {"home"}, v6 : BOOLEAN]]
    /\ nic = own
    /\ fw = [core |-> FALSE, raw |-> {}] /\ extras = {}
    /\ snapshot = NothingSaved /\ backup = NoBackup
    /\ ld = Idle /\ restoring = NotRestoring
    /\ main = [booted |-> FALSE, applied |-> FALSE, failed |-> FALSE, watch |-> FALSE]
    /\ active = TRUE /\ events = 0
    /\ held = {} /\ lost = {} /\ moved = {} /\ missed = {} /\ restored = FALSE

-----------------------------------------------------------------------------
NeedsFix(s, strict) == s.dns # "cb" \/ (~strict /\ ~s.v6)

\* getEnforcementTargetAdapters
Targets(strict) == {a \in Adapters : a \in Up \/ NeedsFix(nic[a], strict)}
Rogues(strict) == {a \in Adapters : NeedsFix(nic[a], strict)}

FirewallLocked == fw.core /\ fw.raw = Rules

\* lockdownCore.isEnforcementCompliant, in the worker
Compliant == FirewallLocked /\ Rogues(backup.strict) = {} /\ "doh" \in extras

\* Mutant: the audit does not look for rogue adapters.
CompromisedFirewall == ~FirewallLocked \/ "doh" \notin extras

\* What the watch sees in verifyDNSAsync: its audit knows no strict mode.
Compromised == ~FirewallLocked \/ Rogues(FALSE) # {} \/ "doh" \notin extras

\* Port 53 is blocked and no adapter in use has a resolver that gets by without.
BlackHole == fw.raw = Rules /\ \A a \in Up : nic[a].dns # "cb"

\* Mutant: an adapter that is already in the backup is saved again.
MergeAgain(saved, rows, as) == [a \in Adapters |-> IF a \in as THEN rows[a] ELSE saved[a]]

\* mergeAdapterIntoBackup: what is saved once is never saved again.
Merge(saved, rows, as) ==
    [a \in Adapters |-> IF a \in as /\ saved[a] = NotSaved THEN rows[a] ELSE saved[a]]

\* Mutant: the IPv6 bindings stay as they are.
GiveBackServers(saved) ==
    [a \in Adapters |-> IF saved[a] = NotSaved THEN nic[a] ELSE [nic[a] EXCEPT !.dns = saved[a].dns]]

\* restoreAdapterDns and enableIpv6OnAdapters
GiveBack(saved) ==
    [a \in Adapters |->
       IF saved[a] = NotSaved THEN nic[a]
       ELSE [dns |-> saved[a].dns, v6 |-> nic[a].v6 \/ saved[a].v6]]

SavedIn(saved) == {a \in Adapters : saved[a] # NotSaved}

Event == events < MaxEvents /\ events' = events + 1

Go(phase) == ld' = [ld EXCEPT !.phase = phase]

NoRules == [core |-> FALSE, raw |-> {}]

\* What a removal may leave of the rules: every failure is caught.
RulesLeft == [core : {FALSE, fw.core}, raw : SUBSET fw.raw]

\* Commands that shall make the adapters `new': all work, some fail (with
\* SilentlyContinue, or caught), or all are mocks.
Commanded(new) ==
    \/ active /\ nic' = new /\ UNCHANGED events
    \/ /\ active /\ Event
       /\ nic' \in {n \in [Adapters -> Settings] : \A a \in Adapters :
                      n[a].dns \in {nic[a].dns, new[a].dns} /\ n[a].v6 \in {nic[a].v6, new[a].v6}}
    \/ ~active /\ UNCHANGED <<nic, events>>

\* restoreEnforcementBackup, the adapters: those that are as they were saved are
\* no longer held.
RestoreAdapters ==
    /\ Commanded(GiveBack(backup.saved))
    /\ held' = held \ {a \in SavedIn(backup.saved) : nic'[a] = GiveBack(backup.saved)[a]}
-----------------------------------------------------------------------------
(* The lockdown, in the worker thread *)

\* runLockdown: single-flight, and a mock unless a challenge is active.
Begin(startup) ==
    /\ ld.phase = "idle" /\ restoring.phase = "idle" /\ active
    /\ ld' = [Idle EXCEPT !.phase = "snapshot", !.startup = startup]
    /\ restored' = FALSE
    /\ UNCHANGED <<machineVars, fileVars, restoring, active, own, held, lost, moved, missed>>

\* main.js: the start-up lockdown.
Boot == /\ ~main.booted /\ main' = [main EXCEPT !.booted = TRUE]
        /\ Begin(TRUE) /\ UNCHANGED events

\* "restore-dns" or a re-apply, on the user's request.
Request == Event /\ Begin(FALSE) /\ UNCHANGED main

\* runWatchCheck finds the machine compromised.
WatchLockdown == /\ main.watch /\ ~main.failed /\ Compromised
                 /\ Begin(FALSE) /\ UNCHANGED <<main, events>>

\* capturePreLockdownSnapshot keeps the first snapshot for good; then the fast
\* path of a start-up lockdown that has nothing to do.
TakeSnapshot ==
    /\ ld.phase = "snapshot" /\ active
    /\ snapshot' = IF snapshot # NothingSaved THEN snapshot
                   ELSE [a \in Adapters |-> IF a \in Up THEN nic[a] ELSE NotSaved]
    /\ Go(IF ld.startup /\ Compliant THEN "tunnels" ELSE "prepare")
    /\ UNCHANGED <<machineVars, backup, restoring, main, active, events, historyVars>>

\* Mutant: Windows DoH is not configured.
PrepareBrowsers ==
    /\ ld.phase = "prepare" /\ active
    /\ extras' = extras \cup {"chromium"}
    /\ Go("enumerate")
    /\ UNCHANGED <<nic, fw, fileVars, restoring, main, active, events, historyVars>>

\* Chromium policies, then configureWindowsDoH and the NRPT rules of applyDNS.
Prepare ==
    /\ ld.phase = "prepare" /\ active
    /\ extras' = extras \cup {"chromium", "doh"}
    /\ Go("enumerate")
    /\ UNCHANGED <<nic, fw, fileVars, restoring, main, active, events, historyVars>>

\* applyNetworkEnforcement loads the backup and lists the adapters ...
Enumerate ==
    /\ ld.phase = "enumerate" /\ active
    /\ LET targets == Targets(backup.strict)
       IN  ld' = [ld EXCEPT !.phase = IF targets = {} THEN "firewall" ELSE "merge",
                            !.stale = backup, !.strict = backup.strict,
                            !.rows = nic, !.targets = targets]
    /\ UNCHANGED <<machineVars, fileVars, restoring, main, active, events, historyVars>>

\* ... saves their settings ...
MergeTargets ==
    /\ ld.phase = "merge"
    /\ backup' = [backup EXCEPT !.saved = Merge(@, ld.rows, ld.targets)]
    /\ ld' = [ld EXCEPT !.phase = "apply",
                        !.todo = {a \in ld.targets : NeedsFix(ld.rows[a], ld.strict)}]
    /\ UNCHANGED <<machineVars, snapshot, restoring, main, active, events, historyVars>>

\* ... and sets their DNS, which may fail for an adapter, retries included.
SetDns(a) ==
    /\ ld.phase = "apply" /\ a \in ld.todo
    /\ \/ /\ ld' = [ld EXCEPT !.todo = @ \ {a}]
          /\ nic' = [nic EXCEPT ![a].dns = "cb"]
          /\ held' = held \cup {a}
          /\ UNCHANGED events
       \/ /\ Event
          /\ ld' = [ld EXCEPT !.todo = @ \ {a}, !.stuck = @ \cup {a}]
          /\ UNCHANGED <<nic, held>>
    /\ UNCHANGED <<fw, extras, fileVars, restoring, main, active, own, lost, moved, missed, restored>>

\* sweepRogueAdapterDns: whatever has other servers now is saved and set, too.
Sweep ==
    /\ ld.phase = "apply" /\ ld.todo = {}
    /\ LET rogues == Rogues(ld.strict) IN
       /\ backup' = [backup EXCEPT !.saved = Merge(@, nic, rogues)]
       /\ nic' = [a \in Adapters |->
                    IF a \in rogues \ ld.stuck THEN [nic[a] EXCEPT !.dns = "cb"] ELSE nic[a]]
       /\ held' = held \cup (rogues \ ld.stuck)
    /\ Go("verify")
    /\ UNCHANGED <<fw, extras, snapshot, restoring, main, active, events, own, lost, moved, missed, restored>>

\* runResolverVerification: AAAA answers may leak.
Verify ==
    /\ ld.phase = "verify"
    /\ \/ Go("judge") /\ UNCHANGED events
       \/ ~ld.strict /\ Event /\ Go("strict")
    /\ UNCHANGED <<machineVars, fileVars, restoring, main, active, historyVars>>

\* Strict fallback: the copy of the backup read before the merge is saved ...
SaveStrict ==
    /\ ld.phase = "strict"
    /\ backup' = [ld.stale EXCEPT !.strict = TRUE]
    /\ lost' = lost \cup (SavedIn(backup.saved) \ SavedIn(ld.stale.saved))
    /\ ld' = [ld EXCEPT !.phase = "disable", !.strict = TRUE]
    /\ UNCHANGED <<machineVars, snapshot, restoring, main, active, events, own, held, moved, missed, restored>>

\* ... and the IPv6 bindings of the targets are disabled.
DisableV6 ==
    /\ ld.phase = "disable"
    /\ nic' = [a \in Adapters |->
                 IF a \notin ld.targets THEN nic[a]
                 ELSE [dns |-> IF a \in ld.stuck THEN nic[a].dns ELSE "cb", v6 |-> FALSE]]
    /\ held' = held \cup ld.targets
    /\ Go("judge")
    /\ UNCHANGED <<fw, extras, fileVars, restoring, main, active, events, own, lost, moved, missed, restored>>

\* With an adapter that failed, rollbackFromBackup: it looks for entries in the
\* stale copy, and if there are any restores the file.
Judge ==
    /\ ld.phase = "judge"
    /\ IF ld.stuck # {} /\ SavedIn(ld.stale.saved) # {} /\ active
         THEN RestoreAdapters /\ backup' = [backup EXCEPT !.strict = FALSE]
         ELSE UNCHANGED <<nic, held, backup, events>>
    /\ Go("firewall")
    /\ UNCHANGED <<fw, extras, snapshot, restoring, main, active, own, lost, moved, missed, restored>>

\* applyDnsFirewall: the allow and bypass rules; a rule may not be created.
CoreRules ==
    /\ ld.phase = "firewall" /\ active
    /\ \/ fw' = [fw EXCEPT !.core = TRUE] /\ UNCHANGED events
       \/ Event /\ UNCHANGED fw
    /\ Go("raw")
    /\ UNCHANGED <<nic, extras, fileVars, restoring, main, active, historyVars>>

\* applyRawDnsBlockRules: one rule after the other ...
RawRule(r) ==
    /\ ld.phase = "raw" /\ r \notin fw.raw
    /\ fw' = [fw EXCEPT !.raw = @ \cup {r}]
    /\ UNCHANGED <<nic, extras, fileVars, ld, restoring, main, active, events, historyVars>>

\* ... until one fails and all are removed, older ones included; a removal that
\* fails is ignored.
RawFails ==
    /\ ld.phase = "raw" /\ fw.raw # Rules
    /\ Event
    /\ \E left \in SUBSET fw.raw : fw' = [fw EXCEPT !.raw = left]
    /\ Go("tunnels")
    /\ UNCHANGED <<nic, extras, fileVars, restoring, main, active, historyVars>>

RawDone ==
    /\ ld.phase = "raw" /\ fw.raw = Rules
    /\ ld' = [ld EXCEPT !.phase = "tunnels", !.rawOk = TRUE]
    /\ UNCHANGED <<machineVars, fileVars, restoring, main, active, events, historyVars>>

DisableTunnels ==
    /\ ld.phase = "tunnels" /\ active
    /\ extras' = extras \cup {"tunnels"}
    /\ Go("finish")
    /\ UNCHANGED <<nic, fw, fileVars, restoring, main, active, events, historyVars>>

\* runDeferredEnforcementVerificationSync takes the raw rules down again if the
\* safe site cannot be reached; then the result goes to the main process, and
\* main.js starts the watch after its lockdown.
Finish ==
    /\ ld.phase = "finish"
    /\ \/ ld.rawOk /\ BlackHole /\ fw' = [fw EXCEPT !.raw = {}] /\ UNCHANGED events
       \/ ld.rawOk /\ ~BlackHole /\ Event /\ fw' = [fw EXCEPT !.raw = {}]
       \/ ~(ld.rawOk /\ BlackHole) /\ UNCHANGED <<fw, events>>
    /\ ld' = Idle
    /\ main' = [main EXCEPT !.applied = TRUE, !.watch = @ \/ (ld.startup /\ active)]
    /\ UNCHANGED <<nic, extras, fileVars, restoring, active, historyVars>>

\* The challenge is over in the middle of it: what is left is skipped or mocked,
\* but for the command that is under way.
SkipRest ==
    /\ ld.phase \notin {"idle", "merge", "strict", "finish"} /\ ~active
    /\ Go("finish")
    /\ UNCHANGED <<machineVars, fileVars, restoring, main, active, events, historyVars>>

\* The worker throws: nothing is undone.
WorkerFails ==
    /\ ld.phase # "idle" /\ Event
    /\ ld' = Idle
    /\ UNCHANGED <<machineVars, fileVars, restoring, main, active, historyVars>>

Worker ==
    \/ TakeSnapshot \/ Prepare \/ Enumerate \/ MergeTargets
    \/ (\E a \in Adapters : SetDns(a)) \/ Sweep \/ Verify \/ SaveStrict \/ DisableV6 \/ Judge
    \/ CoreRules \/ (\E r \in Rules : RawRule(r)) \/ RawFails \/ RawDone
    \/ DisableTunnels \/ Finish \/ SkipRest
-----------------------------------------------------------------------------
(* The main process *)

\* A poll of the watch re-applies raw rules that are missing, all or none.
Refresh ==
    /\ main.watch /\ ~main.failed /\ active
    /\ ld.phase = "idle" /\ restoring.phase = "idle" /\ fw.raw # Rules
    /\ \/ fw' = [fw EXCEPT !.raw = Rules] /\ UNCHANGED events
       \/ Event /\ fw' = [fw EXCEPT !.raw = {}]
    /\ UNCHANGED <<nic, extras, fileVars, ld, restoring, main, active, historyVars>>

\* failChallenge: the watch stops and the machine is restored, if this process
\* knows of an enforcement or the challenge is active; the worker runs on.
FailChallenge ==
    /\ main.booted /\ ~main.failed
    /\ main' = [main EXCEPT !.failed = TRUE, !.watch = FALSE]
    /\ IF main.applied \/ active
         THEN /\ restoring' = [NotRestoring EXCEPT !.phase = "remove"]
              /\ restored' = (ld.phase = "idle") /\ missed' = {}
         ELSE UNCHANGED <<restoring, restored, missed>>
    /\ UNCHANGED <<machineVars, fileVars, ld, active, events, own, held, lost, moved>>

\* removeDnsFirewall, removeMongoNrptRules, removeChromiumCleanBrowsingPolicies:
\* what fails is a warning, and only the policies go without an active challenge.
RemoveRules ==
    /\ restoring.phase = "remove"
    /\ \/ /\ active /\ fw' = NoRules /\ extras' = extras \ {"chromium"}
          /\ UNCHANGED <<events, missed>>
       \/ /\ active /\ Event /\ missed' = missed \cup {"rules"}
          /\ fw' \in RulesLeft /\ extras' \in {extras, extras \ {"chromium"}}
       \/ /\ ~active /\ missed' = missed \cup {"rules"}
          /\ extras' = extras \ {"chromium"} /\ UNCHANGED <<fw, events>>
    /\ restoring' = [restoring EXCEPT !.phase = "snapshot"]
    /\ UNCHANGED <<nic, fileVars, ld, main, active, own, held, lost, moved, restored>>

\* The snapshot: adapters with their binding, Windows DoH and tunnels, which need
\* no active challenge.
RestoreSnapshot ==
    /\ restoring.phase = "snapshot"
    /\ Commanded([a \in Adapters |-> IF snapshot[a] = NotSaved THEN nic[a] ELSE snapshot[a]])
    /\ LET left == IF snapshot # NothingSaved THEN {} ELSE extras \ {"doh"} IN
       \/ active /\ extras' = left /\ UNCHANGED missed
       \/ /\ events' # events /\ missed' = missed \cup {"rules"}
          /\ extras' \in {e \in SUBSET extras : left \subseteq e}
       \/ /\ ~active /\ missed' = missed \cup {"rules"}
          /\ extras' = IF snapshot # NothingSaved THEN extras \ {"tunnels"} ELSE extras
    /\ restoring' = [restoring EXCEPT !.phase = "backup"]
    /\ UNCHANGED <<fw, fileVars, ld, main, active, own, held, lost, moved, restored>>

\* restoreEnforcementBackup, after and over the snapshot ...
RestoreBackup ==
    /\ restoring.phase = "backup"
    /\ RestoreAdapters
    /\ missed' = missed \cup {a \in Adapters : nic'[a] # GiveBack(backup.saved)[a]}
    /\ restoring' = [phase |-> "save", copy |-> backup]
    /\ UNCHANGED <<fw, extras, fileVars, ld, main, active, own, lost, moved, restored>>

\* ... then its copy is saved without the strict mode, over what a worker may
\* have merged by now.
SaveRestored ==
    /\ restoring.phase = "save"
    /\ IF SavedIn(restoring.copy.saved) = {} THEN UNCHANGED <<backup, lost>>
       ELSE /\ backup' = [restoring.copy EXCEPT !.strict = FALSE]
            /\ lost' = lost \cup (SavedIn(backup.saved) \ SavedIn(restoring.copy.saved))
    /\ restoring' = NotRestoring
    /\ UNCHANGED <<machineVars, snapshot, ld, main, active, events, own, held, moved, missed, restored>>

Restoration == RemoveRules \/ RestoreSnapshot \/ RestoreBackup \/ SaveRestored

\* Killed at any moment and started again; a regular quit takes the firewall
\* down first, or what of it can be removed, if this process locked the machine.
Restart ==
    /\ Event
    /\ ld' = Idle /\ restoring' = NotRestoring
    /\ main' = [booted |-> FALSE, applied |-> FALSE, failed |-> FALSE, watch |-> FALSE]
    /\ \/ UNCHANGED fw
       \/ main.applied /\ active /\ fw' \in RulesLeft
    /\ restored' = (restored /\ restoring.phase = "idle")
    /\ UNCHANGED <<nic, extras, fileVars, active, own, held, lost, moved, missed>>

\* Without an active challenge the app comes up and locks nothing.
BootUnlocked ==
    /\ ~main.booted /\ ~active
    /\ main' = [main EXCEPT !.booted = TRUE]
    /\ UNCHANGED <<machineVars, fileVars, ld, restoring, active, events, historyVars>>
-----------------------------------------------------------------------------
(* The user *)

\* "sync-challenge-state": nothing is restored when a challenge is over.  It does
\* not come between the steps of a restoration, which is synchronous.
SyncChallenge ==
    /\ restoring.phase = "idle"
    /\ \/ active /\ UNCHANGED events
       \/ ~active /\ Event
    /\ active' = ~active
    /\ UNCHANGED <<machineVars, fileVars, ld, restoring, main, historyVars>>

\* Other settings for an adapter that is not locked.
UserSets(a) ==
    /\ Event /\ a \notin held /\ ld.phase = "idle" /\ restoring.phase = "idle"
    /\ nic' = [nic EXCEPT ![a].dns = "work"]
    /\ own' = [own EXCEPT ![a].dns = "work"]
    /\ moved' = IF a \in SavedIn(backup.saved) \cup SavedIn(snapshot) THEN moved \cup {a} ELSE moved
    /\ UNCHANGED <<fw, extras, fileVars, ld, restoring, main, active, held, lost, missed, restored>>

\* Other servers for a locked adapter, its binding enabled, a rule removed.
Tamper ==
    /\ Event
    /\ \/ /\ \E a \in held : nic' = [nic EXCEPT ![a] = [dns |-> "work", v6 |-> @.v6 \/ own[a].v6]]
          /\ UNCHANGED fw
       \/ /\ \E r \in fw.raw : fw' = [fw EXCEPT !.raw = @ \ {r}]
          /\ UNCHANGED nic
    /\ UNCHANGED <<extras, fileVars, ld, restoring, main, active, historyVars>>

User == SyncChallenge \/ (\E a \in Adapters : UserSets(a)) \/ Tamper

Next == \/ Boot \/ BootUnlocked \/ Request \/ WatchLockdown \/ Refresh
        \/ Worker \/ WorkerFails
        \/ FailChallenge \/ Restoration
        \/ Restart \/ User

Spec == Init /\ [][Next]_vars

\* The worker and a restoration go on, and the watch polls.
FairSpec == Spec /\ WF_vars(Worker) /\ WF_vars(Restoration) /\ WF_vars(WatchLockdown)
-----------------------------------------------------------------------------
(* Properties. *)

TypeOK ==
    /\ nic \in [Adapters -> Settings]
    /\ fw \in Firewalls /\ extras \subseteq Extras
    /\ snapshot \in Saved /\ backup \in Backups
    /\ ld \in Workers /\ restoring \in Restorations /\ main \in Processes
    /\ active \in BOOLEAN /\ events \in 0..MaxEvents
    /\ own \in [Adapters -> Settings]
    /\ held \subseteq Adapters /\ lost \subseteq Adapters /\ moved \subseteq Adapters
    /\ missed \subseteq Adapters \cup {"rules"}
    /\ restored \in BOOLEAN

\* Whatever NetFast has changed it can give back: at every moment, also between
\* two steps of a lockdown that is killed there, the backup on disk has the
\* user's settings of every adapter that NetFast holds, but for the entries that
\* a stale copy of the file has overwritten (networkEnforcement.js:944 and 994,
\* 862 and 870).
OriginalsAreSaved ==
    \A a \in held : a \in lost \/ a \in moved \/ backup.saved[a] = own[a]

\* A restoration that no lockdown disturbs gives back all it can: whatever fails
\* of it, or of restorations before, it leaves every other adapter as the user had
\* it, the two files notwithstanding, and if all commands on the rest work, nothing
\* of NetFast's behind (systemRestore.js:68-115).  Lost entries and settings that
\* changed since the first snapshot, which is never taken again, are not given back,
\* and nothing is if the challenge is no longer active: then the commands are
\* mocks and all of it is `missed'.
RestoreReturnsOriginals ==
    restored /\ restoring.phase = "idle" =>
        /\ \A a \in Adapters : a \in lost \/ a \in moved \/ a \in missed \/ nic[a] = own[a]
        /\ "rules" \in missed \/ (fw = NoRules /\ extras = {})

Locked == /\ FirewallLocked /\ "doh" \in extras
          /\ \A a \in Adapters : nic[a].dns = "cb"

\* As long as the watch runs for an active challenge the machine ends up locked,
\* whatever fails, whoever tampers and wherever a process was killed.
LockedInTheEnd == <>[](active /\ main.watch /\ ~main.failed) => <>[]Locked

\* ... and the watch finds it so and comes to rest, unless an adapter has no IPv6
\* binding: strict mode or the user took it, and the audit of the watch, which
\* does not know of strict mode, asks for IPv6 servers all the same (dns.js:137).
WatchComesToRest ==
    <>[](active /\ main.watch /\ ~main.failed /\ \A a \in Adapters : nic[a].v6) =>
        <>[](ld.phase = "idle")
===============================================================================
