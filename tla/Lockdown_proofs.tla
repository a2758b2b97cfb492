---------------------------- MODULE Lockdown_proofs ----------------------------
(***************************************************************************)
(* Proofs about module Lockdown: whatever fails and wherever the worker or  *)
(* the process is killed, the files have the user's settings, and a         *)
(* restoration without a lockdown beside it brings back what its commands   *)
(* do not miss.                                                             *)
(***************************************************************************)
EXTENDS Lockdown, TLAPS

-----------------------------------------------------------------------------
(* The inductive invariant.  Its core is about one adapter at a time; an      *)
(* adapter with a lost entry or with settings that moved on is given up.      *)

GivenUp == lost \cup moved

\* What is saved somewhere is the user's own.
Sound(saved) == \A a \in Adapters : a \in GivenUp \/ saved[a] \in {NotSaved, own[a]}
CopiesSound == /\ Sound(snapshot) /\ Sound(backup.saved)
               /\ Sound(ld.stale.saved) /\ Sound(restoring.copy.saved)

\* These adapters may be changed: their settings are on file.
Kept(as) == \A a \in as : a \in GivenUp \/ backup.saved[a] = own[a]

\* NetFast never leaves a trace on an adapter it does not hold, and never binds
\* IPv6 to an adapter that had no binding.
Untouched == \A a \in Adapters : a \in held \/ a \in GivenUp \/ nic[a] = own[a]
BindingsSound == \A a \in Adapters : a \in GivenUp \/ (nic[a].v6 => own[a].v6)

\* Nothing is changed before the snapshot is taken.
SnapshotFirst ==
    snapshot = NothingSaved =>
        held = {} /\ extras = {} /\ ld.phase \in {"idle", "snapshot", "finish"}

\* Where the worker is.
Listed == \A a \in ld.targets : a \in GivenUp \/ own[a] \in {backup.saved[a], ld.rows[a]}
WorkerSound ==
    /\ ld.phase = "idle" => ld = Idle
    /\ ld.phase = "merge" => Listed
    /\ ld.phase = "apply" => Kept(ld.todo)
    /\ ld.phase \in {"apply", "verify", "strict", "disable"} => Kept(ld.targets)

\* Where the restoration is.
RestoringSound ==
    /\ restoring.phase # "save" => restoring.copy = NoBackup
    /\ restored =>
         /\ ld.phase = "idle" /\ ~main.watch
         /\ restoring.phase # "remove" => "rules" \in missed \/ fw = NoRules
         /\ restoring.phase \in {"backup", "save", "idle"} => "rules" \in missed \/ extras = {}
         /\ restoring.phase \in {"save", "idle"} => held \subseteq GivenUp \cup missed

Core == CopiesSound /\ Kept(held) /\ Untouched /\ BindingsSound
IInv == TypeOK /\ Core /\ SnapshotFirst /\ WorkerSound /\ RestoringSound
-----------------------------------------------------------------------------
(* Types. *)

LEMMA SettingsNotNone == NotSaved \notin Settings
  BY DEF NotSaved, Settings, UserDns

LEMMA SavedTypes ==
    /\ [Adapters -> Settings] \subseteq Saved
    /\ NothingSaved \in Saved
  BY DEF Saved, NothingSaved

LEMMA MergeType ==
    ASSUME NEW saved \in Saved, NEW rows \in Saved, NEW as
    PROVE  Merge(saved, rows, as) \in Saved
  BY DEF Merge, Saved

LEMMA GiveBackType ==
    ASSUME TypeOK, NEW saved \in Saved
    PROVE  GiveBack(saved) \in [Adapters -> Settings]
  <1>1. ASSUME NEW a \in Adapters, saved[a] # NotSaved
        PROVE  [dns |-> saved[a].dns, v6 |-> nic[a].v6 \/ saved[a].v6] \in Settings
    BY <1>1 DEF TypeOK, Saved, Settings
  <1>2. QED
    BY <1>1 DEF TypeOK, GiveBack

\* Whatever commands fail, a setting is the old one or the one they are to make.
LEMMA CommandedType ==
    ASSUME TypeOK, NEW new \in [Adapters -> Settings], Commanded(new)
    PROVE  /\ nic' \in [Adapters -> Settings] /\ events' \in 0..MaxEvents
           /\ \A a \in Adapters : /\ nic'[a].dns \in {nic[a].dns, new[a].dns}
                                 /\ nic'[a].v6 \in {nic[a].v6, new[a].v6}
  <1>1. CASE nic' = new /\ UNCHANGED events
    BY <1>1 DEF TypeOK
  <1>2. CASE /\ Event
             /\ nic' \in {n \in [Adapters -> Settings] : \A a \in Adapters :
                            n[a].dns \in {nic[a].dns, new[a].dns} /\ n[a].v6 \in {nic[a].v6, new[a].v6}}
    BY <1>2, LockdownAssumption DEF Event, TypeOK
  <1>3. CASE UNCHANGED <<nic, events>>
    BY <1>3 DEF TypeOK
  <1>4. QED
    BY <1>1, <1>2, <1>3 DEF Commanded

LEMMA SnapshotType ==
    ASSUME TypeOK
    PROVE  [a \in Adapters |-> IF snapshot[a] = NotSaved THEN nic[a] ELSE snapshot[a]]
             \in [Adapters -> Settings]
  BY DEF TypeOK, Saved

LEMMA BackupTypes ==
    ASSUME NEW b \in Backups
    PROVE  /\ b.saved \in Saved /\ NoBackup \in Backups
           /\ \A saved \in Saved : [b EXCEPT !.saved = saved] \in Backups
           /\ [b EXCEPT !.strict = TRUE] \in Backups
           /\ [b EXCEPT !.strict = FALSE] \in Backups
  BY SavedTypes DEF Backups, NoBackup

LEMMA FirewallTypes ==
    ASSUME NEW f \in Firewalls
    PROVE  /\ f.raw \subseteq Rules
           /\ NoRules \in Firewalls
           /\ [core : {FALSE, f.core}, raw : SUBSET f.raw] \subseteq Firewalls
           /\ \A R \in SUBSET Rules : [f EXCEPT !.raw = R] \in Firewalls
           /\ [f EXCEPT !.core = TRUE] \in Firewalls
  BY DEF Firewalls, NoRules

LEMMA RestorationTypes ==
    ASSUME NEW r \in Restorations
    PROVE  /\ r.copy \in Backups
           /\ [r EXCEPT !.phase = "snapshot"] \in Restorations
           /\ [r EXCEPT !.phase = "backup"] \in Restorations
           /\ NotRestoring \in Restorations
           /\ [NotRestoring EXCEPT !.phase = "remove"] \in Restorations
           /\ \A b \in Backups : [phase |-> "save", copy |-> b] \in Restorations
  BY SavedTypes DEF Restorations, NotRestoring, NoBackup, Backups

LEMMA ProcessTypes ==
    ASSUME NEW m \in Processes
    PROVE  /\ [m EXCEPT !.booted = TRUE] \in Processes
           /\ [m EXCEPT !.failed = TRUE, !.watch = FALSE] \in Processes
           /\ [booted |-> FALSE, applied |-> FALSE, failed |-> FALSE, watch |-> FALSE] \in Processes
  BY DEF Processes

LEMMA IdleType == Idle \in Workers
  BY SavedTypes DEF Workers, Idle, NoBackup, Backups, Phases

LEMMA BeginType ==
    /\ [Idle EXCEPT !.phase = "snapshot", !.startup = TRUE] \in Workers
    /\ [Idle EXCEPT !.phase = "snapshot", !.startup = FALSE] \in Workers
  BY SavedTypes DEF Workers, Idle, NoBackup, Backups, Phases

LEMMA GoType ==
    ASSUME NEW l \in Workers, NEW p \in Phases
    PROVE  [l EXCEPT !.phase = p] \in Workers
  BY DEF Workers

LEMMA WorkerTypes ==
    ASSUME NEW l \in Workers
    PROVE  /\ l.targets \subseteq Adapters /\ l.todo \subseteq Adapters /\ l.stuck \subseteq Adapters
           /\ l.rows \in Saved /\ l.stale \in Backups
           /\ [l EXCEPT !.phase = "disable", !.strict = TRUE] \in Workers
           /\ [l EXCEPT !.phase = "tunnels", !.rawOk = TRUE] \in Workers
  BY DEF Workers, Phases

LEMMA StuckType ==
    ASSUME NEW l \in Workers, NEW a \in Adapters
    PROVE  /\ [l EXCEPT !.todo = @ \ {a}] \in Workers
           /\ [l EXCEPT !.todo = @ \ {a}, !.stuck = @ \cup {a}] \in Workers
  BY DEF Workers

LEMMA EnumerateType ==
    ASSUME NEW l \in Workers, NEW b \in Backups, NEW rows \in Saved,
           NEW targets \in SUBSET Adapters, NEW p \in Phases
    PROVE  [l EXCEPT !.phase = p, !.stale = b, !.strict = b.strict,
                     !.rows = rows, !.targets = targets] \in Workers
  BY DEF Workers, Backups

LEMMA TodoType ==
    ASSUME NEW l \in Workers, NEW todo \in SUBSET Adapters
    PROVE  [l EXCEPT !.phase = "apply", !.todo = todo] \in Workers
  BY DEF Workers, Phases

LEMMA DnsType ==
    ASSUME NEW a \in Adapters, NEW n \in [Adapters -> Settings]
    PROVE  /\ [n EXCEPT ![a].dns = "cb"] \in [Adapters -> Settings]
           /\ [n EXCEPT ![a].dns = "work"] \in [Adapters -> Settings]
  BY DEF Settings, UserDns

LEMMA EventType == TypeOK /\ Event => events' \in 0..MaxEvents
  BY LockdownAssumption DEF Event, TypeOK

LEMMA TypeInit == Init => TypeOK
  <1> SUFFICES ASSUME Init PROVE TypeOK
    OBVIOUS
  <1>1. own \in [Adapters -> Settings] /\ nic \in [Adapters -> Settings]
    BY DEF Init, Settings, UserDns
  <1>2. backup \in Backups /\ snapshot \in Saved /\ ld \in Workers /\ restoring \in Restorations
    BY SavedTypes, IdleType DEF Init, Backups, NoBackup, Restorations, NotRestoring
  <1>3. fw \in Firewalls /\ main \in Processes /\ extras \subseteq Extras
    BY DEF Init, Firewalls, Processes
  <1>4. active \in BOOLEAN /\ restored \in BOOLEAN
    BY DEF Init
  <1>5. events \in 0..MaxEvents
    BY LockdownAssumption DEF Init
  <1>6. QED
    BY <1>1, <1>2, <1>3, <1>4, <1>5 DEF TypeOK, Init

LEMMA TypeNext == TypeOK /\ [Next]_vars => TypeOK'
  <1> SUFFICES ASSUME TypeOK, [Next]_vars PROVE TypeOK'
    OBVIOUS
  <1> USE DEF machineVars, fileVars, historyVars
  <1>1. ASSUME Boot PROVE TypeOK'
    BY <1>1, BeginType, ProcessTypes DEF Boot, Begin, TypeOK
  <1>2. ASSUME BootUnlocked PROVE TypeOK'
    BY <1>2, ProcessTypes DEF BootUnlocked, TypeOK
  <1>3. ASSUME Request PROVE TypeOK'
    BY <1>3, EventType, BeginType DEF Request, Begin, TypeOK
  <1>4. ASSUME WatchLockdown PROVE TypeOK'
    BY <1>4, BeginType DEF WatchLockdown, Begin, TypeOK
  <1>5. ASSUME Refresh PROVE TypeOK'
    BY <1>5, EventType, FirewallTypes DEF Refresh, TypeOK
  <1>6. ASSUME TakeSnapshot PROVE TypeOK'
    BY <1>6, LockdownAssumption, GoType, SavedTypes DEF TakeSnapshot, Go, Phases, Saved, TypeOK
  <1>7. ASSUME Prepare PROVE TypeOK'
    BY <1>7, GoType DEF Prepare, Go, Phases, Extras, TypeOK
  <1>8. ASSUME Enumerate PROVE TypeOK'
    BY <1>8, LockdownAssumption, EnumerateType, SavedTypes DEF Enumerate, Targets, Phases, TypeOK
  <1>9. ASSUME MergeTargets PROVE TypeOK'
    BY <1>9, BackupTypes, WorkerTypes, MergeType, TodoType DEF MergeTargets, TypeOK
  <1>10. ASSUME NEW a \in Adapters, SetDns(a) PROVE TypeOK'
    <2>1. ld' = [ld EXCEPT !.todo = @ \ {a}]
            \/ ld' = [ld EXCEPT !.todo = @ \ {a}, !.stuck = @ \cup {a}]
      BY <1>10 DEF SetDns
    <2>2. ld' \in Workers
      BY <2>1, StuckType DEF TypeOK
    <2>3. nic' \in [Adapters -> Settings]
      <3>1. nic' = nic \/ nic' = [nic EXCEPT ![a].dns = "cb"]
        BY <1>10 DEF SetDns
      <3>2. QED
        BY <3>1 DEF TypeOK, Settings
    <2>4. events' \in 0..MaxEvents /\ held' \subseteq Adapters
      BY <1>10, EventType DEF SetDns, TypeOK
    <2>5. QED
      BY <1>10, <2>2, <2>3, <2>4 DEF SetDns, TypeOK
  <1>11. ASSUME Sweep PROVE TypeOK'
    <2>1. nic' \in [Adapters -> Settings] /\ nic \in Saved
      BY <1>11, SavedTypes DEF Sweep, TypeOK, Settings
    <2>2. backup' \in Backups
      BY <1>11, <2>1, BackupTypes, MergeType DEF Sweep, TypeOK
    <2>3. ld' \in Workers /\ held' \subseteq Adapters
      BY <1>11, GoType DEF Sweep, Go, Phases, Rogues, TypeOK
    <2>4. QED
      BY <1>11, <2>1, <2>2, <2>3 DEF Sweep, TypeOK
  <1>12. ASSUME Verify PROVE TypeOK'
    BY <1>12, EventType, GoType DEF Verify, Go, Phases, TypeOK
  <1>13. ASSUME SaveStrict PROVE TypeOK'
    <2>1. backup' \in Backups /\ ld' \in Workers
      BY <1>13, BackupTypes, WorkerTypes DEF SaveStrict, TypeOK
    <2>2. lost' \subseteq Adapters
      BY <1>13 DEF SaveStrict, SavedIn, TypeOK
    <2>3. QED
      BY <1>13, <2>1, <2>2 DEF SaveStrict, TypeOK
  <1>14. ASSUME DisableV6 PROVE TypeOK'
    <2>1. nic' \in [Adapters -> Settings]
      BY <1>14 DEF DisableV6, TypeOK, Settings
    <2>2. ld' \in Workers /\ held' \subseteq Adapters
      BY <1>14, GoType, WorkerTypes DEF DisableV6, Go, Phases, TypeOK
    <2>3. QED
      BY <1>14, <2>1, <2>2 DEF DisableV6, TypeOK
  <1>15. ASSUME Judge PROVE TypeOK'
    <2>1. nic' \in [Adapters -> Settings] /\ events' \in 0..MaxEvents /\ held' \subseteq Adapters
      BY <1>15, CommandedType, GiveBackType DEF Judge, RestoreAdapters, Backups, TypeOK
    <2>2. ld' \in Workers /\ backup' \in Backups
      BY <1>15, GoType, BackupTypes DEF Judge, Go, Phases, TypeOK
    <2>3. QED
      BY <1>15, <2>1, <2>2 DEF Judge, TypeOK
  <1>16. ASSUME CoreRules PROVE TypeOK'
    BY <1>16, EventType, FirewallTypes, GoType DEF CoreRules, Go, Phases, TypeOK
  <1>17. ASSUME NEW r \in Rules, RawRule(r) PROVE TypeOK'
    BY <1>17, FirewallTypes DEF RawRule, TypeOK
  <1>18. ASSUME RawFails PROVE TypeOK'
    <2>1. fw' \in Firewalls
      BY <1>18, FirewallTypes DEF RawFails, TypeOK
    <2>2. ld' \in Workers
      BY <1>18, GoType DEF RawFails, Go, Phases, TypeOK
    <2>3. QED
      BY <1>18, <2>1, <2>2, EventType DEF RawFails, TypeOK
  <1>19. ASSUME RawDone PROVE TypeOK'
    BY <1>19, WorkerTypes DEF RawDone, TypeOK
  <1>20. ASSUME DisableTunnels PROVE TypeOK'
    BY <1>20, GoType DEF DisableTunnels, Go, Phases, Extras, TypeOK
  <1>21. ASSUME Finish PROVE TypeOK'
    <2>1. fw' \in Firewalls /\ events' \in 0..MaxEvents
      BY <1>21, EventType, FirewallTypes DEF Finish, TypeOK
    <2>2. main' \in Processes
      BY <1>21 DEF Finish, TypeOK, Processes, Workers
    <2>3. QED
      BY <1>21, <2>1, <2>2, IdleType DEF Finish, TypeOK
  <1>22. ASSUME SkipRest PROVE TypeOK'
    BY <1>22, GoType DEF SkipRest, Go, Phases, TypeOK
  <1>23. ASSUME WorkerFails PROVE TypeOK'
    BY <1>23, EventType, IdleType DEF WorkerFails, TypeOK
  <1>24. ASSUME FailChallenge PROVE TypeOK'
    BY <1>24, ProcessTypes, RestorationTypes DEF FailChallenge, TypeOK
  <1>25. ASSUME RemoveRules PROVE TypeOK'
    <2>1. fw' \in Firewalls /\ extras' \subseteq Extras /\ missed' \subseteq Adapters \cup {"rules"}
      BY <1>25, FirewallTypes DEF RemoveRules, RulesLeft, TypeOK
    <2>2. events' \in 0..MaxEvents /\ restoring' \in Restorations
      BY <1>25, EventType, RestorationTypes DEF RemoveRules, TypeOK
    <2>3. QED
      BY <1>25, <2>1, <2>2 DEF RemoveRules, TypeOK
  <1>26. ASSUME RestoreSnapshot PROVE TypeOK'
    <2>1. nic' \in [Adapters -> Settings] /\ events' \in 0..MaxEvents
      BY <1>26, CommandedType, SnapshotType DEF RestoreSnapshot
    <2>2. extras' \subseteq Extras /\ missed' \subseteq Adapters \cup {"rules"}
      BY <1>26 DEF RestoreSnapshot, TypeOK
    <2>3. QED
      BY <1>26, <2>1, <2>2, RestorationTypes DEF RestoreSnapshot, TypeOK
  <1>27. ASSUME RestoreBackup PROVE TypeOK'
    <2>1. nic' \in [Adapters -> Settings] /\ events' \in 0..MaxEvents /\ held' \subseteq Adapters
      BY <1>27, CommandedType, GiveBackType DEF RestoreBackup, RestoreAdapters, Backups, TypeOK
    <2>2. missed' \subseteq Adapters \cup {"rules"} /\ restoring' \in Restorations
      BY <1>27, RestorationTypes DEF RestoreBackup, TypeOK
    <2>3. QED
      BY <1>27, <2>1, <2>2 DEF RestoreBackup, TypeOK
  <1>28. ASSUME SaveRestored PROVE TypeOK'
    <2>1. backup' \in Backups /\ lost' \subseteq Adapters
      BY <1>28, BackupTypes, RestorationTypes DEF SaveRestored, SavedIn, TypeOK
    <2>2. QED
      BY <1>28, <2>1, RestorationTypes DEF SaveRestored, TypeOK
  <1>29. ASSUME Restart PROVE TypeOK'
    <2>1. fw' \in Firewalls
      BY <1>29, FirewallTypes DEF Restart, RulesLeft, TypeOK
    <2>2. QED
      BY <1>29, <2>1, EventType, ProcessTypes, RestorationTypes, IdleType DEF Restart, TypeOK
  <1>30. ASSUME SyncChallenge PROVE TypeOK'
    BY <1>30, EventType DEF SyncChallenge, TypeOK
  <1>31. ASSUME NEW a \in Adapters, UserSets(a) PROVE TypeOK'
    BY <1>31, EventType, DnsType DEF UserSets, TypeOK
  <1>32. ASSUME Tamper PROVE TypeOK'
    <2>1. nic' \in [Adapters -> Settings]
      BY <1>32 DEF Tamper, TypeOK, Settings, UserDns
    <2>2. fw' \in Firewalls
      BY <1>32, FirewallTypes DEF Tamper, TypeOK
    <2>3. QED
      BY <1>32, <2>1, <2>2, EventType DEF Tamper, TypeOK
  <1>33. CASE UNCHANGED vars
    BY <1>33 DEF TypeOK, vars
  <1>34. QED
    BY <1>1, <1>2, <1>3, <1>4, <1>5, <1>6, <1>7, <1>8, <1>9, <1>10, <1>11, <1>12, <1>13, <1>14, <1>15, <1>16, <1>17, <1>18, <1>19, <1>20, <1>21, <1>22, <1>23, <1>24, <1>25, <1>26, <1>27, <1>28, <1>29, <1>30, <1>31, <1>32, <1>33 DEF Next, Worker, Restoration, User

-----------------------------------------------------------------------------
(* The core: copies, changed adapters, untouched adapters, bindings. *)

LEMMA WorkerFields ==
    ASSUME NEW l \in Workers, NEW p \in Phases
    PROVE  /\ [l EXCEPT !.phase = p].phase = p
           /\ [l EXCEPT !.phase = p].stale = l.stale
           /\ [l EXCEPT !.phase = p].targets = l.targets
           /\ [l EXCEPT !.phase = p].todo = l.todo
           /\ [l EXCEPT !.phase = p].rows = l.rows
  BY DEF Workers

LEMMA OwnIsSaved == TypeOK => \A a \in Adapters : own[a] \in Settings /\ own[a] # NotSaved
  BY SettingsNotNone DEF TypeOK

\* A step that touches no adapter and no file.
LEMMA QuietKeepsCore ==
    ASSUME IInv, UNCHANGED <<nic, snapshot, backup, own, held, lost, moved>>,
           ld'.stale \in {ld.stale, NoBackup}, restoring'.copy \in {restoring.copy, NoBackup}
    PROVE  Core'
  <1>1. CopiesSound'
    BY DEF IInv, Core, CopiesSound, Sound, GivenUp, NoBackup, NothingSaved
  <1>2. Kept(held)' /\ Untouched' /\ BindingsSound'
    BY DEF IInv, Core, Kept, Untouched, BindingsSound, GivenUp
  <1>3. QED
    BY <1>1, <1>2 DEF Core

LEMMA MergeSound ==
    ASSUME IInv, NEW rows \in Saved, NEW as \in SUBSET Adapters,
           \A a \in as : a \in GivenUp \/ own[a] \in {backup.saved[a], rows[a]}
    PROVE  /\ Sound(Merge(backup.saved, rows, as))
           /\ \A a \in as : a \in GivenUp \/ Merge(backup.saved, rows, as)[a] = own[a]
           /\ \A a \in Adapters : backup.saved[a] = own[a] =>
                Merge(backup.saved, rows, as)[a] = own[a]
  BY OwnIsSaved DEF IInv, Core, CopiesSound, Sound, Merge

LEMMA GiveBackSound ==
    ASSUME IInv, NEW a \in Adapters, a \notin GivenUp
    PROVE  GiveBack(backup.saved)[a] = own[a] /\ (a \in held => a \in SavedIn(backup.saved))
  <1>1. own[a] \in Settings /\ own[a] # NotSaved
    BY OwnIsSaved DEF IInv
  <1>2. backup.saved[a] \in {NotSaved, own[a]} /\ (nic[a].v6 => own[a].v6)
    BY DEF IInv, Core, CopiesSound, Sound, BindingsSound
  <1>3. a \in held => backup.saved[a] = own[a]
    BY DEF IInv, Core, Kept
  <1>4. a \notin held => nic[a] = own[a]
    BY DEF IInv, Core, Untouched
  <1>5. own[a] = [dns |-> own[a].dns, v6 |-> own[a].v6] /\ own[a].v6 \in BOOLEAN
    BY <1>1 DEF Settings
  <1>6. CASE backup.saved[a] = NotSaved
    BY <1>1, <1>3, <1>4, <1>6 DEF GiveBack
  <1>7. CASE backup.saved[a] = own[a]
    <2>1. GiveBack(backup.saved)[a] = [dns |-> own[a].dns, v6 |-> nic[a].v6 \/ own[a].v6]
      BY <1>1, <1>7 DEF GiveBack
    <2>2. (nic[a].v6 \/ own[a].v6) = own[a].v6
      BY <1>2, <1>5
    <2>3. QED
      BY <1>1, <1>5, <1>7, <2>1, <2>2 DEF SavedIn
  <1>8. QED
    BY <1>2, <1>6, <1>7

\* Settings made of the user's own are the user's own.
LEMMA OwnFields ==
    ASSUME NEW s \in Settings, NEW t \in Settings, s.dns = t.dns, s.v6 = t.v6
    PROVE  s = t
  BY DEF Settings

\* Whatever commands of a restoration fail, an adapter that is no longer held has
\* been given back.
LEMMA RestoreAdaptersSound ==
    ASSUME IInv, RestoreAdapters, UNCHANGED <<own, lost, moved>>
    PROVE  /\ held' \subseteq held /\ Untouched' /\ BindingsSound'
           /\ held' \subseteq GivenUp \cup {a \in Adapters : nic'[a] # GiveBack(backup.saved)[a]}
  <1> DEFINE new == GiveBack(backup.saved)
  <1>1. new \in [Adapters -> Settings] /\ own \in [Adapters -> Settings] /\ held \subseteq Adapters
    BY GiveBackType DEF IInv, TypeOK, Backups
  <1>2. /\ nic' \in [Adapters -> Settings]
        /\ \A a \in Adapters : /\ nic'[a].dns \in {nic[a].dns, new[a].dns}
                              /\ nic'[a].v6 \in {nic[a].v6, new[a].v6}
    BY <1>1, CommandedType DEF RestoreAdapters, IInv
  <1>3. held' = held \ {a \in SavedIn(backup.saved) : nic'[a] = new[a]}
    BY DEF RestoreAdapters
  <1> HIDE DEF new
  <1>4. ASSUME NEW a \in Adapters, a \notin GivenUp
        PROVE  /\ a \in held' \/ nic'[a] = own[a]
               /\ nic'[a].v6 => own[a].v6
               /\ a \in held' => nic'[a] # new[a]
    <2>1. new[a] = own[a] /\ (a \in held => a \in SavedIn(backup.saved))
      BY <1>4, GiveBackSound DEF new
    <2>2. nic'[a].v6 => own[a].v6
      BY <1>2, <1>4, <2>1 DEF IInv, Core, BindingsSound
    <2>3. CASE a \in held
      BY <1>3, <2>1, <2>2, <2>3
    <2>4. CASE a \notin held
      <3>1. nic[a] = own[a]
        BY <1>4, <2>4 DEF IInv, Core, Untouched
      <3>2. nic'[a] = own[a]
        BY <1>1, <1>2, <2>1, <3>1, OwnFields
      <3>3. QED
        BY <1>3, <2>2, <2>4, <3>2
    <2>5. QED
      BY <2>3, <2>4
  <1>5. held' \subseteq held
    BY <1>3
  <1>6. Untouched' /\ BindingsSound'
    BY <1>4 DEF Untouched, BindingsSound, GivenUp
  <1>7. held' \subseteq GivenUp \cup {a \in Adapters : nic'[a] # new[a]}
    BY <1>1, <1>4, <1>5
  <1>8. QED
    BY <1>5, <1>6, <1>7 DEF new

LEMMA BackupFields ==
    ASSUME NEW b \in Backups, NEW saved \in Saved
    PROVE  /\ [b EXCEPT !.saved = saved].saved = saved
           /\ [b EXCEPT !.strict = TRUE].saved = b.saved
           /\ [b EXCEPT !.strict = FALSE].saved = b.saved
  BY DEF Backups

LEMMA TakeSnapshotCore == IInv /\ TakeSnapshot => Core'
  <1> SUFFICES ASSUME IInv, TakeSnapshot PROVE Core'
    OBVIOUS
  <1>1. ld'.stale = ld.stale
    BY WorkerFields DEF TakeSnapshot, Go, IInv, TypeOK, Phases
  <1>2. Sound(snapshot)'
    <2>1. CASE snapshot # NothingSaved
      BY <2>1 DEF TakeSnapshot, IInv, Core, CopiesSound, Sound, GivenUp, historyVars
    <2>2. CASE snapshot = NothingSaved
      BY <2>2 DEF TakeSnapshot, IInv, Core, SnapshotFirst, Untouched, Sound, GivenUp, historyVars
    <2>3. QED
      BY <2>1, <2>2
  <1>3. QED
    BY <1>1, <1>2 DEF TakeSnapshot, IInv, Core, CopiesSound, Sound, Kept, Untouched,
                      BindingsSound, GivenUp, machineVars, historyVars

LEMMA EnumerateCore == IInv /\ Enumerate => Core'
  <1> SUFFICES ASSUME IInv, Enumerate PROVE Core'
    OBVIOUS
  <1>1. ld'.stale = backup
    BY DEF Enumerate, IInv, TypeOK, Workers
  <1>2. QED
    BY <1>1 DEF Enumerate, IInv, Core, CopiesSound, Sound, Kept, Untouched,
                BindingsSound, GivenUp, machineVars, fileVars, historyVars

LEMMA MergeTargetsCore == IInv /\ MergeTargets => Core' /\ Kept(ld.targets)'
  <1> SUFFICES ASSUME IInv, MergeTargets PROVE Core' /\ Kept(ld.targets)'
    OBVIOUS
  <1>1. ld'.stale = ld.stale /\ ld'.targets = ld.targets
    BY DEF MergeTargets, IInv, TypeOK, Workers
  <1>2. backup'.saved = Merge(backup.saved, ld.rows, ld.targets)
    BY BackupFields, BackupTypes, MergeType, WorkerTypes DEF MergeTargets, IInv, TypeOK
  <1>3. /\ Sound(backup'.saved)
        /\ \A a \in ld.targets : a \in GivenUp \/ backup'.saved[a] = own[a]
        /\ \A a \in Adapters : backup.saved[a] = own[a] => backup'.saved[a] = own[a]
    <2>1. ld.rows \in Saved /\ ld.targets \in SUBSET Adapters
      BY WorkerTypes DEF IInv, TypeOK
    <2>2. \A a \in ld.targets : a \in GivenUp \/ own[a] \in {backup.saved[a], ld.rows[a]}
      BY DEF MergeTargets, IInv, WorkerSound, Listed
    <2>3. QED
      BY <1>2, <2>1, <2>2, MergeSound
  <1>4. QED
    BY <1>1, <1>3 DEF MergeTargets, IInv, TypeOK, Core, CopiesSound, Sound, Kept, Untouched,
                      BindingsSound, GivenUp, machineVars, fileVars, historyVars

LEMMA SetDnsCore == ASSUME IInv, NEW a \in Adapters, SetDns(a) PROVE Core'
  <1>1. ld'.stale = ld.stale
    BY DEF SetDns, IInv, TypeOK, Workers
  <1>2. CASE UNCHANGED <<nic, held>>
    BY <1>1, <1>2, QuietKeepsCore DEF SetDns, fileVars
  <1>3. CASE nic' = [nic EXCEPT ![a].dns = "cb"] /\ held' = held \cup {a}
    <2>1. a \in GivenUp \/ backup.saved[a] = own[a]
      BY DEF SetDns, IInv, WorkerSound, Kept
    <2>2. nic'[a].v6 = nic[a].v6 /\ \A b \in Adapters \ {a} : nic'[b] = nic[b]
      BY <1>3 DEF IInv, TypeOK, Settings
    <2>3. QED
      BY <1>1, <1>3, <2>1, <2>2 DEF SetDns, IInv, Core, CopiesSound, Sound, Kept, Untouched,
                                    BindingsSound, GivenUp, fileVars
  <1>4. QED
    BY <1>2, <1>3 DEF SetDns

LEMMA SweepCore == IInv /\ Sweep => Core' /\ Kept(ld.targets)'
  <1> SUFFICES ASSUME IInv, Sweep PROVE Core' /\ Kept(ld.targets)'
    OBVIOUS
  <1> DEFINE rogues == Rogues(ld.strict)
  <1>1. ld'.stale = ld.stale /\ ld'.targets = ld.targets
    BY WorkerFields DEF Sweep, Go, IInv, TypeOK, Phases
  <1>2. nic \in Saved /\ rogues \in SUBSET Adapters
    BY SavedTypes DEF IInv, TypeOK, Rogues
  <1>3. backup'.saved = Merge(backup.saved, nic, rogues)
    BY <1>2, BackupFields, BackupTypes, MergeType DEF Sweep, IInv, TypeOK
  <1>4. \A a \in rogues : a \in GivenUp \/ own[a] \in {backup.saved[a], nic[a]}
    BY <1>2 DEF IInv, Core, Kept, Untouched
  <1>5. /\ Sound(backup'.saved)
        /\ \A a \in rogues : a \in GivenUp \/ backup'.saved[a] = own[a]
        /\ \A a \in Adapters : backup.saved[a] = own[a] => backup'.saved[a] = own[a]
    BY <1>2, <1>3, <1>4, MergeSound
  <1>6. \A a \in Adapters : nic'[a].v6 = nic[a].v6 /\ (a \in rogues \ ld.stuck \/ nic'[a] = nic[a])
    BY DEF Sweep, IInv, TypeOK, Settings
  <1>7. held' = held \cup (rogues \ ld.stuck)
    BY DEF Sweep
  <1>8. Kept(held)' /\ Kept(ld.targets)'
    BY <1>1, <1>5, <1>7 DEF Sweep, IInv, TypeOK, Workers, Core, WorkerSound, Kept, GivenUp
  <1>9. Untouched' /\ BindingsSound'
    BY <1>6, <1>7 DEF Sweep, IInv, Core, Untouched, BindingsSound, GivenUp
  <1>10. CopiesSound'
    BY <1>1, <1>5 DEF Sweep, IInv, Core, CopiesSound, Sound, GivenUp
  <1>11. QED
    BY <1>8, <1>9, <1>10 DEF Core

LEMMA SaveStrictCore == IInv /\ SaveStrict => Core' /\ Kept(ld.targets)'
  <1> SUFFICES ASSUME IInv, SaveStrict PROVE Core' /\ Kept(ld.targets)'
    OBVIOUS
  <1>1. ld'.stale = ld.stale /\ ld'.targets = ld.targets /\ ld.targets \subseteq Adapters
    BY DEF SaveStrict, IInv, TypeOK, Workers
  <1>2. backup'.saved = ld.stale.saved
    BY BackupFields, WorkerTypes DEF SaveStrict, IInv, TypeOK
  <1>3. \A a \in Adapters : a \notin GivenUp' =>
          a \notin GivenUp /\ (backup.saved[a] = own[a] => backup'.saved[a] = own[a])
    BY <1>2, OwnIsSaved DEF SaveStrict, GivenUp, SavedIn, IInv, Core, CopiesSound, Sound
  <1>4. Kept(held)' /\ Kept(ld.targets)'
    BY <1>1, <1>3 DEF SaveStrict, IInv, TypeOK, Core, WorkerSound, Kept
  <1>5. CopiesSound'
    BY <1>1, <1>2, <1>3 DEF SaveStrict, IInv, Core, CopiesSound, Sound
  <1>6. Untouched' /\ BindingsSound'
    BY <1>3 DEF SaveStrict, IInv, Core, Untouched, BindingsSound, machineVars
  <1>7. QED
    BY <1>4, <1>5, <1>6 DEF Core

LEMMA DisableV6Core == IInv /\ DisableV6 => Core'
  <1> SUFFICES ASSUME IInv, DisableV6 PROVE Core'
    OBVIOUS
  <1>1. ld'.stale = ld.stale
    BY WorkerFields DEF DisableV6, Go, IInv, TypeOK, Phases
  <1>2. \A a \in Adapters : nic'[a] = nic[a] \/ (a \in ld.targets /\ nic'[a].v6 = FALSE)
    BY DEF DisableV6, IInv, TypeOK
  <1>3. CopiesSound' /\ Kept(held)'
    BY <1>1 DEF DisableV6, IInv, Core, WorkerSound, CopiesSound, Sound, Kept, GivenUp, fileVars
  <1>4. Untouched' /\ BindingsSound'
    BY <1>2 DEF DisableV6, IInv, Core, Untouched, BindingsSound, GivenUp
  <1>5. QED
    BY <1>3, <1>4 DEF Core

LEMMA JudgeCore == IInv /\ Judge => Core'
  <1> SUFFICES ASSUME IInv, Judge PROVE Core'
    OBVIOUS
  <1>1. ld'.stale = ld.stale
    BY WorkerFields DEF Judge, Go, IInv, TypeOK, Phases
  <1>2. CASE UNCHANGED <<nic, held, backup, events>>
    BY <1>1, <1>2, QuietKeepsCore DEF Judge
  <1>3. CASE RestoreAdapters /\ backup' = [backup EXCEPT !.strict = FALSE]
    <2>1. backup'.saved = backup.saved
      BY <1>3 DEF IInv, TypeOK, Backups
    <2>2. held' \subseteq held /\ Untouched' /\ BindingsSound'
      BY <1>3, RestoreAdaptersSound DEF Judge
    <2>3. CopiesSound' /\ Kept(held)'
      BY <1>1, <2>1, <2>2 DEF Judge, IInv, Core, CopiesSound, Sound, Kept, GivenUp
    <2>4. QED
      BY <2>2, <2>3 DEF Core
  <1>4. QED
    BY <1>2, <1>3 DEF Judge

LEMMA RestoreSnapshotCore == IInv /\ RestoreSnapshot => Core'
  <1> SUFFICES ASSUME IInv, RestoreSnapshot PROVE Core'
    OBVIOUS
  <1> DEFINE new == [a \in Adapters |-> IF snapshot[a] = NotSaved THEN nic[a] ELSE snapshot[a]]
  <1>1. restoring'.copy = restoring.copy
    BY DEF RestoreSnapshot, IInv, TypeOK, Restorations
  <1>2. /\ nic' \in [Adapters -> Settings] /\ own \in [Adapters -> Settings]
        /\ \A a \in Adapters : /\ nic'[a].dns \in {nic[a].dns, new[a].dns}
                              /\ nic'[a].v6 \in {nic[a].v6, new[a].v6}
    BY CommandedType, SnapshotType DEF RestoreSnapshot, IInv, TypeOK
  <1>3. ASSUME NEW a \in Adapters, a \notin GivenUp
        PROVE  (a \in held \/ nic'[a] = own[a]) /\ (nic'[a].v6 => own[a].v6)
    <2>1. new[a] \in {nic[a], own[a]}
      BY <1>3 DEF IInv, Core, CopiesSound, Sound
    <2>2. nic'[a].v6 => own[a].v6
      BY <1>2, <1>3, <2>1 DEF IInv, Core, BindingsSound
    <2>3. a \notin held => nic[a] = own[a]
      BY <1>3 DEF IInv, Core, Untouched
    <2>4. a \notin held => nic'[a] = own[a]
      BY <1>2, <2>1, <2>3, OwnFields
    <2>5. QED
      BY <2>2, <2>4
  <1>4. Untouched' /\ BindingsSound'
    BY <1>3 DEF RestoreSnapshot, Untouched, BindingsSound, GivenUp
  <1>5. CopiesSound' /\ Kept(held)'
    BY <1>1 DEF RestoreSnapshot, IInv, Core, CopiesSound, Sound, Kept, GivenUp, fileVars
  <1>6. QED
    BY <1>4, <1>5 DEF Core

LEMMA RestoreBackupCore == IInv /\ RestoreBackup => Core' /\ held' \subseteq GivenUp' \cup missed'
  <1> SUFFICES ASSUME IInv, RestoreBackup PROVE Core' /\ held' \subseteq GivenUp' \cup missed'
    OBVIOUS
  <1>1. restoring'.copy = backup
    BY DEF RestoreBackup
  <1>2. /\ held' \subseteq held /\ Untouched' /\ BindingsSound'
        /\ held' \subseteq GivenUp \cup {a \in Adapters : nic'[a] # GiveBack(backup.saved)[a]}
    BY RestoreAdaptersSound DEF RestoreBackup
  <1>3. CopiesSound' /\ Kept(held)'
    BY <1>1, <1>2 DEF RestoreBackup, IInv, Core, CopiesSound, Sound, Kept, GivenUp, fileVars
  <1>4. held' \subseteq GivenUp' \cup missed'
    BY <1>2 DEF RestoreBackup, GivenUp
  <1>5. QED
    BY <1>2, <1>3, <1>4 DEF Core

LEMMA SaveRestoredCore ==
    ASSUME IInv, SaveRestored
    PROVE  /\ Core'
           /\ \A a \in Adapters : a \notin GivenUp' =>
                a \notin GivenUp /\ (backup.saved[a] = own[a] => backup'.saved[a] = own[a])
  <1>1. restoring'.copy = NoBackup
    BY DEF SaveRestored, NotRestoring
  <1>2. CASE UNCHANGED <<backup, lost>>
    BY <1>1, <1>2, QuietKeepsCore DEF SaveRestored, machineVars, GivenUp
  <1>3. CASE /\ backup' = [restoring.copy EXCEPT !.strict = FALSE]
             /\ lost' = lost \cup (SavedIn(backup.saved) \ SavedIn(restoring.copy.saved))
    <2>1. backup'.saved = restoring.copy.saved
      BY <1>3, BackupFields, RestorationTypes DEF IInv, TypeOK
    <2>2. \A a \in Adapters : a \notin GivenUp' =>
            a \notin GivenUp /\ (backup.saved[a] = own[a] => backup'.saved[a] = own[a])
      BY <1>3, <2>1, OwnIsSaved
      DEF SaveRestored, GivenUp, SavedIn, IInv, Core, CopiesSound, Sound
    <2>3. CopiesSound'
      BY <1>1, <2>1, <2>2
      DEF SaveRestored, IInv, Core, CopiesSound, Sound, NoBackup, NothingSaved
    <2>4. Kept(held)' /\ Untouched' /\ BindingsSound'
      BY <2>2 DEF SaveRestored, IInv, TypeOK, Core, Kept, Untouched, BindingsSound, machineVars
    <2>5. QED
      BY <2>2, <2>3, <2>4 DEF Core
  <1>4. QED
    BY <1>2, <1>3 DEF SaveRestored

LEMMA UserSetsCore == ASSUME IInv, NEW a \in Adapters, UserSets(a) PROVE Core'
  <1>1. ld.stale.saved = NothingSaved /\ restoring.copy.saved = NothingSaved
    BY DEF UserSets, IInv, WorkerSound, RestoringSound, Idle, NoBackup
  <1>2. /\ \A b \in Adapters \ {a} : nic'[b] = nic[b] /\ own'[b] = own[b]
        /\ nic[a] = own[a] => nic'[a] = own'[a]
    BY DEF UserSets, IInv, TypeOK, Settings
  <1>3. /\ nic'[a].v6 = nic[a].v6 /\ own'[a].v6 = own[a].v6
        /\ a \notin held
    BY DEF UserSets, IInv, TypeOK, Settings
  <1>4. /\ GivenUp \subseteq GivenUp'
        /\ a \notin GivenUp' => backup.saved[a] = NotSaved /\ snapshot[a] = NotSaved
    BY DEF UserSets, GivenUp, SavedIn
  <1>5. CopiesSound'
    BY <1>1, <1>2, <1>4
    DEF UserSets, IInv, Core, CopiesSound, Sound, NothingSaved, fileVars
  <1>6. Kept(held)'
    BY <1>2, <1>3, <1>4 DEF UserSets, IInv, TypeOK, Core, Kept, fileVars
  <1>7. Untouched' /\ BindingsSound'
    BY <1>2, <1>3, <1>4 DEF UserSets, IInv, Core, Untouched, BindingsSound
  <1>8. QED
    BY <1>5, <1>6, <1>7 DEF Core

LEMMA TamperCore == IInv /\ Tamper => Core'
  <1> SUFFICES ASSUME IInv, Tamper PROVE Core'
    OBVIOUS
  <1>1. CASE nic' = nic
    BY <1>1, QuietKeepsCore DEF Tamper, fileVars, historyVars
  <1>2. ASSUME NEW a \in held, nic' = [nic EXCEPT ![a] = [dns |-> "work", v6 |-> @.v6 \/ own[a].v6]]
        PROVE  Core'
    <2>1. a \in Adapters
      BY DEF IInv, TypeOK
    <2>2. /\ \A b \in Adapters \ {a} : nic'[b] = nic[b]
          /\ nic'[a].v6 = (nic[a].v6 \/ own[a].v6)
      BY <1>2, <2>1 DEF IInv, TypeOK
    <2>3. QED
      BY <2>1, <2>2 DEF Tamper, IInv, Core, CopiesSound, Sound, Kept, Untouched,
                        BindingsSound, GivenUp, fileVars, historyVars
  <1>3. QED
    BY <1>1, <1>2 DEF Tamper

LEMMA CoreNext == IInv /\ [Next]_vars => Core'
  <1> SUFFICES ASSUME IInv, [Next]_vars PROVE Core'
    OBVIOUS
  <1> USE DEF machineVars, fileVars, historyVars
  <1>1. ASSUME Boot PROVE Core'
    BY <1>1, QuietKeepsCore DEF Boot, Begin, Idle
  <1>2. ASSUME BootUnlocked PROVE Core'
    BY <1>2, QuietKeepsCore DEF BootUnlocked
  <1>3. ASSUME Request PROVE Core'
    BY <1>3, QuietKeepsCore DEF Request, Begin, Idle
  <1>4. ASSUME WatchLockdown PROVE Core'
    BY <1>4, QuietKeepsCore DEF WatchLockdown, Begin, Idle
  <1>5. ASSUME Refresh PROVE Core'
    BY <1>5, QuietKeepsCore DEF Refresh
  <1>6. ASSUME Prepare PROVE Core'
    BY <1>6, WorkerFields, QuietKeepsCore DEF Prepare, Go, Phases, IInv, TypeOK
  <1>7. ASSUME Verify PROVE Core'
    <2>1. ld' = [ld EXCEPT !.phase = "judge"] \/ ld' = [ld EXCEPT !.phase = "strict"]
      BY <1>7 DEF Verify, Go
    <2>2. ld'.stale = ld.stale
      BY <2>1 DEF IInv, TypeOK, Workers
    <2>3. QED
      BY <1>7, <2>2, QuietKeepsCore DEF Verify
  <1>8. ASSUME CoreRules PROVE Core'
    BY <1>8, WorkerFields, QuietKeepsCore DEF CoreRules, Go, Phases, IInv, TypeOK
  <1>9. ASSUME NEW r \in Rules, RawRule(r) PROVE Core'
    BY <1>9, QuietKeepsCore DEF RawRule
  <1>10. ASSUME RawFails PROVE Core'
    BY <1>10, WorkerFields, QuietKeepsCore DEF RawFails, Go, Phases, IInv, TypeOK
  <1>11. ASSUME RawDone PROVE Core'
    BY <1>11, QuietKeepsCore DEF RawDone, Workers, IInv, TypeOK
  <1>12. ASSUME DisableTunnels PROVE Core'
    BY <1>12, WorkerFields, QuietKeepsCore DEF DisableTunnels, Go, Phases, IInv, TypeOK
  <1>13. ASSUME Finish PROVE Core'
    BY <1>13, QuietKeepsCore DEF Finish, Idle
  <1>14. ASSUME SkipRest PROVE Core'
    BY <1>14, WorkerFields, QuietKeepsCore DEF SkipRest, Go, Phases, IInv, TypeOK
  <1>15. ASSUME WorkerFails PROVE Core'
    BY <1>15, QuietKeepsCore DEF WorkerFails, Idle
  <1>16. ASSUME FailChallenge PROVE Core'
    BY <1>16, QuietKeepsCore DEF FailChallenge, NotRestoring
  <1>17. ASSUME RemoveRules PROVE Core'
    BY <1>17, QuietKeepsCore DEF RemoveRules, Restorations, IInv, TypeOK
  <1>18. ASSUME Restart PROVE Core'
    BY <1>18, QuietKeepsCore DEF Restart, Idle, NotRestoring
  <1>19. ASSUME SyncChallenge PROVE Core'
    BY <1>19, QuietKeepsCore DEF SyncChallenge
  <1>20. CASE UNCHANGED vars
    BY <1>20, QuietKeepsCore DEF vars
  <1>21. QED
    BY <1>1, <1>2, <1>3, <1>4, <1>5, <1>6, <1>7, <1>8, <1>9, <1>10, <1>11, <1>12, <1>13, <1>14, <1>15, <1>16, <1>17, <1>18, <1>19, <1>20,
       TakeSnapshotCore, EnumerateCore, MergeTargetsCore, SetDnsCore, SweepCore, SaveStrictCore, DisableV6Core,
       JudgeCore, RestoreSnapshotCore, RestoreBackupCore, SaveRestoredCore, UserSetsCore, TamperCore
    DEF Next, Worker, Restoration, User

-----------------------------------------------------------------------------
(* The snapshot, the worker and the restoration. *)

LEMMA SnapshotFirstKept ==
    ASSUME IInv, UNCHANGED snapshot, held' \subseteq held, extras' \subseteq extras,
           ld' = ld \/ ld'.phase \in {"idle", "snapshot", "finish"}
    PROVE  SnapshotFirst'
  BY DEF IInv, SnapshotFirst

LEMMA SnapshotTaken ==
    ASSUME IInv, ld.phase \notin {"idle", "snapshot", "finish"}, UNCHANGED snapshot
    PROVE  SnapshotFirst'
  BY DEF IInv, SnapshotFirst

LEMMA SnapshotFirstNext == IInv /\ [Next]_vars => SnapshotFirst'
  <1> SUFFICES ASSUME IInv, [Next]_vars PROVE SnapshotFirst'
    OBVIOUS
  <1> USE DEF machineVars, fileVars, historyVars
  <1>1. CASE TakeSnapshot
    <2>1. PICK a \in Up : TRUE
      BY LockdownAssumption
    <2>2. snapshot' # NothingSaved
      <3>1. CASE snapshot # NothingSaved
        BY <1>1, <3>1 DEF TakeSnapshot
      <3>2. CASE snapshot = NothingSaved
        <4>1. a \in Adapters /\ nic[a] # NotSaved
          BY LockdownAssumption, SettingsNotNone DEF IInv, TypeOK
        <4>2. snapshot'[a] = nic[a]
          BY <1>1, <3>2, <4>1 DEF TakeSnapshot
        <4>3. NothingSaved[a] = NotSaved
          BY <4>1 DEF NothingSaved
        <4>4. QED
          BY <4>1, <4>2, <4>3
      <3>3. QED
        BY <3>1, <3>2
    <2>3. QED
      BY <2>2 DEF SnapshotFirst
  <1>2. CASE Finish \/ WorkerFails
    BY <1>2, SnapshotFirstKept DEF Finish, WorkerFails, Idle
  <1>3. CASE SkipRest
    <2>1. ld'.phase = "finish"
      BY <1>3, WorkerFields DEF SkipRest, Go, Phases, IInv, TypeOK
    <2>2. QED
      BY <1>3, <2>1, SnapshotFirstKept DEF SkipRest
  <1>4. ASSUME Prepare PROVE SnapshotFirst'
    BY <1>4, SnapshotTaken DEF Prepare
  <1>5. ASSUME Enumerate PROVE SnapshotFirst'
    BY <1>5, SnapshotTaken DEF Enumerate
  <1>6. ASSUME MergeTargets PROVE SnapshotFirst'
    BY <1>6, SnapshotTaken DEF MergeTargets
  <1>7. ASSUME NEW a \in Adapters, SetDns(a) PROVE SnapshotFirst'
    BY <1>7, SnapshotTaken DEF SetDns
  <1>8. ASSUME Sweep PROVE SnapshotFirst'
    BY <1>8, SnapshotTaken DEF Sweep
  <1>9. ASSUME Verify PROVE SnapshotFirst'
    BY <1>9, SnapshotTaken DEF Verify
  <1>10. ASSUME SaveStrict PROVE SnapshotFirst'
    BY <1>10, SnapshotTaken DEF SaveStrict
  <1>11. ASSUME DisableV6 PROVE SnapshotFirst'
    BY <1>11, SnapshotTaken DEF DisableV6
  <1>12. ASSUME Judge PROVE SnapshotFirst'
    BY <1>12, SnapshotTaken DEF Judge
  <1>13. ASSUME CoreRules PROVE SnapshotFirst'
    BY <1>13, SnapshotTaken DEF CoreRules
  <1>14. ASSUME NEW r \in Rules, RawRule(r) PROVE SnapshotFirst'
    BY <1>14, SnapshotTaken DEF RawRule
  <1>15. ASSUME RawFails PROVE SnapshotFirst'
    BY <1>15, SnapshotTaken DEF RawFails
  <1>16. ASSUME RawDone PROVE SnapshotFirst'
    BY <1>16, SnapshotTaken DEF RawDone
  <1>17. ASSUME DisableTunnels PROVE SnapshotFirst'
    BY <1>17, SnapshotTaken DEF DisableTunnels
  <1>18. CASE Boot \/ Request \/ WatchLockdown
    BY <1>18, SnapshotFirstKept DEF Boot, Request, WatchLockdown, Begin, Idle
  <1>19. CASE BootUnlocked \/ Refresh \/ FailChallenge \/ SyncChallenge \/ Tamper
    BY <1>19, SnapshotFirstKept DEF BootUnlocked, Refresh, FailChallenge, SyncChallenge, Tamper
  <1>20. CASE Restoration
    <2>1. held' \subseteq held /\ UNCHANGED <<snapshot, ld>>
      BY <1>20
      DEF Restoration, RemoveRules, RestoreSnapshot, RestoreBackup, RestoreAdapters, SaveRestored
    <2>2. extras' \subseteq extras
      BY <1>20 DEF Restoration, RemoveRules, RestoreSnapshot, RestoreBackup, SaveRestored
    <2>3. QED
      BY <2>1, <2>2, SnapshotFirstKept
  <1>21. CASE Restart
    BY <1>21, SnapshotFirstKept DEF Restart, Idle
  <1>22. ASSUME NEW a \in Adapters, UserSets(a) PROVE SnapshotFirst'
    BY <1>22, SnapshotFirstKept DEF UserSets
  <1>23. CASE UNCHANGED vars
    BY <1>23, SnapshotFirstKept DEF vars
  <1>24. QED
    BY <1>1, <1>2, <1>3, <1>4, <1>5, <1>6, <1>7, <1>8, <1>9, <1>10, <1>11, <1>12, <1>13, <1>14, <1>15, <1>16, <1>17, <1>18, <1>19, <1>20, <1>21, <1>22, <1>23 DEF Next, Worker, User

\* A step beside the worker that makes no adapter's entry worse.
LEMMA WorkerKept ==
    ASSUME IInv, UNCHANGED ld,
           \A a \in Adapters : a \notin GivenUp' =>
             /\ a \notin GivenUp /\ own'[a] = own[a]
             /\ backup.saved[a] = own[a] => backup'.saved[a] = own[a]
    PROVE  WorkerSound'
  <1>1. ld.targets \subseteq Adapters /\ ld.todo \subseteq Adapters
    BY WorkerTypes DEF IInv, TypeOK
  <1>2. QED
    BY <1>1 DEF IInv, WorkerSound, Kept, Listed

\* A step to a phase of which nothing is claimed.
LEMMA WorkerElsewhere ==
    ASSUME ld'.phase \notin {"idle", "merge", "apply", "verify", "strict", "disable"}
    PROVE  WorkerSound'
  BY DEF WorkerSound

LEMMA WorkerNext == IInv /\ [Next]_vars => WorkerSound'
  <1> SUFFICES ASSUME IInv, [Next]_vars PROVE WorkerSound'
    OBVIOUS
  <1> USE DEF machineVars, fileVars, historyVars
  <1>1. CASE TakeSnapshot \/ Prepare \/ DisableV6 \/ Judge \/ CoreRules \/ RawFails
             \/ DisableTunnels \/ SkipRest
    <2>1. \E p \in {"tunnels", "prepare", "enumerate", "judge", "firewall", "raw", "finish"} : Go(p)
      BY <1>1 DEF TakeSnapshot, Prepare, DisableV6, Judge, CoreRules, RawFails, DisableTunnels, SkipRest
    <2>2. QED
      BY <2>1, WorkerFields, WorkerElsewhere DEF Go, Phases, IInv, TypeOK
  <1>2. CASE RawDone
    <2>1. ld'.phase = "tunnels"
      BY <1>2 DEF RawDone, IInv, TypeOK, Workers
    <2>2. QED
      BY <2>1, WorkerElsewhere
  <1>3. CASE Enumerate
    <2>1. /\ ld'.phase \in {"firewall", "merge"}
          /\ ld'.targets = Targets(backup.strict) /\ ld'.rows = nic
      BY <1>3 DEF Enumerate, IInv, TypeOK, Workers
    <2>2. Listed'
      BY <1>3, <2>1 DEF Enumerate, Targets, Listed, GivenUp, IInv, Core, Kept, Untouched
    <2>3. QED
      BY <2>1, <2>2 DEF WorkerSound
  <1>4. CASE MergeTargets
    <2>1. /\ ld'.phase = "apply" /\ ld'.targets = ld.targets
          /\ ld'.todo \subseteq ld.targets
      BY <1>4 DEF MergeTargets, IInv, TypeOK, Workers
    <2>2. Kept(ld.targets)' /\ Kept(ld.todo)'
      BY <1>4, <2>1, MergeTargetsCore DEF Kept
    <2>3. QED
      BY <2>1, <2>2 DEF WorkerSound
  <1>5. ASSUME NEW a \in Adapters, SetDns(a) PROVE WorkerSound'
    <2>1. ld'.phase = "apply" /\ ld'.targets = ld.targets /\ ld'.todo \subseteq ld.todo
      BY <1>5 DEF SetDns, IInv, TypeOK, Workers
    <2>2. QED
      BY <1>5, <2>1 DEF SetDns, IInv, WorkerSound, Kept, GivenUp
  <1>6. CASE Sweep
    <2>1. ld'.phase = "verify" /\ ld'.targets = ld.targets
      BY <1>6, WorkerFields DEF Sweep, Go, Phases, IInv, TypeOK
    <2>2. QED
      BY <1>6, <2>1, SweepCore DEF WorkerSound, Kept
  <1>7. CASE Verify
    <2>1. ld'.phase \in {"judge", "strict"} /\ ld'.targets = ld.targets
      BY <1>7 DEF Verify, Go, IInv, TypeOK, Workers
    <2>2. QED
      BY <1>7, <2>1 DEF Verify, IInv, WorkerSound, Kept, GivenUp
  <1>8. CASE SaveStrict
    <2>1. ld'.phase = "disable" /\ ld'.targets = ld.targets
      BY <1>8 DEF SaveStrict, IInv, TypeOK, Workers
    <2>2. QED
      BY <1>8, <2>1, SaveStrictCore DEF WorkerSound, Kept
  <1>9. CASE Finish \/ WorkerFails \/ Restart
    BY <1>9 DEF Finish, WorkerFails, Restart, WorkerSound, Idle
  <1>10. CASE Boot \/ Request \/ WatchLockdown
    <2>1. ld'.phase = "snapshot"
      BY <1>10 DEF Boot, Request, WatchLockdown, Begin, Idle
    <2>2. QED
      BY <2>1, WorkerElsewhere
  <1>11. CASE SaveRestored
    BY <1>11, SaveRestoredCore, WorkerKept DEF SaveRestored
  <1>12. ASSUME NEW a \in Adapters, UserSets(a) PROVE WorkerSound'
    BY <1>12 DEF UserSets, IInv, WorkerSound
  <1>13. CASE \/ BootUnlocked \/ Refresh \/ FailChallenge \/ SyncChallenge \/ Tamper
              \/ RemoveRules \/ RestoreSnapshot \/ RestoreBackup
              \/ (\E r \in Rules : RawRule(r)) \/ UNCHANGED vars
    BY <1>13, WorkerKept
    DEF BootUnlocked, Refresh, FailChallenge, SyncChallenge, Tamper, RemoveRules,
        RestoreSnapshot, RestoreBackup, RawRule, vars, GivenUp
  <1>14. QED
    BY <1>1, <1>2, <1>3, <1>4, <1>5, <1>6, <1>7, <1>8, <1>9, <1>10, <1>11, <1>12, <1>13 DEF Next, Worker, Restoration, User

\* A step of the worker and one of the watch: nothing was restored in the end.
LEMMA RestoringIdle ==
    ASSUME IInv, ~restored, UNCHANGED <<restoring, restored>>
    PROVE  RestoringSound'
  BY DEF IInv, RestoringSound

LEMMA RestoringNext == IInv /\ [Next]_vars => RestoringSound'
  <1> SUFFICES ASSUME IInv, [Next]_vars PROVE RestoringSound'
    OBVIOUS
  <1> USE DEF machineVars, fileVars, historyVars
  <1>1. CASE Worker \/ WorkerFails
    <2>1. ld.phase # "idle" /\ UNCHANGED <<restoring, restored>>
      BY <1>1
      DEF Worker, WorkerFails, TakeSnapshot, Prepare, Enumerate, MergeTargets, SetDns, Sweep,
          Verify, SaveStrict, DisableV6, Judge, CoreRules, RawRule, RawFails, RawDone,
          DisableTunnels, Finish, SkipRest
    <2>2. QED
      BY <2>1, RestoringIdle DEF IInv, RestoringSound
  <1>2. CASE Boot \/ Request \/ WatchLockdown
    BY <1>2 DEF Boot, Request, WatchLockdown, Begin, IInv, RestoringSound
  <1>3. CASE Refresh
    <2>1. ~restored
      BY <1>3 DEF Refresh, IInv, RestoringSound
    <2>2. QED
      BY <1>3, <2>1, RestoringIdle DEF Refresh
  <1>4. CASE BootUnlocked
    <2>1. main'.watch = main.watch
      BY <1>4 DEF BootUnlocked, IInv, TypeOK, Processes
    <2>2. QED
      BY <1>4, <2>1 DEF BootUnlocked, IInv, RestoringSound, GivenUp
  <1>5. CASE FailChallenge
    <2>1. ~main'.watch
      BY <1>5 DEF FailChallenge, IInv, TypeOK, Processes
    <2>2. CASE main.applied \/ active
      <3>1. restoring' = [phase |-> "remove", copy |-> NoBackup]
        BY <1>5, <2>2 DEF FailChallenge, NotRestoring
      <3>2. restored' = (ld.phase = "idle") /\ ld' = ld
        BY <1>5, <2>2 DEF FailChallenge
      <3>3. QED
        BY <2>1, <3>1, <3>2 DEF RestoringSound
    <2>3. CASE ~(main.applied \/ active)
      BY <1>5, <2>1, <2>3 DEF FailChallenge, IInv, RestoringSound, GivenUp
    <2>4. QED
      BY <2>2, <2>3
  <1>6. CASE RemoveRules
    <2>1. restoring'.phase = "snapshot" /\ restoring'.copy = restoring.copy
      BY <1>6 DEF RemoveRules, IInv, TypeOK, Restorations
    <2>2. QED
      BY <1>6, <2>1 DEF RemoveRules, IInv, RestoringSound
  <1>7. CASE RestoreSnapshot
    <2>1. restoring'.phase = "backup" /\ restoring'.copy = restoring.copy
      BY <1>7 DEF RestoreSnapshot, IInv, TypeOK, Restorations
    <2>2. "rules" \in missed' \/ (extras' = {} /\ missed' = missed)
      BY <1>7 DEF RestoreSnapshot, IInv, SnapshotFirst
    <2>3. missed \subseteq missed'
      BY <1>7 DEF RestoreSnapshot
    <2>4. QED
      BY <1>7, <2>1, <2>2, <2>3 DEF RestoreSnapshot, IInv, RestoringSound
  <1>8. CASE RestoreBackup
    <2>1. restoring.phase = "backup" /\ restoring'.phase = "save"
      BY <1>8 DEF RestoreBackup
    <2>2. QED
      BY <1>8, <2>1, RestoreBackupCore DEF RestoreBackup, IInv, RestoringSound
  <1>9. CASE SaveRestored
    <2>1. restoring.phase = "save" /\ restoring'.phase = "idle" /\ restoring'.copy = NoBackup
      BY <1>9 DEF SaveRestored, NotRestoring
    <2>2. lost \subseteq lost'
      BY <1>9 DEF SaveRestored
    <2>3. QED
      BY <1>9, <2>1, <2>2 DEF SaveRestored, IInv, RestoringSound, GivenUp
  <1>10. CASE Restart
    <2>1. /\ ld'.phase = "idle" /\ ~main'.watch
          /\ restoring'.phase = "idle" /\ restoring'.copy = NoBackup
      BY <1>10 DEF Restart, Idle, NotRestoring
    <2>2. restored' => restored /\ restoring.phase = "idle"
      BY <1>10 DEF Restart
    <2>3. UNCHANGED <<extras, held, lost, moved, missed>>
      BY <1>10 DEF Restart
    <2>4. ASSUME fw = NoRules PROVE fw' = NoRules
      <3>1. fw.core = FALSE /\ fw.raw = {}
        BY <2>4 DEF NoRules
      <3>2. RulesLeft \subseteq {NoRules}
        <4>1. ASSUME NEW f \in [core : {FALSE, FALSE}, raw : SUBSET {}]
              PROVE  f = [core |-> FALSE, raw |-> {}]
          <5>1. f.core = FALSE /\ f.raw = {}
            OBVIOUS
          <5>2. QED
            BY <5>1
        <4>2. QED
          BY <3>1, <4>1 DEF RulesLeft, NoRules
      <3>3. QED
        BY <1>10, <2>4, <3>2 DEF Restart
    <2>5. QED
      BY <2>1, <2>2, <2>3, <2>4 DEF IInv, RestoringSound, GivenUp
  <1>11. CASE SyncChallenge \/ UNCHANGED vars
    BY <1>11 DEF SyncChallenge, vars, IInv, RestoringSound, GivenUp
  <1>12. ASSUME NEW a \in Adapters, UserSets(a) PROVE RestoringSound'
    BY <1>12 DEF UserSets, IInv, RestoringSound, GivenUp
  <1>13. CASE Tamper
    <2>1. fw = NoRules => fw' = fw
      BY <1>13 DEF Tamper, NoRules
    <2>2. QED
      BY <1>13, <2>1 DEF Tamper, IInv, RestoringSound, GivenUp
  <1>14. QED
    BY <1>1, <1>2, <1>3, <1>4, <1>5, <1>6, <1>7, <1>8, <1>9, <1>10, <1>11, <1>12, <1>13
    DEF Next, Restoration, User

-----------------------------------------------------------------------------
(* The theorems. *)

LEMMA Inductive == Init => IInv
  <1> SUFFICES ASSUME Init PROVE IInv
    OBVIOUS
  <1>1. TypeOK
    BY TypeInit
  <1>2. Core
    BY <1>1 DEF Init, TypeOK, Core, CopiesSound, Sound, Kept, Untouched, BindingsSound, GivenUp,
                NoBackup, NothingSaved, Idle, NotRestoring
  <1>3. SnapshotFirst /\ WorkerSound /\ RestoringSound
    BY DEF Init, SnapshotFirst, WorkerSound, RestoringSound, Idle, NotRestoring
  <1>4. QED
    BY <1>1, <1>2, <1>3 DEF IInv

LEMMA Invariance == Spec => []IInv
  <1>1. IInv /\ [Next]_vars => IInv'
    BY TypeNext, CoreNext, SnapshotFirstNext, WorkerNext, RestoringNext DEF IInv
  <1>2. QED
    BY <1>1, Inductive, PTL DEF Spec

\* Types, for all adapters and rules and any number of failures and restarts.
THEOREM TypeCorrect == Spec => []TypeOK
  <1>1. IInv => TypeOK
    BY DEF IInv
  <1>2. QED
    BY <1>1, Invariance, PTL

\* What NetFast holds it can give back: at every moment the backup on disk has
\* the user's settings of every adapter that a lockdown has changed, but for the
\* entries that a stale copy of the file overwrote (networkEnforcement.js:944).
THEOREM OriginalsSaved == Spec => []OriginalsAreSaved
  <1>1. IInv => OriginalsAreSaved
    BY DEF IInv, Core, Kept, GivenUp, OriginalsAreSaved
  <1>2. QED
    BY <1>1, Invariance, PTL

\* A restoration beside which no lockdown ran brings back the user's adapters and
\* leaves no rule, policy or setting of NetFast's, but for what its commands miss:
\* each of them may fail without a word, and none works when the challenge is no
\* longer active (systemRestore.js:68-115, powershell.js:16).
THEOREM RestoreReturns == Spec => []RestoreReturnsOriginals
  <1>1. IInv => RestoreReturnsOriginals
    BY DEF IInv, Core, Untouched, RestoringSound, GivenUp, RestoreReturnsOriginals
  <1>2. QED
    BY <1>1, Invariance, PTL
===============================================================================
