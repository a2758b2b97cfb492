-------------------------- MODULE VpnHandler_proofs --------------------------
(***************************************************************************)
(* Proofs that the safety invariants of VpnHandler hold for any number of  *)
(* concurrent re-applies and any number of restarts, and that it           *)
(* implements VpnWarning.  The fairness of the promise is left to model    *)
(* checking.                                                               *)
(***************************************************************************)
EXTENDS VpnHandler, TLAPS

\* The restoration belongs to the failure, which outlives it, and a failed
\* challenge has no warning that could be re-applied.
FailureInv ==
    /\ restoring => challengeFailed
    /\ boot = "failed" => restoring
    /\ challengeFailed => ~file.paused

\* The counted warning and the warning on file are one.
WarningInv == warnings <= 1 /\ (warnings = 1 => file.warned)

\* What the file says of the end of a VPN session, and what the failure took it
\* for, is backed by a session that ended: since the warning the VPN is up as it
\* was then, or has been down.
SessionInv ==
    /\ file.warned => gap \/ vpn
    /\ file.clearedOnce => gap
    /\ file.resolved /\ file.warned => gap
    /\ cause = "second" => challengeFailed /\ gap

\* When nothing was on its way at the failure and no page asks for it later,
\* nothing gets on its way; the lock is what a restoration may have left.
QuietInv ==
    challengeFailed /\ excuses \cap {"inflight", "asked"} = {} =>
      /\ lockdown = "idle" /\ probe = "idle" /\ boot # "failed"
      /\ \A r \in Reapplies : reapply[r] = "idle"
      /\ ~watch
      /\ ~restoring /\ locked => "unfinished" \in excuses

\* An outstanding warning is on file, as it was given.
OutstandingInv ==
    outstanding =>
      /\ ~challengeFailed
      /\ file.warned /\ file.paused /\ ~file.expired /\ ~file.resolved

IInv ==
    /\ TypeOK
    /\ FailureInv /\ WarningInv /\ OutstandingInv /\ SessionInv /\ QuietInv

-----------------------------------------------------------------------------
(* Types *)

\* The last part of TypeOK.
Awaited == LockdownAwaited => lockdown # "idle"

LEMMA FileTypes ==
    ASSUME NEW s \in State
    PROVE  /\ NoWarning \in State /\ FirstWarning \in State
           /\ [s EXCEPT !.report = "none"] \in State
           /\ \A reason \in FinalReports :
                [s EXCEPT !.expired = TRUE, !.paused = FALSE, !.report = reason] \in State
           /\ \A once \in BOOLEAN : [s EXCEPT !.clearedOnce = once] \in State
           /\ [s EXCEPT !.acknowledged = TRUE] \in State
           /\ [s EXCEPT !.resolved = TRUE, !.paused = FALSE, !.report = "none"] \in State
  BY DEF State, NoWarning, FirstWarning, Reports, FinalReports

LEMMA FailType ==
    ASSUME TypeOK, NEW reason \in FinalReports, NEW pending \in BOOLEAN,
           Fail(reason, pending),
           boot' \in {"window", "failed", "lockdown", "done"},
           lastVpnActive' \in BOOLEAN,
           Awaited'
    PROVE  TypeOK'
  <1>1. file' \in State
    BY FileTypes DEF TypeOK, Fail
  <1>2. excuses' \subseteq Excuses /\ cause' \in Reports
    BY DEF Fail, Excuses, Reports, FinalReports
  <1>3. QED
    BY <1>1, <1>2 DEF TypeOK, Awaited, Fail, worldVars

LEMMA AnswerType ==
    ASSUME TypeOK, NEW ipc, NEW s \in State, Answer(ipc, s)
    PROVE  file' \in State
  BY FileTypes DEF Answer

LEMMA TypeInit == Init => TypeOK
  <1> SUFFICES ASSUME Init
               PROVE  TypeOK
    OBVIOUS
  <1>1. file \in State
    BY DEF Init, State, NoWarning, Reports
  <1>2. /\ reapply \in [Reapplies -> {"idle", "lockdown", "health"}]
        /\ ~LockdownAwaited
    BY DEF Init, LockdownAwaited
  <1>3. restarts \in 0..MaxRestarts
    BY HandlerAssumption DEF Init
  <1>4. /\ {due, challengeFailed, enforcementDisabled, lastVpnActive, watch,
             monitors, restoring} \subseteq BOOLEAN
        /\ {vpn, locked, dashboard, outstanding, gap} \subseteq BOOLEAN
    BY DEF Init
  <1>5. /\ boot \in {"window", "failed", "lockdown", "done"}
        /\ probe \in {"idle", "probing", "lockdown"}
        /\ lockdown \in {"idle", "running", "applied"}
        /\ warnings \in 0..2 /\ cause \in Reports /\ excuses \subseteq Excuses
    BY DEF Init, Reports
  <1>6. QED
    BY <1>1, <1>2, <1>3, <1>4, <1>5 DEF TypeOK

\* Nobody is left waiting for a lockdown that has ended.
LEMMA AwaitedNext == TypeOK /\ [Next]_vars => Awaited'
  <1> SUFFICES ASSUME Awaited, reapply \in [Reapplies -> {"idle", "lockdown", "health"}], [Next]_vars
               PROVE  Awaited'
    BY DEF TypeOK, Awaited
  <1> USE DEF Awaited, LockdownAwaited
  <1>1. CASE UNCHANGED <<reapply, probe, boot, lockdown>>
    BY <1>1
  <1>2. ASSUME NEW ok \in BOOLEAN, LockdownDone(ok)
        PROVE  Awaited'
    BY <1>2 DEF LockdownDone
  <1>3. CASE WatchCheck \/ WatchProbed \/ AutoRestore \/ RestoreDns
    BY <1>3 DEF WatchCheck, WatchProbed, AutoRestore, RestoreDns, JoinLockdown, bootVars
  <1>4. ASSUME NEW r \in Reapplies, ReapplyStart(r) \/ ReapplyEnd(r)
        PROVE  Awaited'
    BY <1>4 DEF ReapplyStart, ReapplyEnd, JoinLockdown, bootVars
  <1>5. CASE StartupSkipped \/ StartupExpired \/ StartupLockdown \/ FailDone
    BY <1>5 DEF StartupSkipped, StartupExpired, StartupLockdown, FailDone, Fail, JoinLockdown, callVars
  <1>6. CASE LockdownApplied \/ Restart
    BY <1>6 DEF LockdownApplied, Restart, bootVars
  <1>7. CASE VpnCheck \/ Acknowledge \/ \E r \in Reapplies : ReapplyExpired(r)
    BY <1>1, <1>7 DEF VpnCheck, VpnCheckFails, Acknowledge, ReapplyExpired, Fail, bootVars, callVars
  <1>8. CASE \/ VpnToggles \/ DeadlinePasses \/ Navigate \/ UNCHANGED vars
             \/ StartMonitoring \/ StopMonitoring
    BY <1>1, <1>8 DEF VpnToggles, DeadlinePasses, Navigate, StartMonitoring, StopMonitoring, vars,
                      bootVars, callVars
  <1>9. QED
    BY <1>2, <1>3, <1>4, <1>5, <1>6, <1>7, <1>8 DEF Next, MainProcess, World

LEMMA TypeNext == TypeOK /\ [Next]_vars => TypeOK'
  <1> SUFFICES ASSUME TypeOK, [Next]_vars, Awaited'
               PROVE  TypeOK'
    BY AwaitedNext
  <1> USE HandlerAssumption
  <1>1. ASSUME NEW reason \in FinalReports, VpnCheckFails(reason)
        PROVE  TypeOK'
    <2>1. Pending \in BOOLEAN /\ lastVpnActive' \in BOOLEAN
      BY <1>1 DEF VpnCheckFails, Pending, TypeOK
    <2>2. QED
      BY <1>1, <2>1, FailType DEF VpnCheckFails, TypeOK, Awaited
  <1>2. ASSUME NEW ipc \in {"vectors", "state"},
               VpnCheckDuringWarning(ipc) \/ VpnCheckWarns(ipc) \/ VpnCheckIdle(ipc),
               UNCHANGED <<bootVars, callVars, vpn, locked, restarts, dashboard>>
        PROVE  TypeOK'
    <2>1. CASE VpnCheckDuringWarning(ipc)
      <3>1. [file EXCEPT !.clearedOnce = @ \/ (~vpn /\ lastVpnActive)] \in State
        BY DEF TypeOK, Awaited, State
      <3>2. file' \in State
        BY <2>1, <3>1, AnswerType DEF VpnCheckDuringWarning
      <3>3. QED
        BY <1>2, <2>1, <3>2 DEF VpnCheckDuringWarning, TypeOK, Awaited, bootVars, callVars, historyVars
    <2>2. CASE VpnCheckWarns(ipc)
      <3>1. FirstWarning \in State
        BY FileTypes DEF TypeOK
      <3>2. file' \in State
        BY <2>2, <3>1, AnswerType DEF VpnCheckWarns
      <3>3. warnings' \in 0..2
        BY <2>2 DEF VpnCheckWarns, TypeOK
      <3>4. /\ {due', lastVpnActive', outstanding', gap'} \subseteq BOOLEAN
            /\ UNCHANGED <<challengeFailed, enforcementDisabled, watch, cause, excuses>>
        BY <2>2 DEF VpnCheckWarns
      <3>5. QED
        BY <1>2, <3>2, <3>3, <3>4 DEF TypeOK, Awaited, bootVars, callVars
    <2>3. CASE VpnCheckIdle(ipc)
      <3>1. file' \in State
        BY <2>3, AnswerType DEF VpnCheckIdle, TypeOK
      <3>2. QED
        BY <1>2, <2>3, <3>1 DEF VpnCheckIdle, TypeOK, Awaited, bootVars, callVars, historyVars
    <2>4. QED
      BY <1>2, <2>1, <2>2, <2>3
  <1>3. CASE VpnCheck
    BY <1>1, <1>2, <1>3 DEF VpnCheck
  <1>4. CASE Acknowledge
    <2>1. file' \in State
      BY <1>4, FileTypes DEF Acknowledge, TypeOK
    <2>2. QED
      BY <1>4, <2>1 DEF Acknowledge, TypeOK, Awaited, memVars, bootVars, callVars, worldVars, historyVars
  <1>5. ASSUME NEW ok \in BOOLEAN, LockdownDone(ok)
        PROVE  TypeOK'
    <2>1. reapply' \in [Reapplies -> {"idle", "lockdown", "health"}]
      BY <1>5 DEF LockdownDone, TypeOK
    <2>2. /\ probe' \in {"idle", "probing", "lockdown"}
          /\ boot' \in {"window", "failed", "lockdown", "done"}
          /\ {monitors', watch'} \subseteq BOOLEAN
      BY <1>5 DEF LockdownDone, StartMonitors, TypeOK
    <2>3. QED
      BY <1>5, <2>1, <2>2 DEF LockdownDone, TypeOK, Awaited, fileVars, worldVars, historyVars
  <1>6. CASE WatchCheck
    BY <1>6 DEF WatchCheck, TypeOK, Awaited, fileVars, memVars, bootVars, worldVars, historyVars
  <1>7. CASE WatchProbed
    BY <1>7 DEF WatchProbed, JoinLockdown, TypeOK, Awaited, fileVars, memVars, bootVars, worldVars, historyVars
  <1>8. CASE AutoRestore
    BY <1>8 DEF AutoRestore, JoinLockdown, TypeOK, Awaited, fileVars, memVars, bootVars, worldVars, historyVars
  <1>9. ASSUME NEW r \in Reapplies, ReapplyExpired(r)
        PROVE  TypeOK'
    <2>1. Pending \in BOOLEAN
      BY DEF Pending
    <2>2. QED
      BY <1>9, <2>1, FailType DEF ReapplyExpired, TypeOK, Awaited, FinalReports
  <1>10. ASSUME NEW r \in Reapplies, ReapplyStart(r)
         PROVE  TypeOK'
    <2>1. reapply' \in [Reapplies -> {"idle", "lockdown", "health"}]
      BY <1>10 DEF ReapplyStart, TypeOK
    <2>2. /\ lockdown' \in {"idle", "running", "applied"}
          /\ enforcementDisabled' \in BOOLEAN
      BY <1>10 DEF ReapplyStart, JoinLockdown, TypeOK
    <2>3. UNCHANGED <<fileVars, challengeFailed, lastVpnActive, watch, bootVars,
                      probe, restoring, worldVars, historyVars>>
      BY <1>10 DEF ReapplyStart
    <2>4. QED
      BY <2>1, <2>2, <2>3 DEF TypeOK, Awaited, fileVars, bootVars, worldVars, historyVars
  <1>11. ASSUME NEW r \in Reapplies, ReapplyEnd(r)
         PROVE  TypeOK'
    <2>1. file' \in State
      BY <1>11, FileTypes DEF ReapplyEnd, TypeOK
    <2>2. reapply' \in [Reapplies -> {"idle", "lockdown", "health"}]
      BY <1>11 DEF ReapplyEnd, TypeOK
    <2>3. lastVpnActive' \in BOOLEAN /\ watch' \in BOOLEAN /\ outstanding' \in BOOLEAN
      BY <1>11 DEF ReapplyEnd, TypeOK
    <2>4. QED
      BY <1>11, <2>1, <2>2, <2>3 DEF ReapplyEnd, TypeOK, Awaited, bootVars, worldVars
  <1>12. CASE StartupSkipped
    BY <1>12 DEF StartupSkipped, TypeOK, Awaited, fileVars, memVars, callVars, worldVars, historyVars
  <1>13. CASE StartupExpired
    BY <1>13, FailType DEF StartupExpired, TypeOK, Awaited, FinalReports
  <1>14. CASE StartupLockdown
    BY <1>14 DEF StartupLockdown, JoinLockdown, TypeOK, Awaited, fileVars, memVars, worldVars, historyVars
  <1>15. CASE FailDone
    <2>1. file' \in State
      BY <1>15, FileTypes DEF FailDone, TypeOK
    <2>2. /\ boot' \in {"window", "failed", "lockdown", "done"}
          /\ lockdown' \in {"idle", "running", "applied"}
      BY <1>15 DEF FailDone, JoinLockdown, TypeOK
    <2>3. /\ {restoring', locked', due'} \subseteq BOOLEAN /\ warnings' = 0
          /\ UNCHANGED <<memVars, monitors, reapply, probe, vpn, restarts, dashboard,
                         outstanding, gap, cause>>
      BY <1>15 DEF FailDone, TypeOK
    <2>4. excuses' \subseteq Excuses
      BY <1>15 DEF FailDone, TypeOK, Excuses
    <2>5. QED
      BY <2>1, <2>2, <2>3, <2>4 DEF TypeOK, Awaited, memVars
  <1>16. CASE LockdownApplied
    <2>1. locked' \in BOOLEAN
      BY <1>16 DEF LockdownApplied, TypeOK
    <2>2. QED
      BY <1>16, <2>1 DEF LockdownApplied, TypeOK, Awaited, fileVars, memVars, bootVars, historyVars
  <1>17. CASE VpnToggles
    <2>1. vpn' \in BOOLEAN /\ gap' \in BOOLEAN
      BY <1>17 DEF VpnToggles, TypeOK
    <2>2. UNCHANGED <<fileVars, memVars, bootVars, callVars, locked, restarts, dashboard,
                      warnings, outstanding, cause, excuses>>
      BY <1>17 DEF VpnToggles
    <2>3. QED
      BY <2>1, <2>2 DEF TypeOK, Awaited, fileVars, memVars, bootVars, callVars
  <1>18. CASE DeadlinePasses \/ Navigate
    <2>1. due' \in BOOLEAN /\ dashboard' \in BOOLEAN
      BY <1>18 DEF DeadlinePasses, Navigate, TypeOK, fileVars, worldVars
    <2>2. UNCHANGED <<file, memVars, bootVars, callVars, vpn, locked, restarts, historyVars>>
      BY <1>18 DEF DeadlinePasses, Navigate, fileVars, worldVars
    <2>3. QED
      BY <2>1, <2>2 DEF TypeOK, Awaited, memVars, bootVars, callVars, historyVars
  <1>19. CASE RestoreDns \/ StartMonitoring \/ StopMonitoring
    <2>1. excuses' \subseteq Excuses
      BY <1>19 DEF RestoreDns, StartMonitoring, StopMonitoring, historyVars, TypeOK, Excuses
    <2>2. /\ lockdown' \in {"idle", "running", "applied"}
          /\ {monitors', watch'} \subseteq BOOLEAN
      BY <1>19 DEF RestoreDns, StartMonitoring, StopMonitoring, StartMonitors, JoinLockdown, TypeOK,
                   bootVars, memVars, callVars
    <2>3. UNCHANGED <<fileVars, challengeFailed, enforcementDisabled, lastVpnActive, boot,
                      reapply, probe, restoring, worldVars, warnings, outstanding, gap, cause>>
      BY <1>19 DEF RestoreDns, StartMonitoring, StopMonitoring, memVars, bootVars, callVars, historyVars
    <2>4. QED
      BY <2>1, <2>2, <2>3 DEF TypeOK, Awaited, fileVars, worldVars
  <1>20. CASE Restart
    <2>1. reapply' \in [Reapplies -> {"idle", "lockdown", "health"}]
      BY <1>20 DEF Restart
    <2>2. locked' \in BOOLEAN
      BY <1>20 DEF Restart, TypeOK
    <2>3. restarts' \in 0..MaxRestarts
      BY <1>20 DEF Restart, TypeOK
    <2>4. QED
      BY <1>20, <2>1, <2>2, <2>3 DEF Restart, TypeOK, Awaited, fileVars, Reports, Excuses
  <1>21. CASE UNCHANGED vars
    BY <1>21 DEF vars, fileVars, memVars, bootVars, callVars, worldVars, historyVars, TypeOK, Awaited
  <1>22. QED
    BY <1>3, <1>4, <1>5, <1>6, <1>7, <1>8, <1>9, <1>10, <1>11, <1>12, <1>13, <1>14, <1>15,
       <1>16, <1>17, <1>18, <1>19, <1>20, <1>21 DEF Next, MainProcess, World

\* TypeOK is an invariant: every variable has its type, and whoever waits for a
\* lockdown waits for one that runs (networkWatch.js:290).
THEOREM TypeCorrect == Spec => []TypeOK
  BY TypeInit, TypeNext, PTL DEF Spec

-----------------------------------------------------------------------------
(* What the steps do to the file *)

LEMMA AnswerFields ==
    ASSUME NEW ipc, NEW s \in State, Answer(ipc, s)
    PROVE  /\ file'.warned = s.warned /\ file'.paused = s.paused
           /\ file'.expired = s.expired /\ file'.resolved = s.resolved
           /\ file'.clearedOnce = s.clearedOnce
  BY DEF Answer, State

LEMMA FailFields ==
    ASSUME file \in State, NEW reason, NEW pending, Fail(reason, pending)
    PROVE  /\ file'.warned = file.warned /\ ~file'.paused /\ file'.expired
           /\ file'.resolved = file.resolved /\ file'.clearedOnce = file.clearedOnce
  BY DEF Fail, State

LEMMA AcknowledgeFields ==
    ASSUME file \in State, Acknowledge
    PROVE  /\ file'.warned = file.warned /\ file'.paused = file.paused
           /\ file'.expired = file.expired /\ file'.resolved = file.resolved
           /\ file'.clearedOnce = file.clearedOnce
  BY DEF Acknowledge, State

LEMMA ReapplyEndFields ==
    ASSUME file \in State, NEW r, ReapplyEnd(r)
    PROVE  \/ UNCHANGED <<file, watch, outstanding>>
           \/ /\ ~vpn /\ ~outstanding'
              /\ file'.warned = file.warned /\ ~file'.paused
              /\ file'.expired = file.expired /\ file'.resolved
              /\ file'.clearedOnce = file.clearedOnce
  BY DEF ReapplyEnd, State

LEMMA DuringWarningFields ==
    ASSUME file \in State, NEW ipc, VpnCheckDuringWarning(ipc)
    PROVE  /\ file'.warned = file.warned /\ file'.paused = file.paused
           /\ file'.expired = file.expired /\ file'.resolved = file.resolved
           /\ file'.clearedOnce => file.clearedOnce \/ ~vpn
  <1> DEFINE s == [file EXCEPT !.clearedOnce = @ \/ (~vpn /\ lastVpnActive)]
  <1>1. s \in State
    BY DEF State
  <1>2. Answer(ipc, s)
    BY DEF VpnCheckDuringWarning
  <1>3. /\ s.warned = file.warned /\ s.paused = file.paused
        /\ s.expired = file.expired /\ s.resolved = file.resolved
        /\ s.clearedOnce = (file.clearedOnce \/ (~vpn /\ lastVpnActive))
    BY DEF State
  <1> HIDE DEF s
  <1>4. QED
    BY <1>1, <1>2, <1>3, AnswerFields

LEMMA WarnsFields ==
    ASSUME NEW ipc, VpnCheckWarns(ipc)
    PROVE  /\ file'.warned /\ file'.paused /\ ~file'.expired
           /\ ~file'.resolved /\ ~file'.clearedOnce
  <1>1. /\ FirstWarning \in State
        /\ FirstWarning.warned /\ FirstWarning.paused /\ ~FirstWarning.expired
        /\ ~FirstWarning.resolved /\ ~FirstWarning.clearedOnce
    BY DEF FirstWarning, NoWarning, State, Reports
  <1>2. QED
    BY <1>1, AnswerFields DEF VpnCheckWarns

LEMMA IdleFields ==
    ASSUME file \in State, NEW ipc, VpnCheckIdle(ipc)
    PROVE  /\ file'.warned = file.warned /\ file'.paused = file.paused
           /\ file'.expired = file.expired /\ file'.resolved = file.resolved
           /\ file'.clearedOnce = file.clearedOnce
  BY AnswerFields DEF VpnCheckIdle

-----------------------------------------------------------------------------
(* Failure *)

LEMMA FailureNext == TypeOK /\ FailureInv /\ [Next]_vars => FailureInv'
  <1> SUFFICES ASSUME file \in State, FailureInv, [Next]_vars
               PROVE  FailureInv'
    BY DEF TypeOK
  <1> USE DEF FailureInv
  <1>1. CASE UNCHANGED <<restoring, boot, challengeFailed, file>>
    BY <1>1
  <1>2. ASSUME NEW reason, NEW pending, Fail(reason, pending)
        PROVE  FailureInv'
    BY <1>2, FailFields DEF Fail
  <1>3. ASSUME NEW ipc, VpnCheckDuringWarning(ipc) \/ VpnCheckWarns(ipc) \/ VpnCheckIdle(ipc),
               UNCHANGED <<restoring, boot>>
        PROVE  FailureInv'
    <2>1. UNCHANGED challengeFailed
      BY <1>3 DEF VpnCheckDuringWarning, VpnCheckWarns, VpnCheckIdle
    <2>2. challengeFailed => file'.paused = file.paused
      BY <1>3, IdleFields DEF VpnCheckDuringWarning, VpnCheckWarns
    <2>3. QED
      BY <1>3, <2>1, <2>2
  <1>4. CASE VpnCheck
    BY <1>2, <1>3, <1>4 DEF VpnCheck, VpnCheckFails, bootVars, callVars
  <1>5. CASE Acknowledge
    BY <1>5, AcknowledgeFields DEF Acknowledge, memVars, bootVars, callVars
  <1>6. ASSUME NEW ok \in BOOLEAN, LockdownDone(ok)
        PROVE  FailureInv'
    BY <1>6 DEF LockdownDone, fileVars
  <1>7. CASE \/ WatchCheck \/ WatchProbed \/ AutoRestore \/ LockdownApplied
             \/ RestoreDns \/ StartMonitoring \/ StopMonitoring
    BY <1>1, <1>7 DEF WatchCheck, WatchProbed, AutoRestore, LockdownApplied, RestoreDns,
                      StartMonitoring, StopMonitoring, fileVars, memVars, bootVars, callVars
  <1>8. ASSUME NEW r, ReapplyExpired(r) \/ ReapplyStart(r) \/ ReapplyEnd(r)
        PROVE  FailureInv'
    <2>1. CASE ReapplyExpired(r)
      BY <1>2, <2>1 DEF ReapplyExpired
    <2>2. CASE ReapplyStart(r)
      BY <1>1, <2>2 DEF ReapplyStart, fileVars, bootVars
    <2>3. CASE ReapplyEnd(r)
      BY <2>3, ReapplyEndFields DEF ReapplyEnd, bootVars
    <2>4. QED
      BY <1>8, <2>1, <2>2, <2>3
  <1>9. CASE StartupExpired
    BY <1>2, <1>9 DEF StartupExpired
  <1>10. CASE StartupSkipped \/ StartupLockdown
    BY <1>10 DEF StartupSkipped, StartupLockdown, fileVars, memVars, callVars
  <1>11. CASE FailDone
    <2>1. ~file'.paused
      BY <1>11 DEF FailDone, NoWarning
    <2>2. ~restoring' /\ boot' # "failed"
      BY <1>11 DEF FailDone
    <2>3. QED
      BY <2>1, <2>2
  <1>12. CASE Restart
    BY <1>12 DEF Restart, fileVars
  <1>13. CASE VpnToggles \/ DeadlinePasses \/ Navigate \/ UNCHANGED vars
    BY <1>1, <1>13 DEF VpnToggles, DeadlinePasses, Navigate, vars, fileVars, memVars,
                       bootVars, callVars
  <1>14. QED
    BY <1>4, <1>5, <1>6, <1>7, <1>8, <1>9, <1>10, <1>11, <1>12, <1>13 DEF Next, MainProcess, World

-----------------------------------------------------------------------------
(* One warning *)

LEMMA WarningNext == TypeOK /\ WarningInv /\ [Next]_vars => WarningInv'
  <1> SUFFICES ASSUME file \in State, warnings \in 0..2, WarningInv, [Next]_vars
               PROVE  WarningInv'
    BY DEF TypeOK
  <1> USE DEF WarningInv
  <1>1. CASE UNCHANGED warnings /\ file'.warned = file.warned
    BY <1>1
  <1>2. ASSUME NEW reason, NEW pending, Fail(reason, pending)
        PROVE  WarningInv'
    BY <1>1, <1>2, FailFields DEF Fail
  <1>3. ASSUME NEW ipc, VpnCheckWarns(ipc)
        PROVE  WarningInv'
    <2>1. ~file.warned /\ file'.warned
      BY <1>3, WarnsFields DEF VpnCheckWarns
    <2>2. warnings' = IF warnings < 2 THEN warnings + 1 ELSE 2
      BY <1>3 DEF VpnCheckWarns
    <2>3. warnings = 0
      BY <2>1
    <2>4. QED
      BY <2>1, <2>2, <2>3
  <1>4. ASSUME NEW ipc, VpnCheckDuringWarning(ipc) \/ VpnCheckIdle(ipc)
        PROVE  WarningInv'
    <2>1. UNCHANGED warnings
      BY <1>4 DEF VpnCheckDuringWarning, VpnCheckIdle, historyVars
    <2>2. file'.warned = file.warned
      BY <1>4, DuringWarningFields, IdleFields
    <2>3. QED
      BY <1>1, <2>1, <2>2
  <1>5. CASE VpnCheck
    BY <1>2, <1>3, <1>4, <1>5 DEF VpnCheck, VpnCheckFails
  <1>6. CASE Acknowledge
    BY <1>1, <1>6, AcknowledgeFields DEF Acknowledge, historyVars
  <1>7. ASSUME NEW r, ReapplyExpired(r) \/ ReapplyStart(r) \/ ReapplyEnd(r)
        PROVE  WarningInv'
    <2>1. CASE ReapplyExpired(r)
      BY <1>2, <2>1 DEF ReapplyExpired
    <2>2. CASE ReapplyStart(r)
      BY <1>1, <2>2 DEF ReapplyStart, fileVars, historyVars
    <2>3. CASE ReapplyEnd(r)
      <3>1. UNCHANGED warnings
        BY <2>3 DEF ReapplyEnd
      <3>2. file'.warned = file.warned
        BY <2>3, ReapplyEndFields
      <3>3. QED
        BY <1>1, <3>1, <3>2
    <2>4. QED
      BY <1>7, <2>1, <2>2, <2>3
  <1>8. CASE StartupExpired
    BY <1>2, <1>8 DEF StartupExpired
  <1>9. CASE FailDone
    BY <1>9 DEF FailDone
  <1>10. CASE \/ \E ok \in BOOLEAN : LockdownDone(ok)
              \/ WatchCheck \/ WatchProbed \/ AutoRestore \/ LockdownApplied
              \/ RestoreDns \/ StartMonitoring \/ StopMonitoring
    BY <1>1, <1>10 DEF LockdownDone, WatchCheck, WatchProbed, AutoRestore, LockdownApplied,
                       RestoreDns, StartMonitoring, StopMonitoring, fileVars, historyVars
  <1>11. CASE StartupSkipped \/ StartupLockdown \/ Restart
    BY <1>1, <1>11 DEF StartupSkipped, StartupLockdown, Restart, fileVars, historyVars
  <1>12. CASE VpnToggles \/ DeadlinePasses \/ Navigate \/ UNCHANGED vars
    BY <1>1, <1>12 DEF VpnToggles, DeadlinePasses, Navigate, vars, fileVars, historyVars
  <1>13. QED
    BY <1>5, <1>6, <1>7, <1>8, <1>9, <1>10, <1>11, <1>12 DEF Next, MainProcess, World

-----------------------------------------------------------------------------
(* The outstanding warning *)

LEMMA OutstandingNext ==
    TypeOK /\ FailureInv /\ OutstandingInv /\ [Next]_vars => OutstandingInv'
  <1> SUFFICES ASSUME file \in State, FailureInv, OutstandingInv, [Next]_vars
               PROVE  OutstandingInv'
    BY DEF TypeOK
  <1> USE DEF OutstandingInv
  <1>1. CASE /\ UNCHANGED outstanding /\ (challengeFailed' => challengeFailed)
             /\ file'.warned = file.warned /\ file'.paused = file.paused
             /\ file'.expired = file.expired /\ file'.resolved = file.resolved
    BY <1>1
  <1>2. ASSUME NEW reason, NEW pending, Fail(reason, pending)
        PROVE  OutstandingInv'
    BY <1>2 DEF Fail
  <1>3. ASSUME NEW ipc, VpnCheckWarns(ipc)
        PROVE  OutstandingInv'
    BY <1>3, WarnsFields DEF VpnCheckWarns
  <1>4. ASSUME NEW ipc, VpnCheckDuringWarning(ipc) \/ VpnCheckIdle(ipc)
        PROVE  OutstandingInv'
    <2>1. UNCHANGED <<outstanding, challengeFailed>>
      BY <1>4 DEF VpnCheckDuringWarning, VpnCheckIdle, historyVars
    <2>2. /\ file'.warned = file.warned /\ file'.paused = file.paused
          /\ file'.expired = file.expired /\ file'.resolved = file.resolved
      BY <1>4, DuringWarningFields, IdleFields
    <2>3. QED
      BY <1>1, <2>1, <2>2
  <1>5. CASE VpnCheck
    BY <1>2, <1>3, <1>4, <1>5 DEF VpnCheck, VpnCheckFails
  <1>6. CASE Acknowledge
    BY <1>1, <1>6, AcknowledgeFields DEF Acknowledge, memVars, historyVars
  <1>7. ASSUME NEW r, ReapplyExpired(r) \/ ReapplyStart(r) \/ ReapplyEnd(r)
        PROVE  OutstandingInv'
    <2>1. CASE ReapplyExpired(r)
      BY <1>2, <2>1 DEF ReapplyExpired
    <2>2. CASE ReapplyStart(r)
      BY <1>1, <2>2 DEF ReapplyStart, fileVars, historyVars
    <2>3. CASE ReapplyEnd(r)
      <3>1. UNCHANGED challengeFailed
        BY <2>3 DEF ReapplyEnd
      <3>2. QED
        BY <2>3, <3>1, ReapplyEndFields
    <2>4. QED
      BY <1>7, <2>1, <2>2, <2>3
  <1>8. CASE StartupExpired
    BY <1>2, <1>8 DEF StartupExpired
  <1>9. CASE FailDone
    <2>1. ~outstanding
      BY <1>9 DEF FailDone, FailureInv
    <2>2. QED
      BY <1>9, <2>1 DEF FailDone
  <1>10. CASE \/ \E ok \in BOOLEAN : LockdownDone(ok)
              \/ WatchCheck \/ WatchProbed \/ AutoRestore \/ LockdownApplied
              \/ RestoreDns \/ StartMonitoring \/ StopMonitoring
    BY <1>1, <1>10 DEF LockdownDone, WatchCheck, WatchProbed, AutoRestore, LockdownApplied,
                       RestoreDns, StartMonitoring, StopMonitoring, fileVars, memVars, historyVars
  <1>11. CASE StartupSkipped \/ StartupLockdown \/ Restart
    BY <1>1, <1>11 DEF StartupSkipped, StartupLockdown, Restart, fileVars, memVars, historyVars
  <1>12. CASE VpnToggles \/ DeadlinePasses \/ Navigate \/ UNCHANGED vars
    BY <1>1, <1>12 DEF VpnToggles, DeadlinePasses, Navigate, vars, fileVars, memVars, historyVars
  <1>13. QED
    BY <1>5, <1>6, <1>7, <1>8, <1>9, <1>10, <1>11, <1>12 DEF Next, MainProcess, World

-----------------------------------------------------------------------------
(* VPN sessions *)

LEMMA SessionNext == TypeOK /\ SessionInv /\ [Next]_vars => SessionInv'
  <1> SUFFICES ASSUME file \in State, SessionInv, [Next]_vars
               PROVE  SessionInv'
    BY DEF TypeOK
  <1> USE DEF SessionInv
  <1>1. CASE /\ UNCHANGED <<gap, vpn, cause, challengeFailed>>
             /\ file'.warned = file.warned /\ file'.resolved = file.resolved
             /\ file'.clearedOnce = file.clearedOnce
    BY <1>1
  <1>2. ASSUME NEW reason, NEW pending, Fail(reason, pending), reason = "second" => gap
        PROVE  SessionInv'
    <2>1. /\ UNCHANGED <<gap, vpn>> /\ cause' = reason /\ challengeFailed'
      BY <1>2 DEF Fail, worldVars
    <2>2. QED
      BY <1>2, <2>1, FailFields
  <1>3. ASSUME NEW reason, VpnCheckFails(reason)
        PROVE  SessionInv'
    <2>1. reason = "second" => gap
      BY <1>3 DEF VpnCheckFails, IsActiveWarning
    <2>2. QED
      BY <1>2, <1>3, <2>1 DEF VpnCheckFails
  <1>4. ASSUME NEW ipc, VpnCheckWarns(ipc), UNCHANGED vpn
        PROVE  SessionInv'
    <2>1. vpn /\ ~challengeFailed
      BY <1>4 DEF VpnCheckWarns, RisingEdge
    <2>2. UNCHANGED <<cause, challengeFailed>>
      BY <1>4 DEF VpnCheckWarns
    <2>3. QED
      BY <1>4, <2>1, <2>2, WarnsFields
  <1>5. ASSUME NEW ipc, VpnCheckDuringWarning(ipc), UNCHANGED vpn
        PROVE  SessionInv'
    <2>1. file.warned
      BY <1>5 DEF VpnCheckDuringWarning, IsActiveWarning
    <2>2. UNCHANGED <<gap, cause, challengeFailed>>
      BY <1>5 DEF VpnCheckDuringWarning, historyVars
    <2>3. QED
      BY <1>5, <2>1, <2>2, DuringWarningFields
  <1>6. ASSUME NEW ipc, VpnCheckIdle(ipc), UNCHANGED vpn
        PROVE  SessionInv'
    <2>1. UNCHANGED <<gap, cause, challengeFailed>>
      BY <1>6 DEF VpnCheckIdle, historyVars
    <2>2. QED
      BY <1>1, <1>6, <2>1, IdleFields
  <1>7. CASE VpnCheck
    BY <1>3, <1>4, <1>5, <1>6, <1>7 DEF VpnCheck
  <1>8. CASE Acknowledge
    BY <1>1, <1>8, AcknowledgeFields DEF Acknowledge, memVars, worldVars, historyVars
  <1>9. ASSUME NEW r, ReapplyExpired(r) \/ ReapplyStart(r) \/ ReapplyEnd(r)
        PROVE  SessionInv'
    <2>1. CASE ReapplyExpired(r)
      BY <1>2, <2>1 DEF ReapplyExpired
    <2>2. CASE ReapplyStart(r)
      BY <1>1, <2>2 DEF ReapplyStart, fileVars, worldVars, historyVars
    <2>3. CASE ReapplyEnd(r)
      <3>1. UNCHANGED <<gap, vpn, cause, challengeFailed>>
        BY <2>3 DEF ReapplyEnd, worldVars
      <3>2. CASE UNCHANGED file
        BY <1>1, <3>1, <3>2
      <3>3. CASE ~vpn /\ file'.warned = file.warned /\ file'.clearedOnce = file.clearedOnce
        BY <3>1, <3>3
      <3>4. QED
        BY <2>3, <3>2, <3>3, ReapplyEndFields
    <2>4. QED
      BY <1>9, <2>1, <2>2, <2>3
  <1>10. CASE StartupExpired
    BY <1>2, <1>10 DEF StartupExpired
  <1>11. CASE FailDone
    <2>1. ~file'.warned /\ ~file'.clearedOnce
      BY <1>11 DEF FailDone, NoWarning
    <2>2. UNCHANGED <<gap, vpn, cause, challengeFailed>>
      BY <1>11 DEF FailDone, memVars
    <2>3. QED
      BY <2>1, <2>2
  <1>12. CASE \/ \E ok \in BOOLEAN : LockdownDone(ok)
              \/ WatchCheck \/ WatchProbed \/ AutoRestore \/ LockdownApplied
              \/ RestoreDns \/ StartMonitoring \/ StopMonitoring
    BY <1>1, <1>12 DEF LockdownDone, WatchCheck, WatchProbed, AutoRestore, LockdownApplied,
                       RestoreDns, StartMonitoring, StopMonitoring, fileVars, memVars, worldVars,
                       historyVars
  <1>13. CASE StartupSkipped \/ StartupLockdown
    BY <1>1, <1>13 DEF StartupSkipped, StartupLockdown, fileVars, memVars, worldVars, historyVars
  <1>14. CASE Restart
    BY <1>14 DEF Restart, fileVars
  <1>15. CASE VpnToggles
    BY <1>15 DEF VpnToggles, fileVars, memVars
  <1>16. CASE DeadlinePasses \/ Navigate \/ UNCHANGED vars
    BY <1>1, <1>16 DEF DeadlinePasses, Navigate, vars, fileVars, memVars, worldVars, historyVars
  <1>17. QED
    BY <1>7, <1>8, <1>9, <1>10, <1>11, <1>12, <1>13, <1>14, <1>15, <1>16
       DEF Next, MainProcess, World

-----------------------------------------------------------------------------
(* After the failure *)

LEMMA QuietNext ==
    TypeOK /\ FailureInv /\ QuietInv /\ [Next]_vars => QuietInv'
  <1> SUFFICES ASSUME TypeOK, FailureInv, QuietInv, [Next]_vars
               PROVE  QuietInv'
    OBVIOUS
  <1> USE DEF QuietInv
  <1>1. CASE UNCHANGED <<challengeFailed, excuses, lockdown, probe, boot, reapply, watch,
                         restoring, locked>>
    BY <1>1
  <1>2. ASSUME NEW reason, Fail(reason, Pending), UNCHANGED boot, boot # "failed"
        PROVE  QuietInv'
    <2>1. /\ (Pending => "inflight" \in excuses') /\ ~watch' /\ restoring'
          /\ UNCHANGED <<lockdown, probe, reapply>>
      BY <1>2 DEF Fail
    <2>2. QED
      BY <1>2, <2>1 DEF Pending
  <1>3. CASE ~restoring /\ VpnCheck
    <2>1. boot # "failed"
      BY <1>3 DEF FailureInv
    <2>2. ASSUME NEW reason, VpnCheckFails(reason)
          PROVE  QuietInv'
      BY <1>2, <2>1, <2>2 DEF VpnCheckFails
    <2>3. ASSUME NEW ipc, VpnCheckDuringWarning(ipc) \/ VpnCheckWarns(ipc) \/ VpnCheckIdle(ipc),
                 UNCHANGED <<bootVars, callVars, vpn, locked, restarts, dashboard>>
          PROVE  QuietInv'
      BY <1>1, <2>3 DEF VpnCheckDuringWarning, VpnCheckWarns, VpnCheckIdle, bootVars, callVars,
                        historyVars
    <2>4. QED
      BY <1>3, <2>2, <2>3 DEF VpnCheck
  <1>4. CASE Acknowledge
    BY <1>1, <1>4 DEF Acknowledge, memVars, bootVars, callVars, worldVars, historyVars
  <1>5. ASSUME NEW ok \in BOOLEAN, LockdownDone(ok)
        PROVE  QuietInv'
    <2>1. lockdown # "idle" /\ UNCHANGED <<challengeFailed, excuses>>
      BY <1>5 DEF LockdownDone, historyVars
    <2>2. QED
      BY <2>1
  <1>6. CASE WatchCheck
    <2>1. ~challengeFailed /\ UNCHANGED challengeFailed
      BY <1>6 DEF WatchCheck, IsEnforcementDisabled, memVars
    <2>2. QED
      BY <2>1
  <1>7. CASE WatchProbed
    <2>1. probe # "idle" /\ UNCHANGED <<challengeFailed, excuses>>
      BY <1>7 DEF WatchProbed, memVars, historyVars
    <2>2. QED
      BY <2>1
  <1>8. CASE AutoRestore
    <2>1. ~challengeFailed /\ UNCHANGED challengeFailed
      BY <1>8 DEF AutoRestore, IsEnforcementDisabled, memVars
    <2>2. QED
      BY <2>1
  <1>9. ASSUME NEW r \in Reapplies, ~restoring, ReapplyExpired(r)
        PROVE  QuietInv'
    BY <1>2, <1>9 DEF ReapplyExpired, FailureInv
  <1>10. ASSUME NEW r \in Reapplies, ReapplyStart(r)
         PROVE  QuietInv'
    <2>1. ~challengeFailed /\ UNCHANGED challengeFailed
      BY <1>10 DEF ReapplyStart, FailureInv
    <2>2. QED
      BY <2>1
  <1>11. ASSUME NEW r \in Reapplies, ReapplyEnd(r)
         PROVE  QuietInv'
    <2>1. reapply[r] # "idle" /\ UNCHANGED <<challengeFailed, excuses>>
      BY <1>11 DEF ReapplyEnd
    <2>2. QED
      BY <2>1
  <1>12. CASE StartupSkipped
    BY <1>12 DEF StartupSkipped, memVars, callVars, worldVars, historyVars
  <1>13. CASE StartupExpired
    <2>1. "inflight" \in excuses'
      BY <1>13 DEF StartupExpired, Fail
    <2>2. QED
      BY <2>1
  <1>14. CASE StartupLockdown
    <2>1. ~challengeFailed /\ UNCHANGED challengeFailed
      BY <1>14 DEF StartupLockdown, IsEnforcementDisabled, memVars
    <2>2. QED
      BY <2>1
  <1>15. CASE FailDone
    <2>1. /\ excuses \subseteq excuses' /\ (locked' => "unfinished" \in excuses')
          /\ UNCHANGED <<challengeFailed, probe, reapply, watch>>
      BY <1>15 DEF FailDone, memVars
    <2>2. boot # "failed" => UNCHANGED <<boot, lockdown>>
      BY <1>15 DEF FailDone
    <2>3. excuses' \cap {"inflight", "asked"} = {} => excuses \cap {"inflight", "asked"} = {}
      BY <2>1
    <2>4. QED
      BY <2>1, <2>2, <2>3
  <1>16. CASE LockdownApplied
    <2>1. lockdown # "idle" /\ UNCHANGED <<challengeFailed, excuses>>
      BY <1>16 DEF LockdownApplied, memVars, historyVars
    <2>2. QED
      BY <2>1
  <1>17. CASE Restart
    BY <1>17 DEF Restart
  <1>18. CASE VpnToggles \/ DeadlinePasses \/ Navigate \/ UNCHANGED vars
    BY <1>1, <1>18 DEF VpnToggles, DeadlinePasses, Navigate, vars, memVars, bootVars,
                       callVars, worldVars, historyVars
  <1>19. CASE RestoreDns \/ StartMonitoring
    <2>1. challengeFailed' => "asked" \in excuses'
      BY <1>19 DEF RestoreDns, StartMonitoring, memVars
    <2>2. QED
      BY <2>1
  <1>20. CASE StopMonitoring
    <2>1. /\ ~watch'
          /\ UNCHANGED <<challengeFailed, excuses, lockdown, probe, boot, reapply, restoring,
                         locked>>
      BY <1>20 DEF StopMonitoring, callVars, worldVars, historyVars
    <2>2. QED
      BY <2>1
  <1>21. QED
    BY <1>3, <1>4, <1>5, <1>6, <1>7, <1>8, <1>9, <1>10, <1>11, <1>12, <1>13, <1>14, <1>15,
       <1>16, <1>17, <1>18, <1>19, <1>20 DEF Next, MainProcess, World

-----------------------------------------------------------------------------
(* The theorems *)

LEMMA Invariance == Spec => []IInv
  <1>1. Init => IInv
    <2>1. Init => FailureInv /\ WarningInv /\ OutstandingInv /\ SessionInv /\ QuietInv
      BY DEF Init, NoWarning, FailureInv, WarningInv, OutstandingInv, SessionInv, QuietInv
    <2>2. QED
      BY <2>1, TypeInit DEF IInv
  <1>2. IInv /\ [Next]_vars => IInv'
    BY TypeNext, FailureNext, WarningNext, OutstandingNext, SessionNext, QuietNext DEF IInv
  <1>3. QED
    BY <1>1, <1>2, PTL DEF Spec

\* A challenge fails for a second attempt only after the VPN really was down
\* (vpnViolationHandler.js:147,168), for every number of restarts and of
\* re-applies in flight.
THEOREM SecondAttemptSafe == Spec => []SecondAttemptIsANewSession
  <1>1. IInv => SecondAttemptIsANewSession
    BY DEF IInv, SessionInv, SecondAttemptIsANewSession
  <1>2. QED
    BY <1>1, Invariance, PTL

\* An outstanding warning is the status the app shows, whatever is restarted
\* (vpnWarningState.js:32,53; VPN_DETECTION_REAPPLY.md:122).
THEOREM WarningSafe == Spec => []WarningOutlastsRestart
  <1>1. IInv => WarningOutlastsRestart
    BY DEF IInv, OutstandingInv, WarningOutlastsRestart, RuntimeStatus, IsActiveWarning
  <1>2. QED
    BY <1>1, Invariance, PTL

\* Between two failures there is one warning (vpnViolationHandler.js:182).
THEOREM OneWarningSafe == Spec => []OneWarning
  <1>1. IInv => OneWarning
    BY DEF IInv, WarningInv, OneWarning
  <1>2. QED
    BY <1>1, Invariance, PTL

\* What a failed challenge left is locked only by what was on its way when it
\* failed, by a restoration of which a step failed, or by an IPC call that ignores
\* the failure; and watched only by the first and the last of these
\* (vpnViolationHandler.js:42,56,105; systemRestore.js:70; ipc.js:227,481).
THEOREM FailedSafe == Spec => []FailedStaysRestored
  <1>1. IInv => FailedStaysRestored
    BY DEF IInv, QuietInv, FailedStaysRestored
  <1>2. QED
    BY <1>1, Invariance, PTL

-----------------------------------------------------------------------------
(* The promise: the initial states and the steps of VpnHandler are initial  *)
(* states and steps, or stutters, of VpnWarning.                            *)

\* What the file says of the warning's end is consistent, and the file of a
\* failed challenge is either marked or wiped.
FileInv ==
    /\ file.paused => file.warned /\ ~file.expired /\ ~file.resolved
    /\ file.expired => file.warned
    /\ challengeFailed /\ ~file.expired => ~file.warned /\ ~due

\* Every failure is that of a warning on file.
LEMMA FailsWarned ==
    ASSUME TypeOK, FileInv,
           \/ \E reason \in FinalReports : VpnCheckFails(reason)
           \/ \E r \in Reapplies : ReapplyExpired(r)
           \/ StartupExpired
    PROVE  /\ file.warned
           /\ \E reason, pending : Fail(reason, pending)
  BY DEF FileInv, VpnCheckFails, ReapplyExpired, StartupExpired, IsActiveWarning

\* The steps that leave the warning and the memory of the failure as they are.
LEMMA StageKept ==
    ASSUME TypeOK,
           \/ \E ipc : VpnCheckDuringWarning(ipc) \/ VpnCheckIdle(ipc)
           \/ Acknowledge \/ LockdownApplied \/ WatchCheck \/ WatchProbed \/ AutoRestore
           \/ RestoreDns \/ StartMonitoring \/ StopMonitoring
           \/ \E ok \in BOOLEAN : LockdownDone(ok)
           \/ \E r \in Reapplies : ReapplyStart(r)
           \/ StartupSkipped \/ StartupLockdown \/ Navigate \/ UNCHANGED vars
    PROVE  /\ file'.warned = file.warned /\ file'.paused = file.paused
           /\ file'.expired = file.expired /\ file'.resolved = file.resolved
           /\ UNCHANGED <<challengeFailed, due, gap>>
  <1>1. file \in State
    BY DEF TypeOK
  <1>2. CASE \E ipc : VpnCheckDuringWarning(ipc) \/ VpnCheckIdle(ipc)
    <2>1. PICK ipc : VpnCheckDuringWarning(ipc) \/ VpnCheckIdle(ipc)
      BY <1>2
    <2>2. UNCHANGED <<challengeFailed, due, gap>>
      BY <2>1 DEF VpnCheckDuringWarning, VpnCheckIdle, historyVars
    <2>3. QED
      BY <1>1, <2>1, <2>2, DuringWarningFields, IdleFields
  <1>3. CASE Acknowledge
    BY <1>1, <1>3, AcknowledgeFields DEF Acknowledge, memVars, historyVars
  <1>4. CASE ~(Acknowledge \/ \E ipc : VpnCheckDuringWarning(ipc) \/ VpnCheckIdle(ipc))
    BY <1>4 DEF LockdownApplied, WatchCheck, WatchProbed, AutoRestore, LockdownDone, ReapplyStart,
                RestoreDns, StartMonitoring, StopMonitoring,
                StartupSkipped, StartupLockdown, Navigate, vars, fileVars, memVars, historyVars
  <1>5. QED
    BY <1>2, <1>3, <1>4

LEMMA FileNext == TypeOK /\ FileInv /\ [Next]_vars => FileInv'
  <1> SUFFICES ASSUME TypeOK, FileInv, [Next]_vars
               PROVE  FileInv'
    OBVIOUS
  <1>1. file \in State
    BY DEF TypeOK
  <1>2. CASE \/ \E reason \in FinalReports : VpnCheckFails(reason)
             \/ \E r \in Reapplies : ReapplyExpired(r)
             \/ StartupExpired
    <2>1. PICK reason, pending : file.warned /\ Fail(reason, pending)
      BY <1>2, FailsWarned
    <2>2. QED
      BY <1>1, <2>1, FailFields DEF FileInv
  <1>3. ASSUME NEW ipc, VpnCheckWarns(ipc)
        PROVE  FileInv'
    BY <1>3, WarnsFields DEF FileInv, VpnCheckWarns
  <1>4. ASSUME NEW r, ReapplyEnd(r)
        PROVE  FileInv'
    BY <1>1, <1>4, ReapplyEndFields DEF FileInv, ReapplyEnd
  <1>5. CASE FailDone
    BY <1>5 DEF FailDone, FileInv, NoWarning, memVars
  <1>6. CASE Restart
    BY <1>6 DEF Restart, FileInv, fileVars
  <1>7. CASE VpnToggles \/ DeadlinePasses
    BY <1>7 DEF VpnToggles, DeadlinePasses, FileInv, fileVars, memVars
  <1>8. CASE \/ \E ipc : VpnCheckDuringWarning(ipc) \/ VpnCheckIdle(ipc)
             \/ Acknowledge \/ LockdownApplied \/ WatchCheck \/ WatchProbed \/ AutoRestore
             \/ RestoreDns \/ StartMonitoring \/ StopMonitoring
             \/ \E ok \in BOOLEAN : LockdownDone(ok)
             \/ \E r \in Reapplies : ReapplyStart(r)
             \/ StartupSkipped \/ StartupLockdown \/ Navigate \/ UNCHANGED vars
    BY <1>8, StageKept DEF FileInv
  <1>9. QED
    <2>1. CASE MainProcess
      BY <1>2, <1>3, <1>4, <1>8, <2>1 DEF MainProcess, VpnCheck
    <2>2. CASE FailDone \/ LockdownApplied \/ World \/ UNCHANGED vars
      BY <1>5, <1>6, <1>7, <1>8, <2>2 DEF World
    <2>3. QED
      BY <2>1, <2>2 DEF Next

-----------------------------------------------------------------------------
(* The steps *)

LEMMA InitRefines == Init => Warning!Init
  BY DEF Init, Warning!Init, Stage, NoWarning

LEMMA StepRefines ==
    IInv /\ FileInv /\ [Next]_vars => [Warning!Next]_(Warning!vars)
  <1> SUFFICES ASSUME IInv, FileInv, [Next]_vars
               PROVE  [Warning!Next]_(Warning!vars)
    OBVIOUS
  <1> USE DEF Warning!Next, Warning!Decide, Warning!vars
  <1>1. TypeOK /\ file \in State /\ FailureInv /\ SessionInv
    BY DEF IInv, TypeOK
  <1>2. ASSUME NEW reason, NEW pending, Fail(reason, pending)
        PROVE  Stage' = "failed" /\ UNCHANGED <<due, gap>>
    BY <1>2 DEF Fail, Stage
  <1>3. ASSUME NEW reason \in FinalReports, VpnCheckFails(reason)
        PROVE  [Warning!Next]_(Warning!vars)
    <2>1. CASE IsActiveWarning(file) /\ due
      BY <1>2, <1>3, <2>1 DEF VpnCheckFails, IsActiveWarning, Stage, Warning!Expire
    <2>2. CASE IsActiveWarning(file) /\ ~due
      BY <1>1, <1>2, <1>3, <2>2 DEF VpnCheckFails, IsActiveWarning, Stage, SessionInv, Warning!SecondAttempt
    <2>3. CASE ~IsActiveWarning(file)
      BY <1>1, <1>2, <1>3, <2>3 DEF VpnCheckFails, Stage, SessionInv, Warning!SecondAttempt
    <2>4. QED
      BY <2>1, <2>2, <2>3
  <1>4. ASSUME NEW r \in Reapplies, ReapplyExpired(r)
        PROVE  [Warning!Next]_(Warning!vars)
    BY <1>1, <1>2, <1>4 DEF ReapplyExpired, FileInv, FailureInv, Stage, Warning!Expire
  <1>5. CASE StartupExpired
    BY <1>2, <1>5 DEF StartupExpired, IsActiveWarning, IsEnforcementDisabled, Stage, Warning!Expire
  <1>6. ASSUME NEW ipc, VpnCheckWarns(ipc)
        PROVE  [Warning!Next]_(Warning!vars)
    <2>1. Stage = "clean"
      BY <1>6 DEF VpnCheckWarns, FileInv, Stage
    <2>2. Stage' = "warned" /\ due' = FALSE /\ gap' = FALSE
      BY <1>6, WarnsFields DEF VpnCheckWarns, Stage
    <2>3. QED
      BY <2>1, <2>2 DEF Warning!Warn
  <1>7. ASSUME NEW r \in Reapplies, ReapplyEnd(r)
        PROVE  [Warning!Next]_(Warning!vars)
    <2>1. UNCHANGED <<challengeFailed, due, gap>>
      BY <1>7 DEF ReapplyEnd
    <2>2. CASE UNCHANGED file
      BY <2>1, <2>2 DEF Stage
    <2>3. CASE file'.warned = file.warned /\ file'.expired = file.expired /\ file'.resolved
      BY <2>1, <2>3 DEF Stage, Warning!Resolve
    <2>4. QED
      BY <1>1, <1>7, <2>2, <2>3, ReapplyEndFields
  <1>8. CASE FailDone
    <2>1. challengeFailed /\ challengeFailed' /\ due' = FALSE /\ UNCHANGED gap
      BY <1>1, <1>8 DEF FailDone, FailureInv, memVars
    <2>2. QED
      BY <2>1 DEF Stage, Warning!Wipe
  <1>9. CASE Restart
    <2>1. challengeFailed' = FALSE /\ UNCHANGED <<file, due, gap>>
      BY <1>9 DEF Restart, fileVars
    <2>2. CASE challengeFailed /\ ~file.expired
      BY <2>1, <2>2 DEF FileInv, Stage, Warning!Wipe
    <2>3. CASE ~(challengeFailed /\ ~file.expired)
      BY <2>1, <2>3 DEF Stage
    <2>4. QED
      BY <2>2, <2>3
  <1>10. CASE VpnToggles
    <2>1. UNCHANGED <<file, due, challengeFailed>>
      BY <1>10 DEF VpnToggles, fileVars, memVars
    <2>2. gap' = gap \/ gap' = TRUE
      BY <1>1, <1>10 DEF VpnToggles, TypeOK
    <2>3. QED
      BY <2>1, <2>2 DEF Stage, Warning!SessionEnds
  <1>11. CASE DeadlinePasses
    <2>1. UNCHANGED <<file, challengeFailed, gap>> /\ due' = TRUE /\ file.warned
      BY <1>11 DEF DeadlinePasses, memVars, historyVars
    <2>2. QED
      BY <2>1 DEF Stage, Warning!DeadlinePasses
  <1>12. CASE \/ \E ipc : VpnCheckDuringWarning(ipc) \/ VpnCheckIdle(ipc)
              \/ Acknowledge \/ LockdownApplied \/ WatchCheck \/ WatchProbed \/ AutoRestore
              \/ RestoreDns \/ StartMonitoring \/ StopMonitoring
              \/ \E ok \in BOOLEAN : LockdownDone(ok)
              \/ \E r \in Reapplies : ReapplyStart(r)
              \/ StartupSkipped \/ StartupLockdown \/ Navigate \/ UNCHANGED vars
    BY <1>1, <1>12, StageKept DEF Stage
  <1>13. QED
    <2>1. CASE MainProcess
      BY <1>3, <1>4, <1>5, <1>6, <1>7, <1>12, <2>1 DEF MainProcess, VpnCheck
    <2>2. CASE FailDone \/ LockdownApplied \/ World \/ UNCHANGED vars
      BY <1>8, <1>9, <1>10, <1>11, <1>12, <2>2 DEF World
    <2>3. QED
      BY <2>1, <2>2 DEF Next

-----------------------------------------------------------------------------

\* The handler keeps every safety part of the promise (vpnWarningState.js,
\* vpnViolationHandler.js:126-300): a challenge is warned once, fails only by its
\* deadline or by a further VPN session, and a failure is not taken back, for any
\* number of restarts and of re-applies in flight.
THEOREM PromiseKept == Spec => Warning!Spec
  <1>1. Init => FileInv
    BY DEF Init, FileInv, NoWarning
  <1>2. Spec => []FileInv
    BY <1>1, FileNext, TypeCorrect, PTL DEF Spec
  <1>3. QED
    BY <1>2, InitRefines, StepRefines, Invariance, PTL DEF Spec, Warning!Spec
=============================================================================
