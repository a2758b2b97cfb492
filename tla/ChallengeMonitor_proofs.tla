----------------------- MODULE ChallengeMonitor_proofs -----------------------
(***************************************************************************)
(* The service's idea of its challenge, proved for any challenges, with    *)
(* crashes, failing writes and late answers at any point.                  *)
(***************************************************************************)
EXTENDS ChallengeMonitor, TLAPS

\* A file that is written holds the old state or the new one.
LEMMA WrittenIsOneOf ==
    ASSUME NEW old, NEW new, NEW f \in Written(old, new)
    PROVE  f = old \/ f = new
BY DEF Written

\* The state and the mode are well typed, and the mode is that of the status,
\* after every start, stop, answer and restart (TypeOK).
THEOREM TypeCorrect == Spec => []TypeOK
<1>1. Init => TypeOK
  <2>1. NoChallenge \in ServiceState
    BY DEF NoChallenge, ServiceState, Status
  <2>2. NoSync \in Syncs
    BY DEF Syncs
  <2>3. Mode(NoChallenge) = "idle"
    BY DEF Mode, NoChallenge
  <2> QED
    BY <2>1, <2>2, <2>3 DEF Init, TypeOK
<1>2. TypeOK /\ [Next]_vars => TypeOK'
  <2> SUFFICES ASSUME TypeOK, [Next]_vars PROVE TypeOK'
    OBVIOUS
  <2>0. ASSUME NEW new \in ServiceState, Update(new)
        PROVE  /\ state' \in ServiceState /\ stateFile' \in ServiceState
               /\ beating' \in BOOLEAN /\ mode' = Mode(state')
    BY <2>0, WrittenIsOneOf DEF Update, Reconcile, TypeOK
  <2>00. \A s \in ServiceState : Asked(s) \in Syncs
    BY DEF Asked, Syncs, ServiceState
  <2>1. ASSUME NEW c \in Challenges, NEW token \in BOOLEAN, StartChallenge(c, token)
        PROVE  TypeOK'
    <3> DEFINE new == [id |-> c, status |-> "active", token |-> state.token \/ token]
    <3>1. new \in ServiceState
      BY DEF TypeOK, ServiceState, Status
    <3> QED
      BY <2>0, <2>1, <3>1 DEF StartChallenge, TypeOK
  <2>2. CASE StopChallenge
    <3> DEFINE new == [state EXCEPT !.id = None, !.status = "none"]
    <3>1. new \in ServiceState
      BY DEF TypeOK, ServiceState, Status
    <3> QED
      BY <2>0, <2>2, <3>1 DEF StopChallenge, TypeOK
  <2>3. CASE Heartbeat
    BY <2>3 DEF Heartbeat, TypeOK
  <2>4. CASE HeartbeatDone
    BY <2>4, WrittenIsOneOf DEF HeartbeatDone, TypeOK
  <2>5. CASE SyncStart
    BY <2>00, <2>5 DEF SyncStart, TypeOK
  <2>6. CASE SyncReplies
    <3> DEFINE new == [state EXCEPT !.status = remote[sync.id]]
    <3>1. sync.id \in Challenges
      BY <2>6 DEF SyncReplies, TypeOK, Syncs
    <3>2. new \in ServiceState
      BY <3>1 DEF TypeOK, ServiceState, Status
    <3>3. sync' \in Syncs
      BY <2>6 DEF SyncReplies, Syncs
    <3>4. CASE remote[sync.id] = sync.status
      BY <2>6, <3>3, <3>4 DEF SyncReplies, TypeOK
    <3>5. CASE remote[sync.id] # sync.status
      BY <2>0, <2>6, <3>2, <3>3, <3>5 DEF SyncReplies, TypeOK
    <3> QED
      BY <3>4, <3>5
  <2>7. CASE SyncFails
    BY <2>7 DEF SyncFails, TypeOK, Syncs
  <2>8. CASE Crash
    BY <2>00, <2>8 DEF Crash, TypeOK
  <2>9. ASSUME NEW c \in Challenges, Close(c) PROVE TypeOK'
    BY <2>9 DEF Close, TypeOK
  <2>10. CASE UNCHANGED vars
    BY <2>10 DEF vars, TypeOK
  <2> QED
    BY <2>1, <2>2, <2>3, <2>4, <2>5, <2>6, <2>7, <2>8, <2>9, <2>10 DEF Next
<1> QED
  BY <1>1, <1>2, PTL DEF Spec

-----------------------------------------------------------------------------

(* A restart takes the state from the file, which may be any earlier one: both
   properties have to hold of the file as well. *)
Sound(s, backend) ==
    IF s.id = None THEN s.status # "active"
                   ELSE s.status # "active" => backend[s.id] = "closed"

BothSound == ~crossed => Sound(state, remote) /\ Sound(stateFile, remote)

\* What is said of the state and the file stays true of them when the server
\* closes a challenge.
LEMMA ClosingIsSound ==
    ASSUME NEW s, Sound(s, remote), TypeOK, NEW c \in Challenges, Close(c),
           s \in ServiceState
    PROVE  Sound(s, remote')
BY DEF Sound, Close, TypeOK, ServiceState

LEMMA BothSoundHolds == Spec => []BothSound
<1>1. Init => BothSound
  BY ChallengeAssumption DEF Init, BothSound, Sound, NoChallenge
<1>2. TypeOK /\ BothSound /\ [Next]_vars => BothSound'
  <2> SUFFICES ASSUME TypeOK, BothSound, [Next]_vars, ~crossed'
               PROVE  Sound(state', remote') /\ Sound(stateFile', remote')
    BY DEF BothSound
  <2> DEFINE Goal == Sound(state', remote') /\ Sound(stateFile', remote')
  <2>0. ASSUME ~crossed, NEW new, Update(new), Sound(new, remote), UNCHANGED remote
        PROVE  Goal
    BY <2>0, WrittenIsOneOf DEF Update, BothSound
  <2>1. ASSUME NEW c \in Challenges, NEW token \in BOOLEAN, StartChallenge(c, token)
        PROVE  Goal
    <3> DEFINE new == [id |-> c, status |-> "active", token |-> state.token \/ token]
    <3>1. Sound(new, remote)
      BY ChallengeAssumption DEF Sound
    <3>2. Update(new) /\ UNCHANGED <<remote, crossed>>
      BY <2>1 DEF StartChallenge
    <3> HIDE DEF new
    <3> QED
      BY <2>0, <3>1, <3>2
  <2>2. CASE StopChallenge
    <3> DEFINE new == [state EXCEPT !.id = None, !.status = "none"]
    <3>1. Sound(new, remote)
      BY DEF Sound, TypeOK, ServiceState
    <3>2. Update(new) /\ UNCHANGED <<remote, crossed>>
      BY <2>2 DEF StopChallenge
    <3> HIDE DEF new
    <3> QED
      BY <2>0, <3>1, <3>2
  <2>3. CASE Heartbeat
    BY <2>3 DEF Heartbeat, BothSound
  <2>4. CASE HeartbeatDone
    BY <2>4, WrittenIsOneOf DEF HeartbeatDone, BothSound
  <2>5. CASE SyncStart
    BY <2>5 DEF SyncStart, BothSound
  <2>6. CASE SyncReplies
    <3> DEFINE new == [state EXCEPT !.status = remote[sync.id]]
    <3>1. CASE remote[sync.id] = sync.status
      BY <2>6, <3>1 DEF SyncReplies, BothSound
    <3>2. CASE remote[sync.id] # sync.status
      <4>1. Update(new) /\ ~crossed /\ state.id = sync.id /\ UNCHANGED remote
        BY <2>6, <3>2 DEF SyncReplies, TypeOK
      <4>2. sync.id \in Challenges
        BY <2>6 DEF SyncReplies, TypeOK, Syncs
      <4>3. Sound(new, remote)
        BY <4>1, <4>2, ChallengeAssumption DEF Sound, TypeOK, ServiceState
      <4> HIDE DEF new
      <4> QED
        BY <2>0, <4>1, <4>3
    <3> QED
      BY <3>1, <3>2
  <2>7. CASE SyncFails
    BY <2>7 DEF SyncFails, BothSound
  <2>8. CASE Crash
    BY <2>8 DEF Crash, BothSound
  <2>9. ASSUME NEW c \in Challenges, Close(c) PROVE Goal
    <3>1. UNCHANGED <<state, stateFile, crossed>>
      BY <2>9 DEF Close
    <3> QED
      BY <2>9, <3>1, ClosingIsSound DEF BothSound, TypeOK
  <2>10. CASE UNCHANGED vars
    BY <2>10 DEF vars, BothSound
  <2> QED
    BY <2>1, <2>2, <2>3, <2>4, <2>5, <2>6, <2>7, <2>8, <2>9, <2>10 DEF Next
<1> QED
  BY <1>1, <1>2, TypeCorrect, PTL DEF Spec

\* Without a challenge the service idles, until an answer is stored under another
\* challenge (IdleWithoutChallenge).
THEOREM IdleWithoutChallengeHolds == Spec => []IdleWithoutChallenge
<1>1. TypeOK /\ BothSound => IdleWithoutChallenge
  BY DEF TypeOK, BothSound, Sound, IdleWithoutChallenge, Mode
<1> QED
  BY <1>1, TypeCorrect, BothSoundHolds, PTL

\* The service stops monitoring a challenge on its own only if the server closed
\* it, until an answer is stored under another challenge (ClosedAtTheServer).
THEOREM ClosedAtTheServerHolds == Spec => []ClosedAtTheServer
<1>1. TypeOK /\ BothSound => ClosedAtTheServer
  BY DEF TypeOK, BothSound, Sound, ClosedAtTheServer, Mode
<1> QED
  BY <1>1, TypeCorrect, BothSoundHolds, PTL
=============================================================================
