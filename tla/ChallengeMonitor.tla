-------------------------- MODULE ChallengeMonitor --------------------------
(***************************************************************************)
(* Which challenge the background service believes to be active            *)
(* (service/monitors/challengeMonitor.js over storage/serviceState.js), and *)
(* the monitoring mode serviceManager.js derives from it.                  *)
(*                                                                         *)
(* Electron starts and stops challenges over the control API.  Completion  *)
(* and termination happen at the backend and are learned by a sync, which  *)
(* awaits the answer: the challenge may be another one when it comes.  One *)
(* JavaScript process: the code between two awaits is one action.          *)
(*                                                                         *)
(* The server knows active and closed challenges (completed or terminated, *)
(* for good) and never says "paused".                                      *)
(***************************************************************************)
EXTENDS Naturals

CONSTANTS
    Challenges,  \* challenge ids
    None,        \* "no challenge"
    DiskMayFail  \* whether a write of service-state.json may fail

ASSUME ChallengeAssumption == None \notin Challenges /\ DiskMayFail \in BOOLEAN

VARIABLES
    state,     \* serviceState: id, status, and whether there is a token
    stateFile, \* service-state.json
    mode,      \* currentMode; the monitor timers exist when it is "active"
    sync,      \* what a sync read before it asked the backend
    beating,   \* a heartbeat is being sent
    remote,    \* [Challenges -> {"active", "closed"}]: the backend
    crossed    \* history: an answer was stored under another challenge

vars == <<state, stateFile, mode, sync, beating, remote, crossed>>

-----------------------------------------------------------------------------

Status == {"none", "active", "closed"}
ServiceState == [id : Challenges \cup {None}, status : Status, token : BOOLEAN]
NoChallenge == [id |-> None, status |-> "none", token |-> FALSE]

NoSync == [id |-> None, status |-> "none"]
Syncs == {NoSync} \cup [id : Challenges, status : Status]

Mode(s) == IF s.status = "active" THEN "active" ELSE "idle"

\* challengeMonitor.sync up to its await: without a challenge or a token nothing
\* is asked.
Asked(s) ==
    IF s.id # None /\ s.token THEN [id |-> s.id, status |-> s.status] ELSE NoSync

\* writeJson replaces the file as a whole; serviceState.flush swallows its errors.
Written(old, new) == IF DiskMayFail THEN {old, new} ELSE {new}

Init ==
    /\ state = NoChallenge /\ stateFile = NoChallenge /\ mode = "idle"
    /\ sync = NoSync /\ beating = FALSE
    /\ remote = [c \in Challenges |-> "active"] /\ crossed = FALSE

-----------------------------------------------------------------------------

\* reconcileMode: the timers of the new mode replace those of the old one; on the
\* way to active monitoring a heartbeat is sent at once.
Reconcile(new) ==
    /\ mode' = new
    /\ beating' = (beating \/ (mode = "idle" /\ new = "active"))

\* serviceState.update, and reconcileMode, which always follows.
Update(new) ==
    /\ state' = new
    /\ stateFile' \in Written(stateFile, new)
    /\ Reconcile(Mode(new))

\* Mutant: the status of the last challenge is left.
StartChallengeKeepsStatus(c, token) ==
    /\ Update([state EXCEPT !.id = c, !.token = @ \/ token])
    /\ UNCHANGED <<sync, remote, crossed>>

\* POST /challenge/start; the token may be missing and is then the last one.
StartChallenge(c, token) ==
    /\ Update([id |-> c, status |-> "active", token |-> state.token \/ token])
    /\ UNCHANGED <<sync, remote, crossed>>

\* Mutant: the status stays as it is.
StopChallengeKeepsStatus ==
    /\ Update([state EXCEPT !.id = None])
    /\ UNCHANGED <<sync, remote, crossed>>

\* POST /challenge/stop
StopChallenge ==
    /\ Update([state EXCEPT !.id = None, !.status = "none"])
    /\ UNCHANGED <<sync, remote, crossed>>

\* The heartbeat timer, or POST /sync/heartbeat.
Heartbeat ==
    /\ state.status = "active"
    /\ beating' = TRUE
    /\ UNCHANGED <<state, stateFile, mode, sync, remote, crossed>>

\* The heartbeat was sent or queued: lastHeartbeatAt is saved, with the state as
\* it is now.  Another heartbeat may still be on its way.
HeartbeatDone ==
    /\ beating
    /\ beating' \in BOOLEAN
    /\ stateFile' \in Written(stateFile, state)
    /\ UNCHANGED <<state, mode, sync, remote, crossed>>

-----------------------------------------------------------------------------

\* Mutant: only an active challenge is synchronised.
SyncStartActiveOnly ==
    /\ sync = NoSync /\ state.status = "active"
    /\ sync' = Asked(state)
    /\ UNCHANGED <<state, stateFile, mode, beating, remote, crossed>>

\* The challengeSync timer, in both modes.
SyncStart ==
    /\ sync = NoSync
    /\ sync' = Asked(state)
    /\ UNCHANGED <<state, stateFile, mode, beating, remote, crossed>>

\* Mutant: a changed status is only logged.
SyncRepliesLogs ==
    /\ sync # NoSync
    /\ sync' = NoSync
    /\ UNCHANGED <<state, stateFile, mode, beating, remote, crossed>>

\* The backend answers.  The status it gives for the challenge asked about is
\* compared with the one read before the request, and stored in the state of
\* whatever challenge is current by now.
SyncReplies ==
    /\ sync # NoSync
    /\ sync' = NoSync
    /\ IF remote[sync.id] = sync.status
         THEN UNCHANGED <<state, stateFile, mode, beating, crossed>>
         ELSE /\ Update([state EXCEPT !.status = remote[sync.id]])
              /\ crossed' = (crossed \/ state.id # sync.id)
    /\ UNCHANGED remote

\* The backend is offline or refuses.
SyncFails ==
    /\ sync # NoSync
    /\ sync' = NoSync
    /\ UNCHANGED <<state, stateFile, mode, beating, remote, crossed>>

-----------------------------------------------------------------------------

\* The service dies and is started again: the state is loaded, a first sync goes
\* out and the mode is that of the state.
Crash ==
    /\ state' = stateFile
    /\ mode' = Mode(stateFile)
    /\ sync' = Asked(stateFile)
    /\ beating' = (stateFile.status = "active")
    /\ UNCHANGED <<stateFile, remote, crossed>>

\* The server completes or terminates a challenge.
Close(c) ==
    /\ remote' = [remote EXCEPT ![c] = "closed"]
    /\ UNCHANGED <<state, stateFile, mode, sync, beating, crossed>>

Next ==
    \/ \E c \in Challenges, token \in BOOLEAN : StartChallenge(c, token)
    \/ StopChallenge \/ Heartbeat \/ HeartbeatDone
    \/ SyncStart \/ SyncReplies \/ SyncFails
    \/ Crash
    \/ \E c \in Challenges : Close(c)

Spec == Init /\ [][Next]_vars

\* The challengeSync timer fires again and again, a request ends, and a backend
\* that is asked again and again answers again and again.
FairSpec ==
    /\ Spec
    /\ WF_vars(SyncStart)
    /\ WF_vars(SyncReplies \/ SyncFails)
    /\ SF_vars(SyncReplies)

-----------------------------------------------------------------------------

TypeOK ==
    /\ state \in ServiceState /\ stateFile \in ServiceState
    /\ sync \in Syncs /\ beating \in BOOLEAN
    /\ remote \in [Challenges -> {"active", "closed"}]
    /\ crossed \in BOOLEAN
    \* The timers are those of the status (serviceManager.js:24-27).
    /\ mode = Mode(state)

\* Without a challenge the service idles (serviceManager.js:24-25), over stops
\* that overtake an answer, failed writes and restarts.  The exception is an
\* answer stored after the challenge had changed: two of those in a row leave the
\* service monitoring for no challenge, with nothing left to synchronise.
IdleWithoutChallenge == ~crossed /\ state.id = None => mode = "idle"

\* The service ends the monitoring of a challenge on its own only if the server
\* closed that challenge (challengeMonitor.js:13-15), again unless an answer was
\* stored under another one.
ClosedAtTheServer ==
    ~crossed /\ state.id # None /\ mode = "idle" => remote[state.id] = "closed"

\* Completion or termination decided elsewhere "is reflected even if Electron
\* never reopens" (challengeMonitor.js:13-15), whatever starts, crashes and late
\* answers come between.
ClosureIsNoticed ==
    \A c \in Challenges :
      (state.id = c /\ state.token /\ remote[c] = "closed")
        ~> (mode = "idle" \/ state.id # c \/ ~state.token)

\* An active challenge is monitored: an answer about another challenge may switch
\* the monitoring off, but not for good (challengeMonitor.js:60-61).
MonitoringResumes ==
    \A c \in Challenges :
      (state.id = c /\ state.token /\ remote[c] = "active")
        ~> (mode = "active" \/ state.id # c \/ ~state.token \/ remote[c] # "active")
=============================================================================
