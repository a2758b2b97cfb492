-------------------------- MODULE ProtectionChecks --------------------------
(***************************************************************************)
(* The checks of the background service (serviceManager.js:97-243): what   *)
(* the service remembers of the protection of the machine, and which       *)
(* violations it raises.                                                   *)
(*                                                                         *)
(* A check of a vector awaits its probes and, when it raises a violation,  *)
(* the request that records it; only then does it save the flags.  The     *)
(* vector's timer, POST /monitoring/check-now, the full pass at the start  *)
(* of a challenge and the hosts watcher start checks without waiting for   *)
(* one another.                                                            *)
(*                                                                         *)
(* Probes return anything at any time (a failing command reads as "no      *)
(* VPN"), so the machine itself is not modelled.  Whether a violation has a *)
(* challenge and a token to be recorded with is up to ChallengeMonitor and *)
(* is left open here.  A queued violation counts as kept: OfflineQueue     *)
(* models the queue.                                                       *)
(***************************************************************************)
EXTENDS Naturals

CONSTANTS
    Vectors,     \* what the monitors check
    Starters,    \* what starts checks: two of a vector overlap if two start one
    DiskMayFail  \* whether a write of protection-status.json may fail

ASSUME CheckAssumption == DiskMayFail \in BOOLEAN

VARIABLES
    ok,      \* [Vectors -> BOOLEAN]: the flags of `protection'
    okFile,  \* protection-status.json
    check,   \* [Checks -> {"idle", "probing", "recording"}]
    (* History, read by the properties only. *)
    calm,    \* [Vectors -> BOOLEAN]: no violation, or a good result since the last
    again,   \* a violation was raised again without a good result between
    alarm,   \* [Vectors -> {"void", "flying", "kept"}]: the last violation
    hazard   \* what happened that the code does not guard against

vars == <<ok, okFile, check, calm, again, alarm, hazard>>

-----------------------------------------------------------------------------

Checks == Vectors \X Starters

Hazards == {"early",    \* flags were saved while a violation was being sent
            "unsaved",  \* flags could not be written
            "behind"}   \* a restart read flags that were not the latest

\* writeJson replaces the file as a whole; finalizeCheck swallows its errors.
Written(old, new) == IF DiskMayFail THEN {old, new} ELSE {new}

Init ==
    /\ ok = [v \in Vectors |-> TRUE] /\ okFile = ok
    /\ check = [c \in Checks |-> "idle"]
    /\ calm = [v \in Vectors |-> TRUE] /\ again = FALSE
    /\ alarm = [v \in Vectors |-> "void"] /\ hazard = {}

-----------------------------------------------------------------------------

\* The probes start.
CheckStart(c) ==
    /\ check[c] = "idle"
    /\ check' = [check EXCEPT ![c] = "probing"]
    /\ UNCHANGED <<ok, okFile, calm, again, alarm, hazard>>

\* finalizeCheck writes all flags, also those of a vector whose violation is still
\* on its way to the backend.
Finalize(c, flags) ==
    LET flying == \E d \in Checks \ {c} : check[d] = "recording" /\ ~flags[d[1]]
    IN /\ okFile' \in Written(okFile, flags)
       /\ hazard' = hazard \cup (IF flying THEN {"early"} ELSE {})
                           \cup (IF okFile' # flags THEN {"unsaved"} ELSE {})

\* The result of check c changes the flag, and raises a violation or not, which is
\* recorded if there is a challenge and a token.
Result(c, good, raised, recorded) ==
    LET v == c[1]
    IN /\ check[c] = "probing"
       /\ ok' = [ok EXCEPT ![v] = good]
       /\ calm' = [calm EXCEPT ![v] = good \/ (@ /\ ~raised)]
       /\ again' = (again \/ (raised /\ ~calm[v]))
       /\ alarm' = [alarm EXCEPT ![v] =
                      IF recorded THEN "flying" ELSE IF raised THEN "void" ELSE @]
       /\ check' = [check EXCEPT ![c] = IF recorded THEN "recording" ELSE "idle"]

\* Mutant: the result is compared with the flag on file.
RaisesFromFile(v, good) == okFile[v] /\ ~good

\* Only a change for the worse raises a violation.
Raises(v, good) == ok[v] /\ ~good

\* Mutant: the flags are saved before the violation is recorded.
CheckDoneSavesFirst(c, good, challenge) ==
    LET raised == Raises(c[1], good)
    IN Result(c, good, raised, raised /\ challenge) /\ Finalize(c, ok')

\* The probes of a check return.  The flag is read after they did, so no other
\* check comes between the comparison and the assignment.  The flags are saved
\* when the violation, if any, has been recorded.
CheckDone(c, good, challenge) ==
    LET raised == Raises(c[1], good)
        recorded == raised /\ challenge
    IN /\ Result(c, good, raised, recorded)
       /\ IF recorded THEN UNCHANGED <<okFile, hazard>> ELSE Finalize(c, ok')

\* recordViolation returns: the violation was sent, or is in the queue.
RecordDone(c) ==
    /\ check[c] = "recording"
    /\ check' = [check EXCEPT ![c] = "idle"]
    /\ alarm' = [alarm EXCEPT ![c[1]] = "kept"]
    /\ Finalize(c, ok)
    /\ UNCHANGED <<ok, calm, again>>

\* The service dies and is started again: the flags are those on file.
Crash ==
    /\ ok' = okFile
    /\ check' = [c \in Checks |-> "idle"]
    /\ hazard' = IF ok = okFile THEN hazard ELSE hazard \cup {"behind"}
    /\ UNCHANGED <<okFile, calm, again, alarm>>

Next ==
    \/ \E c \in Checks :
         \/ CheckStart(c) \/ RecordDone(c)
         \/ \E good, challenge \in BOOLEAN : CheckDone(c, good, challenge)
    \/ Crash

Spec == Init /\ [][Next]_vars

-----------------------------------------------------------------------------

TypeOK ==
    /\ ok \in [Vectors -> BOOLEAN] /\ okFile \in [Vectors -> BOOLEAN]
    /\ check \in [Checks -> {"idle", "probing", "recording"}]
    /\ calm \in [Vectors -> BOOLEAN] /\ again \in BOOLEAN
    /\ alarm \in [Vectors -> {"void", "flying", "kept"}]
    /\ hazard \subseteq Hazards

\* "State-change driven" (serviceManager.js:29-30): two violations of a vector
\* have a good result between them, over overlapping checks of that vector and
\* over restarts, unless a restart read flags that were not the latest.
AlarmOnce == "behind" \notin hazard => ~again

\* A restart loses no violation (serviceManager.js:123-129, 151): while one is on
\* its way to the backend the file still says that its vector is good, and the
\* restarted service raises it again.  Not so if another check saved the flags
\* meanwhile, or if the file could not be written.
AlarmsOutliveCrashes ==
    hazard \cap {"early", "unsaved"} = {} =>
      \A v \in Vectors : ~ok[v] /\ ~okFile[v] => alarm[v] # "flying"
=============================================================================
