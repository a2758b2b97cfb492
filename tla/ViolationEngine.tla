-------------------------- MODULE ViolationEngine --------------------------
(***************************************************************************)
(* The challenge server: how reports of violations, payments and the daily *)
(* refund job change one challenge document (server/services, server/jobs  *)
(* and server/routes).                                                     *)
(*                                                                         *)
(* Every handler reads the document, changes its copy and saves it, and    *)
(* awaits the database in between: other handlers, and the job, run in the *)
(* gap.  Mongoose saves the paths whose value the handler changed, and all *)
(* of `vectors' after markModified('vectors'); the schema has no           *)
(* optimistic concurrency, so a save never fails for being late.           *)
(*                                                                         *)
(* resolveGroup names groups the schema has no path for, so each vector    *)
(* keeps its own state.  Logs, times and evidence are left out, and so are *)
(* the second save of triggerRefundForfeiture, which changes no path, and  *)
(* the order ids, which only decide whose payment /verify accepts.         *)
(***************************************************************************)
EXTENDS Naturals, FiniteSets

CONSTANTS
    Vectors,      \* names of the integrity checks
    Vpn,          \* "unknown_vpn", one of them
    None,         \* "no vector"
    Requests,     \* requests that may be handled at the same time
    MaxPosts,     \* bound: requests posted
    MaxCrashes,   \* bound: crashes of the server
    Others        \* other due challenges whose refund the bank may refuse

ASSUME EngineAssumption ==
    /\ Vpn \in Vectors /\ None \notin Vectors
    /\ MaxPosts \in Nat /\ MaxCrashes \in Nat /\ Others \in Nat

VARIABLES
    db,         \* the challenge document
    due,        \* totalDays have passed
    req,        \* [Requests -> request in progress]
    cron,       \* the refund job
    ahead,      \* other due challenges that can still stop the job
    posts, crashes,
    last,       \* the vectors of the last heartbeat, which may be sent again
    (* History, read by the properties only. *)
    detections, \* [Vectors -> 0..2]: detections reported, repeats not counted
    final,      \* a final VPN report arrived
    repeated,   \* a heartbeat was sent again
    refunds,    \* refunds the bank carried out
    warnMails,  \* [Vectors -> 0..2]
    told,       \* outcomes mailed to the user
    hazard      \* what happened that the code does not guard against

worldVars == <<due, ahead, posts, crashes, last>>
historyVars == <<detections, final, repeated, refunds, warnMails, told, hazard>>
vars == <<db, req, cron, worldVars, historyVars>>

Deposits == {"pending", "locked", "refunded", "forfeited", "refund_pending_review"}
Challenge ==
    [status : {"active", "completed", "terminated"}, deposit : Deposits,
     payment : BOOLEAN, warnings : [Vectors -> 0..2], cause : Vectors \cup {None}]

NewChallenge ==
    [status |-> "active", deposit |-> "pending", payment |-> FALSE,
     warnings |-> [v \in Vectors |-> 0], cause |-> None]

(* A request in progress: the copy it read, what it makes of it, the vector this
   is about, and the vectors of a heartbeat still to process. *)
Free == [pc |-> "free"]
Rest(todo) == IF todo = {} THEN Free ELSE [pc |-> "next", todo |-> todo]
Idle == [pc |-> "idle"]

Init ==
    /\ db = NewChallenge
    /\ due = FALSE
    /\ req = [r \in Requests |-> Free]
    /\ cron = Idle /\ ahead = Others
    /\ posts = 0 /\ crashes = 0 /\ last = {}
    /\ detections = [v \in Vectors |-> 0] /\ final = FALSE /\ repeated = FALSE /\ refunds = 0
    /\ warnMails = [v \in Vectors |-> 0] /\ told = {} /\ hazard = {}

-----------------------------------------------------------------------------
(* Documents *)

\* save(): the paths the handler changed in its copy replace those of the
\* document, and so do the paths that were marked modified.
Saved(copy, new, marked) ==
    [field \in DOMAIN db |->
       IF new[field] # copy[field] \/ field \in marked
         THEN new[field] ELSE db[field]]

Warned(doc, v) == [doc EXCEPT !.warnings[v] = 1]

Terminated(doc, v) ==
    [doc EXCEPT !.warnings[v] = 2, !.status = "terminated",
                !.deposit = "forfeited", !.cause = v]

\* Mutants: a warning of any vector counts; the status is not looked at.
JudgedTogether(kind, doc, v) ==
    IF kind = "vpnFailed" THEN Terminated(doc, Vpn)
    ELSE IF doc.status # "active" THEN doc
    ELSE IF \A u \in Vectors : doc.warnings[u] = 0 THEN Warned(doc, v)
    ELSE IF kind = "heartbeat" THEN Terminated(doc, v) ELSE doc

JudgedAnyStatus(kind, doc, v) ==
    IF kind = "vpnFailed" THEN Terminated(doc, Vpn)
    ELSE IF doc.warnings[v] = 0 THEN Warned(doc, v)
    ELSE IF kind = "heartbeat" THEN Terminated(doc, v) ELSE doc

\* processViolation and processVpnViolation, from the document to what they
\* make of it; the document itself if they return early.
Judged(kind, doc, v) ==
    IF kind = "vpnFailed" THEN Terminated(doc, Vpn)
    ELSE IF doc.status # "active" THEN doc
    ELSE IF doc.warnings[v] = 0 THEN Warned(doc, v)
    ELSE IF kind = "heartbeat" THEN Terminated(doc, v) ELSE doc

\* Two handlers, or a handler and the job, work on copies at the same time.
Busy(r) ==
    \/ cron.pc # "idle"
    \/ \E s \in Requests \ {r} : req[s].pc \in {"save", "pay"}

Bump(f, v) == [f EXCEPT ![v] = IF @ < 2 THEN @ + 1 ELSE 2]

-----------------------------------------------------------------------------
(* Reports of violations *)

\* findById and the code up to save(); an early return ends the vector.
Find(r, kind, todo) ==
    /\ \E v \in todo :
         LET new == Judged(kind, db, v)
             skip == new = db /\ kind # "vpnFailed"
         IN /\ req' = [req EXCEPT ![r] =
                 IF skip THEN Rest(todo \ {v})
                 ELSE [pc |-> "save", copy |-> db, new |-> new, vector |-> v,
                       todo |-> todo \ {v}]]
            /\ hazard' = hazard \cup
                 (IF ~skip /\ Busy(r) THEN {"overlap"} ELSE {}) \cup
                 (IF kind = "vpnFailed" /\ db.status # "active" THEN {"late"} ELSE {})
    /\ UNCHANGED <<db, cron, due, ahead, crashes, refunds, warnMails, told>>

Arrives(r) == posts < MaxPosts /\ req[r] = Free /\ posts' = posts + 1

\* POST /heartbeat: a new one ...
Heartbeat(r, violated) ==
    /\ Arrives(r)
    /\ Find(r, "heartbeat", violated)
    /\ last' = violated
    /\ detections' = [v \in Vectors |->
                        IF v \in violated THEN Bump(detections, v)[v] ELSE detections[v]]
    /\ UNCHANGED <<final, repeated>>

\* ... or the last one again, because its sender saw no answer in time.
HeartbeatAgain(r) ==
    /\ Arrives(r)
    /\ Find(r, "heartbeat", last)
    /\ repeated' = TRUE
    /\ UNCHANGED <<last, detections, final>>

\* POST /violations/:id/vpn from the desktop app: the warning was given, or the
\* challenge has failed there.
VpnReport(r, kind) ==
    /\ Arrives(r)
    /\ Find(r, kind, {Vpn})
    /\ detections' = IF kind = "vpnWarning" THEN Bump(detections, Vpn) ELSE detections
    /\ final' = (final \/ kind = "vpnFailed")
    /\ UNCHANGED <<last, repeated>>

NextVector(r) ==
    /\ req[r].pc = "next"
    /\ Find(r, "heartbeat", req[r].todo)
    /\ UNCHANGED <<posts, last, detections, final, repeated>>

\* Mutant: the mail goes out before the save, which may fail.
SaveMailsFirst(r) ==
    /\ req[r].pc = "save"
    /\ \/ /\ db' = Saved(req[r].copy, req[r].new, {"warnings"})
          /\ req' = [req EXCEPT ![r] = Rest(@.todo)]
       \/ UNCHANGED db /\ req' = [req EXCEPT ![r] = Free]
    /\ IF req[r].new.warnings[req[r].vector] = 2
         THEN told' = told \cup {"terminated"} /\ UNCHANGED warnMails
         ELSE warnMails' = Bump(warnMails, req[r].vector) /\ UNCHANGED told
    /\ UNCHANGED <<cron, worldVars, detections, final, repeated, refunds, hazard>>

\* The save, then the log entry and the mail.  If one of these fails the request
\* ends with an error, and the other vectors of the heartbeat are not processed.
Save(r) ==
    /\ req[r].pc = "save"
    /\ db' = Saved(req[r].copy, req[r].new, {"warnings"})
    /\ \/ /\ req' = [req EXCEPT ![r] = Free]
          /\ UNCHANGED <<warnMails, told>>
       \/ /\ req' = [req EXCEPT ![r] = Rest(@.todo)]
          /\ IF req[r].new.warnings[req[r].vector] = 2
               THEN told' = told \cup {"terminated"} /\ UNCHANGED warnMails
               ELSE warnMails' = Bump(warnMails, req[r].vector) /\ UNCHANGED told
    /\ UNCHANGED <<cron, worldVars, detections, final, repeated, refunds, hazard>>

-----------------------------------------------------------------------------
(* Payments *)

\* /verify accepts the payment of the order on file.
Verify(r) ==
    /\ Arrives(r)
    /\ req' = [req EXCEPT ![r] =
                 [pc |-> "pay", copy |-> db,
                  new |-> [db EXCEPT !.payment = TRUE, !.deposit = "locked"]]]
    /\ hazard' = hazard \cup (IF Busy(r) THEN {"overlap"} ELSE {}) \cup
                 (IF db.deposit # "pending" THEN {"late"} ELSE {})
    /\ UNCHANGED <<db, cron, due, ahead, crashes, last, detections, final, repeated, refunds,
                   warnMails, told>>

SavePayment(r) ==
    /\ req[r].pc = "pay"
    /\ db' = Saved(req[r].copy, req[r].new, {})
    /\ req' = [req EXCEPT ![r] = Free]
    /\ UNCHANGED <<cron, worldVars, historyVars>>

-----------------------------------------------------------------------------
(* The refund job *)

\* All active challenges are read at once.
CronFind ==
    /\ cron = Idle /\ db.status = "active"
    /\ cron' = [pc |-> "loop", copy |-> db]
    /\ hazard' = IF \E r \in Requests : req[r].pc \in {"save", "pay"}
                   THEN hazard \cup {"overlap"} ELSE hazard
    /\ UNCHANGED <<db, req, worldVars, detections, final, repeated, refunds, warnMails, told>>

\* Mutant: the other challenge is not closed before its refund and stays in line.
CronBreaksAgain ==
    /\ cron.pc = "loop" /\ ahead > 0
    /\ cron' = Idle
    /\ UNCHANGED <<db, req, worldVars, historyVars>>

\* The refund of a challenge before this one throws: the job ends.  That
\* challenge was saved as completed and is not found the next day.
CronBreaks ==
    /\ cron.pc = "loop" /\ ahead > 0
    /\ ahead' = ahead - 1
    /\ cron' = Idle
    /\ UNCHANGED <<db, req, due, posts, crashes, last, historyVars>>

CronSkips ==
    /\ cron.pc = "loop" /\ ~due
    /\ cron' = Idle
    /\ UNCHANGED <<db, req, worldVars, historyVars>>

\* Mutant: `completed' is not saved before the bank is called.
CronCompletesLate ==
    /\ cron.pc = "loop" /\ due
    /\ cron' = [pc |-> "refund", copy |-> [cron.copy EXCEPT !.status = "completed"]]
    /\ UNCHANGED <<db, req, worldVars, historyVars>>

CronCompletes ==
    /\ cron.pc = "loop" /\ due
    /\ LET new == [cron.copy EXCEPT !.status = "completed"]
       IN db' = Saved(cron.copy, new, {}) /\ cron' = [pc |-> "refund", copy |-> new]
    /\ UNCHANGED <<req, worldVars, historyVars>>

\* triggerRefund: nothing was paid, or the bank refuses (or its answer is lost),
\* or a large deposit waits for a review, or the bank refunds.
CronRefunds ==
    /\ cron.pc = "refund"
    /\ \/ /\ ~cron.copy.payment
          /\ cron' = Idle /\ UNCHANGED <<db, refunds>>
       \/ /\ cron.copy.payment
          /\ db' = Saved(cron.copy, [cron.copy EXCEPT !.deposit = "refund_pending_review"], {})
          /\ cron' = Idle /\ UNCHANGED refunds
       \/ /\ cron.copy.payment
          /\ cron' = Idle /\ refunds' \in {refunds, refunds + 1} /\ UNCHANGED db
       \/ /\ cron.copy.payment
          /\ cron' = [cron EXCEPT !.pc = "refunded"]
          /\ refunds' = refunds + 1 /\ UNCHANGED db
    /\ UNCHANGED <<req, worldVars, detections, final, repeated, warnMails, told, hazard>>

\* The refund is recorded and mailed.
CronRecords ==
    /\ cron.pc = "refunded"
    /\ db' = Saved(cron.copy, [cron.copy EXCEPT !.deposit = "refunded"], {})
    /\ cron' = Idle
    /\ told' \in {told, told \cup {"refunded"}}
    /\ UNCHANGED <<req, worldVars, detections, final, repeated, refunds, warnMails, hazard>>

-----------------------------------------------------------------------------

Crash ==
    /\ crashes < MaxCrashes
    /\ crashes' = crashes + 1
    /\ req' = [r \in Requests |-> Free]
    /\ cron' = Idle
    /\ UNCHANGED <<db, due, ahead, posts, last, historyVars>>

DaysPass ==
    /\ ~due /\ due' = TRUE
    /\ UNCHANGED <<db, req, cron, ahead, posts, crashes, last, historyVars>>

Arrive(r) ==
    \/ \E violated \in SUBSET Vectors \ {{}} : Heartbeat(r, violated)
    \/ HeartbeatAgain(r)
    \/ \E kind \in {"vpnWarning", "vpnFailed"} : VpnReport(r, kind)
    \/ Verify(r)

Continue(r) == NextVector(r) \/ Save(r) \/ SavePayment(r)

Job == CronFind \/ CronBreaks \/ CronSkips \/ CronCompletes \/ CronRefunds \/ CronRecords

Next == (\E r \in Requests : Arrive(r) \/ Continue(r)) \/ Job \/ Crash \/ DaysPass

Spec == Init /\ [][Next]_vars

\* The job runs every day and none of its calls hangs.
FairSpec == Spec /\ WF_vars(Job)

-----------------------------------------------------------------------------

Request ==
    [pc : {"free"}] \cup [pc : {"next"}, todo : SUBSET Vectors]
    \cup [pc : {"save"}, copy : Challenge, new : Challenge, vector : Vectors,
          todo : SUBSET Vectors]
    \cup [pc : {"pay"}, copy : Challenge, new : Challenge]

TypeOK ==
    /\ db \in Challenge /\ due \in BOOLEAN
    /\ req \in [Requests -> Request]
    /\ cron \in [pc : {"idle"}] \cup [pc : {"loop", "refund", "refunded"}, copy : Challenge]
    /\ ahead \in 0..Others
    /\ posts \in 0..MaxPosts /\ crashes \in 0..MaxCrashes /\ last \subseteq Vectors
    /\ {detections, warnMails} \subseteq [Vectors -> 0..2]
    /\ final \in BOOLEAN /\ repeated \in BOOLEAN /\ refunds \in Nat
    /\ told \subseteq {"terminated", "refunded"} /\ hazard \subseteq {"overlap", "late"}

\* A deposit is refunded once at most, and only for a challenge that reached its
\* last day (refundProcessor.js:10-13), wherever the server crashes, the bank's
\* answer is lost or reports arrive: `completed' is saved before the bank is
\* called, so no later run of the job finds the challenge again.
AtMostOneRefund == refunds <= 1 /\ (refunds = 1 => due /\ db.status # "active")

\* Nobody loses a deposit for one detection (violationEngine.js:102): unless a
\* heartbeat was sent again, a challenge is terminated only for a vector that
\* was detected twice, or by a final VPN report, however handlers overwrite
\* each other's warnings.
Earned(v) == repeated \/ detections[v] = 2 \/ (v = Vpn /\ final)
TerminationIsEarned == db.status = "terminated" => Earned(db.cause)

\* The books agree (paymentService.js, violationEngine.js:32): unless handlers
\* overlapped or a report or payment came after the outcome, status, deposit,
\* the bank and the mails tell one story, also after crashes and failed mails.
BooksAgree ==
    hazard = {} =>
      /\ db.status = "terminated" <=> db.deposit = "forfeited"
      /\ refunds = 1 => db.status = "completed" /\ db.payment /\ db.deposit # "pending"
      /\ db.deposit = "refunded" => refunds = 1
      /\ "refunded" \in told => db.deposit = "refunded"
      /\ "terminated" \in told => db.status = "terminated"

\* Warnings are not forgotten and not repeated (violationEngine.js:102): unless
\* handlers overlapped, a vector's warnings never fall and its "first and only
\* warning" is mailed once.
WarningsStand ==
    [][hazard' = {} =>
         \A v \in Vectors :
           db'.warnings[v] >= db.warnings[v] /\ warnMails'[v] <= 1]_vars

\* Every challenge ends (refundProcessor.js:6): past its last day it is closed
\* by some run of the job, although other challenges' refunds stop the job.
EveryChallengeCloses == due ~> db.status # "active"

Promise == INSTANCE Escrow WITH status <- db.status, cause <- db.cause,
                                grounds <- {v \in Vectors : Earned(v)}

\* The document keeps the promise of module Escrow, whatever copies of it are
\* saved over each other (violationEngine.js:113-119, refundProcessor.js:10-20): no
\* late save reopens a closed challenge, none completes one before its last day or
\* terminates one without grounds, and the money leaves once, after the outcome.
KeepsEscrow == Promise!Spec
=============================================================================
