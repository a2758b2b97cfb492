----------------------- MODULE ViolationEngine_proofs -----------------------
(***************************************************************************)
(* Proofs about ViolationEngine for every set of vectors, any number of     *)
(* requests at a time and of crashes: one refund at most, no termination    *)
(* without a second detection, and books that agree.                        *)
(***************************************************************************)
EXTENDS ViolationEngine, TLAPS

-----------------------------------------------------------------------------
(* The inductive invariant. *)

Working(r) == req[r].pc \in {"save", "pay"}

\* What a handler or the job is about to save differs from its copy as this
\* handler wants it.
SaveShaped(w) ==
    \/ /\ w.copy.status = "active" /\ w.copy.warnings[w.vector] = 0
       /\ w.new = Warned(w.copy, w.vector)
    \/ w.new = Terminated(w.copy, w.vector)
PayShaped(w) == w.new = [w.copy EXCEPT !.payment = TRUE, !.deposit = "locked"]
Shaped ==
    /\ \A r \in Requests : /\ req[r].pc = "save" => SaveShaped(req[r])
                           /\ req[r].pc = "pay" => PayShaped(req[r])
    /\ cron.pc = "loop" => cron.copy.status = "active"
    /\ cron.pc \in {"refund", "refunded"} => cron.copy.status = "completed"
    /\ cron.pc = "refunded" => cron.copy.payment

\* A challenge the bank is called for is closed, on its last day, and has not
\* been refunded.
RefundInv ==
    /\ cron.pc \in {"loop", "refund"} => refunds = 0
    /\ cron.pc \in {"refund", "refunded"} => due /\ db.status # "active"
    /\ cron.pc = "refunded" => refunds = 1
    /\ AtMostOneRefund

\* The vectors whose detection was reported and is not yet looked at, and those
\* that have a warning, or will have one.
Waiting(r) == IF req[r].pc \in {"next", "save"} THEN req[r].todo ELSE {}
Touched(v) ==
    \/ db.warnings[v] # 0
    \/ \E r \in Requests : req[r].pc = "save" /\ req[r].new.warnings[v] # 0

\* Every warning and every waiting vector has a detection of its own.
DetectionInv ==
    ~repeated =>
      /\ \A v \in Vectors : Touched(v) => detections[v] >= 1 \/ (v = Vpn /\ final)
      /\ \A r \in Requests, v \in Vectors : v \in Waiting(r) =>
           /\ detections[v] >= 1
           /\ Touched(v) => Earned(v)
           /\ \A s \in Requests \ {r} : v \in Waiting(s) => detections[v] = 2

\* A cause stays a cause, and no handler that ends a challenge lacks one.
CauseSound(w) ==
    /\ w.copy.cause # None => db.cause # None
    /\ w.new.cause # None => Earned(w.new.cause)
    /\ w.new.status = "terminated" => w.new.cause # None
CauseInv ==
    /\ db.cause # None => Earned(db.cause)
    /\ db.status = "terminated" => db.cause # None
    /\ \A r \in Requests : Working(r) => CauseSound(req[r])

\* Without a hazard whoever works on a copy works alone, and on the document.
AloneInv ==
    hazard = {} =>
      /\ \A r \in Requests : Working(r) =>
           /\ req[r].copy = db /\ cron.pc = "idle"
           /\ \A s \in Requests : Working(s) => s = r
           /\ req[r].pc = "save" => db.status = "active"
           /\ req[r].pc = "pay" => db.deposit = "pending"
      /\ cron.pc # "idle" => cron.copy = db

BooksInv ==
    /\ BooksAgree
    /\ hazard = {} =>
         /\ db.payment => db.deposit # "pending"
         /\ \A v \in Vectors : warnMails[v] <= 1 /\ (warnMails[v] # 0 => db.warnings[v] # 0)

IInv == /\ TypeOK /\ Shaped /\ RefundInv /\ DetectionInv /\ CauseInv
        /\ AloneInv /\ BooksInv
-----------------------------------------------------------------------------
(* Documents *)

LEMMA SavedFacts ==
    ASSUME db \in Challenge, NEW copy \in Challenge, NEW new \in Challenge,
           NEW marked
    PROVE  /\ Saved(copy, new, marked) \in Challenge
           /\ Saved(copy, new, marked).status
                = IF new.status # copy.status \/ "status" \in marked THEN new.status ELSE db.status
           /\ Saved(copy, new, marked).warnings
                = IF new.warnings # copy.warnings \/ "warnings" \in marked THEN new.warnings ELSE db.warnings
           /\ Saved(copy, new, marked).cause
                = IF new.cause # copy.cause \/ "cause" \in marked THEN new.cause ELSE db.cause
  BY DEF Saved, Challenge

\* A handler that works alone saves the document it wants.
LEMMA SavedWhole ==
    ASSUME db \in Challenge, NEW new \in Challenge, NEW marked
    PROVE  Saved(db, new, marked) = new
  BY DEF Saved, Challenge

LEMMA WarnedFacts ==
    ASSUME NEW doc \in Challenge, NEW v \in Vectors
    PROVE  /\ Warned(doc, v) \in Challenge
           /\ Warned(doc, v).status = doc.status /\ Warned(doc, v).deposit = doc.deposit
           /\ Warned(doc, v).payment = doc.payment /\ Warned(doc, v).cause = doc.cause
           /\ Warned(doc, v).warnings = [doc.warnings EXCEPT ![v] = 1]
  BY DEF Warned, Challenge

LEMMA TerminatedFacts ==
    ASSUME NEW doc \in Challenge, NEW v \in Vectors
    PROVE  /\ Terminated(doc, v) \in Challenge
           /\ Terminated(doc, v).status = "terminated"
           /\ Terminated(doc, v).deposit = "forfeited"
           /\ Terminated(doc, v).payment = doc.payment /\ Terminated(doc, v).cause = v
           /\ Terminated(doc, v).warnings = [doc.warnings EXCEPT ![v] = 2]
  <1>1. [doc.warnings EXCEPT ![v] = 2] \in [Vectors -> 0..2]
    BY DEF Challenge
  <1>2. Terminated(doc, v) = [doc EXCEPT !.warnings = [doc.warnings EXCEPT ![v] = 2],
                                         !.status = "terminated",
                                         !.deposit = "forfeited", !.cause = v]
    BY DEF Terminated
  <1>3. QED
    BY <1>1, <1>2 DEF Challenge, Deposits

LEMMA ShapeFacts ==
    ASSUME NEW doc \in Challenge, NEW v \in Vectors,
           NEW new, new = Warned(doc, v) \/ new = Terminated(doc, v)
    PROVE  \/ new.status = doc.status /\ new.cause = doc.cause
           \/ new.status = "terminated" /\ new.cause = v
  <1>1. Warned(doc, v).status = doc.status /\ Warned(doc, v).cause = doc.cause
    BY WarnedFacts
  <1>2. Terminated(doc, v).status = "terminated" /\ Terminated(doc, v).cause = v
    BY TerminatedFacts
  <1>3. QED
    BY <1>1, <1>2

LEMMA WarningsType ==
    ASSUME NEW doc \in Challenge
    PROVE  doc.warnings \in [Vectors -> 0..2]
  BY DEF Challenge

LEMMA WarnedDoc ==
    ASSUME NEW doc \in Challenge, NEW v \in Vectors, NEW new, new = Warned(doc, v)
    PROVE  /\ new.status = doc.status /\ new.deposit = doc.deposit
           /\ new.payment = doc.payment
           /\ new.warnings = [doc.warnings EXCEPT ![v] = 1] /\ new.warnings[v] = 1
  <1>1. [doc.warnings EXCEPT ![v] = 1][v] = 1
    BY WarningsType
  <1>2. QED
    BY <1>1, WarnedFacts

LEMMA TerminatedDoc ==
    ASSUME NEW doc \in Challenge, NEW v \in Vectors, NEW new, new = Terminated(doc, v)
    PROVE  /\ new.status = "terminated" /\ new.deposit = "forfeited"
           /\ new.warnings = [doc.warnings EXCEPT ![v] = 2] /\ new.warnings[v] = 2
  <1>1. [doc.warnings EXCEPT ![v] = 2][v] = 2
    BY WarningsType
  <1>2. QED
    BY <1>1, TerminatedFacts

\* A first warning goes with a first mail.
LEMMA MailsAgree ==
    ASSUME NEW mails \in [Vectors -> 0..2], NEW warnings \in [Vectors -> 0..2],
           NEW v \in Vectors, warnings[v] = 0,
           \A u \in Vectors : mails[u] <= 1 /\ (mails[u] # 0 => warnings[u] # 0),
           NEW sent, sent = mails \/ sent = Bump(mails, v), NEW u \in Vectors
    PROVE  sent[u] <= 1 /\ (sent[u] # 0 => [warnings EXCEPT ![v] = 1][u] # 0)
  <1>1. mails[v] = 0
    OBVIOUS
  <1>2. CASE u = v
    BY <1>1, <1>2 DEF Bump
  <1>3. CASE u # v
    BY <1>3 DEF Bump
  <1>4. QED
    BY <1>2, <1>3

\* A change of status is saved, a change of other fields leaves these as they are.
LEMMA SavedKeeps ==
    ASSUME db \in Challenge, NEW copy \in Challenge, NEW new \in Challenge
    PROVE  /\ Saved(copy, new, {}) \in Challenge
           /\ new.status = copy.status => Saved(copy, new, {}).status = db.status
           /\ new.status # copy.status => Saved(copy, new, {}).status = new.status
           /\ new.warnings = copy.warnings => Saved(copy, new, {}).warnings = db.warnings
           /\ new.cause = copy.cause => Saved(copy, new, {}).cause = db.cause
  BY DEF Saved, Challenge

LEMMA PaidFacts ==
    ASSUME NEW doc \in Challenge
    PROVE  [doc EXCEPT !.payment = TRUE, !.deposit = "locked"] \in Challenge
  BY DEF Challenge, Deposits

LEMMA ClosedFacts ==
    ASSUME NEW doc \in Challenge
    PROVE  /\ [doc EXCEPT !.status = "completed"] \in Challenge
           /\ [doc EXCEPT !.deposit = "refund_pending_review"] \in Challenge
           /\ [doc EXCEPT !.deposit = "refunded"] \in Challenge
  BY DEF Challenge, Deposits

LEMMA BumpFacts ==
    ASSUME NEW f \in [Vectors -> 0..2], NEW v \in Vectors
    PROVE  /\ Bump(f, v) \in [Vectors -> 0..2]
           /\ Bump(f, v)[v] \in {f[v] + 1, 2} /\ Bump(f, v)[v] >= 1 /\ Bump(f, v)[v] >= f[v]
           /\ f[v] >= 1 => Bump(f, v)[v] = 2
           /\ \A u \in Vectors \ {v} : Bump(f, v)[u] = f[u]
  BY DEF Bump

-----------------------------------------------------------------------------
(* Requests *)

\* What a handler leaves behind when it has looked at vector v.
Saving(doc, v, todo) ==
    [pc |-> "save", copy |-> db, new |-> doc, vector |-> v, todo |-> todo]

LEMMA RequestFacts ==
    ASSUME TypeOK, NEW r \in Requests
    PROVE  /\ req[r].pc \in {"free", "next", "save", "pay"}
           /\ req[r].pc = "free" => req[r] = Free
           /\ req[r].pc \in {"next", "save"} => req[r].todo \subseteq Vectors
           /\ req[r].pc = "save" => req[r].vector \in Vectors
           /\ Working(r) => req[r].copy \in Challenge /\ req[r].new \in Challenge
  BY DEF TypeOK, Request, Free, Working

LEMMA RestFacts ==
    ASSUME NEW todo \in SUBSET Vectors
    PROVE  /\ Rest(todo) \in Request /\ Rest(todo).pc \in {"free", "next"}
           /\ Rest(todo).pc = "next" => Rest(todo).todo = todo
  BY DEF Rest, Request, Free

LEMMA SavingFacts ==
    ASSUME db \in Challenge, NEW doc \in Challenge, NEW v \in Vectors,
           NEW todo \in SUBSET Vectors
    PROVE  Saving(doc, v, todo) \in Request
  BY DEF Saving, Request

\* The three ways a look at the document may end.
FindSkips(r, v, todo) ==
    req' = [req EXCEPT ![r] = Rest(todo \ {v})] /\ hazard' = hazard
FindWarns(r, v, todo) ==
    /\ db.status = "active" /\ db.warnings[v] = 0
    /\ req' = [req EXCEPT ![r] = Saving(Warned(db, v), v, todo \ {v})]
FindTerminates(r, kind, v, todo) ==
    /\ \/ kind = "vpnFailed" /\ v = Vpn
       \/ db.status = "active" /\ db.warnings[v] # 0
    /\ hazard' = {} => db.status = "active"
    /\ req' = [req EXCEPT ![r] = Saving(Terminated(db, v), v, todo \ {v})]

LEMMA FindCases ==
    ASSUME TypeOK, NEW r \in Requests, NEW kind \in {"heartbeat", "vpnWarning", "vpnFailed"},
           NEW todo \in SUBSET Vectors, kind = "vpnFailed" => todo = {Vpn}, Find(r, kind, todo)
    PROVE  /\ UNCHANGED <<db, cron, due, ahead, crashes, refunds, warnMails, told>>
           /\ hazard' \subseteq {"overlap", "late"} /\ hazard \subseteq hazard'
           /\ \E v \in todo :
                \/ FindSkips(r, v, todo)
                \/ /\ hazard' = {} => ~Busy(r)
                   /\ FindWarns(r, v, todo) \/ FindTerminates(r, kind, v, todo)
  <1>1. PICK v \in todo :
          LET new == Judged(kind, db, v)
              skip == new = db /\ kind # "vpnFailed"
          IN /\ req' = [req EXCEPT ![r] =
                  IF skip THEN Rest(todo \ {v})
                  ELSE [pc |-> "save", copy |-> db, new |-> new, vector |-> v,
                        todo |-> todo \ {v}]]
             /\ hazard' = hazard \cup
                  (IF ~skip /\ Busy(r) THEN {"overlap"} ELSE {}) \cup
                  (IF kind = "vpnFailed" /\ db.status # "active" THEN {"late"} ELSE {})
    BY DEF Find
  <1>2. UNCHANGED <<db, cron, due, ahead, crashes, refunds, warnMails, told>>
        /\ hazard' \subseteq {"overlap", "late"} /\ hazard \subseteq hazard'
    BY <1>1 DEF Find, TypeOK
  <1>3. CASE Judged(kind, db, v) = db /\ kind # "vpnFailed"
    BY <1>1, <1>2, <1>3 DEF FindSkips
  <1>4. CASE ~(Judged(kind, db, v) = db /\ kind # "vpnFailed")
    <2>1. /\ req' = [req EXCEPT ![r] = Saving(Judged(kind, db, v), v, todo \ {v})]
          /\ hazard' = {} => ~Busy(r)
          /\ kind = "vpnFailed" => (hazard' = {} => db.status = "active")
      BY <1>1, <1>4 DEF Saving
    <2>2. CASE kind = "vpnFailed"
      <3>1. v = Vpn /\ Judged(kind, db, v) = Terminated(db, v)
        BY <1>1, <2>2 DEF Judged
      <3>2. FindTerminates(r, kind, v, todo)
        BY <2>1, <2>2, <3>1 DEF FindTerminates
      <3>3. QED
        BY <1>1, <1>2, <2>1, <3>2
    <2>3. CASE kind # "vpnFailed"
      <3>1. db.status = "active"
        BY <1>4, <2>3 DEF Judged
      <3>2. CASE db.warnings[v] = 0
        <4>1. Judged(kind, db, v) = Warned(db, v)
          BY <2>3, <3>1, <3>2 DEF Judged
        <4>2. FindWarns(r, v, todo)
          BY <2>1, <3>1, <3>2, <4>1 DEF FindWarns
        <4>3. QED
          BY <1>1, <1>2, <2>1, <4>2
      <3>3. CASE db.warnings[v] # 0
        <4>1. Judged(kind, db, v) = Terminated(db, v)
          BY <1>4, <2>3, <3>1, <3>3 DEF Judged
        <4>2. FindTerminates(r, kind, v, todo)
          BY <2>1, <3>1, <3>3, <4>1 DEF FindTerminates
        <4>3. QED
          BY <1>1, <1>2, <2>1, <4>2
      <3>4. QED
        BY <3>2, <3>3
    <2>4. QED
      BY <2>2, <2>3
  <1>5. QED
    BY <1>3, <1>4

-----------------------------------------------------------------------------
(* Detections *)

\* The history only grows.
Grows ==
    /\ detections' \in [Vectors -> 0..2] /\ final' \in BOOLEAN /\ repeated' \in BOOLEAN
    /\ \A v \in Vectors : detections'[v] >= detections[v]
    /\ (final => final') /\ (repeated => repeated')

LEMMA EarnedGrows ==
    ASSUME TypeOK, Grows, NEW v \in Vectors, Earned(v)
    PROVE  Earned(v)'
  BY DEF TypeOK, Grows, Earned

\* The vectors request r is about to look at are accounted for.
Accounted(r, todo) ==
    ~repeated' => \A v \in todo :
      /\ detections'[v] >= 1
      /\ Touched(v) => Earned(v)'
      /\ \A s \in Requests \ {r} : v \in Waiting(s) => detections'[v] = 2

\* A look at one of the accounted vectors, or a final report, keeps the account.
LEMMA LookKeepsAccount ==
    ASSUME TypeOK, DetectionInv, Grows, NEW r \in Requests, req[r].pc \in {"free", "next"},
           NEW kind, NEW todo \in SUBSET Vectors, NEW v \in todo, db' = db,
           Accounted(r, todo) \/ (todo = {Vpn} /\ final'),
           \/ FindSkips(r, v, todo)
           \/ FindWarns(r, v, todo)
           \/ FindTerminates(r, kind, v, todo)
    PROVE  DetectionInv'
  <1> SUFFICES ASSUME ~repeated'
               PROVE  DetectionInv'
    BY DEF DetectionInv
  <1>1. ~repeated /\ v \in Vectors /\ db \in Challenge
    BY DEF Grows, TypeOK
  <1>2. \A s \in Requests \ {r} : req'[s] = req[s]
    BY DEF FindSkips, FindWarns, FindTerminates, TypeOK
  <1>3. \/ req'[r] = Rest(todo \ {v})
        \/ req'[r] = Saving(Warned(db, v), v, todo \ {v})
        \/ req'[r] = Saving(Terminated(db, v), v, todo \ {v})
    BY DEF FindSkips, FindWarns, FindTerminates, TypeOK
  <1>4. Waiting(r)' \subseteq todo \ {v} /\ \A s \in Requests \ {r} : Waiting(s)' = Waiting(s)
    BY <1>2, <1>3 DEF Waiting, Saving, Rest, Free
  <1>5. ASSUME NEW u \in Vectors, Touched(u)'
        PROVE  Touched(u) \/ u = v
    <2>1. CASE db.warnings[u] # 0
      BY <2>1 DEF Touched
    <2>2. CASE \E s \in Requests : req'[s].pc = "save" /\ req'[s].new.warnings[u] # 0
      <3>1. PICK s \in Requests : req'[s].pc = "save" /\ req'[s].new.warnings[u] # 0
        BY <2>2
      <3>2. CASE s # r
        BY <1>2, <3>1, <3>2 DEF Touched
      <3>3. CASE s = r
        <4>0. req'[r].new \in {Warned(db, v), Terminated(db, v)}
          BY <1>3, <3>1, <3>3, RestFacts DEF Saving
        <4>1. \/ req'[r].new.warnings = [db.warnings EXCEPT ![v] = 1]
              \/ req'[r].new.warnings = [db.warnings EXCEPT ![v] = 2]
          <5>1. CASE req'[r].new = Warned(db, v)
            BY <1>1, <5>1, WarnedFacts
          <5>2. CASE req'[r].new = Terminated(db, v)
            BY <1>1, <5>2, TerminatedFacts
          <5>3. QED
            BY <4>0, <5>1, <5>2
        <4>2. db.warnings \in [Vectors -> 0..2]
          BY <1>1 DEF Challenge
        <4>3. u = v \/ db.warnings[u] # 0
          BY <3>1, <3>3, <4>1, <4>2
        <4>4. QED
          BY <4>3 DEF Touched
      <3>4. QED
        BY <3>2, <3>3
    <2>3. QED
      BY <1>5, <2>1, <2>2 DEF Touched
  <1>6. ASSUME NEW u \in Vectors, Touched(u)'
        PROVE  detections'[u] >= 1 \/ (u = Vpn /\ final')
    <2>1. CASE Touched(u)
      BY <1>1, <2>1 DEF DetectionInv, Grows, TypeOK
    <2>2. CASE u = v
      BY <2>2 DEF Accounted
    <2>3. QED
      BY <1>5, <1>6, <2>1, <2>2
  <1>7. ASSUME NEW s \in Requests, NEW u \in Vectors, u \in Waiting(s)'
        PROVE  /\ detections'[u] >= 1
               /\ Touched(u)' => Earned(u)'
               /\ \A t \in Requests \ {s} : u \in Waiting(t)' => detections'[u] = 2
    <2>1. CASE s = r
      <3>1. u \in todo \ {v} /\ Accounted(r, todo)
        BY <1>4, <1>7, <2>1
      <3>2. QED
        BY <1>4, <1>5, <2>1, <3>1 DEF Accounted
    <2>2. CASE s # r
      <3>1. u \in Waiting(s)
        BY <1>4, <1>7, <2>2
      <3>2. /\ detections[u] >= 1 /\ (Touched(u) => Earned(u))
            /\ \A t \in Requests \ {s} : u \in Waiting(t) => detections[u] = 2
        BY <1>1, <3>1 DEF DetectionInv
      <3>3. /\ detections[u] \in 0..2 /\ detections'[u] \in 0..2
            /\ detections'[u] >= detections[u]
        BY DEF Grows, TypeOK
      <3>4. detections'[u] >= 1
        BY <3>2, <3>3
      <3>5. ASSUME Touched(u)'
            PROVE  Earned(u)'
        <4>1. CASE Touched(u)
          BY <3>2, <4>1, EarnedGrows
        <4>2. CASE u = v /\ Accounted(r, todo)
          BY <2>2, <3>1, <4>2 DEF Accounted, Earned
        <4>3. CASE u = v /\ todo = {Vpn} /\ final'
          BY <4>3 DEF Earned
        <4>4. QED
          BY <1>5, <3>5, <4>1, <4>2, <4>3
      <3>6. ASSUME NEW t \in Requests \ {s}, u \in Waiting(t)'
            PROVE  detections'[u] = 2
        <4>1. CASE t = r
          BY <1>4, <2>2, <3>1, <3>6, <4>1 DEF Accounted
        <4>2. CASE t # r
          BY <1>4, <3>2, <3>3, <3>6, <4>2
        <4>3. QED
          BY <4>1, <4>2
      <3>7. QED
        BY <3>4, <3>5, <3>6
    <2>3. QED
      BY <2>1, <2>2
  <1>8. QED
    BY <1>6, <1>7 DEF DetectionInv

\* Every request that looks at the document looks at accounted vectors, or has
\* a final report.
Looks(r) ==
    \/ \E violated \in SUBSET Vectors \ {{}} : Heartbeat(r, violated)
    \/ HeartbeatAgain(r)
    \/ \E kind \in {"vpnWarning", "vpnFailed"} : VpnReport(r, kind)
    \/ NextVector(r)

LEMMA BumpAccounts ==
    ASSUME TypeOK, DetectionInv, NEW r \in Requests, req[r] = Free, NEW todo \in SUBSET Vectors,
           final' = final, repeated' = repeated,
           detections' \in [Vectors -> 0..2],
           \A v \in todo : detections'[v] = Bump(detections, v)[v],
           \A v \in Vectors \ todo : detections'[v] = detections[v]
    PROVE  Grows /\ Accounted(r, todo)
  <1>1. ASSUME NEW v \in Vectors
        PROVE  detections'[v] >= detections[v]
    BY BumpFacts DEF TypeOK
  <1>2. ASSUME ~repeated', NEW v \in todo
        PROVE  /\ detections'[v] >= 1
               /\ detections[v] >= 1 => detections'[v] = 2
    BY BumpFacts DEF TypeOK
  <1>3. Grows
    BY <1>1 DEF Grows, TypeOK
  <1>4. ASSUME ~repeated', NEW v \in todo, Touched(v)
        PROVE  Earned(v)'
    BY <1>2, <1>4 DEF DetectionInv, Earned
  <1>5. ASSUME ~repeated', NEW v \in todo, NEW s \in Requests, v \in Waiting(s)
        PROVE  detections'[v] = 2
    BY <1>2, <1>5 DEF DetectionInv
  <1>6. QED
    BY <1>2, <1>3, <1>4, <1>5 DEF Accounted

LEMMA LookCases ==
    ASSUME TypeOK, DetectionInv, NEW r \in Requests, Looks(r)
    PROVE  \E kind \in {"heartbeat", "vpnWarning", "vpnFailed"}, todo \in SUBSET Vectors :
             /\ kind = "vpnFailed" => todo = {Vpn} /\ final'
             /\ req[r].pc \in {"free", "next"} /\ Find(r, kind, todo)
             /\ Grows /\ (kind = "vpnFailed" \/ Accounted(r, todo))
             /\ posts' \in 0..MaxPosts /\ last' \subseteq Vectors
  <1>1. ASSUME NEW violated \in SUBSET Vectors, Heartbeat(r, violated)
        PROVE  /\ req[r].pc = "free" /\ Find(r, "heartbeat", violated)
               /\ Grows /\ Accounted(r, violated)
               /\ posts' \in 0..MaxPosts /\ last' \subseteq Vectors
    <2>1. /\ req[r] = Free /\ Find(r, "heartbeat", violated) /\ posts' \in 0..MaxPosts
          /\ last' \subseteq Vectors /\ UNCHANGED <<final, repeated>>
      BY <1>1, EngineAssumption DEF Heartbeat, Arrives, TypeOK
    <2>2. detections' = [v \in Vectors |-> IF v \in violated THEN Bump(detections, v)[v]
                                          ELSE detections[v]]
      BY <1>1 DEF Heartbeat
    <2>3. detections' \in [Vectors -> 0..2]
      BY <2>2, BumpFacts DEF TypeOK
    <2>4. QED
      BY <2>1, <2>2, <2>3, BumpAccounts DEF Free
  <1>2. CASE HeartbeatAgain(r)
    <2>1. /\ req[r].pc = "free" /\ Find(r, "heartbeat", last) /\ posts' \in 0..MaxPosts
          /\ repeated' = TRUE /\ UNCHANGED <<last, detections, final>>
      BY <1>2, EngineAssumption DEF HeartbeatAgain, Arrives, TypeOK, Free
    <2>2. Grows /\ Accounted(r, last) /\ last \in SUBSET Vectors
      BY <2>1 DEF Grows, Accounted, TypeOK
    <2>3. QED
      BY <2>1, <2>2
  <1>3. CASE VpnReport(r, "vpnWarning")
    <2>1. /\ req[r] = Free /\ Find(r, "vpnWarning", {Vpn}) /\ posts' \in 0..MaxPosts
          /\ detections' = Bump(detections, Vpn) /\ UNCHANGED <<last, repeated, final>>
      BY <1>3, EngineAssumption DEF VpnReport, Arrives, TypeOK
    <2>2. /\ detections' \in [Vectors -> 0..2] /\ {Vpn} \in SUBSET Vectors
          /\ \A v \in {Vpn} : detections'[v] = Bump(detections, v)[v]
          /\ \A v \in Vectors \ {Vpn} : detections'[v] = detections[v]
      BY <2>1, BumpFacts, EngineAssumption DEF TypeOK
    <2>3. Grows /\ Accounted(r, {Vpn})
      BY <2>1, <2>2, BumpAccounts
    <2>4. QED
      BY <2>1, <2>2, <2>3 DEF TypeOK, Free
  <1>4. CASE VpnReport(r, "vpnFailed")
    <2>1. /\ req[r].pc = "free" /\ Find(r, "vpnFailed", {Vpn}) /\ posts' \in 0..MaxPosts
          /\ final' = (final \/ "vpnFailed" = "vpnFailed")
          /\ UNCHANGED <<last, repeated, detections>>
      BY <1>4, EngineAssumption DEF VpnReport, Arrives, TypeOK, Free
    <2>a. final' /\ final' \in BOOLEAN
      BY <2>1, Zenon
    <2>2. Grows /\ {Vpn} \in SUBSET Vectors /\ last \subseteq Vectors
      BY <2>1, <2>a, EngineAssumption DEF Grows, TypeOK
    <2>3. QED
      BY <2>1, <2>a, <2>2
  <1>5. CASE NextVector(r)
    <2>1. /\ req[r].pc = "next" /\ Find(r, "heartbeat", req[r].todo)
          /\ UNCHANGED <<posts, last, detections, final, repeated>>
      BY <1>5 DEF NextVector
    <2>2. Grows /\ req[r].todo \in SUBSET Vectors
      BY <2>1, RequestFacts DEF Grows, TypeOK
    <2>3. Accounted(r, req[r].todo)
      BY <2>1, <2>2 DEF Accounted, DetectionInv, Waiting, Earned
    <2>4. QED
      BY <2>1, <2>2, <2>3 DEF TypeOK
  <1>6. QED
    BY <1>1, <1>2, <1>3, <1>4, <1>5 DEF Looks

-----------------------------------------------------------------------------
(* Steps *)

\* A look either ends the vector or leaves a request that saves.
LookEffect(r, new, v, todo) ==
    /\ new \in Challenge /\ v \in Vectors /\ todo \in SUBSET Vectors
    /\ req' = [req EXCEPT ![r] = Saving(new, v, todo)]
    /\ \/ db.status = "active" /\ db.warnings[v] = 0 /\ new = Warned(db, v)
       \/ new = Terminated(db, v) /\ Earned(v)'
    /\ hazard' = {} => ~Busy(r) /\ db.status = "active"

LEMMA LookFacts ==
    ASSUME IInv, NEW r \in Requests, Looks(r)
    PROVE  /\ UNCHANGED <<db, cron, due, ahead, crashes, refunds, warnMails, told>>
           /\ hazard' \subseteq {"overlap", "late"} /\ hazard \subseteq hazard'
           /\ Grows /\ DetectionInv'
           /\ posts' \in 0..MaxPosts /\ last' \subseteq Vectors
           /\ ~Working(r)
           /\ \/ \E todo \in SUBSET Vectors :
                   req' = [req EXCEPT ![r] = Rest(todo)] /\ hazard' = hazard
              \/ \E new, v, todo : LookEffect(r, new, v, todo)
  <1>1. PICK kind \in {"heartbeat", "vpnWarning", "vpnFailed"}, todo \in SUBSET Vectors :
          /\ kind = "vpnFailed" => todo = {Vpn} /\ final'
          /\ req[r].pc \in {"free", "next"} /\ Find(r, kind, todo)
          /\ Grows /\ (kind = "vpnFailed" \/ Accounted(r, todo))
          /\ posts' \in 0..MaxPosts /\ last' \subseteq Vectors
    BY LookCases DEF IInv
  <1>2. /\ UNCHANGED <<db, cron, due, ahead, crashes, refunds, warnMails, told>>
        /\ hazard' \subseteq {"overlap", "late"} /\ hazard \subseteq hazard'
        /\ \E v \in todo :
             \/ FindSkips(r, v, todo)
             \/ /\ hazard' = {} => ~Busy(r)
                /\ FindWarns(r, v, todo) \/ FindTerminates(r, kind, v, todo)
    BY <1>1, FindCases DEF IInv
  <1>3. PICK v \in todo :
          \/ FindSkips(r, v, todo)
          \/ /\ hazard' = {} => ~Busy(r)
             /\ FindWarns(r, v, todo) \/ FindTerminates(r, kind, v, todo)
    BY <1>2
  <1>4. DetectionInv'
    BY <1>1, <1>2, <1>3, LookKeepsAccount DEF IInv
  <1>5. db \in Challenge /\ v \in Vectors
    BY DEF IInv, TypeOK
  <1>6. ASSUME FindTerminates(r, kind, v, todo)
        PROVE  Earned(v)'
    <2>1. CASE kind = "vpnFailed"
      BY <1>1, <2>1 DEF Earned
    <2>2. CASE kind # "vpnFailed"
      BY <1>1, <1>6, <2>2 DEF FindTerminates, Touched, Accounted, Earned
    <2>3. QED
      BY <2>1, <2>2
  <1>7. CASE FindSkips(r, v, todo)
    BY <1>1, <1>2, <1>4, <1>7 DEF FindSkips, Working
  <1>8. CASE (hazard' = {} => ~Busy(r)) /\ FindWarns(r, v, todo)
    <2>1. LookEffect(r, Warned(db, v), v, todo \ {v})
      BY <1>5, <1>8, WarnedFacts DEF FindWarns, LookEffect
    <2>2. QED
      BY <1>1, <1>2, <1>4, <2>1 DEF Working
  <1>9. CASE (hazard' = {} => ~Busy(r)) /\ FindTerminates(r, kind, v, todo)
    <2>1. LookEffect(r, Terminated(db, v), v, todo \ {v})
      BY <1>5, <1>6, <1>9, TerminatedFacts DEF FindTerminates, LookEffect
    <2>2. QED
      BY <1>1, <1>2, <1>4, <2>1 DEF Working
  <1>10. QED
    BY <1>3, <1>7, <1>8, <1>9

LEMMA NotBusy ==
    ASSUME NEW r \in Requests, ~Busy(r)
    PROVE  cron.pc = "idle" /\ \A s \in Requests \ {r} : ~Working(s)
  BY DEF Busy, Working

\* Steps that start nothing and leave the document alone keep the books.
LEMMA BooksKept ==
    ASSUME BooksInv, UNCHANGED <<db, refunds, told, warnMails>>, hazard \subseteq hazard'
    PROVE  BooksInv'
  <1>1. hazard' = {} => hazard = {}
    OBVIOUS
  <1>2. QED
    BY <1>1 DEF BooksInv, BooksAgree

LEMMA LookSafe ==
    ASSUME IInv, NEW r \in Requests, Looks(r)
    PROVE  IInv'
  <1>1. /\ UNCHANGED <<db, cron, due, ahead, crashes, refunds, warnMails, told>>
        /\ hazard' \subseteq {"overlap", "late"} /\ hazard \subseteq hazard'
        /\ Grows /\ DetectionInv'
        /\ posts' \in 0..MaxPosts /\ last' \subseteq Vectors
        /\ ~Working(r)
    BY LookFacts
  <1>2. RefundInv'
    BY <1>1 DEF IInv, RefundInv, AtMostOneRefund
  <1>3. BooksInv'
    BY <1>1, BooksKept DEF IInv
  <1>4. \A v \in Vectors : Earned(v) => Earned(v)'
    BY <1>1, EarnedGrows DEF IInv
  <1>5. TypeOK /\ CauseInv /\ AloneInv /\ Shaped
    BY DEF IInv
  <1>6. ASSUME NEW todo \in SUBSET Vectors, req' = [req EXCEPT ![r] = Rest(todo)]
        PROVE  IInv'
    <2>1. /\ req'[r].pc \in {"free", "next"} /\ ~Working(r)'
          /\ \A s \in Requests \ {r} : req'[s] = req[s]
      BY <1>5, <1>6, RestFacts DEF TypeOK, Working
    <2>2. TypeOK'
      BY <1>1, <1>5, <1>6, RestFacts DEF TypeOK, Grows
    <2>3. Shaped'
      BY <1>1, <1>5, <2>1 DEF Shaped, SaveShaped, PayShaped
    <2>4. CauseInv'
      <3>1. \A s \in Requests : Working(s)' => Working(s) /\ req'[s] = req[s]
        BY <2>1 DEF Working
      <3>2. QED
        BY <1>1, <1>4, <1>5, <3>1, RequestFacts DEF CauseInv, CauseSound, Challenge, TypeOK
    <2>5. AloneInv'
      <3>1. \A s \in Requests : Working(s)' => Working(s) /\ req'[s] = req[s]
        BY <2>1 DEF Working
      <3>2. hazard' = {} => hazard = {}
        BY <1>1
      <3>3. QED
        BY <1>1, <1>5, <3>1, <3>2 DEF AloneInv
    <2>6. QED
      BY <1>1, <1>2, <1>3, <2>2, <2>3, <2>4, <2>5 DEF IInv
  <1>7. ASSUME NEW new, NEW v, NEW todo, LookEffect(r, new, v, todo)
        PROVE  IInv'
    <2>1. /\ req'[r] = Saving(new, v, todo) /\ Working(r)'
          /\ \A s \in Requests \ {r} : req'[s] = req[s] /\ (Working(s)' => Working(s))
      BY <1>5, <1>7 DEF TypeOK, LookEffect, Working, Saving
    <2>2. TypeOK'
      BY <1>1, <1>5, <1>7, SavingFacts DEF TypeOK, Grows, LookEffect
    <2>3. Shaped'
      <3>1. SaveShaped(req'[r]) /\ req'[r].pc = "save"
        BY <1>7, <2>1 DEF SaveShaped, Saving, LookEffect
      <3>2. QED
        BY <1>1, <1>5, <2>1, <3>1 DEF Shaped, SaveShaped, PayShaped
    <2>4. CauseInv'
      <3>1. CauseSound(req[r])'
        <4>1. req'[r].copy = db /\ req'[r].new = new
          BY <2>1 DEF Saving
        <4>2. CASE new = Warned(db, v) /\ db.status = "active"
          <5>1. new.cause = db.cause /\ new.status = "active"
            BY <1>5, <1>7, <4>2, WarnedFacts DEF TypeOK, LookEffect
          <5>2. db.cause # None => db.cause \in Vectors /\ Earned(db.cause)
            BY <1>5 DEF CauseInv, TypeOK, Challenge
          <5>3. db.cause # None => Earned(db.cause)'
            BY <1>1, <1>4, <5>2
          <5>4. QED
            BY <1>1, <4>1, <5>1, <5>3 DEF CauseSound, Earned
        <4>3. CASE new = Terminated(db, v) /\ Earned(v)'
          <5>0. db \in Challenge /\ v \in Vectors /\ v # None
            BY <1>5, <1>7, EngineAssumption DEF LookEffect, TypeOK
          <5>1. new.cause = v
            BY <4>3, <5>0, TerminatedFacts
          <5>2. db.cause # None => db'.cause # None
            BY <1>1
          <5>3. QED
            BY <4>1, <4>3, <5>0, <5>1, <5>2 DEF CauseSound, Earned
        <4>4. QED
          BY <1>7, <4>2, <4>3 DEF LookEffect
      <3>2. ASSUME NEW s \in Requests \ {r}, Working(s)'
            PROVE  CauseSound(req[s])'
        BY <1>1, <1>4, <1>5, <2>1, <3>2, RequestFacts DEF CauseInv, CauseSound, Challenge
      <3>3. /\ (db.cause # None => Earned(db.cause))'
            /\ (db.status = "terminated" => db.cause # None)'
        BY <1>1, <1>4, <1>5 DEF CauseInv, TypeOK, Challenge
      <3>4. QED
        BY <3>1, <3>2, <3>3 DEF CauseInv
    <2>5. AloneInv'
      <3>1. SUFFICES ASSUME hazard' = {}
                     PROVE  AloneInv'
        BY DEF AloneInv
      <3>2. /\ cron.pc = "idle" /\ db.status = "active"
            /\ \A s \in Requests \ {r} : ~Working(s)
        BY <1>7, <3>1, NotBusy DEF LookEffect
      <3>3. req'[r].copy = db' /\ req'[r].pc = "save"
        BY <1>1, <2>1 DEF Saving
      <3>4. QED
        BY <1>1, <2>1, <3>2, <3>3 DEF AloneInv
    <2>6. QED
      BY <1>1, <1>2, <1>3, <2>2, <2>3, <2>4, <2>5 DEF IInv
  <1>8. QED
    BY <1>6, <1>7, LookFacts

\* The end of a handler's work on a copy: the request goes on or is done.
Ends(r) ==
    /\ req' = [req EXCEPT ![r] = Free]
       \/ (req[r].pc = "save" /\ req' = [req EXCEPT ![r] = Rest(@.todo)])
    /\ UNCHANGED <<cron, worldVars, detections, final, repeated, refunds, hazard>>

LEMMA EndFacts ==
    ASSUME IInv, NEW r \in Requests, Working(r), Ends(r)
    PROVE  /\ req' \in [Requests -> Request] /\ ~Working(r)'
           /\ Waiting(r)' \subseteq Waiting(r)
           /\ req'[r].pc # "save"
           /\ \A s \in Requests \ {r} : req'[s] = req[s] /\ Waiting(s)' = Waiting(s)
           /\ \A s \in Requests : Working(s)' => s # r /\ Working(s)
           /\ Shaped'
  <1>1. req \in [Requests -> Request] /\ Free \in Request
    BY DEF IInv, TypeOK, Request, Free
  <1>2. CASE req' = [req EXCEPT ![r] = Free]
    <2>1. req'[r] = Free /\ \A s \in Requests \ {r} : req'[s] = req[s]
      BY <1>1, <1>2
    <2>2. req' \in [Requests -> Request]
      BY <1>1, <1>2
    <2>3. req'[r].pc = "free"
      BY <2>1 DEF Free
    <2>4. Shaped'
      <3>1. Shaped /\ cron' = cron
        BY DEF IInv, Ends
      <3>2. QED
        BY <2>1, <2>3, <3>1 DEF Shaped, SaveShaped, PayShaped
    <2>5. QED
      BY <2>1, <2>2, <2>3, <2>4 DEF Working, Waiting
  <1>3. CASE req[r].pc = "save" /\ req' = [req EXCEPT ![r] = Rest(@.todo)]
    <2>1. req[r].todo \in SUBSET Vectors
      BY <1>3, RequestFacts DEF IInv
    <2>2. /\ req'[r] = Rest(req[r].todo) /\ req'[r] \in Request
          /\ \A s \in Requests \ {r} : req'[s] = req[s]
      BY <1>1, <1>3, <2>1, RestFacts
    <2>3. /\ req'[r].pc \in {"free", "next"}
          /\ req'[r].pc = "next" => req'[r].todo = req[r].todo
      BY <2>1, <2>2, RestFacts
    <2>4. req' \in [Requests -> Request]
      BY <1>1, <1>3, <2>1, RestFacts
    <2>5. Shaped'
      <3>1. Shaped /\ cron' = cron
        BY DEF IInv, Ends
      <3>2. QED
        BY <2>2, <2>3, <3>1 DEF Shaped, SaveShaped, PayShaped
    <2>6. QED
      BY <1>3, <2>2, <2>3, <2>4, <2>5 DEF Working, Waiting
  <1>4. QED
    BY <1>2, <1>3 DEF Ends

\* What a save of shaped work does to the document, hazards or not.
SavedSoundly(r) ==
    /\ db' \in Challenge
    /\ db.status # "active" => db'.status # "active"
    /\ \A v \in Vectors : db'.warnings[v] # 0 => Touched(v)
    /\ db.cause # None => db'.cause # None
    /\ (db.cause # None => Earned(db.cause))'
    /\ (db.status = "terminated" => db.cause # None)'

\* Everything but the books survives such a save.
LEMMA EndSafe ==
    ASSUME IInv, NEW r \in Requests, Working(r), Ends(r), SavedSoundly(r),
           warnMails' \in [Vectors -> 0..2], told' \subseteq {"terminated", "refunded"},
           BooksInv'
    PROVE  IInv'
  <1>1. /\ req' \in [Requests -> Request] /\ ~Working(r)'
        /\ Waiting(r)' \subseteq Waiting(r)
        /\ req'[r].pc # "save"
        /\ \A s \in Requests \ {r} : req'[s] = req[s] /\ Waiting(s)' = Waiting(s)
        /\ \A s \in Requests : Working(s)' => s # r /\ Working(s)
        /\ Shaped'
    BY EndFacts
  <1>2. /\ UNCHANGED <<cron, due, ahead, posts, crashes, last>>
        /\ UNCHANGED <<detections, final, repeated, refunds, hazard>>
    BY DEF Ends, worldVars
  <1>3. TypeOK'
    BY <1>1, <1>2 DEF IInv, TypeOK, SavedSoundly
  <1>4. RefundInv'
    BY <1>2 DEF IInv, RefundInv, AtMostOneRefund, SavedSoundly
  <1>5. DetectionInv'
    <2>1. ASSUME NEW v \in Vectors, Touched(v)'
          PROVE  Touched(v)
      BY <1>1, <2>1 DEF Touched, SavedSoundly
    <2>2. \A s \in Requests : Waiting(s)' \subseteq Waiting(s)
      BY <1>1
    <2>3. QED
      BY <1>2, <2>1, <2>2 DEF IInv, DetectionInv, Earned
  <1>6. CauseInv'
    <2>1. ASSUME NEW s \in Requests, Working(s)'
          PROVE  CauseSound(req[s])'
      <3>1. CauseSound(req[s]) /\ req'[s] = req[s]
        BY <1>1, <2>1 DEF IInv, CauseInv
      <3>2. QED
        BY <1>2, <3>1 DEF CauseSound, Earned, SavedSoundly
    <2>2. QED
      BY <2>1 DEF CauseInv, SavedSoundly
  <1>7. AloneInv'
    BY <1>1, <1>2 DEF IInv, AloneInv
  <1>8. QED
    BY <1>1, <1>3, <1>4, <1>5, <1>6, <1>7 DEF IInv

LEMMA SaveSound ==
    ASSUME IInv, NEW r \in Requests, req[r].pc = "save",
           db' = Saved(req[r].copy, req[r].new, {"warnings"}),
           UNCHANGED <<detections, final, repeated>>
    PROVE  SavedSoundly(r)
  <1> DEFINE w == req[r]
  <1>1. /\ db \in Challenge /\ w.copy \in Challenge /\ w.new \in Challenge
        /\ w.vector \in Vectors /\ SaveShaped(w) /\ CauseSound(w)
    BY RequestFacts DEF IInv, TypeOK, Shaped, CauseInv, Working
  <1>2. /\ db' \in Challenge
        /\ db'.status = IF w.new.status # w.copy.status THEN w.new.status ELSE db.status
        /\ db'.warnings = w.new.warnings
        /\ db'.cause = IF w.new.cause # w.copy.cause THEN w.new.cause ELSE db.cause
    BY <1>1, SavedFacts
  <1>3. \/ w.new.status = w.copy.status /\ w.new.cause = w.copy.cause
        \/ w.new.status = "terminated" /\ w.new.cause = w.vector
    <2>1. w.new = Warned(w.copy, w.vector) \/ w.new = Terminated(w.copy, w.vector)
      BY <1>1 DEF SaveShaped
    <2> HIDE DEF w
    <2>2. QED
      BY <1>1, <2>1, ShapeFacts
  <1>4. \A v \in Vectors : db'.warnings[v] # 0 => Touched(v)
    BY <1>2 DEF Touched
  <1>5. w.vector # None
    BY <1>1, EngineAssumption
  <1>6. db.cause # None => db'.cause # None
    BY <1>2, <1>3, <1>5
  <1>7. (db.cause # None => Earned(db.cause))'
    <2>1. CASE db'.cause = db.cause
      BY <2>1 DEF IInv, CauseInv, Earned
    <2>2. CASE db'.cause = w.new.cause
      BY <1>1, <2>2 DEF CauseSound, Earned
    <2>3. QED
      BY <1>2, <2>1, <2>2
  <1>8. (db.status = "terminated" => db.cause # None)'
    BY <1>1, <1>2, <1>3, <1>5, <1>6 DEF IInv, CauseInv, CauseSound
  <1>9. QED
    BY <1>2, <1>3, <1>4, <1>6, <1>7, <1>8 DEF SavedSoundly

\* Alone, a handler replaces the document it read.
LEMMA SaveBooks ==
    ASSUME IInv, NEW r \in Requests, NEW w, w = req[r], w.pc = "save", NEW v, v = w.vector,
           db' = Saved(w.copy, w.new, {"warnings"}), UNCHANGED <<refunds, hazard>>,
           \/ UNCHANGED <<warnMails, told>>
           \/ IF w.new.warnings[v] = 2
                THEN told' = told \cup {"terminated"} /\ UNCHANGED warnMails
                ELSE warnMails' = Bump(warnMails, v) /\ UNCHANGED told
    PROVE  BooksInv'
  <1> SUFFICES ASSUME hazard' = {}
               PROVE  BooksInv'
    BY DEF BooksInv, BooksAgree
  <1>1. /\ w.copy = db /\ db.status = "active" /\ w.new \in Challenge /\ db \in Challenge
        /\ v \in Vectors /\ SaveShaped(w) /\ warnMails \in [Vectors -> 0..2]
    BY RequestFacts DEF IInv, AloneInv, TypeOK, Shaped, Working
  <1>2. db' = w.new
    BY <1>1, SavedWhole
  <1>3. /\ refunds' # 1 /\ refunds' = refunds /\ db.deposit # "forfeited"
        /\ db.deposit # "refunded" /\ "refunded" \notin told /\ "terminated" \notin told
        /\ db.payment => db.deposit # "pending"
        /\ \A u \in Vectors : warnMails[u] <= 1 /\ (warnMails[u] # 0 => db.warnings[u] # 0)
    BY <1>1 DEF IInv, BooksInv, BooksAgree
  <1>4. CASE w.new = Warned(db, v) /\ db.warnings[v] = 0
    <2>1. /\ db'.status = "active" /\ db'.deposit = db.deposit /\ db'.payment = db.payment
          /\ db'.warnings = [db.warnings EXCEPT ![v] = 1] /\ db'.warnings[v] = 1
      BY <1>1, <1>2, <1>4, WarnedDoc
    <2>2. told' = told /\ (warnMails' = warnMails \/ warnMails' = Bump(warnMails, v))
      <3>1. w.new.warnings[v] = 1
        BY <1>2, <2>1
      <3>2. ~(w.new.warnings[v] = 2)
        BY <3>1
      <3>3. QED
        BY <3>2
    <2>3. \A u \in Vectors : warnMails'[u] <= 1 /\ (warnMails'[u] # 0 => db'.warnings[u] # 0)
      BY <1>1, <1>3, <1>4, <2>1, <2>2, MailsAgree, WarningsType
    <2>4. QED
      BY <1>3, <2>1, <2>2, <2>3 DEF BooksInv, BooksAgree
  <1>5. CASE w.new = Terminated(db, v)
    <2>1. /\ db'.status = "terminated" /\ db'.deposit = "forfeited"
          /\ db'.warnings = [db.warnings EXCEPT ![v] = 2] /\ db'.warnings[v] = 2
      BY <1>1, <1>2, <1>5, TerminatedDoc
    <2>2. told' \subseteq told \cup {"terminated"} /\ warnMails' = warnMails
      BY <1>2, <2>1
    <2>3. \A u \in Vectors : warnMails'[u] <= 1 /\ (warnMails'[u] # 0 => db'.warnings[u] # 0)
      BY <1>1, <1>3, <2>1, <2>2, WarningsType
    <2>4. QED
      BY <1>3, <2>1, <2>2, <2>3 DEF BooksInv, BooksAgree
  <1>6. QED
    BY <1>1, <1>4, <1>5 DEF SaveShaped

LEMMA SaveSafe ==
    ASSUME IInv, NEW r \in Requests, Save(r)
    PROVE  IInv'
  <1>1. /\ req[r].pc = "save" /\ Working(r) /\ Ends(r)
        /\ db' = Saved(req[r].copy, req[r].new, {"warnings"})
    BY DEF Save, Ends, Working
  <1>2. \/ UNCHANGED <<warnMails, told>>
        \/ IF req[r].new.warnings[req[r].vector] = 2
             THEN told' = told \cup {"terminated"} /\ UNCHANGED warnMails
             ELSE warnMails' = Bump(warnMails, req[r].vector) /\ UNCHANGED told
    BY DEF Save
  <1>3. SavedSoundly(r)
    BY <1>1, SaveSound DEF Ends
  <1>4. BooksInv'
    BY <1>1, <1>2, SaveBooks DEF Ends
  <1>5. warnMails' \in [Vectors -> 0..2] /\ told' \subseteq {"terminated", "refunded"}
    <2>1. /\ req[r].vector \in Vectors /\ warnMails \in [Vectors -> 0..2]
          /\ told \subseteq {"terminated", "refunded"}
      BY <1>1, RequestFacts DEF IInv, TypeOK
    <2>2. Bump(warnMails, req[r].vector) \in [Vectors -> 0..2]
      BY <2>1, BumpFacts
    <2>3. QED
      BY <1>2, <2>1, <2>2
  <1>6. QED
    BY <1>1, <1>3, <1>4, <1>5, EndSafe

LEMMA SavePaymentSafe ==
    ASSUME IInv, NEW r \in Requests, SavePayment(r)
    PROVE  IInv'
  <1> DEFINE w == req[r]
  <1>1. /\ w.pc = "pay" /\ Working(r) /\ Ends(r)
        /\ db' = Saved(w.copy, w.new, {})
        /\ UNCHANGED <<warnMails, told, refunds, hazard, detections, final, repeated>>
    BY DEF SavePayment, Ends, Working, historyVars
  <1>2. /\ db \in Challenge /\ w.copy \in Challenge /\ w.new \in Challenge
        /\ w.new = [w.copy EXCEPT !.payment = TRUE, !.deposit = "locked"]
    BY <1>1, RequestFacts DEF IInv, TypeOK, Shaped, PayShaped
  <1>3. /\ w.new.status = w.copy.status /\ w.new.cause = w.copy.cause
        /\ w.new.warnings = w.copy.warnings
        /\ w.new.payment = TRUE /\ w.new.deposit = "locked"
    BY <1>2 DEF Challenge
  <1>4. /\ db' \in Challenge /\ db'.status = db.status /\ db'.cause = db.cause
        /\ db'.warnings = db.warnings
    <2>1. db' = Saved(w.copy, w.new, {})
      BY <1>1
    <2> HIDE DEF w
    <2>2. /\ Saved(w.copy, w.new, {}) \in Challenge
          /\ Saved(w.copy, w.new, {}).status = db.status
          /\ Saved(w.copy, w.new, {}).cause = db.cause
          /\ Saved(w.copy, w.new, {}).warnings = db.warnings
      BY <1>2, <1>3, SavedKeeps
    <2>3. QED
      BY <2>1, <2>2
  <1>5. SavedSoundly(r)
    BY <1>1, <1>4 DEF SavedSoundly, Touched, IInv, CauseInv, Earned
  <1>6. BooksInv'
    <2> SUFFICES ASSUME hazard' = {}
                 PROVE  BooksInv'
      BY DEF BooksInv, BooksAgree
    <2>1. w.copy = db /\ db.deposit = "pending"
      BY <1>1 DEF IInv, AloneInv
    <2>2. db' = w.new
      BY <1>1, <1>2, <2>1, SavedWhole
    <2>3. db'.deposit = "locked"
      BY <1>3, <2>2
    <2>4. QED
      BY <1>1, <1>4, <2>1, <2>3 DEF IInv, BooksInv, BooksAgree
  <1>7. QED
    BY <1>1, <1>5, <1>6, EndSafe DEF IInv, TypeOK

LEMMA VerifySafe ==
    ASSUME IInv, NEW r \in Requests, Verify(r)
    PROVE  IInv'
  <1> DEFINE paid == [db EXCEPT !.payment = TRUE, !.deposit = "locked"]
             w == [pc |-> "pay", copy |-> db, new |-> paid]
  <1>1. /\ req[r] = Free /\ req' = [req EXCEPT ![r] = w]
        /\ UNCHANGED <<db, cron, due, ahead, crashes, last, detections, final, repeated,
                      refunds, warnMails, told>>
        /\ posts' \in 0..MaxPosts
    BY EngineAssumption DEF Verify, Arrives, IInv, TypeOK
  <1>2. /\ hazard' = hazard \cup (IF Busy(r) THEN {"overlap"} ELSE {}) \cup
                      (IF db.deposit # "pending" THEN {"late"} ELSE {})
    BY DEF Verify
  <1>3. /\ hazard' \subseteq {"overlap", "late"} /\ hazard \subseteq hazard'
        /\ hazard' = {} => ~Busy(r) /\ db.deposit = "pending"
    BY <1>2 DEF IInv, TypeOK
  <1>4. db \in Challenge /\ paid \in Challenge /\ req \in [Requests -> Request]
    BY PaidFacts DEF IInv, TypeOK
  <1>5. w \in Request
    BY <1>4 DEF Request
  <1>6. /\ req' \in [Requests -> Request] /\ req'[r] = w
        /\ \A s \in Requests \ {r} : req'[s] = req[s]
    BY <1>1, <1>4, <1>5
  <1>7. req[r].pc = "free" /\ req'[r].pc = "pay" /\ req'[r].copy = db /\ req'[r].new = paid
    BY <1>1, <1>6 DEF Free
  <1>8. paid.status = db.status /\ paid.cause = db.cause
    BY <1>4 DEF Challenge
  <1> HIDE DEF w
  <1>9. TypeOK'
    BY <1>1, <1>3, <1>6 DEF IInv, TypeOK
  <1>10. Shaped'
    <2>1. PayShaped(req[r])'
      BY <1>7 DEF PayShaped
    <2>2. Shaped
      BY DEF IInv
    <2>3. QED
      BY <1>1, <1>6, <1>7, <2>1, <2>2 DEF Shaped, SaveShaped, PayShaped
  <1>11. RefundInv'
    BY <1>1 DEF IInv, RefundInv, AtMostOneRefund
  <1>12. DetectionInv'
    <2>1. \A s \in Requests : Waiting(s)' = Waiting(s)
      BY <1>6, <1>7 DEF Waiting
    <2>2. \A v \in Vectors : Touched(v)' => Touched(v)
      BY <1>1, <1>6, <1>7 DEF Touched
    <2>3. QED
      BY <1>1, <2>1, <2>2 DEF IInv, DetectionInv, Earned
  <1> HIDE DEF paid
  <1>13. CauseInv'
    <2>1. CauseSound(req[r])'
      BY <1>1, <1>7, <1>8 DEF IInv, CauseInv, CauseSound, Earned
    <2>2. ASSUME NEW s \in Requests \ {r}, Working(s)'
          PROVE  CauseSound(req[s])'
      <3>1. CauseSound(req[s]) /\ req'[s] = req[s]
        BY <1>6, <2>2 DEF IInv, CauseInv, Working
      <3>2. QED
        BY <1>1, <3>1 DEF CauseSound, Earned
    <2>3. QED
      BY <1>1, <2>1, <2>2 DEF IInv, CauseInv, Earned
  <1>14. AloneInv'
    <2> SUFFICES ASSUME hazard' = {}
                 PROVE  AloneInv'
      BY DEF AloneInv
    <2>1. cron.pc = "idle" /\ db.deposit = "pending" /\ \A s \in Requests \ {r} : ~Working(s)
      BY <1>3, NotBusy
    <2>2. \A s \in Requests : Working(s)' => s = r
      BY <1>6, <2>1 DEF Working
    <2>3. QED
      BY <1>1, <1>7, <2>1, <2>2 DEF AloneInv
  <1>15. BooksInv'
    BY <1>1, <1>3, BooksKept DEF IInv
  <1>16. QED
    BY <1>9, <1>10, <1>11, <1>12, <1>13, <1>14, <1>15 DEF IInv

-----------------------------------------------------------------------------
(* The job *)

\* The job changes neither warnings nor causes.
LEMMA JobKeeps ==
    ASSUME IInv, UNCHANGED <<req, detections, final, repeated>>,
           db'.warnings = db.warnings, db'.cause = db.cause,
           db'.status = "terminated" => db.status = "terminated"
    PROVE  DetectionInv' /\ CauseInv'
  <1>1. DetectionInv /\ CauseInv
    BY DEF IInv
  <1>2. DetectionInv'
    BY <1>1 DEF DetectionInv, Touched, Waiting, Earned
  <1>3. CauseInv'
    BY <1>1 DEF CauseInv, CauseSound, Working, Earned
  <1>4. QED
    BY <1>2, <1>3

LEMMA CronTypes ==
    ASSUME NEW pc \in {"loop", "refund", "refunded"}, NEW doc \in Challenge
    PROVE  [pc |-> pc, copy |-> doc]
             \in [pc : {"idle"}] \cup [pc : {"loop", "refund", "refunded"}, copy : Challenge]
  OBVIOUS

LEMMA CronFacts ==
    ASSUME TypeOK
    PROVE  /\ cron.pc \in {"idle", "loop", "refund", "refunded"}
           /\ cron.pc # "idle" => cron.copy \in Challenge
  BY DEF TypeOK

LEMMA CronFindSafe ==
    ASSUME IInv, CronFind
    PROVE  IInv'
  <1>1. /\ cron.pc = "idle" /\ db.status = "active" /\ db \in Challenge
        /\ cron' = [pc |-> "loop", copy |-> db]
        /\ UNCHANGED <<db, req, due, ahead, posts, crashes, last, detections, final, repeated,
                      refunds, warnMails, told>>
        /\ hazard' \subseteq {"overlap", "late"} /\ hazard \subseteq hazard'
    BY DEF CronFind, Idle, IInv, TypeOK, worldVars
  <1>2. hazard' = {} => \A r \in Requests : ~Working(r)
    BY DEF CronFind, Working
  <1>3. cron'.pc = "loop" /\ cron'.copy = db
    BY <1>1
  <1>4. TypeOK'
    BY <1>1, CronTypes DEF IInv, TypeOK
  <1>5. Shaped'
    BY <1>1, <1>3 DEF IInv, Shaped, SaveShaped, PayShaped
  <1>6. RefundInv'
    BY <1>1, <1>3 DEF IInv, RefundInv, AtMostOneRefund, TypeOK
  <1>7. DetectionInv' /\ CauseInv'
    BY <1>1, JobKeeps
  <1>8. AloneInv'
    BY <1>1, <1>2, <1>3 DEF AloneInv, Working
  <1>9. BooksInv'
    BY <1>1, BooksKept DEF IInv
  <1>10. QED
    BY <1>4, <1>5, <1>6, <1>7, <1>8, <1>9 DEF IInv

\* The job, or the server, stops.
LEMMA CronStopsSafe ==
    ASSUME IInv, cron' = Idle, ahead' \in 0..Others,
           UNCHANGED <<db, req, due, posts, crashes, last, detections, final, repeated,
                       refunds, warnMails, told, hazard>>
    PROVE  IInv'
  <1>1. cron'.pc = "idle" /\ cron' \in [pc : {"idle"}]
    BY DEF Idle
  <1>2. TypeOK'
    BY <1>1 DEF IInv, TypeOK
  <1>3. Shaped'
    BY <1>1 DEF IInv, Shaped, SaveShaped, PayShaped
  <1>4. RefundInv'
    BY <1>1 DEF IInv, RefundInv, AtMostOneRefund
  <1>5. DetectionInv' /\ CauseInv'
    BY JobKeeps
  <1>6. AloneInv'
    BY <1>1 DEF IInv, AloneInv, Working
  <1>7. BooksInv'
    BY BooksKept DEF IInv
  <1>8. QED
    BY <1>2, <1>3, <1>4, <1>5, <1>6, <1>7 DEF IInv

LEMMA CronCompletesSafe ==
    ASSUME IInv, CronCompletes
    PROVE  IInv'
  <1>1. PICK new : /\ new = [cron.copy EXCEPT !.status = "completed"]
                   /\ db' = Saved(cron.copy, new, {})
                   /\ cron' = [pc |-> "refund", copy |-> new]
    BY DEF CronCompletes
  <1>2. /\ cron.pc = "loop" /\ due
        /\ UNCHANGED <<req, due, ahead, posts, crashes, last, detections, final, repeated,
                      refunds, warnMails, told, hazard>>
    BY DEF CronCompletes, worldVars, historyVars
  <1>3. cron.copy \in Challenge /\ db \in Challenge /\ cron.copy.status = "active"
    BY <1>2, CronFacts DEF IInv, TypeOK, Shaped
  <1>4. /\ new \in Challenge /\ new.status = "completed"
        /\ new.warnings = cron.copy.warnings /\ new.cause = cron.copy.cause
        /\ new.deposit = cron.copy.deposit /\ new.payment = cron.copy.payment
    BY <1>1, <1>3 DEF Challenge
  <1>5. /\ db' \in Challenge /\ db'.status = "completed"
        /\ db'.warnings = db.warnings /\ db'.cause = db.cause
    BY <1>1, <1>3, <1>4, SavedKeeps
  <1>6. cron'.pc = "refund" /\ cron'.copy = new
    BY <1>1
  <1>7. TypeOK'
    BY <1>1, <1>2, <1>4, <1>5, CronTypes DEF IInv, TypeOK
  <1>8. Shaped'
    BY <1>2, <1>4, <1>6 DEF IInv, Shaped, SaveShaped, PayShaped
  <1>9. RefundInv'
    BY <1>2, <1>5, <1>6 DEF IInv, RefundInv, AtMostOneRefund
  <1>10. DetectionInv' /\ CauseInv'
    BY <1>2, <1>5, JobKeeps
  <1>11. hazard = {} => db' = new /\ cron.copy = db /\ \A r \in Requests : ~Working(r)
    BY <1>1, <1>2, <1>3, <1>4, SavedWhole DEF IInv, AloneInv
  <1>12. AloneInv'
    BY <1>2, <1>6, <1>11 DEF AloneInv, Working
  <1>13. BooksInv'
    BY <1>2, <1>3, <1>4, <1>5, <1>11 DEF IInv, BooksInv, BooksAgree, RefundInv
  <1>14. QED
    BY <1>7, <1>8, <1>9, <1>10, <1>12, <1>13 DEF IInv

\* The job records an outcome of the refund and is done with the challenge.
LEMMA CronClosesSafe ==
    ASSUME IInv, cron.pc \in {"refund", "refunded"}, cron' = Idle,
           NEW outcome \in {"refunded", "refund_pending_review"},
           db' = Saved(cron.copy, [cron.copy EXCEPT !.deposit = outcome], {}),
           outcome = "refunded" <=> cron.pc = "refunded",
           told' \in {told, told \cup {"refunded"}}, outcome # "refunded" => told' = told,
           UNCHANGED <<req, due, ahead, posts, crashes, last, detections, final, repeated,
                       refunds, warnMails, hazard>>
    PROVE  IInv'
  <1> DEFINE new == [cron.copy EXCEPT !.deposit = outcome]
  <1>1. /\ cron.copy \in Challenge /\ db \in Challenge /\ cron.copy.status = "completed"
        /\ due /\ db.status # "active"
    BY CronFacts DEF IInv, TypeOK, Shaped, RefundInv
  <1>2. /\ new \in Challenge /\ new.status = cron.copy.status /\ new.deposit = outcome
        /\ new.warnings = cron.copy.warnings /\ new.cause = cron.copy.cause
        /\ new.payment = cron.copy.payment
    BY <1>1 DEF Challenge, Deposits
  <1>3. db' = Saved(cron.copy, new, {})
    OBVIOUS
  <1> HIDE DEF new
  <1>4. /\ db' \in Challenge /\ db'.status = db.status
        /\ db'.warnings = db.warnings /\ db'.cause = db.cause
    BY <1>1, <1>2, <1>3, SavedKeeps
  <1>5. cron'.pc = "idle" /\ cron' \in [pc : {"idle"}]
    BY DEF Idle
  <1>6. TypeOK'
    BY <1>4, <1>5 DEF IInv, TypeOK
  <1>7. Shaped'
    BY <1>5 DEF IInv, Shaped, SaveShaped, PayShaped
  <1>8. RefundInv'
    BY <1>4, <1>5 DEF IInv, RefundInv, AtMostOneRefund
  <1>9. DetectionInv' /\ CauseInv'
    BY <1>4, JobKeeps
  <1>10. hazard = {} => db' = new /\ cron.copy = db /\ \A r \in Requests : ~Working(r)
    BY <1>1, <1>2, <1>3, SavedWhole DEF IInv, AloneInv
  <1>11. AloneInv'
    BY <1>5, <1>10 DEF AloneInv, Working
  <1>12. BooksInv'
    <2> SUFFICES ASSUME hazard' = {}
                 PROVE  BooksInv'
      BY DEF BooksInv, BooksAgree
    <2>1. /\ db'.status = "completed" /\ db'.deposit = outcome /\ db'.payment = db.payment
          /\ db.status = "completed"
      BY <1>1, <1>2, <1>10
    <2>2. CASE outcome = "refunded"
      <3>1. refunds' = 1 /\ db.payment
        BY <1>10, <2>2 DEF IInv, RefundInv, Shaped
      <3>2. QED
        BY <1>4, <2>1, <2>2, <3>1 DEF IInv, BooksInv, BooksAgree
    <2>3. CASE outcome = "refund_pending_review"
      <3>1. refunds' = 0
        BY <2>3 DEF IInv, RefundInv
      <3>2. QED
        BY <1>4, <2>1, <2>3, <3>1 DEF IInv, BooksInv, BooksAgree
    <2>4. QED
      BY <2>2, <2>3
  <1>13. QED
    BY <1>6, <1>7, <1>8, <1>9, <1>11, <1>12 DEF IInv

\* The bank refunds, with or without an answer.
LEMMA BankRefundsSafe ==
    ASSUME IInv, cron.pc = "refund", cron.copy.payment,
           cron' = Idle \/ (cron' = [cron EXCEPT !.pc = "refunded"] /\ refunds' = refunds + 1),
           refunds' \in {refunds, refunds + 1},
           UNCHANGED <<db, req, due, ahead, posts, crashes, last, detections, final, repeated,
                       warnMails, told, hazard>>
    PROVE  IInv'
  <1>1. /\ cron.copy \in Challenge /\ cron.copy.status = "completed"
        /\ due /\ db.status # "active" /\ refunds = 0
        /\ cron \in [pc : {"loop", "refund", "refunded"}, copy : Challenge]
    BY CronFacts DEF IInv, TypeOK, Shaped, RefundInv
  <1>2. \/ cron'.pc = "idle" /\ cron' \in [pc : {"idle"}]
        \/ /\ cron'.pc = "refunded" /\ cron'.copy = cron.copy /\ refunds' = 1
           /\ cron' \in [pc : {"loop", "refund", "refunded"}, copy : Challenge]
    BY <1>1 DEF Idle
  <1>3. refunds' \in {0, 1}
    BY <1>1
  <1>4. TypeOK'
    BY <1>2, <1>3 DEF IInv, TypeOK
  <1>5. Shaped'
    BY <1>1, <1>2 DEF IInv, Shaped, SaveShaped, PayShaped
  <1>6. RefundInv'
    BY <1>1, <1>2, <1>3 DEF RefundInv, AtMostOneRefund
  <1>7. DetectionInv' /\ CauseInv'
    BY JobKeeps
  <1>8. hazard = {} => cron.copy = db /\ \A r \in Requests : ~Working(r)
    BY DEF IInv, AloneInv
  <1>9. AloneInv'
    BY <1>2, <1>8 DEF AloneInv, Working
  <1>10. BooksInv'
    BY <1>1, <1>3, <1>8 DEF IInv, BooksInv, BooksAgree
  <1>11. QED
    BY <1>4, <1>5, <1>6, <1>7, <1>9, <1>10 DEF IInv

LEMMA CronRefundsSafe ==
    ASSUME IInv, CronRefunds
    PROVE  IInv'
  <1>1. /\ cron.pc = "refund" /\ ahead \in 0..Others
        /\ UNCHANGED <<req, due, ahead, posts, crashes, last, detections, final, repeated,
                      warnMails, told, hazard>>
    BY DEF CronRefunds, worldVars, IInv, TypeOK
  <1>2. CASE ~cron.copy.payment /\ cron' = Idle /\ UNCHANGED <<db, refunds>>
    BY <1>1, <1>2, CronStopsSafe
  <1>3. CASE /\ db' = Saved(cron.copy, [cron.copy EXCEPT !.deposit = "refund_pending_review"], {})
             /\ cron' = Idle /\ UNCHANGED refunds
    BY <1>1, <1>3, CronClosesSafe
  <1>4. CASE /\ cron.copy.payment /\ cron' = Idle
             /\ refunds' \in {refunds, refunds + 1} /\ UNCHANGED db
    BY <1>1, <1>4, BankRefundsSafe
  <1>5. CASE /\ cron.copy.payment /\ cron' = [cron EXCEPT !.pc = "refunded"]
             /\ refunds' = refunds + 1 /\ UNCHANGED db
    BY <1>1, <1>5, BankRefundsSafe
  <1>6. QED
    BY <1>2, <1>3, <1>4, <1>5 DEF CronRefunds

LEMMA CronRecordsSafe ==
    ASSUME IInv, CronRecords
    PROVE  IInv'
  BY CronClosesSafe DEF CronRecords, worldVars

LEMMA CrashSafe ==
    ASSUME IInv, Crash
    PROVE  IInv'
  <1>1. /\ crashes' \in 0..MaxCrashes /\ cron' = Idle
        /\ req' = [r \in Requests |-> Free]
        /\ UNCHANGED <<db, due, ahead, posts, last, detections, final, repeated, refunds,
                      warnMails, told, hazard>>
    BY EngineAssumption DEF Crash, historyVars, IInv, TypeOK
  <1>2. Free \in Request /\ Free.pc = "free"
    BY DEF Free, Request
  <1>3. /\ req' \in [Requests -> Request] /\ \A r \in Requests : req'[r].pc = "free"
        /\ cron'.pc = "idle" /\ cron' \in [pc : {"idle"}]
    BY <1>1, <1>2 DEF Idle
  <1>4. \A r \in Requests : ~Working(r)' /\ Waiting(r)' = {}
    BY <1>3 DEF Working, Waiting
  <1>5. TypeOK'
    BY <1>1, <1>3 DEF IInv, TypeOK
  <1>6. Shaped'
    BY <1>3 DEF Shaped
  <1>7. RefundInv'
    BY <1>1, <1>3 DEF IInv, RefundInv, AtMostOneRefund
  <1>8. DetectionInv'
    BY <1>1, <1>3, <1>4 DEF IInv, DetectionInv, Touched
  <1>9. CauseInv'
    BY <1>1, <1>4 DEF IInv, CauseInv, Earned
  <1>10. AloneInv'
    BY <1>3, <1>4 DEF AloneInv
  <1>11. BooksInv'
    BY <1>1, BooksKept DEF IInv
  <1>12. QED
    BY <1>5, <1>6, <1>7, <1>8, <1>9, <1>10, <1>11 DEF IInv

LEMMA DaysPassSafe ==
    ASSUME IInv, DaysPass
    PROVE  IInv'
  <1>1. /\ due' = TRUE
        /\ UNCHANGED <<db, req, cron, ahead, posts, crashes, last, detections, final, repeated,
                      refunds, warnMails, told, hazard>>
    BY DEF DaysPass, historyVars
  <1>2. TypeOK' /\ RefundInv'
    BY <1>1 DEF IInv, TypeOK, RefundInv, AtMostOneRefund
  <1>3. Shaped'
    BY <1>1 DEF IInv, Shaped, SaveShaped, PayShaped
  <1>4. DetectionInv' /\ CauseInv'
    BY <1>1, JobKeeps
  <1>5. AloneInv'
    BY <1>1 DEF IInv, AloneInv, Working
  <1>6. BooksInv'
    BY <1>1, BooksKept DEF IInv
  <1>7. QED
    BY <1>2, <1>3, <1>4, <1>5, <1>6 DEF IInv

-----------------------------------------------------------------------------
(* The theorems *)

LEMMA InitSafe == Init => IInv
  <1> SUFFICES ASSUME Init
               PROVE  IInv
    OBVIOUS
  <1>1. Free \in Request /\ Free.pc = "free" /\ cron.pc = "idle" /\ cron \in [pc : {"idle"}]
    BY DEF Init, Free, Request, Idle
  <1>2. /\ db \in Challenge /\ db.status = "active" /\ db.deposit = "pending"
        /\ db.payment = FALSE /\ db.cause = None /\ db.warnings = [v \in Vectors |-> 0]
    BY DEF Init, NewChallenge, Challenge, Deposits
  <1>3. \A r \in Requests : req[r].pc = "free" /\ ~Working(r) /\ Waiting(r) = {}
    BY <1>1 DEF Init, Working, Waiting
  <1>4. TypeOK
    <2>1. req \in [Requests -> Request] /\ cron \in [pc : {"idle"}]
      BY <1>1 DEF Init
    <2>2. [v \in Vectors |-> 0] \in [Vectors -> 0..2]
      OBVIOUS
    <2>3. {detections, warnMails} \subseteq [Vectors -> 0..2]
      BY <2>2 DEF Init
    <2>4. /\ ahead \in 0..Others /\ posts \in 0..MaxPosts /\ crashes \in 0..MaxCrashes
          /\ refunds \in Nat
      BY EngineAssumption DEF Init
    <2>5. due \in BOOLEAN /\ final \in BOOLEAN /\ repeated \in BOOLEAN
      BY Zenon DEF Init
    <2>6. last \subseteq Vectors /\ told \subseteq {"terminated", "refunded"}
          /\ hazard \subseteq {"overlap", "late"}
      BY DEF Init
    <2>7. QED
      BY <1>2, <2>1, <2>3, <2>4, <2>5, <2>6 DEF TypeOK
  <1>5. Shaped /\ AloneInv
    BY <1>1, <1>3 DEF Shaped, AloneInv
  <1>6. RefundInv
    BY <1>1 DEF Init, RefundInv, AtMostOneRefund
  <1>7. DetectionInv
    BY <1>2, <1>3 DEF DetectionInv, Touched
  <1>8. CauseInv
    BY <1>2, <1>3 DEF CauseInv
  <1>9. BooksInv
    BY <1>2 DEF Init, BooksInv, BooksAgree
  <1>10. QED
    BY <1>4, <1>5, <1>6, <1>7, <1>8, <1>9 DEF IInv

LEMMA StepSafe == IInv /\ [Next]_vars => IInv'
  <1> SUFFICES ASSUME IInv, [Next]_vars
               PROVE  IInv'
    OBVIOUS
  <1>1. ASSUME NEW r \in Requests, Arrive(r) \/ Continue(r)
        PROVE  IInv'
    <2>1. Looks(r) \/ Verify(r) \/ Save(r) \/ SavePayment(r)
      BY <1>1 DEF Arrive, Continue, Looks
    <2>2. QED
      BY <2>1, LookSafe, VerifySafe, SaveSafe, SavePaymentSafe
  <1>2. ASSUME CronBreaks \/ CronSkips
        PROVE  IInv'
    <2>1. /\ cron' = Idle /\ ahead' \in 0..Others
          /\ UNCHANGED <<db, req, due, posts, crashes, last, detections, final, repeated,
                        refunds, warnMails, told, hazard>>
      BY <1>2, EngineAssumption DEF CronBreaks, CronSkips, worldVars, historyVars, IInv, TypeOK
    <2>2. QED
      BY <2>1, CronStopsSafe
  <1>3. CASE UNCHANGED vars
    <2>1. UNCHANGED <<db, req, cron, due, ahead, posts, crashes, last, detections, final,
                      repeated, refunds, warnMails, told, hazard>>
      BY <1>3 DEF vars, worldVars, historyVars
    <2>2. TypeOK' /\ RefundInv'
      BY <2>1 DEF IInv, TypeOK, RefundInv, AtMostOneRefund
    <2>3. Shaped'
      BY <2>1 DEF IInv, Shaped, SaveShaped, PayShaped
    <2>4. DetectionInv' /\ CauseInv'
      BY <2>1, JobKeeps
    <2>5. AloneInv'
      BY <2>1 DEF IInv, AloneInv, Working
    <2>6. BooksInv'
      BY <2>1, BooksKept DEF IInv
    <2>7. QED
      BY <2>2, <2>3, <2>4, <2>5, <2>6 DEF IInv
  <1>4. QED
    BY <1>1, <1>2, <1>3, CronFindSafe, CronCompletesSafe, CronRefundsSafe, CronRecordsSafe,
       CrashSafe, DaysPassSafe DEF Next, Job

LEMMA Invariance == Spec => []IInv
  BY InitSafe, StepSafe, PTL DEF Spec

\* Every variable has its type, and every request in progress the fields of its
\* place in the handler.
THEOREM TypeCorrect == Spec => []TypeOK
  <1>1. IInv => TypeOK
    BY DEF IInv
  <1>2. QED
    BY <1>1, Invariance, PTL

\* The bank refunds a deposit once at most and only after the last day, for any
\* number of handlers, crashes and lost answers (refundProcessor.js:10-13).
THEOREM OneRefund == Spec => []AtMostOneRefund
  <1>1. IInv => AtMostOneRefund
    BY DEF IInv, RefundInv
  <1>2. QED
    BY <1>1, Invariance, PTL

\* However many handlers save stale copies over each other, a challenge is
\* terminated for a vector detected twice, or by a final VPN report, or after a
\* heartbeat was sent again (violationEngine.js:102).
THEOREM TerminationEarned == Spec => []TerminationIsEarned
  <1>1. IInv => TerminationIsEarned
    BY DEF IInv, CauseInv, Earned, TerminationIsEarned
  <1>2. QED
    BY <1>1, Invariance, PTL

\* Status, deposit, bank and mails tell one story, when nobody overlapped and
\* nothing came late (paymentService.js, violationEngine.js:32).
THEOREM BooksCorrect == Spec => []BooksAgree
  <1>1. IInv => BooksAgree
    BY DEF IInv, BooksInv
  <1>2. QED
    BY <1>1, Invariance, PTL

-----------------------------------------------------------------------------
(* Warnings *)

\* A handler's save raises the warnings of its vector and leaves the others,
\* when it works on the current document.
LEMMA SaveRaises ==
    ASSUME IInv, NEW r \in Requests, Save(r), hazard' = {}, NEW u \in Vectors
    PROVE  db'.warnings[u] >= db.warnings[u]
  <1>1. /\ req[r].pc = "save" /\ Working(r) /\ hazard = {}
        /\ db' = Saved(req[r].copy, req[r].new, {"warnings"})
    BY DEF Save, Working
  <1>2. /\ db \in Challenge /\ req[r].new \in Challenge /\ req[r].vector \in Vectors
        /\ SaveShaped(req[r])
    BY <1>1, RequestFacts DEF IInv, TypeOK, Shaped
  <1>3. req[r].copy = db
    BY <1>1 DEF IInv, AloneInv
  <1>4. db' = req[r].new
    BY <1>1, <1>2, <1>3, SavedWhole
  <1>5. db.warnings \in [Vectors -> 0..2]
    BY <1>2 DEF Challenge
  <1>6. CASE db.warnings[req[r].vector] = 0 /\ req[r].new = Warned(db, req[r].vector)
    <2>1. Warned(db, req[r].vector).warnings = [db.warnings EXCEPT ![req[r].vector] = 1]
      BY <1>2, WarnedFacts
    <2>2. db'.warnings = [db.warnings EXCEPT ![req[r].vector] = 1]
      BY <1>4, <1>6, <2>1
    <2>3. QED
      BY <1>2, <1>5, <1>6, <2>2
  <1>7. CASE req[r].new = Terminated(db, req[r].vector)
    <2>1. Terminated(db, req[r].vector).warnings = [db.warnings EXCEPT ![req[r].vector] = 2]
      BY <1>2, TerminatedFacts
    <2>2. db'.warnings = [db.warnings EXCEPT ![req[r].vector] = 2]
      BY <1>4, <1>7, <2>1
    <2>3. QED
      BY <1>2, <1>5, <2>2
  <1>8. QED
    BY <1>2, <1>3, <1>6, <1>7 DEF SaveShaped

\* Payments and the job save a document without touching its warnings, however
\* stale their copy is.
LEMMA PaymentLeavesWarnings ==
    ASSUME IInv, NEW r \in Requests, SavePayment(r)
    PROVE  db'.warnings = db.warnings
  <1>1. req[r].pc = "pay" /\ db' = Saved(req[r].copy, req[r].new, {})
    BY DEF SavePayment
  <1>2. /\ db \in Challenge /\ req[r].copy \in Challenge /\ req[r].new \in Challenge
        /\ PayShaped(req[r])
    BY <1>1, RequestFacts DEF IInv, TypeOK, Shaped, Working
  <1>3. req[r].new.warnings = req[r].copy.warnings
    BY <1>2 DEF PayShaped, Challenge
  <1>4. Saved(req[r].copy, req[r].new, {}).warnings = db.warnings
    BY <1>2, <1>3, SavedKeeps
  <1>5. QED
    BY <1>1, <1>4

LEMMA JobLeavesWarnings ==
    ASSUME IInv, Job
    PROVE  db'.warnings = db.warnings
  <1>1. CASE UNCHANGED db
    BY <1>1
  <1>2. ASSUME cron.pc # "idle", NEW outcome \in Deposits,
               db' = Saved(cron.copy, [cron.copy EXCEPT !.deposit = outcome], {})
        PROVE  db'.warnings = db.warnings
    <2>1. db \in Challenge /\ cron.copy \in Challenge
      BY <1>2, CronFacts DEF IInv, TypeOK
    <2>2. /\ [cron.copy EXCEPT !.deposit = outcome] \in Challenge
          /\ [cron.copy EXCEPT !.deposit = outcome].warnings = cron.copy.warnings
      BY <1>2, <2>1 DEF Challenge
    <2>3. Saved(cron.copy, [cron.copy EXCEPT !.deposit = outcome], {}).warnings = db.warnings
      BY <2>1, <2>2, SavedKeeps
    <2>4. QED
      BY <1>2, <2>3
  <1>3. CASE CronCompletes
    <2>1. /\ cron.pc # "idle"
          /\ db' = Saved(cron.copy, [cron.copy EXCEPT !.status = "completed"], {})
      BY <1>3 DEF CronCompletes
    <2>2. db \in Challenge /\ cron.copy \in Challenge
      BY <2>1, CronFacts DEF IInv, TypeOK
    <2>3. /\ [cron.copy EXCEPT !.status = "completed"] \in Challenge
          /\ [cron.copy EXCEPT !.status = "completed"].warnings = cron.copy.warnings
      BY <2>2 DEF Challenge
    <2>4. Saved(cron.copy, [cron.copy EXCEPT !.status = "completed"], {}).warnings = db.warnings
      BY <2>2, <2>3, SavedKeeps
    <2>5. QED
      BY <2>1, <2>4
  <1>4. QED
    BY <1>1, <1>2, <1>3
    DEF Job, CronFind, CronBreaks, CronSkips, CronRefunds, CronRecords, Deposits

\* Without overlapping handlers a warning is never forgotten or repeated, though
\* every save replaces the whole of `vectors' (violationEngine.js:102).
THEOREM WarningsAreKept == Spec => WarningsStand
  <1> DEFINE Kept == hazard' = {} =>
                       \A v \in Vectors :
                         db'.warnings[v] >= db.warnings[v] /\ warnMails'[v] <= 1
  <1>1. IInv /\ IInv' /\ [Next]_vars => [Kept]_vars
    <2> SUFFICES ASSUME IInv, IInv', Next, hazard' = {}, NEW u \in Vectors
                 PROVE  db'.warnings[u] >= db.warnings[u] /\ warnMails'[u] <= 1
      OBVIOUS
    <2>1. warnMails'[u] <= 1
      BY DEF IInv, BooksInv
    <2>2. db.warnings[u] \in Nat
      BY DEF IInv, TypeOK, Challenge
    <2>3. ASSUME UNCHANGED db
          PROVE  db'.warnings[u] >= db.warnings[u]
      BY <2>2, <2>3
    <2>4. ASSUME NEW r \in Requests, Arrive(r) \/ Continue(r)
          PROVE  db'.warnings[u] >= db.warnings[u]
      <3>1. CASE Save(r)
        BY <3>1, SaveRaises
      <3>2. CASE SavePayment(r)
        BY <2>2, <3>2, PaymentLeavesWarnings
      <3>3. CASE Arrive(r) \/ NextVector(r)
        BY <2>3, <3>3
        DEF Arrive, Heartbeat, HeartbeatAgain, VpnReport, Verify, NextVector, Find
      <3>4. QED
        BY <2>4, <3>1, <3>2, <3>3 DEF Continue
    <2>5. CASE Job
      BY <2>1, <2>2, <2>5, JobLeavesWarnings
    <2>6. CASE Crash \/ DaysPass
      BY <2>1, <2>3, <2>6 DEF Crash, DaysPass
    <2>7. QED
      BY <2>1, <2>4, <2>5, <2>6 DEF Next
  <1>2. QED
    BY <1>1, Invariance, PTL DEF Spec, WarningsStand

-----------------------------------------------------------------------------
(* ViolationEngine implements Escrow. *)

\* Who works on the copy of a closed challenge works on a closed challenge.
ClosedInv ==
    \A r \in Requests : Working(r) /\ req[r].copy.status # "active" => db.status # "active"

\* The grounds of the abstract module.
Grounds == {v \in Vectors : Earned(v)}

LEMMA GroundsGrow ==
    ASSUME TypeOK, Grows
    PROVE  Grounds \subseteq Grounds' /\ Grounds' \subseteq Vectors
  BY EarnedGrows DEF Grounds

LEMMA GroundsStay ==
    ASSUME UNCHANGED <<detections, final, repeated>>
    PROVE  Grounds' = Grounds
  BY DEF Grounds, Earned

\* How a step moves the promised state.
Promised == <<db.status, db.cause, due, Grounds, refunds>>

\* A look at the document, or the arrival of a payment.
LEMMA LookKeepsPromise ==
    ASSUME IInv, ClosedInv, NEW r \in Requests, Looks(r)
    PROVE  Promise!Accuse /\ ClosedInv'
  <1>1. /\ UNCHANGED <<db, due, refunds>> /\ Grows /\ TypeOK
        /\ \/ \E todo \in SUBSET Vectors : req' = [req EXCEPT ![r] = Rest(todo)]
           \/ \E new, v, todo : LookEffect(r, new, v, todo)
    BY LookFacts DEF IInv
  <1>2. Promise!Accuse
    BY <1>1, GroundsGrow DEF Promise!Accuse, Grounds
  <1>3. req \in [Requests -> Request]
    BY <1>1 DEF TypeOK
  <1>4. CASE \E todo \in SUBSET Vectors : req' = [req EXCEPT ![r] = Rest(todo)]
    <2>1. PICK todo \in SUBSET Vectors : req' = [req EXCEPT ![r] = Rest(todo)]
      BY <1>4
    <2>2. req'[r].pc \in {"free", "next"} /\ \A s \in Requests \ {r} : req'[s] = req[s]
      BY <1>3, <2>1, RestFacts
    <2>3. QED
      BY <1>1, <1>2, <2>2 DEF ClosedInv, Working
  <1>5. CASE \E new, v, todo : LookEffect(r, new, v, todo)
    <2>1. req'[r].copy = db /\ \A s \in Requests \ {r} : req'[s] = req[s]
      BY <1>3, <1>5 DEF LookEffect, Saving
    <2>2. QED
      BY <1>1, <1>2, <2>1 DEF ClosedInv, Working
  <1>6. QED
    BY <1>1, <1>2, <1>4, <1>5

LEMMA VerifyKeepsPromise ==
    ASSUME IInv, ClosedInv, NEW r \in Requests, Verify(r)
    PROVE  UNCHANGED Promised /\ ClosedInv'
  <1>1. /\ UNCHANGED <<db, due, refunds, detections, final, repeated>>
        /\ req \in [Requests -> Request]
    BY DEF Verify, IInv, TypeOK
  <1>2. req'[r].copy = db /\ \A s \in Requests \ {r} : req'[s] = req[s]
    BY <1>1 DEF Verify
  <1>3. QED
    BY <1>1, <1>2, GroundsStay DEF Promised, ClosedInv, Working

\* A save ends a challenge, adds a cause to an end, or does neither.
LEMMA SaveKeepsPromise ==
    ASSUME IInv, ClosedInv, NEW r \in Requests, Save(r)
    PROVE  /\ UNCHANGED Promised \/ \E v \in Vectors : Promise!Terminate(v)
           /\ ClosedInv'
  <1> DEFINE w == req[r]
  <1>1. /\ w.pc = "save" /\ Working(r) /\ Ends(r)
        /\ db' = Saved(w.copy, w.new, {"warnings"})
        /\ UNCHANGED <<due, refunds, detections, final, repeated>>
    BY DEF Save, Ends, Working, worldVars
  <1>2. /\ db \in Challenge /\ w.copy \in Challenge /\ w.new \in Challenge
        /\ w.vector \in Vectors /\ SaveShaped(w) /\ CauseSound(w)
    BY <1>1, RequestFacts DEF IInv, TypeOK, Shaped, CauseInv
  <1>3. /\ db'.status = IF w.new.status # w.copy.status THEN w.new.status ELSE db.status
        /\ db'.cause = IF w.new.cause # w.copy.cause THEN w.new.cause ELSE db.cause
    BY <1>1, <1>2, SavedFacts
  <1>4. \/ w.new.status = w.copy.status /\ w.new.cause = w.copy.cause
        \/ w.new.status = "terminated" /\ w.new.cause = w.vector
    <2>1. w.new = Warned(w.copy, w.vector) \/ w.new = Terminated(w.copy, w.vector)
      BY <1>2 DEF SaveShaped
    <2> HIDE DEF w
    <2>2. QED
      BY <1>2, <2>1, ShapeFacts
  <1>5. Grounds' = Grounds
    BY <1>1, GroundsStay
  <1>6. SavedSoundly(r)
    BY <1>1, SaveSound
  <1>7. ClosedInv'
    BY <1>1, <1>6, EndFacts DEF ClosedInv, SavedSoundly
  <1>8. CASE w.new.status = w.copy.status /\ w.new.cause = w.copy.cause
    BY <1>1, <1>3, <1>5, <1>7, <1>8 DEF Promised
  <1>9. CASE w.new.status = "terminated" /\ w.new.cause = w.vector
    <2>1. w.vector # None /\ Earned(w.vector)
      BY <1>2, <1>9, EngineAssumption DEF CauseSound
    <2>2. db'.status \in {"terminated", db.status} /\ db'.status # "active"
      BY <1>1, <1>2, <1>3, <1>9 DEF ClosedInv
    <2>3. db'.cause \in {w.vector, db.cause} /\ db'.cause # None
      BY <1>2, <1>3, <1>9, <2>1 DEF CauseSound
    <2>4. db'.cause \in Grounds
      <3>1. db.cause \in Vectors \cup {None}
        BY <1>2 DEF Challenge
      <3>2. db.cause # None => Earned(db.cause)
        BY DEF IInv, CauseInv
      <3>3. QED
        BY <1>2, <2>1, <2>3, <3>1, <3>2 DEF Grounds
    <2>5. Promise!Terminate(db'.cause) /\ db'.cause \in Vectors
      BY <1>1, <1>5, <2>2, <2>4 DEF Promise!Terminate, Grounds
    <2>6. QED
      BY <1>7, <2>5
  <1>10. QED
    BY <1>4, <1>8, <1>9

LEMMA PaymentKeepsPromise ==
    ASSUME IInv, ClosedInv, NEW r \in Requests, SavePayment(r)
    PROVE  UNCHANGED Promised /\ ClosedInv'
  <1> DEFINE w == req[r]
  <1>1. /\ w.pc = "pay" /\ Working(r) /\ Ends(r)
        /\ db' = Saved(w.copy, w.new, {})
        /\ UNCHANGED <<due, refunds, detections, final, repeated>>
    BY DEF SavePayment, Ends, Working, historyVars, worldVars
  <1>2. /\ db \in Challenge /\ w.copy \in Challenge /\ w.new \in Challenge
        /\ w.new = [w.copy EXCEPT !.payment = TRUE, !.deposit = "locked"]
    BY <1>1, RequestFacts DEF IInv, TypeOK, Shaped, PayShaped
  <1>3. w.new.status = w.copy.status /\ w.new.cause = w.copy.cause
    BY <1>2 DEF Challenge
  <1>4. db'.status = db.status /\ db'.cause = db.cause
    <2>1. db' = Saved(w.copy, w.new, {})
      BY <1>1
    <2> HIDE DEF w
    <2>2. /\ Saved(w.copy, w.new, {}).status = db.status
          /\ Saved(w.copy, w.new, {}).cause = db.cause
      BY <1>2, <1>3, SavedKeeps
    <2>3. QED
      BY <2>1, <2>2
  <1>5. QED
    BY <1>1, <1>4, EndFacts, GroundsStay DEF Promised, ClosedInv

\* The job saves `completed', records refunds, and has the bank refund once.
LEMMA JobKeepsPromise ==
    ASSUME IInv, ClosedInv, Job
    PROVE  /\ UNCHANGED Promised \/ Promise!Complete \/ Promise!Refund
           /\ ClosedInv'
  <1>1. UNCHANGED <<req, due, detections, final, repeated>>
    BY DEF Job, CronFind, CronBreaks, CronSkips, CronCompletes, CronRefunds, CronRecords,
           worldVars, historyVars
  <1>2. Grounds' = Grounds
    BY <1>1, GroundsStay
  <1>3. ASSUME db'.status = db.status \/ db'.status # "active"
        PROVE  ClosedInv'
    BY <1>1, <1>3 DEF ClosedInv, Working
  <1>4. db \in Challenge /\ (cron.pc # "idle" => cron.copy \in Challenge)
    BY CronFacts DEF IInv, TypeOK
  <1>5. CASE CronFind \/ CronBreaks \/ CronSkips
    BY <1>1, <1>2, <1>3, <1>5
    DEF CronFind, CronBreaks, CronSkips, historyVars, Promised
  <1>6. CASE CronCompletes
    <2> DEFINE new == [cron.copy EXCEPT !.status = "completed"]
    <2>1. /\ cron.pc = "loop" /\ due /\ db' = Saved(cron.copy, new, {}) /\ refunds' = refunds
      BY <1>6 DEF CronCompletes, historyVars
    <2>2. /\ cron.copy.status = "active" /\ new \in Challenge
          /\ new.status = "completed" /\ new.cause = cron.copy.cause
      BY <1>4, <2>1 DEF IInv, Shaped, Challenge
    <2>3. db'.status = "completed" /\ db'.cause = db.cause
      <3> HIDE DEF new
      <3>1. QED
        BY <1>4, <2>1, <2>2, SavedFacts
    <2>4. Promise!Complete
      BY <1>1, <1>2, <2>1, <2>3 DEF Promise!Complete, Grounds
    <2>5. QED
      BY <1>3, <2>3, <2>4
  <1>7. ASSUME NEW d \in Deposits, db' = Saved(cron.copy, [cron.copy EXCEPT !.deposit = d], {}),
               cron.pc # "idle"
        PROVE  db'.status = db.status /\ db'.cause = db.cause
    <2> DEFINE new == [cron.copy EXCEPT !.deposit = d]
    <2>1. /\ new \in Challenge /\ new.status = cron.copy.status /\ new.cause = cron.copy.cause
      BY <1>4, <1>7 DEF Challenge
    <2>2. db' = Saved(cron.copy, new, {})
      BY <1>7
    <2> HIDE DEF new
    <2>3. QED
      BY <1>4, <1>7, <2>1, <2>2, SavedFacts
  <1>8. CASE CronRefunds
    <2>1. /\ cron.pc = "refund" /\ refunds = 0 /\ due /\ db.status # "active"
          /\ refunds' \in {refunds, refunds + 1}
      BY <1>8 DEF CronRefunds, IInv, RefundInv
    <2>2. \/ db' = db
          \/ /\ db' = Saved(cron.copy, [cron.copy EXCEPT !.deposit = "refund_pending_review"], {})
             /\ refunds' = refunds
      BY <1>8 DEF CronRefunds
    <2>3. db'.status = db.status /\ db'.cause = db.cause
      BY <1>7, <2>1, <2>2 DEF Deposits
    <2>4. CASE refunds' = refunds
      BY <1>1, <1>2, <1>3, <2>3, <2>4 DEF Promised
    <2>5. CASE refunds' = refunds + 1
      <3>1. Promise!Refund
        BY <1>1, <1>2, <2>1, <2>3, <2>5 DEF Promise!Refund, Grounds
      <3>2. QED
        BY <1>3, <2>3, <3>1
    <2>6. QED
      BY <2>1, <2>4, <2>5
  <1>9. CASE CronRecords
    <2>1. /\ cron.pc = "refunded" /\ refunds' = refunds
          /\ db' = Saved(cron.copy, [cron.copy EXCEPT !.deposit = "refunded"], {})
      BY <1>9 DEF CronRecords
    <2>2. db'.status = db.status /\ db'.cause = db.cause
      BY <1>7, <2>1 DEF Deposits
    <2>3. QED
      BY <1>1, <1>2, <1>3, <2>1, <2>2 DEF Promised
  <1>10. QED
    BY <1>5, <1>6, <1>8, <1>9 DEF Job

LEMMA StepKeepsPromise ==
    ASSUME IInv, ClosedInv, [Next]_vars
    PROVE  [Promise!Next]_(Promise!vars) /\ ClosedInv'
  <1>1. UNCHANGED Promised => UNCHANGED Promise!vars
    BY DEF Promised, Promise!vars, Grounds
  <1>2. ASSUME NEW r \in Requests, Arrive(r) \/ Continue(r)
        PROVE  [Promise!Next]_(Promise!vars) /\ ClosedInv'
    <2>1. Looks(r) \/ Verify(r) \/ Save(r) \/ SavePayment(r)
      BY <1>2 DEF Arrive, Continue, Looks
    <2>2. QED
      BY <1>1, <2>1, LookKeepsPromise, VerifyKeepsPromise, SaveKeepsPromise, PaymentKeepsPromise
      DEF Promise!Next
  <1>3. CASE Job
    BY <1>1, <1>3, JobKeepsPromise DEF Promise!Next
  <1>4. CASE Crash
    <2>1. /\ UNCHANGED <<db, due, refunds, detections, final, repeated>>
          /\ req' = [r \in Requests |-> Free]
      BY <1>4 DEF Crash, historyVars
    <2>2. ClosedInv'
      BY <2>1 DEF ClosedInv, Working, Free
    <2>3. QED
      BY <1>1, <2>1, <2>2, GroundsStay DEF Promised
  <1>5. CASE DaysPass
    <2>1. UNCHANGED <<db, req, refunds, detections, final, repeated>> /\ due' = TRUE
      BY <1>5 DEF DaysPass, historyVars
    <2>2. Promise!LastDay
      BY <2>1, GroundsStay DEF Promise!LastDay, Grounds
    <2>3. QED
      BY <2>1, <2>2 DEF Promise!Next, ClosedInv, Working
  <1>6. CASE UNCHANGED vars
    <2>1. UNCHANGED <<db, req, due, refunds, detections, final, repeated>>
      BY <1>6 DEF vars, worldVars, historyVars
    <2>2. QED
      BY <1>1, <2>1, GroundsStay DEF Promised, ClosedInv, Working
  <1>7. QED
    BY <1>2, <1>3, <1>4, <1>5, <1>6 DEF Next

\* Whatever copies are saved over each other, and wherever the server crashes, the
\* document keeps the promise of module Escrow: no outcome is taken back, none comes
\* before its day or without grounds, and the money leaves once.
THEOREM EscrowKept == Spec => KeepsEscrow
  <1>1. ASSUME Init
        PROVE  Promise!Init /\ ClosedInv
    <2>1. Grounds = {}
      BY <1>1 DEF Init, Grounds, Earned
    <2>2. QED
      BY <1>1, <2>1 DEF Init, Promise!Init, NewChallenge, Grounds, ClosedInv, Working, Free
  <1>2. QED
    BY <1>1, StepKeepsPromise, Invariance, PTL DEF Spec, KeepsEscrow, Promise!Spec
=============================================================================
