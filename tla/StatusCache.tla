----------------------------- MODULE StatusCache -----------------------------
(***************************************************************************)
(* What the window shows of the protection: the cached checks of the main  *)
(* process (electron/dnsStatusCache.js, the functional probe's cache in    *)
(* electron/functionalDnsVerification.js, electron/enforcementState.js),   *)
(* the IPC handlers "get-dns-status" and "get-vector-status" that answer   *)
(* from them (electron/ipc.js) and the renderer's store that asks          *)
(* (src/store/challengeStore.js).  A challenge is saved, so the start-up   *)
(* locks down for real.  What a check finds and what becomes of it on the  *)
(* screen is module ProtectionStatus.                                      *)
(*                                                                         *)
(* How long an entry stays fresh is left open, as is what makes the store  *)
(* ask (its interval, or a push from the main process): it may ask         *)
(* whenever no earlier question is open.                                   *)
(***************************************************************************)
EXTENDS Naturals, ProtectionStatus

CONSTANTS Machines,    \* the machines there may be
          PolicyModes, \* the modes the app may be started in
          MaxChanges,  \* bound: changes of the machine
          MaxFailures  \* bound: checks that fail

ASSUME CacheAssumption ==
    /\ Machines \subseteq SUBSET Faults /\ PolicyModes \subseteq Modes
    /\ MaxChanges \in Nat /\ MaxFailures \in Nat

VARIABLES
    mode,       \* getPolicyMode, settled at the start
    machine,    \* what is wrong with it
    changes, failures,
    startup,    \* inProgress of enforcementState.js is "applying"
    health,     \* lastReport of the DnsHealthMonitor
    functional, \* the cached result of the functional probe
    cache,      \* the entries of dnsStatusCache.js: value, freshness, refresh
    question,   \* the store's open question: what each handler answers
    screen      \* dnsStatus, as the badge, and vectorStatus of the store

vars == <<mode, machine, changes, failures, startup, health, functional, cache, question, screen>>

Checks == {"verify", "vectors"}

\* A thing that may be missing is a set of at most one element.
NoEntry == [value |-> {}, fresh |-> FALSE, refresh |-> {}]
NoQuestion == [open |-> FALSE, health |-> "none", answer |-> [c \in Checks |-> {}]]

\* buildApplyingVectorStatus: the placeholder while protection is applied.
Applying == {"applying"}

Init ==
    /\ mode \in PolicyModes
    /\ machine \in Machines
    /\ changes = 0 /\ failures = 0
    /\ startup = "before"
    /\ health = "none"
    /\ functional = {}
    /\ cache = [c \in Checks |-> NoEntry]
    /\ question = NoQuestion
    /\ screen = NoQuestion.answer

-----------------------------------------------------------------------------
(* The caches *)

\* invalidateDnsStatusCache; a refresh that is on its way goes on.
Invalidate ==
    /\ cache' = [c \in Checks |-> [cache[c] EXCEPT !.value = {}, !.fresh = FALSE]]
    /\ functional' = {}

\* A lockdown begins or ends, or a tamper event arrives.
Lockdown ==
    /\ Invalidate
    /\ UNCHANGED <<mode, machine, changes, failures, startup, health, question, screen>>

\* setEnforcementInProgress: only the start-up calls it, once on and once off.
Startup ==
    /\ \/ startup = "before" /\ startup' = "applying" /\ UNCHANGED <<cache, functional>>
       \/ startup = "applying" /\ startup' = "over" /\ Invalidate
    /\ UNCHANGED <<mode, machine, changes, failures, health, question, screen>>

\* runHealthCheck; one that throws leaves a report of its own.
HealthCheck ==
    /\ \/ health' = Report(machine) /\ UNCHANGED failures
       \/ failures < MaxFailures /\ failures' = failures + 1 /\ health' = "failing"
    /\ UNCHANGED <<mode, machine, changes, startup, functional, cache, question, screen>>

\* A refresh reads the machine, but takes a cached functional result as it is;
\* a new one (`probe') is cached when it is there.
Reading ==
    IF functional = {} THEN [machine |-> machine, filters |-> Filters(machine), probe |-> TRUE]
    ELSE [machine |-> machine, filters |-> TRUE \in functional, probe |-> FALSE]

\* refreshVerifyDns, refreshVectorStatus: one refresh at a time.
\* Mutant: a value is refreshed only when it is missing.
RefreshingMissing(e) ==
    IF e.value # {} \/ e.refresh # {} THEN e ELSE [e EXCEPT !.refresh = {Reading}]

Refreshing(e) == IF e.fresh \/ e.refresh # {} THEN e ELSE [e EXCEPT !.refresh = {Reading}]

\* What the handler of a check makes of its value.
Answer(c, value, h) == IF c = "verify" THEN Badge(value, h, mode) ELSE value

Answered(c, answer) ==
    IF question.open /\ question.answer[c] = {}
    THEN [question EXCEPT !.answer[c] = {answer}] ELSE question

\* A refresh is over: `value' is fresh from now on, however old its reading.
Store(c, value) ==
    /\ cache' = [cache EXCEPT ![c] = [value |-> {value}, fresh |-> TRUE, refresh |-> {}]]
    /\ question' = Answered(c, Answer(c, value, question.health))

\* What a check makes of its reading, and what the functional probe leaves.
Found(c, m, dns) == IF c = "verify" THEN dns ELSE Violated(m, dns)
Probed(r, filters) == functional' = IF r.probe THEN {filters} ELSE functional

Land(c) ==
    \E r \in cache[c].refresh :
        /\ Store(c, Found(c, r.machine, Verified(r.machine, r.filters, health)))
        /\ Probed(r, r.filters)
        /\ UNCHANGED <<mode, machine, changes, failures, startup, health, screen>>

\* A probe fails: the result is cached like any other, and so is a functional
\* probe (if there was one) that got no answer.
BlindDns(c, r) ==
    \E dns \in VerifiedBlind(r.machine, r.filters, health) :
        /\ dns.functional => r.filters \/ r.probe
        /\ Store(c, Found(c, r.machine, dns))
        /\ Probed(r, r.filters \/ dns.functional)

BlindProbe(r) ==
    \E probe \in Probes :
        /\ Store("vectors", ViolatedBlind(r.machine, Verified(r.machine, r.filters, health), probe))
        /\ Probed(r, r.filters)

\* A full check that rejects as a whole: its handler answers with what the cache
\* has.
Reject(r) ==
    /\ cache' = [cache EXCEPT !["vectors"].refresh = {}]
    /\ \E v \in IF cache["vectors"].value = {} THEN {Applying} ELSE cache["vectors"].value :
          question' = Answered("vectors", v)
    /\ Probed(r, r.filters)

LandFailed(c) ==
    /\ failures < MaxFailures
    /\ failures' = failures + 1
    /\ \E r \in cache[c].refresh :
          \/ BlindDns(c, r)
          \/ c = "vectors" /\ BlindProbe(r)
          \/ c = "vectors" /\ Reject(r)
    /\ UNCHANGED <<mode, machine, changes, startup, health, screen>>

\* The time of an entry is up.
Expire(c) ==
    /\ cache[c].fresh
    /\ cache' = [cache EXCEPT ![c].fresh = FALSE]
    /\ UNCHANGED <<mode, machine, changes, failures, startup, health, functional, question, screen>>

FunctionalExpires ==
    /\ functional # {}
    /\ functional' = {}
    /\ UNCHANGED <<mode, machine, changes, failures, startup, health, cache, question, screen>>

-----------------------------------------------------------------------------
(* The question and the answers *)

\* The handlers answer from the cache, stale or not, and wait only for a cache
\* that is empty; the report, kept for the badge, is the one of this moment.
AskChecks ==
    /\ startup # "applying"
    /\ question' = [open |-> TRUE, health |-> IF cache["verify"].value = {} THEN health ELSE "none",
                    answer |-> [c \in Checks |-> {Answer(c, v, health) : v \in cache[c].value}]]
    /\ cache' = [c \in Checks |-> Refreshing(cache[c])]

\* While protection is applied nothing is refreshed, and vectors that are too
\* old (`aged') count as missing.
AskApplying ==
    /\ startup = "applying"
    /\ \E aged \in BOOLEAN :
          /\ aged => ~cache["vectors"].fresh
          /\ question' = [open |-> TRUE, health |-> "none",
                 answer |-> [verify |-> {"applying"},
                             vectors |-> IF aged \/ cache["vectors"].value = {}
                                         THEN {Applying} ELSE cache["vectors"].value]]
    /\ UNCHANGED cache

Ask ==
    /\ ~question.open
    /\ AskChecks \/ AskApplying
    /\ UNCHANGED <<mode, machine, changes, failures, startup, health, functional, screen>>

\* Both answers are there: refreshVectors sets them together.
Show ==
    /\ question.open
    /\ \A c \in Checks : question.answer[c] # {}
    /\ screen' = question.answer
    /\ question' = NoQuestion
    /\ UNCHANGED <<mode, machine, changes, failures, startup, health, functional, cache>>

\* Someone tampers with the machine, or a lockdown repairs it.
Change ==
    /\ changes < MaxChanges
    /\ changes' = changes + 1
    /\ machine' \in Machines \ {machine}
    /\ UNCHANGED <<mode, failures, startup, health, functional, cache, question, screen>>

Next ==
    \/ Lockdown \/ Change \/ Startup \/ HealthCheck \/ FunctionalExpires \/ Ask \/ Show
    \/ \E c \in Checks : Land(c) \/ LandFailed(c) \/ Expire(c)

Spec == Init /\ [][Next]_vars

\* The start-up ends, timers run out, probes return, the store asks every 30 s
\* and the handlers ask for a new report every 2 min.
Fairness ==
    /\ WF_vars(Startup) /\ WF_vars(FunctionalExpires) /\ WF_vars(HealthCheck)
    /\ WF_vars(Ask) /\ WF_vars(Show)
    /\ \A c \in Checks : WF_vars(Land(c)) /\ WF_vars(Expire(c))

FairSpec == Spec /\ Fairness

-----------------------------------------------------------------------------
(* Properties *)

\* The state is well typed; an open question has an answer coming for each
\* handler (a handler waits only while its refresh is on the way).
TypeOK ==
    /\ mode \in PolicyModes /\ machine \in Machines /\ health \in Reports
    /\ changes \in 0..MaxChanges /\ failures \in 0..MaxFailures
    /\ startup \in {"before", "applying", "over"}
    /\ functional \in {{}, {TRUE}, {FALSE}}
    /\ \A v \in screen["verify"] : v \in Badges
    /\ \A v \in screen["vectors"] : v \subseteq Vectors \/ v = Applying
    /\ \A c \in Checks : question.open /\ question.answer[c] = {} => cache[c].refresh # {}

\* What the screen should say of a machine, in terms of what is wrong with it.
\* An open machine is "protected with warnings" unless the domains leak while
\* CleanBrowsing itself does not do what it should.
Open == {"leak", "core", "bypass", "raw"}
Informational == {"ipv4", "ipv6", "rogue4", "rogue6", "doh"}
Failing(m) == "tampered" \in m /\ "unreachable" \notin m

TrueBadge(m, md) ==
    CASE m \cap Open # {} /\ "leak" \in m /\ Failing(m) -> "inactive"
      [] m \cap Open # {} /\ ~("leak" \in m /\ Failing(m)) -> "warnings"
      [] m \cap Open = {} /\ md = "developer" -> "developer"
      [] m \cap Open = {} /\ md # "developer" ->
            IF m \cap Informational # {} \/ Failing(m) THEN "warnings" ELSE "protected"

TrueVectors(m) ==
    {v \in Vectors :
        \/ v \in m
        \/ v \in {"dns_ipv4", "dns_ipv6"} /\ m \cap {"ipv4", "ipv6"} # {}
        \/ v = "dns_ipv4" /\ "rogue4" \in m
        \/ v = "dns_ipv6" /\ "rogue6" \in m
        \/ v = "windows_doh" /\ "doh" \in m}

\* The functions of ProtectionStatus say it of every machine there may be.
ASSUME StatusIsTrue ==
    \A m \in SUBSET Faults, md \in Modes :
        LET dns == Verified(m, Filters(m), Report(m))
        IN  /\ Badge(dns, Report(m), md) = TrueBadge(m, md)
            /\ Violated(m, dns) = TrueVectors(m)

\* Once the machine stays as it is, the window shows what it is: a refresh that
\* was on its way when the caches were emptied, a stale functional result, an old
\* report or a probe that failed is shown for a while and not for good
\* (dnsStatusCache.js:74, functionalDnsVerification.js:122).
ScreenSettles == <>[](screen = [verify |-> {TrueBadge(machine, mode)}, vectors |-> {TrueVectors(machine)}])
===============================================================================
