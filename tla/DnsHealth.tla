------------------------------- MODULE DnsHealth -------------------------------
(***************************************************************************)
(* services/dns/DnsHealthMonitor.js: one health check at a time, a sequence *)
(* of awaited probes of a world that goes on changing.  The app's checks    *)
(* skip the restricted domains; a diagnosis (a full validation as the tests *)
(* run it, or health-doh of cli.js) probes them, in a process of its own    *)
(* that shares nothing with the monitor.                                    *)
(***************************************************************************)
EXTENDS DnsVerdict

CONSTANTS Replies,      \* what the resolver may answer to <<A, AAAA>>
          Layers        \* what else may block a domain

ASSUME RepliesAssumption == Replies \subseteq Kinds \X Kinds
ASSUME LayersAssumption == Layers \subseteq {"none", "resolver", "https"} /\ "none" \in Layers

VARIABLES world,        \* what the probes find: [ping, reply, layer]
          check,        \* the check in progress
          report,       \* lastReport
          diagnosis,    \* the outcomes of the last diagnoses
          timer         \* the five-minute timer is set

healthVars == <<world, check, report, diagnosis, timer>>

Phases == {"idle", "ping", "domains"}
Judgements == [reachable : BOOLEAN,
               status : {"blocked_by_doh", "blocked_by_fallback", "allowed", "error", "skipped"}]
Statements == {"failed", "degraded", "healthy", "healthy_with_provider_misses"}
Outcome == [status : Statuses, final : Statements, current : BOOLEAN]
Idle == [phase |-> "idle", ping |-> FALSE, todo |-> {}, steady |-> TRUE,
         ev |-> [d \in Domains |-> NotJudged]]
NoReport == [status |-> "none", final |-> "none", current |-> FALSE]

\* Only restricted domains have other layers that matter.
Worlds == {w \in [ping : BOOLEAN, reply : [Domains -> Replies], layer : [Domains -> Layers]] :
             \A d \in Safe : w.layer[d] = "none"}

HealthInit ==
    /\ world \in Worlds
    /\ check = Idle /\ report = NoReport /\ diagnosis = NoReport /\ timer = FALSE

-----------------------------------------------------------------------------
Running == check.phase # "idle"

\* Mutant: a caller gets the last report also when no check runs.
RunHealthCheckOnce ==
    check' = IF Running \/ report # NoReport THEN check ELSE [Idle EXCEPT !.phase = "ping", !.todo = Safe]

\* runHealthCheck: a caller that finds a check running gets the last report.
RunHealthCheck ==
    check' = IF Running THEN check ELSE [Idle EXCEPT !.phase = "ping", !.todo = Safe]

StartHealth ==
    /\ RunHealthCheck
    /\ timer' = TRUE
    /\ UNCHANGED <<world, report, diagnosis>>

StopHealth ==
    /\ timer' = FALSE
    /\ UNCHANGED <<world, check, report, diagnosis>>

TimerFires ==
    /\ timer /\ ~Running
    /\ RunHealthCheck
    /\ UNCHANGED <<world, report, diagnosis, timer>>

\* A finished lockdown, a re-apply, an IPC request with a stale report.
Ask == ~Running /\ RunHealthCheck /\ UNCHANGED <<world, report, diagnosis, timer>>

\* pingCleanBrowsingDoH, with the network name read before it.
Ping == /\ check.phase = "ping"
        /\ check' = [check EXCEPT !.phase = "domains", !.ping = world.ping]
        /\ UNCHANGED <<world, report, diagnosis, timer>>

\* The monitor's validator hands its DoH client on; health-doh has none.
Evaluate(d) == Judge(world, d, WireClient, d \in Miss)
EvaluateWithoutClient(d, format) == Judge(world, d, format, d \in Miss)

ProbeDomain(d) ==
    /\ check.phase = "domains" /\ d \in check.todo
    /\ check' = [check EXCEPT !.todo = @ \ {d}, !.ev[d] = Evaluate(d)]
    /\ UNCHANGED <<world, report, diagnosis, timer>>

\* The decision of runFullValidation, then the rest of runHealthCheck.  The
\* policy and consistency probes are skipped.
Finish ==
    /\ check.phase = "domains" /\ check.todo = {}
    /\ report' = [status  |-> Validation(check.ping, TRUE, check.ev, TRUE, TRUE),
                  final   |-> Summary(check.ping, TRUE, check.ev),
                  current |-> check.steady]
    /\ check' = Idle
    /\ UNCHANGED <<world, diagnosis, timer>>

\* With all probes: `status' is that of runFullValidation, `final' that of the
\* runDohHealthSummary of health-doh.  They run in a process of their own, so only
\* a diagnosis that sees one world all the time says anything: one step.
Diagnose ==
    /\ diagnosis = NoReport
    /\ \E format \in [Domains -> Formats] :
         LET full == [d \in Domains |-> Evaluate(d)]
             quick == [d \in Domains |-> EvaluateWithoutClient(d, format[d])]
         IN  diagnosis' = [status  |-> Validation(world.ping, FALSE, full, PolicyOk(world),
                                                  Consistent(world)),
                           final   |-> Summary(world.ping, FALSE, quick),
                           current |-> TRUE]
    /\ UNCHANGED <<world, check, report, timer>>

\* Filtering, network and resolver change at any time.
WorldChanges ==
    /\ \/ world' = [world EXCEPT !.ping = ~@]
       \/ \E d \in Domains, r \in Replies : world' = [world EXCEPT !.reply[d] = r]
       \/ \E d \in Restricted, l \in Layers : world' = [world EXCEPT !.layer[d] = l]
    /\ world' # world
    /\ check' = IF Running THEN [check EXCEPT !.steady = FALSE] ELSE check
    /\ report' = [report EXCEPT !.current = FALSE]
    /\ diagnosis' = NoReport
    /\ UNCHANGED timer

Probes == Ping \/ (\E d \in Domains : ProbeDomain(d)) \/ Finish

HealthNext ==
    \/ StartHealth \/ StopHealth \/ TimerFires \/ Ask \/ Diagnose
    \/ Probes
    \/ WorldChanges

HealthSpec == HealthInit /\ [][HealthNext]_healthVars

\* The probes have time-outs, and the interval fires.
HealthFairSpec == HealthSpec /\ WF_healthVars(Probes) /\ WF_healthVars(TimerFires)
-----------------------------------------------------------------------------
(* Properties. *)

\* The state is well typed, a check probes the safe domains only, and an outcome
\* is one of the seven of DnsStatus.
HealthTypeOK ==
    /\ world \in Worlds
    /\ check \in [phase : Phases, ping : BOOLEAN, todo : SUBSET Safe, steady : BOOLEAN,
                  ev : [Domains -> Judgements]]
    /\ {report, diagnosis} \subseteq Outcome \cup {NoReport}
    /\ timer \in BOOLEAN

\* The domain resolves for somebody who uses the filtering resolver.
Passes(d) == /\ "refused" \notin {world.reply[d][1], world.reply[d][2]}
             /\ world.reply[d] # <<"failed", "failed">>

\* As long as the world is as the check found it, the report of the app says the
\* truth about what it probed: DEGRADED exactly without CleanBrowsing, otherwise
\* TAMPERING_SUSPECTED exactly if a safe domain does not pass, and an app check,
\* which skips the restricted domains, says nothing worse or better
\* (DnsValidator.runFullValidation behind DnsHealthMonitor.runHealthCheck).
ReportIsTrue ==
    report.current =>
        /\ report.status \in {"HEALTHY", "DEGRADED", "TAMPERING_SUSPECTED"}
        /\ report.status = "DEGRADED" <=> ~world.ping
        /\ report.status = "HEALTHY" <=> world.ping /\ \A d \in Safe : Passes(d)

\* Nothing keeps a user from a restricted domain: no query of it is refused and
\* no other layer stands in the way.
Open(d) == /\ "refused" \notin {world.reply[d][1], world.reply[d][2]}
           /\ world.layer[d] = "none"

\* The two holes of the diagnoses.  A candidate for a provider miss whose queries
\* both fail counts neither as a miss nor as blocked; and the JSON reader takes an
\* answer without a real address for a block, so an open domain that has no AAAA
\* record passes as blocked (dohHealth.js:44, domainProtection.js:94).
Silent(d) == d \in Miss /\ world.reply[d] = <<"failed", "failed">>
ReadAsBlocked(d) == {world.reply[d][1], world.reply[d][2]} \cap {"nodata", "sinkhole"} # {}

\* A diagnosis that calls the protection active finds no restricted domain open,
\* but for these holes, the second of which only health-doh has.
DiagnosisFindsOpenDomains ==
    diagnosis.current =>
        /\ diagnosis.status \in ActiveStatuses =>
             \A d \in Restricted : Open(d) => Silent(d)
        /\ diagnosis.final # "failed" =>
             \A d \in Restricted : Open(d) => Silent(d) \/ ReadAsBlocked(d)

\* If the world comes to rest while the monitor runs, the report is about it in
\* the end, whatever check was under way when it changed: the single-flight guard
\* of runHealthCheck, which answers with an old report, delays the news only.
NewsArrives == (<>[][UNCHANGED world]_world /\ <>[]timer) => <>[]report.current
===============================================================================
