------------------------------ MODULE DnsVerdict ------------------------------
(***************************************************************************)
(* services/dns: how the answers of the resolvers become a verdict on the   *)
(* protection.  Pure functions: dohHealth.js reads one answer,              *)
(* domainProtection.js judges one domain and sums the domains up,           *)
(* DnsValidator.js turns the sum into a status.                             *)
(***************************************************************************)
EXTENDS FiniteSets

CONSTANTS Safe, Adult, Miss      \* FILTER_TESTS: what must pass, what must not

ASSUME DomainsAreDisjoint ==
    /\ Safe \cap Adult = {} /\ Safe \cap Miss = {} /\ Adult \cap Miss = {}
    /\ IsFiniteSet(Safe) /\ IsFiniteSet(Adult) /\ IsFiniteSet(Miss)

Restricted == Adult \cup Miss
Domains == Safe \cup Restricted

\* One DoH answer: an error code without records, the address 0.0.0.0, real
\* addresses, no record of the type asked for, or no answer at all.
Kinds == {"refused", "sinkhole", "addresses", "nodata", "failed"}

\* The wire format: only an error code blocks, 0.0.0.0 counts as an address.
Wire(k) == [reachable |-> k # "failed",
            blocked   |-> k = "refused",
            resolved  |-> k \in {"sinkhole", "addresses"}]

\* The JSON format: every answer without a real address blocks.
Json(k) == [reachable |-> k # "failed",
            blocked   |-> k \in {"refused", "sinkhole", "nodata"},
            resolved  |-> k = "addresses"]

Read(format, k) == IF format = "wire" THEN Wire(k) ELSE Json(k)

\* The formats of an A and an AAAA answer.  A DoH client asks for the wire format;
\* without one the query asks for JSON, and for the wire format if that is
\* answered with an error status or cannot be parsed.
Formats == {"wire", "json"} \X {"wire", "json"}
WireClient == <<"wire", "wire">>

\* The A and the AAAA answer of a domain taken together.
Merged(format, reply) ==
    LET a == Read(format[1], reply[1])
        b == Read(format[2], reply[2])
    IN  [reachable |-> a.reachable \/ b.reachable,
         blocked   |-> a.blocked \/ b.blocked,
         resolved  |-> a.resolved \/ b.resolved]

\* What blocks a domain that DoH lets pass: the resolver of the system, or a
\* web site that cannot be reached.  The hosts layer is switched off.
FallbackBlocks(w, d, https) ==
    \/ w.layer[d] = "resolver"
    \/ https /\ w.layer[d] = "https"

\* evaluateDomainProtection
Judge(w, d, format, https) ==
    LET q == Merged(format, w.reply[d])
        caught == FallbackBlocks(w, d, https)
        status == IF q.reachable /\ q.blocked THEN IF d \in Restricted THEN "blocked_by_doh" ELSE "error"
                  ELSE IF d \in Safe THEN "allowed"
                  ELSE IF d \in Restricted /\ caught THEN "blocked_by_fallback"
                  ELSE IF q.reachable THEN "allowed"
                  ELSE "error"
    IN  [reachable |-> q.reachable, status |-> status]

Blocked(e) == e.status \in {"blocked_by_doh", "blocked_by_fallback"}
ProviderMiss(e) == e.reachable /\ e.status # "blocked_by_doh"
NotJudged == [reachable |-> FALSE, status |-> "skipped"]

\* runDohHealthSummary, over the judgements ev of all domains.  Mutants: a safe
\* domain passes when the resolver is silent; a miss is never critical.
SafeAllowedUnreachable(ev) == \A d \in Safe : ev[d].status = "allowed"
CriticalAdultOnly(ev) == {d \in Adult : ~Blocked(ev[d])}

SafeAllowed(ev) == \A d \in Safe : ev[d].reachable /\ ev[d].status = "allowed"
AdultByDoh(ev) == \A d \in Adult : ev[d].status = "blocked_by_doh"
Misses(ev) == {d \in Miss : ProviderMiss(ev[d])}
Critical(ev) == {d \in Adult \cup Misses(ev) : ~Blocked(ev[d])}

Summary(ping, skip, ev) ==
    LET misses == IF skip THEN {} ELSE Misses(ev)
        known == IF skip THEN ping /\ SafeAllowed(ev) ELSE AdultByDoh(ev)
    IN  IF ~skip /\ Critical(ev) # {} THEN "failed"
        ELSE IF ~ping THEN IF skip /\ ~SafeAllowed(ev) THEN "failed" ELSE "degraded"
        ELSE IF ~known \/ ~SafeAllowed(ev) THEN "degraded"
        ELSE IF misses = {} THEN "healthy" ELSE "healthy_with_provider_misses"

\* Mutant: the sum is not mapped to a status of DnsStatus.
ValidationUnmapped(ping, skip, ev, policy, agree) == Summary(ping, skip, ev)

\* runFullValidation; policy and agree are the results of its second probes.
Validation(ping, skip, ev, policy, agree) ==
    LET final == Summary(ping, skip, ev)
    IN  IF ~skip /\ final = "failed" THEN "FAILED"
        ELSE IF ~ping THEN IF skip \/ policy THEN "DEGRADED" ELSE "CLEANBROWSING_UNREACHABLE"
        ELSE IF ~skip /\ ~agree THEN "FAILED"
        ELSE IF ~skip /\ ~AdultByDoh(ev) THEN "FILTERING_INACTIVE"
        ELSE IF ~SafeAllowed(ev) THEN "TAMPERING_SUSPECTED"
        ELSE IF final = "healthy" THEN "HEALTHY"
        ELSE IF final = "healthy_with_provider_misses" THEN "HEALTHY_WITH_PROVIDER_MISSES"
        ELSE "DEGRADED"

\* runPolicyTests: every restricted domain, web site included.
PolicyOk(w) == \A d \in Restricted : Blocked(Judge(w, d, WireClient, TRUE))

\* runConsistencyTests: no provider miss that both resolvers let pass.
Consistent(w) == \A d \in Miss : ~(Wire(w.reply[d][1]).resolved /\ w.layer[d] # "resolver")

Statuses == {"HEALTHY", "HEALTHY_WITH_PROVIDER_MISSES", "DEGRADED", "FAILED", "FILTERING_INACTIVE",
             "CLEANBROWSING_UNREACHABLE", "TAMPERING_SUSPECTED"}
ActiveStatuses == {"HEALTHY", "HEALTHY_WITH_PROVIDER_MISSES", "DEGRADED"}
===============================================================================
