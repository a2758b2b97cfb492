--------------------------- MODULE ProtectionStatus ---------------------------
(***************************************************************************)
(* What the app says of the protection, as functions of what is wrong with  *)
(* the machine: dns.js (the audit, the verification), watchdog.js (the full *)
(* check), functionalDnsVerification.js (the probe), policyMode.js and the  *)
(* badge that ipc.js and the dashboard make of it.                          *)
(*                                                                         *)
(* A machine is the set of what is wrong with it.  An app report of the     *)
(* DnsHealthMonitor is "healthy", "degraded", "failing" or "none" yet       *)
(* (module DnsHealth: it asks CleanBrowsing itself, not the machine's       *)
(* resolver).  The diagnosis of MongoDB, Docker and WSL is left out.        *)
(***************************************************************************)

Faults == {
    "ipv4", "ipv6",          \* an adapter without both servers of the family, or
                             \* with a public resolver of another provider
    "rogue4", "rogue6",      \* any other foreign server next to them
    "doh",                   \* the DoH template of Windows
    "core", "bypass", "raw", \* a firewall rule of the kind is missing, or off
    "leak",                  \* the test domain has an address
    "unreachable",           \* CleanBrowsing does not answer over DoH
    "tampered",              \* it does, but a safe domain does not pass
    "firefox_doh", "chrome_doh", "ipv6_tunnel", "rogue_dns", "unknown_vpn"}

Modes == {"strict", "developer", "testing", "repair"}
Reports == {"none", "healthy", "degraded", "failing"}
Badges == {"protected", "warnings", "inactive", "developer", "applying"}

\* buildDnsAuditFromInterfaces: an adapter that needs a fix in one family unlocks
\* both.
Locked(m) == m \cap {"ipv4", "ipv6"} = {}

\* verifyFirewallAsync
FirewallClosed(m) == m \cap {"core", "bypass", "raw"} = {}

\* classifyBlockedDomainTest: an address leaks; a sinkhole, an error and no answer
\* in time all count as blocked.
Filters(m) == "leak" \notin m

\* The status of an app report, which skips the restricted domains.
Report(m) == IF "unreachable" \in m THEN "degraded"
             ELSE IF "tampered" \in m THEN "failing" ELSE "healthy"
ReportActive(h) == h \in {"healthy", "degraded"}

\* buildVerifyDnsResult, from the machine, the probe and the last report.
Verified(m, filters, h) ==
    [locked     |-> Locked(m),
     rogue      |-> m \cap {"rogue4", "rogue6"} # {},
     doh        |-> "doh" \notin m,
     closed     |-> FirewallClosed(m),
     functional |-> filters,
     filtering  |-> filters \/ ReportActive(h)]

\* verifyDnsFailureResult, when the verification throws; one of its checks that
\* fails alone counts as its own fault, but for the functional probe (Filters).
VerifyFailed == [locked |-> FALSE, rogue |-> FALSE, doh |-> FALSE, closed |-> FALSE,
                 functional |-> FALSE, filtering |-> FALSE]

VerifiedBlind(m, filters, h) ==
    {VerifyFailed, Verified(m, TRUE, h)}
    \cup {Verified(m \cup {f}, filters, h) : f \in {"ipv4", "doh", "core"}}

\* buildLockdownStatus: what counts is what the filter does, and the firewall.
LockdownOk(r) == r.functional /\ r.closed

\* buildProtectionUiStatus: a foreign server, an adapter, the template or an
\* unhealthy report only warn, and an active report alone, which says nothing of
\* this machine, keeps the badge from being "inactive".
Warns(r, h, mode) ==
    ~r.locked \/ r.rogue \/ ~r.doh \/ h = "failing" \/ mode = "developer"

State(r, h, mode) ==
    LET filtering == r.filtering \/ ReportActive(h)
    IN  IF LockdownOk(r) THEN (IF Warns(r, h, mode) THEN "warnings" ELSE "protected")
        ELSE IF filtering \/ r.functional THEN "warnings" ELSE "inactive"

\* getProtectionStatusForMode and DnsProtectionBadge: the label of developer mode
\* goes before the state.
Badge(r, h, mode) ==
    IF mode = "developer" /\ LockdownOk(r) THEN "developer" ELSE State(r, h, mode)

\* buildFullCheckResult: the violated vectors.  dns_filtering is not among them:
\* it looks at restricted domains, which the reports of the app skip.
FromDns(r, m) ==
    (IF r.locked /\ "rogue4" \notin m THEN {} ELSE {"dns_ipv4"})
    \cup (IF r.locked /\ "rogue6" \notin m THEN {} ELSE {"dns_ipv6"})
    \cup (IF r.doh THEN {} ELSE {"windows_doh"})

\* checkFirefoxDoH, checkChromiumDoH, verifyTeredoDisabledAsync,
\* checkRogueDNSAsync and checkUnknownVpnAsync: each finds its own fault.
Browsers == {"firefox_doh", "chrome_doh"}
Listeners == {"rogue_dns"}
Tunnels == {"ipv6_tunnel"}
Vpns == {"unknown_vpn"}

Violated(m, r) == FromDns(r, m) \cup (m \cap (Browsers \cup Listeners \cup Tunnels \cup Vpns))

\* A probe that fails finds nothing, but for the one of the tunnels.
Probes == {Browsers, Listeners, Tunnels, Vpns}
ViolatedBlind(m, r, probe) == (Violated(m, r) \ probe) \cup (Tunnels \cap probe)

Vectors == {"dns_ipv4", "dns_ipv6", "windows_doh"} \cup Browsers \cup Listeners \cup Tunnels \cup Vpns
===============================================================================
