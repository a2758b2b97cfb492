---------------------------- MODULE FirewallRules ----------------------------
(***************************************************************************)
(* The rules NetFast keeps in the Windows firewall: firewall.js with        *)
(* dnsBypassFirewall.js, processExclusions.js and developerFirewall.js.     *)
(* A lockdown in the worker thread cleans, ensures and lists them, group    *)
(* after group; the main process renews some of them on a poll and takes    *)
(* all of them down at the end of a challenge or of the process, and the    *)
(* two are not synchronised.  The rules outlive every process.              *)
(*                                                                         *)
(* A worker step is the commands of one group of rules.  The commands that  *)
(* fail are chosen; they and what the user does are bounded by MaxEvents.   *)
(* With no active challenge most commands are skipped and count as done,    *)
(* those of the optional rules are run all the same.                        *)
(* Testing mode is like developer mode here, repair mode like strict mode.  *)
(***************************************************************************)
EXTENDS Naturals

CONSTANTS
    Doh,          \* NetFast-DNS-Allow-TCP-443-*
    Plain,        \* NetFast-DNS-Allow-UDP/TCP-53-*
    Bypass,       \* NetFast-DNS-Block-Bypass-*
    Raw,          \* "NetFast Block Direct DNS ...", the rules of dnsBypassFirewall.js
    Global,       \* NetFast-DNS-Block-UDP/TCP-53-Other, left by an older version
    Programs,     \* programs that get optional rules when they are found
    MaxEvents     \* bound: failing commands, kills and acts of the user

VARIABLES
    rules,        \* [Rule -> absent, off or on]: the firewall of the machine
    schema,       \* firewall-schema.json: no file, cleaned today, cleaned long ago
    mode,         \* NETFAST_POLICY_MODE of this process
    active,       \* the saved challenge is active
    found,        \* the programs that can be discovered now
    worker,       \* the lockdown in the worker thread
    verdict,      \* the verdict of the last lockdown of this process
    main,         \* the main process: its removal, and what it remembers
    events,
    (* History, read by the properties. *)
    disturbed,    \* something came between the lockdown and its rules
    removed       \* a removal met no failure and no lockdown, and none began since

vars == <<rules, schema, mode, active, found, worker, verdict, main, events, disturbed, removed>>

Core == Doh \cup Plain
Exempt == {"exempt"} \X Programs
Dev == {"dev"} \X (Programs \cup {"localhost"})
Expected == Core \cup Bypass \cup Raw
Rule == Expected \cup Global \cup Exempt \cup Dev

\* The groups are told apart by the names of their rules, and there are resolvers.
ASSUME FirewallAssumption ==
    /\ MaxEvents \in Nat
    /\ Core \cup Bypass # {}
    /\ Raw \cap (Core \cup Bypass) = {} /\ Global \cap Expected = {}
    /\ (Expected \cup Global) \cap (Exempt \cup Dev) = {}

Present == {r \in Rule : rules[r] # "absent"}
Off == {r \in Rule : rules[r] = "off"}

Idle == [phase |-> "idle", by |-> "startup", failed |-> {}, rawOk |-> FALSE, list |-> {},
         locked |-> FALSE]
Phases == {"idle", "begin", "schema", "clean", "core", "bypass", "raw", "exempt", "dev",
           "list", "judge", "deferred", "mock", "fast"}
Reasons == {"startup", "reapply", "other"}
Removals == {"no", "exempt", "dev", "stale", "raw", "rest"}

TypeOK ==
    /\ rules \in [Rule -> {"absent", "off", "on"}]
    /\ schema \in {"none", "fresh", "old"}
    /\ mode \in {"strict", "developer"} /\ active \in BOOLEAN /\ found \subseteq Programs
    /\ worker \in [phase : Phases, by : Reasons, failed : SUBSET Rule, rawOk : BOOLEAN,
                   list : SUBSET Rule, locked : BOOLEAN]
    /\ verdict \in {"none", "open", "locked", "fast", "mock"}
    /\ main \in [booted : BOOLEAN, applied : BOOLEAN, watch : BOOLEAN, failed : BOOLEAN,
                 quitting : BOOLEAN, removal : Removals, whole : BOOLEAN]
    /\ events \in 0..MaxEvents /\ disturbed \in BOOLEAN /\ removed \in BOOLEAN

Started == [booted |-> FALSE, applied |-> FALSE, watch |-> FALSE, failed |-> FALSE,
            quitting |-> FALSE, removal |-> "no", whole |-> FALSE]

Init ==
    /\ \E old \in SUBSET Global : rules = [r \in Rule |-> IF r \in old THEN "on" ELSE "absent"]
    /\ schema = "none" /\ mode \in {"strict", "developer"} /\ active = TRUE /\ found = {}
    /\ worker = Idle /\ verdict = "none" /\ main = Started
    /\ events = 0 /\ disturbed = FALSE /\ removed = FALSE

-----------------------------------------------------------------------------
Event == events < MaxEvents /\ events' = events + 1

\* Some of the commands for rs fail; those that do not find a rule cannot.
Failing(rs, bad) == bad \subseteq rs /\ (IF bad = {} THEN UNCHANGED events ELSE Event)

Without(rs) == [r \in Rule |-> IF r \in rs THEN "absent" ELSE rules[r]]
With(rs) == [r \in Rule |-> IF r \in rs THEN "on" ELSE rules[r]]

\* Mutant: a rule that exists is left as it is.
EnsuredIfAbsent(rs) == [r \in Rule |-> IF r \in rs /\ rules[r] = "absent" THEN "on" ELSE rules[r]]

\* ensureFirewallRule: created if it is absent, enabled if it is off.  Without
\* an active challenge both commands are skipped and count as done.
Ensured(rs) == IF active THEN With(rs) ELSE rules

\* verifyRawDnsBlockRules reads whether a rule is enabled; skipped, it finds none.
RawBlocked == active /\ \A r \in Raw : rules[r] = "on"

\* verifyFirewall looks for names in the list of rules: a disabled rule is there.
Verified(list) == Core \cup Bypass \subseteq list /\ list \cap Global = {}
FirewallLocked == Verified(Present) /\ RawBlocked

\* applyRawDnsBlockRules: a rule that cannot be created or enabled has all of
\* them removed, also those that were there before; a removal may fail, too.
\* Skipped, the first rule counts as failed and nothing is removed.
RawApplied == active /\ rules' = With(Raw) /\ UNCHANGED events
RawFails ==
    \/ ~active /\ UNCHANGED <<rules, events>>
    \/ /\ active /\ \E r \in Raw : rules[r] # "on"
       /\ Event
       /\ \E left \in SUBSET (Raw \cap Present) : rules' = Without(Raw \ left)

\* The optional rules of a group are taken down and made again for what was
\* found; kept and missed are those whose command fails.
Renewed(group, wanted, kept, missed) ==
    [r \in Rule |-> IF r \notin group THEN rules[r]
                    ELSE IF r \in wanted \ missed THEN "on"
                    ELSE IF r \in kept THEN rules[r] ELSE "absent"]
ExemptFor(programs) == {r \in Exempt : active /\ r[2] \in programs}
DevFor(programs) == {r \in Dev : active /\ r[2] \in programs \cup {"localhost"}}
Renew(group, wanted) ==
    \E kept \in SUBSET (group \cap Present), missed \in SUBSET wanted :
        /\ IF kept \cup missed = {} THEN UNCHANGED events ELSE Event
        /\ rules' = Renewed(group, wanted, kept, missed)
        /\ disturbed' = (disturbed \/ kept # {})
-----------------------------------------------------------------------------
(* The lockdown, in the worker thread *)

Go(phase) == worker' = [worker EXCEPT !.phase = phase]

Working(phase) == worker.phase = phase /\ UNCHANGED <<mode, active, found, main, removed>>

\* runLockdown: one at a time, and a mock without an active challenge.
Begin(reason) ==
    /\ worker.phase = "idle" /\ main.removal = "no" /\ ~main.failed /\ ~main.quitting /\ active
    /\ worker' = [Idle EXCEPT !.phase = "begin", !.by = reason]
    /\ verdict' = "none" /\ disturbed' = FALSE /\ removed' = FALSE
    /\ UNCHANGED <<rules, schema, mode, active, found, events>>

\* main.js at start-up, if a challenge is active
Boot == ~main.booted /\ active /\ main' = [main EXCEPT !.booted = TRUE] /\ Begin("startup")
BootUnlocked ==
    /\ ~main.booted /\ ~active /\ main' = [main EXCEPT !.booted = TRUE]
    /\ UNCHANGED <<rules, schema, mode, active, found, worker, verdict, events, disturbed, removed>>

\* A re-apply; the watch or a request of the user
Again == main.booted /\ (\E reason \in {"reapply", "other"} : Begin(reason)) /\ UNCHANGED main

\* The worker returned; after the first lockdown and a re-apply the watch starts.
Done == main' = [main EXCEPT !.applied = TRUE, !.watch = @ \/ (worker.by # "other" /\ active)]

\* isEnforcementCompliant: the fast path needs adapters and Windows DoH, too.
Choose ==
    /\ Working("begin") /\ active
    /\ \/ Go("schema")
       \/ worker.by = "startup" /\ FirewallLocked /\ Go("fast")
    /\ UNCHANGED <<rules, schema, verdict, events, disturbed>>

\* buildMockLockdownResult: the challenge was over before the worker began.
MockLockdown ==
    /\ Working("begin") /\ ~active
    /\ worker' = Idle /\ verdict' = "mock"
    /\ UNCHANGED <<rules, schema, events, disturbed>>

\* The fast path verifies once more and changes no rule.
FastPath ==
    /\ worker.phase = "fast"
    /\ verdict' = IF FirewallLocked THEN "fast" ELSE "open"
    /\ worker' = Idle /\ Done
    /\ UNCHANGED <<rules, schema, mode, active, found, events, disturbed, removed>>

\* shouldCleanStaleFirewallRules: the time of the cleanup is saved before it.
CheckSchema ==
    /\ Working("schema")
    /\ IF ~active THEN Go("mock") /\ UNCHANGED schema
       ELSE /\ schema' = "fresh"
            /\ Go(IF schema = "fresh" THEN "core" ELSE "clean")
    /\ UNCHANGED <<rules, verdict, events, disturbed>>

\* removeStaleFirewallRules, and all rules that allow plain DNS
Clean ==
    /\ Working("clean")
    /\ \E left \in SUBSET (Global \cup Plain) :
         /\ Failing(Present, left)
         /\ rules' = IF active THEN Without((Global \cup Plain) \ left) ELSE rules
    /\ Go("core")
    /\ UNCHANGED <<schema, verdict, disturbed>>

\* Rules that are not on may fail to be created or enabled.
Ensure(phase, rs, next) ==
    /\ Working(phase)
    /\ \E bad \in SUBSET {r \in rs : active /\ rules[r] # "on"} :
         /\ Failing(rs, bad)
         /\ rules' = Ensured(rs \ bad)
         /\ worker' = [worker EXCEPT !.phase = next, !.failed = @ \cup bad]
    /\ UNCHANGED <<schema, verdict, disturbed>>

EnsureCore == Ensure("core", Core, "bypass")
EnsureBypass == Ensure("bypass", Bypass, "raw")

EnsureRaw ==
    /\ Working("raw")
    /\ \/ RawApplied /\ worker' = [worker EXCEPT !.phase = "exempt", !.rawOk = TRUE]
       \/ RawFails /\ Go("exempt")
    /\ UNCHANGED <<schema, verdict, disturbed>>

ApplyExempt ==
    /\ Working("exempt")
    /\ Renew(Exempt, ExemptFor(found))
    /\ Go("dev")
    /\ UNCHANGED <<schema, verdict>>

\* Mutant: in strict mode the developer rules are left alone.
ApplyDevLeaves ==
    /\ Working("dev")
    /\ IF mode = "developer" THEN Renew(Dev, DevFor(found)) ELSE UNCHANGED <<rules, events, disturbed>>
    /\ Go("list")
    /\ UNCHANGED <<schema, verdict>>

\* applyDeveloperFirewallRules, or the removal of what an earlier mode left
ApplyDev ==
    /\ Working("dev")
    /\ Renew(Dev, IF mode = "developer" THEN DevFor(found) ELSE {})
    /\ Go("list")
    /\ UNCHANGED <<schema, verdict>>

\* listOurRules: a command that fails lists nothing.
ListRules ==
    /\ Working("list")
    /\ \/ worker' = [worker EXCEPT !.phase = "judge", !.list = Present] /\ UNCHANGED events
       \/ Event /\ worker' = [worker EXCEPT !.phase = "judge", !.list = {}]
    /\ UNCHANGED <<rules, schema, verdict, disturbed>>

Judge ==
    /\ Working("judge")
    /\ worker' = [worker EXCEPT !.phase = "deferred",
                    !.locked = /\ Verified(worker.list) /\ worker.failed = {}
                               /\ RawBlocked /\ worker.rawOk]
    /\ UNCHANGED <<rules, schema, verdict, events, disturbed>>

\* runDeferredEnforcementVerificationSync may take the raw rules down after the
\* verdict; then the result goes to the main process.
Deferred ==
    /\ worker.phase = "deferred"
    /\ \/ UNCHANGED <<rules, events, disturbed>>
       \/ /\ worker.rawOk /\ active /\ Event
          /\ \E left \in SUBSET Raw : rules' = Without(Raw \ left)
          /\ disturbed' = TRUE
    /\ verdict' = IF worker.locked THEN "locked" ELSE "open"
    /\ worker' = Idle /\ Done
    /\ UNCHANGED <<schema, mode, active, found, removed>>

\* getMockFirewallResult: the challenge was over before its rules were reached.
Mock ==
    /\ worker.phase = "mock"
    /\ verdict' = "mock" /\ worker' = Idle /\ Done
    /\ UNCHANGED <<rules, schema, mode, active, found, events, disturbed, removed>>

Worker ==
    \/ Choose \/ MockLockdown \/ FastPath \/ CheckSchema \/ Clean \/ EnsureCore \/ EnsureBypass \/ EnsureRaw
    \/ ApplyExempt \/ ApplyDev \/ ListRules \/ Judge \/ Deferred \/ Mock
-----------------------------------------------------------------------------
(* The main process *)

Watching ==
    /\ main.watch /\ ~main.failed /\ ~main.quitting /\ active
    /\ worker.phase = "idle" /\ main.removal = "no"

\* The housekeeping of a poll: optional rules for programs that have none yet ...
RefreshExempt ==
    /\ Watching /\ ~(ExemptFor(found) \subseteq Present)
    /\ Renew(Exempt, ExemptFor(found))
    /\ UNCHANGED <<schema, mode, active, found, worker, verdict, main, removed>>

RefreshDev ==
    /\ Watching /\ mode = "developer" /\ ~(DevFor(found) \ DevFor({}) \subseteq Present)
    /\ Renew(Dev, DevFor(found))
    /\ UNCHANGED <<schema, mode, active, found, worker, verdict, main, removed>>

\* ... and the raw rules, all or none, if one is missing or off.
RefreshRaw ==
    /\ Watching /\ ~RawBlocked
    /\ \/ RawApplied /\ UNCHANGED disturbed
       \/ RawFails /\ disturbed' = TRUE
    /\ UNCHANGED <<schema, mode, active, found, worker, verdict, main, removed>>

\* removeDnsFirewall, from failChallenge, and from a quit that has to clean up.
BeginRemoval ==
    /\ main.booted /\ main.removal = "no"
    /\ \/ ~main.failed /\ (main.applied \/ active)
          /\ main' = [main EXCEPT !.failed = TRUE, !.removal = "exempt",
                                  !.whole = active /\ worker.phase = "idle"]
       \/ ~main.quitting /\ main.applied /\ active
          /\ main' = [main EXCEPT !.quitting = TRUE, !.removal = "exempt",
                                  !.whole = worker.phase = "idle"]
    /\ disturbed' = TRUE
    /\ UNCHANGED <<rules, schema, mode, active, found, worker, verdict, events, removed>>

\* One part of it: the rules are listed and removed, unless a command fails.
\* Skipped commands remove nothing; those of the optional rules are never skipped.
Remove(phase, rs, skipped, next) ==
    /\ main.removal = phase
    /\ \E left \in SUBSET (rs \cap Present) :
         /\ Failing(Present, left)
         /\ rules' = IF skipped THEN rules ELSE Without(rs \ left)
         /\ main' = [main EXCEPT !.removal = next, !.whole = @ /\ left = {} /\ active]
    /\ UNCHANGED <<schema, mode, active, found, worker, verdict, disturbed>>

RemoveExempt == Remove("exempt", Exempt, FALSE, "dev") /\ UNCHANGED removed
RemoveDev == Remove("dev", Dev, FALSE, "stale") /\ UNCHANGED removed
RemoveStale == Remove("stale", Global, ~active, "raw") /\ UNCHANGED removed

\* Mutant: the raw rules are forgotten.
RemoveRawNot == Remove("raw", {}, ~active, "rest") /\ UNCHANGED removed

RemoveRaw == Remove("raw", Raw, ~active, "rest") /\ UNCHANGED removed

\* The rest by their prefix, which the raw rules do not have.
RemoveRest ==
    /\ Remove("rest", Rule \ Raw, ~active, "no")
    /\ removed' = main'.whole

Removal == RemoveExempt \/ RemoveDev \/ RemoveStale \/ RemoveRaw \/ RemoveRest

\* Killed, or quit: the next process may have another mode.
Restart ==
    /\ main.booted /\ (IF main.quitting /\ main.removal = "no" THEN UNCHANGED events ELSE Event)
    /\ main' = Started /\ worker' = Idle /\ verdict' = "none" /\ disturbed' = TRUE
    /\ mode' \in {"strict", "developer"}
    /\ UNCHANGED <<rules, schema, active, found, removed>>
-----------------------------------------------------------------------------
(* The world *)

\* "sync-challenge-state"
SyncChallenge ==
    /\ Event /\ active' = ~active /\ disturbed' = TRUE
    /\ UNCHANGED <<rules, schema, mode, found, worker, verdict, main, removed>>

\* A rule is disabled or deleted by hand.
Tamper(r) ==
    /\ Event /\ rules[r] # "absent"
    /\ rules' \in {Without({r}), [rules EXCEPT ![r] = "off"]}
    /\ disturbed' = TRUE
    /\ UNCHANGED <<schema, mode, active, found, worker, verdict, main, removed>>

ProgramsChange ==
    /\ Event /\ found' \in SUBSET Programs \ {found}
    /\ UNCHANGED <<rules, schema, mode, active, worker, verdict, main, disturbed, removed>>

DayPasses ==
    /\ schema = "fresh" /\ schema' = "old"
    /\ UNCHANGED <<rules, mode, active, found, worker, verdict, main, events, disturbed, removed>>

World == SyncChallenge \/ (\E r \in Rule : Tamper(r)) \/ ProgramsChange \/ DayPasses

Next ==
    \/ Boot \/ BootUnlocked \/ Again \/ Worker
    \/ RefreshExempt \/ RefreshDev \/ RefreshRaw
    \/ BeginRemoval \/ Removal \/ Restart
    \/ World

Spec == Init /\ [][Next]_vars
-----------------------------------------------------------------------------
(* "Protected" is shown for this verdict: every allow and block rule is then   *)
(* there and enabled and the block-all rules of older versions are gone, also *)
(* when rules had been disabled before, when commands failed, when the        *)
(* cleanup took allow rules away first or when it was not due - unless        *)
(* someone took rules away after the lockdown began (applyDnsFirewall).       *)
LockedIsTrue ==
    verdict = "locked" /\ ~disturbed =>
        /\ \A r \in Expected : rules[r] = "on"
        /\ Global \cap Present = {}

(* A removal in which no command fails, that meets no lockdown and an active  *)
(* challenge leaves no rule of NetFast behind: not those of another policy    *)
(* mode, of an older version, of a program that is gone, of a lockdown that   *)
(* was killed, nor the raw ones that have no common prefix                    *)
(* (removeDnsFirewall).                                                       *)
RemovalIsComplete == removed => Present = {}

(* After a whole lockdown in strict mode no developer exception of an earlier *)
(* process is in force (DEVELOPER_MODE.md:326-333).                           *)
ExceptionsEndWithTheMode ==
    verdict \in {"locked", "open"} /\ mode = "strict" /\ ~disturbed => Dev \cap Present = {}
=============================================================================
