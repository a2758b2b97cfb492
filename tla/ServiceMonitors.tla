--------------------------- MODULE ServiceMonitors ---------------------------
(***************************************************************************)
(* What the checks of the background service see of the machine, and when: *)
(* the monitors under service/monitors with util/commandRunner.js, below    *)
(* the checks of ProtectionChecks.  There are three kinds of monitors:      *)
(*   Listed  a PowerShell listing (VPN adapters, virtual machines), cached  *)
(*           for a second less than the period of its timer and shared by   *)
(*           the checks that want it at the same time;                      *)
(*   Probed  a DNS query of the check's own, its verdict the only one that  *)
(*           counts (the configured servers end up in the text);            *)
(*   Files   read at once (the hosts file, the browsers' preferences), the  *)
(*           hosts file also when the watcher reports a change.             *)
(*                                                                         *)
(* Time runs in units of the second the cache is shorter than a period;     *)
(* only ages are kept.  A check that has its result applies it before         *)
(* anything else, and the violation of a check is recorded before its timer fires *)
(* again (three attempts of ten seconds in a period of sixty).              *)
(***************************************************************************)
EXTENDS ProtectionChecks

CONSTANTS
    Period,       \* of every timer; the cache lives for Period - 1
    MaxDelay,     \* bound: how long a listing or a probe takes
    MaxFaults     \* bound: failing readings

ASSUME MonitorAssumption ==
    /\ Period \in Nat /\ MaxDelay \in 1..(Period - 1) /\ MaxFaults \in Nat
    /\ {"timer", "manual"} \subseteq Starters

TTL == Period - 1

\* The longest a lasting change can go unnoticed: a listing has just read the
\* adapters when it comes; it takes its time, its result is good for TTL, the
\* timer fires just before that is over, and a period later a new listing takes
\* its time, too.
Bound == MaxDelay + (TTL - 1) + Period + MaxDelay

VARIABLES
    kind,     \* [Vectors -> kind of its monitor], which never changes
    bad,      \* [Vectors -> BOOLEAN]: a VPN is up, the filter off, an entry in a file
    lasted,   \* [Vectors -> 0..Bound + 1]: for how long, with the service running
    cache,    \* [Vectors -> value and age of the cached listing]
    fetch,    \* [Vectors -> the listing that is running]
    sees,     \* [Checks -> what a check knows so far, and for how long it has run]
    due,      \* [Vectors -> 0..Period]: when the timer of a vector fires
    faults,
    (* History, read by the properties only. *)
    raised,   \* vectors with a violation for what is wrong with them now
    twice,    \* vectors with two
    misled    \* vectors of which a reading failed or came after a later one

machine == <<kind, bad, lasted, cache, fetch, sees, due, faults, raised, twice, misled>>

Listed == {v \in Vectors : kind[v] = "listed"}
Probed == {v \in Vectors : kind[v] = "probed"}
Files == {v \in Vectors : kind[v] = "file"}

Values == {"good", "bad"}
NoEntry == [age |-> TTL, value |-> "good"]
NoFetch == [on |-> FALSE, ran |-> 0, value |-> "unread"]
Blind == [value |-> "unread", ran |-> 0]
State(v) == IF bad[v] THEN "bad" ELSE "good"

MonitorsTypeOK ==
    /\ TypeOK
    /\ kind \in [Vectors -> {"listed", "probed", "file"}]
    /\ bad \in [Vectors -> BOOLEAN] /\ lasted \in [Vectors -> 0..(Bound + 1)]
    /\ cache \in [Vectors -> [age : 0..TTL, value : Values]]
    /\ fetch \in [Vectors -> [on : BOOLEAN, ran : 0..MaxDelay, value : Values \cup {"unread"}]]
    /\ sees \in [Checks -> [value : Values \cup {"unread"}, ran : 0..MaxDelay]]
    /\ due \in [Vectors -> 0..Period] /\ faults \in 0..MaxFaults
    /\ raised \subseteq Vectors /\ twice \subseteq Vectors /\ misled \subseteq Vectors

MonitorsInit ==
    /\ Init
    /\ kind \in [Vectors -> {"listed", "probed", "file"}]
    /\ bad = [v \in Vectors |-> FALSE] /\ lasted = [v \in Vectors |-> 0]
    /\ cache = [v \in Vectors |-> NoEntry] /\ fetch = [v \in Vectors |-> NoFetch]
    /\ sees = [c \in Checks |-> Blind] /\ due = [v \in Vectors |-> 0]
    /\ faults = 0 /\ raised = {} /\ twice = {} /\ misled = {}

-----------------------------------------------------------------------------
Fault == faults < MaxFaults /\ faults' = faults + 1

Probing(c) == check[c] = "probing"

\* Mutant: whoever finds an entry keeps it alive.
CachedRenewed(c) ==
    LET v == c[1] IN
    IF cache[v].age < TTL
      THEN /\ sees' = [sees EXCEPT ![c].value = cache[v].value]
           /\ cache' = [cache EXCEPT ![v].age = 0]
           /\ UNCHANGED fetch
      ELSE /\ fetch' = IF fetch[v].on THEN fetch ELSE [fetch EXCEPT ![v].on = TRUE]
           /\ UNCHANGED <<cache, sees>>

\* cached: an entry that is young enough, the listing that is running already, or
\* a new one.
Cached(c) ==
    LET v == c[1] IN
    IF cache[v].age < TTL
      THEN sees' = [sees EXCEPT ![c].value = cache[v].value] /\ UNCHANGED <<cache, fetch>>
      ELSE /\ fetch' = IF fetch[v].on THEN fetch ELSE [fetch EXCEPT ![v].on = TRUE]
           /\ UNCHANGED <<cache, sees>>

\* A check starts and asks its monitor.
Start(c) ==
    /\ CheckStart(c)
    /\ \/ c[1] \in Listed /\ Cached(c)
       \/ c[1] \in Probed /\ UNCHANGED <<cache, fetch, sees>>
       \/ /\ c[1] \in Files
          /\ sees' = [sees EXCEPT ![c].value = State(c[1])] /\ UNCHANGED <<cache, fetch>>
    /\ UNCHANGED <<kind, bad, lasted, faults, raised, twice, misled>>

Timer(v) ==
    /\ due[v] = 0 /\ due' = [due EXCEPT ![v] = Period]
    /\ Start(<<v, "timer">>)

\* POST /monitoring/check-now; the watcher of the hosts file
CheckNow(v) == Start(<<v, "manual">>) /\ UNCHANGED due

\* The command of a listing reads the adapters ...
ReadListing(v) ==
    /\ fetch[v].on /\ fetch[v].value = "unread"
    /\ fetch' = [fetch EXCEPT ![v].value = State(v)]
    /\ UNCHANGED <<vars, kind, bad, lasted, cache, sees, due, faults, raised, twice, misled>>

Waiting(v) == {c \in Checks : c[1] = v /\ Probing(c) /\ sees[c].value = "unread"}

\* ... and ends: its result is cached from now on and goes to all who wait.
EndListing(v) ==
    /\ fetch[v].value # "unread"
    /\ cache' = [cache EXCEPT ![v] = [age |-> 0, value |-> fetch[v].value]]
    /\ sees' = [c \in Checks |-> IF c \in Waiting(v) THEN [sees[c] EXCEPT !.value = fetch[v].value]
                                 ELSE sees[c]]
    /\ fetch' = [fetch EXCEPT ![v] = NoFetch]
    /\ UNCHANGED <<vars, kind, bad, lasted, due, faults, raised, twice, misled>>

\* It fails or takes too long: nothing is cached and the machine looks clean.
FailListing(v) ==
    /\ fetch[v].on /\ Fault
    /\ cache' = [cache EXCEPT ![v] = NoEntry]
    /\ sees' = [c \in Checks |-> IF c \in Waiting(v) THEN [sees[c] EXCEPT !.value = "good"]
                                 ELSE sees[c]]
    /\ fetch' = [fetch EXCEPT ![v] = NoFetch]
    /\ misled' = misled \cup {v}
    /\ UNCHANGED <<vars, kind, bad, lasted, due, raised, twice>>

\* resolveRestricted: the answer of the resolver in use.  No answer in time does
\* not count as blocked, so an outage of the network looks like a missing filter.
Probe(c) ==
    /\ c[1] \in Probed /\ Probing(c) /\ sees[c].value = "unread"
    /\ \/ /\ sees' = [sees EXCEPT ![c].value = State(c[1])]
          /\ UNCHANGED <<faults, misled>>
       \/ /\ Fault /\ misled' = misled \cup {c[1]}
          /\ sees' = [sees EXCEPT ![c].value = "bad"]
    /\ UNCHANGED <<vars, kind, bad, lasted, cache, fetch, due, raised, twice>>

\* The check has its result; another check of the vector that read the machine
\* earlier may still apply its own after this one.
Apply(c, challenge) ==
    LET v == c[1]
        good == sees[c].value = "good"
        alarms == Raises(v, good)
        late == {d \in Checks \ {c} : /\ v \in Probed /\ d[1] = v /\ Probing(d)
                                      /\ sees[d].value # "unread"}
    IN /\ sees[c].value # "unread"
       /\ CheckDone(c, good, challenge)
       /\ sees' = [sees EXCEPT ![c] = Blind]
       /\ raised' = IF alarms /\ bad[v] THEN raised \cup {v} ELSE raised
       /\ twice' = IF alarms /\ v \in raised THEN twice \cup {v} ELSE twice
       /\ misled' = IF late # {} THEN misled \cup {v} ELSE misled
       /\ UNCHANGED <<kind, bad, lasted, cache, fetch, due, faults>>

Recorded(c) == RecordDone(c) /\ UNCHANGED machine

\* The service dies and is started again, with an active challenge: timers and a
\* full pass start anew.
Restarted ==
    /\ Fault /\ Crash
    /\ cache' = [v \in Vectors |-> NoEntry] /\ fetch' = [v \in Vectors |-> NoFetch]
    /\ sees' = [c \in Checks |-> Blind] /\ due' = [v \in Vectors |-> 0]
    /\ lasted' = [v \in Vectors |-> 0]
    /\ UNCHANGED <<kind, bad, raised, twice, misled>>

\* A VPN is switched on or off, the filter, an entry in a file.
Change(v) ==
    /\ bad' = [bad EXCEPT ![v] = ~@]
    /\ lasted' = [lasted EXCEPT ![v] = 0]
    /\ raised' = raised \ {v} /\ twice' = twice \ {v}
    /\ UNCHANGED <<vars, kind, cache, fetch, sees, due, faults, misled>>

Older(n, limit) == IF n < limit THEN n + 1 ELSE n

Tick ==
    /\ \A v \in Vectors : due[v] > 0
    /\ \A v \in Listed : fetch[v].ran < MaxDelay
    /\ \A c \in Checks : sees[c].ran < MaxDelay
    /\ due' = [v \in Vectors |-> due[v] - 1]
    /\ cache' = [v \in Vectors |-> IF cache[v].age + 1 < TTL THEN [cache[v] EXCEPT !.age = @ + 1] ELSE NoEntry]
    /\ fetch' = [v \in Vectors |-> IF fetch[v].on THEN [fetch[v] EXCEPT !.ran = @ + 1] ELSE fetch[v]]
    /\ sees' = [c \in Checks |-> IF Probing(c) /\ c[1] \in Probed
                                   THEN [sees[c] EXCEPT !.ran = @ + 1] ELSE sees[c]]
    /\ lasted' = [v \in Vectors |-> IF bad[v] THEN Older(lasted[v], Bound + 1) ELSE 0]
    /\ UNCHANGED <<vars, kind, bad, faults, raised, twice, misled>>

\* A result that is there is applied before anything else happens; only an
\* answer to a probe may still be on its way.
Settled == \A c \in Checks : c[1] \in Probed \/ sees[c].value = "unread"

MonitorsNext ==
    \/ \E c \in Checks, challenge \in BOOLEAN : Apply(c, challenge)
    \/ /\ Settled
       /\ \/ \E v \in Vectors : Timer(v) \/ CheckNow(v) \/ Change(v)
          \/ \E v \in Listed : ReadListing(v) \/ EndListing(v) \/ FailListing(v)
          \/ \E c \in Checks : Probe(c) \/ Recorded(c)
          \/ Restarted \/ Tick

MonitorsSpec == MonitorsInit /\ [][MonitorsNext]_<<vars, machine>>
-----------------------------------------------------------------------------
(* What lasts is noticed: a VPN that stays up, a filter that stays off and an  *)
(* entry that stays in a file have raised their flag within two periods and    *)
(* two commands, although a check may be answered from the cache and every     *)
(* second one is when the command takes longer than a second                   *)
(* (commandRunner.js:55-74), unless a reading failed.                          *)
NoticedInTime == \A v \in Vectors \ misled : lasted[v] > Bound => ~ok[v]

(* One VPN session, one time without filter or one entry raises one violation, *)
(* with overlapping checks, cached and shared readings, unless a reading failed, *)
(* an earlier probe was applied after a later one, or a restart read flags that  *)
(* were not the latest (serviceManager.js:132-243).                            *)
OneAlarmPerSession == "behind" \notin hazard => twice \subseteq misled
=============================================================================
