------------------------ MODULE FirewallRules_proofs ------------------------
(***************************************************************************)
(* Proofs about FirewallRules for any groups of rules, any programs and    *)
(* any number of failing commands, kills and acts of the user.             *)
(***************************************************************************)
EXTENDS FirewallRules, TLAPS

-----------------------------------------------------------------------------
(* The inductive invariant. *)

On(rs) == \A r \in rs : rules[r] = "on"
Gone(rs) == \A r \in rs : rules[r] = "absent"
Busy == worker.phase # "idle"

AfterDev == {"list", "judge", "deferred"}
AfterBypass == {"raw", "exempt", "dev"} \cup AfterDev
AfterCore == {"bypass"} \cup AfterBypass

\* One lockdown or one removal at a time, but for a removal that meets a
\* lockdown: whatever that one reports, it has been disturbed.
OrderInv ==
    /\ Busy => verdict = "none"
    /\ Busy /\ ~disturbed => active
    /\ main.removal # "no" => disturbed /\ (main.failed \/ main.quitting)

\* What a lockdown nobody came between has made so far.
LockInv ==
    ~disturbed =>
      /\ worker.phase = "fast" => FirewallLocked
      /\ worker.phase \in AfterCore => On(Core \ worker.failed)
      /\ worker.phase \in AfterBypass => On(Bypass \ worker.failed)
      /\ worker.phase = "judge" => worker.list = {} \/ worker.list = Present
      /\ worker.phase = "deferred" /\ worker.locked => On(Expected) /\ Gone(Global)

DevInv ==
    ~disturbed /\ mode = "strict" /\ (worker.phase \in AfterDev \/ verdict \in {"locked", "open"})
      => Gone(Dev)

\* What a removal that has met nothing so far has taken down.
RemovalInv ==
    main.removal # "no" /\ main.whole =>
      /\ ~Busy
      /\ main.removal # "exempt" => Gone(Exempt)
      /\ main.removal \in {"stale", "raw", "rest"} => Gone(Dev)
      /\ main.removal \in {"raw", "rest"} => Gone(Global)
      /\ main.removal = "rest" => Gone(Raw)

\* Nothing makes rules after a removal but a new lockdown.
RemovedInv ==
    removed => Gone(Rule) /\ ~Busy /\ (~main.watch \/ main.failed \/ main.quitting)

IInv == TypeOK /\ OrderInv /\ LockInv /\ LockedIsTrue /\ DevInv /\ RemovalInv /\ RemovedInv

-----------------------------------------------------------------------------
(* The types *)

RulesType == [Rule -> {"absent", "off", "on"}]
WorkerType == [phase : Phases, by : Reasons, failed : SUBSET Rule, rawOk : BOOLEAN,
               list : SUBSET Rule, locked : BOOLEAN]
MainType == [booted : BOOLEAN, applied : BOOLEAN, watch : BOOLEAN, failed : BOOLEAN,
             quitting : BOOLEAN, removal : Removals, whole : BOOLEAN]
WorldOK == /\ schema \in {"none", "fresh", "old"} /\ mode \in {"strict", "developer"}
           /\ active \in BOOLEAN /\ found \subseteq Programs
HistoryOK == /\ verdict \in {"none", "open", "locked", "fast", "mock"}
             /\ events \in 0..MaxEvents /\ disturbed \in BOOLEAN /\ removed \in BOOLEAN

LEMMA Types ==
    TypeOK <=> /\ rules \in RulesType /\ worker \in WorkerType /\ main \in MainType
               /\ WorldOK /\ HistoryOK
  BY DEF TypeOK, RulesType, WorkerType, MainType, WorldOK, HistoryOK

\* The groups of the rules.
LEMMA Groups ==
    /\ Core \subseteq Rule /\ Bypass \subseteq Rule /\ Raw \subseteq Rule /\ Global \subseteq Rule
    /\ Exempt \subseteq Rule /\ Dev \subseteq Rule /\ Expected \subseteq Rule
    /\ Expected = Core \cup Bypass \cup Raw
    /\ Raw \cap Core = {} /\ Raw \cap Bypass = {} /\ Global \cap Expected = {}
    /\ Expected \cap Exempt = {} /\ Expected \cap Dev = {} /\ Global \cap Exempt = {}
    /\ Global \cap Dev = {} /\ Exempt \cap Dev = {}
    /\ Rule \ Raw \subseteq Core \cup Bypass \cup Global \cup Exempt \cup Dev
  <1>1. Exempt \cap Dev = {}
    BY DEF Exempt, Dev
  <1>2. QED
    BY <1>1, FirewallAssumption DEF Rule, Expected

\* The firewall after rules are taken down, made, or renewed.
LEMMA WithoutFacts ==
    ASSUME rules \in RulesType, NEW rs
    PROVE  /\ Without(rs) \in RulesType
           /\ \A r \in Rule : Without(rs)[r] = IF r \in rs THEN "absent" ELSE rules[r]
  BY DEF Without, RulesType

LEMMA WithFacts ==
    ASSUME rules \in RulesType, NEW rs
    PROVE  /\ With(rs) \in RulesType
           /\ \A r \in Rule : With(rs)[r] = IF r \in rs THEN "on" ELSE rules[r]
  BY DEF With, RulesType

LEMMA RenewedFacts ==
    ASSUME rules \in RulesType, NEW group, NEW wanted, NEW kept, NEW missed
    PROVE  /\ Renewed(group, wanted, kept, missed) \in RulesType
           /\ \A r \in Rule \ group : Renewed(group, wanted, kept, missed)[r] = rules[r]
           /\ wanted = {} /\ kept = {} => \A r \in Rule \cap group :
                Renewed(group, wanted, kept, missed)[r] = "absent"
  BY DEF Renewed, RulesType

\* A group is renewed and the others are left alone; rules of another mode that
\* stay are noted.
LEMMA RenewFacts ==
    ASSUME rules \in RulesType, NEW group \in SUBSET Rule, NEW wanted, Renew(group, wanted),
           disturbed \in BOOLEAN, events \in 0..MaxEvents
    PROVE  /\ rules' \in RulesType /\ \A r \in Rule \ group : rules'[r] = rules[r]
           /\ disturbed' \in BOOLEAN /\ events' \in 0..MaxEvents
           /\ ~disturbed' => ~disturbed
           /\ ~disturbed' /\ wanted = {} => \A r \in group : rules'[r] = "absent"
  <1>1. PICK kept \in SUBSET (group \cap Present), missed \in SUBSET wanted :
          /\ IF kept \cup missed = {} THEN UNCHANGED events ELSE Event
          /\ rules' = Renewed(group, wanted, kept, missed)
          /\ disturbed' = (disturbed \/ kept # {})
    BY DEF Renew
  <1>2. rules' \in RulesType /\ \A r \in Rule \ group : rules'[r] = rules[r]
    BY <1>1, RenewedFacts
  <1>3. disturbed' \in BOOLEAN /\ (~disturbed' => ~disturbed)
    BY <1>1, Zenon
  <1>4. events' \in 0..MaxEvents
    BY <1>1, FirewallAssumption DEF Event
  <1>5. ASSUME ~disturbed', wanted = {}
        PROVE  \A r \in group : rules'[r] = "absent"
    <2>1. kept = {}
      BY <1>1, <1>5, Zenon
    <2>2. QED
      BY <1>1, <1>5, <2>1, RenewedFacts
  <1>6. QED
    BY <1>2, <1>3, <1>4, <1>5

\* The raw rules are made, or some command fails and they are taken down.
LEMMA RawFacts ==
    ASSUME rules \in RulesType, events \in 0..MaxEvents, RawApplied \/ RawFails
    PROVE  /\ rules' \in RulesType /\ events' \in 0..MaxEvents
           /\ \A r \in Rule \ Raw : rules'[r] = rules[r]
           /\ RawApplied => \A r \in Raw : rules'[r] = "on"
  <1>1. CASE RawApplied
    BY <1>1, WithFacts, Groups DEF RawApplied
  <1>2. CASE RawFails /\ ~active
    BY <1>2 DEF RawFails, RawApplied
  <1>3. CASE RawFails /\ active /\ ~RawApplied
    <2>1. PICK left \in SUBSET (Raw \cap Present) : rules' = Without(Raw \ left)
      BY <1>3 DEF RawFails
    <2>2. Event
      BY <1>3 DEF RawFails
    <2>3. QED
      BY <1>3, <2>1, <2>2, WithoutFacts, FirewallAssumption DEF Event, RawApplied
  <1>4. QED
    BY <1>1, <1>2, <1>3 DEF RawApplied

LEMMA EventFacts ==
    ASSUME events \in 0..MaxEvents
    PROVE  /\ Event => events' \in 0..MaxEvents
           /\ \A rs, bad : Failing(rs, bad) => events' \in 0..MaxEvents
  BY FirewallAssumption DEF Event, Failing

LEMMA IdleFacts ==
    /\ Idle \in WorkerType /\ Idle.phase = "idle"
    /\ Started \in MainType /\ Started.removal = "no" /\ Started.watch = FALSE
  BY DEF Idle, Started, WorkerType, MainType, Phases, Reasons, Removals

\* The records of the worker and of the main process with some fields changed.
LEMMA WorkerFields ==
    ASSUME NEW w \in WorkerType, NEW p \in Phases, NEW rs \in SUBSET Rule, NEW b \in BOOLEAN
    PROVE  /\ [w EXCEPT !.phase = p] \in WorkerType
           /\ [w EXCEPT !.phase = p, !.failed = rs] \in WorkerType
           /\ [w EXCEPT !.phase = p, !.rawOk = b] \in WorkerType
           /\ [w EXCEPT !.phase = p, !.list = rs] \in WorkerType
           /\ [w EXCEPT !.phase = p, !.locked = b] \in WorkerType
           /\ [Idle EXCEPT !.phase = "begin"].phase = "begin"
  <1>1. [w EXCEPT !.phase = p] \in WorkerType
    BY Zenon DEF WorkerType
  <1>2. [w EXCEPT !.phase = p, !.failed = rs] \in WorkerType
    BY Zenon DEF WorkerType
  <1>3. [w EXCEPT !.phase = p, !.rawOk = b] \in WorkerType
    BY Zenon DEF WorkerType
  <1>4. [w EXCEPT !.phase = p, !.list = rs] \in WorkerType
    BY Zenon DEF WorkerType
  <1>5. [w EXCEPT !.phase = p, !.locked = b] \in WorkerType
    BY Zenon DEF WorkerType
  <1>6. QED
    BY <1>1, <1>2, <1>3, <1>4, <1>5 DEF Idle

LEMMA GoFacts ==
    ASSUME worker \in WorkerType, NEW p \in Phases, Go(p)
    PROVE  /\ worker' \in WorkerType /\ worker'.phase = p /\ worker'.failed = worker.failed
           /\ worker'.list = worker.list /\ worker'.locked = worker.locked
  <1>1. worker' = [worker EXCEPT !.phase = p]
    BY DEF Go
  <1>2. worker' \in WorkerType
    BY <1>1, WorkerFields
  <1>3. QED
    BY <1>1, <1>2 DEF WorkerType

LEMMA MainFields ==
    ASSUME NEW m \in MainType, NEW b \in BOOLEAN, NEW p \in Removals
    PROVE  /\ [m EXCEPT !.applied = TRUE, !.watch = b] \in MainType
           /\ [m EXCEPT !.failed = TRUE, !.removal = p, !.whole = b] \in MainType
           /\ [m EXCEPT !.quitting = TRUE, !.removal = p, !.whole = b] \in MainType
           /\ [m EXCEPT !.removal = p, !.whole = b] \in MainType
  <1>1. TRUE \in BOOLEAN
    OBVIOUS
  <1>2. [m EXCEPT !.applied = TRUE, !.watch = b] \in MainType
    BY <1>1, Zenon DEF MainType
  <1>3. [m EXCEPT !.failed = TRUE, !.removal = p, !.whole = b] \in MainType
    BY <1>1, Zenon DEF MainType
  <1>4. [m EXCEPT !.quitting = TRUE, !.removal = p, !.whole = b] \in MainType
    BY <1>1, Zenon DEF MainType
  <1>5. [m EXCEPT !.removal = p, !.whole = b] \in MainType
    BY Zenon DEF MainType
  <1>6. QED
    BY <1>2, <1>3, <1>4, <1>5

\* What the main process remembers after a lockdown.
LEMMA DoneFacts ==
    ASSUME main \in MainType, Done
    PROVE  /\ main' \in MainType /\ main'.removal = main.removal /\ main'.whole = main.whole
           /\ main'.failed = main.failed /\ main'.quitting = main.quitting
  <1>1. main' = [main EXCEPT !.applied = TRUE,
                             !.watch = main.watch \/ (worker.by # "other" /\ active)]
    BY DEF Done
  <1>2. (main.watch \/ (worker.by # "other" /\ active)) \in BOOLEAN
    BY Zenon
  <1>3. main' \in MainType
    <2>1. "no" \in Removals
      BY DEF Removals
    <2>2. QED
      BY <1>1, <1>2, <2>1, MainFields
  <1>4. QED
    BY <1>1, <1>3 DEF MainType

LEMMA BootFacts ==
    ASSUME main \in MainType, main' = [main EXCEPT !.booted = TRUE] \/ main' = main
    PROVE  /\ main' \in MainType /\ main'.removal = main.removal /\ main'.whole = main.whole
           /\ main'.failed = main.failed /\ main'.quitting = main.quitting
           /\ main'.watch = main.watch
  <1>1. CASE main' = main
    BY <1>1
  <1>2. CASE main' = [main EXCEPT !.booted = TRUE]
    <2>1. TRUE \in BOOLEAN
      OBVIOUS
    <2>2. main' \in MainType
      BY <1>2, <2>1, Zenon DEF MainType
    <2>3. QED
      BY <1>2, <2>2 DEF MainType
  <1>3. QED
    BY <1>1, <1>2

LEMMA BeginRemovalFacts ==
    ASSUME main \in MainType, active \in BOOLEAN, BeginRemoval
    PROVE  /\ main' \in MainType /\ main'.removal = "exempt"
           /\ main'.failed \/ main'.quitting
           /\ main'.whole => ~Busy
  <1>1. (active /\ worker.phase = "idle") \in BOOLEAN /\ (worker.phase = "idle") \in BOOLEAN
    BY Zenon
  <1>2. PICK b \in BOOLEAN :
          /\ b => worker.phase = "idle"
          /\ \/ main' = [main EXCEPT !.failed = TRUE, !.removal = "exempt", !.whole = b]
             \/ main' = [main EXCEPT !.quitting = TRUE, !.removal = "exempt", !.whole = b]
    <2>1. CASE main' = [main EXCEPT !.failed = TRUE, !.removal = "exempt",
                                    !.whole = active /\ worker.phase = "idle"]
      BY <1>1, <2>1, Zenon
    <2>2. CASE main' = [main EXCEPT !.quitting = TRUE, !.removal = "exempt",
                                    !.whole = worker.phase = "idle"]
      BY <1>1, <2>2, Zenon
    <2>3. QED
      BY <2>1, <2>2 DEF BeginRemoval
  <1>3. "exempt" \in Removals
    BY DEF Removals
  <1>4. main' \in MainType
    <2>1. CASE main' = [main EXCEPT !.failed = TRUE, !.removal = "exempt", !.whole = b]
      BY <1>3, <2>1, MainFields
    <2>2. CASE main' = [main EXCEPT !.quitting = TRUE, !.removal = "exempt", !.whole = b]
      BY <1>3, <2>2, MainFields
    <2>3. QED
      BY <1>2, <2>1, <2>2
  <1>5. main'.removal = "exempt" /\ (main'.failed \/ main'.quitting) /\ main'.whole = b
    <2>1. CASE main' = [main EXCEPT !.failed = TRUE, !.removal = "exempt", !.whole = b]
      BY <2>1 DEF MainType
    <2>2. CASE main' = [main EXCEPT !.quitting = TRUE, !.removal = "exempt", !.whole = b]
      BY <2>2 DEF MainType
    <2>3. QED
      BY <1>2, <2>1, <2>2
  <1>6. QED
    BY <1>2, <1>4, <1>5 DEF Busy

\* A part of a removal: nothing appears, and if all went well the group is gone.
LEMMA RemoveFacts ==
    ASSUME rules \in RulesType, main \in MainType, active \in BOOLEAN, events \in 0..MaxEvents,
           NEW phase, NEW rs, NEW skipped \in BOOLEAN, NEW next \in Removals,
           Remove(phase, rs, skipped, next), skipped => ~active
    PROVE  /\ rules' \in RulesType /\ main' \in MainType /\ events' \in 0..MaxEvents
           /\ main.removal = phase /\ main'.removal = next
           /\ main'.failed = main.failed /\ main'.quitting = main.quitting
           /\ main'.watch = main.watch
           /\ main'.whole => main.whole
           /\ \A r \in Rule : rules[r] = "absent" => rules'[r] = "absent"
           /\ main'.whole => \A r \in rs \cap Rule : rules'[r] = "absent"
  <1>1. PICK left \in SUBSET (rs \cap Present) :
          /\ Failing(Present, left)
          /\ rules' = IF skipped THEN rules ELSE Without(rs \ left)
          /\ main' = [main EXCEPT !.removal = next, !.whole = main.whole /\ left = {} /\ active]
    BY DEF Remove
  <1>2. PICK b \in BOOLEAN :
          /\ main' = [main EXCEPT !.removal = next, !.whole = b]
          /\ b => main.whole /\ left = {} /\ active
    <2>1. (main.whole /\ left = {} /\ active) \in BOOLEAN
      BY Zenon
    <2>2. QED
      BY <1>1, <2>1, Zenon
  <1>3. main' \in MainType
    BY <1>2, MainFields
  <1>4. /\ main'.removal = next /\ main'.whole = b /\ main'.failed = main.failed
        /\ main'.quitting = main.quitting /\ main'.watch = main.watch
    BY <1>2 DEF MainType
  <1>5. rules' \in RulesType /\ \A r \in Rule : rules[r] = "absent" => rules'[r] = "absent"
    BY <1>1, WithoutFacts
  <1>6. ASSUME b
        PROVE  \A r \in rs \cap Rule : rules'[r] = "absent"
    <2>1. left = {} /\ ~skipped
      BY <1>2, <1>6
    <2>2. rules' = Without(rs)
      BY <1>1, <2>1
    <2>3. QED
      BY <2>2, WithoutFacts
  <1>7. main.removal = phase /\ events' \in 0..MaxEvents
    BY <1>1, EventFacts DEF Remove
  <1>8. QED
    BY <1>2, <1>3, <1>4, <1>5, <1>6, <1>7

\* Ensuring a group turns rules on only, and those that fail are noted.
LEMMA EnsureFacts ==
    ASSUME rules \in RulesType, worker \in WorkerType, events \in 0..MaxEvents,
           NEW phase, NEW rs \in SUBSET Rule, NEW next \in Phases, Ensure(phase, rs, next)
    PROVE  /\ rules' \in RulesType /\ worker' \in WorkerType /\ events' \in 0..MaxEvents
           /\ worker.phase = phase /\ worker'.phase = next
           /\ worker.failed \subseteq worker'.failed
           /\ \A r \in Rule : rules[r] = "on" => rules'[r] = "on"
           /\ active => \A r \in rs \ worker'.failed : rules'[r] = "on"
  <1>1. PICK bad \in SUBSET {r \in rs : active /\ rules[r] # "on"} :
          /\ Failing(rs, bad)
          /\ rules' = Ensured(rs \ bad)
          /\ worker' = [worker EXCEPT !.phase = next, !.failed = worker.failed \cup bad]
    BY DEF Ensure
  <1>2. worker.failed \cup bad \in SUBSET Rule
    BY <1>1 DEF WorkerType
  <1>3. worker' \in WorkerType
    <2>1. TRUE \in BOOLEAN
      OBVIOUS
    <2>2. QED
      BY <1>1, <1>2, <2>1, WorkerFields
  <1>4. worker'.phase = next /\ worker'.failed = worker.failed \cup bad
    BY <1>1 DEF WorkerType
  <1>5. /\ rules' \in RulesType /\ \A r \in Rule : rules[r] = "on" => rules'[r] = "on"
        /\ active => \A r \in rs \ bad : rules'[r] = "on"
    BY <1>1, WithFacts DEF Ensured
  <1>6. worker.phase = phase /\ events' \in 0..MaxEvents
    BY <1>1, EventFacts DEF Ensure, Working
  <1>7. QED
    BY <1>3, <1>4, <1>5, <1>6

\* The raw rules in the worker: what follows is the same, however it went.
LEMMA EnsureRawFacts ==
    ASSUME rules \in RulesType, worker \in WorkerType, events \in 0..MaxEvents, EnsureRaw
    PROVE  /\ rules' \in RulesType /\ worker' \in WorkerType /\ events' \in 0..MaxEvents
           /\ worker'.phase = "exempt" /\ worker'.failed = worker.failed
           /\ \A r \in Rule \ Raw : rules'[r] = rules[r]
  <1>1. RawApplied \/ RawFails
    BY DEF EnsureRaw
  <1>2. "exempt" \in Phases /\ TRUE \in BOOLEAN /\ {} \in SUBSET Rule
    BY DEF Phases
  <1>3. CASE worker' = [worker EXCEPT !.phase = "exempt", !.rawOk = TRUE]
    <2>1. worker' \in WorkerType
      BY <1>2, <1>3, WorkerFields
    <2>2. worker'.phase = "exempt" /\ worker'.failed = worker.failed
      BY <1>3 DEF WorkerType
    <2>3. QED
      BY <1>1, <2>1, <2>2, RawFacts
  <1>4. CASE Go("exempt")
    BY <1>1, <1>2, <1>4, RawFacts, GoFacts
  <1>5. QED
    BY <1>3, <1>4 DEF EnsureRaw

LEMMA ListFacts ==
    ASSUME worker \in WorkerType, events \in 0..MaxEvents, ListRules
    PROVE  /\ worker' \in WorkerType /\ events' \in 0..MaxEvents
           /\ worker'.phase = "judge" /\ worker'.failed = worker.failed
           /\ worker'.list = Present \/ worker'.list = {}
  <1>1. "judge" \in Phases /\ TRUE \in BOOLEAN /\ {} \in SUBSET Rule /\ Present \in SUBSET Rule
    BY DEF Phases, Present
  <1>2. PICK l \in SUBSET Rule :
          /\ l = Present \/ l = {}
          /\ worker' = [worker EXCEPT !.phase = "judge", !.list = l]
    BY <1>1 DEF ListRules
  <1>3. worker' \in WorkerType
    BY <1>1, <1>2, WorkerFields
  <1>4. /\ worker'.phase = "judge" /\ worker'.failed = worker.failed /\ worker'.list = l
    BY <1>2 DEF WorkerType
  <1>5. QED
    BY <1>2, <1>3, <1>4, EventFacts DEF ListRules

LEMMA JudgeFacts ==
    ASSUME worker \in WorkerType, Judge
    PROVE  /\ worker' \in WorkerType /\ worker'.phase = "deferred"
           /\ worker'.failed = worker.failed
           /\ worker'.locked => Verified(worker.list) /\ worker.failed = {} /\ RawBlocked
  <1>1. "deferred" \in Phases /\ {} \in SUBSET Rule
    BY DEF Phases
  <1>2. PICK b \in BOOLEAN :
          /\ worker' = [worker EXCEPT !.phase = "deferred", !.locked = b]
          /\ b => Verified(worker.list) /\ worker.failed = {} /\ RawBlocked
    <2>1. worker' = [worker EXCEPT !.phase = "deferred",
                       !.locked = /\ Verified(worker.list) /\ worker.failed = {}
                                  /\ RawBlocked /\ worker.rawOk]
      BY DEF Judge
    <2>2. (/\ Verified(worker.list) /\ worker.failed = {}
           /\ RawBlocked /\ worker.rawOk) \in BOOLEAN
      BY Zenon
    <2>3. QED
      BY <2>1, <2>2, Zenon
  <1>3. worker' \in WorkerType
    BY <1>1, <1>2, WorkerFields
  <1>4. worker'.phase = "deferred" /\ worker'.locked = b /\ worker'.failed = worker.failed
    BY <1>2 DEF WorkerType
  <1>5. QED
    BY <1>2, <1>3, <1>4

LEMMA BeginFacts ==
    ASSUME NEW reason \in Reasons, Begin(reason)
    PROVE  /\ worker' \in WorkerType /\ worker'.phase = "begin"
           /\ worker.phase = "idle" /\ active /\ main.removal = "no"
           /\ verdict' = "none" /\ disturbed' = FALSE /\ removed' = FALSE
           /\ UNCHANGED <<rules, schema, mode, active, found, events>>
  <1>1. worker' = [Idle EXCEPT !.phase = "begin", !.by = reason]
    BY DEF Begin
  <1>2. worker' \in WorkerType /\ worker'.phase = "begin"
    BY <1>1 DEF Idle, WorkerType, Phases, Reasons
  <1>3. QED
    BY <1>2 DEF Begin

\* How a lockdown may begin.
LEMMA BeginSteps ==
    ASSUME main \in MainType, Boot \/ Again
    PROVE  \E reason \in Reasons : Begin(reason)
  BY DEF Boot, Again, Reasons

LEMMA BeginMain ==
    ASSUME main \in MainType, Boot \/ Again
    PROVE  /\ main' \in MainType /\ main'.removal = main.removal /\ main'.whole = main.whole
           /\ main'.failed = main.failed /\ main'.quitting = main.quitting
  BY BootFacts DEF Boot, Again

-----------------------------------------------------------------------------
TypesNext == /\ rules' \in RulesType /\ worker' \in WorkerType /\ main' \in MainType
             /\ WorldOK' /\ HistoryOK'

LEMMA WorkerTypes ==
    ASSUME TypeOK, Worker
    PROVE  TypesNext
  <1>1. /\ rules \in RulesType /\ worker \in WorkerType /\ main \in MainType
        /\ WorldOK /\ HistoryOK
        /\ events \in 0..MaxEvents /\ disturbed \in BOOLEAN
    BY Types DEF HistoryOK
  <1>2. /\ {"schema", "fast", "mock", "core", "clean", "bypass", "raw", "dev", "list"}
             \subseteq Phases
        /\ Core \in SUBSET Rule /\ Bypass \in SUBSET Rule
        /\ Exempt \in SUBSET Rule /\ Dev \in SUBSET Rule
    BY Groups DEF Phases
  <1>3. CASE Choose \/ CheckSchema
    <2>1. \E p \in Phases : Go(p)
      BY <1>2, <1>3 DEF Choose, CheckSchema
    <2>2. worker' \in WorkerType
      BY <1>1, <2>1, GoFacts
    <2>3. QED
      BY <1>1, <1>3, <2>2
      DEF TypesNext, WorldOK, HistoryOK, Choose, CheckSchema, Working
  <1>4. CASE MockLockdown \/ Mock
    <2>1. worker' \in WorkerType /\ main' \in MainType
      BY <1>1, <1>4, IdleFacts, DoneFacts DEF MockLockdown, Mock, Working
    <2>2. QED
      BY <1>1, <1>4, <2>1 DEF TypesNext, WorldOK, HistoryOK, MockLockdown, Mock, Working
  <1>5. CASE FastPath
    <2>1. worker' \in WorkerType /\ main' \in MainType
      BY <1>1, <1>5, IdleFacts, DoneFacts DEF FastPath
    <2>2. QED
      BY <1>1, <1>5, <2>1 DEF TypesNext, WorldOK, HistoryOK, FastPath
  <1>6. CASE Clean
    <2>1. PICK left \in SUBSET (Global \cup Plain) :
            /\ Failing(Present, left)
            /\ rules' = IF active THEN Without((Global \cup Plain) \ left) ELSE rules
      BY <1>6 DEF Clean
    <2>2. rules' \in RulesType /\ events' \in 0..MaxEvents
      BY <1>1, <2>1, WithoutFacts, EventFacts
    <2>3. worker' \in WorkerType
      BY <1>1, <1>2, <1>6, GoFacts DEF Clean
    <2>4. QED
      BY <1>1, <1>6, <2>2, <2>3 DEF TypesNext, WorldOK, HistoryOK, Clean, Working
  <1>7. CASE EnsureCore
    <2>1. /\ rules' \in RulesType /\ worker' \in WorkerType /\ events' \in 0..MaxEvents
      BY <1>1, <1>2, <1>7, EnsureFacts DEF EnsureCore
    <2>2. QED
      BY <1>1, <1>7, <2>1 DEF TypesNext, WorldOK, HistoryOK, EnsureCore, Ensure, Working
  <1>8. CASE EnsureBypass
    <2>1. /\ rules' \in RulesType /\ worker' \in WorkerType /\ events' \in 0..MaxEvents
      BY <1>1, <1>2, <1>8, EnsureFacts DEF EnsureBypass
    <2>2. QED
      BY <1>1, <1>8, <2>1 DEF TypesNext, WorldOK, HistoryOK, EnsureBypass, Ensure, Working
  <1>9. CASE EnsureRaw
    BY <1>1, <1>9, EnsureRawFacts DEF TypesNext, WorldOK, HistoryOK, EnsureRaw, Working
  <1>10. CASE ApplyExempt
    <2>1. worker' \in WorkerType
      BY <1>1, <1>2, <1>10, GoFacts DEF ApplyExempt
    <2>2. rules' \in RulesType /\ disturbed' \in BOOLEAN /\ events' \in 0..MaxEvents
      BY <1>1, <1>2, <1>10, RenewFacts DEF ApplyExempt
    <2>3. QED
      BY <1>1, <1>10, <2>1, <2>2 DEF TypesNext, WorldOK, HistoryOK, ApplyExempt, Working
  <1>11. CASE ApplyDev
    <2>1. worker' \in WorkerType
      BY <1>1, <1>2, <1>11, GoFacts DEF ApplyDev
    <2>2. rules' \in RulesType /\ disturbed' \in BOOLEAN /\ events' \in 0..MaxEvents
      BY <1>1, <1>2, <1>11, RenewFacts DEF ApplyDev
    <2>3. QED
      BY <1>1, <1>11, <2>1, <2>2 DEF TypesNext, WorldOK, HistoryOK, ApplyDev, Working
  <1>12. CASE ListRules
    BY <1>1, <1>12, ListFacts DEF TypesNext, WorldOK, HistoryOK, ListRules, Working
  <1>13. CASE Judge
    BY <1>1, <1>13, JudgeFacts DEF TypesNext, WorldOK, HistoryOK, Judge, Working
  <1>14. CASE Deferred
    <2>1. worker' \in WorkerType /\ main' \in MainType
      BY <1>1, <1>14, IdleFacts, DoneFacts DEF Deferred
    <2>2. rules' \in RulesType /\ disturbed' \in BOOLEAN /\ events' \in 0..MaxEvents
      <3>1. CASE UNCHANGED <<rules, events, disturbed>>
        BY <1>1, <3>1
      <3>2. CASE Event /\ disturbed' = TRUE /\ \E left \in SUBSET Raw : rules' = Without(Raw \ left)
        BY <1>1, <3>2, WithoutFacts, EventFacts
      <3>3. QED
        BY <1>14, <3>1, <3>2 DEF Deferred
    <2>3. QED
      BY <1>1, <1>14, <2>1, <2>2 DEF TypesNext, WorldOK, HistoryOK, Deferred
  <1>15. QED
    BY <1>3, <1>4, <1>5, <1>6, <1>7, <1>8, <1>9, <1>10, <1>11, <1>12, <1>13, <1>14 DEF Worker

LEMMA RemovalTypes ==
    ASSUME TypeOK, Removal
    PROVE  TypesNext
  <1>1. /\ rules \in RulesType /\ worker \in WorkerType /\ main \in MainType
        /\ WorldOK /\ HistoryOK /\ active \in BOOLEAN /\ events \in 0..MaxEvents
    BY Types DEF WorldOK, HistoryOK
  <1>2. {"dev", "stale", "raw", "rest", "no"} \subseteq Removals
    BY DEF Removals
  <1>3. FALSE \in BOOLEAN /\ (~active) \in BOOLEAN
    BY <1>1, Zenon
  <1>4. ASSUME NEW phase, NEW rs, NEW skipped \in BOOLEAN, NEW next \in Removals,
               Remove(phase, rs, skipped, next), skipped => ~active, removed' \in BOOLEAN
        PROVE  TypesNext
    <2>1. rules' \in RulesType /\ main' \in MainType /\ events' \in 0..MaxEvents
      BY <1>1, <1>4, RemoveFacts
    <2>2. QED
      BY <1>1, <1>4, <2>1 DEF TypesNext, WorldOK, HistoryOK, Remove
  <1>5. CASE RemoveExempt
    BY <1>1, <1>2, <1>3, <1>4, <1>5 DEF RemoveExempt, HistoryOK
  <1>6. CASE RemoveDev
    BY <1>1, <1>2, <1>3, <1>4, <1>6 DEF RemoveDev, HistoryOK
  <1>7. CASE RemoveStale
    BY <1>1, <1>2, <1>3, <1>4, <1>7 DEF RemoveStale, HistoryOK
  <1>8. CASE RemoveRaw
    BY <1>1, <1>2, <1>3, <1>4, <1>8 DEF RemoveRaw, HistoryOK
  <1>9. CASE RemoveRest
    <2>1. main' \in MainType
      BY <1>1, <1>2, <1>3, <1>9, RemoveFacts DEF RemoveRest
    <2>2. removed' \in BOOLEAN
      BY <1>9, <2>1 DEF RemoveRest, MainType
    <2>3. QED
      BY <1>2, <1>3, <1>4, <1>9, <2>2 DEF RemoveRest
  <1>10. QED
    BY <1>5, <1>6, <1>7, <1>8, <1>9 DEF Removal

LEMMA TypeStep ==
    ASSUME TypeOK, Next
    PROVE  TypesNext
  <1>1. /\ rules \in RulesType /\ worker \in WorkerType /\ main \in MainType
        /\ WorldOK /\ HistoryOK /\ active \in BOOLEAN /\ events \in 0..MaxEvents
        /\ disturbed \in BOOLEAN
    BY Types DEF WorldOK, HistoryOK
  <1>2. Exempt \in SUBSET Rule /\ Dev \in SUBSET Rule
    BY Groups
  <1>3. CASE Boot \/ Again
    <2>1. PICK reason \in Reasons : Begin(reason)
      BY <1>1, <1>3, BeginSteps
    <2>2. QED
      BY <1>1, <1>3, <2>1, BeginFacts, BeginMain DEF TypesNext, WorldOK, HistoryOK
  <1>4. CASE BootUnlocked
    BY <1>1, <1>4, BootFacts DEF TypesNext, WorldOK, HistoryOK, BootUnlocked
  <1>5. CASE RefreshExempt
    <2>1. rules' \in RulesType /\ disturbed' \in BOOLEAN /\ events' \in 0..MaxEvents
      BY <1>1, <1>2, <1>5, RenewFacts DEF RefreshExempt
    <2>2. QED
      BY <1>1, <1>5, <2>1 DEF TypesNext, WorldOK, HistoryOK, RefreshExempt
  <1>6. CASE RefreshDev
    <2>1. rules' \in RulesType /\ disturbed' \in BOOLEAN /\ events' \in 0..MaxEvents
      BY <1>1, <1>2, <1>6, RenewFacts DEF RefreshDev
    <2>2. QED
      BY <1>1, <1>6, <2>1 DEF TypesNext, WorldOK, HistoryOK, RefreshDev
  <1>7. CASE RefreshRaw
    <2>1. rules' \in RulesType /\ events' \in 0..MaxEvents
      BY <1>1, <1>7, RawFacts DEF RefreshRaw
    <2>2. QED
      BY <1>1, <1>7, <2>1 DEF TypesNext, WorldOK, HistoryOK, RefreshRaw
  <1>8. CASE BeginRemoval
    <2>1. main' \in MainType
      BY <1>1, <1>8, BeginRemovalFacts
    <2>2. QED
      BY <1>1, <1>8, <2>1 DEF TypesNext, WorldOK, HistoryOK, BeginRemoval
  <1>9. CASE Restart
    <2>1. events' \in 0..MaxEvents
      BY <1>1, <1>9, EventFacts DEF Restart
    <2>2. QED
      BY <1>1, <1>9, <2>1, IdleFacts DEF TypesNext, WorldOK, HistoryOK, Restart
  <1>10. CASE SyncChallenge
    <2>1. (~active) \in BOOLEAN
      BY <1>1, Zenon
    <2>2. events' \in 0..MaxEvents
      BY <1>1, <1>10, EventFacts DEF SyncChallenge
    <2>3. QED
      BY <1>1, <1>10, <2>1, <2>2 DEF TypesNext, WorldOK, HistoryOK, SyncChallenge
  <1>11. ASSUME NEW r \in Rule, Tamper(r)
         PROVE  TypesNext
    <2>1. rules' \in RulesType
      BY <1>1, <1>11, WithoutFacts DEF Tamper, RulesType
    <2>2. events' \in 0..MaxEvents
      BY <1>1, <1>11, EventFacts DEF Tamper
    <2>3. QED
      BY <1>1, <1>11, <2>1, <2>2 DEF TypesNext, WorldOK, HistoryOK, Tamper
  <1>12. CASE ProgramsChange
    <2>1. events' \in 0..MaxEvents
      BY <1>1, <1>12, EventFacts DEF ProgramsChange
    <2>2. QED
      BY <1>1, <1>12, <2>1 DEF TypesNext, WorldOK, HistoryOK, ProgramsChange
  <1>13. CASE DayPasses
    BY <1>1, <1>13 DEF TypesNext, WorldOK, HistoryOK, DayPasses
  <1>14. QED
    BY <1>3, <1>4, <1>5, <1>6, <1>7, <1>8, <1>9, <1>10, <1>11, <1>12, <1>13,
       WorkerTypes, RemovalTypes
    DEF Next, World

-----------------------------------------------------------------------------
(* Lockdowns and removals *)

\* Only a lockdown that begins is undisturbed again.
LEMMA Undisturbed ==
    ASSUME TypeOK, Next, ~disturbed', ~(Boot \/ Again)
    PROVE  ~disturbed
  <1>1. /\ rules \in RulesType /\ disturbed \in BOOLEAN /\ events \in 0..MaxEvents
        /\ Exempt \in SUBSET Rule /\ Dev \in SUBSET Rule
    BY Types, Groups DEF HistoryOK
  <1>2. CASE ApplyExempt \/ ApplyDev \/ RefreshExempt \/ RefreshDev
    BY <1>1, <1>2, RenewFacts DEF ApplyExempt, ApplyDev, RefreshExempt, RefreshDev
  <1>3. CASE \/ Choose \/ MockLockdown \/ FastPath \/ CheckSchema \/ Clean \/ EnsureRaw
             \/ ListRules \/ Judge \/ Deferred \/ Mock
    BY <1>3 DEF Choose, MockLockdown, FastPath, CheckSchema, Clean, EnsureRaw, ListRules, Judge,
                Deferred, Mock
  <1>4. CASE EnsureCore \/ EnsureBypass
    BY <1>4 DEF EnsureCore, EnsureBypass, Ensure
  <1>5. CASE BootUnlocked \/ RefreshRaw \/ BeginRemoval \/ Restart \/ World
    BY <1>5 DEF BootUnlocked, RefreshRaw, BeginRemoval, Restart, World, SyncChallenge, Tamper,
                ProgramsChange, DayPasses
  <1>6. CASE Removal
    BY <1>6 DEF Removal, RemoveExempt, RemoveDev, RemoveStale, RemoveRaw, RemoveRest, Remove
  <1>7. QED
    BY <1>2, <1>3, <1>4, <1>5, <1>6 DEF Next, Worker

\* A step of the worker goes on or ends the lockdown; nothing else does either,
\* but for its beginning and a restart.
LEMMA WorkerStep ==
    ASSUME TypeOK, OrderInv, Worker
    PROVE  /\ Busy /\ verdict = "none" /\ (Busy' => verdict' = "none")
           /\ active' = active /\ mode' = mode /\ removed' = removed
           /\ main'.removal = main.removal /\ main'.whole = main.whole
           /\ main'.failed = main.failed /\ main'.quitting = main.quitting
  <1>1. main \in MainType
    BY Types
  <1>2. /\ Busy /\ verdict = "none"
    <2>1. Busy
      BY DEF Worker, Choose, MockLockdown, FastPath, CheckSchema, Clean, EnsureCore, EnsureBypass,
             Ensure, EnsureRaw, ApplyExempt, ApplyDev, ListRules, Judge, Deferred, Mock, Working,
             Busy
    <2>2. QED
      BY <2>1 DEF OrderInv
  <1>3. Busy' => verdict' = "none"
    BY <1>2, IdleFacts
    DEF Worker, Choose, MockLockdown, FastPath, CheckSchema, Clean, EnsureCore, EnsureBypass,
        Ensure, EnsureRaw, ApplyExempt, ApplyDev, ListRules, Judge, Deferred, Mock, Busy
  <1>4. active' = active /\ mode' = mode /\ removed' = removed
    BY DEF Worker, Choose, MockLockdown, FastPath, CheckSchema, Clean, EnsureCore, EnsureBypass,
           Ensure, EnsureRaw, ApplyExempt, ApplyDev, ListRules, Judge, Deferred, Mock, Working
  <1>5. main' = main \/ Done
    BY DEF Worker, Choose, MockLockdown, FastPath, CheckSchema, Clean, EnsureCore, EnsureBypass,
           Ensure, EnsureRaw, ApplyExempt, ApplyDev, ListRules, Judge, Deferred, Mock, Working
  <1>6. QED
    BY <1>1, <1>2, <1>3, <1>4, <1>5, DoneFacts

\* A part of a removal.
LEMMA RemovalStep ==
    ASSUME TypeOK, Removal
    PROVE  /\ main.removal # "no" /\ main'.failed = main.failed /\ main'.quitting = main.quitting
           /\ main'.watch = main.watch /\ (main'.whole => main.whole)
           /\ \A r \in Rule : rules[r] = "absent" => rules'[r] = "absent"
           /\ UNCHANGED <<worker, verdict, disturbed, active, mode>>
           /\ \/ main.removal = "exempt" /\ main'.removal = "dev" /\ (main'.whole => Gone(Exempt)')
                 /\ removed' = removed
              \/ main.removal = "dev" /\ main'.removal = "stale" /\ (main'.whole => Gone(Dev)')
                 /\ removed' = removed
              \/ main.removal = "stale" /\ main'.removal = "raw" /\ (main'.whole => Gone(Global)')
                 /\ removed' = removed
              \/ main.removal = "raw" /\ main'.removal = "rest" /\ (main'.whole => Gone(Raw)')
                 /\ removed' = removed
              \/ main.removal = "rest" /\ main'.removal = "no" /\ (main'.whole => Gone(Rule \ Raw)')
                 /\ removed' = main'.whole
  <1>1. /\ rules \in RulesType /\ main \in MainType /\ active \in BOOLEAN
        /\ events \in 0..MaxEvents
    BY Types DEF WorldOK, HistoryOK
  <1>2. /\ {"dev", "stale", "raw", "rest", "no"} \subseteq Removals
        /\ FALSE \in BOOLEAN /\ (~active) \in BOOLEAN
    BY <1>1, Zenon DEF Removals
  <1>3. UNCHANGED <<worker, verdict, disturbed, active, mode>>
    BY DEF Removal, RemoveExempt, RemoveDev, RemoveStale, RemoveRaw, RemoveRest, Remove
  <1>4. ASSUME NEW phase, NEW rs \in SUBSET Rule, NEW skipped \in BOOLEAN, NEW next \in Removals,
               Remove(phase, rs, skipped, next), skipped => ~active
        PROVE  /\ main.removal = phase /\ main'.removal = next
               /\ main'.failed = main.failed /\ main'.quitting = main.quitting
               /\ main'.watch = main.watch /\ (main'.whole => main.whole)
               /\ \A r \in Rule : rules[r] = "absent" => rules'[r] = "absent"
               /\ main'.whole => Gone(rs)'
    BY <1>1, <1>4, RemoveFacts DEF Gone
  <1>5. CASE RemoveExempt
    <2>1. Remove("exempt", Exempt, FALSE, "dev") /\ removed' = removed
      BY <1>5 DEF RemoveExempt
    <2>2. /\ main.removal = "exempt" /\ main'.removal = "dev"
          /\ main'.failed = main.failed /\ main'.quitting = main.quitting
          /\ main'.watch = main.watch /\ (main'.whole => main.whole)
          /\ \A r \in Rule : rules[r] = "absent" => rules'[r] = "absent"
          /\ main'.whole => Gone(Exempt)'
      BY <1>2, <1>4, <2>1, Groups
    <2>3. QED
      BY <1>3, <2>1, <2>2, Zenon
  <1>6. CASE RemoveDev
    <2>1. Remove("dev", Dev, FALSE, "stale") /\ removed' = removed
      BY <1>6 DEF RemoveDev
    <2>2. /\ main.removal = "dev" /\ main'.removal = "stale"
          /\ main'.failed = main.failed /\ main'.quitting = main.quitting
          /\ main'.watch = main.watch /\ (main'.whole => main.whole)
          /\ \A r \in Rule : rules[r] = "absent" => rules'[r] = "absent"
          /\ main'.whole => Gone(Dev)'
      BY <1>2, <1>4, <2>1, Groups
    <2>3. QED
      BY <1>3, <2>1, <2>2, Zenon
  <1>7. CASE RemoveStale
    <2>1. Remove("stale", Global, ~active, "raw") /\ removed' = removed
      BY <1>7 DEF RemoveStale
    <2>2. /\ main.removal = "stale" /\ main'.removal = "raw"
          /\ main'.failed = main.failed /\ main'.quitting = main.quitting
          /\ main'.watch = main.watch /\ (main'.whole => main.whole)
          /\ \A r \in Rule : rules[r] = "absent" => rules'[r] = "absent"
          /\ main'.whole => Gone(Global)'
      BY <1>2, <1>4, <2>1, Groups
    <2>3. QED
      BY <1>3, <2>1, <2>2, Zenon
  <1>8. CASE RemoveRaw
    <2>1. Remove("raw", Raw, ~active, "rest") /\ removed' = removed
      BY <1>8 DEF RemoveRaw
    <2>2. /\ main.removal = "raw" /\ main'.removal = "rest"
          /\ main'.failed = main.failed /\ main'.quitting = main.quitting
          /\ main'.watch = main.watch /\ (main'.whole => main.whole)
          /\ \A r \in Rule : rules[r] = "absent" => rules'[r] = "absent"
          /\ main'.whole => Gone(Raw)'
      BY <1>2, <1>4, <2>1, Groups
    <2>3. QED
      BY <1>3, <2>1, <2>2, Zenon
  <1>9. CASE RemoveRest
    BY <1>2, <1>3, <1>4, <1>9, Groups DEF RemoveRest, Gone
  <1>10. QED
    BY <1>5, <1>6, <1>7, <1>8, <1>9 DEF Removal

LEMMA OrderStep ==
    ASSUME TypeOK, OrderInv, Next
    PROVE  OrderInv'
  <1>1. main \in MainType /\ active \in BOOLEAN
    BY Types DEF WorldOK
  <1>2. CASE Boot \/ Again
    <2>1. PICK reason \in Reasons : Begin(reason)
      BY <1>1, <1>2, BeginSteps
    <2>2. /\ verdict' = "none" /\ active' = active /\ active /\ main'.removal = "no"
      BY <1>1, <1>2, <2>1, BeginFacts, BeginMain
    <2>3. QED
      BY <2>2 DEF OrderInv
  <1>3. CASE Worker
    <2>1. disturbed => disturbed'
      BY <1>3, Undisturbed DEF Next, Worker, Boot, Again, Begin, Working, Choose, MockLockdown,
         FastPath, CheckSchema, Clean, EnsureCore, EnsureBypass, Ensure, EnsureRaw, ApplyExempt,
         ApplyDev, ListRules, Judge, Deferred, Mock
    <2>2. QED
      BY <1>3, <2>1, WorkerStep DEF OrderInv
  <1>4. ASSUME worker' = worker, verdict' = verdict, active' = active, disturbed => disturbed',
               \/ main'.removal = "no"
               \/ disturbed' /\ (main'.failed \/ main'.quitting)
        PROVE  OrderInv'
    BY <1>4 DEF OrderInv, Busy
  <1>5. CASE BootUnlocked
    <2>1. /\ main'.removal = main.removal /\ main'.failed = main.failed
          /\ main'.quitting = main.quitting
      BY <1>1, <1>5, BootFacts DEF BootUnlocked
    <2>2. QED
      BY <1>4, <1>5, <2>1 DEF BootUnlocked, OrderInv
  <1>6. CASE RefreshExempt \/ RefreshDev \/ RefreshRaw
    <2>1. disturbed => disturbed'
      BY <1>6, Zenon DEF RefreshExempt, RefreshDev, RefreshRaw, Renew
    <2>2. main' = main /\ main.removal = "no"
      BY <1>6 DEF RefreshExempt, RefreshDev, RefreshRaw, Watching
    <2>3. QED
      BY <1>4, <1>6, <2>1, <2>2 DEF RefreshExempt, RefreshDev, RefreshRaw
  <1>7. CASE BeginRemoval
    <2>1. main'.failed \/ main'.quitting
      BY <1>1, <1>7, BeginRemovalFacts
    <2>2. QED
      BY <1>4, <1>7, <2>1 DEF BeginRemoval
  <1>8. CASE Removal
    BY <1>4, <1>8, RemovalStep DEF OrderInv
  <1>9. CASE Restart
    BY <1>9, IdleFacts DEF Restart, OrderInv, Busy
  <1>10. CASE World
    <2>1. disturbed => disturbed'
      BY <1>10 DEF World, SyncChallenge, Tamper, ProgramsChange, DayPasses
    <2>2. worker' = worker /\ verdict' = verdict /\ main' = main
      BY <1>10 DEF World, SyncChallenge, Tamper, ProgramsChange, DayPasses
    <2>3. active' = active \/ disturbed'
      BY <1>10 DEF World, SyncChallenge, Tamper, ProgramsChange, DayPasses
    <2>4. QED
      BY <2>1, <2>2, <2>3 DEF OrderInv, Busy
  <1>11. QED
    BY <1>2, <1>3, <1>5, <1>6, <1>7, <1>8, <1>9, <1>10 DEF Next

LEMMA StepRemoval ==
    ASSUME TypeOK, OrderInv, RemovalInv, RemovedInv, Next
    PROVE  RemovalInv' /\ RemovedInv'
  <1>1. /\ rules \in RulesType /\ main \in MainType /\ active \in BOOLEAN
        /\ main.removal \in Removals
    BY Types DEF WorldOK, MainType
  <1>2. CASE Boot \/ Again
    <2>1. PICK reason \in Reasons : Begin(reason)
      BY <1>1, <1>2, BeginSteps
    <2>2. ~removed' /\ main'.removal = "no"
      BY <1>1, <1>2, <2>1, BeginFacts, BeginMain
    <2>3. QED
      BY <2>2 DEF RemovalInv, RemovedInv
  <1>3. CASE Worker
    <2>1. /\ ~removed' /\ (main'.removal = "no" \/ ~main'.whole)
      BY <1>3, WorkerStep DEF RemovalInv, RemovedInv
    <2>2. QED
      BY <2>1 DEF RemovalInv, RemovedInv
  <1>4. ASSUME worker' = worker, removed' = removed,
               \A r \in Rule : rules[r] = "absent" => rules'[r] = "absent",
               main'.removal = main.removal, main'.whole = main.whole,
               main'.failed = main.failed, main'.quitting = main.quitting,
               main'.watch = main.watch
        PROVE  RemovalInv' /\ RemovedInv'
    BY <1>4, Groups DEF RemovalInv, RemovedInv, Gone, Busy
  <1>5. CASE BootUnlocked
    BY <1>1, <1>4, <1>5, BootFacts DEF BootUnlocked
  <1>6. CASE RefreshExempt \/ RefreshDev \/ RefreshRaw
    <2>1. main' = main /\ main.removal = "no" /\ ~removed /\ removed' = removed
      BY <1>6 DEF RefreshExempt, RefreshDev, RefreshRaw, Watching, RemovedInv
    <2>2. QED
      BY <2>1 DEF RemovalInv, RemovedInv
  <1>7. CASE BeginRemoval
    <2>1. /\ main'.removal = "exempt" /\ (main'.failed \/ main'.quitting)
          /\ main'.whole => ~Busy
      BY <1>1, <1>7, BeginRemovalFacts
    <2>2. worker' = worker /\ rules' = rules /\ removed' = removed
      BY <1>7 DEF BeginRemoval
    <2>3. QED
      BY <2>1, <2>2 DEF RemovalInv, RemovedInv, Gone, Busy
  <1>8. CASE Removal
    <2>1. /\ main.removal # "no" /\ (main.failed \/ main.quitting)
          /\ main'.failed \/ main'.quitting
          /\ main'.whole => main.whole
          /\ \A r \in Rule : rules[r] = "absent" => rules'[r] = "absent"
          /\ worker' = worker
      BY <1>8, RemovalStep DEF OrderInv
    <2>2. /\ Gone(Exempt) => Gone(Exempt)'
          /\ Gone(Dev) => Gone(Dev)'
          /\ Gone(Global) => Gone(Global)'
          /\ Gone(Raw) => Gone(Raw)'
          /\ Gone(Rule) => Gone(Rule)'
      BY <2>1, Groups DEF Gone
    <2>3. RemovalInv'
      <3>1. ASSUME main'.removal # "no", main'.whole
            PROVE  /\ ~Busy
                   /\ main'.removal # "exempt" => Gone(Exempt)'
                   /\ main'.removal \in {"stale", "raw", "rest"} => Gone(Dev)'
                   /\ main'.removal \in {"raw", "rest"} => Gone(Global)'
                   /\ main'.removal = "rest" => Gone(Raw)'
        <4>1. main.whole /\ main.removal # "no"
          BY <2>1, <3>1
        <4>2. /\ ~Busy
              /\ main.removal # "exempt" => Gone(Exempt)'
              /\ main.removal \in {"stale", "raw", "rest"} => Gone(Dev)'
              /\ main.removal \in {"raw", "rest"} => Gone(Global)'
          BY <2>2, <4>1 DEF RemovalInv
        <4>3. \/ main.removal = "exempt" /\ main'.removal = "dev" /\ Gone(Exempt)'
              \/ main.removal = "dev" /\ main'.removal = "stale" /\ Gone(Dev)'
              \/ main.removal = "stale" /\ main'.removal = "raw" /\ Gone(Global)'
              \/ main.removal = "raw" /\ main'.removal = "rest" /\ Gone(Raw)'
          BY <1>8, <3>1, RemovalStep
        <4>4. QED
          BY <4>2, <4>3
      <3>2. QED
        BY <2>1, <3>1 DEF RemovalInv, Busy
    <2>4. CASE main.removal # "rest"
      <3>1. removed' = removed
        BY <1>8, <2>4, RemovalStep
      <3>2. QED
        BY <2>1, <2>2, <2>3, <3>1 DEF RemovedInv, Busy
    <2>5. CASE main.removal = "rest"
      <3>1. removed' = main'.whole /\ (main'.whole => Gone(Rule \ Raw)')
        BY <1>8, <2>5, RemovalStep
      <3>2. main'.whole => Gone(Raw)' /\ ~Busy
        BY <2>1, <2>2, <2>5 DEF RemovalInv
      <3>3. main'.whole => Gone(Rule)'
        BY <3>1, <3>2 DEF Gone
      <3>4. QED
        BY <2>1, <2>3, <3>1, <3>2, <3>3 DEF RemovedInv, Busy
    <2>6. QED
      BY <2>4, <2>5
  <1>9. CASE Restart
    BY <1>9, IdleFacts DEF Restart, RemovalInv, RemovedInv, Gone, Busy
  <1>10. CASE World
    <2>1. worker' = worker /\ main' = main /\ removed' = removed
      BY <1>10 DEF World, SyncChallenge, Tamper, ProgramsChange, DayPasses
    <2>2. CASE rules' = rules
      BY <1>4, <2>1, <2>2
    <2>3. CASE \E r \in Rule : Tamper(r)
      <3>1. PICK t \in Rule : Tamper(t)
        BY <2>3
      <3>2. rules[t] # "absent"
        BY <3>1 DEF Tamper
      <3>3. \A r \in Rule : rules[r] = "absent" => rules'[r] = "absent"
        <4>1. CASE rules' = Without({t})
          BY <1>1, <4>1, WithoutFacts
        <4>2. CASE rules' = [rules EXCEPT ![t] = "off"]
          BY <1>1, <3>2, <4>2 DEF RulesType
        <4>3. QED
          BY <3>1, <4>1, <4>2 DEF Tamper
      <3>4. QED
        BY <1>4, <2>1, <3>3
    <2>4. QED
      BY <1>10, <2>2, <2>3 DEF World, SyncChallenge, ProgramsChange, DayPasses
  <1>11. QED
    BY <1>2, <1>3, <1>5, <1>6, <1>7, <1>8, <1>9, <1>10 DEF Next

-----------------------------------------------------------------------------
(* An undisturbed lockdown *)

\* Outside the lockdown nothing that matters to an undisturbed verdict happens.
LEMMA OutsideFacts ==
    ASSUME TypeOK, OrderInv, Next, ~disturbed', ~(Boot \/ Again), ~Worker
    PROVE  /\ ~disturbed /\ main.removal = "no"
           /\ worker' = worker /\ verdict' = verdict /\ mode' = mode /\ active' = active
           /\ \A r \in Expected : rules[r] = "on" => rules'[r] = "on"
           /\ \A r \in Global : rules'[r] = rules[r]
           /\ mode = "strict" => \A r \in Dev : rules'[r] = rules[r]
           /\ Busy => rules' = rules
  <1>1. /\ rules \in RulesType /\ disturbed \in BOOLEAN /\ events \in 0..MaxEvents
        /\ Exempt \in SUBSET Rule /\ Dev \in SUBSET Rule
    BY Types, Groups DEF HistoryOK
  <1>2. ~disturbed /\ main.removal = "no"
    BY Undisturbed DEF OrderInv
  <1>3. CASE BootUnlocked \/ World
    <2>1. /\ worker' = worker /\ verdict' = verdict /\ mode' = mode /\ active' = active
          /\ rules' = rules
      BY <1>3 DEF BootUnlocked, World, SyncChallenge, Tamper, ProgramsChange, DayPasses
    <2>2. QED
      BY <1>2, <2>1
  <1>4. CASE RefreshExempt
    <2>1. /\ worker' = worker /\ verdict' = verdict /\ mode' = mode /\ active' = active /\ ~Busy
      BY <1>4 DEF RefreshExempt, Watching, Busy
    <2>2. \A r \in Rule \ Exempt : rules'[r] = rules[r]
      BY <1>1, <1>4, RenewFacts DEF RefreshExempt
    <2>3. QED
      BY <1>2, <2>1, <2>2, Groups
  <1>5. CASE RefreshDev
    <2>1. /\ worker' = worker /\ verdict' = verdict /\ mode' = mode /\ active' = active /\ ~Busy
          /\ mode # "strict"
      BY <1>5 DEF RefreshDev, Watching, Busy
    <2>2. \A r \in Rule \ Dev : rules'[r] = rules[r]
      BY <1>1, <1>5, RenewFacts DEF RefreshDev
    <2>3. QED
      BY <1>2, <2>1, <2>2, Groups
  <1>6. CASE RefreshRaw
    <2>1. /\ worker' = worker /\ verdict' = verdict /\ mode' = mode /\ active' = active /\ ~Busy
          /\ RawApplied
      BY <1>6 DEF RefreshRaw, Watching, Busy
    <2>2. /\ \A r \in Rule \ Raw : rules'[r] = rules[r]
          /\ \A r \in Raw : rules'[r] = "on"
      BY <1>1, <2>1, RawFacts
    <2>3. QED
      BY <1>2, <2>1, <2>2, Groups
  <1>7. CASE BeginRemoval \/ Restart
    BY <1>7 DEF BeginRemoval, Restart
  <1>8. CASE Removal
    BY <1>2, <1>8, RemovalStep
  <1>9. QED
    BY <1>3, <1>4, <1>5, <1>6, <1>7, <1>8 DEF Next

LEMMA StepLock ==
    ASSUME TypeOK, OrderInv, LockInv, Next
    PROVE  LockInv'
  <1>1. /\ rules \in RulesType /\ worker \in WorkerType /\ main \in MainType
        /\ events \in 0..MaxEvents /\ disturbed \in BOOLEAN
    BY Types DEF HistoryOK
  <1>2. SUFFICES ASSUME ~disturbed'
                 PROVE  LockInv'
    BY DEF LockInv
  <1>3. CASE Boot \/ Again
    <2>1. PICK reason \in Reasons : Begin(reason)
      BY <1>1, <1>3, BeginSteps
    <2>2. worker'.phase = "begin"
      BY <2>1, BeginFacts
    <2>3. QED
      BY <2>2 DEF LockInv, AfterCore, AfterBypass, AfterDev
  <1>4. CASE ~Worker /\ ~(Boot \/ Again)
    <2>1. ~disturbed /\ worker' = worker /\ active' = active
      BY <1>2, <1>4, OutsideFacts
    <2>2. CASE ~Busy
      BY <2>1, <2>2 DEF LockInv, Busy, AfterCore, AfterBypass, AfterDev
    <2>3. CASE Busy
      <3>1. rules' = rules
        BY <1>2, <1>4, <2>3, OutsideFacts
      <3>2. QED
        BY <2>1, <3>1
        DEF LockInv, FirewallLocked, Verified, RawBlocked, Present, On, Gone
    <2>4. QED
      BY <2>2, <2>3
  <1>5. CASE Worker
    <2>1. ~disturbed
      BY <1>2, <1>5, Undisturbed, WorkerStep DEF Boot, Again, Begin, Busy
    <2>2. active /\ active' = active
      BY <1>5, <2>1, WorkerStep DEF OrderInv
    <2>3. Core \in SUBSET Rule /\ Bypass \in SUBSET Rule /\ Exempt \in SUBSET Rule
          /\ Dev \in SUBSET Rule
          /\ {"schema", "fast", "mock", "core", "clean", "bypass", "raw", "dev", "list"}
               \subseteq Phases
      BY Groups DEF Phases
    <2>4. ASSUME worker'.phase \in {"idle", "schema", "mock", "core", "clean"}
          PROVE  LockInv'
      BY <2>4 DEF LockInv, AfterCore, AfterBypass, AfterDev
    <2>5. CASE MockLockdown \/ FastPath \/ Mock \/ Deferred
      BY <2>4, <2>5, IdleFacts DEF MockLockdown, FastPath, Mock, Deferred
    <2>6. CASE Choose
      <3>1. CASE Go("schema")
        BY <1>1, <2>3, <2>4, <3>1, GoFacts
      <3>2. CASE Go("fast") /\ FirewallLocked
        <4>1. worker'.phase = "fast" /\ rules' = rules
          BY <1>1, <2>3, <2>6, <3>2, GoFacts DEF Choose
        <4>2. FirewallLocked'
          BY <2>2, <3>2, <4>1 DEF FirewallLocked, Verified, RawBlocked, Present
        <4>3. QED
          BY <4>1, <4>2 DEF LockInv, AfterCore, AfterBypass, AfterDev
      <3>3. QED
        BY <2>6, <3>1, <3>2 DEF Choose
    <2>7. CASE CheckSchema \/ Clean
      <3>1. \E p \in {"mock", "core", "clean"} : Go(p)
        BY <2>7 DEF CheckSchema, Clean
      <3>2. QED
        BY <1>1, <2>3, <2>4, <3>1, GoFacts
    <2>8. CASE EnsureCore
      <3>1. /\ worker'.phase = "bypass"
            /\ \A r \in Core \ worker'.failed : rules'[r] = "on"
        BY <1>1, <2>2, <2>3, <2>8, EnsureFacts DEF EnsureCore
      <3>2. QED
        BY <3>1 DEF LockInv, On, AfterCore, AfterBypass, AfterDev
    <2>9. CASE EnsureBypass
      <3>1. /\ worker.phase = "bypass" /\ worker'.phase = "raw"
            /\ worker.failed \subseteq worker'.failed
            /\ \A r \in Rule : rules[r] = "on" => rules'[r] = "on"
            /\ \A r \in Bypass \ worker'.failed : rules'[r] = "on"
        BY <1>1, <2>2, <2>3, <2>9, EnsureFacts DEF EnsureBypass
      <3>2. \A r \in Core \ worker.failed : rules[r] = "on"
        BY <2>1, <3>1 DEF LockInv, On, AfterCore
      <3>3. \A r \in Core \ worker'.failed : rules'[r] = "on"
        BY <2>3, <3>1, <3>2
      <3>4. QED
        BY <3>1, <3>3 DEF LockInv, On, AfterCore, AfterBypass, AfterDev
    <2>10. ASSUME worker.phase \in AfterBypass, worker'.phase \in AfterBypass,
                  worker'.failed = worker.failed,
                  \A r \in Core \cup Bypass : rules'[r] = rules[r]
           PROVE  /\ worker'.phase \in AfterCore => On(Core \ worker.failed)'
                  /\ worker'.phase \in AfterBypass => On(Bypass \ worker.failed)'
      BY <2>1, <2>10 DEF LockInv, On, AfterCore
    <2>11. CASE EnsureRaw \/ ApplyExempt \/ ApplyDev
      <3>1. /\ worker.phase \in {"raw", "exempt", "dev"}
            /\ worker'.phase \in {"exempt", "dev", "list"}
            /\ worker'.failed = worker.failed
        BY <1>1, <2>3, <2>11, EnsureRawFacts, GoFacts
        DEF EnsureRaw, ApplyExempt, ApplyDev, Working
      <3>2. \A r \in Core \cup Bypass : rules'[r] = rules[r]
        <4>1. CASE EnsureRaw
          BY <1>1, <4>1, EnsureRawFacts, Groups
        <4>2. CASE ApplyExempt
          BY <1>1, <2>3, <4>2, RenewFacts, Groups DEF ApplyExempt
        <4>3. CASE ApplyDev
          BY <1>1, <2>3, <4>3, RenewFacts, Groups DEF ApplyDev
        <4>4. QED
          BY <2>11, <4>1, <4>2, <4>3
      <3>3. QED
        BY <2>10, <3>1, <3>2 DEF LockInv, On, AfterCore, AfterBypass, AfterDev
    <2>12. CASE ListRules
      <3>1. /\ worker.phase = "list" /\ rules' = rules
        BY <2>12 DEF ListRules, Working
      <3>2. /\ worker'.phase = "judge" /\ worker'.failed = worker.failed
            /\ worker'.list = {} \/ worker'.list = Present
        BY <1>1, <2>12, ListFacts
      <3>3. Present' = Present
        BY <3>1 DEF Present
      <3>4. QED
        BY <2>10, <3>1, <3>2, <3>3 DEF LockInv, On, AfterCore, AfterBypass, AfterDev
    <2>13. CASE Judge
      <3>1. /\ worker.phase = "judge" /\ rules' = rules
        BY <2>13 DEF Judge, Working
      <3>2. /\ worker'.phase = "deferred" /\ worker'.failed = worker.failed
            /\ worker'.locked => Verified(worker.list) /\ worker.failed = {} /\ RawBlocked
        BY <1>1, <2>13, JudgeFacts
      <3>3. ASSUME worker'.locked
            PROVE  On(Expected) /\ Gone(Global)
        <4>1. worker.list = Present /\ Global \cap Present = {}
          BY <2>1, <3>1, <3>2, <3>3, FirewallAssumption DEF LockInv, Verified
        <4>2. Gone(Global)
          BY <4>1, Groups DEF Gone, Present
        <4>3. On(Core) /\ On(Bypass) /\ On(Raw)
          BY <2>1, <3>1, <3>2, <3>3 DEF LockInv, On, RawBlocked, AfterCore, AfterBypass, AfterDev
        <4>4. QED
          BY <4>2, <4>3 DEF On, Expected
      <3>4. worker'.locked => On(Expected)' /\ Gone(Global)'
        BY <3>1, <3>3 DEF On, Gone
      <3>5. QED
        BY <2>10, <3>1, <3>2, <3>4 DEF LockInv, On, AfterCore, AfterBypass, AfterDev
    <2>14. QED
      BY <1>5, <2>5, <2>6, <2>7, <2>8, <2>9, <2>11, <2>12, <2>13 DEF Worker
  <1>6. QED
    BY <1>3, <1>4, <1>5

\* The verdict is that of a lockdown nobody came between, or nobody believes it.
LEMMA StepLocked ==
    ASSUME TypeOK, OrderInv, LockInv, LockedIsTrue, Next
    PROVE  LockedIsTrue'
  <1>1. /\ rules \in RulesType /\ main \in MainType
    BY Types
  <1>2. SUFFICES ASSUME verdict' = "locked", ~disturbed'
                 PROVE  On(Expected)' /\ Gone(Global)'
    BY DEF LockedIsTrue, On, Gone, Present
  <1>3. CASE Boot \/ Again
    <2>1. PICK reason \in Reasons : Begin(reason)
      BY <1>1, <1>3, BeginSteps
    <2>2. QED
      BY <1>2, <2>1, BeginFacts
  <1>4. CASE ~Worker /\ ~(Boot \/ Again)
    <2>1. /\ ~disturbed /\ verdict' = verdict
          /\ \A r \in Expected : rules[r] = "on" => rules'[r] = "on"
          /\ \A r \in Global : rules'[r] = rules[r]
      BY <1>2, <1>4, OutsideFacts
    <2>2. On(Expected) /\ Gone(Global)
      BY <1>2, <2>1, Groups DEF LockedIsTrue, On, Gone, Present
    <2>3. QED
      BY <2>1, <2>2 DEF On, Gone
  <1>5. CASE Worker
    <2>1. verdict = "none" /\ ~disturbed
      BY <1>2, <1>5, Undisturbed, WorkerStep DEF Boot, Again, Begin, Busy
    <2>2. Deferred
      BY <1>2, <1>5, <2>1
      DEF Worker, Choose, MockLockdown, FastPath, CheckSchema, Clean, EnsureCore, EnsureBypass,
          Ensure, EnsureRaw, ApplyExempt, ApplyDev, ListRules, Judge, Mock
    <2>3. worker.phase = "deferred" /\ worker.locked /\ rules' = rules
      BY <1>2, <2>2 DEF Deferred
    <2>4. On(Expected) /\ Gone(Global)
      BY <2>1, <2>3 DEF LockInv
    <2>5. QED
      BY <2>3, <2>4 DEF On, Gone
  <1>6. QED
    BY <1>3, <1>4, <1>5

LEMMA StepDev ==
    ASSUME TypeOK, OrderInv, LockInv, DevInv, Next
    PROVE  DevInv'
  <1>1. /\ rules \in RulesType /\ worker \in WorkerType /\ main \in MainType
        /\ events \in 0..MaxEvents /\ disturbed \in BOOLEAN
        /\ Exempt \in SUBSET Rule /\ Dev \in SUBSET Rule
    BY Types, Groups DEF HistoryOK
  <1>2. SUFFICES ASSUME ~disturbed', mode' = "strict",
                        worker'.phase \in AfterDev \/ verdict' \in {"locked", "open"}
                 PROVE  Gone(Dev)'
    BY DEF DevInv
  <1>3. CASE Boot \/ Again
    <2>1. PICK reason \in Reasons : Begin(reason)
      BY <1>1, <1>3, BeginSteps
    <2>2. QED
      BY <1>2, <2>1, BeginFacts DEF AfterDev
  <1>4. CASE ~Worker /\ ~(Boot \/ Again)
    <2>1. /\ ~disturbed /\ verdict' = verdict /\ worker' = worker /\ mode' = mode
          /\ mode = "strict" => \A r \in Dev : rules'[r] = rules[r]
      BY <1>2, <1>4, OutsideFacts
    <2>2. QED
      BY <1>2, <2>1 DEF DevInv, Gone
  <1>5. CASE Worker
    <2>1. verdict = "none" /\ ~disturbed /\ mode = "strict"
      BY <1>2, <1>5, Undisturbed, WorkerStep DEF Boot, Again, Begin, Busy
    <2>2. CASE ListRules \/ Judge \/ Deferred
      <3>1. worker.phase \in AfterDev /\ rules' = rules
        BY <1>2, <2>2 DEF ListRules, Judge, Deferred, Working, AfterDev
      <3>2. QED
        BY <2>1, <3>1 DEF DevInv, Gone
    <2>3. CASE ApplyDev
      <3>1. Renew(Dev, {})
        BY <2>1, <2>3 DEF ApplyDev
      <3>2. QED
        BY <1>1, <1>2, <3>1, RenewFacts DEF Gone
    <2>4. CASE FastPath
      <3>1. verdict' = "fast" /\ worker'.phase = "idle"
        BY <2>1, <2>4, IdleFacts DEF FastPath, LockInv
      <3>2. QED
        BY <1>2, <3>1 DEF AfterDev
    <2>5. CASE MockLockdown \/ Mock
      <3>1. verdict' = "mock" /\ worker'.phase = "idle"
        BY <2>5, IdleFacts DEF MockLockdown, Mock
      <3>2. QED
        BY <1>2, <3>1 DEF AfterDev
    <2>6. CASE Choose \/ CheckSchema \/ Clean \/ EnsureCore \/ EnsureBypass \/ EnsureRaw
               \/ ApplyExempt
      <3>1. verdict' = verdict
        BY <2>6 DEF Choose, CheckSchema, Clean, EnsureCore, EnsureBypass, Ensure, EnsureRaw,
                    ApplyExempt
      <3>2. {"schema", "fast", "mock", "core", "clean", "bypass", "raw", "dev"} \subseteq Phases
            /\ Core \in SUBSET Rule /\ Bypass \in SUBSET Rule
        BY Groups DEF Phases
      <3>3. worker'.phase \notin AfterDev
        <4>1. CASE Choose \/ CheckSchema \/ Clean \/ ApplyExempt
          <5>1. \E p \in {"schema", "fast", "mock", "core", "clean", "dev"} : Go(p)
            BY <4>1 DEF Choose, CheckSchema, Clean, ApplyExempt
          <5>2. QED
            BY <1>1, <3>2, <5>1, GoFacts DEF AfterDev
        <4>2. CASE EnsureCore
          BY <1>1, <3>2, <4>2, EnsureFacts DEF EnsureCore, AfterDev
        <4>3. CASE EnsureBypass
          BY <1>1, <3>2, <4>3, EnsureFacts DEF EnsureBypass, AfterDev
        <4>4. CASE EnsureRaw
          BY <1>1, <4>4, EnsureRawFacts DEF AfterDev
        <4>5. QED
          BY <2>6, <4>1, <4>2, <4>3, <4>4
      <3>4. QED
        BY <1>2, <2>1, <3>1, <3>3
    <2>7. QED
      BY <1>5, <2>2, <2>3, <2>4, <2>5, <2>6 DEF Worker
  <1>6. QED
    BY <1>3, <1>4, <1>5

-----------------------------------------------------------------------------
(* The theorems *)

LEMMA InitInv == Init => IInv
  <1>1. SUFFICES ASSUME Init
                 PROVE  IInv
    OBVIOUS
  <1>2. rules \in RulesType
    BY <1>1 DEF Init, RulesType
  <1>3. /\ worker = Idle /\ main = Started /\ verdict = "none" /\ removed = FALSE
        /\ disturbed = FALSE /\ events = 0
    BY <1>1 DEF Init
  <1>4. TypeOK
    <2>1. WorldOK /\ HistoryOK
      <3>1. WorldOK
        BY <1>1 DEF Init, WorldOK
      <3>2. HistoryOK
        <4>1. 0 \in 0..MaxEvents
          BY FirewallAssumption
        <4>2. removed \in BOOLEAN /\ disturbed \in BOOLEAN
          BY <1>3, Zenon
        <4>3. QED
          BY <1>3, <4>1, <4>2 DEF HistoryOK
      <3>3. QED
        BY <3>1, <3>2
    <2>2. QED
      BY <1>2, <1>3, <2>1, IdleFacts, Types
  <1>5. OrderInv /\ LockInv /\ LockedIsTrue /\ DevInv /\ RemovalInv /\ RemovedInv
    BY <1>3, IdleFacts
    DEF OrderInv, LockInv, LockedIsTrue, DevInv, RemovalInv, RemovedInv, Busy, AfterCore,
        AfterBypass, AfterDev
  <1>6. QED
    BY <1>4, <1>5 DEF IInv

LEMMA NextInv == IInv /\ [Next]_vars => IInv'
  <1>1. ASSUME IInv, Next
        PROVE  IInv'
    <2>1. TypesNext
      BY <1>1, TypeStep DEF IInv
    <2>2. TypeOK'
      BY <2>1 DEF TypesNext, TypeOK, RulesType, WorkerType, MainType, WorldOK, HistoryOK
    <2>3. OrderInv' /\ LockInv' /\ LockedIsTrue'
      BY <1>1, OrderStep, StepLock, StepLocked DEF IInv
    <2>4. DevInv' /\ RemovalInv' /\ RemovedInv'
      BY <1>1, StepDev, StepRemoval DEF IInv
    <2>5. QED
      BY <2>2, <2>3, <2>4 DEF IInv
  <1>2. ASSUME IInv, UNCHANGED vars
        PROVE  IInv'
    BY <1>2
    DEF vars, IInv, TypeOK, OrderInv, LockInv, LockedIsTrue, DevInv, RemovalInv, RemovedInv,
        Busy, On, Gone, Present, FirewallLocked, Verified, RawBlocked
  <1>3. QED
    BY <1>1, <1>2

LEMMA Invariance == Spec => []IInv
  BY InitInv, NextInv, PTL DEF Spec

\* The state is well typed.
THEOREM TypeCorrect == Spec => []TypeOK
  <1>1. IInv => TypeOK
    BY DEF IInv
  <1>2. QED
    BY <1>1, Invariance, PTL

\* "Protected" is shown only for a firewall with every rule there and enabled and
\* without those of older versions, whatever failed on the way.
THEOREM VerdictIsTrue == Spec => []LockedIsTrue
  <1>1. IInv => LockedIsTrue
    BY DEF IInv
  <1>2. QED
    BY <1>1, Invariance, PTL

\* A removal that met no failure and no lockdown leaves no rule, and none comes
\* back before the next lockdown.
THEOREM RemovalWhole == Spec => []RemovalIsComplete
  <1>1. IInv => RemovalIsComplete
    BY DEF IInv, RemovedInv, RemovalIsComplete, Gone, Present
  <1>2. QED
    BY <1>1, Invariance, PTL

\* No developer exception outlives the mode it was made in and a lockdown.
THEOREM NoExceptionInStrictMode == Spec => []ExceptionsEndWithTheMode
  <1>1. IInv => ExceptionsEndWithTheMode
    <2>1. Dev \subseteq Rule
      BY Groups
    <2>2. QED
      BY <2>1 DEF IInv, DevInv, ExceptionsEndWithTheMode, Gone, Present
  <1>2. QED
    BY <1>1, Invariance, PTL

=============================================================================
