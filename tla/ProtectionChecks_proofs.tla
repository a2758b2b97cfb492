------------------------ MODULE ProtectionChecks_proofs ------------------------
(***************************************************************************)
(* The violations of the background service, proved for any vectors, any   *)
(* number of overlapping checks, restarts at any point and failing writes; *)
(* and, with the monitors below, for any periods and delays of commands:   *)
(* one violation for what is wrong, in time.                               *)
(***************************************************************************)
EXTENDS ServiceMonitors, TLAPS

\* Well-typed flags and histories are kept by a result of a check.
THEOREM TypeCorrect == Spec => []TypeOK
<1>1. Init => TypeOK
  BY DEF Init, TypeOK, Checks, Hazards
<1>2. TypeOK /\ [Next]_vars => TypeOK'
  <2> SUFFICES ASSUME TypeOK, [Next]_vars PROVE TypeOK'
    OBVIOUS
  <2> USE DEF TypeOK, Hazards
  <2>1. ASSUME NEW c \in Checks, CheckStart(c) PROVE TypeOK'
    BY <2>1 DEF CheckStart
  <2>2. ASSUME NEW c \in Checks, RecordDone(c) PROVE TypeOK'
    <3>1. c[1] \in Vectors
      BY DEF Checks
    <3>2. okFile' \in [Vectors -> BOOLEAN] /\ hazard' \subseteq Hazards
      BY <2>2 DEF RecordDone, Finalize, Written
    <3> QED
      BY <2>2, <3>1, <3>2 DEF RecordDone
  <2>3. ASSUME NEW c \in Checks, NEW good \in BOOLEAN, NEW challenge \in BOOLEAN,
               CheckDone(c, good, challenge)
        PROVE  TypeOK'
    <3> DEFINE alarms == ok[c[1]] /\ ~good
               recorded == alarms /\ challenge
    <3>1. Result(c, good, alarms, recorded)
      BY <2>3 DEF CheckDone, Raises
    <3>2. c[1] \in Vectors
      BY DEF Checks
    <3>3. alarms \in BOOLEAN /\ recorded \in BOOLEAN
      BY <3>2
    <3> HIDE DEF alarms, recorded
    <3>4. /\ ok' \in [Vectors -> BOOLEAN]
          /\ check' \in [Checks -> {"idle", "probing", "recording"}]
          /\ alarm' \in [Vectors -> {"void", "flying", "kept"}]
      BY <3>1, <3>2 DEF Result
    <3>5. calm' \in [Vectors -> BOOLEAN] /\ again' \in BOOLEAN
      BY <3>1, <3>2, <3>3 DEF Result
    <3>6. okFile' \in [Vectors -> BOOLEAN] /\ hazard' \subseteq Hazards
      BY <2>3, <3>4 DEF CheckDone, Raises, Finalize, Written
    <3> QED
      BY <3>4, <3>5, <3>6
  <2>4. CASE Crash
    BY <2>4 DEF Crash
  <2>5. CASE UNCHANGED vars
    BY <2>5 DEF vars
  <2> QED
    BY <2>1, <2>2, <2>3, <2>4, <2>5 DEF Next
<1> QED
  BY <1>1, <1>2, PTL DEF Spec

-----------------------------------------------------------------------------

(* AlarmOnce.  As long as no restart has read outdated flags, a flag that is good
   had a good result after the last violation of its vector. *)
GoodIsCalm == "behind" \notin hazard => \A v \in Vectors : ok[v] => calm[v]

\* Violations of a vector alternate with good results (AlarmOnce), whatever checks
\* overlap.
THEOREM AlarmOnceHolds == Spec => []AlarmOnce
<1> DEFINE Inv == GoodIsCalm /\ AlarmOnce
<1>1. Init => Inv
  BY DEF Init, GoodIsCalm, AlarmOnce
<1>2. TypeOK /\ Inv /\ [Next]_vars => Inv'
  <2> SUFFICES ASSUME TypeOK, Inv, [Next]_vars PROVE Inv'
    OBVIOUS
  <2> USE DEF GoodIsCalm, AlarmOnce
  <2>1. ASSUME NEW c \in Checks, CheckStart(c) PROVE Inv'
    BY <2>1 DEF CheckStart
  <2>2. ASSUME NEW c \in Checks, RecordDone(c) PROVE Inv'
    BY <2>2 DEF RecordDone, Finalize
  <2>3. ASSUME NEW c \in Checks, NEW good \in BOOLEAN, NEW challenge \in BOOLEAN,
               CheckDone(c, good, challenge)
        PROVE  Inv'
    <3> DEFINE v == c[1]
               alarms == ok[v] /\ ~good
    <3>1. Result(c, good, alarms, alarms /\ challenge)
      BY <2>3 DEF CheckDone, Raises
    <3>2. v \in Vectors
      BY DEF Checks
    <3>3. hazard \subseteq hazard'
      BY <2>3 DEF CheckDone, Raises, Finalize
    <3>4. ok' = [ok EXCEPT ![v] = good]
      BY <3>1 DEF Result
    <3>5. calm' = [calm EXCEPT ![v] = good \/ (calm[v] /\ ~alarms)]
      BY <3>1 DEF Result
    <3>6. again' = (again \/ (alarms /\ ~calm[v]))
      BY <3>1 DEF Result
    <3>7. ASSUME "behind" \notin hazard', NEW w \in Vectors, ok'[w]
          PROVE  calm'[w]
      <4>1. CASE w = v
        BY <3>2, <3>4, <3>5, <3>7, <4>1 DEF TypeOK
      <4>2. CASE w # v
        BY <3>3, <3>4, <3>5, <3>7, <4>2 DEF TypeOK
      <4> QED
        BY <4>1, <4>2
    <3>8. AlarmOnce'
      BY <3>2, <3>3, <3>6
    <3> QED
      BY <3>7, <3>8
  <2>4. CASE Crash
    BY <2>4 DEF Crash
  <2>5. CASE UNCHANGED vars
    BY <2>5 DEF vars
  <2> QED
    BY <2>1, <2>2, <2>3, <2>4, <2>5 DEF Next
<1>3. Inv => AlarmOnce
  OBVIOUS
<1> QED
  BY <1>1, <1>2, <1>3, TypeCorrect, PTL DEF Spec

-----------------------------------------------------------------------------

(* AlarmsOutliveCrashes. *)
Clean == hazard \cap {"early", "unsaved"} = {}

\* The file is never more optimistic about a good flag than the memory is.
FileFollows == \A v \in Vectors : ok[v] => okFile[v]

\* A violation in flight whose flag is still bad has a check waiting for it.
FlightHasACheck ==
    \A v \in Vectors :
      ~ok[v] /\ alarm[v] = "flying" =>
        \E s \in Starters : check[<<v, s>>] = "recording"

FlightIsNotOnFile == \A v \in Vectors : ~ok[v] /\ ~okFile[v] => alarm[v] # "flying"

SafeFlight == Clean => FileFollows /\ FlightHasACheck /\ FlightIsNotOnFile

\* What finalizeCheck leaves when neither its write failed nor a violation was in
\* flight: the file equals the flags, and no check that records is left out.
LEMMA FinalizeClean ==
    ASSUME NEW c, NEW flags, Finalize(c, flags), Clean'
    PROVE  /\ okFile' = flags
           /\ Clean
           /\ \A d \in Checks \ {c} : check[d] = "recording" => flags[d[1]]
<1>1. ~ \E d \in Checks \ {c} : check[d] = "recording" /\ ~flags[d[1]]
  BY DEF Finalize, Clean
<1> QED
  BY <1>1 DEF Finalize, Clean

\* A restart forgets no violation that is still on its way (AlarmsOutliveCrashes).
THEOREM AlarmsOutliveCrashesHolds == Spec => []AlarmsOutliveCrashes
<1>1. Init => SafeFlight
  BY DEF Init, SafeFlight, FileFollows, FlightHasACheck, FlightIsNotOnFile
<1>2. TypeOK /\ SafeFlight /\ [Next]_vars => SafeFlight'
  <2> SUFFICES ASSUME TypeOK, SafeFlight, [Next]_vars, Clean'
               PROVE  (FileFollows /\ FlightHasACheck /\ FlightIsNotOnFile)'
    BY DEF SafeFlight
  <2> DEFINE Goal == (FileFollows /\ FlightHasACheck /\ FlightIsNotOnFile)'
  <2> USE DEF FileFollows, FlightHasACheck, FlightIsNotOnFile
  <2>1. ASSUME NEW c \in Checks, CheckStart(c) PROVE Goal
    <3>1. Clean
      BY <2>1 DEF CheckStart, Clean
    <3>2. \A d \in Checks : check[d] = "recording" => check'[d] = "recording"
      BY <2>1 DEF CheckStart, TypeOK
    <3>3. UNCHANGED <<ok, okFile, alarm>>
      BY <2>1 DEF CheckStart
    <3> QED
      BY <3>1, <3>2, <3>3 DEF SafeFlight, Checks
  <2>2. ASSUME NEW c \in Checks, RecordDone(c) PROVE Goal
    <3>1. /\ okFile' = ok /\ Clean
          /\ \A d \in Checks \ {c} : check[d] = "recording" => ok[d[1]]
      BY <2>2, FinalizeClean DEF RecordDone
    <3>2. c[1] \in Vectors
      BY DEF Checks
    <3>3. /\ ok' = ok
          /\ alarm' = [alarm EXCEPT ![c[1]] = "kept"]
      BY <2>2 DEF RecordDone
    <3>4. ASSUME NEW v \in Vectors, ~ok[v] PROVE alarm'[v] # "flying"
      <4>1. CASE v = c[1]
        BY <3>2, <3>3, <4>1 DEF TypeOK
      <4>2. CASE v # c[1]
        <5>1. \A s \in Starters : check[<<v, s>>] # "recording"
          BY <3>1, <3>4, <4>2 DEF Checks
        <5>2. alarm[v] # "flying"
          BY <3>1, <3>4, <5>1 DEF SafeFlight
        <5> QED
          BY <3>3, <4>2, <5>2 DEF TypeOK
      <4> QED
        BY <4>1, <4>2
    <3> QED
      BY <3>1, <3>3, <3>4
  <2>3. ASSUME NEW c \in Checks, NEW good \in BOOLEAN, NEW challenge \in BOOLEAN,
               CheckDone(c, good, challenge)
        PROVE  Goal
    <3> DEFINE v == c[1]
               alarms == ok[v] /\ ~good
               recorded == alarms /\ challenge
    <3>1. Result(c, good, alarms, recorded)
      BY <2>3 DEF CheckDone, Raises
    <3>2. /\ v \in Vectors
          /\ ok[v] \in BOOLEAN
          /\ \E s \in Starters : c = <<v, s>>
      BY DEF Checks, TypeOK
    <3>3. /\ ok' = [ok EXCEPT ![v] = good]
          /\ check[c] = "probing"
          /\ alarm' = [alarm EXCEPT ![v] =
                         IF recorded THEN "flying" ELSE IF alarms THEN "void" ELSE alarm[v]]
          /\ check' = [check EXCEPT ![c] = IF recorded THEN "recording" ELSE "idle"]
      BY <3>1 DEF Result
    <3>4. ok'[v] = good /\ \A w \in Vectors \ {v} : ok'[w] = ok[w]
      BY <3>2, <3>3 DEF TypeOK
    <3>5. \A w \in Vectors \ {v} : alarm'[w] = alarm[w]
      BY <3>3 DEF TypeOK
    <3>6. \A d \in Checks : check[d] = "recording" => d # c /\ check'[d] = "recording"
      BY <3>3 DEF TypeOK
    <3>7. CASE recorded
      <4>1. UNCHANGED <<okFile, hazard>>
        BY <2>3, <3>7 DEF CheckDone, Raises
      <4>2. FileFollows /\ FlightHasACheck /\ FlightIsNotOnFile
        BY <4>1 DEF Clean, SafeFlight
      <4>3. okFile[v] /\ ~ok'[v] /\ check'[c] = "recording"
        BY <3>2, <3>3, <3>4, <3>7, <4>2 DEF TypeOK
      <4>4. FileFollows'
        BY <3>4, <4>1, <4>2, <4>3
      <4>5. FlightHasACheck'
        BY <3>2, <3>4, <3>5, <3>6, <4>2, <4>3 DEF Checks
      <4>6. FlightIsNotOnFile'
        BY <3>4, <3>5, <4>1, <4>2, <4>3
      <4> QED
        BY <4>4, <4>5, <4>6
    <3>8. CASE ~recorded
      <4>1. Finalize(c, ok')
        BY <2>3, <3>8 DEF CheckDone, Raises
      <4>2. /\ okFile' = ok' /\ Clean
            /\ \A d \in Checks \ {c} : check[d] = "recording" => ok'[d[1]]
        BY <4>1, FinalizeClean
      <4>3. ASSUME NEW w \in Vectors, ~ok'[w] PROVE alarm'[w] # "flying"
        <5>1. \A s \in Starters : check[<<w, s>>] # "recording"
          BY <3>6, <4>2, <4>3 DEF Checks
        <5>2. ~ok[w] => alarm[w] # "flying"
          BY <4>2, <5>1 DEF SafeFlight
        <5>3. CASE w = v
          BY <3>2, <3>3, <3>4, <3>8, <4>3, <5>2, <5>3 DEF TypeOK
        <5>4. CASE w # v
          BY <3>4, <3>5, <4>3, <5>2, <5>4
        <5> QED
          BY <5>3, <5>4
      <4> QED
        BY <4>2, <4>3
    <3> QED
      BY <3>7, <3>8
  <2>4. CASE Crash
    <3>1. Clean
      BY <2>4 DEF Crash, Clean
    <3> QED
      BY <2>4, <3>1 DEF Crash, SafeFlight, TypeOK
  <2>5. CASE UNCHANGED vars
    BY <2>5 DEF vars, Clean, SafeFlight
  <2> QED
    BY <2>1, <2>2, <2>3, <2>4, <2>5 DEF Next
<1>3. SafeFlight => AlarmsOutliveCrashes
  BY DEF SafeFlight, Clean, FlightIsNotOnFile, AlarmsOutliveCrashes
<1> QED
  BY <1>1, <1>2, <1>3, TypeCorrect, PTL DEF Spec

-----------------------------------------------------------------------------
(* The monitors: what a check is answered, and when. *)

Alive(v) == cache[v].age < TTL

\* What is known of a vector is what was read while it was bad.
NoGood(v) ==
    /\ \A c \in Checks : c[1] = v => sees[c].value # "good"
    /\ Alive(v) => cache[v].value = "bad"
    /\ fetch[v].value # "good"

\* Only listings run as commands and are cached, and one follows the other.
CommandOf(v) ==
    /\ v \notin Listed => ~Alive(v) /\ ~fetch[v].on
    /\ fetch[v].on => ~Alive(v)
    /\ ~fetch[v].on => fetch[v] = NoFetch

\* A result that is there is that of the cache, or of the machine.
ResultOf(c) ==
    /\ sees[c].value # "unread" \/ sees[c].ran > 0 => Probing(c)
    /\ c[1] \in Files /\ sees[c].value # "unread" => sees[c].value = State(c[1])
    /\ c[1] \in Listed \ misled /\ sees[c].value # "unread" =>
         Alive(c[1]) /\ sees[c].value = cache[c[1]].value

ReadingInv == (\A v \in Vectors : CommandOf(v)) /\ (\A c \in Checks : ResultOf(c))

\* What was read before the machine changed.
StaleOf(v) ==
    /\ Alive(v) /\ cache[v].value = "good" => lasted[v] <= MaxDelay + cache[v].age
    /\ fetch[v].value = "good" => lasted[v] <= fetch[v].ran

StaleInv == \A v \in Vectors : IF bad[v] THEN StaleOf(v) ELSE lasted[v] = 0

\* A violation has been raised for what is wrong now, and nobody holds a better
\* result.
RaisedInv ==
    \A v \in raised :
      /\ bad[v]
      /\ "behind" \notin hazard /\ v \notin misled => ~ok[v] /\ NoGood(v)

\* The last moment at which a check is answered with an old listing.
LastStale == MaxDelay + (TTL - 1)

\* The timer's check is under way: it has its answer, has asked the resolver, or
\* waits for a listing.
Answered(v) ==
    v \notin Probed /\ sees[<<v, "timer">>].value = "bad" /\ lasted[v] <= Bound
Resolving(v) ==
    LET c == <<v, "timer">>
    IN  /\ v \in Probed /\ Probing(c) /\ sees[c].value # "good"
        /\ lasted[v] <= LastStale + Period + sees[c].ran
Listing(v) ==
    LET c == <<v, "timer">>
    IN  /\ v \in Listed /\ Probing(c) /\ sees[c].value = "unread"
        /\ fetch[v].on /\ fetch[v].value # "good"
        /\ lasted[v] <= LastStale + Period + fetch[v].ran

\* What lasts will be asked for in time, or is asked for, or is known.
Due(v) == lasted[v] + due[v] <= LastStale + Period
Known(v) == ~ok[v] /\ NoGood(v)
NoticeOf(v) == Due(v) \/ Answered(v) \/ Resolving(v) \/ Listing(v) \/ Known(v)
NoticeInv == \A v \in Vectors \ misled : bad[v] => NoticeOf(v)

MonitorsInv ==
    /\ MonitorsTypeOK /\ ReadingInv /\ StaleInv /\ RaisedInv /\ OneAlarmPerSession
    /\ NoticeInv

LEMMA CheckFacts ==
    /\ \A c \in Checks : c[1] \in Vectors
    /\ \A v \in Vectors : <<v, "timer">> \in Checks /\ <<v, "manual">> \in Checks
  BY MonitorAssumption DEF Checks

LEMMA Numbers ==
    /\ Period \in Nat /\ MaxDelay \in Nat /\ MaxDelay >= 1 /\ MaxDelay < Period
    /\ TTL \in Nat /\ TTL = Period - 1 /\ MaxFaults \in Nat
    /\ Bound \in Nat /\ Bound = LastStale + Period + MaxDelay
    /\ LastStale \in Nat /\ LastStale = MaxDelay + TTL - 1
  BY MonitorAssumption DEF TTL, Bound, LastStale

\* The steps of the monitors, and those that are steps of the checks.
MachineSteps ==
    \/ \E v \in Vectors : Change(v)
    \/ \E v \in Listed : ReadListing(v) \/ EndListing(v) \/ FailListing(v)
    \/ \E c \in Checks : Probe(c)
    \/ Tick

LEMMA ApplyDone ==
    ASSUME NEW c \in Checks, NEW challenge \in BOOLEAN, Apply(c, challenge)
    PROVE  \E good \in BOOLEAN : (good <=> sees[c].value = "good") /\ CheckDone(c, good, challenge)
  <1> DEFINE seen == sees[c].value = "good"
  <1>1. seen \in BOOLEAN /\ CheckDone(c, seen, challenge)
    BY DEF Apply
  <1>2. QED
    BY <1>1

\* A step of the monitors is a step of the checks or leaves them alone.
LEMMA MonitorsStep == [MonitorsNext]_<<vars, machine>> => [Next]_vars
  <1>1. ASSUME NEW c \in Checks, NEW challenge \in BOOLEAN, Apply(c, challenge)
        PROVE  Next
    BY <1>1, ApplyDone DEF Next
  <1>2. ASSUME NEW c \in Checks, Start(c) \/ Recorded(c)
        PROVE  Next
    BY <1>2 DEF Start, Recorded, Next
  <1>3. ASSUME NEW v \in Vectors, Timer(v) \/ CheckNow(v)
        PROVE  Next
    BY <1>2, <1>3, CheckFacts DEF Timer, CheckNow
  <1>4. ASSUME Restarted
        PROVE  Next
    BY <1>4 DEF Restarted, Next
  <1>5. ASSUME MachineSteps
        PROVE  UNCHANGED vars
    BY <1>5 DEF MachineSteps, Change, ReadListing, EndListing, FailListing, Probe, Tick
  <1>6. QED
    BY <1>1, <1>2, <1>3, <1>4, <1>5 DEF MonitorsNext, MachineSteps

\* The checks keep their promises whatever the monitors answer, and when: every
\* behaviour of the monitors is one of the checks.
THEOREM MonitorsRefineChecks == MonitorsSpec => Spec
  <1>1. MonitorsInit => Init
    BY DEF MonitorsInit
  <1>2. QED
    BY <1>1, MonitorsStep, PTL DEF MonitorsSpec, Spec

-----------------------------------------------------------------------------
(* The types *)

CacheType == [age : 0..TTL, value : Values]
FetchType == [on : BOOLEAN, ran : 0..MaxDelay, value : Values \cup {"unread"}]
SeenType == [value : Values \cup {"unread"}, ran : 0..MaxDelay]

WorldOK ==
    /\ kind \in [Vectors -> {"listed", "probed", "file"}] /\ bad \in [Vectors -> BOOLEAN]
    /\ lasted \in [Vectors -> 0..(Bound + 1)] /\ due \in [Vectors -> 0..Period]
    /\ faults \in 0..MaxFaults
ReadingsOK ==
    /\ cache \in [Vectors -> CacheType] /\ fetch \in [Vectors -> FetchType]
    /\ sees \in [Checks -> SeenType]
HistoryOK == raised \subseteq Vectors /\ twice \subseteq Vectors /\ misled \subseteq Vectors

LEMMA MachineTypes == MonitorsTypeOK <=> TypeOK /\ WorldOK /\ ReadingsOK /\ HistoryOK
  BY DEF MonitorsTypeOK, WorldOK, ReadingsOK, HistoryOK, CacheType, FetchType, SeenType

LEMMA MachineTypesNext == TypeOK' /\ WorldOK' /\ ReadingsOK' /\ HistoryOK' => MonitorsTypeOK'
  BY DEF MonitorsTypeOK, WorldOK, ReadingsOK, HistoryOK, CacheType, FetchType, SeenType

LEMMA ReadingTypes ==
    ASSUME WorldOK
    PROVE  /\ NoEntry \in CacheType /\ NoFetch \in FetchType /\ Blind \in SeenType
           /\ \A v \in Vectors : State(v) \in Values
           /\ \A s \in SeenType, x \in Values : [s EXCEPT !.value = x] \in SeenType
           /\ \A s \in SeenType : s.ran < MaxDelay => [s EXCEPT !.ran = s.ran + 1] \in SeenType
           /\ \A f \in FetchType, x \in Values : [f EXCEPT !.value = x] \in FetchType
           /\ \A f \in FetchType : [f EXCEPT !.on = TRUE] \in FetchType
           /\ \A f \in FetchType : f.ran < MaxDelay => [f EXCEPT !.ran = f.ran + 1] \in FetchType
           /\ \A e \in CacheType : e.age + 1 < TTL => [e EXCEPT !.age = e.age + 1] \in CacheType
           /\ \A x \in Values : [age |-> 0, value |-> x] \in CacheType
  <1> USE Numbers DEF Values, CacheType, FetchType, SeenType
  <1>1. NoEntry \in CacheType /\ NoFetch \in FetchType /\ Blind \in SeenType
    BY DEF NoEntry, NoFetch, Blind
  <1>2. \A v \in Vectors : State(v) \in Values
    BY DEF State
  <1>3. /\ \A s \in SeenType, x \in Values : [s EXCEPT !.value = x] \in SeenType
        /\ \A s \in SeenType : s.ran < MaxDelay => [s EXCEPT !.ran = s.ran + 1] \in SeenType
    OBVIOUS
  <1>4. /\ \A f \in FetchType, x \in Values : [f EXCEPT !.value = x] \in FetchType
        /\ \A f \in FetchType : [f EXCEPT !.on = TRUE] \in FetchType
    OBVIOUS
  <1>5. \A f \in FetchType : f.ran < MaxDelay => [f EXCEPT !.ran = f.ran + 1] \in FetchType
    OBVIOUS
  <1>6. /\ \A e \in CacheType : e.age + 1 < TTL => [e EXCEPT !.age = e.age + 1] \in CacheType
        /\ \A x \in Values : [age |-> 0, value |-> x] \in CacheType
    OBVIOUS
  <1>7. QED
    BY <1>1, <1>2, <1>3, <1>4, <1>5, <1>6

LEMMA CachedTypes ==
    ASSUME WorldOK, ReadingsOK, NEW c \in Checks, c[1] \in Vectors, Cached(c)
    PROVE  ReadingsOK'
  <1>1. cache[c[1]] \in CacheType /\ fetch[c[1]] \in FetchType /\ sees[c] \in SeenType
    BY DEF ReadingsOK
  <1>2. cache[c[1]].value \in Values
    BY <1>1 DEF CacheType
  <1>3. /\ [sees[c] EXCEPT !.value = cache[c[1]].value] \in SeenType
        /\ [fetch[c[1]] EXCEPT !.on = TRUE] \in FetchType
    BY <1>1, <1>2, ReadingTypes
  <1>4. QED
    BY <1>1, <1>3 DEF Cached, ReadingsOK

LEMMA StartTypes ==
    ASSUME WorldOK, ReadingsOK, NEW c \in Checks, c[1] \in Vectors, Start(c)
    PROVE  ReadingsOK'
  <1>1. CASE Cached(c)
    BY <1>1, CachedTypes
  <1>2. CASE UNCHANGED <<cache, fetch, sees>>
    BY <1>2 DEF ReadingsOK
  <1>3. CASE sees' = [sees EXCEPT ![c].value = State(c[1])] /\ UNCHANGED <<cache, fetch>>
    <2>1. sees[c] \in SeenType /\ State(c[1]) \in Values
      BY ReadingTypes DEF ReadingsOK
    <2>2. [sees[c] EXCEPT !.value = State(c[1])] \in SeenType
      BY <2>1, ReadingTypes
    <2>3. QED
      BY <1>3, <2>2 DEF ReadingsOK
  <1>4. QED
    BY <1>1, <1>2, <1>3 DEF Start

\* The answer to those who wait.
LEMMA AnswerTypes ==
    ASSUME WorldOK, ReadingsOK, NEW v, NEW x \in Values,
           sees' = [c \in Checks |-> IF c \in Waiting(v) THEN [sees[c] EXCEPT !.value = x]
                                     ELSE sees[c]]
    PROVE  sees' \in [Checks -> SeenType]
  <1>1. ASSUME NEW c \in Checks
        PROVE  sees'[c] \in SeenType
    <2>1. sees[c] \in SeenType /\ [sees[c] EXCEPT !.value = x] \in SeenType
      BY ReadingTypes DEF ReadingsOK
    <2>2. QED
      BY <2>1
  <1>2. QED
    BY <1>1

LEMMA MonitorsTypeStep ==
    ASSUME MonitorsTypeOK, ReadingInv, TypeOK', MonitorsNext
    PROVE  MonitorsTypeOK'
  <1> USE MachineTypes, MachineTypesNext
  <1>1. ASSUME NEW c \in Checks, NEW challenge \in BOOLEAN, Apply(c, challenge)
        PROVE  MonitorsTypeOK'
    <2>1. c[1] \in Vectors /\ Blind \in SeenType
      BY CheckFacts, ReadingTypes
    <2>2. ReadingsOK'
      BY <1>1, <2>1 DEF Apply, ReadingsOK
    <2>3. WorldOK' /\ HistoryOK'
      BY <1>1, <2>1 DEF Apply, WorldOK, HistoryOK
    <2>4. QED
      BY <2>2, <2>3
  <1>2. ASSUME NEW v \in Vectors, Timer(v) \/ CheckNow(v)
        PROVE  MonitorsTypeOK'
    <2>1. \E c \in Checks : c[1] \in Vectors /\ Start(c)
      BY <1>2, CheckFacts DEF Timer, CheckNow
    <2>2. ReadingsOK'
      BY <2>1, StartTypes
    <2>3. UNCHANGED <<kind, bad, lasted, faults, raised, twice, misled>>
      BY <2>1 DEF Start
    <2>4. due' \in [Vectors -> 0..Period]
      BY <1>2, Numbers DEF Timer, CheckNow, WorldOK
    <2>5. QED
      BY <2>2, <2>3, <2>4 DEF WorldOK, HistoryOK
  <1>3. ASSUME NEW v \in Vectors, Change(v)
        PROVE  MonitorsTypeOK'
    BY <1>3, Numbers DEF Change, WorldOK, ReadingsOK, HistoryOK
  <1>4. ASSUME NEW v \in Vectors, ReadListing(v)
        PROVE  MonitorsTypeOK'
    <2>1. fetch[v] \in FetchType /\ State(v) \in Values
      BY ReadingTypes DEF ReadingsOK
    <2>2. [fetch[v] EXCEPT !.value = State(v)] \in FetchType
      BY <2>1, ReadingTypes
    <2>3. QED
      BY <1>4, <2>2 DEF ReadListing, WorldOK, ReadingsOK, HistoryOK
  <1>5. ASSUME NEW v \in Vectors, EndListing(v)
        PROVE  MonitorsTypeOK'
    <2>1. fetch[v].value \in Values
      BY <1>5 DEF EndListing, ReadingsOK, FetchType
    <2>2. sees' \in [Checks -> SeenType]
      BY <1>5, <2>1, AnswerTypes DEF EndListing
    <2>3. [age |-> 0, value |-> fetch[v].value] \in CacheType /\ NoFetch \in FetchType
      BY <2>1, ReadingTypes
    <2>4. QED
      BY <1>5, <2>2, <2>3 DEF EndListing, WorldOK, ReadingsOK, HistoryOK
  <1>6. ASSUME NEW v \in Vectors, FailListing(v)
        PROVE  MonitorsTypeOK'
    <2>1. "good" \in Values /\ NoEntry \in CacheType /\ NoFetch \in FetchType
      BY ReadingTypes DEF Values
    <2>2. sees' \in [Checks -> SeenType]
      BY <1>6, <2>1, AnswerTypes DEF FailListing
    <2>3. QED
      BY <1>6, <2>1, <2>2, Numbers DEF FailListing, Fault, WorldOK, ReadingsOK, HistoryOK
  <1>7. ASSUME NEW c \in Checks, Probe(c)
        PROVE  MonitorsTypeOK'
    <2>1. c[1] \in Vectors /\ sees[c] \in SeenType /\ State(c[1]) \in Values /\ "bad" \in Values
      BY CheckFacts, ReadingTypes DEF ReadingsOK, Values
    <2>2. /\ [sees[c] EXCEPT !.value = State(c[1])] \in SeenType
          /\ [sees[c] EXCEPT !.value = "bad"] \in SeenType
      BY <2>1, ReadingTypes
    <2>3. ReadingsOK'
      BY <1>7, <2>2 DEF Probe, ReadingsOK
    <2>4. QED
      BY <1>7, <2>1, <2>3, Numbers DEF Probe, Fault, WorldOK, HistoryOK
  <1>8. ASSUME NEW c \in Checks, Recorded(c)
        PROVE  MonitorsTypeOK'
    BY <1>8 DEF Recorded, machine, WorldOK, ReadingsOK, HistoryOK
  <1>9. ASSUME Restarted
        PROVE  MonitorsTypeOK'
    <2>1. NoEntry \in CacheType /\ NoFetch \in FetchType /\ Blind \in SeenType
      BY ReadingTypes
    <2>2. QED
      BY <1>9, <2>1, Numbers DEF Restarted, Fault, WorldOK, ReadingsOK, HistoryOK
  <1>10. ASSUME Tick
         PROVE  MonitorsTypeOK'
    <2>1. ASSUME NEW v \in Vectors
          PROVE  /\ due'[v] \in 0..Period /\ lasted'[v] \in 0..(Bound + 1)
                 /\ cache'[v] \in CacheType /\ fetch'[v] \in FetchType
      <3>1. /\ due[v] \in 0..Period /\ due[v] > 0 /\ lasted[v] \in 0..(Bound + 1)
            /\ cache[v] \in CacheType /\ fetch[v] \in FetchType /\ NoEntry \in CacheType
        BY <1>10, ReadingTypes DEF Tick, WorldOK, ReadingsOK
      <3>2. due'[v] = due[v] - 1 /\ lasted'[v] \in {0, Older(lasted[v], Bound + 1)}
        BY <1>10 DEF Tick
      <3>3. due'[v] \in 0..Period /\ lasted'[v] \in 0..(Bound + 1)
        BY <3>1, <3>2, Numbers DEF Older
      <3>4. cache'[v] \in CacheType
        BY <1>10, <3>1, ReadingTypes DEF Tick
      <3>5. fetch[v].on => fetch[v].ran < MaxDelay
        BY <1>10 DEF Tick, ReadingInv, CommandOf
      <3>6. fetch'[v] \in FetchType
        BY <1>10, <3>1, <3>5, ReadingTypes DEF Tick
      <3>7. QED
        BY <3>3, <3>4, <3>6
    <2>2. ASSUME NEW c \in Checks
          PROVE  sees'[c] \in SeenType
      <3>1. sees[c] \in SeenType /\ sees[c].ran < MaxDelay
        BY <1>10 DEF Tick, ReadingsOK
      <3>2. [sees[c] EXCEPT !.ran = sees[c].ran + 1] \in SeenType
        BY <3>1, ReadingTypes
      <3>3. QED
        BY <1>10, <3>1, <3>2 DEF Tick
    <2>3. ReadingsOK'
      BY <1>10, <2>1, <2>2 DEF Tick, ReadingsOK
    <2>4. WorldOK' /\ HistoryOK'
      BY <1>10, <2>1 DEF Tick, WorldOK, HistoryOK
    <2>5. QED
      BY <2>3, <2>4
  <1>11. QED
    BY <1>1, <1>2, <1>3, <1>4, <1>5, <1>6, <1>7, <1>8, <1>9, <1>10 DEF MonitorsNext, Listed

-----------------------------------------------------------------------------
(* The readings *)

\* What is left alone stays sound.
LEMMA SameResult ==
    ASSUME NEW c \in Checks, ResultOf(c), sees'[c] = sees[c], Probing(c) => Probing(c)',
           kind' = kind, bad' = bad, cache' = cache, misled \subseteq misled'
    PROVE  ResultOf(c)'
  BY DEF ResultOf, Files, Listed, State, Alive

LEMMA Unread ==
    ASSUME NEW c \in Checks, sees'[c].value = "unread", sees'[c].ran > 0 => Probing(c)'
    PROVE  ResultOf(c)'
  BY DEF ResultOf

LEMMA SameCommand ==
    ASSUME NEW v \in Vectors, CommandOf(v), kind' = kind, cache'[v] = cache[v], fetch'[v] = fetch[v]
    PROVE  CommandOf(v)'
  BY DEF CommandOf, Listed, Alive

\* A check that starts: its own result, and the command it may have started.
LEMMA StartFacts ==
    ASSUME MonitorsTypeOK, ReadingInv, NEW c \in Checks, c[1] \in Vectors, Start(c)
    PROVE  /\ Probing(c)' /\ sees[c].value = "unread"
           /\ \A d \in Checks \ {c} : sees'[d] = sees[d] /\ check'[d] = check[d]
           /\ \A v \in Vectors \ {c[1]} : fetch'[v] = fetch[v]
           /\ cache' = cache /\ sees'[c].ran = 0
           /\ \/ /\ c[1] \in Listed /\ Alive(c[1]) /\ fetch'[c[1]] = fetch[c[1]]
                 /\ sees'[c].value = cache[c[1]].value
              \/ /\ c[1] \in Listed /\ ~Alive(c[1]) /\ sees'[c].value = "unread"
                 /\ fetch'[c[1]] = IF fetch[c[1]].on THEN fetch[c[1]]
                                   ELSE [fetch[c[1]] EXCEPT !.on = TRUE]
              \/ c[1] \in Probed /\ sees' = sees /\ fetch'[c[1]] = fetch[c[1]]
              \/ c[1] \in Files /\ sees'[c].value = State(c[1]) /\ fetch'[c[1]] = fetch[c[1]]
  <1>1. TypeOK /\ WorldOK /\ ReadingsOK
    BY MachineTypes
  <1>2. /\ check[c] = "idle" /\ Probing(c)'
        /\ \A d \in Checks \ {c} : check'[d] = check[d]
    BY <1>1 DEF Start, CheckStart, TypeOK, Probing
  <1>3. sees[c] \in SeenType /\ sees[c].value = "unread" /\ sees[c].ran = 0
    BY <1>1, <1>2 DEF ReadingInv, ResultOf, ReadingsOK, SeenType, Probing
  <1>4. c[1] \notin Listed => UNCHANGED fetch
    BY DEF Start, Listed, Probed, Files
  <1>5. CASE c[1] \in Listed
    <2>1. Cached(c)
      BY <1>5 DEF Start, Listed, Probed, Files
    <2>2. QED
      BY <1>1, <1>2, <1>3, <1>5, <2>1 DEF Cached, Alive, ReadingsOK, SeenType
  <1>6. CASE c[1] \in Probed
    BY <1>1, <1>2, <1>3, <1>6 DEF Start, Listed, Probed, Files
  <1>7. CASE c[1] \in Files
    BY <1>1, <1>2, <1>3, <1>7 DEF Start, Listed, Probed, Files, ReadingsOK, SeenType
  <1>8. QED
    BY <1>1, <1>5, <1>6, <1>7 DEF WorldOK, Listed, Probed, Files

\* What the answer to those who wait does.
LEMMA AnswerFacts ==
    ASSUME MonitorsTypeOK, NEW v, NEW x,
           sees' = [c \in Checks |-> IF c \in Waiting(v) THEN [sees[c] EXCEPT !.value = x]
                                     ELSE sees[c]]
    PROVE  \A c \in Checks :
             /\ sees'[c].ran = sees[c].ran
             /\ c \in Waiting(v) => sees'[c].value = x
             /\ c \notin Waiting(v) => sees'[c] = sees[c]
  BY MachineTypes DEF ReadingsOK, SeenType

LEMMA ApplyFacts ==
    ASSUME MonitorsTypeOK, NEW c \in Checks, NEW challenge \in BOOLEAN, Apply(c, challenge)
    PROVE  /\ Probing(c) /\ sees[c].value # "unread" /\ sees'[c] = Blind
           /\ \A d \in Checks \ {c} : sees'[d] = sees[d] /\ check'[d] = check[d]
           /\ ok' = [ok EXCEPT ![c[1]] = (sees[c].value = "good")]
           /\ hazard \subseteq hazard' /\ misled \subseteq misled'
           /\ UNCHANGED <<kind, bad, lasted, cache, fetch, due>>
  <1>1. PICK good \in BOOLEAN : (good <=> sees[c].value = "good") /\ CheckDone(c, good, challenge)
    BY ApplyDone
  <1> DEFINE alarms == ok[c[1]] /\ ~good
  <1>2. Result(c, good, alarms, alarms /\ challenge) /\ hazard \subseteq hazard'
    BY <1>1 DEF CheckDone, Raises, Finalize
  <1>3. /\ check[c] = "probing" /\ ok' = [ok EXCEPT ![c[1]] = good]
        /\ check' = [check EXCEPT ![c] = IF alarms /\ challenge THEN "recording" ELSE "idle"]
    BY <1>2 DEF Result
  <1>4. \A d \in Checks \ {c} : check'[d] = check[d]
    BY <1>3, MachineTypes DEF TypeOK
  <1>5. ok' = [ok EXCEPT ![c[1]] = (sees[c].value = "good")]
    BY <1>1, <1>3
  <1>6. /\ sees[c].value # "unread" /\ sees' = [sees EXCEPT ![c] = Blind]
        /\ misled \subseteq misled' /\ UNCHANGED <<kind, bad, lasted, cache, fetch, due>>
    BY DEF Apply
  <1>7. sees'[c] = Blind /\ \A d \in Checks \ {c} : sees'[d] = sees[d]
    BY <1>6, MachineTypes DEF ReadingsOK
  <1>8. QED
    BY <1>2, <1>3, <1>4, <1>5, <1>6, <1>7 DEF Probing

\* What Settled says where the readings matter.
LEMMA SettledFacts ==
    ASSUME MonitorsTypeOK, ReadingInv, Settled, NEW c \in Checks
    PROVE  c[1] \in Vectors /\ (c[1] \notin Probed => sees[c].value = "unread")
  BY CheckFacts DEF Settled

LEMMA ReadingStep ==
    ASSUME MonitorsTypeOK, ReadingInv, MonitorsNext
    PROVE  ReadingInv'
  <1>0. TypeOK /\ WorldOK /\ ReadingsOK
    BY MachineTypes
  <1>1. ASSUME NEW c \in Checks, NEW challenge \in BOOLEAN, Apply(c, challenge)
        PROVE  ReadingInv'
    <2>1. ASSUME NEW d \in Checks
          PROVE  ResultOf(d)'
      <3>1. CASE d = c
        BY <1>1, <3>1, ApplyFacts, Unread DEF Blind
      <3>2. CASE d # c
        BY <1>1, <3>2, ApplyFacts, SameResult DEF ReadingInv, Probing
      <3>3. QED
        BY <3>1, <3>2
    <2>2. ASSUME NEW v \in Vectors
          PROVE  CommandOf(v)'
      BY <1>1, ApplyFacts, SameCommand DEF ReadingInv
    <2>3. QED
      BY <2>1, <2>2 DEF ReadingInv
  <1>2. ASSUME Settled, NEW v \in Vectors, Timer(v) \/ CheckNow(v)
        PROVE  ReadingInv'
    <2>1. PICK c \in Checks : c[1] \in Vectors /\ Start(c)
      BY <1>2, CheckFacts DEF Timer, CheckNow
    <2>2. UNCHANGED <<kind, bad, misled>>
      BY <2>1 DEF Start
    <2>3. ASSUME NEW d \in Checks
          PROVE  ResultOf(d)'
      <3>1. CASE d = c
        BY <2>1, <2>2, <3>1, <1>0, StartFacts DEF ResultOf, Listed, Probed, Files, State, Alive, WorldOK
      <3>2. CASE d # c
        <4>1. sees'[d] = sees[d] /\ check'[d] = check[d] /\ cache' = cache
          BY <2>1, <3>2, StartFacts
        <4>2. QED
          BY <2>2, <4>1, SameResult DEF ReadingInv, Probing
      <3>3. QED
        BY <3>1, <3>2
    <2>4. ASSUME NEW w \in Vectors
          PROVE  CommandOf(w)'
      <3>1. CASE fetch'[w] = fetch[w]
        BY <2>1, <2>2, <3>1, StartFacts, SameCommand DEF ReadingInv
      <3>2. CASE fetch'[w] # fetch[w]
        <4>1. w = c[1] /\ w \in Listed /\ ~Alive(w) /\ cache' = cache
              /\ fetch'[w] = [fetch[w] EXCEPT !.on = TRUE]
          BY <2>1, <3>2, StartFacts
        <4>2. fetch'[w].on
          BY <1>0, <4>1 DEF ReadingsOK, FetchType
        <4>3. QED
          BY <2>2, <4>1, <4>2 DEF CommandOf, Listed, Alive
      <3>3. QED
        BY <3>1, <3>2
    <2>5. QED
      BY <2>3, <2>4 DEF ReadingInv
  <1>3. ASSUME Settled, NEW v \in Vectors, Change(v)
        PROVE  ReadingInv'
    <2>1. UNCHANGED <<check, kind, cache, fetch, sees, misled>>
      BY <1>3 DEF Change, vars
    <2>2. ASSUME NEW d \in Checks
          PROVE  ResultOf(d)'
      <3>1. ResultOf(d) /\ (d[1] \notin Probed => sees[d].value = "unread")
        BY <1>3, SettledFacts DEF ReadingInv
      <3>2. QED
        BY <2>1, <3>1 DEF ResultOf, Probing, Listed, Probed, Files, Alive
    <2>3. QED
      BY <2>1, <2>2, SameCommand DEF ReadingInv
  <1>4. ASSUME Settled, NEW v \in Listed, ReadListing(v)
        PROVE  ReadingInv'
    <2>1. UNCHANGED <<check, kind, bad, cache, sees, misled>>
      BY <1>4 DEF ReadListing, vars
    <2>2. \A d \in Checks : ResultOf(d)'
      BY <2>1, SameResult DEF ReadingInv, Probing
    <2>3. ASSUME NEW w \in Vectors
          PROVE  CommandOf(w)'
      <3>1. /\ fetch[v].on /\ v \in Vectors
            /\ fetch' = [fetch EXCEPT ![v] = [fetch[v] EXCEPT !.value = State(v)]]
        BY <1>4 DEF ReadListing, Listed
      <3>2. CASE w = v
        <4>1. fetch'[w].on
          BY <1>0, <3>1, <3>2 DEF ReadingsOK, FetchType
        <4>2. QED
          BY <2>1, <3>1, <3>2, <4>1 DEF CommandOf, ReadingInv, Listed, Alive
      <3>3. CASE w # v
        BY <1>0, <2>1, <3>1, <3>3, SameCommand DEF ReadingInv, ReadingsOK
      <3>4. QED
        BY <3>2, <3>3
    <2>4. QED
      BY <2>2, <2>3 DEF ReadingInv
  <1>5. ASSUME Settled, NEW v \in Listed, EndListing(v)
        PROVE  ReadingInv'
    <2>1. /\ UNCHANGED <<check, kind, bad, misled>> /\ v \in Vectors
          /\ cache' = [cache EXCEPT ![v] = [age |-> 0, value |-> fetch[v].value]]
          /\ fetch' = [fetch EXCEPT ![v] = NoFetch]
      BY <1>5 DEF EndListing, vars, Listed
    <2>2. /\ cache'[v] = [age |-> 0, value |-> fetch[v].value] /\ fetch'[v] = NoFetch
          /\ \A w \in Vectors \ {v} : cache'[w] = cache[w] /\ fetch'[w] = fetch[w]
      BY <1>0, <2>1 DEF ReadingsOK
    <2>3. \A c \in Checks : /\ sees'[c].ran = sees[c].ran
                            /\ c \in Waiting(v) => sees'[c].value = fetch[v].value
                            /\ c \notin Waiting(v) => sees'[c] = sees[c]
      BY <1>5, AnswerFacts DEF EndListing
    <2>4. ASSUME NEW d \in Checks
          PROVE  ResultOf(d)'
      <3>1. CASE d \in Waiting(v)
        <4>1. d[1] = v /\ Probing(d) /\ Probing(d)'
          BY <2>1, <3>1 DEF Waiting, Probing
        <4>2. cache'[v].age < TTL /\ cache'[v].value = fetch[v].value
          BY <2>2, Numbers, MonitorAssumption DEF TTL
        <4>3. QED
          BY <2>1, <2>3, <3>1, <4>1, <4>2 DEF ResultOf, Listed, Files, Alive
      <3>2. CASE d \notin Waiting(v)
        <4>1. ResultOf(d) /\ (d[1] \notin Probed => sees[d].value = "unread") /\ sees'[d] = sees[d]
          BY <1>5, <2>3, <3>2, SettledFacts DEF ReadingInv
        <4>2. QED
          BY <2>1, <4>1 DEF ResultOf, Probing, Listed, Probed, Files
      <3>3. QED
        BY <3>1, <3>2
    <2>5. ASSUME NEW w \in Vectors
          PROVE  CommandOf(w)'
      <3>1. CASE w = v
        BY <1>5, <2>1, <2>2, <3>1 DEF CommandOf, Listed, NoFetch
      <3>2. CASE w # v
        BY <2>1, <2>2, <3>2, SameCommand DEF ReadingInv
      <3>3. QED
        BY <3>1, <3>2
    <2>6. QED
      BY <2>4, <2>5 DEF ReadingInv
  <1>6. ASSUME Settled, NEW v \in Listed, FailListing(v)
        PROVE  ReadingInv'
    <2>1. /\ UNCHANGED <<check, kind, bad>> /\ v \in Vectors /\ misled' = misled \cup {v}
          /\ cache' = [cache EXCEPT ![v] = NoEntry]
          /\ fetch' = [fetch EXCEPT ![v] = NoFetch]
      BY <1>6 DEF FailListing, vars, Listed
    <2>2. /\ cache'[v] = NoEntry /\ fetch'[v] = NoFetch
          /\ \A w \in Vectors \ {v} : cache'[w] = cache[w] /\ fetch'[w] = fetch[w]
      BY <1>0, <2>1 DEF ReadingsOK
    <2>3. \A c \in Checks : /\ sees'[c].ran = sees[c].ran
                            /\ c \notin Waiting(v) => sees'[c] = sees[c]
      BY <1>6, AnswerFacts DEF FailListing
    <2>4. ASSUME NEW d \in Checks
          PROVE  ResultOf(d)'
      <3>1. CASE d \in Waiting(v)
        <4>1. d[1] = v /\ Probing(d) /\ Probing(d)'
          BY <2>1, <3>1 DEF Waiting, Probing
        <4>2. QED
          BY <1>6, <2>1, <4>1 DEF ResultOf, Listed, Files
      <3>2. CASE d \notin Waiting(v)
        <4>1. ResultOf(d) /\ (d[1] \notin Probed => sees[d].value = "unread") /\ sees'[d] = sees[d]
          BY <1>6, <2>3, <3>2, SettledFacts DEF ReadingInv
        <4>2. QED
          BY <2>1, <4>1 DEF ResultOf, Probing, Listed, Probed, Files
      <3>3. QED
        BY <3>1, <3>2
    <2>5. ASSUME NEW w \in Vectors
          PROVE  CommandOf(w)'
      <3>1. CASE w = v
        BY <2>1, <2>2, <3>1, Numbers DEF CommandOf, Alive, NoEntry, NoFetch
      <3>2. CASE w # v
        BY <2>1, <2>2, <3>2, SameCommand DEF ReadingInv
      <3>3. QED
        BY <3>1, <3>2
    <2>6. QED
      BY <2>4, <2>5 DEF ReadingInv
  <1>7. ASSUME Settled, NEW c \in Checks, Probe(c)
        PROVE  ReadingInv'
    <2>1. /\ c[1] \in Probed /\ Probing(c) /\ misled \subseteq misled'
          /\ UNCHANGED <<check, kind, bad, cache, fetch>>
          /\ \A d \in Checks \ {c} : sees'[d] = sees[d]
      BY <1>7, <1>0 DEF Probe, vars, ReadingsOK
    <2>2. ASSUME NEW d \in Checks
          PROVE  ResultOf(d)'
      <3>1. CASE d = c
        BY <2>1, <3>1 DEF ResultOf, Probing, Probed, Listed, Files
      <3>2. CASE d # c
        BY <2>1, <3>2, SameResult DEF ReadingInv, Probing
      <3>3. QED
        BY <3>1, <3>2
    <2>3. QED
      BY <2>1, <2>2, SameCommand DEF ReadingInv
  <1>8. ASSUME Settled, NEW c \in Checks, Recorded(c)
        PROVE  ReadingInv'
    <2>1. UNCHANGED <<kind, bad, cache, fetch, sees, misled>>
      BY <1>8 DEF Recorded, machine
    <2>2. \A d \in Checks : Probing(d) => Probing(d)'
      BY <1>8, <1>0 DEF Recorded, RecordDone, Probing, TypeOK
    <2>3. QED
      BY <2>1, <2>2, SameResult, SameCommand DEF ReadingInv
  <1>9. ASSUME Settled, Restarted
        PROVE  ReadingInv'
    <2>1. \A d \in Checks : sees'[d] = Blind
      BY <1>9 DEF Restarted
    <2>2. \A d \in Checks : ResultOf(d)'
      BY <2>1, Unread DEF Blind
    <2>3. \A w \in Vectors : cache'[w] = NoEntry /\ fetch'[w] = NoFetch
      BY <1>9 DEF Restarted
    <2>4. \A w \in Vectors : CommandOf(w)'
      BY <2>3, Numbers DEF CommandOf, Alive, NoEntry, NoFetch
    <2>5. QED
      BY <2>2, <2>4 DEF ReadingInv
  <1>10. ASSUME Settled, Tick
         PROVE  ReadingInv'
    <2>1. UNCHANGED <<check, kind, bad, misled>>
      BY <1>10 DEF Tick, vars
    <2>2. ASSUME NEW d \in Checks
          PROVE  ResultOf(d)'
      <3>1. ResultOf(d) /\ d[1] \in Vectors /\ (d[1] \notin Probed => sees[d].value = "unread")
        BY <1>10, SettledFacts DEF ReadingInv
      <3>2. CASE d[1] \in Probed /\ Probing(d)
        BY <2>1, <3>2 DEF ResultOf, Probing, Probed, Listed, Files
      <3>3. CASE ~(d[1] \in Probed /\ Probing(d))
        <4>1. sees'[d] = sees[d]
          BY <1>10, <3>3 DEF Tick
        <4>2. QED
          BY <2>1, <3>1, <3>3, <4>1 DEF ResultOf, Probing, Probed, Listed, Files
      <3>4. QED
        BY <3>2, <3>3
    <2>3. ASSUME NEW w \in Vectors
          PROVE  CommandOf(w)'
      <3>1. /\ cache'[w] = IF cache[w].age + 1 < TTL THEN [cache[w] EXCEPT !.age = cache[w].age + 1] ELSE NoEntry
            /\ fetch'[w] = IF fetch[w].on THEN [fetch[w] EXCEPT !.ran = fetch[w].ran + 1] ELSE fetch[w]
        BY <1>10 DEF Tick
      <3>2. cache[w] \in CacheType /\ fetch[w] \in FetchType /\ CommandOf(w)
        BY <1>0 DEF ReadingsOK, ReadingInv
      <3>3. Alive(w)' => Alive(w)
        BY <3>1, <3>2, Numbers DEF Alive, NoEntry, CacheType
      <3>4. (fetch'[w].on <=> fetch[w].on) /\ (~fetch[w].on => fetch'[w] = fetch[w])
        BY <3>1, <3>2 DEF FetchType
      <3>5. QED
        BY <2>1, <3>2, <3>3, <3>4 DEF CommandOf, Listed
    <2>4. QED
      BY <2>2, <2>3 DEF ReadingInv
  <1>11. QED
    BY <1>1, <1>2, <1>3, <1>4, <1>5, <1>6, <1>7, <1>8, <1>9, <1>10 DEF MonitorsNext

-----------------------------------------------------------------------------
(* What is known of a vector stays known. *)

LEMMA Monotone ==
    ASSUME MonitorsTypeOK, MonitorsNext
    PROVE  hazard \subseteq hazard' /\ misled \subseteq misled'
  <1>1. ASSUME NEW c \in Checks, NEW challenge \in BOOLEAN, Apply(c, challenge)
        PROVE  hazard \subseteq hazard' /\ misled \subseteq misled'
    BY <1>1, ApplyFacts
  <1>2. ASSUME NEW v \in Vectors, Timer(v) \/ CheckNow(v)
        PROVE  hazard \subseteq hazard' /\ misled \subseteq misled'
    BY <1>2 DEF Timer, CheckNow, Start, CheckStart
  <1>3. ASSUME MachineSteps
        PROVE  hazard \subseteq hazard' /\ misled \subseteq misled'
    BY <1>3 DEF MachineSteps, Change, ReadListing, EndListing, FailListing, Probe, Tick, vars
  <1>4. ASSUME NEW c \in Checks, Recorded(c)
        PROVE  hazard \subseteq hazard' /\ misled \subseteq misled'
    BY <1>4 DEF Recorded, RecordDone, Finalize, machine
  <1>5. ASSUME Restarted
        PROVE  hazard \subseteq hazard' /\ misled \subseteq misled'
    BY <1>5 DEF Restarted, Crash
  <1>6. QED
    BY <1>1, <1>2, <1>3, <1>4, <1>5 DEF MonitorsNext, MachineSteps

\* A check that sees what is wrong leaves no better result of its vector behind.
LEMMA AppliedBad ==
    ASSUME MonitorsTypeOK, ReadingInv, NEW c \in Checks, NEW challenge \in BOOLEAN,
           Apply(c, challenge), sees[c].value = "bad", bad[c[1]], c[1] \notin misled'
    PROVE  ~ok'[c[1]] /\ NoGood(c[1])'
  <1> DEFINE v == c[1]
  <1>1. v \in Vectors /\ TypeOK /\ WorldOK /\ ReadingsOK
    BY CheckFacts, MachineTypes
  <1>2. /\ \A d \in Checks \ {c} : sees'[d] = sees[d]
        /\ sees'[c] = Blind /\ ok' = [ok EXCEPT ![v] = (sees[c].value = "good")]
        /\ UNCHANGED <<cache, fetch>> /\ v \notin misled
    BY ApplyFacts
  <1>3. ~ok'[v]
    BY <1>1, <1>2 DEF TypeOK
  <1>4. ASSUME NEW d \in Checks \ {c}, d[1] = v
        PROVE  sees[d].value # "good"
    <2>1. ResultOf(d) /\ ResultOf(c)
      BY DEF ReadingInv
    <2>2. CASE v \in Listed
      BY <1>2, <1>4, <2>1, <2>2 DEF ResultOf
    <2>3. CASE v \in Files
      BY <1>4, <2>1, <2>3 DEF ResultOf, State
    <2>4. CASE v \in Probed
      <3>1. ~(Probing(d) /\ sees[d].value # "unread")
        BY <1>2, <1>4, <2>4 DEF Apply
      <3>2. QED
        BY <2>1, <3>1 DEF ResultOf
    <2>5. QED
      BY <1>1, <2>2, <2>3, <2>4 DEF Listed, Files, Probed, WorldOK
  <1>5. fetch[v].value # "good" /\ (Alive(v) => cache[v].value = "bad")
    <2>1. CommandOf(v) /\ ResultOf(c)
      BY <1>1 DEF ReadingInv
    <2>2. CASE v \in Listed
      <3>1. Alive(v) /\ cache[v].value = "bad"
        BY <1>2, <2>1, <2>2 DEF ResultOf
      <3>2. QED
        BY <2>1, <3>1 DEF CommandOf, NoFetch
    <2>3. CASE v \notin Listed
      BY <2>1, <2>3 DEF CommandOf, NoFetch
    <2>4. QED
      BY <2>2, <2>3
  <1>6. QED
    BY <1>2, <1>3, <1>4, <1>5 DEF NoGood, Alive, Blind

\* Nothing better is read while it lasts, unless a reading fails; only a restart
\* may read another flag.
LEMMA KnownStep ==
    ASSUME MonitorsTypeOK, ReadingInv, MonitorsNext, NEW v \in Vectors,
           bad[v], v \notin misled', ~ok[v], NoGood(v)
    PROVE  NoGood(v)' /\ (~ok'[v] \/ Restarted)
  <1>0. TypeOK /\ WorldOK /\ ReadingsOK
    BY MachineTypes
  <1>1. ASSUME NEW c \in Checks, NEW challenge \in BOOLEAN, Apply(c, challenge)
        PROVE  NoGood(v)' /\ ~ok'[v]
    <2>1. NoGood(v)'
      BY <1>1, ApplyFacts DEF NoGood, Alive, Blind
    <2>2. ok' = [ok EXCEPT ![c[1]] = (sees[c].value = "good")]
      BY <1>1, ApplyFacts
    <2>3. ~ok'[v]
      BY <1>0, <2>2 DEF TypeOK, NoGood
    <2>4. QED
      BY <2>1, <2>3
  <1>2. ASSUME NEW w \in Vectors, Timer(w) \/ CheckNow(w)
        PROVE  NoGood(v)' /\ ~ok'[v]
    <2>1. PICK c \in Checks : c[1] \in Vectors /\ Start(c)
      BY <1>2, CheckFacts DEF Timer, CheckNow
    <2>2. UNCHANGED <<ok, bad, kind, cache>>
      BY <2>1, StartFacts DEF Start, CheckStart
    <2>3. fetch'[v].value = fetch[v].value
      <3>1. \/ fetch'[v] = fetch[v]
            \/ fetch'[v] = [fetch[v] EXCEPT !.on = TRUE]
        BY <2>1, StartFacts
      <3>2. QED
        BY <1>0, <3>1 DEF ReadingsOK, FetchType
    <2>4. ASSUME NEW d \in Checks, d[1] = v
          PROVE  sees'[d].value # "good"
      <3>1. CASE d # c
        <4>1. sees'[d] = sees[d]
          BY <2>1, <3>1, StartFacts
        <4>2. QED
          BY <2>4, <4>1 DEF NoGood
      <3>2. CASE d = c
        BY <2>1, <2>4, <3>2, StartFacts DEF NoGood, State
      <3>3. QED
        BY <3>1, <3>2
    <2>5. QED
      BY <2>2, <2>3, <2>4 DEF NoGood, Alive
  <1>3. ASSUME NEW w \in Vectors, Change(w)
        PROVE  NoGood(v)' /\ ~ok'[v]
    BY <1>3 DEF Change, vars, NoGood, Alive
  <1>4. ASSUME NEW w \in Listed, ReadListing(w)
        PROVE  NoGood(v)' /\ ~ok'[v]
    <2>1. /\ fetch' = [fetch EXCEPT ![w] = [fetch[w] EXCEPT !.value = State(w)]]
          /\ UNCHANGED <<ok, cache, sees>>
      BY <1>4 DEF ReadListing, vars
    <2>2. fetch'[v].value # "good"
      BY <1>0, <2>1 DEF NoGood, State, ReadingsOK, FetchType
    <2>3. QED
      BY <2>1, <2>2 DEF NoGood, Alive
  <1>5. ASSUME NEW w \in Listed, EndListing(w)
        PROVE  NoGood(v)' /\ ~ok'[v]
    <2>1. /\ cache' = [cache EXCEPT ![w] = [age |-> 0, value |-> fetch[w].value]]
          /\ fetch' = [fetch EXCEPT ![w] = NoFetch] /\ ok' = ok
          /\ fetch[w].value \in Values /\ w \in Vectors
      BY <1>0, <1>5 DEF EndListing, vars, Listed, ReadingsOK, FetchType
    <2>2. \A d \in Checks : /\ d \in Waiting(w) => sees'[d].value = fetch[w].value
                            /\ d \notin Waiting(w) => sees'[d] = sees[d]
      BY <1>5, AnswerFacts DEF EndListing
    <2>3. \A d \in Waiting(w) : d[1] = w
      BY DEF Waiting
    <2>4. \A d \in Checks : d[1] = v => sees'[d].value # "good"
      BY <2>2, <2>3 DEF NoGood
    <2>5. fetch'[v].value # "good" /\ (Alive(v)' => cache'[v].value = "bad")
      BY <1>0, <2>1 DEF NoGood, ReadingsOK, NoFetch, Alive, Values
    <2>6. QED
      BY <2>1, <2>4, <2>5 DEF NoGood
  <1>6. ASSUME NEW w \in Listed, FailListing(w)
        PROVE  NoGood(v)' /\ ~ok'[v]
    <2>1. /\ cache' = [cache EXCEPT ![w] = NoEntry]
          /\ fetch' = [fetch EXCEPT ![w] = NoFetch] /\ ok' = ok /\ w # v
      BY <1>6 DEF FailListing, vars
    <2>2. \A d \in Checks : d \notin Waiting(w) => sees'[d] = sees[d]
      BY <1>6, AnswerFacts DEF FailListing
    <2>3. \A d \in Checks : d[1] = v => sees'[d].value # "good"
      BY <2>1, <2>2 DEF NoGood, Waiting
    <2>4. cache'[v] = cache[v] /\ fetch'[v] = fetch[v]
      BY <1>0, <2>1 DEF ReadingsOK
    <2>5. QED
      BY <2>1, <2>3, <2>4 DEF NoGood, Alive
  <1>7. ASSUME NEW c \in Checks, Probe(c)
        PROVE  NoGood(v)' /\ ~ok'[v]
    <2>1. /\ UNCHANGED <<ok, cache, fetch>>
          /\ \A d \in Checks \ {c} : sees'[d] = sees[d]
          /\ sees'[c].value = State(c[1]) \/ sees'[c].value = "bad"
      BY <1>0, <1>7 DEF Probe, vars, ReadingsOK, SeenType
    <2>2. QED
      BY <2>1 DEF NoGood, Alive, State
  <1>8. ASSUME NEW c \in Checks, Recorded(c)
        PROVE  NoGood(v)' /\ ~ok'[v]
    BY <1>8 DEF Recorded, RecordDone, machine, NoGood, Alive
  <1>9. ASSUME Restarted
        PROVE  NoGood(v)'
    BY <1>9, Numbers DEF Restarted, NoGood, Alive, NoEntry, NoFetch, Blind
  <1>10. ASSUME Tick
         PROVE  NoGood(v)' /\ ~ok'[v]
    <2>1. \A d \in Checks : sees'[d].value = sees[d].value
      BY <1>0, <1>10 DEF Tick, ReadingsOK, SeenType
    <2>2. fetch'[v].value = fetch[v].value
      BY <1>0, <1>10 DEF Tick, ReadingsOK, FetchType
    <2>3. Alive(v)' => Alive(v) /\ cache'[v].value = cache[v].value
      <3>1. cache[v] \in CacheType
            /\ cache'[v] = IF cache[v].age + 1 < TTL THEN [cache[v] EXCEPT !.age = cache[v].age + 1]
                           ELSE NoEntry
        BY <1>0, <1>10 DEF Tick, ReadingsOK
      <3>2. QED
        BY <3>1, Numbers DEF Alive, NoEntry, CacheType
    <2>4. ok' = ok
      BY <1>10 DEF Tick, vars
    <2>5. QED
      BY <2>1, <2>2, <2>3, <2>4 DEF NoGood
  <1>11. QED
    BY <1>1, <1>2, <1>3, <1>4, <1>5, <1>6, <1>7, <1>8, <1>9, <1>10 DEF MonitorsNext

LEMMA RaisedStep ==
    ASSUME MonitorsTypeOK, ReadingInv, RaisedInv, MonitorsNext
    PROVE  RaisedInv'
  <1>1. hazard \subseteq hazard' /\ misled \subseteq misled'
    BY Monotone
  <1>2. ASSUME NEW v \in raised, bad'[v]
        PROVE  "behind" \notin hazard' /\ v \notin misled' => ~ok'[v] /\ NoGood(v)'
    <2> SUFFICES ASSUME "behind" \notin hazard', v \notin misled'
                 PROVE  ~ok'[v] /\ NoGood(v)'
      OBVIOUS
    <2>1. v \in Vectors /\ bad[v] /\ ~ok[v] /\ NoGood(v)
      BY <1>1, MachineTypes DEF RaisedInv, HistoryOK
    <2>2. Restarted => ok' = ok
      BY DEF Restarted, Crash
    <2>3. QED
      BY <2>1, <2>2, KnownStep
  <1>3. ASSUME NEW c \in Checks, NEW challenge \in BOOLEAN, Apply(c, challenge)
        PROVE  RaisedInv'
    <2>1. bad' = bad /\ sees[c].value # "unread" /\ c[1] \in Vectors
      BY <1>3, ApplyFacts, CheckFacts
    <2>2. ASSUME NEW v \in raised', v \notin raised
          PROVE  v = c[1] /\ bad[v] /\ sees[c].value # "good"
      BY <1>3, <2>2 DEF Apply, Raises
    <2>3. sees[c].value # "good" => sees[c].value = "bad"
      BY <2>1, MachineTypes DEF ReadingsOK, SeenType, Values
    <2>4. ASSUME NEW v \in raised'
          PROVE  /\ bad'[v]
                 /\ "behind" \notin hazard' /\ v \notin misled' => ~ok'[v] /\ NoGood(v)'
      <3>1. CASE v \in raised
        BY <1>2, <2>1, <3>1 DEF RaisedInv
      <3>2. CASE v \notin raised
        BY <1>3, <2>1, <2>2, <2>3, <3>2, AppliedBad
      <3>3. QED
        BY <3>1, <3>2
    <2>5. QED
      BY <2>4 DEF RaisedInv
  <1>4. ASSUME NEW w \in Vectors, Change(w)
        PROVE  RaisedInv'
    <2>1. raised' = raised \ {w} /\ bad' = [bad EXCEPT ![w] = ~bad[w]]
      BY <1>4 DEF Change
    <2>2. \A v \in raised' : v \in raised /\ bad'[v]
      BY <2>1, MachineTypes DEF RaisedInv, WorldOK, HistoryOK
    <2>3. QED
      BY <1>2, <2>2 DEF RaisedInv
  <1>5. ASSUME raised' = raised, bad' = bad
        PROVE  RaisedInv'
    BY <1>2, <1>5 DEF RaisedInv
  <1>6. QED
    <2>1. ASSUME NEW v \in Vectors, Timer(v) \/ CheckNow(v)
          PROVE  raised' = raised /\ bad' = bad
      BY <2>1 DEF Timer, CheckNow, Start
    <2>2. ASSUME NEW v \in Listed, ReadListing(v) \/ EndListing(v) \/ FailListing(v)
          PROVE  raised' = raised /\ bad' = bad
      BY <2>2 DEF ReadListing, EndListing, FailListing
    <2>3. ASSUME NEW c \in Checks, Probe(c) \/ Recorded(c)
          PROVE  raised' = raised /\ bad' = bad
      BY <2>3 DEF Probe, Recorded, machine
    <2>4. Restarted \/ Tick => raised' = raised /\ bad' = bad
      BY DEF Restarted, Tick
    <2>5. QED
      BY <1>3, <1>4, <1>5, <2>1, <2>2, <2>3, <2>4 DEF MonitorsNext

\* A second alarm would need a flag that is good.
LEMMA AlarmStep ==
    ASSUME MonitorsTypeOK, RaisedInv, OneAlarmPerSession, MonitorsNext
    PROVE  OneAlarmPerSession'
  <1>1. hazard \subseteq hazard' /\ misled \subseteq misled'
    BY Monotone
  <1>2. SUFFICES ASSUME "behind" \notin hazard' PROVE twice' \subseteq misled'
    BY DEF OneAlarmPerSession
  <1>3. twice \subseteq misled'
    BY <1>1, <1>2 DEF OneAlarmPerSession
  <1>4. ASSUME NEW c \in Checks, NEW challenge \in BOOLEAN, Apply(c, challenge)
        PROVE  twice' \subseteq misled'
    <2>1. ASSUME NEW v \in twice', v \notin twice
          PROVE  v \in raised /\ ok[v]
      BY <1>4, <2>1 DEF Apply, Raises
    <2>2. QED
      BY <1>1, <1>2, <1>3, <2>1 DEF RaisedInv
  <1>5. ASSUME NEW v \in Vectors, Timer(v) \/ CheckNow(v) \/ Change(v)
        PROVE  twice' \subseteq misled'
    BY <1>3, <1>5 DEF Timer, CheckNow, Start, Change
  <1>6. ASSUME NEW v \in Listed, ReadListing(v) \/ EndListing(v) \/ FailListing(v)
        PROVE  twice' \subseteq misled'
    BY <1>3, <1>6 DEF ReadListing, EndListing, FailListing
  <1>7. ASSUME NEW c \in Checks, Probe(c) \/ Recorded(c)
        PROVE  twice' \subseteq misled'
    BY <1>3, <1>7 DEF Probe, Recorded, machine
  <1>8. Restarted \/ Tick => twice' \subseteq misled'
    BY <1>3 DEF Restarted, Tick
  <1>9. QED
    BY <1>4, <1>5, <1>6, <1>7, <1>8 DEF MonitorsNext

-----------------------------------------------------------------------------
(* Time *)

\* What a step does to the clocks of a vector.
LEMMA Clocks ==
    ASSUME MonitorsTypeOK, MonitorsNext, NEW v \in Vectors
    PROVE  \/ /\ Tick /\ Settled /\ due[v] > 0 /\ due'[v] = due[v] - 1
              /\ lasted'[v] \in Nat /\ lasted'[v] <= lasted[v] + 1
              /\ bad'[v] = bad[v] /\ (~bad[v] => lasted'[v] = 0)
           \/ Restarted /\ lasted'[v] = 0 /\ due'[v] = 0
           \/ Change(v) /\ lasted'[v] = 0 /\ due'[v] = due[v]
           \/ Timer(v) /\ Settled /\ due[v] = 0 /\ due'[v] = Period
              /\ lasted'[v] = lasted[v] /\ bad'[v] = bad[v]
           \/ lasted'[v] = lasted[v] /\ due'[v] = due[v] /\ bad'[v] = bad[v]
  <1>0. /\ bad \in [Vectors -> BOOLEAN] /\ lasted \in [Vectors -> 0..(Bound + 1)]
        /\ due \in [Vectors -> 0..Period]
    BY MachineTypes DEF WorldOK
  <1> DEFINE Same == lasted'[v] = lasted[v] /\ due'[v] = due[v] /\ bad'[v] = bad[v]
  <1>1. ASSUME NEW c \in Checks, NEW challenge \in BOOLEAN, Apply(c, challenge)
        PROVE  Same
    BY <1>1 DEF Apply
  <1>2. ASSUME NEW w \in Vectors, Timer(w)
        PROVE  /\ lasted'[v] = lasted[v] /\ bad'[v] = bad[v]
               /\ w # v => due'[v] = due[v]
               /\ w = v => due[v] = 0 /\ due'[v] = Period
    BY <1>0, <1>2 DEF Timer, Start
  <1>3. ASSUME NEW w \in Vectors, CheckNow(w)
        PROVE  Same
    BY <1>3 DEF CheckNow, Start
  <1>4. ASSUME NEW w \in Vectors, Change(w)
        PROVE  \/ w # v /\ Same
               \/ w = v /\ lasted'[v] = 0 /\ due'[v] = due[v]
    <2>1. /\ bad' = [bad EXCEPT ![w] = ~bad[w]] /\ due' = due
          /\ lasted' = [lasted EXCEPT ![w] = 0]
      BY <1>4 DEF Change
    <2>2. CASE w = v
      BY <1>0, <2>1, <2>2
    <2>3. CASE w # v
      BY <1>0, <2>1, <2>3
    <2>4. QED
      BY <2>2, <2>3
  <1>5. ASSUME NEW w \in Listed, ReadListing(w) \/ EndListing(w) \/ FailListing(w)
        PROVE  Same
    BY <1>5 DEF ReadListing, EndListing, FailListing
  <1>6. ASSUME NEW c \in Checks, Probe(c) \/ Recorded(c)
        PROVE  Same
    BY <1>6 DEF Probe, Recorded, machine
  <1>7. ASSUME Restarted
        PROVE  lasted'[v] = 0 /\ due'[v] = 0
    BY <1>7 DEF Restarted
  <1>8. ASSUME Tick
        PROVE  /\ due[v] > 0 /\ due'[v] = due[v] - 1 /\ bad'[v] = bad[v]
               /\ lasted'[v] \in Nat /\ lasted'[v] <= lasted[v] + 1
               /\ ~bad[v] => lasted'[v] = 0
    <2>1. /\ due[v] > 0 /\ due'[v] = due[v] - 1 /\ bad'[v] = bad[v]
          /\ lasted'[v] = IF bad[v] THEN Older(lasted[v], Bound + 1) ELSE 0
      BY <1>8 DEF Tick
    <2>2. lasted[v] \in Nat
      BY <1>0
    <2>3. QED
      BY <2>1, <2>2 DEF Older
  <1>9. QED
    BY <1>1, <1>2, <1>3, <1>4, <1>5, <1>6, <1>7, <1>8 DEF MonitorsNext

LEMMA KindStays == MonitorsNext => kind' = kind
  BY DEF MonitorsNext, Apply, Timer, CheckNow, Start, Change, ReadListing, EndListing,
         FailListing, Probe, Recorded, machine, Restarted, Tick

LEMMA ChangeClocks ==
    ASSUME MonitorsTypeOK, NEW v \in Vectors, Change(v)
    PROVE  lasted'[v] = 0 /\ due' = due
  BY MachineTypes DEF Change, WorldOK

\* What a step does to the commands of a vector.
LEMMA CommandSteps ==
    ASSUME MonitorsTypeOK, ReadingInv, MonitorsNext, NEW v \in Vectors
    PROVE  \/ cache'[v] = cache[v] /\ fetch'[v] = fetch[v] /\ ~Tick
           \/ /\ cache'[v] = cache[v] /\ ~fetch[v].on /\ fetch[v] = NoFetch
              /\ fetch'[v] = [NoFetch EXCEPT !.on = TRUE]
           \/ /\ ReadListing(v) /\ cache'[v] = cache[v] /\ fetch[v].on
              /\ fetch'[v] = [fetch[v] EXCEPT !.value = State(v)]
           \/ /\ EndListing(v) /\ fetch[v].value \in Values /\ fetch'[v] = NoFetch
              /\ cache'[v] = [age |-> 0, value |-> fetch[v].value]
           \/ cache'[v] = NoEntry /\ fetch'[v] = NoFetch /\ (Restarted \/ FailListing(v))
           \/ /\ Tick
              /\ cache'[v] = IF cache[v].age + 1 < TTL THEN [cache[v] EXCEPT !.age = cache[v].age + 1] ELSE NoEntry
              /\ fetch'[v] = IF fetch[v].on THEN [fetch[v] EXCEPT !.ran = fetch[v].ran + 1] ELSE fetch[v]
  <1>0. cache \in [Vectors -> CacheType] /\ fetch \in [Vectors -> FetchType]
    BY MachineTypes DEF ReadingsOK
  <1> DEFINE Same == cache'[v] = cache[v] /\ fetch'[v] = fetch[v]
  <1>1. ASSUME NEW c \in Checks, NEW challenge \in BOOLEAN, Apply(c, challenge)
        PROVE  Same
    BY <1>1 DEF Apply
  <1>2. ASSUME NEW w \in Vectors, Timer(w) \/ CheckNow(w)
        PROVE  \/ Same
               \/ /\ cache'[v] = cache[v] /\ ~fetch[v].on /\ fetch[v] = NoFetch
                  /\ fetch'[v] = [NoFetch EXCEPT !.on = TRUE]
    <2>1. PICK c \in Checks : c[1] \in Vectors /\ Start(c)
      BY <1>2, CheckFacts DEF Timer, CheckNow
    <2>2. cache' = cache
      BY <2>1, StartFacts
    <2>3. CASE v # c[1]
      <3>1. fetch'[v] = fetch[v]
        BY <2>1, <2>3, StartFacts
      <3>2. QED
        BY <2>2, <3>1
    <2>4. CASE v = c[1]
      <3>1. \/ fetch'[v] = fetch[v]
            \/ ~fetch[v].on /\ fetch'[v] = [fetch[v] EXCEPT !.on = TRUE]
        BY <2>1, <2>4, StartFacts
      <3>2. ~fetch[v].on => fetch[v] = NoFetch
        BY DEF ReadingInv, CommandOf
      <3>3. QED
        BY <2>2, <3>1, <3>2
    <2>5. QED
      BY <2>3, <2>4
  <1>3. ASSUME NEW w \in Vectors, Change(w)
        PROVE  Same
    BY <1>3 DEF Change
  <1>4. ASSUME NEW w \in Listed, ReadListing(w)
        PROVE  \/ Same /\ w # v
               \/ /\ w = v /\ cache'[v] = cache[v] /\ fetch[v].on
                  /\ fetch'[v] = [fetch[v] EXCEPT !.value = State(v)]
    BY <1>0, <1>4 DEF ReadListing
  <1>5. ASSUME NEW w \in Listed, EndListing(w)
        PROVE  \/ Same /\ w # v
               \/ /\ w = v /\ fetch[v].value \in Values /\ fetch'[v] = NoFetch
                  /\ cache'[v] = [age |-> 0, value |-> fetch[v].value]
    BY <1>0, <1>5 DEF EndListing, FetchType
  <1>6. ASSUME NEW w \in Listed, FailListing(w)
        PROVE  \/ Same /\ w # v
               \/ w = v /\ cache'[v] = NoEntry /\ fetch'[v] = NoFetch
    BY <1>0, <1>6 DEF FailListing
  <1>7. ASSUME NEW c \in Checks, Probe(c) \/ Recorded(c)
        PROVE  Same
    BY <1>7 DEF Probe, Recorded, machine
  <1>8. ASSUME Restarted
        PROVE  cache'[v] = NoEntry /\ fetch'[v] = NoFetch
    BY <1>8 DEF Restarted
  <1>9. ASSUME Tick
        PROVE  /\ cache'[v] = IF cache[v].age + 1 < TTL THEN [cache[v] EXCEPT !.age = cache[v].age + 1] ELSE NoEntry
               /\ fetch'[v] = IF fetch[v].on THEN [fetch[v] EXCEPT !.ran = fetch[v].ran + 1] ELSE fetch[v]
    BY <1>9 DEF Tick
  <1>10. CASE Tick
    BY <1>9, <1>10
  <1>11. CASE ~Tick
    BY <1>1, <1>2, <1>3, <1>4, <1>5, <1>6, <1>7, <1>8, <1>11 DEF MonitorsNext
  <1>12. QED
    BY <1>10, <1>11

\* An old result ages as what it does not know lasts.
LEMMA StaleStep ==
    ASSUME MonitorsTypeOK, ReadingInv, StaleInv, MonitorsNext
    PROVE  StaleInv'
  <1> SUFFICES ASSUME NEW v \in Vectors
               PROVE  IF bad'[v] THEN StaleOf(v)' ELSE lasted'[v] = 0
    BY DEF StaleInv
  <1>1. /\ cache[v] \in CacheType /\ fetch[v] \in FetchType /\ lasted[v] \in Nat
        /\ CommandOf(v) /\ IF bad[v] THEN StaleOf(v) ELSE lasted[v] = 0
    BY MachineTypes, Numbers DEF ReadingsOK, WorldOK, ReadingInv, StaleInv
  <1>2. CASE Change(v) \/ Restarted
    <2>1. lasted'[v] = 0
      <3>1. lasted \in [Vectors -> 0..(Bound + 1)]
        BY MachineTypes DEF WorldOK
      <3>2. Change(v) => lasted'[v] = 0
        BY <3>1 DEF Change
      <3>3. Restarted => lasted'[v] = 0
        BY DEF Restarted
      <3>4. QED
        BY <1>2, <3>2, <3>3
    <2>2. \/ cache'[v] = cache[v] /\ fetch'[v] = fetch[v]
          \/ cache'[v] = NoEntry /\ fetch'[v] = NoFetch
      <3>1. Change(v) => cache'[v] = cache[v] /\ fetch'[v] = fetch[v]
        BY DEF Change
      <3>2. Restarted => cache'[v] = NoEntry /\ fetch'[v] = NoFetch
        BY DEF Restarted
      <3>3. QED
        BY <1>2, <3>1, <3>2
    <2>3. QED
      BY <1>1, <2>1, <2>2, Numbers DEF StaleOf, CacheType, FetchType, NoEntry, NoFetch
  <1>3. CASE ~(Change(v) \/ Restarted)
    <2>1. /\ bad'[v] = bad[v] /\ (~bad[v] => lasted'[v] = 0)
          /\ lasted'[v] \in Nat /\ lasted'[v] <= lasted[v] + (IF Tick THEN 1 ELSE 0)
      BY <1>1, <1>3, Clocks
    <2>2. SUFFICES ASSUME bad[v] PROVE StaleOf(v)'
      BY <2>1
    <2>3. StaleOf(v)
      BY <1>1, <2>2
    <2>4. CASE Tick
      <3>1. /\ cache'[v] = IF cache[v].age + 1 < TTL THEN [cache[v] EXCEPT !.age = cache[v].age + 1] ELSE NoEntry
            /\ fetch'[v] = IF fetch[v].on THEN [fetch[v] EXCEPT !.ran = fetch[v].ran + 1] ELSE fetch[v]
        BY <2>4 DEF Tick
      <3>2. lasted'[v] <= lasted[v] + 1
        BY <2>1, <2>4
      <3>3. Alive(v)' => Alive(v) /\ cache'[v].value = cache[v].value /\ cache'[v].age = cache[v].age + 1
        BY <1>1, <3>1, Numbers DEF Alive, CacheType, NoEntry
      <3>4. fetch'[v].value = "good" => fetch[v].value = "good" /\ fetch'[v].ran = fetch[v].ran + 1
        BY <1>1, <3>1 DEF CommandOf, FetchType, NoFetch
      <3>5. cache[v].age \in Nat /\ fetch[v].ran \in Nat
        BY <1>1, Numbers DEF CacheType, FetchType
      <3>6. QED
        BY <1>1, <2>1, <2>3, <3>2, <3>3, <3>4, <3>5, Numbers DEF StaleOf
    <2>5. CASE ~Tick
      <3>1. lasted'[v] <= lasted[v]
        BY <1>1, <2>1, <2>5
      <3>2. CASE cache'[v] = cache[v] /\ fetch'[v] = fetch[v]
        BY <1>1, <2>1, <2>3, <3>1, <3>2, Numbers DEF StaleOf, Alive, CacheType, FetchType
      <3>3. CASE cache'[v] = cache[v] /\ fetch'[v] = [NoFetch EXCEPT !.on = TRUE]
        <4>1. fetch'[v].value # "good"
          BY <3>3 DEF NoFetch
        <4>2. QED
          BY <1>1, <2>1, <2>3, <3>1, <3>3, <4>1, Numbers DEF StaleOf, Alive, CacheType
      <3>4. CASE cache'[v] = cache[v] /\ fetch'[v] = [fetch[v] EXCEPT !.value = State(v)]
        <4>1. fetch'[v].value # "good"
          BY <1>1, <2>2, <3>4 DEF State, FetchType
        <4>2. QED
          BY <1>1, <2>1, <2>3, <3>1, <3>4, <4>1, Numbers DEF StaleOf, Alive, CacheType
      <3>5. CASE fetch'[v] = NoFetch /\ cache'[v] = [age |-> 0, value |-> fetch[v].value]
        BY <1>1, <2>1, <2>3, <3>1, <3>5, Numbers DEF StaleOf, FetchType, NoFetch
      <3>6. CASE cache'[v] = NoEntry /\ fetch'[v] = NoFetch
        BY <3>6, Numbers DEF StaleOf, Alive, NoEntry, NoFetch
      <3>7. QED
        BY <2>5, <3>2, <3>3, <3>4, <3>5, <3>6, CommandSteps
    <2>6. QED
      BY <2>4, <2>5
  <1>4. QED
    BY <1>2, <1>3

-----------------------------------------------------------------------------
(* What lasts is asked for. *)

TimerOf(v) == <<v, "timer">>

\* The timer asks: it is answered with what is wrong, has to wait, or is answered
\* with an old listing, early enough for the timer to come back.
LEMMA TimerAsks ==
    ASSUME MonitorsTypeOK, ReadingInv, StaleInv, MonitorsNext, NEW v \in Vectors, bad[v],
           Due(v), Timer(v), due[v] = 0, due'[v] = Period, lasted'[v] = lasted[v]
    PROVE  Due(v)' \/ Answered(v)' \/ Resolving(v)' \/ Listing(v)'
  <1> DEFINE c == TimerOf(v)
  <1>1. c \in Checks /\ c[1] = v /\ c = <<v, "timer">> /\ Start(c)
    BY CheckFacts DEF Timer, TimerOf
  <1>2. /\ lasted[v] \in Nat /\ lasted[v] <= LastStale + Period
        /\ cache[v] \in CacheType /\ fetch[v] \in FetchType /\ sees[c] \in SeenType
    BY <1>1, MachineTypes, Numbers DEF Due, WorldOK, ReadingsOK
  <1>3. kind' = kind /\ Probing(c)' /\ sees[c].value = "unread" /\ StaleOf(v)
    BY <1>1, StartFacts DEF Start, StaleInv
  <1>4. lasted[v] <= LastStale => Due(v)'
    BY <1>2, Numbers DEF Due
  <1>5. CASE v \in Listed /\ Alive(v) /\ sees'[c].value = cache[v].value
    <2>1. CASE cache[v].value = "good"
      <3>1. lasted[v] <= MaxDelay + cache[v].age /\ cache[v].age < TTL /\ cache[v].age \in Nat
        BY <1>2, <1>3, <1>5, <2>1, Numbers DEF StaleOf, Alive, CacheType
      <3>2. QED
        BY <1>2, <1>4, <3>1, Numbers
    <2>2. CASE cache[v].value = "bad"
      <3>1. lasted[v] <= Bound
        BY <1>2, Numbers
      <3>2. sees'[<<v, "timer">>].value = "bad" /\ (v \notin Probed)'
        BY <1>1, <1>3, <1>5, <2>2 DEF Listed, Probed
      <3>3. QED
        BY <3>1, <3>2 DEF Answered
    <2>3. QED
      BY <1>2, <2>1, <2>2 DEF CacheType, Values
  <1>6. CASE /\ v \in Listed /\ sees'[c].value = "unread"
             /\ fetch'[v] = IF fetch[v].on THEN fetch[v] ELSE [fetch[v] EXCEPT !.on = TRUE]
    <2>1. fetch'[v].on /\ fetch'[v].value = fetch[v].value /\ fetch'[v].ran = fetch[v].ran
      BY <1>2, <1>6 DEF FetchType
    <2>2. fetch[v].ran \in 0..MaxDelay
      BY <1>2 DEF FetchType
    <2>3. CASE fetch[v].value = "good"
      <3>1. lasted[v] <= fetch[v].ran
        BY <1>3, <2>3 DEF StaleOf
      <3>2. QED
        BY <1>2, <1>4, <2>2, <3>1, Numbers, MonitorAssumption
    <2>4. CASE fetch[v].value # "good"
      <3>1. lasted'[v] <= LastStale + Period + fetch'[v].ran
        BY <1>2, <2>1, <2>2, Numbers
      <3>2. QED
        BY <1>1, <1>3, <1>6, <2>1, <2>4, <3>1 DEF Listing, Listed
    <2>5. QED
      BY <2>3, <2>4
  <1>7. CASE v \in Probed /\ sees' = sees
    <2>1. lasted'[v] <= LastStale + Period + sees'[c].ran
      BY <1>2, <1>7, Numbers DEF SeenType
    <2>2. QED
      BY <1>1, <1>3, <1>7, <2>1 DEF Resolving, Probed
  <1>8. CASE v \in Files /\ sees'[c].value = State(v)
    <2>1. sees'[<<v, "timer">>].value = "bad" /\ (v \notin Probed)'
      BY <1>1, <1>3, <1>8 DEF State, Files, Probed
    <2>2. lasted[v] <= Bound
      BY <1>2, Numbers
    <2>3. QED
      BY <2>1, <2>2 DEF Answered
  <1>9. QED
    BY <1>1, <1>5, <1>6, <1>7, <1>8, StartFacts

\* An answer that is there comes first.
LEMMA AnsweredStep ==
    ASSUME MonitorsTypeOK, ReadingInv, MonitorsNext, NEW v \in Vectors,
           bad[v], v \notin misled', Answered(v)
    PROVE  Answered(v)' \/ Known(v)'
  <1> DEFINE c == <<v, "timer">>
  <1>1. c \in Checks /\ c[1] = v /\ sees[c].value = "bad" /\ v \notin Probed
    BY CheckFacts DEF Answered
  <1>2. ~Settled
    BY <1>1 DEF Settled
  <1>3. PICK d \in Checks : \E challenge \in BOOLEAN : Apply(d, challenge)
    BY <1>2 DEF MonitorsNext
  <1>4. CASE d = c
    BY <1>1, <1>3, <1>4, AppliedBad DEF Known
  <1>5. CASE d # c
    <2>1. sees'[c] = sees[c] /\ kind' = kind /\ lasted' = lasted
      BY <1>1, <1>3, <1>5, ApplyFacts
    <2>2. QED
      BY <2>1 DEF Answered, Probed
  <1>6. QED
    BY <1>4, <1>5

\* A check under way is not started again.
LEMMA UnderWay ==
    ASSUME MonitorsTypeOK, ReadingInv, MonitorsNext, NEW c \in Checks, Probing(c)
    PROVE  \/ \E challenge \in BOOLEAN : Apply(c, challenge)
           \/ Restarted
           \/ \E w \in Listed : (EndListing(w) \/ FailListing(w)) /\ c \in Waiting(w)
           \/ Probe(c)
           \/ Tick /\ c[1] \in Probed
           \/ Probing(c)' /\ sees'[c] = sees[c]
  <1>0. TypeOK /\ ReadingsOK
    BY MachineTypes
  <1> DEFINE Same == Probing(c)' /\ sees'[c] = sees[c]
  <1>1. ASSUME NEW d \in Checks, NEW challenge \in BOOLEAN, Apply(d, challenge), d # c
        PROVE  Same
    BY <1>1, ApplyFacts DEF Probing
  <1>2. ASSUME NEW w \in Vectors, Timer(w) \/ CheckNow(w)
        PROVE  Same
    <2>1. PICK d \in Checks : d[1] \in Vectors /\ Start(d)
      BY <1>2, CheckFacts DEF Timer, CheckNow
    <2>2. d # c
      BY <2>1 DEF Start, CheckStart, Probing
    <2>3. sees'[c] = sees[c] /\ check'[c] = check[c]
      BY <2>1, <2>2, StartFacts
    <2>4. QED
      BY <2>3 DEF Probing
  <1>3. ASSUME NEW w \in Vectors, Change(w) \/ ReadListing(w)
        PROVE  Same
    BY <1>3 DEF Change, ReadListing, vars, Probing
  <1>4. ASSUME NEW w \in Listed, EndListing(w) \/ FailListing(w), c \notin Waiting(w)
        PROVE  Same
    BY <1>4, AnswerFacts DEF EndListing, FailListing, vars, Probing
  <1>5. ASSUME NEW d \in Checks, Probe(d), d # c
        PROVE  Same
    BY <1>0, <1>5 DEF Probe, vars, Probing, ReadingsOK
  <1>6. ASSUME NEW d \in Checks, Recorded(d)
        PROVE  Same
    BY <1>0, <1>6 DEF Recorded, RecordDone, machine, Probing, TypeOK
  <1>7. ASSUME Tick, c[1] \notin Probed
        PROVE  Same
    BY <1>7 DEF Tick, vars, Probing
  <1>8. QED
    BY <1>1, <1>2, <1>3, <1>4, <1>5, <1>6, <1>7 DEF MonitorsNext, Listed

\* The resolver answers in time.
LEMMA ResolvingStep ==
    ASSUME MonitorsTypeOK, ReadingInv, MonitorsNext, NEW v \in Vectors,
           bad[v], v \notin misled', ~Change(v), Resolving(v)
    PROVE  Due(v)' \/ Resolving(v)' \/ Known(v)'
  <1> DEFINE c == <<v, "timer">>
  <1>0. /\ c \in Checks /\ c[1] = v /\ v \in Probed /\ Probing(c) /\ sees[c].value # "good"
        /\ lasted[v] <= LastStale + Period + sees[c].ran
    BY CheckFacts DEF Resolving
  <1>1. sees[c] \in SeenType /\ sees[c].ran \in Nat /\ lasted[v] \in Nat
    BY <1>0, MachineTypes, Numbers DEF ReadingsOK, SeenType, WorldOK
  <1>2. ASSUME NEW challenge \in BOOLEAN, Apply(c, challenge)
        PROVE  Known(v)'
    <2>1. sees[c].value = "bad"
      BY <1>0, <1>1, <1>2, ApplyFacts DEF SeenType, Values
    <2>2. QED
      BY <1>0, <1>2, <2>1, AppliedBad DEF Known
  <1>3. CASE Restarted
    <2>1. lasted'[v] = 0 /\ due'[v] = 0
      BY <1>3 DEF Restarted
    <2>2. QED
      BY <2>1, Numbers DEF Due
  <1>4. CASE Probe(c)
    <2>1. /\ sees' = [sees EXCEPT ![c] = [sees[c] EXCEPT !.value = "bad"]]
          /\ UNCHANGED <<kind, check, lasted>>
      BY <1>0, <1>4 DEF Probe, vars, State
    <2>2. sees'[c].value = "bad" /\ sees'[c].ran = sees[c].ran
      BY <1>0, <1>1, <2>1, MachineTypes DEF ReadingsOK, SeenType
    <2>3. QED
      BY <1>0, <2>1, <2>2 DEF Resolving, Probed, Probing
  <1>5. CASE Tick
    <2>1. sees'[c] = [sees[c] EXCEPT !.ran = sees[c].ran + 1] /\ UNCHANGED <<kind, check>>
      BY <1>0, <1>5 DEF Tick, vars
    <2>2. sees'[c].value = sees[c].value /\ sees'[c].ran = sees[c].ran + 1
      BY <1>1, <2>1 DEF SeenType
    <2>3. lasted'[v] = Older(lasted[v], Bound + 1)
      BY <1>5 DEF Tick
    <2>4. lasted'[v] <= LastStale + Period + sees'[c].ran
      BY <1>0, <1>1, <2>2, <2>3, Numbers DEF Older
    <2>5. QED
      BY <1>0, <2>1, <2>2, <2>4 DEF Resolving, Probed, Probing
  <1>6. CASE Probing(c)' /\ sees'[c] = sees[c] /\ ~Restarted /\ ~Tick
    <2>1. lasted'[v] = lasted[v] /\ kind' = kind
      <3>1. lasted'[v] = lasted[v]
        BY <1>6, Clocks
      <3>2. kind' = kind
        BY KindStays
      <3>3. QED
        BY <3>1, <3>2
    <2>2. QED
      BY <1>0, <1>6, <2>1 DEF Resolving, Probed
  <1>7. \A w \in Listed : c \notin Waiting(w)
    BY <1>0 DEF Waiting, Listed, Probed
  <1>8. QED
    BY <1>0, <1>2, <1>3, <1>4, <1>5, <1>6, <1>7, UnderWay

\* The command ends in time.
LEMMA ListingStep ==
    ASSUME MonitorsTypeOK, ReadingInv, MonitorsNext, NEW v \in Vectors,
           bad[v], v \notin misled', ~Change(v), Listing(v)
    PROVE  Due(v)' \/ Answered(v)' \/ Listing(v)'
  <1> DEFINE c == <<v, "timer">>
  <1>0. /\ c \in Checks /\ c[1] = v /\ v \in Listed /\ Probing(c) /\ sees[c].value = "unread"
        /\ fetch[v].on /\ fetch[v].value # "good"
        /\ lasted[v] <= LastStale + Period + fetch[v].ran
    BY CheckFacts DEF Listing
  <1>1. fetch[v] \in FetchType /\ fetch[v].ran \in 0..MaxDelay /\ lasted[v] \in Nat /\ kind' = kind
    BY <1>0, MachineTypes, Numbers, KindStays DEF ReadingsOK, FetchType, WorldOK
  <1>2. CASE Restarted
    <2>1. lasted'[v] = 0 /\ due'[v] = 0
      BY <1>2 DEF Restarted
    <2>2. QED
      BY <2>1, Numbers DEF Due
  <1>3. CASE EndListing(v)
    <2>1. fetch[v].value = "bad" /\ c \in Waiting(v)
      BY <1>0, <1>1, <1>3 DEF EndListing, Waiting, FetchType, Values
    <2>2. sees'[c].value = "bad" /\ lasted' = lasted
      <3>1. \A d \in Checks : d \in Waiting(v) => sees'[d].value = fetch[v].value
        BY <1>3, AnswerFacts DEF EndListing
      <3>2. lasted' = lasted
        BY <1>3 DEF EndListing
      <3>3. QED
        BY <1>0, <2>1, <3>1, <3>2
    <2>3. lasted[v] <= Bound
      BY <1>0, <1>1, Numbers
    <2>4. QED
      BY <1>0, <1>1, <2>2, <2>3 DEF Answered, Listed, Probed
  <1>4. ~FailListing(v)
    BY DEF FailListing
  <1>5. CASE ~Restarted /\ ~EndListing(v)
    <2>1. Probing(c)' /\ sees'[c] = sees[c]
      <3>1. \A challenge \in BOOLEAN : ~Apply(c, challenge)
        BY <1>0 DEF Apply
      <3>2. \A w \in Listed : c \in Waiting(w) => w = v
        BY <1>0 DEF Waiting
      <3>3. ~Probe(c) /\ v \notin Probed
        BY <1>0 DEF Probe, Probed, Listed
      <3>4. QED
        BY <1>0, <1>4, <1>5, <3>1, <3>2, <3>3, UnderWay
    <2>2. /\ fetch'[v].on /\ fetch'[v].value # "good"
          /\ fetch'[v].ran = fetch[v].ran + (IF Tick THEN 1 ELSE 0)
      <3>1. CASE Tick
        <4>1. fetch'[v] = [fetch[v] EXCEPT !.ran = fetch[v].ran + 1]
          BY <1>0, <3>1 DEF Tick
        <4>2. QED
          BY <1>0, <1>1, <3>1, <4>1 DEF FetchType
      <3>2. CASE ~Tick
        <4>1. \/ fetch'[v] = fetch[v]
              \/ fetch'[v] = [fetch[v] EXCEPT !.value = State(v)]
          BY <1>0, <1>4, <1>5, <3>2, CommandSteps
        <4>2. fetch'[v].on /\ fetch'[v].value # "good" /\ fetch'[v].ran = fetch[v].ran
          BY <1>0, <1>1, <4>1 DEF FetchType, State
        <4>3. QED
          BY <1>1, <3>2, <4>2
      <3>3. QED
        BY <3>1, <3>2
    <2>3. lasted'[v] \in Nat /\ lasted'[v] <= lasted[v] + (IF Tick THEN 1 ELSE 0)
      BY <1>1, <1>5, Clocks
    <2>4. lasted'[v] <= LastStale + Period + fetch'[v].ran
      BY <1>0, <1>1, <2>2, <2>3, Numbers
    <2>5. QED
      BY <1>0, <1>1, <2>1, <2>2, <2>4 DEF Listing, Listed
  <1>6. QED
    BY <1>2, <1>3, <1>5

LEMMA NoticeStep ==
    ASSUME MonitorsTypeOK, ReadingInv, StaleInv, NoticeInv, MonitorsNext
    PROVE  NoticeInv'
  <1> SUFFICES ASSUME NEW v \in Vectors, v \notin misled', bad'[v]
               PROVE  NoticeOf(v)'
    BY DEF NoticeInv
  <1>1. v \notin misled /\ due[v] \in 0..Period /\ lasted[v] \in Nat
    BY Monotone, MachineTypes, Numbers DEF WorldOK
  <1>2. CASE Change(v) \/ Restarted
    <2>1. lasted'[v] = 0 /\ due'[v] \in 0..Period
      <3>1. Change(v) => lasted'[v] = 0 /\ due'[v] = due[v]
        BY ChangeClocks
      <3>2. Restarted => lasted'[v] = 0 /\ due'[v] = 0
        BY DEF Restarted
      <3>3. QED
        BY <1>1, <1>2, <3>1, <3>2, Numbers
    <2>2. Due(v)'
      BY <2>1, Numbers DEF Due
    <2>3. QED
      BY <2>2 DEF NoticeOf
  <1>3. CASE ~(Change(v) \/ Restarted)
    <2>1. bad[v] /\ NoticeOf(v)
      BY <1>1, <1>3, Clocks DEF NoticeInv
    <2>2. CASE Due(v)
      <3>1. CASE Timer(v) /\ due[v] = 0 /\ due'[v] = Period /\ lasted'[v] = lasted[v]
        BY <2>1, <2>2, <3>1, TimerAsks DEF NoticeOf
      <3>2. CASE /\ due[v] > 0 /\ due'[v] = due[v] - 1
                 /\ lasted'[v] \in Nat /\ lasted'[v] <= lasted[v] + 1
        BY <1>1, <2>2, <3>2, Numbers DEF Due, NoticeOf
      <3>3. CASE lasted'[v] = lasted[v] /\ due'[v] = due[v]
        BY <2>2, <3>3 DEF Due, NoticeOf
      <3>4. QED
        BY <1>3, <3>1, <3>2, <3>3, Clocks
    <2>3. CASE Answered(v)
      BY <2>1, <2>3, AnsweredStep DEF NoticeOf
    <2>4. CASE Resolving(v)
      BY <1>3, <2>1, <2>4, ResolvingStep DEF NoticeOf
    <2>5. CASE Listing(v)
      BY <1>3, <2>1, <2>5, ListingStep DEF NoticeOf
    <2>6. CASE Known(v)
      BY <1>3, <2>1, <2>6, KnownStep DEF Known, NoticeOf
    <2>7. QED
      BY <2>1, <2>2, <2>3, <2>4, <2>5, <2>6 DEF NoticeOf
  <1>4. QED
    BY <1>2, <1>3

-----------------------------------------------------------------------------
(* The invariant *)

LEMMA MonitorsInitInv == MonitorsInit /\ TypeOK => MonitorsInv
  <1> SUFFICES ASSUME MonitorsInit, TypeOK PROVE MonitorsInv
    OBVIOUS
  <1>1. MonitorsTypeOK
    <2>1. WorldOK
      BY Numbers DEF MonitorsInit, WorldOK
    <2>2. ReadingsOK
      BY <2>1, ReadingTypes DEF MonitorsInit, ReadingsOK
    <2>3. HistoryOK
      BY DEF MonitorsInit, HistoryOK
    <2>4. QED
      BY <2>1, <2>2, <2>3, MachineTypes
  <1>2. ReadingInv
    BY Numbers DEF MonitorsInit, ReadingInv, CommandOf, ResultOf, Alive, NoEntry, NoFetch, Blind
  <1>3. StaleInv /\ RaisedInv /\ OneAlarmPerSession /\ NoticeInv
    BY DEF MonitorsInit, StaleInv, RaisedInv, OneAlarmPerSession, NoticeInv
  <1>4. QED
    BY <1>1, <1>2, <1>3 DEF MonitorsInv

LEMMA MonitorsNextInv ==
    MonitorsInv /\ TypeOK' /\ [MonitorsNext]_<<vars, machine>> => MonitorsInv'
  <1> SUFFICES ASSUME MonitorsInv, TypeOK', [MonitorsNext]_<<vars, machine>>
               PROVE  MonitorsInv'
    OBVIOUS
  <1>1. CASE MonitorsNext
    BY <1>1, MonitorsTypeStep, ReadingStep, StaleStep, RaisedStep, AlarmStep, NoticeStep
       DEF MonitorsInv
  <1>2. CASE UNCHANGED <<vars, machine>>
    BY <1>2 DEF vars, machine, MonitorsInv, MonitorsTypeOK, TypeOK, ReadingInv, CommandOf, ResultOf,
       Alive, Listed, Probed, Files, State, Probing, StaleInv, StaleOf, RaisedInv, NoGood,
       OneAlarmPerSession, NoticeInv, NoticeOf, Due, Answered, Resolving, Listing, Known
  <1>3. QED
    BY <1>1, <1>2

LEMMA MonitorsInvariance == MonitorsSpec => []MonitorsInv
  <1>1. MonitorsSpec => []TypeOK
    BY MonitorsRefineChecks, TypeCorrect, PTL
  <1>2. QED
    BY <1>1, MonitorsInitInv, MonitorsNextInv, PTL DEF MonitorsSpec

\* The state of the machine, the readings and the timers is well typed: no
\* command and no probe runs longer than its time-out.
THEOREM MonitorsTypeCorrect == MonitorsSpec => []MonitorsTypeOK
  <1>1. MonitorsInv => MonitorsTypeOK
    BY DEF MonitorsInv
  <1>2. QED
    BY <1>1, MonitorsInvariance, PTL

\* One session raises one violation, however many checks share and cache its
\* readings (serviceManager.js:132-243).
THEOREM OneAlarm == MonitorsSpec => []OneAlarmPerSession
  <1>1. MonitorsInv => OneAlarmPerSession
    BY DEF MonitorsInv
  <1>2. QED
    BY <1>1, MonitorsInvariance, PTL

\* What lasts is noticed within two periods and two commands, with cached
\* listings that are as old as they may be (commandRunner.js:55-74).
THEOREM Noticed == MonitorsSpec => []NoticedInTime
  <1>1. MonitorsInv => NoticedInTime
    <2> SUFFICES ASSUME MonitorsInv, NEW v \in Vectors \ misled, lasted[v] > Bound
                 PROVE  ~ok[v]
      BY DEF NoticedInTime
    <2>1. /\ lasted[v] \in Nat /\ due[v] \in Nat /\ TypeOK /\ ReadingsOK
      BY MachineTypes, Numbers DEF MonitorsInv, WorldOK
    <2>2. bad[v]
      BY <2>1, Numbers DEF MonitorsInv, StaleInv
    <2>3. ~Due(v)
      BY <2>1, Numbers DEF Due
    <2>4. ~Answered(v)
      BY <2>1, Numbers DEF Answered
    <2>5. ~Resolving(v)
      <3>1. <<v, "timer">> \in Checks
        BY CheckFacts
      <3>2. sees[<<v, "timer">>].ran \in 0..MaxDelay
        BY <2>1, <3>1 DEF ReadingsOK, SeenType
      <3>3. QED
        BY <2>1, <3>2, Numbers DEF Resolving
    <2>6. ~Listing(v)
      <3>1. fetch[v].ran \in 0..MaxDelay
        BY <2>1 DEF ReadingsOK, FetchType
      <3>2. QED
        BY <2>1, <3>1, Numbers DEF Listing
    <2>7. QED
      BY <2>2, <2>3, <2>4, <2>5, <2>6 DEF MonitorsInv, NoticeInv, NoticeOf, Known
  <1>2. QED
    BY <1>1, MonitorsInvariance, PTL

=============================================================================
