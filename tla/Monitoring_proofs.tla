-------------------------- MODULE Monitoring_proofs --------------------------
(***************************************************************************)
(* Proofs about the monitors of the app.  Monitoring, for all durations    *)
(* that keep BackoffAssumption, those of the code among them: the watch    *)
(* looks at the machine, and locks it down again, within the bounds the    *)
(* runs check on scaled ones.  DnsHealth, for all domains, answers and     *)
(* layers: reports and diagnoses are true.  MonitorManager, which starts   *)
(* and stops the monitors: it implements both.                             *)
(***************************************************************************)
EXTENDS MonitorManager, TLAPS

-----------------------------------------------------------------------------
(* The inductive invariant. *)

\* The handle is that of the watch, and only a failed challenge leaves the
\* manager without it: until then nobody starts the watch behind a sensor's back.
ManagerInv ==
    /\ handle <=> watch.active
    /\ running /\ enabled => handle
    /\ sensor.state # "off" => running

Down == pending["sensor_down"]

\* The back-off has grown with the failures, and a report that is on its way came
\* from the last exit.
SensorInv ==
    /\ sensor.backoff >= InitialBackoff
    /\ sensor.failures >= 1 => sensor.backoff >= AtMost(2 * InitialBackoff, MaxBackoff)
    /\ sensor.failures >= 2 => sensor.backoff >= AtMost(4 * InitialBackoff, MaxBackoff)
    /\ sensor.failures >= 3 => sensor.backoff >= AtMost(8 * InitialBackoff, MaxBackoff)
    /\ sensor.failures >= 4 => sensor.backoff >= AtMost(16 * InitialBackoff, MaxBackoff)
    /\ Down # "none" => sensor.failures = DownAfter
    /\ Down = "armed" => sensor.state = "retry" /\ sensor.ticks >= 1
    /\ Down = "due" => \/ sensor.state \in {"retry", "lost"}
                       \/ sensor.state = "up" /\ sensor.ticks = 0

\* The sensor cannot be reported down within the next n - 1 ticks, but for a
\* report that is on its way.
Quieted(n) ==
    \/ sensor.state \in {"off", "lost"}
    \/ sensor.state = "retry" /\ sensor.ticks + 2 >= n
    \/ sensor.state = "up" /\ sensor.ticks = 0 /\ 2 >= n
    \/ sensor.state = "up" /\ 1 >= n

\* How long the watch will not have looked when its interval fires.
Level == blind + watch.left
UpFor == IF sensor.state = "up" THEN sensor.ticks ELSE 0

\* No report has armed the interval anew, or one has, or two and the next comes
\* after the interval has fired.
BlindInv ==
    Guarded /\ lockdown = 0 =>
      \/ Level <= Backstop
      \/ /\ sensor.failures = DownAfter /\ Level <= BlindBound
         /\ Down = "none" => /\ Quieted(watch.left + 1) \/ Level <= Backstop + Fast
                             /\ watch.left + UpFor <= Fast
         /\ Down = "armed" => Quieted(Fast + 2) /\ (watch.left = 0 \/ Level <= Backstop + Fast)
         /\ Down = "due" => Quieted(Fast + 1) /\ Level <= Backstop + Fast

\* A check that is sure to see what is broken, and began within the bound.
Seen(c) == c.broken /\ exposed < BlindBound + Cooldown + c.age

\* Until the cooldown is over, as long as the cooldown; then as long as the watch
\* is blind, or until the check that sees it is over.
ExposedInv ==
    /\ ~broken \/ lockdown > 0 => exposed = 0
    /\ Guarded /\ cooldown > 0 => exposed <= Cooldown - cooldown
    /\ Guarded /\ cooldown = 0 =>
         \/ exposed < blind + Cooldown
         \/ \E c \in checks : Seen(c)

IInv == /\ TypeOK /\ ManagerInv /\ SensorInv /\ DeadSensorMeansFastPolling
        /\ BlindInv /\ BlindSpotIsBounded /\ ExposedInv
-----------------------------------------------------------------------------
(* The sensor *)

SensorType == [state : {"off", "up", "retry", "lost"}, ticks : Nat,
               backoff : 1..MaxBackoff, failures : 0..DownAfter]

LEMMA SensorFacts ==
    ASSUME TypeOK
    PROVE  /\ sensor \in SensorType /\ sensor.ticks \in Nat /\ sensor.backoff \in 1..MaxBackoff
           /\ sensor.failures \in 0..DownAfter
           /\ sensor.state \in {"off", "up", "retry", "lost"}
           /\ Down \in {"none", "armed", "due"}
           /\ watch.left \in Nat /\ watch.period \in {Fast, Backstop}
           /\ watch.left <= watch.period /\ watch.active \in BOOLEAN
           /\ blind \in Nat /\ exposed \in Nat /\ lockdown \in Nat /\ cooldown \in Nat
  BY MonitoringAssumption
  DEF TypeOK, SensorType, Vectors, Down, BlindBound, AnswerBound

LEMMA NewSensorFacts ==
    /\ NoSensor \in SensorType /\ NoSensor.state = "off" /\ NoSensor.ticks = 0
    /\ NoSensor.failures = 0 /\ NoSensor.backoff = InitialBackoff
    /\ NewSensor \in SensorType /\ NewSensor.state = "up" /\ NewSensor.ticks = 0
    /\ NewSensor.failures = 0 /\ NewSensor.backoff = InitialBackoff
  BY MonitoringAssumption, BackoffAssumption DEF NoSensor, NewSensor, SensorType

\* What a tick does to the sensor.
LEMMA AgedFacts ==
    ASSUME NEW s \in SensorType, s.state = "retry" => s.ticks > 0
    PROVE  /\ Aged(s) \in SensorType /\ Aged(s).state = s.state
           /\ \/ /\ Aged(s).failures = s.failures /\ Aged(s).backoff = s.backoff
                 /\ s.state = "retry" => Aged(s).ticks = s.ticks - 1
                 /\ s.state = "up" => Aged(s).ticks = s.ticks + 1 /\ s.ticks + 1 < StableReset
                 /\ s.state \notin {"retry", "up"} => Aged(s).ticks = s.ticks
              \/ /\ s.state = "up" /\ s.ticks + 1 >= StableReset
                 /\ Aged(s).failures = 0 /\ Aged(s).ticks = StableReset
                 /\ Aged(s).backoff = InitialBackoff
  <1>1. CASE s.state = "retry"
    BY <1>1 DEF Aged, SensorType
  <1>2. CASE s.state = "up" /\ s.ticks + 1 < StableReset
    BY <1>2 DEF Aged, SensorType
  <1>3. CASE s.state = "up" /\ ~(s.ticks + 1 < StableReset)
    <2>1. Aged(s) = [NewSensor EXCEPT !.ticks = StableReset]
      BY <1>3 DEF Aged
    <2>2. StableReset \in Nat /\ s.ticks \in Nat
      BY MonitoringAssumption DEF SensorType
    <2>3. QED
      BY <1>3, <2>1, <2>2, NewSensorFacts DEF SensorType
  <1>4. CASE s.state \notin {"retry", "up"}
    BY <1>4 DEF Aged, SensorType
  <1>5. QED
    BY <1>1, <1>2, <1>3, <1>4

\* An exit counts, waits for the back-off and raises it.
LEMMA ExitFacts ==
    ASSUME TypeOK, SensorExits
    PROVE  /\ sensor.state = "up" /\ sensor.ticks > 0
           /\ sensor' \in SensorType /\ sensor'.state = "retry"
           /\ sensor'.ticks = sensor.backoff
           /\ sensor'.backoff = AtMost(2 * sensor.backoff, MaxBackoff)
           /\ sensor'.failures = AtMost(sensor.failures + 1, DownAfter)
           /\ pending' = IF sensor'.failures >= DownAfter THEN Emitted("sensor_down")
                         ELSE pending
  <1>1. /\ sensor.backoff \in 1..MaxBackoff /\ sensor.failures \in 0..DownAfter
        /\ sensor.state = "up" /\ sensor.ticks > 0
    BY SensorFacts DEF SensorExits
  <1>2. /\ sensor' = [state |-> "retry", ticks |-> sensor.backoff,
                      backoff |-> NextBackoff(sensor.backoff),
                      failures |-> AtMost(sensor.failures + 1, DownAfter)]
        /\ pending' = IF AtMost(sensor.failures + 1, DownAfter) >= DownAfter
                        THEN Emitted("sensor_down") ELSE pending
    BY DEF SensorExits
  <1>3. AtMost(2 * sensor.backoff, MaxBackoff) \in 1..MaxBackoff
        /\ AtMost(sensor.failures + 1, DownAfter) \in 0..DownAfter
    BY <1>1, MonitoringAssumption DEF AtMost
  <1>4. QED
    BY <1>1, <1>2, <1>3 DEF NextBackoff, SensorType

\* From the report on the back-off is at its longest.
LEMMA LongBackoff ==
    ASSUME TypeOK, SensorInv, sensor.failures = DownAfter
    PROVE  sensor.backoff = MaxBackoff
  <1>1. sensor.backoff \in 1..MaxBackoff
    BY SensorFacts
  <1>2. DownAfter \in Nat \ {0} /\ MaxBackoff \in Nat /\ InitialBackoff \in Nat
    BY MonitoringAssumption
  <1>3. QED
    BY <1>1, <1>2, BackoffAssumption DEF SensorInv, AtMost

-----------------------------------------------------------------------------
(* The types *)

PendingType == [Vectors -> {"none", "armed", "due"}]
WatchType == [active : BOOLEAN, period : {Fast, Backstop}, left : Nat]
CheckType == [broken : BOOLEAN, age : 0..CheckTime]
FlagsOK == /\ running \in BOOLEAN /\ handle \in BOOLEAN
           /\ enabled \in BOOLEAN /\ broken \in BOOLEAN
PartsOK ==
    /\ sensor \in SensorType /\ pending \in PendingType
    /\ watch \in WatchType /\ watch.left <= watch.period
    /\ checks \subseteq CheckType
CountersOK ==
    /\ lockdown \in 0..LockTime /\ cooldown \in 0..Cooldown
    /\ blind \in 0..BlindBound + 1 /\ exposed \in 0..AnswerBound

LEMMA Types == TypeOK <=> FlagsOK /\ PartsOK /\ CountersOK
  BY DEF TypeOK, FlagsOK, PartsOK, CountersOK, SensorType, PendingType, WatchType, CheckType

LEMMA Bounds ==
    /\ BlindBound \in Nat /\ AnswerBound \in Nat
    /\ 0 \in 0..BlindBound + 1 /\ 0 \in 0..AnswerBound
    /\ 0 \in 0..LockTime /\ LockTime \in 0..LockTime
    /\ 0 \in 0..Cooldown /\ Cooldown \in 0..Cooldown
  BY MonitoringAssumption DEF BlindBound, AnswerBound

LEMMA EmittedType ==
    ASSUME pending \in PendingType, NEW v \in Vectors
    PROVE  Emitted(v) \in PendingType
  BY DEF Emitted, PendingType

\* The watch stopped, and armed anew.
LEMMA WatchFields ==
    ASSUME NEW w \in WatchType, NEW p \in {Fast, Backstop}, NEW n \in Nat
    PROVE  /\ [w EXCEPT !.active = FALSE, !.left = n] \in WatchType
           /\ [w EXCEPT !.active = FALSE, !.left = n].active = FALSE
           /\ [w EXCEPT !.active = FALSE, !.left = n].left = n
           /\ [w EXCEPT !.active = FALSE, !.left = n].period = w.period
           /\ [w EXCEPT !.period = p, !.left = n] \in WatchType
           /\ [w EXCEPT !.period = p, !.left = n].active = w.active
           /\ [w EXCEPT !.period = p, !.left = n].left = n
           /\ [w EXCEPT !.period = p, !.left = n].period = p
  <1>1. FALSE \in BOOLEAN
    OBVIOUS
  <1>2. [w EXCEPT !.active = FALSE, !.left = n] \in WatchType
    BY Zenon, <1>1 DEF WatchType
  <1>3. [w EXCEPT !.period = p, !.left = n] \in WatchType
    BY Zenon DEF WatchType
  <1>4. /\ [w EXCEPT !.active = FALSE, !.left = n].active = FALSE
        /\ [w EXCEPT !.active = FALSE, !.left = n].left = n
        /\ [w EXCEPT !.active = FALSE, !.left = n].period = w.period
    BY DEF WatchType
  <1>5. /\ [w EXCEPT !.period = p, !.left = n].active = w.active
        /\ [w EXCEPT !.period = p, !.left = n].left = n
        /\ [w EXCEPT !.period = p, !.left = n].period = p
    BY DEF WatchType
  <1>6. QED
    BY <1>2, <1>3, <1>4, <1>5

LEMMA WatchTypes ==
    ASSUME watch \in WatchType
    PROVE  /\ StartWatch => watch' \in WatchType /\ watch'.left <= watch'.period
           /\ StopWatch => watch' \in WatchType /\ watch'.left <= watch'.period
           /\ Fallback /\ watch.left <= watch.period
                => watch' \in WatchType /\ watch'.left <= watch'.period
  <1>1. Fast \in Nat \ {0} /\ Backstop \in Nat \ {0}
    BY MonitoringAssumption
  <1>2. watch.period \in Nat
    BY <1>1 DEF WatchType
  <1>3. StartWatch => watch' \in WatchType /\ watch'.left <= watch'.period
    BY <1>1 DEF WatchType, StartWatch
  <1>4. ASSUME StopWatch
        PROVE  watch' \in WatchType /\ watch'.left <= watch'.period
    <2>1. watch' = [watch EXCEPT !.active = FALSE, !.left = 0]
      BY <1>4 DEF StopWatch
    <2>2. watch' \in WatchType /\ watch'.left = 0 /\ watch'.period = watch.period
      BY <1>1, <2>1, WatchFields
    <2>3. QED
      BY <1>2, <2>2
  <1>5. ASSUME Fallback, watch.left <= watch.period
        PROVE  watch' \in WatchType /\ watch'.left <= watch'.period
    <2>1. CASE watch.active
      <3>1. watch' = [watch EXCEPT !.period = Fast, !.left = Fast]
        BY <1>5, <2>1 DEF Fallback
      <3>2. watch' \in WatchType /\ watch'.left = Fast /\ watch'.period = Fast
        BY <1>1, <3>1, WatchFields
      <3>3. QED
        BY <1>1, <3>2
    <2>2. CASE ~watch.active
      BY <1>5, <2>2 DEF Fallback
    <2>3. QED
      BY <2>1, <2>2
  <1>6. QED
    BY <1>3, <1>4, <1>5

LEMMA LookType ==
    ASSUME FlagsOK, checks \subseteq CheckType, blind \in 0..BlindBound + 1, RunWatchCheck
    PROVE  checks' \subseteq CheckType /\ blind' \in 0..BlindBound + 1
  <1>1. CASE enabled /\ lockdown = 0
    <2>1. checks' = checks \cup {[broken |-> broken /\ exposed >= ScanAge, age |-> 0]}
      BY <1>1 DEF RunWatchCheck
    <2>2. (broken /\ exposed >= ScanAge) \in BOOLEAN /\ 0 \in 0..CheckTime
      BY MonitoringAssumption
    <2>3. [broken |-> broken /\ exposed >= ScanAge, age |-> 0] \in CheckType
      BY <2>2, Zenon DEF CheckType
    <2>4. QED
      BY <1>1, <2>1, <2>3, Bounds DEF RunWatchCheck
  <1>2. CASE ~(enabled /\ lockdown = 0)
    BY <1>2 DEF RunWatchCheck
  <1>3. QED
    BY <1>1, <1>2

LEMMA MendedType ==
    ASSUME checks \subseteq CheckType
    PROVE  {Mended(c) : c \in checks} \subseteq CheckType
  BY DEF Mended, CheckType

LEMMA FlagsStep ==
    ASSUME TypeOK, Next
    PROVE  FlagsOK'
  <1>1. FlagsOK
    BY Types
  <1>2. CASE Manager \/ Sensor
    BY <1>1, <1>2 DEF FlagsOK, Manager, Sensor, Start, Stop, Reapply, FailChallenge, StartWatch,
                      SensorExits, SpawnSensor
  <1>3. CASE Change
    BY <1>1, <1>3 DEF FlagsOK, Change
  <1>4. CASE Watch
    BY <1>1, <1>4 DEF FlagsOK, Watch, Poll, Tampered, Check, FinishCheck
  <1>5. CASE EndLockdown
    BY <1>1, <1>5 DEF FlagsOK, EndLockdown
  <1>6. CASE OtherLockdown \/ Tick
    BY <1>1, <1>6 DEF FlagsOK, OtherLockdown, Tick
  <1>7. QED
    BY <1>2, <1>3, <1>4, <1>5, <1>6 DEF Next

LEMMA PartsStep ==
    ASSUME TypeOK, Next
    PROVE  PartsOK'
  <1>1. FlagsOK /\ PartsOK /\ CountersOK
    BY Types
  <1>2. /\ Quiet \in PendingType /\ NoSensor \in SensorType /\ NewSensor \in SensorType
    BY NewSensorFacts DEF Quiet, PendingType
  <1>3. CASE Manager
    <2>1. sensor' \in SensorType /\ pending' \in PendingType /\ checks' \subseteq CheckType
      BY <1>1, <1>2, <1>3
      DEF PartsOK, Manager, Start, Stop, Reapply, FailChallenge
    <2>2. StartWatch \/ StopWatch \/ watch' = watch
      BY <1>3 DEF Manager, Start, Stop, Reapply, FailChallenge
    <2>3. QED
      BY <1>1, <2>1, <2>2, WatchTypes DEF PartsOK
  <1>4. CASE SensorExits
    <2>1. sensor' \in SensorType /\ pending' \in {pending, Emitted("sensor_down")}
      BY <1>4, ExitFacts
    <2>2. UNCHANGED <<watch, checks>>
      BY <1>4 DEF SensorExits
    <2>3. QED
      BY <1>1, <2>1, <2>2, EmittedType DEF PartsOK, Vectors
  <1>5. CASE SpawnSensor
    <2>1. PICK s \in {"up", "lost"} : sensor' = [sensor EXCEPT !.state = s]
      BY <1>5 DEF SpawnSensor
    <2>2. sensor' \in SensorType
      BY <1>1, <2>1 DEF PartsOK, SensorType
    <2>3. QED
      BY <1>1, <1>5, <2>2 DEF PartsOK, SpawnSensor
  <1>6. CASE Change
    BY <1>1, <1>6, EmittedType, MendedType DEF PartsOK, Change, Vectors
  <1>7. CASE Poll
    <2>1. watch' \in WatchType /\ watch'.left <= watch'.period
      BY <1>1, <1>7, MonitoringAssumption DEF PartsOK, Poll, WatchType
    <2>2. checks' \subseteq CheckType
      BY <1>1, <1>7, LookType DEF PartsOK, CountersOK, Poll
    <2>3. QED
      BY <1>1, <1>7, <2>1, <2>2 DEF PartsOK, Poll
  <1>8. ASSUME NEW v \in Vectors, Tampered(v)
        PROVE  PartsOK'
    <2>1. watch' \in WatchType /\ watch'.left <= watch'.period
      BY <1>1, <1>8, WatchTypes DEF PartsOK, Tampered
    <2>2. checks' \subseteq CheckType
      BY <1>1, <1>8, LookType DEF PartsOK, CountersOK, Tampered
    <2>3. pending' \in PendingType
      BY <1>1, <1>8 DEF PartsOK, PendingType, Tampered
    <2>4. QED
      BY <1>1, <1>8, <2>1, <2>2, <2>3 DEF PartsOK, Tampered
  <1>9. CASE Check
    BY <1>1, <1>9 DEF PartsOK, Check, FinishCheck
  <1>10. CASE OtherLockdown \/ EndLockdown
    BY <1>1, <1>10, MendedType DEF PartsOK, OtherLockdown, EndLockdown
  <1>11. CASE Tick
    <2>1. sensor' \in SensorType
      BY <1>1, <1>11, AgedFacts DEF PartsOK, SensorType, Tick
    <2>2. pending' \in PendingType
      BY <1>1, <1>11 DEF PartsOK, PendingType, Tick
    <2>3. watch' \in WatchType /\ watch'.left <= watch'.period
      <3>1. watch' = [watch EXCEPT !.left = Less(watch.left)]
        BY <1>11 DEF Tick
      <3>2. Less(watch.left) \in Nat /\ Less(watch.left) <= watch.left /\ watch.left \in Nat
            /\ watch.period \in Nat
        BY <1>1, MonitoringAssumption DEF Less, PartsOK, WatchType
      <3>3. QED
        BY <1>1, <3>1, <3>2 DEF PartsOK, WatchType
    <2>4. checks' \subseteq CheckType
      <3>1. /\ checks' = {[c EXCEPT !.age = @ + 1] : c \in checks}
            /\ \A c \in checks : c \in CheckType /\ c.age < CheckTime
        BY <1>1, <1>11 DEF PartsOK, Tick
      <3>2. ASSUME NEW c \in CheckType, c.age < CheckTime
            PROVE  [c EXCEPT !.age = @ + 1] \in CheckType
        BY <3>2, MonitoringAssumption DEF CheckType
      <3>3. QED
        BY <3>1, <3>2
    <2>5. QED
      BY <2>1, <2>2, <2>3, <2>4 DEF PartsOK
  <1>12. QED
    BY <1>3, <1>4, <1>5, <1>6, <1>7, <1>8, <1>9, <1>10, <1>11 DEF Next, Sensor, Watch

LEMMA CountersStep ==
    ASSUME TypeOK, Next
    PROVE  CountersOK'
  <1>1. FlagsOK /\ PartsOK /\ CountersOK
    BY Types
  <1>2. CASE Manager \/ Sensor \/ Change
    BY <1>1, <1>2, Bounds
    DEF CountersOK, Manager, Sensor, Start, Stop, Reapply, FailChallenge, StartWatch,
        SensorExits, SpawnSensor, Change
  <1>3. CASE Poll
    BY <1>1, <1>3, LookType DEF CountersOK, PartsOK, Poll
  <1>4. ASSUME NEW v \in Vectors, Tampered(v)
        PROVE  CountersOK'
    BY <1>1, <1>4, LookType DEF CountersOK, PartsOK, Tampered
  <1>5. CASE Check \/ OtherLockdown \/ EndLockdown
    BY <1>1, <1>5, Bounds
    DEF CountersOK, Check, FinishCheck, Relock, OtherLockdown, EndLockdown
  <1>6. CASE Tick
    <2>1. lockdown' = Less(lockdown) /\ cooldown' = Less(cooldown)
          /\ blind' \in {0, AtMost(blind + 1, BlindBound + 1)}
          /\ exposed' \in {0, AtMost(exposed + 1, AnswerBound)}
      BY <1>6 DEF Tick
    <2>2. LockTime \in Nat /\ Cooldown \in Nat
      BY MonitoringAssumption
    <2>3. QED
      BY <1>1, <2>1, <2>2, Bounds DEF CountersOK, Less, AtMost
  <1>7. QED
    BY <1>2, <1>3, <1>4, <1>5, <1>6 DEF Next, Watch

LEMMA TypeStep == TypeOK /\ Next => TypeOK'
  <1>1. ASSUME TypeOK, Next
        PROVE  FlagsOK' /\ PartsOK' /\ CountersOK'
    BY <1>1, FlagsStep, PartsStep, CountersStep
  <1>2. (FlagsOK /\ PartsOK /\ CountersOK)' => TypeOK'
    BY DEF TypeOK, FlagsOK, PartsOK, CountersOK, SensorType, PendingType, WatchType, CheckType
  <1>3. QED
    BY <1>1, <1>2

-----------------------------------------------------------------------------
(* The manager and the sensor *)

\* What the actions do to the watch.
LEMMA WatchFacts ==
    ASSUME TypeOK
    PROVE  /\ StartWatch => watch'.active /\ watch'.left = Backstop
           /\ StopWatch => ~watch'.active
           /\ Fallback => /\ watch'.active = watch.active
                          /\ watch.active => watch'.left = Fast /\ watch'.period = Fast
           /\ Poll => /\ watch'.active = watch.active /\ watch'.left = watch.period
                      /\ watch'.period = watch.period
           /\ Tick => /\ watch'.active = watch.active /\ watch'.left = Less(watch.left)
                      /\ watch'.period = watch.period
  <1>1. watch \in WatchType /\ 0 \in Nat /\ Fast \in Nat /\ Fast \in {Fast, Backstop}
    BY Types, MonitoringAssumption DEF PartsOK
  <1>2. StartWatch => watch'.active /\ watch'.left = Backstop
    BY DEF StartWatch
  <1>3. ASSUME StopWatch
        PROVE  ~watch'.active
    <2>1. watch' = [watch EXCEPT !.active = FALSE, !.left = 0]
      BY <1>3 DEF StopWatch
    <2>2. QED
      BY <1>1, <2>1, WatchFields
  <1>4. ASSUME Fallback
        PROVE  /\ watch'.active = watch.active
               /\ watch.active => watch'.left = Fast /\ watch'.period = Fast
    <2>1. CASE watch.active
      <3>1. watch' = [watch EXCEPT !.period = Fast, !.left = Fast]
        BY <1>4, <2>1 DEF Fallback
      <3>2. /\ [watch EXCEPT !.period = Fast, !.left = Fast].active = watch.active
            /\ [watch EXCEPT !.period = Fast, !.left = Fast].left = Fast
            /\ [watch EXCEPT !.period = Fast, !.left = Fast].period = Fast
        BY <1>1, WatchFields
      <3>3. QED
        BY <3>1, <3>2
    <2>2. CASE ~watch.active
      BY <1>4, <2>2 DEF Fallback
    <2>3. QED
      BY <2>1, <2>2
  <1>5. ASSUME NEW n \in Nat, watch' = [watch EXCEPT !.left = n]
        PROVE  /\ watch'.active = watch.active /\ watch'.left = n
               /\ watch'.period = watch.period
    BY <1>1, <1>5 DEF WatchType
  <1>6. Poll => watch.period \in Nat /\ watch' = [watch EXCEPT !.left = watch.period]
    BY SensorFacts, MonitoringAssumption DEF Poll
  <1>7. Tick => Less(watch.left) \in Nat /\ watch' = [watch EXCEPT !.left = Less(watch.left)]
    BY SensorFacts DEF Tick, Less
  <1>8. QED
    BY <1>2, <1>3, <1>4, <1>5, <1>6, <1>7

LEMMA SpawnFacts ==
    ASSUME TypeOK, SpawnSensor
    PROVE  /\ sensor.state = "retry" /\ sensor.ticks = 0
           /\ sensor'.state \in {"up", "lost"} /\ sensor'.ticks = 0
           /\ sensor'.backoff = sensor.backoff /\ sensor'.failures = sensor.failures
  <1>1. sensor.state = "retry" /\ sensor.ticks = 0
    BY DEF SpawnSensor
  <1>2. PICK s \in {"up", "lost"} : sensor' = [sensor EXCEPT !.state = s]
    BY DEF SpawnSensor
  <1>3. QED
    BY <1>1, <1>2, SensorFacts DEF SensorType

LEMMA TickFacts ==
    ASSUME TypeOK, Tick
    PROVE  /\ sensor.state = "retry" => sensor.ticks > 0
           /\ sensor' = Aged(sensor)
           /\ Down # "due" /\ Down' = IF Down = "armed" THEN "due" ELSE Down
  <1>1. /\ \A v \in Vectors : pending[v] # "due"
        /\ pending' = [v \in Vectors |-> IF pending[v] = "armed" THEN "due" ELSE pending[v]]
    BY DEF Tick
  <1>2. QED
    BY <1>1 DEF Tick, Vectors, Down

\* What becomes of a report.
LEMMA DownFacts ==
    ASSUME TypeOK
    PROVE  /\ pending' = Quiet => Down' = "none"
           /\ pending' = Emitted("change") => Down' = Down
           /\ pending' = Emitted("sensor_down")
                => Down' = IF Down = "none" THEN "armed" ELSE Down
           /\ pending' = pending => Down' = Down
           /\ Tampered("change") => Down' = Down
           /\ Tampered("sensor_down") => Down = "due" /\ Down' = "none"
  <1>1. pending \in PendingType
    BY Types DEF PartsOK
  <1>2. QED
    BY <1>1 DEF PendingType, Quiet, Emitted, Vectors, Tampered, Down

LEMMA StepManager ==
    ASSUME TypeOK, ManagerInv, Next
    PROVE  ManagerInv'
  <1>2. FlagsOK
    BY Types
  <1>3. CASE Start
    <2>1. running' /\ handle' /\ watch'.active
      BY <1>3, WatchFacts DEF Start, StartWatch
    <2>2. QED
      BY <2>1 DEF ManagerInv
  <1>4. CASE Stop
    <2>1. ~running' /\ ~handle' /\ ~watch'.active /\ sensor'.state = "off"
      BY <1>4, WatchFacts, NewSensorFacts DEF Stop
    <2>2. QED
      BY <2>1 DEF ManagerInv
  <1>5. CASE Reapply
    <2>1. handle' /\ watch'.active /\ running' = running /\ sensor' = sensor
      BY <1>5, WatchFacts DEF Reapply, StartWatch
    <2>2. QED
      BY <2>1 DEF ManagerInv
  <1>6. CASE FailChallenge
    <2>1. ~enabled' /\ ~handle' /\ ~watch'.active /\ running' = running /\ sensor' = sensor
      BY <1>6, WatchFacts DEF FailChallenge, ManagerInv
    <2>2. QED
      BY <2>1 DEF ManagerInv
  <1>7. ASSUME running' = running, handle' = handle, enabled' = enabled,
               watch'.active = watch.active,
               sensor'.state # "off" => sensor.state # "off"
        PROVE  ManagerInv'
    BY <1>7 DEF ManagerInv
  <1>8. CASE SensorExits
    BY <1>7, <1>8, ExitFacts DEF SensorExits
  <1>9. CASE SpawnSensor
    BY <1>7, <1>9, SpawnFacts DEF SpawnSensor
  <1>10. CASE Poll \/ Tick
    <2>1. sensor'.state = sensor.state
      BY <1>10, AgedFacts, TickFacts, SensorFacts DEF Poll
    <2>2. QED
      BY <1>7, <1>10, <2>1, WatchFacts DEF Poll, Tick
  <1>11. ASSUME NEW v \in Vectors, Tampered(v)
         PROVE  ManagerInv'
    BY <1>7, <1>11, WatchFacts DEF Tampered
  <1>12. CASE Change \/ Check \/ OtherLockdown \/ EndLockdown
    BY <1>7, <1>12 DEF Change, Check, FinishCheck, OtherLockdown, EndLockdown
  <1>13. QED
    BY <1>3, <1>4, <1>5, <1>6, <1>8, <1>9, <1>10, <1>11, <1>12
    DEF Next, Manager, Sensor, Watch

\* The ladder of the back-off is climbed one rung with each failure.
LEMMA LadderStep ==
    ASSUME TypeOK, SensorInv, SensorExits
    PROVE  /\ sensor'.backoff >= InitialBackoff
           /\ sensor'.failures >= 1 => sensor'.backoff >= AtMost(2 * InitialBackoff, MaxBackoff)
           /\ sensor'.failures >= 2 => sensor'.backoff >= AtMost(4 * InitialBackoff, MaxBackoff)
           /\ sensor'.failures >= 3 => sensor'.backoff >= AtMost(8 * InitialBackoff, MaxBackoff)
           /\ sensor'.failures >= 4 => sensor'.backoff >= AtMost(16 * InitialBackoff, MaxBackoff)
  <1>1. /\ sensor.backoff \in 1..MaxBackoff /\ sensor.failures \in 0..DownAfter
        /\ sensor'.backoff = AtMost(2 * sensor.backoff, MaxBackoff)
        /\ sensor'.failures = AtMost(sensor.failures + 1, DownAfter)
    BY SensorFacts, ExitFacts
  <1>2. DownAfter \in Nat \ {0} /\ MaxBackoff \in Nat /\ InitialBackoff \in Nat \ {0}
        /\ InitialBackoff <= MaxBackoff
    BY MonitoringAssumption, BackoffAssumption
  <1>3. QED
    BY <1>1, <1>2 DEF SensorInv, AtMost

LEMMA StepSensor ==
    ASSUME TypeOK, SensorInv, Next
    PROVE  SensorInv'
  <1>2. DownAfter \in Nat \ {0} /\ InitialBackoff \in Nat
    BY MonitoringAssumption
  <1>3. /\ sensor.ticks \in Nat /\ sensor.failures \in 0..DownAfter
        /\ sensor.state \in {"off", "up", "retry", "lost"} /\ sensor.backoff \in 1..MaxBackoff
        /\ Down \in {"none", "armed", "due"}
    BY SensorFacts
  <1>4. CASE Start \/ Stop
    <2>1. sensor'.failures = 0 /\ sensor'.backoff = InitialBackoff /\ Down' = "none"
      BY <1>4, NewSensorFacts, DownFacts DEF Start, Stop
    <2>2. QED
      BY <1>2, <2>1 DEF SensorInv
  <1>5. CASE SensorExits
    <2>1. Down = "none"
      BY <1>3, <1>5, ExitFacts DEF SensorInv
    <2>2. sensor'.state = "retry" /\ sensor'.ticks >= 1
      BY <1>3, <1>5, ExitFacts
    <2>3. \/ Down' = "armed" /\ sensor'.failures = DownAfter
          \/ Down' = "none"
      BY <1>2, <1>3, <1>5, <2>1, ExitFacts, DownFacts DEF AtMost
    <2>4. QED
      BY <1>5, <2>2, <2>3, LadderStep DEF SensorInv
  <1>6. CASE SpawnSensor
    <2>1. Down' = Down
      BY <1>6, DownFacts DEF SpawnSensor
    <2>2. QED
      BY <1>3, <1>6, <2>1, SpawnFacts DEF SensorInv
  <1>7. ASSUME sensor' = sensor, Down' \in {"none", Down}
        PROVE  SensorInv'
    BY <1>3, <1>7 DEF SensorInv
  <1>8. CASE Reapply \/ FailChallenge \/ Change \/ Poll
    BY <1>7, <1>8, DownFacts DEF Reapply, FailChallenge, Change, Poll
  <1>9. ASSUME NEW v \in Vectors, Tampered(v)
        PROVE  SensorInv'
    <2>1. Down' \in {"none", Down}
      BY <1>9, DownFacts DEF Vectors
    <2>2. QED
      BY <1>7, <1>9, <2>1 DEF Tampered
  <1>10. CASE Check \/ OtherLockdown \/ EndLockdown
    BY <1>7, <1>10, DownFacts
    DEF Check, FinishCheck, OtherLockdown, EndLockdown
  <1>11. CASE Tick
    <2>1. /\ sensor.state = "retry" => sensor.ticks > 0
          /\ sensor' = Aged(sensor) /\ Down # "due"
          /\ Down' = IF Down = "armed" THEN "due" ELSE Down
      BY <1>11, TickFacts
    <2>2. /\ sensor'.state = sensor.state
          /\ \/ sensor'.failures = sensor.failures /\ sensor'.backoff = sensor.backoff
             \/ /\ sensor.state = "up" /\ sensor'.failures = 0
                /\ sensor'.backoff = InitialBackoff
      BY <2>1, SensorFacts, AgedFacts
    <2>3. CASE Down = "none"
      BY <1>2, <1>3, <2>1, <2>2, <2>3 DEF SensorInv
    <2>4. CASE Down = "armed"
      BY <1>2, <1>3, <2>1, <2>2, <2>4 DEF SensorInv
    <2>5. QED
      BY <1>3, <2>1, <2>3, <2>4
  <1>12. QED
    BY <1>4, <1>5, <1>6, <1>8, <1>9, <1>10, <1>11 DEF Next, Manager, Sensor, Watch

-----------------------------------------------------------------------------
(* The watch *)

\* Nobody arms the slow interval while the sensor is down: what starts the watch
\* starts the sensor anew, or finds no watch because the manager does not run or
\* the challenge has failed.
LEMMA StepFast ==
    ASSUME TypeOK, ManagerInv, DeadSensorMeansFastPolling, Next
    PROVE  DeadSensorMeansFastPolling'
  <1>1. FlagsOK /\ Down \in {"none", "armed", "due"} /\ DownAfter \in Nat \ {0}
    BY Types, SensorFacts, MonitoringAssumption
  <1>2. ASSUME sensor'.state # "retry"
        PROVE  DeadSensorMeansFastPolling'
    BY <1>2 DEF DeadSensorMeansFastPolling
  <1>3. ASSUME Guarded' => Guarded /\ watch'.period = watch.period,
               sensor'.state = sensor.state,
               sensor.state = "retry" => sensor'.failures = sensor.failures,
               Down' = "none" => Down = "none"
        PROVE  DeadSensorMeansFastPolling'
    BY <1>3 DEF DeadSensorMeansFastPolling, Down
  <1>4. CASE Start \/ Stop
    BY <1>2, <1>4, NewSensorFacts DEF Start, Stop
  <1>5. CASE Reapply
    <2>1. (~running \/ ~enabled) /\ sensor' = sensor /\ enabled' = enabled
      BY <1>1, <1>5 DEF Reapply, ManagerInv, FlagsOK
    <2>2. CASE ~running
      BY <1>2, <2>1, <2>2 DEF ManagerInv
    <2>3. CASE ~enabled
      BY <2>1, <2>3 DEF DeadSensorMeansFastPolling, Guarded
    <2>4. QED
      BY <2>1, <2>2, <2>3
  <1>6. CASE FailChallenge
    BY <1>6 DEF FailChallenge, DeadSensorMeansFastPolling, Guarded
  <1>7. CASE SensorExits
    <2>1. sensor'.failures = DownAfter => Down' # "none"
      BY <1>1, <1>7, ExitFacts, DownFacts
    <2>2. QED
      BY <2>1 DEF DeadSensorMeansFastPolling, Down
  <1>8. CASE SpawnSensor
    BY <1>2, <1>8, SpawnFacts
  <1>9. CASE Change \/ Check \/ OtherLockdown \/ EndLockdown
    BY <1>3, <1>9, DownFacts
    DEF Change, Check, FinishCheck, OtherLockdown, EndLockdown, Guarded
  <1>10. CASE Poll
    BY <1>3, <1>10, WatchFacts, DownFacts DEF Poll, Guarded
  <1>11. CASE Tampered("change")
    BY <1>3, <1>11, DownFacts DEF Tampered, Guarded
  <1>12. CASE Tampered("sensor_down")
    <2>1. watch'.active => watch'.period = Fast
      BY <1>12, WatchFacts DEF Tampered
    <2>2. QED
      BY <2>1 DEF DeadSensorMeansFastPolling, Guarded
  <1>13. CASE Tick
    <2>1. sensor'.state = sensor.state
          /\ (sensor.state = "retry" => sensor'.failures = sensor.failures)
      BY <1>13, TickFacts, AgedFacts, SensorFacts
    <2>2. Down' = "none" => Down = "none"
      BY <1>1, <1>13, TickFacts
    <2>3. QED
      BY <1>3, <1>13, <2>1, <2>2, WatchFacts DEF Tick, Guarded
  <1>14. QED
    BY <1>4, <1>5, <1>6, <1>7, <1>8, <1>9, <1>10, <1>11, <1>12, <1>13
    DEF Next, Manager, Sensor, Watch, Vectors

\* The watch looks, or finds that a lockdown is on its way.
LEMMA LookFacts ==
    ASSUME TypeOK, RunWatchCheck
    PROVE  /\ blind' \in {0, blind} /\ checks \subseteq checks'
           /\ enabled /\ lockdown = 0 => blind' = 0
           /\ enabled /\ lockdown = 0 /\ broken /\ exposed >= ScanAge
                => [broken |-> TRUE, age |-> 0] \in checks'
           /\ ~(enabled /\ lockdown = 0) => checks' = checks /\ blind' = blind
  <1>1. CASE enabled /\ lockdown = 0
    <2>1. /\ checks' = checks \cup {[broken |-> broken /\ exposed >= ScanAge, age |-> 0]}
          /\ blind' = 0
      BY <1>1 DEF RunWatchCheck
    <2>2. broken /\ exposed >= ScanAge => (broken /\ exposed >= ScanAge) = TRUE
      OBVIOUS
    <2>3. QED
      BY <1>1, <2>1, <2>2
  <1>2. CASE ~(enabled /\ lockdown = 0)
    BY <1>2 DEF RunWatchCheck
  <1>3. QED
    BY <1>1, <1>2

\* A report that is handled arms the interval anew: once with the watch looking
\* in time, once more without.
LEMMA FallbackLevel ==
    ASSUME TypeOK, SensorInv, BlindInv, Tampered("sensor_down")
    PROVE  BlindInv'
  <1>1. /\ blind \in Nat /\ watch.left \in Nat /\ Fast \in Nat /\ Backstop \in Nat
        /\ sensor.ticks \in Nat
    BY SensorFacts, MonitoringAssumption
  <1>2. /\ Down = "due" /\ Down' = "none" /\ blind' = blind /\ sensor' = sensor
        /\ enabled' = enabled /\ lockdown' = lockdown /\ watch'.active = watch.active
        /\ watch.active => watch'.left = Fast
    BY DownFacts, WatchFacts DEF Tampered
  <1>3. sensor.failures = DownAfter /\ UpFor = 0 /\ UpFor' = 0
    BY <1>2 DEF SensorInv, UpFor
  <1>4. SUFFICES ASSUME Guarded', lockdown' = 0
                 PROVE  /\ blind + Fast <= BlindBound
                        /\ \/ blind + Fast <= Backstop + Fast
                           \/ Quieted(Fast + 1)
    BY <1>1, <1>2, <1>3 DEF BlindInv, Guarded, Level, Quieted
  <1>5. Guarded /\ lockdown = 0
    BY <1>2, <1>4 DEF Guarded
  <1>6. CASE Level <= Backstop
    BY <1>1, <1>6 DEF Level, BlindBound
  <1>7. CASE ~(Level <= Backstop)
    <2>1. Quieted(Fast + 1) /\ Level <= Backstop + Fast
      BY <1>2, <1>5, <1>7 DEF BlindInv
    <2>2. QED
      BY <1>1, <2>1 DEF Level, BlindBound
  <1>8. QED
    BY <1>6, <1>7

\* An exit finds no report on its way; if the interval has been armed anew twice
\* it is due by now, and the next report comes after it.
LEMMA ExitLevel ==
    ASSUME TypeOK, SensorInv, BlindInv, SensorExits
    PROVE  BlindInv'
  <1>1. /\ blind \in Nat /\ watch.left \in Nat /\ Fast \in Nat /\ Backstop \in Nat
        /\ MaxBackoff \in Nat /\ Fast <= MaxBackoff /\ DownAfter \in Nat \ {0}
        /\ sensor.ticks \in Nat
    BY SensorFacts, MonitoringAssumption, BackoffAssumption
  <1>2. Down = "none"
    BY SensorFacts, ExitFacts DEF SensorInv
  <1>3. /\ sensor.state = "up" /\ sensor.ticks > 0
        /\ sensor'.state = "retry" /\ sensor'.ticks = sensor.backoff
    BY ExitFacts
  <1>4. blind' = blind /\ watch' = watch /\ enabled' = enabled /\ lockdown' = lockdown
    BY DEF SensorExits
  <1>5. SUFFICES ASSUME Guarded, lockdown = 0, ~(Level <= Backstop)
                 PROVE  BlindInv'
    BY <1>4 DEF BlindInv, Guarded, Level
  <1>6. /\ sensor.failures = DownAfter /\ Level <= BlindBound
        /\ Quieted(watch.left + 1) \/ Level <= Backstop + Fast
    BY <1>2, <1>5 DEF BlindInv
  <1>7. sensor'.failures = DownAfter /\ Down' = "armed"
    BY <1>1, <1>2, <1>6, ExitFacts, DownFacts DEF AtMost
  <1>8. sensor'.ticks >= Fast
    BY <1>1, <1>3, <1>6, LongBackoff
  <1>9. watch.left = 0 \/ Level <= Backstop + Fast
    BY <1>1, <1>3, <1>6 DEF Quieted
  <1>10. Quieted(Fast + 2)'
    BY <1>1, <1>3, <1>8, SensorFacts DEF Quieted
  <1>11. Level' = Level
    BY <1>4 DEF Level
  <1>12. QED
    BY <1>4, <1>6, <1>7, <1>9, <1>10, <1>11 DEF BlindInv

LEMMA SpawnLevel ==
    ASSUME TypeOK, SensorInv, BlindInv, SpawnSensor
    PROVE  BlindInv'
  <1>1. /\ watch.left \in Nat /\ Fast \in Nat
    BY SensorFacts, MonitoringAssumption
  <1>2. /\ sensor.state = "retry" /\ sensor.ticks = 0
        /\ sensor'.state \in {"up", "lost"} /\ sensor'.ticks = 0
        /\ sensor'.failures = sensor.failures /\ Down' = Down /\ Down # "armed"
    BY SpawnFacts, DownFacts DEF SpawnSensor, SensorInv
  <1>3. blind' = blind /\ watch' = watch /\ enabled' = enabled /\ lockdown' = lockdown
    BY DEF SpawnSensor
  <1>4. Level' = Level /\ UpFor' = 0 /\ UpFor = 0
    BY <1>2, <1>3 DEF Level, UpFor
  <1>5. Quieted(watch.left + 1) => Quieted(watch.left + 1)'
    BY <1>1, <1>2, <1>3 DEF Quieted
  <1>6. Quieted(Fast + 1) => Quieted(Fast + 1)'
    BY <1>1, <1>2 DEF Quieted
  <1>7. QED
    BY <1>2, <1>3, <1>4, <1>5, <1>6 DEF BlindInv, Guarded

\* Time brings the interval, the report and the next failure nearer together; a
\* sensor that lives to be a new one has outlived the interval.
LEMMA TickLevel ==
    ASSUME TypeOK, SensorInv, BlindInv, Tick
    PROVE  /\ BlindInv'
           /\ Guarded /\ lockdown = 0 => blind + 1 <= BlindBound
  <1>1. /\ blind \in Nat /\ watch.left \in Nat /\ Fast \in Nat /\ Backstop \in Nat
        /\ sensor.ticks \in Nat /\ lockdown \in Nat /\ sensor.failures \in 0..DownAfter
        /\ StableReset \in Nat /\ Fast < StableReset /\ Fast <= Backstop
        /\ sensor.state \in {"off", "up", "retry", "lost"} /\ Down \in {"none", "armed", "due"}
    BY SensorFacts, MonitoringAssumption, BackoffAssumption
  <1>2. /\ watch'.active = watch.active /\ watch'.left = Less(watch.left)
        /\ enabled' = enabled /\ lockdown' = Less(lockdown) /\ lockdown # 1
        /\ watch.active => watch.left > 0
    BY WatchFacts DEF Tick
  <1>3. SUFFICES ASSUME Guarded, lockdown = 0
                 PROVE  BlindInv' /\ blind + 1 <= BlindBound
    BY <1>1, <1>2 DEF BlindInv, Guarded, Less
  <1>4. /\ watch.left > 0 /\ watch'.left = watch.left - 1
        /\ blind' = AtMost(blind + 1, BlindBound + 1)
    <2>1. blind' = AtMost(blind + 1, BlindBound + 1)
      BY <1>3 DEF Tick
    <2>2. QED
      BY <1>1, <1>2, <1>3, <2>1 DEF Guarded, Less
  <1>5. Level <= BlindBound
    <2>1. Level <= Backstop \/ Level <= BlindBound
      BY <1>3 DEF BlindInv
    <2>2. QED
      BY <1>1, <2>1 DEF Level, BlindBound
  <1>6. blind + 1 <= BlindBound /\ blind' = blind + 1 /\ Level' = Level
    BY <1>1, <1>4, <1>5 DEF Level, AtMost, BlindBound
  <1>7. CASE Level <= Backstop
    BY <1>6, <1>7 DEF BlindInv
  <1>8. CASE ~(Level <= Backstop)
    <2>1. sensor.failures = DownAfter
      BY <1>3, <1>8 DEF BlindInv
    <2>2. /\ sensor.state = "retry" => sensor.ticks > 0
          /\ sensor' = Aged(sensor) /\ Down # "due"
          /\ Down' = IF Down = "armed" THEN "due" ELSE Down
      BY TickFacts
    <2>3. ASSUME ~(sensor.state = "up" /\ sensor.ticks + 1 >= StableReset)
          PROVE  /\ sensor'.failures = sensor.failures /\ sensor'.state = sensor.state
                 /\ sensor.state = "retry" => sensor'.ticks = sensor.ticks - 1
                 /\ sensor.state = "up" => sensor'.ticks = sensor.ticks + 1
      BY <2>2, <2>3, SensorFacts, AgedFacts
    <2>4. CASE Down = "none"
      <3>1. /\ Quieted(watch.left + 1) \/ Level <= Backstop + Fast
            /\ watch.left + UpFor <= Fast
        BY <1>3, <1>8, <2>4 DEF BlindInv
      <3>2. ~(sensor.state = "up" /\ sensor.ticks + 1 >= StableReset)
        BY <1>1, <1>4, <3>1 DEF UpFor
      <3>3. Quieted(watch.left + 1) => Quieted(watch.left + 1)'
        BY <1>1, <1>4, <2>2, <2>3, <3>2 DEF Quieted
      <3>4. (watch.left + UpFor <= Fast)'
        BY <1>1, <1>4, <2>3, <3>1, <3>2 DEF UpFor
      <3>5. QED
        BY <1>5, <1>6, <2>1, <2>2, <2>3, <2>4, <3>1, <3>2, <3>3, <3>4 DEF BlindInv, BlindBound
    <2>5. CASE Down = "armed"
      <3>1. /\ sensor.state = "retry" /\ Quieted(Fast + 2) /\ Level <= Backstop + Fast
        BY <1>3, <1>4, <1>8, <2>5 DEF BlindInv, SensorInv
      <3>2. Quieted(Fast + 1)'
        BY <1>1, <2>2, <2>3, <3>1 DEF Quieted
      <3>3. QED
        BY <1>5, <1>6, <2>1, <2>2, <2>3, <2>5, <3>1, <3>2 DEF BlindInv, BlindBound
    <2>6. QED
      BY <1>1, <2>2, <2>4, <2>5
  <1>9. QED
    BY <1>6, <1>7, <1>8

LEMMA StepBlind ==
    ASSUME TypeOK, ManagerInv, SensorInv, BlindInv, Next
    PROVE  BlindInv'
  <1>1. /\ watch.left \in Nat /\ watch.left <= Backstop /\ Backstop \in Nat
        /\ Fast \in Nat /\ watch.period <= Backstop
    BY SensorFacts, MonitoringAssumption, BackoffAssumption
  <1>2. ASSUME watch' = watch, enabled' = enabled, sensor' = sensor, Down' = Down,
               blind' = blind, lockdown' = lockdown
        PROVE  BlindInv'
    BY <1>2 DEF BlindInv, Guarded, Level, Quieted, UpFor
  <1>3. ASSUME blind' = 0, watch'.left \in Nat, watch'.left <= Backstop
        PROVE  BlindInv'
    BY <1>1, <1>3 DEF BlindInv, Level
  <1>4. ASSUME ~Guarded' \/ lockdown' # 0
        PROVE  BlindInv'
    BY <1>4 DEF BlindInv
  <1>5. CASE Start \/ Reapply
    BY <1>1, <1>3, <1>5, WatchFacts DEF Start, Reapply, StartWatch
  <1>6. CASE Stop \/ FailChallenge
    <2>1. ~watch'.active \/ ~enabled'
      BY <1>6, WatchFacts DEF Stop, FailChallenge
    <2>2. QED
      BY <1>4, <2>1 DEF Guarded
  <1>7. CASE Change
    <2>1. Down' = Down
      BY <1>7, DownFacts DEF Change
    <2>2. QED
      BY <1>2, <1>7, <2>1 DEF Change
  <1>8. CASE Poll \/ Tampered("change")
    <2>1. RunWatchCheck /\ enabled' = enabled /\ lockdown' = lockdown
      BY <1>8 DEF Poll, Tampered
    <2>2. watch'.left \in Nat /\ watch'.left <= Backstop
      BY <1>1, <1>8, SensorFacts, WatchFacts, MonitoringAssumption DEF Poll, Tampered
    <2>3. Guarded' /\ lockdown' = 0 => blind' = 0
      BY <2>1, LookFacts DEF Guarded
    <2>4. QED
      BY <1>3, <1>4, <2>2, <2>3
  <1>9. CASE Check \/ OtherLockdown
    <2>1. /\ watch' = watch /\ enabled' = enabled /\ sensor' = sensor /\ Down' = Down
          /\ blind' = blind
      BY <1>9, DownFacts DEF Check, FinishCheck, OtherLockdown
    <2>2. lockdown' = lockdown \/ lockdown' # 0
      BY <1>9, MonitoringAssumption
      DEF Check, FinishCheck, OtherLockdown, Relock
    <2>3. QED
      BY <1>2, <1>4, <2>1, <2>2
  <1>10. CASE EndLockdown
    BY <1>1, <1>3, <1>10 DEF EndLockdown
  <1>11. QED
    BY <1>5, <1>6, <1>7, <1>8, <1>9, <1>10, FallbackLevel, ExitLevel, SpawnLevel, TickLevel
    DEF Next, Manager, Sensor, Watch, Vectors

\* What keeps the watch from looking is bounded by what is left of its interval.
LEMMA StepBlindSpot ==
    ASSUME TypeOK, ManagerInv, SensorInv, BlindInv, BlindSpotIsBounded, Next
    PROVE  BlindSpotIsBounded'
  <1>1. BlindBound \in Nat /\ blind \in Nat
    BY Bounds, SensorFacts
  <1>2. ASSUME ~Guarded' \/ blind' = 0
        PROVE  BlindSpotIsBounded'
    BY <1>1, <1>2, MonitoringAssumption DEF BlindSpotIsBounded, BlindBound
  <1>3. ASSUME blind' = blind, Guarded' => Guarded
        PROVE  BlindSpotIsBounded'
    BY <1>3 DEF BlindSpotIsBounded, BlindBound
  <1>4. CASE Start \/ Reapply
    BY <1>2, <1>4 DEF Start, Reapply, StartWatch
  <1>5. CASE Stop \/ FailChallenge
    <2>1. ~watch'.active \/ ~enabled'
      BY <1>5, WatchFacts DEF Stop, FailChallenge
    <2>2. QED
      BY <1>2, <2>1 DEF Guarded
  <1>6. CASE Poll
    <2>1. RunWatchCheck /\ (Guarded' => Guarded)
      BY <1>6, WatchFacts DEF Poll, Guarded
    <2>2. QED
      BY <1>2, <1>3, <2>1, LookFacts
  <1>7. CASE Tampered("change")
    <2>1. RunWatchCheck /\ (Guarded' => Guarded)
      BY <1>7 DEF Tampered, Guarded
    <2>2. QED
      BY <1>2, <1>3, <2>1, LookFacts
  <1>8. CASE Tampered("sensor_down")
    BY <1>3, <1>8, WatchFacts DEF Tampered, Guarded
  <1>9. CASE Tick
    <2>1. CASE Guarded /\ lockdown = 0
      <3>1. blind' = AtMost(blind + 1, BlindBound + 1)
        BY <1>9, <2>1 DEF Tick
      <3>2. blind' <= BlindBound
        BY <1>1, <1>9, <2>1, <3>1, TickLevel DEF AtMost
      <3>3. QED
        BY <3>2 DEF BlindSpotIsBounded, BlindBound
    <2>2. CASE ~(Guarded /\ lockdown = 0)
      BY <1>2, <1>9, <2>2 DEF Tick
    <2>3. QED
      BY <2>1, <2>2
  <1>10. CASE EndLockdown
    BY <1>2, <1>10 DEF EndLockdown
  <1>11. CASE Sensor \/ Change \/ Check \/ OtherLockdown
    BY <1>3, <1>11
    DEF Sensor, SensorExits, SpawnSensor, Change, Check, FinishCheck,
        OtherLockdown, Guarded
  <1>12. QED
    BY <1>4, <1>5, <1>6, <1>7, <1>8, <1>9, <1>10, <1>11
    DEF Next, Manager, Watch, Vectors

-----------------------------------------------------------------------------
(* The machine *)

\* One look is enough, however many there are.
LEMMA StepExposed ==
    ASSUME TypeOK, ManagerInv, SensorInv, BlindInv, BlindSpotIsBounded, ExposedInv, Next
    PROVE  ExposedInv'
  <1>1. /\ blind \in Nat /\ exposed \in Nat /\ lockdown \in Nat /\ cooldown \in 0..Cooldown
        /\ Cooldown \in Nat \ {0} /\ BlindBound \in Nat
    BY SensorFacts, Bounds, MonitoringAssumption DEF TypeOK
  <1>2. FlagsOK
    BY Types
  <1>3. AnswerBound \in Nat
    BY Bounds
  <1>4. ASSUME exposed' = 0, blind' \in Nat, cooldown' \in 0..Cooldown
        PROVE  ExposedInv'
    <2>1. \A b \in Nat, c \in 0..Cooldown : 0 <= Cooldown - c /\ 0 < b + Cooldown
      BY <1>1
    <2>2. QED
      BY <1>4, <2>1, Zenon DEF ExposedInv
  <1>5. ASSUME Guarded' => Guarded, exposed' = exposed, blind' = blind, cooldown' = cooldown,
               lockdown' = lockdown, broken' = broken, checks' = checks
        PROVE  ExposedInv'
    BY <1>5 DEF ExposedInv, Seen, BlindBound
  <1>6. CASE Start \/ Reapply
    BY <1>1, <1>4, <1>6 DEF Start, Reapply, StartWatch
  <1>7. CASE Stop \/ FailChallenge
    <2>1. ~watch'.active \/ ~enabled'
      BY <1>7, WatchFacts DEF Stop, FailChallenge
    <2>2. ~Guarded'
      BY <2>1 DEF Guarded
    <2>3. QED
      BY <1>7, <2>2 DEF ExposedInv, Stop, FailChallenge
  <1>8. CASE Sensor
    BY <1>5, <1>8 DEF Sensor, SensorExits, SpawnSensor, Guarded
  <1>9. CASE Change
    <2>1. /\ watch' = watch /\ enabled' = enabled /\ blind' = blind /\ cooldown' = cooldown
          /\ lockdown' = lockdown
          /\ exposed' = IF broken' THEN exposed ELSE 0
          /\ checks' = IF broken' THEN checks ELSE {Mended(c) : c \in checks}
      BY <1>9 DEF Change
    <2>2. CASE exposed' = 0
      BY <1>1, <1>4, <2>1, <2>2
    <2>3. CASE exposed' # 0
      <3>1. exposed' = exposed /\ broken' /\ broken
        BY <1>2, <2>1, <2>3 DEF ExposedInv
      <3>2. QED
        BY <2>1, <3>1 DEF ExposedInv, Seen, Guarded, BlindBound
    <2>4. QED
      BY <2>2, <2>3
  <1>10. CASE Poll \/ Tampered("change")
    <2>1. /\ RunWatchCheck /\ enabled' = enabled /\ watch'.active = watch.active
          /\ exposed' = exposed /\ cooldown' = cooldown /\ lockdown' = lockdown
          /\ broken' = broken
      BY <1>10, WatchFacts DEF Poll, Tampered
    <2>2. CASE Guarded /\ lockdown = 0
      <3>1. /\ blind' = 0 /\ checks \subseteq checks'
            /\ broken /\ exposed >= ScanAge => [broken |-> TRUE, age |-> 0] \in checks'
        BY <2>1, <2>2, LookFacts DEF Guarded
      <3>2. CASE broken /\ exposed >= ScanAge
        <4>1. \A c \in checks : Seen(c) => c \in checks' /\ Seen(c)'
          BY <2>1, <3>1 DEF Seen, BlindBound
        <4>2. blind <= BlindBound
          BY <2>2 DEF BlindSpotIsBounded
        <4>3. exposed < blind + Cooldown => Seen([broken |-> TRUE, age |-> 0])'
          BY <1>1, <2>1, <4>2 DEF Seen, BlindBound
        <4>4. QED
          BY <2>1, <2>2, <3>1, <3>2, <4>1, <4>3 DEF ExposedInv, Guarded
      <3>3. CASE ~(broken /\ exposed >= ScanAge)
        <4>1. exposed < Cooldown
          BY <1>1, <3>3, MonitoringAssumption DEF ExposedInv
        <4>2. QED
          BY <1>1, <2>1, <3>1, <4>1, <2>2 DEF ExposedInv, Guarded
      <3>4. QED
        BY <3>2, <3>3
    <2>3. CASE ~(Guarded /\ lockdown = 0)
      <3>1. CASE lockdown = 0
        BY <2>1, <2>3, <3>1 DEF ExposedInv, Guarded
      <3>2. CASE lockdown # 0
        <4>1. exposed = 0 /\ blind' \in Nat
          BY <1>1, <2>1, <3>2, LookFacts DEF ExposedInv
        <4>2. QED
          BY <1>1, <1>4, <2>1, <4>1
      <3>3. QED
        BY <3>1, <3>2
    <2>4. QED
      BY <2>2, <2>3
  <1>11. CASE Tampered("sensor_down")
    BY <1>5, <1>11, WatchFacts DEF Tampered, Guarded
  <1>12. ASSUME NEW c \in checks, FinishCheck(c)
         PROVE  ExposedInv'
    <2>1. /\ watch' = watch /\ enabled' = enabled /\ blind' = blind /\ broken' = broken
          /\ checks' = checks \ {c}
      BY <1>12 DEF FinishCheck
    <2>2. PICK bad \in Findings(c) :
            IF bad /\ lockdown = 0 /\ cooldown = 0
            THEN Relock ELSE UNCHANGED <<lockdown, cooldown, exposed>>
      BY <1>12 DEF FinishCheck
    <2>3. CASE bad /\ lockdown = 0 /\ cooldown = 0
      BY <1>1, <1>4, <2>1, <2>2, <2>3 DEF Relock
    <2>4. CASE ~(bad /\ lockdown = 0 /\ cooldown = 0)
      <3>1. exposed' = exposed /\ cooldown' = cooldown /\ lockdown' = lockdown
        BY <2>2, <2>4
      <3>2. CASE lockdown # 0
        <4>1. exposed = 0
          BY <1>1, <3>2 DEF ExposedInv
        <4>2. QED
          BY <1>1, <1>4, <2>1, <3>1, <4>1
      <3>3. CASE ~bad
        <4>1. ~c.broken
          BY <2>2, <3>3 DEF Findings
        <4>2. \A d \in checks : Seen(d) => d \in checks' /\ Seen(d)'
          BY <2>1, <3>1, <4>1 DEF Seen, BlindBound
        <4>3. QED
          BY <2>1, <3>1, <4>2 DEF ExposedInv, Guarded
      <3>4. CASE cooldown # 0
        BY <2>1, <3>1, <3>4 DEF ExposedInv, Guarded
      <3>5. QED
        BY <2>4, <3>2, <3>3, <3>4
    <2>5. QED
      BY <2>3, <2>4
  <1>13. CASE OtherLockdown
    BY <1>1, <1>4, <1>13 DEF OtherLockdown
  <1>14. CASE EndLockdown
    <2>1. exposed = 0
      BY <1>1, <1>14 DEF EndLockdown, ExposedInv
    <2>2. QED
      BY <1>1, <1>4, <1>14, <2>1 DEF EndLockdown
  <1>15. CASE Tick
    <2>1. /\ watch'.active = watch.active /\ enabled' = enabled /\ broken' = broken
          /\ cooldown' = Less(cooldown) /\ lockdown' = Less(lockdown)
      BY <1>15, WatchFacts DEF Tick
    <2>2. CASE Guarded /\ lockdown = 0 /\ broken
      <3>1. /\ exposed' = AtMost(exposed + 1, AnswerBound)
            /\ blind' = AtMost(blind + 1, BlindBound + 1)
        BY <1>15, <2>2 DEF Tick
      <3>2. blind' = blind + 1 /\ exposed' \in Nat /\ exposed' <= exposed + 1
        BY <1>1, <1>3, <1>15, <2>2, <3>1, TickLevel DEF AtMost
      <3>3. lockdown' = 0
        BY <2>1, <2>2 DEF Less
      <3>4. CASE cooldown > 0
        <4>1. exposed <= Cooldown - cooldown
          BY <2>2, <3>4 DEF ExposedInv
        <4>2. cooldown' = cooldown - 1
          BY <1>1, <2>1, <3>4 DEF Less
        <4>3. QED
          BY <1>1, <2>1, <2>2, <3>2, <3>3, <4>1, <4>2 DEF ExposedInv
      <3>5. CASE cooldown = 0
        <4>1. cooldown' = 0
          BY <2>1, <3>5 DEF Less
        <4>2. CASE exposed < blind + Cooldown
          BY <1>1, <2>1, <2>2, <3>2, <3>3, <4>1, <4>2 DEF ExposedInv
        <4>3. CASE \E c \in checks : Seen(c)
          <5>1. PICK c \in checks : Seen(c)
            BY <4>3
          <5>2. c \in CheckType /\ [c EXCEPT !.age = @ + 1] \in checks'
            BY <1>15, Types DEF Tick, PartsOK
          <5>3. /\ [c EXCEPT !.age = @ + 1].broken = c.broken
                /\ [c EXCEPT !.age = @ + 1].age = c.age + 1 /\ c.age \in Nat
            BY <5>2 DEF CheckType
          <5>4. Seen([c EXCEPT !.age = @ + 1])'
            BY <1>1, <3>2, <5>1, <5>3 DEF Seen, BlindBound
          <5>5. QED
            BY <2>1, <2>2, <3>3, <4>1, <5>2, <5>4 DEF ExposedInv
        <4>4. QED
          BY <2>2, <3>5, <4>2, <4>3 DEF ExposedInv
      <3>6. QED
        BY <1>1, <3>4, <3>5
    <2>3. CASE ~(Guarded /\ lockdown = 0 /\ broken)
      <3>1. exposed' = 0
        BY <1>15, <2>3 DEF Tick
      <3>2. blind' \in Nat /\ cooldown' \in 0..Cooldown
        BY <1>1, <1>15 DEF Tick, AtMost, Less
      <3>3. QED
        BY <1>4, <3>1, <3>2
    <2>4. QED
      BY <2>2, <2>3
  <1>16. QED
    BY <1>6, <1>7, <1>8, <1>9, <1>10, <1>11, <1>12, <1>13, <1>14, <1>15
    DEF Next, Manager, Watch, Check, Vectors

-----------------------------------------------------------------------------
(* The theorems *)

LEMMA InitInv == Init => IInv
  <1>1. SUFFICES ASSUME Init
                 PROVE  IInv
    OBVIOUS
  <1>2. /\ FlagsOK /\ CountersOK
    BY <1>1, Bounds DEF Init, FlagsOK, CountersOK
  <1>3. NoWatch \in WatchType /\ NoWatch.left <= NoWatch.period /\ NoWatch.active = FALSE
        /\ Quiet \in PendingType
    BY MonitoringAssumption DEF NoWatch, WatchType, Quiet, PendingType
  <1>4. PartsOK
    BY <1>1, <1>3, NewSensorFacts DEF Init, PartsOK
  <1>5. TypeOK
    BY <1>2, <1>4, Types
  <1>6. ~watch.active /\ sensor = NoSensor /\ Down = "none" /\ exposed = 0
        /\ handle = FALSE /\ running = FALSE
    BY <1>1, <1>3 DEF Init, Down, Quiet, Vectors
  <1>7. ManagerInv
    BY <1>6, NewSensorFacts DEF ManagerInv
  <1>8. SensorInv
    BY <1>6, NewSensorFacts, MonitoringAssumption DEF SensorInv
  <1>9. DeadSensorMeansFastPolling /\ BlindInv /\ BlindSpotIsBounded
    BY <1>6 DEF DeadSensorMeansFastPolling, BlindInv, BlindSpotIsBounded, Guarded
  <1>10. ExposedInv
    BY <1>6 DEF ExposedInv, Guarded
  <1>11. QED
    BY <1>5, <1>7, <1>8, <1>9, <1>10 DEF IInv

LEMMA NextInv == IInv /\ [Next]_vars => IInv'
  <1>1. ASSUME IInv, Next
        PROVE  IInv'
    <2>1. TypeOK' /\ ManagerInv' /\ SensorInv'
      BY <1>1, TypeStep, StepManager, StepSensor DEF IInv
    <2>2. DeadSensorMeansFastPolling' /\ BlindInv'
      BY <1>1, StepFast, StepBlind DEF IInv
    <2>3. BlindSpotIsBounded' /\ ExposedInv'
      BY <1>1, StepBlindSpot, StepExposed DEF IInv
    <2>4. QED
      BY <2>1, <2>2, <2>3 DEF IInv
  <1>2. ASSUME IInv, UNCHANGED vars
        PROVE  IInv'
    BY <1>2
    DEF vars, IInv, TypeOK, ManagerInv, SensorInv, DeadSensorMeansFastPolling, BlindInv,
        BlindSpotIsBounded, ExposedInv, Guarded, Level, UpFor, Quieted, Down, Seen, BlindBound
  <1>3. QED
    BY <1>1, <1>2

LEMMA Invariance == Spec => []IInv
  BY InitInv, NextInv, PTL DEF Spec

\* The state is well typed, the timers within their periods.
THEOREM TypeCorrect == Spec => []TypeOK
  <1>1. IInv => TypeOK
    BY DEF IInv
  <1>2. QED
    BY <1>1, Invariance, PTL

\* However often the sensor dies, and whoever starts, stops and re-applies in
\* between, the watch that is on looks at the machine within the slow interval
\* and two fast ones.
THEOREM BlindBounded == Spec => []BlindSpotIsBounded
  <1>1. IInv => BlindSpotIsBounded
    BY DEF IInv
  <1>2. QED
    BY <1>1, Invariance, PTL

\* A sensor that keeps dying leaves the watch at its fast interval.
THEOREM FastPolling == Spec => []DeadSensorMeansFastPolling
  <1>1. IInv => DeadSensorMeansFastPolling
    BY DEF IInv
  <1>2. QED
    BY <1>1, Invariance, PTL

\* A machine that stays other than locked down gets a lockdown within the bound,
\* though the cooldown drops events and nothing asks again when it is over, and
\* though checks take their time, overlap and read scans of before.
THEOREM Answered == Spec => []TamperingIsAnswered
  <1>1. ASSUME IInv, Guarded
        PROVE  exposed < AnswerBound
    <2>1. /\ blind \in Nat /\ exposed \in Nat /\ cooldown \in 0..Cooldown /\ blind <= BlindBound
          /\ Cooldown \in Nat /\ BlindBound \in Nat /\ CheckTime \in Nat \ {0}
      BY <1>1, SensorFacts, Bounds, MonitoringAssumption DEF IInv, TypeOK, BlindSpotIsBounded
    <2>2. ASSUME NEW c \in checks, Seen(c)
          PROVE  exposed < AnswerBound
      <3>1. c.age \in 0..CheckTime
        BY <1>1, Types DEF IInv, PartsOK, CheckType
      <3>2. QED
        BY <2>1, <2>2, <3>1 DEF Seen, AnswerBound
    <2>3. QED
      BY <1>1, <2>1, <2>2 DEF IInv, ExposedInv, AnswerBound
  <1>2. IInv => TamperingIsAnswered
    BY <1>1 DEF TamperingIsAnswered
  <1>3. QED
    BY <1>2, Invariance, PTL

-----------------------------------------------------------------------------
(* The verdicts of DnsVerdict, for any set of domains. *)

\* Two answers taken together.
LEMMA MergedFacts ==
    ASSUME NEW reply \in Kinds \X Kinds, NEW format \in Formats
    PROVE  /\ Merged(format, reply).reachable <=> reply # <<"failed", "failed">>
           /\ format = WireClient =>
                (Merged(format, reply).blocked <=> "refused" \in {reply[1], reply[2]})
           /\ Merged(format, reply).blocked =>
                {reply[1], reply[2]} \cap {"refused", "nodata", "sinkhole"} # {}
  <1> DEFINE a == reply[1]
             b == reply[2]
  <1>1. reply = <<a, b>> /\ a \in Kinds /\ b \in Kinds
    OBVIOUS
  <1>2. /\ Merged(format, reply).reachable <=> a # "failed" \/ b # "failed"
        /\ format = WireClient => (Merged(format, reply).blocked <=> a = "refused" \/ b = "refused")
    <2>1. Merged(format, reply).reachable <=> a # "failed" \/ b # "failed"
      BY DEF Merged, Read, Wire, Json
    <2>2. CASE format = WireClient
      BY <2>2 DEF Merged, Read, Wire, Json, WireClient
    <2>3. QED
      BY <2>1, <2>2
  <1>3. Merged(format, reply).blocked =>
          a \in {"refused", "nodata", "sinkhole"} \/ b \in {"refused", "nodata", "sinkhole"}
    BY DEF Merged, Read, Wire, Json
  <1> HIDE DEF a, b
  <1>4. reply = <<"failed", "failed">> <=> a = "failed" /\ b = "failed"
    BY <1>1
  <1>5. QED
    BY <1>2, <1>3, <1>4 DEF a, b

LEMMA JudgeType ==
    ASSUME NEW w \in Worlds, NEW d \in Domains, NEW https \in BOOLEAN
    PROVE  Judge(w, d, WireClient, https) \in Judgements
  <1>1. w.reply[d] \in Kinds \X Kinds
    BY RepliesAssumption DEF Worlds
  <1>2. Merged(WireClient, w.reply[d]).reachable \in BOOLEAN
    BY <1>1 DEF Merged, Read, Wire, Kinds, WireClient
  <1>3. QED
    BY <1>2 DEF Judge, Judgements

\* A safe domain is found to be allowed if it passes, and only then.
LEMMA SafeJudged ==
    ASSUME world \in Worlds, NEW d \in Safe
    PROVE  Evaluate(d).reachable /\ Evaluate(d).status = "allowed" <=> Passes(d)
  <1>1. world.reply[d] \in Kinds \X Kinds /\ d \notin Restricted
    BY RepliesAssumption, DomainsAreDisjoint DEF Worlds, Domains, Restricted
  <1>2. QED
    BY <1>1, MergedFacts DEF Evaluate, Judge, Passes, WireClient, Formats

\* An open domain counts as blocked by nobody who reads its answers as they are;
\* it is a provider miss unless the resolver does not answer.
LEMMA OpenJudged ==
    ASSUME world \in Worlds, NEW d \in Restricted, Open(d), NEW format \in Formats,
           format = WireClient \/ ~ReadAsBlocked(d)
    PROVE  /\ ~Blocked(EvaluateWithoutClient(d, format))
           /\ world.reply[d] # <<"failed", "failed">> =>
                ProviderMiss(EvaluateWithoutClient(d, format))
  <1>1. world.reply[d] \in Kinds \X Kinds /\ d \notin Safe
    BY RepliesAssumption, DomainsAreDisjoint DEF Worlds, Domains, Restricted
  <1>2. ~Merged(format, world.reply[d]).blocked
    BY <1>1, MergedFacts DEF Open, ReadAsBlocked
  <1>3. ~FallbackBlocks(world, d, d \in Miss)
    BY DEF Open, FallbackBlocks
  <1>4. EvaluateWithoutClient(d, format).status \in {"allowed", "error"}
        /\ EvaluateWithoutClient(d, format).reachable = Merged(format, world.reply[d]).reachable
    BY <1>1, <1>2, <1>3 DEF EvaluateWithoutClient, Judge
  <1>5. QED
    BY <1>1, <1>4, MergedFacts DEF Blocked, ProviderMiss

\* What the summary and the validation make of a critical domain.
LEMMA CriticalFails ==
    ASSUME NEW ping \in BOOLEAN, NEW ev, NEW policy, NEW agree, Critical(ev) # {}
    PROVE  /\ Summary(ping, FALSE, ev) = "failed"
           /\ Validation(ping, FALSE, ev, policy, agree) \notin ActiveStatuses
  BY DEF Summary, Validation, ActiveStatuses

\* What they make of an app check.
LEMMA AppVerdict ==
    ASSUME NEW ping \in BOOLEAN, NEW ev
    PROVE  Validation(ping, TRUE, ev, TRUE, TRUE) =
             IF ~ping THEN "DEGRADED"
             ELSE IF SafeAllowed(ev) THEN "HEALTHY" ELSE "TAMPERING_SUSPECTED"
  BY DEF Validation, Summary

LEMMA OutcomeType ==
    ASSUME NEW ping \in BOOLEAN, NEW skip \in BOOLEAN, NEW ev, NEW quick, NEW policy, NEW agree,
           NEW current \in BOOLEAN
    PROVE  [status |-> Validation(ping, skip, ev, policy, agree),
            final |-> Summary(ping, skip, quick), current |-> current] \in Outcome
  <1>1. Summary(ping, skip, quick) \in Statements
    BY DEF Summary, Statements
  <1>2. Validation(ping, skip, ev, policy, agree) \in Statuses
    BY DEF Validation, Statuses
  <1>3. QED
    BY <1>1, <1>2 DEF Outcome

-----------------------------------------------------------------------------
(* The inductive invariant of the health check. *)

\* As long as the world has not changed under a check, what it has found so far
\* is what a look at the world would find now.
CheckInv ==
    /\ check.phase = "ping" => check.todo = Safe
    /\ check.phase = "domains" /\ check.steady =>
         /\ check.ping = world.ping
         /\ \A d \in Safe \ check.todo : check.ev[d] = Evaluate(d)

HealthInv == HealthTypeOK /\ CheckInv /\ ReportIsTrue /\ DiagnosisFindsOpenDomains

ProbesType == [phase : Phases, ping : BOOLEAN, todo : SUBSET Safe, steady : BOOLEAN,
              ev : [Domains -> Judgements]]

LEMMA WorldType ==
    ASSUME world \in Worlds
    PROVE  /\ world.ping \in BOOLEAN
           /\ \A d \in Domains : world.reply[d] \in Replies
           /\ \A d \in Domains : Evaluate(d) \in Judgements
  <1>1. world.ping \in BOOLEAN /\ \A d \in Domains : world.reply[d] \in Replies
    BY DEF Worlds
  <1>2. ASSUME NEW d \in Domains
        PROVE  Evaluate(d) \in Judgements
    <2>1. (d \in Miss) \in BOOLEAN
      OBVIOUS
    <2>2. QED
      BY <2>1, JudgeType DEF Evaluate
  <1>3. QED
    BY <1>1, <1>2

LEMMA ChangedWorld ==
    ASSUME world \in Worlds, WorldChanges
    PROVE  world' \in Worlds
  <1>1. CASE world' = [world EXCEPT !.ping = ~@]
    BY <1>1 DEF Worlds
  <1>2. ASSUME NEW d \in Domains, NEW r \in Replies, world' = [world EXCEPT !.reply[d] = r]
        PROVE  world' \in Worlds
    BY <1>2 DEF Worlds
  <1>3. ASSUME NEW d \in Restricted, NEW l \in Layers, world' = [world EXCEPT !.layer[d] = l]
        PROVE  world' \in Worlds
    BY <1>3, DomainsAreDisjoint DEF Worlds, Domains, Restricted
  <1>4. QED
    BY <1>1, <1>2, <1>3 DEF WorldChanges

LEMMA IdleType == Idle \in ProbesType
  BY DEF Idle, ProbesType, Phases, NotJudged, Judgements

\* Who asks for a check gets a new one or changes nothing.
LEMMA HealthAsked ==
    ASSUME HealthInv, RunHealthCheck, UNCHANGED <<world, report, diagnosis>>, timer' \in BOOLEAN
    PROVE  HealthInv'
  <1>1. check' = check \/ check' = [Idle EXCEPT !.phase = "ping", !.todo = Safe]
    BY DEF RunHealthCheck
  <1>2. check' \in ProbesType
    BY <1>1, IdleType DEF HealthInv, HealthTypeOK, ProbesType, Phases
  <1>3. CheckInv'
    <2>1. CASE check' = check
      BY <2>1 DEF HealthInv, CheckInv, Evaluate
    <2>2. CASE check' = [Idle EXCEPT !.phase = "ping", !.todo = Safe]
      <3>1. check'.phase = "ping" /\ check'.todo = Safe
        BY <2>2 DEF Idle
      <3>2. QED
        BY <3>1 DEF CheckInv
    <2>3. QED
      BY <1>1, <2>1, <2>2
  <1>4. (ReportIsTrue /\ DiagnosisFindsOpenDomains)'
    BY DEF HealthInv, ReportIsTrue, DiagnosisFindsOpenDomains, Passes, Open,
         Silent, ReadAsBlocked
  <1>5. QED
    BY <1>2, <1>3, <1>4 DEF HealthInv, HealthTypeOK, ProbesType

\* The report of a check that saw one world.
LEMMA FinishedTrue ==
    ASSUME HealthInv, Finish
    PROVE  ReportIsTrue'
  <1>1. /\ world \in Worlds /\ world' = world /\ check \in ProbesType
        /\ check.phase = "domains" /\ check.todo = {}
        /\ report'.status = Validation(check.ping, TRUE, check.ev, TRUE, TRUE)
        /\ report'.current = check.steady
    BY DEF Finish, HealthInv, HealthTypeOK, ProbesType
  <1>2. SUFFICES ASSUME check.steady
                 PROVE  ReportIsTrue'
    BY <1>1 DEF ReportIsTrue
  <1>3. check.ping = world.ping /\ \A d \in Safe : check.ev[d] = Evaluate(d)
    BY <1>1, <1>2 DEF HealthInv, CheckInv
  <1>4. SafeAllowed(check.ev) <=> \A d \in Safe : Passes(d)
    BY <1>1, <1>3, SafeJudged DEF SafeAllowed
  <1>5. report'.status = IF ~world.ping THEN "DEGRADED"
                         ELSE IF SafeAllowed(check.ev) THEN "HEALTHY" ELSE "TAMPERING_SUSPECTED"
    BY <1>1, <1>3, AppVerdict, WorldType
  <1>6. (\A d \in Safe : Passes(d))' <=> \A d \in Safe : Passes(d)
    BY <1>1 DEF Passes
  <1>7. QED
    BY <1>1, <1>4, <1>5, <1>6, WorldType DEF ReportIsTrue

\* Judgements that leave a domain neither critical nor blocked.
LEMMA NotCritical ==
    ASSUME world \in Worlds, NEW ev, NEW d \in Restricted, Open(d), NEW format \in Formats,
           format = WireClient \/ ~ReadAsBlocked(d),
           ev[d] = EvaluateWithoutClient(d, format), Critical(ev) = {}
    PROVE  Silent(d)
  <1>1. ~Blocked(ev[d])
    BY OpenJudged
  <1>2. d \in Miss /\ ~ProviderMiss(ev[d])
    BY <1>1 DEF Critical, Misses, Restricted
  <1>3. QED
    BY <1>2, OpenJudged DEF Silent

\* A diagnosis overlooks an open domain in the two named cases only.
LEMMA DiagnosedOpen ==
    ASSUME HealthInv, Diagnose
    PROVE  DiagnosisFindsOpenDomains'
  <1> DEFINE policy == PolicyOk(world)
             agree == Consistent(world)
             full == [d \in Domains |-> Evaluate(d)]
  <1>1. PICK format \in [Domains -> Formats] :
          diagnosis' = [status  |-> Validation(world.ping, FALSE, full, policy, agree),
                        final   |-> Summary(world.ping, FALSE,
                                      [d \in Domains |-> EvaluateWithoutClient(d, format[d])]),
                        current |-> TRUE]
    BY DEF Diagnose
  <1> DEFINE quick == [d \in Domains |-> EvaluateWithoutClient(d, format[d])]
  <1>2. /\ world \in Worlds /\ world' = world /\ WireClient \in Formats
        /\ diagnosis'.status = Validation(world.ping, FALSE, full, policy, agree)
        /\ diagnosis'.final = Summary(world.ping, FALSE, quick)
    BY <1>1 DEF Diagnose, HealthInv, HealthTypeOK, WireClient, Formats
  <1>3. ASSUME NEW d \in Restricted, Open(d)
        PROVE  /\ full[d] = EvaluateWithoutClient(d, WireClient)
               /\ quick[d] = EvaluateWithoutClient(d, format[d]) /\ format[d] \in Formats
    BY DEF Domains, Evaluate, EvaluateWithoutClient
  <1> HIDE DEF policy, agree, full, quick
  <1>4. ASSUME diagnosis'.status \in ActiveStatuses, NEW d \in Restricted, Open(d)
        PROVE  Silent(d)
    <2>1. Critical(full) = {}
      BY <1>2, <1>4, CriticalFails, WorldType
    <2>2. QED
      BY <1>2, <1>3, <1>4, <2>1, NotCritical
  <1>5. ASSUME diagnosis'.final # "failed", NEW d \in Restricted, Open(d), ~ReadAsBlocked(d)
        PROVE  Silent(d)
    <2>1. Critical(quick) = {}
      BY <1>2, <1>5, CriticalFails, WorldType
    <2>2. QED
      BY <1>2, <1>3, <1>5, <2>1, NotCritical
  <1>6. QED
    BY <1>2, <1>4, <1>5 DEF DiagnosisFindsOpenDomains, Open, Silent, ReadAsBlocked

LEMMA HealthStep ==
    ASSUME HealthInv, HealthNext
    PROVE  HealthInv'
  <1>1. /\ world \in Worlds /\ check \in ProbesType /\ timer \in BOOLEAN
        /\ report \in Outcome \cup {NoReport} /\ diagnosis \in Outcome \cup {NoReport}
    BY DEF HealthInv, HealthTypeOK, ProbesType
  <1>2. CASE StartHealth \/ TimerFires \/ Ask
    BY <1>1, <1>2, HealthAsked DEF StartHealth, TimerFires, Ask
  <1>3. CASE StopHealth
    BY <1>1, <1>3 DEF StopHealth, HealthInv, HealthTypeOK, CheckInv, ReportIsTrue,
                      DiagnosisFindsOpenDomains, Passes, Open, Silent, ReadAsBlocked, Evaluate
  <1>4. CASE Diagnose
    <2>1. diagnosis' \in Outcome
      <3>1. PICK full, quick, policy, agree :
              diagnosis' = [status  |-> Validation(world.ping, FALSE, full, policy, agree),
                            final   |-> Summary(world.ping, FALSE, quick),
                            current |-> TRUE]
        BY <1>4 DEF Diagnose
      <3>2. QED
        BY <1>1, <3>1, OutcomeType, WorldType
    <2>2. CheckInv' /\ ReportIsTrue'
      BY <1>4 DEF Diagnose, HealthInv, CheckInv, ReportIsTrue, Passes, Evaluate
    <2>3. QED
      BY <1>1, <1>4, <2>1, <2>2, DiagnosedOpen
      DEF Diagnose, HealthInv, HealthTypeOK, ProbesType
  <1>4a. ASSUME UNCHANGED <<world, report, diagnosis, timer>>, check' \in ProbesType, CheckInv'
        PROVE  HealthInv'
    <2>1. ReportIsTrue' /\ DiagnosisFindsOpenDomains'
      BY <1>4a DEF HealthInv, ReportIsTrue, DiagnosisFindsOpenDomains, Passes, Open,
         Silent, ReadAsBlocked
    <2>2. QED
      BY <1>1, <1>4a, <2>1 DEF HealthInv, HealthTypeOK, ProbesType
  <1>5. CASE Ping
    <2>1. /\ check' = [check EXCEPT !.phase = "domains", !.ping = world.ping]
          /\ UNCHANGED <<world, report, diagnosis, timer>> /\ check.phase = "ping"
      BY <1>5 DEF Ping
    <2>2. check' \in ProbesType /\ check'.ping = world.ping
      BY <1>1, <2>1, WorldType DEF ProbesType, Phases
    <2>3. check'.todo = Safe
      BY <1>5, <2>1 DEF HealthInv, CheckInv, ProbesType
    <2>4. CheckInv'
      BY <2>1, <2>2, <2>3 DEF CheckInv
    <2>5. QED
      BY <1>1, <1>4a, <2>1, <2>2, <2>4
  <1>6. ASSUME NEW d \in Domains, ProbeDomain(d)
        PROVE  HealthInv'
    <2>1. /\ check' = [check EXCEPT !.todo = @ \ {d}, !.ev[d] = Evaluate(d)]
          /\ UNCHANGED <<world, report, diagnosis, timer>> /\ check.phase = "domains"
      BY <1>6 DEF ProbeDomain
    <2>2. /\ check' \in ProbesType /\ check'.phase = check.phase /\ check'.ping = check.ping
          /\ check'.steady = check.steady /\ check'.todo = check.todo \ {d}
          /\ \A e \in Domains : check'.ev[e] = IF e = d THEN Evaluate(d) ELSE check.ev[e]
      BY <1>1, <2>1, WorldType DEF ProbesType, Phases
    <2>3. \A e \in Domains : Evaluate(e)' = Evaluate(e)
      BY <2>1 DEF Evaluate
    <2>4. CheckInv'
      BY <1>1, <2>1, <2>2, <2>3 DEF HealthInv, CheckInv, Domains
    <2>5. QED
      BY <1>1, <1>4a, <2>1, <2>2, <2>4
  <1>7. CASE Finish
    <2>1. /\ check' = Idle /\ UNCHANGED <<world, diagnosis, timer>>
          /\ report' = [status |-> Validation(check.ping, TRUE, check.ev, TRUE, TRUE),
                        final |-> Summary(check.ping, TRUE, check.ev),
                        current |-> check.steady]
      BY <1>7 DEF Finish
    <2>2. report' \in Outcome
      BY <1>1, <2>1, OutcomeType DEF ProbesType
    <2>3. CheckInv' /\ DiagnosisFindsOpenDomains'
      BY <2>1 DEF HealthInv, CheckInv, Idle, DiagnosisFindsOpenDomains, Open,
         Silent, ReadAsBlocked
    <2>4. QED
      BY <1>1, <1>7, <2>1, <2>2, <2>3, IdleType, FinishedTrue DEF HealthInv, HealthTypeOK, ProbesType
  <1>8. CASE WorldChanges
    <2>1. /\ report' = [report EXCEPT !.current = FALSE] /\ diagnosis' = NoReport /\ timer' = timer
          /\ check' = IF Running THEN [check EXCEPT !.steady = FALSE] ELSE check
      BY <1>8 DEF WorldChanges
    <2>2. world' \in Worlds
      BY <1>1, <1>8, ChangedWorld
    <2>3. report' \in Outcome \cup {NoReport} /\ report'.current = FALSE
      <3>1. CASE report \in Outcome
        BY <2>1, <3>1 DEF Outcome
      <3>2. CASE report = NoReport
        BY <2>1, <3>2 DEF NoReport
      <3>3. QED
        BY <1>1, <3>1, <3>2
    <2>4. /\ check' \in ProbesType /\ check'.phase = check.phase /\ check'.todo = check.todo
          /\ check.phase # "idle" => check'.steady = FALSE
      BY <1>1, <2>1 DEF ProbesType, Running
    <2>5. CheckInv'
      BY <2>4 DEF HealthInv, CheckInv
    <2>6. ReportIsTrue' /\ DiagnosisFindsOpenDomains'
      BY <2>1, <2>3 DEF ReportIsTrue, DiagnosisFindsOpenDomains, NoReport
    <2>7. QED
      BY <1>1, <2>1, <2>2, <2>3, <2>4, <2>5, <2>6 DEF HealthInv, HealthTypeOK, ProbesType
  <1>9. QED
    BY <1>2, <1>3, <1>4, <1>5, <1>6, <1>7, <1>8 DEF HealthNext, Probes

LEMMA HealthInvariance == HealthSpec => []HealthInv
  <1>1. ASSUME HealthInit
        PROVE  HealthInv
    BY <1>1, IdleType
    DEF HealthInit, HealthInv, HealthTypeOK, CheckInv, ReportIsTrue, DiagnosisFindsOpenDomains,
        NoReport, Idle, ProbesType
  <1>2. ASSUME HealthInv, UNCHANGED healthVars
        PROVE  HealthInv'
    BY <1>2 DEF healthVars, HealthInv, HealthTypeOK, CheckInv, ReportIsTrue,
                DiagnosisFindsOpenDomains, Passes, Open, Silent, ReadAsBlocked, Evaluate
  <1>3. QED
    BY <1>1, <1>2, HealthStep, PTL DEF HealthSpec

\* The state is well typed and every outcome is one of DnsStatus.
THEOREM HealthTypeCorrect == HealthSpec => []HealthTypeOK
  <1>1. HealthInv => HealthTypeOK
    BY DEF HealthInv
  <1>2. QED
    BY <1>1, HealthInvariance, PTL

\* However often the world changes under a check, a report that nothing has
\* outdated says the truth about the safe domains and CleanBrowsing.
THEOREM ReportTrue == HealthSpec => []ReportIsTrue
  <1>1. HealthInv => ReportIsTrue
    BY DEF HealthInv
  <1>2. QED
    BY <1>1, HealthInvariance, PTL

\* For any sets of domains, answers, formats and layers, a diagnosis that calls the
\* protection active overlooks an open domain in two cases only: its queries have
\* both failed, or the health-doh diagnosis took a lacking address for a block.
THEOREM DiagnosisTrue == HealthSpec => []DiagnosisFindsOpenDomains
  <1>1. HealthInv => DiagnosisFindsOpenDomains
    BY DEF HealthInv
  <1>2. QED
    BY <1>1, HealthInvariance, PTL

-----------------------------------------------------------------------------
(* Their composition. *)

\* Whatever the whole does is a step of the watch, of the health monitor or of
\* both: what is proved of each alone holds of the whole.
LEMMA ManagerSteps ==
    ASSUME [ManagerNext]_managerVars
    PROVE  [Next]_vars /\ [HealthNext]_healthVars
  <1>1. CASE StartMonitors \/ StopMonitors \/ FailMonitors
    BY <1>1 DEF StartMonitors, StopMonitors, FailMonitors, Next, Manager, HealthNext
  <1>2. CASE ResumeMonitors
    BY <1>2 DEF ResumeMonitors, Next, Manager, HealthNext
  <1>3. CASE LockdownOver
    <2>1. AskInPassing => Ask \/ UNCHANGED healthVars
      BY DEF AskInPassing, RunHealthCheck, Ask, healthVars
    <2>2. QED
      BY <1>3, <2>1 DEF LockdownOver, Next, HealthNext
  <1>4. CASE WatchAlone
    BY <1>4 DEF WatchAlone, Next
  <1>5. CASE HealthAlone
    BY <1>5 DEF HealthAlone, HealthNext
  <1>6. CASE UNCHANGED managerVars
    BY <1>6 DEF managerVars
  <1>7. QED
    BY <1>1, <1>2, <1>3, <1>4, <1>5, <1>6 DEF ManagerNext

\* The watch behaves as module Monitoring says, whatever the health monitor does.
THEOREM WatchImplemented == ManagerSpec => Spec
  <1>1. ManagerInit => Init
    BY DEF ManagerInit
  <1>2. [ManagerNext]_managerVars => [Next]_vars
    BY ManagerSteps
  <1>3. QED
    BY <1>1, <1>2, PTL DEF ManagerSpec, Spec

\* The health monitor behaves as module DnsHealth says, whoever starts and stops it.
THEOREM HealthImplemented == ManagerSpec => HealthSpec
  <1>1. ManagerInit => HealthInit
    BY DEF ManagerInit
  <1>2. [ManagerNext]_managerVars => [HealthNext]_healthVars
    BY ManagerSteps
  <1>3. QED
    BY <1>1, <1>2, PTL DEF ManagerSpec, HealthSpec

LEMMA StoppedWatch ==
    ASSUME TypeOK, StopWatch
    PROVE  watch'.active = FALSE
  <1>1. watch' = [watch EXCEPT !.active = FALSE, !.left = 0] /\ watch \in WatchType
    BY Types DEF StopWatch, PartsOK
  <1>2. QED
    BY <1>1 DEF WatchType

\* No sequence of starts, stops, re-applies and failures leaves one of the
\* monitors on without the other.
THEOREM LifecycleShared == ManagerSpec => []OneLifecycle
  <1>1. ASSUME ManagerInit
        PROVE  OneLifecycle
    BY <1>1 DEF ManagerInit, Init, HealthInit, OneLifecycle, NoWatch
  <1>2. ASSUME IInv, OneLifecycle, ManagerNext
        PROVE  OneLifecycle'
    <2>1. TypeOK /\ ManagerInv /\ FlagsOK /\ watch.active \in BOOLEAN
      BY <1>2, Types, SensorFacts DEF IInv
    <2>2. CASE StartMonitors \/ (ResumeMonitors /\ Reapply)
      <3>1. watch'.active = TRUE /\ handle' = TRUE /\ timer' = TRUE
        BY <2>2 DEF StartMonitors, Start, ResumeMonitors, Reapply, StartWatch, StartHealth
      <3>2. QED
        BY <3>1 DEF OneLifecycle
    <2>3. CASE ResumeMonitors /\ handle /\ UNCHANGED vars
      BY <1>2, <2>1, <2>3 DEF ResumeMonitors, StartHealth, OneLifecycle, vars, FlagsOK
    <2>4. CASE StopMonitors
      <3>1. StopWatch /\ handle' = FALSE /\ running' = FALSE /\ timer' = FALSE
        BY <2>4 DEF StopMonitors, Stop, StopHealth
      <3>2. watch'.active = FALSE
        BY <2>1, <3>1, StoppedWatch
      <3>3. QED
        BY <3>1, <3>2 DEF OneLifecycle
    <2>5. CASE FailMonitors
      <3>1. /\ handle' = FALSE /\ enabled' = FALSE /\ timer' = FALSE
            /\ IF handle THEN StopWatch ELSE watch' = watch
        BY <2>5 DEF FailMonitors, FailChallenge, StopHealth
      <3>2. watch'.active = FALSE
        BY <1>2, <2>1, <3>1, StoppedWatch DEF OneLifecycle, FlagsOK
      <3>3. QED
        BY <3>1, <3>2 DEF OneLifecycle
    <2>6. ASSUME running' = running, handle' = handle, enabled' = enabled, timer' = timer,
                 watch'.active = watch.active
          PROVE  OneLifecycle'
      BY <1>2, <2>6 DEF OneLifecycle
    <2>7. CASE LockdownOver
      BY <2>6, <2>7 DEF LockdownOver, EndLockdown, AskInPassing, healthVars
    <2>8. CASE WatchAlone
      <3>1. watch'.active = watch.active
        BY <2>1, <2>8, WatchFacts
        DEF WatchAlone, Sensor, SensorExits, SpawnSensor, Change, Watch, Tampered, Check,
            FinishCheck, OtherLockdown
      <3>2. running' = running /\ handle' = handle /\ enabled' = enabled /\ timer' = timer
        BY <2>8
        DEF WatchAlone, Sensor, SensorExits, SpawnSensor, Change, Watch, Poll, Tampered, Check,
            FinishCheck, OtherLockdown, Tick, healthVars
      <3>3. QED
        BY <2>6, <3>1, <3>2
    <2>9. CASE HealthAlone
      BY <2>6, <2>9
      DEF HealthAlone, TimerFires, Ask, Diagnose, Probes, Ping, ProbeDomain, Finish,
          WorldChanges, vars
    <2>10. QED
      BY <1>2, <2>2, <2>3, <2>4, <2>5, <2>7, <2>8, <2>9 DEF ManagerNext, ResumeMonitors
  <1>3. ASSUME OneLifecycle, UNCHANGED managerVars
        PROVE  OneLifecycle'
    BY <1>3 DEF OneLifecycle, managerVars, vars, healthVars
  <1>4. ManagerSpec => []IInv
    BY WatchImplemented, Invariance, PTL
  <1>5. QED
    BY <1>1, <1>2, <1>3, <1>4, PTL DEF ManagerSpec
=============================================================================
