------------------------- MODULE OfflineQueue_proofs -------------------------
(***************************************************************************)
(* Proofs about OfflineQueue for every set of ids, every cap and any       *)
(* number of overlapping flushes: every iterator stays within its array,   *)
(* the cap holds in memory and on disk, no id is twice in line, and what   *)
(* is accepted stays in line, in order, until it is settled.               *)
(***************************************************************************)
EXTENDS OfflineQueue, SequenceTheorems, TLAPS

\* The cap holds for the detached arrays, too; a flush may put one back.
CapInv ==
    /\ Len(items) <= MaxItems /\ Len(file) <= MaxItems
    /\ \A f \in Flushes : Len(snap[f]) <= MaxItems

IInv == TypeOK /\ CapInv

-----------------------------------------------------------------------------
(* Arrays *)

\* A push keeps the length, up to the cap.
LEMMA PushFacts ==
    ASSUME NEW s \in Seq(Items), NEW x \in Items, Len(s) <= MaxItems
    PROVE  /\ Push(s, x) \in Seq(Items)
           /\ Len(Push(s, x)) <= MaxItems /\ Len(s) <= Len(Push(s, x))
  <1> DEFINE t == Append(s, x)
  <1>1. t \in Seq(Items) /\ Len(t) = Len(s) + 1
    OBVIOUS
  <1>2. CASE Len(t) > MaxItems
    <2>1. Len(s) = MaxItems /\ Len(t) = MaxItems + 1
      BY <1>1, <1>2, QueueAssumption
    <2>2. Push(s, x) = SubSeq(t, 2, MaxItems + 1)
      BY <1>2, <2>1, QueueAssumption DEF Push
    <2>3. SubSeq(t, 2, MaxItems + 1) \in Seq(Items) /\ Len(SubSeq(t, 2, MaxItems + 1)) = MaxItems
      BY <1>1, <2>1, QueueAssumption, SubSeqProperties
    <2>4. QED
      BY <2>1, <2>2, <2>3, QueueAssumption
  <1>3. CASE ~(Len(t) > MaxItems)
    BY <1>1, <1>3, QueueAssumption DEF Push
  <1>4. QED
    BY <1>2, <1>3

\* What survives an interrupted flush is no longer than its array.
LEMMA SurvivorFacts ==
    ASSUME NEW s \in Seq(Items), NEW x \in Items, NEW n \in DOMAIN s
    PROVE  /\ <<x>> \o SubSeq(s, n + 1, Len(s)) \in Seq(Items)
           /\ Len(<<x>> \o SubSeq(s, n + 1, Len(s))) <= Len(s)
  <1>1. n \in 1..Len(s) /\ Len(s) \in Nat
    OBVIOUS
  <1>2. SubSeq(s, n + 1, Len(s)) \in Seq(Items)
    BY <1>1, SubSeqProperties
  <1>3. Len(SubSeq(s, n + 1, Len(s))) = Len(s) - n
    BY <1>1, SubSeqProperties
  <1>4. <<x>> \in Seq(Items) /\ Len(<<x>>) = 1
    OBVIOUS
  <1>5. QED
    BY <1>1, <1>2, <1>3, <1>4, ConcatProperties

-----------------------------------------------------------------------------
(* Steps *)

LEMMA PersistFacts ==
    ASSUME IInv, NEW s \in Seq(Items), Len(s) <= MaxItems, Persist(s)
    PROVE  file' \in Seq(Items) /\ Len(file') <= MaxItems
  BY DEF IInv, TypeOK, CapInv, Persist

\* The end of a flush: the others go on with the array they were in.
LEMMA FinishSafe ==
    ASSUME IInv, NEW f \in Flushes, NEW s \in Seq(Items), Len(s) <= MaxItems,
           Finish(f, s), owed' \in [Items -> Nat], twice' \subseteq Items,
           UNCHANGED <<flushable, calls, crashes, hazard>>
    PROVE  IInv'
  <1>1. items' \in Seq(Items) /\ Len(items') <= MaxItems
    BY DEF Finish
  <1>2. file' \in Seq(Items) /\ Len(file') <= MaxItems
    BY PersistFacts DEF Finish
  <1>3. /\ sending' \in [Flushes -> Items \cup {None}] /\ at' \in [Flushes -> Nat]
        /\ live' \subseteq {g \in Flushes : Running(g)'}
    BY DEF Finish, IInv, TypeOK
  <1>4. snap' \in [Flushes -> Seq(Items)] /\ \A g \in Flushes : Len(snap'[g]) <= MaxItems
    <2>1. \A g \in Flushes : snap'[g] \in {<<>>, items, snap[g]}
      BY DEF Finish
    <2>2. snap' = [g \in Flushes |-> snap'[g]]
      BY DEF Finish
    <2>3. <<>> \in Seq(Items) /\ Len(<<>>) <= MaxItems
      BY QueueAssumption
    <2>4. QED
      BY <2>1, <2>2, <2>3 DEF IInv, TypeOK, CapInv
  <1>5. ASSUME NEW g \in Flushes, Running(g)'
        PROVE  at'[g] \in DOMAIN Source(g)'
    <2>1. g # f /\ Running(g) /\ at'[g] = at[g]
      BY <1>5 DEF Finish, Running, IInv, TypeOK
    <2>2. Source(g)' = Source(g)
      BY <2>1 DEF Finish, Source
    <2>3. QED
      BY <2>1, <2>2 DEF IInv, TypeOK
  <1>6. calls' \in 0..MaxCalls /\ crashes' \in 0..MaxCrashes
        /\ hazard' \subseteq {"overlap", "cut", "disk", "replay"} /\ live' \subseteq Flushes
    BY DEF Finish, IInv, TypeOK
  <1>7. QED
    BY <1>1, <1>2, <1>3, <1>4, <1>5, <1>6 DEF IInv, TypeOK, CapInv

LEMMA SettleType ==
    ASSUME owed \in [Items -> Nat], twice \subseteq Items, NEW x \in Items, Settle(x)
    PROVE  owed' \in [Items -> Nat] /\ twice' \subseteq Items
  <1>1. CASE owed[x] = 0
    BY <1>1 DEF Settle
  <1>2. CASE owed[x] # 0
    <2>1. owed[x] - 1 \in Nat
      BY <1>2
    <2>2. owed' = [owed EXCEPT ![x] = owed[x] - 1] /\ twice' = twice
      BY <1>2 DEF Settle
    <2>3. QED
      BY <2>1, <2>2
  <1>3. QED
    BY <1>1, <1>2

LEMMA EnqueueSafe ==
    ASSUME IInv, NEW x \in Items, Enqueue(x)
    PROVE  IInv'
  <1>1. /\ items' \in Seq(Items) /\ Len(items') <= MaxItems /\ Len(items) <= Len(items')
    BY PushFacts DEF Enqueue, IInv, TypeOK, CapInv
  <1>2. file' \in Seq(Items) /\ Len(file') <= MaxItems
    BY <1>1, PersistFacts DEF Enqueue
  <1>3. ASSUME NEW g \in Flushes, Running(g)'
        PROVE  at'[g] \in DOMAIN Source(g)'
    <2>1. Running(g) /\ UNCHANGED <<at, snap, live>>
      BY <1>3 DEF Enqueue, Running
    <2>2. at[g] \in DOMAIN Source(g)
      BY <2>1 DEF IInv, TypeOK
    <2>3. CASE g \in live
      <3>1. at[g] \in DOMAIN items /\ Source(g)' = items'
        BY <2>1, <2>2, <2>3 DEF Source
      <3>2. QED
        BY <1>1, <2>1, <3>1 DEF IInv, TypeOK
    <2>4. CASE g \notin live
      BY <2>1, <2>2, <2>4 DEF Source
    <2>5. QED
      BY <2>3, <2>4
  <1>4. owed' \in [Items -> Nat] /\ twice' \subseteq Items /\ flushable' \in BOOLEAN
    BY DEF Enqueue, IInv, TypeOK
  <1>5. calls' \in 0..MaxCalls /\ hazard' \subseteq {"overlap", "cut", "disk", "replay"}
    BY QueueAssumption DEF Enqueue, IInv, TypeOK
  <1>6. /\ UNCHANGED <<sending, at, live, snap, crashes>>
        /\ live \subseteq {g \in Flushes : Running(g)'}
    BY DEF Enqueue, IInv, TypeOK, Running
  <1>7. QED
    BY <1>1, <1>2, <1>3, <1>4, <1>5, <1>6 DEF IInv, TypeOK, CapInv

LEMMA FlushStartSafe ==
    ASSUME IInv, NEW f \in Flushes, FlushStart(f)
    PROVE  IInv'
  <1>1. items[1] \in Items /\ 1 \in DOMAIN items /\ items[1] # None
    BY QueueAssumption DEF FlushStart, IInv, TypeOK
  <1>2. sending' \in [Flushes -> Items \cup {None}] /\ at' \in [Flushes -> Nat]
    BY <1>1 DEF FlushStart, IInv, TypeOK
  <1>3. live' \subseteq {g \in Flushes : Running(g)'}
    BY <1>1 DEF FlushStart, IInv, TypeOK, Running
  <1>4. ASSUME NEW g \in Flushes, Running(g)'
        PROVE  at'[g] \in DOMAIN Source(g)'
    <2>1. CASE g = f
      BY <1>1, <2>1 DEF FlushStart, Source, IInv, TypeOK
    <2>2. CASE g # f
      <3>1. Running(g) /\ at'[g] = at[g]
        BY <1>4, <2>2 DEF FlushStart, Running, IInv, TypeOK
      <3>2. Source(g)' = Source(g)
        BY <2>2 DEF FlushStart, Source
      <3>3. QED
        BY <3>1, <3>2 DEF IInv, TypeOK
    <2>3. QED
      BY <2>1, <2>2
  <1>5. /\ UNCHANGED <<items, file, snap, flushable, calls, crashes, owed, twice>>
        /\ hazard' \subseteq {"overlap", "cut", "disk", "replay"} /\ live' \subseteq Flushes
    BY DEF FlushStart, IInv, TypeOK
  <1>6. QED
    BY <1>2, <1>3, <1>4, <1>5 DEF IInv, TypeOK, CapInv

LEMMA SendSettledSafe ==
    ASSUME IInv, NEW f \in Flushes, SendSettled(f)
    PROVE  IInv'
  <1> DEFINE next == at[f] + 1
  <1>1. /\ owed' \in [Items -> Nat] /\ twice' \subseteq Items
        /\ UNCHANGED <<flushable, calls, crashes, hazard>>
    BY SettleType DEF SendSettled, Running, IInv, TypeOK
  <1>2. Source(f) \in Seq(Items)
    BY DEF Source, IInv, TypeOK
  <1>3. CASE next <= Len(Source(f))
    <2>1. /\ sending' = [sending EXCEPT ![f] = Source(f)[next]]
          /\ at' = [at EXCEPT ![f] = next]
          /\ UNCHANGED <<items, file, live, snap>>
      BY <1>3 DEF SendSettled
    <2>2. next \in DOMAIN Source(f) /\ Source(f)[next] \in Items
      BY <1>2, <1>3 DEF IInv, TypeOK
    <2>3. sending' \in [Flushes -> Items \cup {None}] /\ at' \in [Flushes -> Nat]
      BY <2>1, <2>2 DEF IInv, TypeOK
    <2>4. live' \subseteq {g \in Flushes : Running(g)'}
      BY <2>1, <2>2, QueueAssumption DEF IInv, TypeOK, Running
    <2>5. ASSUME NEW g \in Flushes, Running(g)'
          PROVE  at'[g] \in DOMAIN Source(g)'
      <3>1. Source(g)' = Source(g)
        BY <2>1 DEF Source
      <3>2. CASE g = f
        BY <2>1, <2>2, <3>1, <3>2 DEF IInv, TypeOK
      <3>3. CASE g # f
        BY <2>1, <2>5, <3>1, <3>3 DEF Running, IInv, TypeOK
      <3>4. QED
        BY <3>2, <3>3
    <2>6. QED
      BY <1>1, <2>1, <2>3, <2>4, <2>5 DEF IInv, TypeOK, CapInv
  <1>4. CASE ~(next <= Len(Source(f)))
    <2>1. Finish(f, <<>>)
      BY <1>4 DEF SendSettled
    <2>2. <<>> \in Seq(Items) /\ Len(<<>>) <= MaxItems
      BY QueueAssumption
    <2>3. QED
      BY <1>1, <2>1, <2>2, FinishSafe
  <1>5. QED
    BY <1>3, <1>4

LEMMA SendOfflineSafe ==
    ASSUME IInv, NEW f \in Flushes, SendOffline(f)
    PROVE  IInv'
  <1> DEFINE survivors == <<sending[f]>> \o SubSeq(Source(f), at[f] + 1, Len(Source(f)))
  <1>1. sending[f] \in Items /\ at[f] \in DOMAIN Source(f)
    BY DEF SendOffline, Running, IInv, TypeOK
  <1>2. Source(f) \in Seq(Items) /\ Len(Source(f)) <= MaxItems
    BY DEF Source, IInv, TypeOK, CapInv
  <1>3. survivors \in Seq(Items) /\ Len(survivors) <= Len(Source(f))
    BY <1>1, <1>2, SurvivorFacts
  <1>4. Finish(f, survivors) /\ UNCHANGED <<flushable, calls, crashes, owed, twice, hazard>>
    BY DEF SendOffline, history
  <1> HIDE DEF survivors
  <1>5. Len(survivors) <= MaxItems
    BY <1>2, <1>3, QueueAssumption
  <1>6. QED
    BY <1>3, <1>4, <1>5, FinishSafe DEF IInv, TypeOK

LEMMA CrashSafe ==
    ASSUME IInv, Crash
    PROVE  IInv'
  <1>1. /\ sending' = [f \in Flushes |-> None] /\ at' = [f \in Flushes |-> 0]
        /\ snap' = [f \in Flushes |-> <<>>] /\ live' = {} /\ items' = file
        /\ UNCHANGED <<file, calls>>
    BY DEF Crash
  <1>2. \A f \in Flushes : ~Running(f)'
    BY <1>1 DEF Running
  <1>3. /\ sending' \in [Flushes -> Items \cup {None}] /\ at' \in [Flushes -> Nat]
        /\ snap' \in [Flushes -> Seq(Items)]
        /\ \A f \in Flushes : Len(snap'[f]) <= MaxItems
    BY <1>1, QueueAssumption
  <1>4. crashes' \in 0..MaxCrashes
    BY QueueAssumption DEF Crash, IInv, TypeOK
  <1>5. owed' \in [Items -> Nat] /\ twice' \subseteq Items /\ flushable' \in BOOLEAN /\ hazard' \subseteq {"overlap", "cut", "disk", "replay"}
    BY DEF Crash, IInv, TypeOK
  <1>6. QED
    BY <1>1, <1>2, <1>3, <1>4, <1>5 DEF IInv, TypeOK, CapInv

-----------------------------------------------------------------------------
(* The ids in line.  Until the cap cuts an array under an iterator, an iterator
   is at the item its flush is sending and no array names an id twice. *)

Uniq(s) == \A j, k \in DOMAIN s : s[j] = s[k] => j = k

UniqueInv ==
    "cut" \notin hazard =>
      /\ Uniq(items) /\ Uniq(file) /\ \A f \in Flushes : Uniq(snap[f])
      /\ \A f \in Flushes : Running(f) => sending[f] = Source(f)[at[f]]

\* Undisturbed, one flush runs at a time, and on the array everybody sees.
LoneInv ==
    Undisturbed =>
      \A f, g \in Flushes : Running(f) => f \in live /\ (Running(g) => f = g)

\* The rest of an array from an index on.
LEMMA RestFacts ==
    ASSUME NEW s \in Seq(Items), NEW m \in DOMAIN s
    PROVE  LET t == SubSeq(s, m, Len(s))
           IN /\ t \in Seq(Items) /\ Len(t) = Len(s) - m + 1
              /\ \A k \in DOMAIN t : k + m - 1 \in DOMAIN s /\ t[k] = s[k + m - 1]
              /\ \A j \in DOMAIN s : j >= m => j - m + 1 \in DOMAIN t /\ t[j - m + 1] = s[j]
  <1> DEFINE t == SubSeq(s, m, Len(s))
  <1>1. m \in 1..Len(s) /\ Len(s) \in Nat /\ \A i \in m..Len(s) : s[i] \in Items
    OBVIOUS
  <1>2. /\ t \in Seq(Items) /\ Len(t) = Len(s) - m + 1
        /\ \A k \in 1..(Len(s) - m + 1) : t[k] = s[m + k - 1]
    BY <1>1, SubSeqProperties
  <1> HIDE DEF t
  <1>3. DOMAIN t = 1..(Len(s) - m + 1)
    BY <1>2
  <1>4. \A k \in DOMAIN t : k + m - 1 \in DOMAIN s /\ t[k] = s[k + m - 1]
    <2>1. \A k \in 1..(Len(s) - m + 1) : k + m - 1 = m + k - 1 /\ k + m - 1 \in 1..Len(s)
      BY <1>1
    <2>2. QED
      BY <1>2, <1>3, <2>1
  <1>5. ASSUME NEW j \in DOMAIN s, j >= m
        PROVE  j - m + 1 \in DOMAIN t /\ t[j - m + 1] = s[j]
    <2>1. j - m + 1 \in 1..(Len(s) - m + 1) /\ m + (j - m + 1) - 1 = j
      BY <1>1, <1>5
    <2>2. QED
      BY <1>2, <1>3, <2>1
  <1>6. QED
    BY <1>2, <1>4, <1>5 DEF t

LEMMA RestUnique ==
    ASSUME NEW s \in Seq(Items), NEW m \in DOMAIN s, Uniq(s)
    PROVE  Uniq(SubSeq(s, m, Len(s)))
  <1> DEFINE t == SubSeq(s, m, Len(s))
  <1>1. /\ t \in Seq(Items)
        /\ \A k \in DOMAIN t : k + m - 1 \in DOMAIN s /\ t[k] = s[k + m - 1]
    BY RestFacts
  <1> HIDE DEF t
  <1>2. ASSUME NEW j \in DOMAIN t, NEW k \in DOMAIN t, t[j] = t[k]
        PROVE  j = k
    <2>1. j + m - 1 = k + m - 1
      BY <1>1, <1>2 DEF Uniq
    <2>2. j \in Nat /\ k \in Nat /\ m \in Nat
      BY <1>1
    <2>3. QED
      BY <2>1, <2>2
  <1>3. QED
    BY <1>2 DEF Uniq, t

\* A push moves the others down by one, if there is no room, and adds the new id.
LEMMA PushShape ==
    ASSUME NEW s \in Seq(Items), NEW x \in Items, Len(s) <= MaxItems
    PROVE  /\ Len(s) < MaxItems =>
                /\ Len(Push(s, x)) = Len(s) + 1
                /\ \A k \in DOMAIN s : Push(s, x)[k] = s[k]
           /\ Len(s) = MaxItems =>
                /\ Len(Push(s, x)) = Len(s)
                /\ \A k \in 1..(Len(s) - 1) : Push(s, x)[k] = s[k + 1]
           /\ Push(s, x)[Len(Push(s, x))] = x
  <1> DEFINE t == Append(s, x)
  <1>1. /\ t \in Seq(Items) /\ Len(t) = Len(s) + 1 /\ t[Len(s) + 1] = x
        /\ \A k \in DOMAIN s : t[k] = s[k]
    OBVIOUS
  <1>2. CASE Len(s) = MaxItems
    <2>1. Push(s, x) = SubSeq(t, 2, Len(t))
      BY <1>1, <1>2, QueueAssumption DEF Push
    <2>2. 2 \in DOMAIN t
      BY <1>1, <1>2, QueueAssumption
    <2> DEFINE u == SubSeq(t, 2, Len(t))
    <2>3. u \in Seq(Items) /\ Len(u) = Len(t) - 2 + 1
          /\ \A k \in DOMAIN u : u[k] = t[k + 2 - 1]
      BY <1>1, <2>2, RestFacts
    <2> HIDE DEF u, t
    <2>4. Len(u) = Len(s) /\ Len(s) \in Nat \ {0}
      BY <1>1, <1>2, <2>3, QueueAssumption
    <2>5. u[Len(s)] = x
      BY <1>1, <2>3, <2>4
    <2>6. ASSUME NEW k \in 1..(Len(s) - 1)
          PROVE  u[k] = s[k + 1]
      <3>1. k \in DOMAIN u /\ k + 2 - 1 = k + 1 /\ k + 1 \in DOMAIN s
        BY <2>3, <2>4
      <3>2. QED
        BY <1>1, <2>3, <3>1
    <2>7. QED
      BY <1>2, <2>1, <2>4, <2>5, <2>6 DEF u
  <1>3. CASE Len(s) < MaxItems
    <2>1. Push(s, x) = t
      BY <1>1, <1>3, QueueAssumption DEF Push
    <2>2. QED
      BY <1>1, <1>3, <2>1, QueueAssumption
  <1>4. QED
    BY <1>2, <1>3, QueueAssumption

\* What a push makes of an array without duplicates that does not name the id.
LEMMA PushUnique ==
    ASSUME NEW s \in Seq(Items), NEW x \in Items, Len(s) <= MaxItems, Uniq(s),
           x \notin Elems(s)
    PROVE  Uniq(Push(s, x))
  <1> DEFINE t == Push(s, x)
  <1>1. t \in Seq(Items) /\ Len(s) \in Nat
    BY PushFacts
  <1>2. PICK d \in {0, 1} :
          /\ Len(t) = Len(s) + 1 - d
          /\ \A k \in 1..(Len(s) - d) : t[k] = s[k + d] /\ k + d \in DOMAIN s
          /\ t[Len(t)] = x
    <2>1. CASE Len(s) < MaxItems
      <3>1. \A k \in 1..(Len(s) - 0) : t[k] = s[k + 0] /\ k + 0 \in DOMAIN s
        BY <2>1, PushShape
      <3>2. Len(t) = Len(s) + 1 - 0 /\ t[Len(t)] = x
        BY <2>1, PushShape
      <3>3. QED
        BY <3>1, <3>2
    <2>2. CASE Len(s) = MaxItems
      <3>1. \A k \in 1..(Len(s) - 1) : t[k] = s[k + 1] /\ k + 1 \in DOMAIN s
        BY <2>2, PushShape
      <3>2. Len(t) = Len(s) + 1 - 1 /\ t[Len(t)] = x
        BY <2>2, PushShape
      <3>3. QED
        BY <3>1, <3>2
    <2>3. QED
      BY <2>1, <2>2, QueueAssumption
  <1> HIDE DEF t
  <1>3. \A k \in DOMAIN t : k \in 1..(Len(s) - d) \/ k = Len(t)
    BY <1>1, <1>2
  <1>4. \A k \in 1..(Len(s) - d) : t[k] # x
    BY <1>2 DEF Elems
  <1>5. ASSUME NEW j \in DOMAIN t, NEW k \in DOMAIN t, t[j] = t[k]
        PROVE  j = k
    <2>1. CASE j \in 1..(Len(s) - d) /\ k \in 1..(Len(s) - d)
      <3>1. j + d = k + d
        BY <1>2, <1>5, <2>1 DEF Uniq
      <3>2. QED
        BY <2>1, <3>1
    <2>2. CASE j = Len(t) \/ k = Len(t)
      BY <1>2, <1>3, <1>4, <1>5, <2>2
    <2>3. QED
      BY <1>3, <2>1, <2>2
  <1>6. QED
    BY <1>5 DEF Uniq, t

\* Without a cut the survivors are the rest of the array, the item included.
LEMMA SurvivorsAreRest ==
    ASSUME IInv, NEW f \in Flushes, Running(f), sending[f] = Source(f)[at[f]]
    PROVE  <<sending[f]>> \o SubSeq(Source(f), at[f] + 1, Len(Source(f)))
             = SubSeq(Source(f), at[f], Len(Source(f)))
  <1>1. Source(f) \in Seq(Items) /\ at[f] \in DOMAIN Source(f)
    BY DEF IInv, TypeOK, Source
  <1>2. at[f] \in 1..Len(Source(f)) /\ Len(Source(f)) \in at[f]..Len(Source(f))
    BY <1>1
  <1>3. QED
    BY <1>1, <1>2, SubSeqRecursiveFirst

-----------------------------------------------------------------------------
(* Steps keep the ids unique, and a lone flush alone. *)

LEMMA EnqueueUnique ==
    ASSUME IInv, UniqueInv, NEW x \in Items, Enqueue(x)
    PROVE  UniqueInv'
  <1> SUFFICES ASSUME "cut" \notin hazard'
               PROVE  /\ Uniq(items') /\ Uniq(file') /\ \A f \in Flushes : Uniq(snap'[f])
                      /\ \A f \in Flushes : Running(f)' => sending'[f] = (Source(f)')[at'[f]]
    BY DEF UniqueInv
  <1>1. /\ x \notin Elems(items) /\ items' = Push(items, x) /\ Persist(items')
        /\ UNCHANGED <<sending, at, live, snap>>
        /\ "cut" \notin hazard /\ (Len(items) < MaxItems \/ live = {})
        /\ items \in Seq(Items) /\ Len(items) <= MaxItems
    BY QueueAssumption DEF Enqueue, IInv, TypeOK, CapInv
  <1>2. Uniq(items')
    BY <1>1, PushUnique DEF UniqueInv
  <1>3. Uniq(file')
    BY <1>1, <1>2 DEF Persist, UniqueInv
  <1>4. ASSUME NEW f \in Flushes, Running(f)'
        PROVE  sending'[f] = (Source(f)')[at'[f]]
    <2>1. /\ Running(f) /\ sending'[f] = Source(f)[at[f]] /\ at'[f] = at[f]
          /\ at[f] \in DOMAIN Source(f)
      BY <1>1, <1>4 DEF Running, UniqueInv, IInv, TypeOK
    <2>2. CASE f \in live
      <3>1. Source(f) = items /\ Source(f)' = items' /\ Len(items) < MaxItems
        BY <1>1, <2>2 DEF Source
      <3>2. items'[at[f]] = items[at[f]]
        BY <1>1, <2>1, <3>1, PushShape
      <3>3. QED
        BY <2>1, <3>1, <3>2
    <2>3. CASE f \notin live
      BY <1>1, <2>1, <2>3 DEF Source
    <2>4. QED
      BY <2>2, <2>3
  <1>5. QED
    BY <1>1, <1>2, <1>3, <1>4 DEF UniqueInv

LEMMA FinishUnique ==
    ASSUME IInv, UniqueInv, NEW f \in Flushes, NEW s \in Seq(Items),
           "cut" \notin hazard => Uniq(s), Finish(f, s), hazard' = hazard
    PROVE  UniqueInv'
  <1> SUFFICES ASSUME "cut" \notin hazard'
               PROVE  UniqueInv'
    BY DEF UniqueInv
  <1>1. Uniq(items') /\ Uniq(file')
    BY DEF Finish, Persist, UniqueInv
  <1>2. ASSUME NEW g \in Flushes
        PROVE  Uniq(snap'[g])
    <2>1. snap'[g] \in {<<>>, items, snap[g]}
      BY DEF Finish
    <2>2. Uniq(<<>>)
      BY DEF Uniq
    <2>3. QED
      BY <2>1, <2>2 DEF UniqueInv
  <1>3. ASSUME NEW g \in Flushes, Running(g)'
        PROVE  sending'[g] = (Source(g)')[at'[g]]
    <2>1. g # f /\ Running(g) /\ at'[g] = at[g] /\ sending'[g] = sending[g]
      BY <1>3 DEF Finish, Running, IInv, TypeOK
    <2>2. Source(g)' = Source(g)
      BY <2>1 DEF Finish, Source
    <2>3. QED
      BY <2>1, <2>2 DEF UniqueInv
  <1>4. QED
    BY <1>1, <1>2, <1>3 DEF UniqueInv

LEMMA FlushStartUnique ==
    ASSUME IInv, UniqueInv, NEW f \in Flushes, FlushStart(f)
    PROVE  UniqueInv'
  <1>1. /\ sending' = [sending EXCEPT ![f] = items[1]] /\ at' = [at EXCEPT ![f] = 1]
        /\ live' = live \cup {f} /\ hazard \subseteq hazard' /\ UNCHANGED <<items, file, snap>>
    BY DEF FlushStart
  <1>2. ASSUME NEW g \in Flushes, Running(g)', UniqueInv, "cut" \notin hazard
        PROVE  sending'[g] = (Source(g)')[at'[g]]
    <2>1. CASE g = f
      BY <1>1, <2>1 DEF Source, IInv, TypeOK
    <2>2. CASE g # f
      <3>1. Running(g) /\ at'[g] = at[g] /\ sending'[g] = sending[g] /\ Source(g)' = Source(g)
        BY <1>1, <1>2, <2>2 DEF Running, Source, IInv, TypeOK
      <3>2. QED
        BY <1>2, <3>1 DEF UniqueInv
    <2>3. QED
      BY <2>1, <2>2
  <1>3. QED
    BY <1>1, <1>2 DEF UniqueInv

\* The iterator moves on over the array it is in.
LEMMA MoveOnUnique ==
    ASSUME IInv, UniqueInv, NEW f \in Flushes, Running(f),
           at[f] + 1 <= Len(Source(f)),
           sending' = [sending EXCEPT ![f] = Source(f)[at[f] + 1]],
           at' = [at EXCEPT ![f] = at[f] + 1],
           UNCHANGED <<items, file, live, snap, hazard>>
    PROVE  UniqueInv'
  <1>1. \A g \in Flushes : Source(g)' = Source(g)
    BY DEF Source
  <1>2. ASSUME NEW g \in Flushes, Running(g)', "cut" \notin hazard
        PROVE  sending'[g] = (Source(g)')[at'[g]]
    <2>1. CASE g = f
      BY <1>1, <2>1 DEF IInv, TypeOK
    <2>2. CASE g # f
      BY <1>1, <1>2, <2>2 DEF Running, UniqueInv, IInv, TypeOK
    <2>3. QED
      BY <2>1, <2>2
  <1>3. QED
    BY <1>2 DEF UniqueInv

LEMMA SendUnique ==
    ASSUME IInv, UniqueInv, NEW f \in Flushes, SendSettled(f) \/ SendOffline(f)
    PROVE  UniqueInv'
  <1>1. Running(f) /\ hazard' = hazard
    BY DEF SendSettled, SendOffline, history
  <1>2. Source(f) \in Seq(Items) /\ at[f] \in DOMAIN Source(f)
        /\ ("cut" \notin hazard => Uniq(Source(f)) /\ sending[f] = Source(f)[at[f]])
    BY <1>1 DEF Source, IInv, TypeOK, UniqueInv
  <1>3. CASE SendOffline(f)
    <2> DEFINE s == <<sending[f]>> \o SubSeq(Source(f), at[f] + 1, Len(Source(f)))
    <2>1. Finish(f, s) /\ sending[f] \in Items
      BY <1>1, <1>3 DEF SendOffline, IInv, TypeOK, Running
    <2>2. s \in Seq(Items)
      BY <1>2, <2>1, SurvivorFacts
    <2>3. "cut" \notin hazard => Uniq(s)
      <3> SUFFICES ASSUME "cut" \notin hazard
                   PROVE  Uniq(s)
        OBVIOUS
      <3>1. s = SubSeq(Source(f), at[f], Len(Source(f)))
        BY <1>1, <1>2, SurvivorsAreRest
      <3>2. Uniq(SubSeq(Source(f), at[f], Len(Source(f))))
        BY <1>2, RestUnique
      <3>3. QED
        BY <3>1, <3>2
    <2> HIDE DEF s
    <2>4. QED
      BY <1>1, <2>1, <2>2, <2>3, FinishUnique
  <1>4. CASE SendSettled(f) /\ at[f] + 1 <= Len(Source(f))
    BY <1>1, <1>4, MoveOnUnique DEF SendSettled
  <1>5. CASE SendSettled(f) /\ ~(at[f] + 1 <= Len(Source(f)))
    <2>1. Finish(f, <<>>) /\ <<>> \in Seq(Items) /\ Uniq(<<>>)
      BY <1>5 DEF SendSettled, Uniq
    <2>2. QED
      BY <1>1, <2>1, FinishUnique
  <1>6. QED
    BY <1>3, <1>4, <1>5

LEMMA CrashUnique ==
    ASSUME UniqueInv, Crash
    PROVE  UniqueInv'
  <1>1. /\ items' = file /\ file' = file /\ \A f \in Flushes : snap'[f] = <<>> /\ ~Running(f)'
        /\ hazard \subseteq hazard'
    BY DEF Crash, Running
  <1>2. Uniq(<<>>)
    BY DEF Uniq
  <1>3. QED
    BY <1>1, <1>2 DEF UniqueInv

LEMMA FinishLone ==
    ASSUME IInv, LoneInv, NEW f \in Flushes, NEW s, Finish(f, s), Running(f), hazard' = hazard
    PROVE  LoneInv'
  <1>1. Undisturbed => \A g \in Flushes : ~Running(g)'
    BY DEF Finish, Running, IInv, TypeOK, LoneInv
  <1>2. QED
    BY <1>1 DEF LoneInv, Undisturbed

LEMMA StepLone ==
    ASSUME IInv, LoneInv, Next
    PROVE  LoneInv'
  <1>1. ASSUME NEW x \in Items, EnqueueDuplicate(x) \/ Enqueue(x)
        PROVE  LoneInv'
    BY <1>1 DEF EnqueueDuplicate, Enqueue, queueVars, history, LoneInv, Undisturbed, Running
  <1>2. ASSUME NEW f \in Flushes, FlushStart(f)
        PROVE  LoneInv'
    BY <1>2 DEF FlushStart, LoneInv, Undisturbed, Running, IInv, TypeOK
  <1>3. ASSUME NEW f \in Flushes, SendSettled(f)
        PROVE  LoneInv'
    <2>1. CASE Finish(f, <<>>)
      BY <1>3, <2>1, FinishLone DEF SendSettled
    <2>2. CASE /\ sending' = [sending EXCEPT ![f] = Source(f)[at[f] + 1]]
               /\ UNCHANGED <<items, file, live, snap>>
      BY <1>3, <2>2 DEF SendSettled, LoneInv, Undisturbed, Running, IInv, TypeOK
    <2>3. QED
      BY <1>3, <2>1, <2>2 DEF SendSettled
  <1>4. ASSUME NEW f \in Flushes, SendOffline(f)
        PROVE  LoneInv'
    BY <1>4, FinishLone DEF SendOffline, history
  <1>5. CASE Crash
    BY <1>5 DEF Crash, LoneInv, Running
  <1>6. CASE ConditionsChange
    BY <1>6 DEF ConditionsChange, queueVars, history, LoneInv, Undisturbed, Running
  <1>7. QED
    BY <1>1, <1>2, <1>3, <1>4, <1>5, <1>6 DEF Next

-----------------------------------------------------------------------------
(* What is owed is in line.  Both invariants above are needed: a settled item
   leaves the line because it is there once, and nobody else works on it. *)

LEMMA UnsettledFacts ==
    /\ live = {} => Unsettled = Elems(items)
    /\ \A f \in Flushes : live = {f} => Unsettled = {items[k] : k \in {j \in DOMAIN items : at[f] <= j}}
  BY DEF Unsettled, Elems

\* The elements of a rest of the array.
LEMMA RestElems ==
    ASSUME NEW s \in Seq(Items), NEW m \in DOMAIN s
    PROVE  Elems(SubSeq(s, m, Len(s))) = {s[k] : k \in {j \in DOMAIN s : m <= j}}
  <1> DEFINE t == SubSeq(s, m, Len(s))
  <1>1. /\ t \in Seq(Items)
        /\ \A k \in DOMAIN t : k + m - 1 \in DOMAIN s /\ t[k] = s[k + m - 1]
        /\ \A j \in DOMAIN s : j >= m => j - m + 1 \in DOMAIN t /\ t[j - m + 1] = s[j]
    BY RestFacts
  <1> HIDE DEF t
  <1>2. ASSUME NEW k \in DOMAIN t
        PROVE  t[k] \in {s[i] : i \in {j \in DOMAIN s : m <= j}}
    <2>1. k + m - 1 \in DOMAIN s /\ m <= k + m - 1 /\ t[k] = s[k + m - 1]
      BY <1>1
    <2>2. QED
      BY <2>1
  <1>3. ASSUME NEW j \in DOMAIN s, m <= j
        PROVE  s[j] \in Elems(t)
    <2>1. j >= m
      BY <1>3
    <2>2. QED
      BY <1>1, <2>1 DEF Elems
  <1>4. QED
    BY <1>2, <1>3 DEF Elems, t

\* A push adds its id to what is unsettled, and takes away what the cap drops.
LEMMA EnqueueUnsettled ==
    ASSUME IInv, NEW x \in Items, Enqueue(x), "cut" \notin hazard'
    PROVE  /\ x \notin Unsettled /\ x \in Unsettled' /\ Unsettled' \subseteq Items
           /\ \A y \in Items \ {x} : y \in Unsettled' <=> y \in Unsettled /\ y \in Elems(items')
  <1>1. /\ x \notin Elems(items) /\ items' = Push(items, x)
        /\ UNCHANGED <<at, live>> /\ (Len(items) < MaxItems \/ live = {})
        /\ items \in Seq(Items) /\ Len(items) <= MaxItems
    BY QueueAssumption DEF Enqueue, IInv, TypeOK, CapInv
  <1>2. Unsettled \subseteq Elems(items) /\ x \notin Unsettled
    BY <1>1 DEF Unsettled, Elems
  <1>3. items' \in Seq(Items) /\ Unsettled' \subseteq Items
    BY <1>1, PushFacts DEF Unsettled
  <1>4. CASE Len(items) < MaxItems
    <2>1. /\ Len(items') = Len(items) + 1 /\ items'[Len(items) + 1] = x
          /\ \A k \in DOMAIN items : items'[k] = items[k]
      BY <1>1, <1>4, PushShape
    <2>2. DOMAIN items' = DOMAIN items \cup {Len(items) + 1}
      BY <1>1, <1>3, <2>1
    <2>3. \A f \in live : at[f] <= Len(items) + 1
      BY DEF IInv, TypeOK, Source
    <2>4. Unsettled' = Unsettled \cup {x}
      BY <1>1, <2>1, <2>2, <2>3 DEF Unsettled
    <2>5. Elems(items) \subseteq Elems(items')
      BY <2>1, <2>2 DEF Elems
    <2>6. QED
      BY <1>2, <1>3, <2>4, <2>5
  <1>5. CASE Len(items) = MaxItems
    <2>1. live = {}
      BY <1>1, <1>5
    <2>2. Unsettled = Elems(items) /\ Unsettled' = Elems(items')
      BY <1>1, <2>1 DEF Unsettled, Elems
    <2>3. /\ Len(items') = Len(items) /\ items'[Len(items)] = x
          /\ \A k \in 1..(Len(items) - 1) : items'[k] = items[k + 1]
      BY <1>1, <1>5, PushShape
    <2>4. Len(items) \in Nat \ {0} /\ DOMAIN items = 1..Len(items)
          /\ DOMAIN items' = 1..Len(items)
      BY <1>1, <1>3, <1>5, <2>3, QueueAssumption
    <2>5. x \in Elems(items')
      BY <2>3, <2>4 DEF Elems
    <2>6. ASSUME NEW k \in DOMAIN items'
          PROVE  items'[k] = x \/ items'[k] \in Elems(items)
      <3>1. CASE k = Len(items)
        BY <2>3, <3>1
      <3>2. CASE k \in 1..(Len(items) - 1)
        <4>1. k + 1 \in DOMAIN items /\ items'[k] = items[k + 1]
          BY <2>3, <2>4, <3>2
        <4>2. QED
          BY <4>1 DEF Elems
      <3>3. QED
        BY <2>4, <3>1, <3>2
    <2>7. \A y \in Items \ {x} : y \in Elems(items') => y \in Elems(items)
      BY <2>6 DEF Elems
    <2>8. QED
      BY <1>2, <1>3, <2>2, <2>5, <2>7
  <1>6. QED
    BY <1>1, <1>4, <1>5, QueueAssumption

LEMMA EnqueueOwed ==
    ASSUME IInv, Conservation, NEW x \in Items, Enqueue(x)
    PROVE  Conservation'
  <1>1. /\ Undisturbed' => Undisturbed /\ "cut" \notin hazard'
        /\ hazard' = {} => hazard = {} /\ Undisturbed'
        /\ twice' = twice
        /\ \A y \in Items : owed'[y] = IF y = x THEN owed[y] + 1
                                        ELSE IF y \in Elems(items) \ Elems(items') THEN 0
                                        ELSE owed[y]
    BY DEF Enqueue, Undisturbed
  <1>2. Unsettled \subseteq Elems(items)
    BY DEF Unsettled, Elems
  <1>3. ASSUME Undisturbed'
        PROVE  /\ x \notin Unsettled /\ x \in Unsettled' /\ Unsettled' \subseteq Items
               /\ owed'[x] = 1
               /\ \A y \in Items \ {x} : y \in Unsettled' <=> y \in Unsettled /\ y \in Elems(items')
    <2>1. /\ x \notin Unsettled /\ x \in Unsettled' /\ Unsettled' \subseteq Items
          /\ \A y \in Items \ {x} : y \in Unsettled' <=> y \in Unsettled /\ y \in Elems(items')
      BY <1>1, <1>3, EnqueueUnsettled
    <2>2. owed[x] = 0
      BY <1>1, <1>3, <2>1 DEF Conservation, IInv, TypeOK
    <2>3. QED
      BY <1>1, <2>1, <2>2
  <1>4. ASSUME Undisturbed', NEW y \in Items, owed'[y] > 0
        PROVE  owed'[y] = 1 /\ y \in Unsettled'
    <2>1. CASE y = x
      BY <1>3, <1>4, <2>1
    <2>2. CASE y # x
      <3>1. owed'[y] = owed[y] /\ ~(y \in Elems(items) \ Elems(items'))
        BY <1>1, <1>4, <2>2
      <3>2. owed[y] = 1 /\ y \in Unsettled
        BY <1>1, <1>4, <3>1 DEF Conservation
      <3>3. QED
        BY <1>2, <1>3, <1>4, <2>2, <3>1, <3>2
    <2>3. QED
      BY <2>1, <2>2
  <1>5. ASSUME hazard' = {}
        PROVE  twice' = {} /\ \A y \in Unsettled' : owed'[y] = 1
    <2>1. twice' = {} /\ \A y \in Unsettled : owed[y] = 1
      BY <1>1, <1>5 DEF Conservation
    <2>2. ASSUME NEW y \in Unsettled', y # x
          PROVE  owed'[y] = 1
      <3>1. y \in Items /\ y \in Unsettled /\ y \in Elems(items')
        BY <1>1, <1>3, <1>5, <2>2
      <3>2. QED
        BY <1>1, <2>1, <2>2, <3>1
    <2>3. QED
      BY <1>1, <1>3, <1>5, <2>1, <2>2
  <1>6. QED
    BY <1>4, <1>5 DEF Conservation

\* A lone flush takes the item it settled away from what is unsettled.
LEMMA SettledUnsettled ==
    ASSUME IInv, UniqueInv, LoneInv, NEW f \in Flushes, SendSettled(f), Undisturbed
    PROVE  /\ sending[f] \in Unsettled /\ sending[f] \in Items
           /\ Unsettled' = Unsettled \ {sending[f]}
  <1>1. Running(f)
    BY DEF SendSettled
  <1>2. /\ live = {f} /\ Source(f) = items /\ items \in Seq(Items)
        /\ at[f] \in DOMAIN items /\ sending[f] = items[at[f]] /\ Uniq(items)
        /\ sending[f] \in Items
    BY <1>1 DEF LoneInv, UniqueInv, Undisturbed, IInv, TypeOK, Source, Running
  <1>3. Unsettled = {items[k] : k \in {j \in DOMAIN items : at[f] <= j}}
    BY <1>2, UnsettledFacts
  <1>4. sending[f] \in Unsettled
    BY <1>2, <1>3
  <1>5. CASE at[f] + 1 <= Len(items)
    <2>1. items' = items /\ live' = {f} /\ at'[f] = at[f] + 1
      BY <1>2, <1>5 DEF SendSettled, IInv, TypeOK
    <2>2. Unsettled' = {items[k] : k \in {j \in DOMAIN items : at[f] + 1 <= j}}
      BY <2>1 DEF Unsettled
    <2>3. \A j \in DOMAIN items : at[f] <= j <=> at[f] + 1 <= j \/ j = at[f]
      BY <1>2
    <2>4. \A j \in DOMAIN items : at[f] + 1 <= j => items[j] # items[at[f]]
      BY <1>2 DEF Uniq
    <2>5. QED
      BY <1>2, <1>3, <1>4, <2>2, <2>3, <2>4
  <1>6. CASE ~(at[f] + 1 <= Len(items))
    <2>1. items' = <<>>
      BY <1>2, <1>6 DEF SendSettled, Finish
    <2>2. Unsettled' = {}
      BY <2>1 DEF Unsettled
    <2>3. \A j \in DOMAIN items : at[f] <= j => j = at[f]
      BY <1>2, <1>6
    <2>4. QED
      BY <1>2, <1>3, <1>4, <2>2, <2>3
  <1>7. QED
    BY <1>5, <1>6

LEMMA SettledOwed ==
    ASSUME IInv, UniqueInv, LoneInv, Conservation, NEW f \in Flushes, SendSettled(f)
    PROVE  Conservation'
  <1>1. Settle(sending[f]) /\ hazard' = hazard
    BY DEF SendSettled
  <1>2. ASSUME Undisturbed
        PROVE  /\ sending[f] \in Unsettled /\ sending[f] \in Items
               /\ Unsettled' = Unsettled \ {sending[f]}
               /\ owed'[sending[f]] = 0
               /\ \A y \in Items \ {sending[f]} : owed'[y] = owed[y]
    <2>1. /\ sending[f] \in Unsettled /\ sending[f] \in Items
          /\ Unsettled' = Unsettled \ {sending[f]}
      BY <1>2, SettledUnsettled
    <2>2. owed[sending[f]] \in {0, 1}
      BY <1>2, <2>1 DEF Conservation, IInv, TypeOK
    <2>3. QED
      BY <1>1, <2>1, <2>2 DEF Settle, IInv, TypeOK
  <1>3. ASSUME Undisturbed', NEW y \in Items, owed'[y] > 0
        PROVE  owed'[y] = 1 /\ y \in Unsettled'
    <2>1. Undisturbed
      BY <1>1, <1>3 DEF Undisturbed
    <2>2. QED
      BY <1>2, <1>3, <2>1 DEF Conservation
  <1>4. ASSUME hazard' = {}
        PROVE  twice' = {} /\ \A y \in Unsettled' : owed'[y] = 1
    <2>1. hazard = {} /\ Undisturbed
      BY <1>1, <1>4 DEF Undisturbed
    <2>2. twice = {} /\ \A y \in Unsettled : owed[y] = 1
      BY <2>1 DEF Conservation
    <2>3. twice' = twice
      BY <1>1, <1>2, <2>1, <2>2 DEF Settle
    <2>4. Unsettled \subseteq Items
      BY DEF Unsettled, IInv, TypeOK
    <2>5. QED
      BY <1>2, <2>1, <2>2, <2>3, <2>4
  <1>5. QED
    BY <1>3, <1>4 DEF Conservation

\* With one flush the survivors are the unsettled items, in their order.
LEMMA OfflineKeepsRest ==
    ASSUME IInv, UniqueInv, LoneInv, NEW f \in Flushes, SendOffline(f), Undisturbed
    PROVE  /\ live = {f} /\ live' = {} /\ at[f] \in DOMAIN items /\ items \in Seq(Items)
           /\ items' = SubSeq(items, at[f], Len(items))
  <1>1. /\ live = {f} /\ Source(f) = items /\ items \in Seq(Items) /\ at[f] \in DOMAIN items
        /\ Running(f) /\ sending[f] = Source(f)[at[f]]
    BY DEF SendOffline, LoneInv, UniqueInv, Undisturbed, IInv, TypeOK, Source, Running
  <1>2. /\ items' = <<sending[f]>> \o SubSeq(Source(f), at[f] + 1, Len(Source(f)))
        /\ live' = {}
    BY DEF SendOffline, Finish
  <1>3. QED
    BY <1>1, <1>2, SurvivorsAreRest

LEMMA OfflineOwed ==
    ASSUME IInv, UniqueInv, LoneInv, Conservation, NEW f \in Flushes, SendOffline(f)
    PROVE  Conservation'
  <1> SUFFICES ASSUME Undisturbed
               PROVE  Unsettled' = Unsettled
    BY DEF Conservation, Undisturbed, SendOffline, history
  <1>1. /\ live = {f} /\ live' = {} /\ at[f] \in DOMAIN items /\ items \in Seq(Items)
        /\ items' = SubSeq(items, at[f], Len(items))
    BY OfflineKeepsRest
  <1>2. Unsettled = {items[k] : k \in {j \in DOMAIN items : at[f] <= j}}
    BY <1>1, UnsettledFacts
  <1>3. Unsettled' = Elems(items')
    BY <1>1 DEF Unsettled, Elems
  <1>4. Elems(SubSeq(items, at[f], Len(items)))
          = {items[k] : k \in {j \in DOMAIN items : at[f] <= j}}
    BY <1>1, RestElems
  <1>5. QED
    BY <1>1, <1>2, <1>3, <1>4

\* After a crash the whole file is in line.  It is what was unsettled, if no
\* flush was beyond its first item.
LEMMA CrashOwed ==
    ASSUME IInv, Conservation, Crash
    PROVE  Conservation'
  <1>1. /\ items' = file /\ live' = {} /\ UNCHANGED <<owed, twice>>
        /\ hazard' = hazard \cup (IF file # items THEN {"disk"} ELSE {})
                          \cup (IF \E f \in Flushes : at[f] > 1 THEN {"replay"} ELSE {})
    BY DEF Crash
  <1>2. Unsettled' = Elems(file) /\ Unsettled \subseteq Elems(items)
    BY <1>1 DEF Unsettled, Elems
  <1>3. ASSUME Undisturbed'
        PROVE  Undisturbed /\ file = items
    BY <1>1, <1>3 DEF Undisturbed
  <1>4. ASSUME hazard' = {}
        PROVE  hazard = {} /\ Unsettled' = Unsettled
    <2>1. hazard = {} /\ file = items /\ \A f \in Flushes : ~(at[f] > 1)
      BY <1>1, <1>4
    <2>2. \A f \in live, j \in DOMAIN items : at[f] <= j
      BY <2>1 DEF IInv, TypeOK
    <2>3. QED
      BY <1>2, <2>1, <2>2 DEF Unsettled, Elems
  <1>5. QED
    BY <1>1, <1>2, <1>3, <1>4 DEF Conservation

LEMMA StepOwed ==
    ASSUME IInv, UniqueInv, LoneInv, Conservation, Next
    PROVE  Conservation'
  <1>1. ASSUME NEW x \in Items, EnqueueDuplicate(x)
        PROVE  Conservation'
    BY <1>1 DEF EnqueueDuplicate, queueVars, history, Conservation, Undisturbed, Unsettled
  <1>2. ASSUME NEW f \in Flushes, FlushStart(f)
        PROVE  Conservation'
    <2> SUFFICES ASSUME Undisturbed'
                 PROVE  Unsettled' = Unsettled /\ hazard' = hazard
      BY <1>2 DEF FlushStart, Conservation, Undisturbed
    <2>1. hazard' = hazard /\ \A g \in Flushes : ~Running(g)
      BY <1>2 DEF FlushStart, Undisturbed
    <2>2. live = {}
      BY <2>1 DEF IInv, TypeOK
    <2>3. live' = {f} /\ at'[f] = 1 /\ items' = items
      BY <1>2, <2>2 DEF FlushStart, IInv, TypeOK
    <2>4. \A j \in DOMAIN items : 1 <= j
      BY DEF IInv, TypeOK
    <2>5. QED
      BY <2>1, <2>2, <2>3, <2>4 DEF Unsettled
  <1>3. CASE ConditionsChange
    BY <1>3 DEF ConditionsChange, queueVars, history, Conservation, Undisturbed, Unsettled
  <1>4. QED
    BY <1>1, <1>2, <1>3, EnqueueOwed, SettledOwed, OfflineOwed, CrashOwed DEF Next

-----------------------------------------------------------------------------
(* Order *)

\* Dropping the first d elements, and adding others behind, keeps the order of
\* what stays.
LEMMA ShiftKeepsOrder ==
    ASSUME NEW s \in Seq(Items), NEW t \in Seq(Items), NEW d \in Nat, Uniq(s),
           \A k \in DOMAIN s : k > d => k - d \in DOMAIN t /\ t[k - d] = s[k],
           \A k \in DOMAIN t : t[k] \in Elems(s) => k + d \in DOMAIN s /\ t[k] = s[k + d],
           NEW x \in Elems(t), NEW y \in Elems(t), Before(s, x, y)
    PROVE  Before(t, x, y)
  <1>1. PICK j \in DOMAIN s, k \in DOMAIN s : j < k /\ s[j] = x /\ s[k] = y
    BY DEF Before
  <1>2. PICK i \in DOMAIN t : t[i] = x
    BY DEF Elems
  <1>3. i + d = j
    <2>1. t[i] \in Elems(s)
      BY <1>1, <1>2 DEF Elems
    <2>2. i + d \in DOMAIN s /\ s[i + d] = s[j]
      BY <1>1, <1>2, <2>1
    <2>3. QED
      BY <2>2 DEF Uniq
  <1>4. i \in Nat \ {0} /\ j \in Nat /\ k \in Nat
    BY <1>1, <1>2
  <1>5. /\ j > d /\ k > d /\ j - d < k - d
    BY <1>1, <1>3, <1>4
  <1>6. /\ j - d \in DOMAIN t /\ t[j - d] = x
        /\ k - d \in DOMAIN t /\ t[k - d] = y
    BY <1>1, <1>5
  <1>7. QED
    BY <1>5, <1>6 DEF Before

KeepsOrder ==
    \A x, y \in Elems(items) \cap Elems(items') : Before(items, x, y) => Before(items', x, y)

LEMMA EnqueueKeepsOrder ==
    ASSUME IInv, UniqueInv, NEW x \in Items, Enqueue(x), Undisturbed'
    PROVE  KeepsOrder
  <1>1. /\ x \notin Elems(items) /\ items' = Push(items, x) /\ Uniq(items)
        /\ items \in Seq(Items) /\ Len(items) <= MaxItems
    BY DEF Enqueue, Undisturbed, IInv, TypeOK, CapInv, UniqueInv
  <1>2. items' \in Seq(Items)
    BY <1>1, PushFacts
  <1>3. PICK d \in {0, 1} :
          /\ \A k \in DOMAIN items : k > d => k - d \in DOMAIN items' /\ items'[k - d] = items[k]
          /\ \A k \in DOMAIN items' :
               items'[k] \in Elems(items) => k + d \in DOMAIN items /\ items'[k] = items[k + d]
    <2>1. CASE Len(items) < MaxItems
      <3>1. /\ Len(items') = Len(items) + 1 /\ items'[Len(items) + 1] = x
            /\ \A k \in DOMAIN items : items'[k] = items[k]
        BY <1>1, <2>1, PushShape
      <3>2. DOMAIN items' = DOMAIN items \cup {Len(items) + 1}
        BY <1>1, <1>2, <3>1
      <3>3. \A k \in DOMAIN items : k - 0 = k /\ k + 0 = k
        BY <1>1
      <3>4. WITNESS 0 \in {0, 1}
      <3>5. QED
        BY <1>1, <3>1, <3>2, <3>3
    <2>2. CASE Len(items) = MaxItems
      <3>1. /\ Len(items') = Len(items) /\ items'[Len(items)] = x
            /\ \A k \in 1..(Len(items) - 1) : items'[k] = items[k + 1]
        BY <1>1, <2>2, PushShape
      <3>2. Len(items) \in Nat \ {0} /\ DOMAIN items = 1..Len(items)
            /\ DOMAIN items' = 1..Len(items)
        BY <1>1, <1>2, <2>2, <3>1, QueueAssumption
      <3>3. ASSUME NEW k \in DOMAIN items, k > 1
            PROVE  k - 1 \in DOMAIN items' /\ items'[k - 1] = items[k]
        <4>1. k - 1 \in 1..(Len(items) - 1) /\ (k - 1) + 1 = k
          BY <3>2, <3>3
        <4>2. QED
          BY <3>1, <3>2, <4>1
      <3>4. ASSUME NEW k \in DOMAIN items', items'[k] \in Elems(items)
            PROVE  k + 1 \in DOMAIN items /\ items'[k] = items[k + 1]
        <4>1. k # Len(items)
          BY <1>1, <3>1, <3>4
        <4>2. k \in 1..(Len(items) - 1)
          BY <3>2, <4>1
        <4>3. QED
          BY <3>1, <3>2, <4>2
      <3>5. WITNESS 1 \in {0, 1}
      <3>6. QED
        BY <3>3, <3>4
    <2>3. QED
      BY <1>1, <2>1, <2>2, QueueAssumption
  <1>4. d \in Nat
    OBVIOUS
  <1>5. QED
    BY <1>1, <1>2, <1>3, <1>4, ShiftKeepsOrder DEF KeepsOrder

LEMMA OfflineKeepsOrder ==
    ASSUME IInv, UniqueInv, LoneInv, NEW f \in Flushes, SendOffline(f), Undisturbed
    PROVE  KeepsOrder
  <1>1. /\ at[f] \in DOMAIN items /\ items \in Seq(Items) /\ Uniq(items)
        /\ items' = SubSeq(items, at[f], Len(items))
    BY OfflineKeepsRest DEF UniqueInv, Undisturbed
  <1> DEFINE d == at[f] - 1
  <1>2. d \in Nat
    BY <1>1
  <1>3. /\ items' \in Seq(Items)
        /\ \A k \in DOMAIN items' : k + at[f] - 1 \in DOMAIN items
                                    /\ items'[k] = items[k + at[f] - 1]
        /\ \A j \in DOMAIN items : j >= at[f] => j - at[f] + 1 \in DOMAIN items'
                                                 /\ items'[j - at[f] + 1] = items[j]
    BY <1>1, RestFacts
  <1>4. at[f] \in Nat
    BY <1>1
  <1>5. \A k \in DOMAIN items' : k + d \in DOMAIN items /\ items'[k] = items[k + d]
    <2> SUFFICES ASSUME NEW k \in DOMAIN items'
                 PROVE  k + d \in DOMAIN items /\ items'[k] = items[k + d]
      OBVIOUS
    <2>1. k + d = k + at[f] - 1
      BY <1>3, <1>4
    <2>2. QED
      BY <1>3, <2>1
  <1>6. \A j \in DOMAIN items : j > d => j - d \in DOMAIN items' /\ items'[j - d] = items[j]
    <2> SUFFICES ASSUME NEW j \in DOMAIN items, j > d
                 PROVE  j - d \in DOMAIN items' /\ items'[j - d] = items[j]
      OBVIOUS
    <2>1. j - d = j - at[f] + 1 /\ j >= at[f]
      BY <1>1, <1>4
    <2>2. QED
      BY <1>3, <2>1
  <1> HIDE DEF d
  <1>7. QED
    BY <1>1, <1>2, <1>3, <1>5, <1>6, ShiftKeepsOrder DEF KeepsOrder

LEMMA StepKeepsOrder ==
    ASSUME IInv, UniqueInv, LoneInv, Next, Undisturbed'
    PROVE  KeepsOrder
  <1>1. CASE UNCHANGED items
    BY <1>1 DEF KeepsOrder
  <1>2. CASE items' = <<>>
    BY <1>2 DEF KeepsOrder, Elems
  <1>3. ASSUME NEW f \in Flushes, SendSettled(f)
        PROVE  KeepsOrder
    BY <1>1, <1>2, <1>3 DEF SendSettled, Finish
  <1>4. ASSUME NEW f \in Flushes, SendOffline(f)
        PROVE  KeepsOrder
    BY <1>4, OfflineKeepsOrder DEF SendOffline, history, Undisturbed
  <1>5. CASE Crash
    BY <1>1, <1>5 DEF Crash, Undisturbed
  <1>6. QED
    BY <1>1, <1>3, <1>4, <1>5, EnqueueKeepsOrder
       DEF Next, EnqueueDuplicate, FlushStart, ConditionsChange, queueVars

-----------------------------------------------------------------------------
(* The theorems *)

LEMMA Invariance == Spec => []IInv
  <1>1. ASSUME Init
        PROVE  IInv
    <2>1. \A f \in Flushes : ~Running(f)
      BY <1>1 DEF Init, Running
    <2>2. /\ live = {} /\ twice = {} /\ hazard = {}
          /\ flushable \in BOOLEAN /\ owed \in [Items -> Nat]
      BY <1>1 DEF Init
    <2>3. /\ <<>> \in Seq(Items) /\ Len(<<>>) = 0
          /\ 0 \in 0..MaxCalls /\ 0 \in 0..MaxCrashes /\ 0 <= MaxItems
      BY QueueAssumption
    <2>4. /\ items \in Seq(Items) /\ file \in Seq(Items) /\ snap \in [Flushes -> Seq(Items)]
          /\ sending \in [Flushes -> Items \cup {None}] /\ at \in [Flushes -> Nat]
          /\ calls \in 0..MaxCalls /\ crashes \in 0..MaxCrashes /\ CapInv
      BY <1>1, <2>3 DEF Init, CapInv
    <2>5. QED
      BY <2>1, <2>2, <2>4 DEF IInv, TypeOK
  <1>2. IInv /\ [Next]_vars => IInv'
    <2> SUFFICES ASSUME IInv, [Next]_vars
                 PROVE  IInv'
      OBVIOUS
    <2>1. ASSUME NEW x \in Items, EnqueueDuplicate(x)
          PROVE  IInv'
      <3>1. calls' \in 0..MaxCalls
        BY <2>1, QueueAssumption DEF EnqueueDuplicate, IInv, TypeOK
      <3>2. QED
        BY <2>1, <3>1 DEF EnqueueDuplicate, queueVars, history, IInv, TypeOK, CapInv, Running, Source
    <2>2. CASE UNCHANGED vars
      BY <2>2 DEF vars, queueVars, history, IInv, TypeOK, CapInv, Running, Source
    <2>3. CASE ConditionsChange
      BY <2>3 DEF ConditionsChange, queueVars, history, IInv, TypeOK, CapInv, Running, Source
    <2>4. QED
      BY <2>1, <2>2, <2>3, EnqueueSafe, FlushStartSafe, SendSettledSafe, SendOfflineSafe, CrashSafe
         DEF Next
  <1>3. QED
    BY <1>1, <1>2, PTL DEF Spec

\* Every variable has its type, and no iterator leaves its array, whatever
\* enqueue, the cap and other flushes do to it (offlineQueue.js:42,60,88).
THEOREM TypeCorrect == Spec => []TypeOK
  <1>1. IInv => TypeOK
    BY DEF IInv
  <1>2. QED
    BY <1>1, Invariance, PTL

\* The cap bounds the backlog in memory and on disk (offlineQueue.js:42),
\* although a flush puts survivors back and a restart reads the file.
THEOREM CapSafe == Spec => []CapHolds
  <1>1. IInv => CapHolds
    BY DEF IInv, CapInv, CapHolds
  <1>2. QED
    BY <1>1, Invariance, PTL

LEMMA LineInvariance == Spec => [](IInv /\ UniqueInv /\ LoneInv /\ Conservation)
  <1>1. Init => UniqueInv /\ LoneInv /\ Conservation
    BY DEF Init, UniqueInv, LoneInv, Conservation, Uniq, Running, Unsettled
  <1>2. IInv /\ UniqueInv /\ LoneInv /\ Conservation /\ [Next]_vars
          => UniqueInv' /\ LoneInv' /\ Conservation'
    <2> SUFFICES ASSUME IInv, UniqueInv, LoneInv, Conservation, [Next]_vars
                 PROVE  UniqueInv' /\ LoneInv' /\ Conservation'
      OBVIOUS
    <2>1. ASSUME NEW x \in Items, EnqueueDuplicate(x)
          PROVE  UniqueInv'
      BY <2>1 DEF EnqueueDuplicate, queueVars, history, UniqueInv, Running, Source
    <2>2. CASE Next
      <3>1. ASSUME ConditionsChange
            PROVE  UniqueInv'
        BY <3>1 DEF ConditionsChange, queueVars, history, UniqueInv, Running, Source
      <3>2. QED
        BY <2>1, <2>2, <3>1, EnqueueUnique, FlushStartUnique, SendUnique, CrashUnique,
           StepLone, StepOwed DEF Next
    <2>3. CASE UNCHANGED vars
      BY <2>3 DEF vars, queueVars, history, UniqueInv, LoneInv, Conservation, Undisturbed,
                Unsettled, Running, Source
    <2>4. QED
      BY <2>2, <2>3
  <1>3. QED
    BY <1>1, <1>2, Invariance, PTL DEF Spec

\* No id is twice in line, for any number of overlapping flushes that replace
\* the array, until the cap cuts it under an iterator (offlineQueue.js:40).
THEOREM IdsUnique == Spec => []NoDuplicateIds
  <1>1. UniqueInv => NoDuplicateIds
    BY DEF UniqueInv, NoDuplicateIds, Uniq
  <1>2. QED
    BY <1>1, LineInvariance, PTL

\* Undisturbed, what was accepted and is not settled is in line, wherever the
\* service crashes; and nothing is settled twice, until a crash meets a flush
\* beyond its first item (offlineQueue.js:5-10).
THEOREM BacklogConserved == Spec => []Conservation
  BY LineInvariance, PTL

\* Whatever stays in line keeps its order: over the cap, the survivors of a
\* flush and a restart (offlineQueue.js:5).
THEOREM OrderKept == Spec => FIFO
  <1>1. IInv /\ UniqueInv /\ LoneInv /\ [Next]_vars => [Undisturbed' => KeepsOrder]_vars
    BY StepKeepsOrder
  <1>2. [Undisturbed' => KeepsOrder]_vars
          <=> [Undisturbed' =>
                 \A x, y \in Elems(items) \cap Elems(items') :
                   Before(items, x, y) => Before(items', x, y)]_vars
    BY DEF KeepsOrder
  <1>3. QED
    BY <1>1, <1>2, LineInvariance, PTL DEF Spec, FIFO

=============================================================================
