---------------------------- MODULE OfflineQueue ----------------------------
(***************************************************************************)
(* The durable backlog of the background service (OfflineQueue in          *)
(* service/sync/offlineQueue.js), one instance of which holds heartbeats   *)
(* and another violations.                                                 *)
(*                                                                         *)
(* JavaScript runs one callback at a time, so everything between two       *)
(* awaits is one action.  flush() awaits every send while it iterates over *)
(* the array this.items itself, not over a copy: enqueue() changes that    *)
(* array under the iterator, and a second flush() started meanwhile        *)
(* iterates over the same array.  Only the assignment at the end of a      *)
(* flush gives this.items a new array; the flushes still running keep the  *)
(* old one, which nobody changes any more.                                 *)
(*                                                                         *)
(* An item is its id.  The payload, the log lines and the counts flush()   *)
(* returns are left out.                                                   *)
(***************************************************************************)
EXTENDS Naturals, Integers, Sequences, FiniteSets

CONSTANTS
    Items,        \* ids of heartbeats or violations
    MaxItems,     \* QUEUE.maxHeartbeats or QUEUE.maxViolations
    Flushes,      \* flush() calls that may run at the same time
    None,         \* "this flush is not running"
    DiskMayFail,  \* whether a write of the queue file may fail
    MaxCalls,     \* bound: calls of enqueue()
    MaxCrashes    \* bound: crashes of the service

ASSUME QueueAssumption ==
    /\ MaxItems \in Nat \ {0}
    /\ None \notin Items
    /\ DiskMayFail \in BOOLEAN
    /\ MaxCalls \in Nat /\ MaxCrashes \in Nat

VARIABLES
    items,     \* this.items
    file,      \* the array in the queue file
    sending,   \* [Flushes -> Items or None]: the item whose send is awaited
    at,        \* [Flushes -> Nat]: the iterator's index of that item
    live,      \* the running flushes whose iterator is on this.items
    snap,      \* [Flushes -> Seq(Items)]: the detached array of the others
    flushable, \* whether there is an offlineFlush timer and its isReachable
               \* probe finds the backend
    calls, crashes,
    (* History, read by the properties only. *)
    owed,      \* [Items -> Nat]: acceptances of an item not yet settled
    twice,     \* the items settled although nothing was owed
    hazard     \* what happened that the code does not guard against

queueVars == <<items, file, sending, at, live, snap>>
history == <<owed, twice, hazard>>
vars == <<queueVars, flushable, calls, crashes, history>>

-----------------------------------------------------------------------------

Elems(s) == {s[k] : k \in DOMAIN s}

Running(f) == sending[f] # None

\* The array flush f iterates over.
Source(f) == IF f \in live THEN items ELSE snap[f]

\* persist(): the write is atomic; when it fails the old file stays and the
\* error is only logged.
Persist(s) == file' = s \/ (DiskMayFail /\ file' = file)

\* An item is settled when the backend confirmed it, rejected it for good, or
\* when the cap dropped it.
Settle(x) ==
    IF owed[x] = 0
      THEN twice' = twice \cup {x} /\ owed' = owed
      ELSE owed' = [owed EXCEPT ![x] = @ - 1] /\ twice' = twice

Init ==
    /\ items = <<>> /\ file = <<>>
    /\ sending = [f \in Flushes |-> None]
    /\ at = [f \in Flushes |-> 0]
    /\ live = {}
    /\ snap = [f \in Flushes |-> <<>>]
    /\ flushable = FALSE
    /\ calls = 0 /\ crashes = 0
    /\ owed = [x \in Items |-> 0]
    /\ twice = {} /\ hazard = {}

-----------------------------------------------------------------------------
(* enqueue *)

\* The id is already queued: return without a change.
EnqueueDuplicate(x) ==
    /\ calls < MaxCalls
    /\ x \in Elems(items)
    /\ calls' = calls + 1
    /\ UNCHANGED <<queueVars, flushable, crashes, history>>

\* Mutant: the cap is off by one.
PushOneTooMany(s, x) ==
    LET t == Append(s, x)
    IN IF Len(t) > MaxItems + 1 THEN SubSeq(t, Len(t) - MaxItems, Len(t)) ELSE t

\* push, then drop the oldest beyond the cap (splice changes the array in
\* place, so a running iterator sees its elements move down), then persist.
Push(s, x) ==
    LET t == Append(s, x)
    IN IF Len(t) > MaxItems THEN SubSeq(t, Len(t) - MaxItems + 1, Len(t)) ELSE t

\* Mutant: no look-up of the id before the push.
EnqueueUnchecked(x) ==
    /\ calls < MaxCalls
    /\ items' = Push(items, x)
    /\ Persist(items')
    /\ calls' = calls + 1
    /\ UNCHANGED <<sending, at, live, snap, flushable, crashes, history>>

Enqueue(x) ==
    /\ calls < MaxCalls
    /\ x \notin Elems(items)
    /\ items' = Push(items, x)
    /\ Persist(items')
    /\ calls' = calls + 1
    /\ owed' = [y \in Items |->
                  IF y = x THEN owed[y] + 1
                  ELSE IF y \in Elems(items) \ Elems(items') THEN 0
                  ELSE owed[y]]
    /\ hazard' = IF Len(items) >= MaxItems /\ live # {}
                   THEN hazard \cup {"cut"} ELSE hazard
    /\ UNCHANGED <<sending, at, live, snap, flushable, crashes, twice>>

-----------------------------------------------------------------------------
(* flush *)

\* reconcileMode sets or clears the timer that flushes, and the backend comes
\* and goes.  Nobody else calls flush().
ConditionsChange ==
    /\ flushable' = ~flushable
    /\ UNCHANGED <<queueVars, calls, crashes, history>>

\* A flush starts when its probe is answered: the timer may be gone by then.
FlushStart(f) ==
    /\ ~Running(f)
    /\ items # <<>>
    /\ sending' = [sending EXCEPT ![f] = items[1]]
    /\ at' = [at EXCEPT ![f] = 1]
    /\ live' = live \cup {f}
    /\ hazard' = IF \E g \in Flushes : Running(g)
                   THEN hazard \cup {"overlap"} ELSE hazard
    /\ UNCHANGED <<items, file, snap, flushable, calls, crashes, owed, twice>>

\* Mutant: the survivors replace the contents of the same array.
FinishInPlace(f, survivors) ==
    /\ items' = survivors
    /\ Persist(survivors)
    /\ sending' = [sending EXCEPT ![f] = None]
    /\ at' = [at EXCEPT ![f] = 0]
    /\ live' = live \ {f}
    /\ UNCHANGED snap

\* The loop is over: this.items becomes the array of survivors.  The flushes
\* that still iterate over the replaced array keep it.
Finish(f, survivors) ==
    /\ items' = survivors
    /\ Persist(survivors)
    /\ sending' = [sending EXCEPT ![f] = None]
    /\ at' = [at EXCEPT ![f] = 0]
    /\ live' = {}
    /\ snap' = [g \in Flushes |->
                  IF g = f THEN <<>> ELSE IF g \in live THEN items ELSE snap[g]]

\* Mutant: a permanent error keeps the last item.
SendSettledKeeps(f) ==
    /\ Running(f)
    /\ Settle(sending[f])
    /\ LET next == at[f] + 1
       IN IF next <= Len(Source(f))
            THEN /\ sending' = [sending EXCEPT ![f] = Source(f)[next]]
                 /\ at' = [at EXCEPT ![f] = next]
                 /\ UNCHANGED <<items, file, live, snap>>
            ELSE Finish(f, <<sending[f]>>)
    /\ UNCHANGED <<flushable, calls, crashes, hazard>>

\* The awaited send ended with ok, or with an answer that is a permanent error:
\* either way the item does not survive and the iterator moves on.
SendSettled(f) ==
    /\ Running(f)
    /\ Settle(sending[f])
    /\ LET next == at[f] + 1
       IN IF next <= Len(Source(f))
            THEN /\ sending' = [sending EXCEPT ![f] = Source(f)[next]]
                 /\ at' = [at EXCEPT ![f] = next]
                 /\ UNCHANGED <<items, file, live, snap>>
            ELSE Finish(f, <<>>)
    /\ UNCHANGED <<flushable, calls, crashes, hazard>>

\* Mutants: only the item itself survives; it goes to the end of the line.
SendOfflineKeepsOne(f) ==
    /\ Running(f)
    /\ Finish(f, <<sending[f]>>)
    /\ UNCHANGED <<flushable, calls, crashes, history>>

SendOfflineRequeues(f) ==
    /\ Running(f)
    /\ Finish(f, Append(SubSeq(Source(f), at[f] + 1, Len(Source(f))), sending[f]))
    /\ UNCHANGED <<flushable, calls, crashes, history>>

\* The awaited send found the backend offline (or threw): the item and all the
\* rest of the array survive, and the flush ends without another await.
SendOffline(f) ==
    /\ Running(f)
    /\ Finish(f, <<sending[f]>> \o SubSeq(Source(f), at[f] + 1, Len(Source(f))))
    /\ UNCHANGED <<flushable, calls, crashes, history>>

-----------------------------------------------------------------------------
(* Crash and restart: the constructor reads the queue file again, before start()
   sets a timer.  A flush writes the file only at its end: what it had settled
   is in line again ("replay"). *)
Crash ==
    /\ crashes < MaxCrashes
    /\ crashes' = crashes + 1
    /\ items' = file
    /\ sending' = [f \in Flushes |-> None]
    /\ at' = [f \in Flushes |-> 0]
    /\ live' = {}
    /\ snap' = [f \in Flushes |-> <<>>]
    /\ flushable' = FALSE
    /\ hazard' = hazard \cup (IF file # items THEN {"disk"} ELSE {})
                      \cup (IF \E f \in Flushes : at[f] > 1 THEN {"replay"} ELSE {})
    /\ UNCHANGED <<file, calls, owed, twice>>

Next ==
    \/ \E x \in Items : EnqueueDuplicate(x) \/ Enqueue(x)
    \/ \E f \in Flushes : FlushStart(f) \/ SendSettled(f) \/ SendOffline(f)
    \/ ConditionsChange \/ Crash

Spec == Init /\ [][Next]_vars

\* While it exists, the offlineFlush timer fires again and again; every send ends
\* within the request timeout; and a flush that sends again and again is answered
\* again and again.  Nothing makes a flush start while the challenge is over or
\* the backend out of reach.
FairSpec ==
    /\ Spec
    /\ \A f \in Flushes : /\ WF_vars(flushable /\ FlushStart(f))
                          /\ WF_vars(SendSettled(f) \/ SendOffline(f))
                          /\ SF_vars(SendSettled(f))

-----------------------------------------------------------------------------

TypeOK ==
    /\ items \in Seq(Items) /\ file \in Seq(Items)
    /\ sending \in [Flushes -> Items \cup {None}]
    /\ at \in [Flushes -> Nat]
    /\ live \subseteq Flushes
    /\ snap \in [Flushes -> Seq(Items)]
    /\ flushable \in BOOLEAN
    /\ calls \in 0..MaxCalls /\ crashes \in 0..MaxCrashes
    /\ owed \in [Items -> Nat] /\ twice \subseteq Items
    /\ hazard \subseteq {"overlap", "cut", "disk", "replay"}
    \* An iterator is within its array.
    /\ live \subseteq {f \in Flushes : Running(f)}
    /\ \A f \in Flushes : Running(f) => at[f] \in DOMAIN Source(f)

\* The items this.items still has to deliver: those no flush has passed.
Unsettled ==
    {items[k] : k \in {j \in DOMAIN items : \A f \in live : at[f] <= j}}

\* Nothing of this happened: a second flush over a first, an item dropped by the
\* cap during a flush, a queue file write lost to a crash.
Undisturbed == hazard \subseteq {"replay"}

\* Conservation of the backlog (offlineQueue.js:5-10), whatever enqueue does
\* under a running flush.  Undisturbed, what was accepted and is not settled is
\* in line, wherever the service crashes: nothing is lost.  If moreover no crash
\* met a flush beyond its first item, what is in line is owed, and no item was
\* settled twice.  (After such a crash items are uploaded again, against what
\* offlineQueue.js:6-7 says.)
Conservation ==
    /\ Undisturbed =>
         \A x \in Items : owed[x] > 0 => owed[x] = 1 /\ x \in Unsettled
    /\ hazard = {} => twice = {} /\ \A x \in Unsettled : owed[x] = 1

\* De-duplication by id (offlineQueue.js:40) survives every replacement of the
\* array, also by overlapping flushes: unless the cap cut the array under a
\* running iterator, no id is twice in line.
NoDuplicateIds ==
    "cut" \notin hazard =>
      \A j, k \in DOMAIN items : items[j] = items[k] => j = k

\* The cap bounds the backlog in memory and on disk (offlineQueue.js:42), also
\* after a flush has put its survivors back and after a restart.
CapHolds == Len(items) <= MaxItems /\ Len(file) <= MaxItems

\* FIFO (offlineQueue.js:5): two items that stay in line keep their order, over
\* enqueue, flush and crash, as long as the queue is undisturbed.
Before(s, x, y) == \E j, k \in DOMAIN s : j < k /\ s[j] = x /\ s[k] = y
FIFO ==
    [][Undisturbed' =>
         \A x, y \in Elems(items) \cap Elems(items') :
           Before(items, x, y) => Before(items', x, y)]_vars

\* Every queued item leaves the line in the end (offlineQueue.js:51), if some day
\* the challenge stays active and the backend in reach: with one flush at a time
\* no item blocks the others, and one that is unlucky again and again does not
\* stay forever.  (Overlapping flushes put settled items back; what is queued
\* when a challenge ends stays queued, serviceManager.js:88,302.)
EverythingLeaves ==
    <>[]flushable =>
      \A x \in Items :
        x \in Elems(items) ~> (x \notin Elems(items) \/ "overlap" \in hazard)
=============================================================================
