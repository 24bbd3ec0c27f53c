--------------------------- MODULE RateLimitedQueue ---------------------------
(***************************************************************************)
(* The rate limiting queue of client-go: a WorkQueue, the delaying queue's  *)
(* channel and heap of entries that wait for their delay, and the per-item  *)
(* failure count of ItemExponentialFailureRateLimiter.  Delays are always   *)
(* positive (base delay 5ms), so an item never skips the channel; how long  *)
(* an entry waits is left open, it may become ready at any moment.          *)
(***************************************************************************)
EXTENDS Naturals, Sequences

CONSTANTS Items,
          Capacity,         \* of waitingForAddCh, 1000 in the code
          MaxFailures       \* bound on the failure count in this module's own runs

(* AddRateLimited needs room in the channel at all: it holds one entry or   *)
(* more (1000 in newDelayingQueue).                                         *)
ASSUME CapacityAssumption == Capacity \in Nat \ {0}

VARIABLES queue, dirty, processing, shuttingDown,
          failures,         \* ItemExponentialFailureRateLimiter.failures
          waitingForAddCh,  \* entries sent by AddAfter to the waiting loop
          waitingForQueue   \* the heap: at most one entry for an item

wqVars    == <<queue, dirty, processing, shuttingDown>>
delayVars == <<waitingForAddCh, waitingForQueue>>
rlqVars   == <<wqVars, delayVars, failures>>

WQ == INSTANCE WorkQueue

TypeOK ==
  /\ WQ!TypeOK
  /\ failures \in [Items -> Nat]
  /\ waitingForAddCh \in Seq(Items)
  /\ Len(waitingForAddCh) <= Capacity
  /\ waitingForQueue \in SUBSET Items

Init ==
  /\ WQ!Init
  /\ failures = [i \in Items |-> 0]
  /\ waitingForAddCh = << >>
  /\ waitingForQueue = {}

(* The entries that wait for their delay, in the channel or in the heap. *)
Waiting(i) == i \in waitingForQueue \/ \E n \in 1..Len(waitingForAddCh) : waitingForAddCh[n] = i

-----------------------------------------------------------------------------
(* The plain queue's operations leave the delaying queue alone. *)
Add(i)  == WQ!Add(i)  /\ UNCHANGED <<delayVars, failures>>
Get(i)  == WQ!Get(i)  /\ UNCHANGED <<delayVars, failures>>
Done(i) == WQ!Done(i) /\ UNCHANGED <<delayVars, failures>>

ShutDown == WQ!ShutDown /\ UNCHANGED <<delayVars, failures>>

-----------------------------------------------------------------------------
(* Slips of the code below, for the mutant runs. *)
AddRateLimitedUnbounded(i) ==
  /\ failures' = [failures EXCEPT ![i] = @ + 1]
  /\ waitingForAddCh' = IF shuttingDown THEN waitingForAddCh ELSE Append(waitingForAddCh, i)
  /\ UNCHANGED <<wqVars, waitingForQueue>>

ReceiveEntryWhenIdle ==
  /\ ~shuttingDown
  /\ waitingForAddCh # << >>
  /\ waitingForAddCh' = Tail(waitingForAddCh)
  /\ LET i == Head(waitingForAddCh) IN
       IF i \in processing THEN UNCHANGED <<wqVars, waitingForQueue>>
       ELSE \/ waitingForQueue' = waitingForQueue \cup {i} /\ UNCHANGED wqVars
            \/ WQ!Add(i) /\ UNCHANGED waitingForQueue
  /\ UNCHANGED failures

AddRateLimitedOnce(i) ==
  /\ failures' = [failures EXCEPT ![i] = @ + 1]
  /\ waitingForAddCh' = IF shuttingDown \/ failures[i] > 0 THEN waitingForAddCh
                        ELSE Append(waitingForAddCh, i)
  /\ UNCHANGED <<wqVars, waitingForQueue>>

ReadyUnlessProcessing(i) ==
  /\ ~shuttingDown
  /\ i \in waitingForQueue
  /\ waitingForQueue' = waitingForQueue \ {i}
  /\ IF i \in processing THEN UNCHANGED wqVars ELSE WQ!Add(i)
  /\ UNCHANGED <<waitingForAddCh, failures>>

-----------------------------------------------------------------------------
(* When counts the failure, then AddAfter sends the entry; it waits for room. *)
AddRateLimited(i) ==
  /\ shuttingDown \/ Len(waitingForAddCh) < Capacity
  /\ failures' = [failures EXCEPT ![i] = @ + 1]
  /\ waitingForAddCh' = IF shuttingDown THEN waitingForAddCh ELSE Append(waitingForAddCh, i)
  /\ UNCHANGED <<wqVars, waitingForQueue>>

Forget(i) ==
  /\ failures' = [failures EXCEPT ![i] = 0]
  /\ UNCHANGED <<wqVars, delayVars>>

(* The waiting loop takes an entry from the channel: into the heap, where   *)
(* an entry of the same item absorbs it, or to the queue if its delay has   *)
(* passed by then.  The loop returns once the queue is shutting down.       *)
ReceiveEntry ==
  /\ ~shuttingDown
  /\ waitingForAddCh # << >>
  /\ waitingForAddCh' = Tail(waitingForAddCh)
  /\ LET i == Head(waitingForAddCh) IN
       \/ waitingForQueue' = waitingForQueue \cup {i} /\ UNCHANGED wqVars
       \/ WQ!Add(i) /\ UNCHANGED waitingForQueue
  /\ UNCHANGED failures

(* The delay of an entry of the heap has passed. *)
Ready(i) ==
  /\ ~shuttingDown
  /\ i \in waitingForQueue
  /\ waitingForQueue' = waitingForQueue \ {i}
  /\ WQ!Add(i)
  /\ UNCHANGED <<waitingForAddCh, failures>>

-----------------------------------------------------------------------------
(* Event handlers Add; a worker that holds an item may ask for a retry or   *)
(* Forget it before its Done.                                               *)
Next ==
  \/ \E i \in Items : Add(i) \/ Get(i) \/ Ready(i)
  \/ \E i \in processing : \/ failures[i] < MaxFailures /\ AddRateLimited(i)
                           \/ Forget(i)
                           \/ Done(i)
  \/ ReceiveEntry
  \/ ShutDown

Spec == Init /\ [][Next]_rlqVars

Fairness ==
  /\ WF_rlqVars(ReceiveEntry)
  /\ WF_rlqVars(\E i \in Items : Get(i))
  /\ \A i \in Items : WF_rlqVars(Ready(i)) /\ WF_rlqVars(i \in processing /\ Done(i))

FairSpec == Spec /\ Fairness

-----------------------------------------------------------------------------
(* The promises of the plain queue hold of the queue inside: queued items   *)
(* are dirty and in nobody's hands, none is queued twice, and every item    *)
(* that needs processing is on its way to a worker (queue.go 73-85).        *)
QueuedIsDirtyAndIdle == WQ!QueuedIsDirtyAndIdle

(* No item is queued twice, whoever adds it: handlers, workers or the       *)
(* waiting loop (queue.go 126-135).                                         *)
NoDuplicates == WQ!NoDuplicates

(* No Add is lost, the waiting loop's among them (queue.go 81-84, 187).     *)
DirtyIsScheduled == WQ!DirtyIsScheduled

(* The queue inside is an implementation of PendingWork, liveness included. *)
ImplementsPendingWork == WQ!ImplementsPendingWork

-----------------------------------------------------------------------------
(* A retry that was asked for is made: the item of an entry that waits      *)
(* becomes dirty, whatever its own state was when the delay passed, unless  *)
(* the queue is shut down.  (From there on WorkQueue's promise holds.)      *)
RetryIsMade == \A i \in Items : Waiting(i) ~> (i \in dirty \/ shuttingDown)

(* After the request and before its start the item is never out of sight:   *)
(* an entry leaves the delaying queue only into the dirty set, in one step. *)
NoEntryLost ==
  [][\A i \in Items : Waiting(i) /\ ~Waiting(i)' => i \in dirty']_rlqVars
=============================================================================
