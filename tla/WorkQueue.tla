------------------------------ MODULE WorkQueue ------------------------------
(***************************************************************************)
(* The work queue of client-go, util/workqueue/queue.go, as the controllers *)
(* of this repository use it: Add, Get, Done and ShutDown, each of which is *)
(* one critical section under q.cond.L and so one action here.  Waiting on  *)
(* the condition variable is left to WorkQueueCond; in this module Get is   *)
(* simply not enabled while the queue is empty.                             *)
(*                                                                         *)
(* An item is Add-ed any number of times by event handlers and by retries,  *)
(* and is handed to at most one worker at a time.  The promise (module      *)
(* PendingWork) is that an Add is never lost: processing of the item starts *)
(* after it.                                                                *)
(***************************************************************************)
EXTENDS Naturals, Sequences

CONSTANT Items              \* keys, "namespace/name" in both controllers

VARIABLES queue,            \* order in which items will be handed out
          dirty,            \* items that need to be processed
          processing,       \* items handed out and not yet Done
          shuttingDown

wqVars == <<queue, dirty, processing, shuttingDown>>

InQueue(i) == \E n \in 1..Len(queue) : queue[n] = i

TypeOK ==
  /\ queue \in Seq(Items)
  /\ dirty \in SUBSET Items
  /\ processing \in SUBSET Items
  /\ shuttingDown \in BOOLEAN

Init ==
  /\ queue = << >>
  /\ dirty = {}
  /\ processing = {}
  /\ shuttingDown = FALSE

-----------------------------------------------------------------------------
(* Plausible slips in Add and Done, each used by a mutant run. *)

AddWithoutDirtyCheck(i) ==
  /\ dirty' = IF shuttingDown THEN dirty ELSE dirty \cup {i}
  /\ queue' = IF shuttingDown \/ i \in processing THEN queue ELSE Append(queue, i)
  /\ UNCHANGED <<processing, shuttingDown>>

AddWithoutProcessingCheck(i) ==
  /\ dirty' = IF shuttingDown THEN dirty ELSE dirty \cup {i}
  /\ queue' = IF shuttingDown \/ i \in dirty THEN queue ELSE Append(queue, i)
  /\ UNCHANGED <<processing, shuttingDown>>

AddDroppedWhileProcessing(i) ==
  /\ dirty' = IF shuttingDown \/ i \in processing THEN dirty ELSE dirty \cup {i}
  /\ queue' = IF shuttingDown \/ i \in dirty \cup processing THEN queue ELSE Append(queue, i)
  /\ UNCHANGED <<processing, shuttingDown>>

DoneWithoutRequeue(i) ==
  /\ processing' = processing \ {i}
  /\ UNCHANGED <<queue, dirty, shuttingDown>>

-----------------------------------------------------------------------------
Add(i) ==
  /\ dirty' = IF shuttingDown THEN dirty ELSE dirty \cup {i}
  /\ queue' = IF shuttingDown \/ i \in dirty \cup processing THEN queue ELSE Append(queue, i)
  /\ UNCHANGED <<processing, shuttingDown>>

Get(i) ==
  /\ queue # << >>
  /\ i = Head(queue)
  /\ queue' = Tail(queue)
  /\ processing' = processing \cup {i}
  /\ dirty' = dirty \ {i}
  /\ UNCHANGED shuttingDown

Done(i) ==
  /\ processing' = processing \ {i}
  /\ queue' = IF i \in dirty THEN Append(queue, i) ELSE queue
  /\ UNCHANGED <<dirty, shuttingDown>>

ShutDown ==
  /\ shuttingDown' = TRUE
  /\ UNCHANGED <<queue, dirty, processing>>

(* Clients keep the contract of Get: Done is called with an item they hold. *)
Next ==
  \/ \E i \in Items : Add(i) \/ Get(i)
  \/ \E i \in processing : Done(i)
  \/ ShutDown

Spec == Init /\ [][Next]_wqVars

(* Some worker always comes back to Get, and every worker finishes the item *)
(* it holds: processNextItem defers Done and loops.                         *)
Fairness ==
  /\ WF_wqVars(\E i \in Items : Get(i))
  /\ \A i \in Items : WF_wqVars(i \in processing /\ Done(i))

FairSpec == Spec /\ Fairness

-----------------------------------------------------------------------------
(* What the struct's comment promises: "Every element of queue should be in *)
(* the dirty set and not in the processing set" (queue.go:73).              *)
QueuedIsDirtyAndIdle ==
  \A n \in 1..Len(queue) : queue[n] \in dirty \ processing

(* No item is queued twice, so no two workers are handed the same item.     *)
NoDuplicates ==
  \A m, n \in 1..Len(queue) : queue[m] = queue[n] => m = n

(* Every item that needs processing is on its way to a worker: it is in the *)
(* queue, or a worker holds it and its Done will put it back (queue.go:81). *)
DirtyIsScheduled ==
  \A i \in dirty : i \in processing \/ InQueue(i)

QueueInv == TypeOK /\ QueuedIsDirtyAndIdle /\ NoDuplicates /\ DirtyIsScheduled

(* The queue implements the abstract bookkeeping of pending work, including *)
(* its promise that every pending item is eventually started.               *)
Pending == INSTANCE PendingWork WITH pending <- dirty, active <- processing,
                                     closed <- shuttingDown
ImplementsPendingWork == Pending!FairSpec
=============================================================================
