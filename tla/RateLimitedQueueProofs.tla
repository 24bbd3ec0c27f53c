------------------------ MODULE RateLimitedQueueProofs ------------------------
(***************************************************************************)
(* Proofs about the rate limited queue.  Its operations are those of the    *)
(* plain queue, or leave it alone; the waiting loop Adds.  So what is proved *)
(* of the plain queue in WorkQueueProofs holds of the queue inside.         *)
(***************************************************************************)
EXTENDS RateLimitedQueue, TLAPS, SequenceTheorems

WQP == INSTANCE WorkQueueProofs

-----------------------------------------------------------------------------
(* Every step of the rate limited queue is a step of the plain one.         *)
LEMMA StepIsQueueStep ==
  ASSUME [Next]_rlqVars, WQ!TypeOK, waitingForAddCh \in Seq(Items), waitingForQueue \in SUBSET Items
  PROVE  [WQ!Next]_wqVars
  <1> USE DEF WQ!Next, WQ!wqVars, wqVars
  <1>1. ASSUME NEW i \in Items, Add(i) \/ Get(i) PROVE WQ!Next
    BY <1>1 DEF Add, Get
  <1>2. ASSUME NEW i \in Items, Ready(i) PROVE WQ!Next
    BY <1>2 DEF Ready
  <1>3. ASSUME NEW i \in processing, AddRateLimited(i) \/ Forget(i) PROVE UNCHANGED wqVars
    BY <1>3 DEF AddRateLimited, Forget
  <1>4. ASSUME NEW i \in processing, Done(i) PROVE WQ!Next
    BY <1>4 DEF Done
  <1>5. ASSUME ReceiveEntry PROVE [WQ!Next]_wqVars
    <2>1. Head(waitingForAddCh) \in Items
      BY <1>5, HeadTailProperties DEF ReceiveEntry
    <2> QED
      BY <1>5, <2>1 DEF ReceiveEntry
  <1>6. ASSUME ShutDown PROVE WQ!Next
    BY <1>6 DEF ShutDown
  <1>7. ASSUME UNCHANGED rlqVars PROVE UNCHANGED wqVars
    BY <1>7 DEF rlqVars
  <1> QED
    BY <1>1, <1>2, <1>3, <1>4, <1>5, <1>6, <1>7 DEF Next

(* The two instances of the plain queue are the same. *)
LEMMA SameQueue ==
  /\ WQP!QueueInv <=> WQ!QueueInv
  /\ WQP!QueueInv' <=> WQ!QueueInv'
  /\ [WQ!Next]_wqVars => [WQP!Next]_WQP!wqVars
  <1>1. WQP!TypeOK <=> WQ!TypeOK
    BY DEF WQP!TypeOK, WQ!TypeOK
  <1>2. WQP!QueuedIsDirtyAndIdle <=> WQ!QueuedIsDirtyAndIdle
    BY DEF WQP!QueuedIsDirtyAndIdle, WQ!QueuedIsDirtyAndIdle
  <1>3. WQP!NoDuplicates <=> WQ!NoDuplicates
    BY DEF WQP!NoDuplicates, WQ!NoDuplicates
  <1>4. WQP!DirtyIsScheduled <=> WQ!DirtyIsScheduled
    BY DEF WQP!DirtyIsScheduled, WQ!DirtyIsScheduled, WQP!InQueue, WQ!InQueue
  <1>5. WQP!QueueInv <=> WQ!QueueInv
    BY <1>1, <1>2, <1>3, <1>4 DEF WQP!QueueInv, WQ!QueueInv
  <1>6. WQP!QueueInv' <=> WQ!QueueInv'
    BY DEF WQP!QueueInv, WQ!QueueInv, WQP!TypeOK, WQ!TypeOK, WQP!QueuedIsDirtyAndIdle,
           WQ!QueuedIsDirtyAndIdle, WQP!NoDuplicates, WQ!NoDuplicates,
           WQP!DirtyIsScheduled, WQ!DirtyIsScheduled, WQP!InQueue, WQ!InQueue
  <1>7. WQ!Next => WQP!Next
    BY DEF WQ!Next, WQP!Next, WQ!Add, WQP!Add, WQ!Get, WQP!Get, WQ!Done, WQP!Done,
           WQ!ShutDown, WQP!ShutDown
  <1> QED
    BY <1>5, <1>6, <1>7 DEF wqVars, WQP!wqVars

(* What is inductive: the types, with the bound on the channel, and the     *)
(* invariant of the plain queue.                                            *)
Inv == TypeOK /\ WQ!QueueInv

LEMMA QueuePreserved ==
  ASSUME Inv, [Next]_rlqVars
  PROVE  WQ!QueueInv'
  <1>1. [WQ!Next]_wqVars
    BY StepIsQueueStep DEF Inv, TypeOK
  <1> QED
    BY <1>1, SameQueue, WQP!NextPreserves DEF Inv

(* The room left in the channel when an entry is sent or received. *)
LEMMA ChannelBounds ==
  ASSUME NEW i \in Items, TypeOK
  PROVE  /\ Len(waitingForAddCh) < Capacity =>
              /\ Append(waitingForAddCh, i) \in Seq(Items)
              /\ Len(Append(waitingForAddCh, i)) <= Capacity
         /\ waitingForAddCh # << >> =>
              /\ Tail(waitingForAddCh) \in Seq(Items)
              /\ Len(Tail(waitingForAddCh)) <= Capacity
              /\ Head(waitingForAddCh) \in Items
  <1>1. waitingForAddCh \in Seq(Items) /\ Len(waitingForAddCh) <= Capacity
    BY DEF TypeOK
  <1>2. Len(waitingForAddCh) \in Nat /\ Capacity \in Nat
    BY <1>1, LenProperties, CapacityAssumption
  <1>3. /\ Append(waitingForAddCh, i) \in Seq(Items)
        /\ Len(Append(waitingForAddCh, i)) = Len(waitingForAddCh) + 1
    BY <1>1, AppendProperties
  <1>4. waitingForAddCh # << >> =>
              /\ Tail(waitingForAddCh) \in Seq(Items)
              /\ Len(Tail(waitingForAddCh)) = Len(waitingForAddCh) - 1
              /\ Head(waitingForAddCh) \in Items
    BY <1>1, HeadTailProperties
  <1> QED
    BY <1>1, <1>2, <1>3, <1>4

LEMMA TypePreserved ==
  ASSUME Inv, [Next]_rlqVars
  PROVE  TypeOK'
  <1> DEFINE Rest == /\ failures \in [Items -> Nat]
                     /\ waitingForAddCh \in Seq(Items)
                     /\ Len(waitingForAddCh) <= Capacity
                     /\ waitingForQueue \in SUBSET Items
  <1>1. WQ!TypeOK'
    BY QueuePreserved DEF WQ!QueueInv
  <1>2. TypeOK /\ Rest
    BY DEF Inv, TypeOK
  <1> SUFFICES Rest'
    BY <1>1 DEF TypeOK
  <1>3. ASSUME NEW i \in Items, Add(i) \/ Get(i) PROVE Rest'
    BY <1>2, <1>3 DEF Add, Get, delayVars
  <1>4. ASSUME NEW i \in Items, Ready(i) PROVE Rest'
    BY <1>2, <1>4 DEF Ready
  <1>5. ASSUME NEW i \in processing, AddRateLimited(i) PROVE Rest'
    <2>1. i \in Items
      BY <1>5 DEF Inv, TypeOK, WQ!TypeOK
    <2>2. failures' \in [Items -> Nat] /\ waitingForQueue' \in SUBSET Items
      BY <1>2, <1>5, <2>1 DEF AddRateLimited
    <2>3. waitingForAddCh' \in Seq(Items) /\ Len(waitingForAddCh') <= Capacity
      BY <1>2, <1>5, <2>1, ChannelBounds DEF AddRateLimited
    <2> QED
      BY <2>2, <2>3
  <1>6. ASSUME NEW i \in processing, Forget(i) PROVE Rest'
    BY <1>2, <1>6 DEF Forget, delayVars
  <1>7. ASSUME NEW i \in processing, Done(i) PROVE Rest'
    BY <1>2, <1>7 DEF Done, delayVars
  <1>8. ASSUME ReceiveEntry PROVE Rest'
    <2>1. Head(waitingForAddCh) \in Items
      BY <1>2, <1>8, HeadTailProperties DEF ReceiveEntry
    <2>2. waitingForAddCh' \in Seq(Items) /\ Len(waitingForAddCh') <= Capacity
      BY <1>2, <1>8, <2>1, ChannelBounds DEF ReceiveEntry
    <2>3. failures' \in [Items -> Nat] /\ waitingForQueue' \in SUBSET Items
      BY <1>2, <1>8, <2>1 DEF ReceiveEntry
    <2> QED
      BY <2>2, <2>3
  <1>9. ASSUME ShutDown PROVE Rest'
    BY <1>2, <1>9 DEF ShutDown, delayVars
  <1>10. ASSUME UNCHANGED rlqVars PROVE Rest'
    BY <1>2, <1>10 DEF rlqVars, delayVars
  <1> QED
    BY <1>3, <1>4, <1>5, <1>6, <1>7, <1>8, <1>9, <1>10 DEF Next

LEMMA InitInv == Init => Inv
  <1> SUFFICES ASSUME Init PROVE Inv
    OBVIOUS
  <1>1. WQ!QueueInv
    <2>1. WQP!Init
      BY DEF Init, WQ!Init, WQP!Init
    <2> QED
      BY <2>1, WQP!InitInv, SameQueue
  <1>2. << >> \in Seq(Items) /\ Len(<< >>) <= Capacity
    BY EmptySeq, CapacityAssumption
  <1>3. TypeOK
    BY <1>1, <1>2 DEF Init, TypeOK, WQ!QueueInv
  <1> QED
    BY <1>1, <1>3 DEF Inv

THEOREM Invariant == Spec => []Inv
  <1>1. Inv /\ [Next]_rlqVars => Inv'
    BY TypePreserved, QueuePreserved DEF Inv
  <1> QED
    BY InitInv, <1>1, PTL DEF Spec

-----------------------------------------------------------------------------
(* The rate limited queue is a work queue: what it adds is seen by nobody   *)
(* but through Add (rate_limiting_queue.go 54, delaying_queue.go 103).      *)
THEOREM RefinesWorkQueue == Spec => WQ!Spec
  <1>1. Init => WQ!Init
    BY DEF Init
  <1>2. Inv /\ [Next]_rlqVars => [WQ!Next]_WQ!wqVars
    BY StepIsQueueStep DEF Inv, TypeOK, wqVars, WQ!wqVars
  <1> QED
    BY Invariant, <1>1, <1>2, PTL DEF Spec, WQ!Spec

-----------------------------------------------------------------------------
(* Types, with the bound on the channel's entries, for any set of items and *)
(* any capacity of the channel (delaying_queue.go 179).                     *)
THEOREM TypeCorrect == Spec => []TypeOK
  <1>1. Inv => TypeOK
    BY DEF Inv
  <1> QED
    BY <1>1, Invariant, PTL

(* "Every element of queue should be in the dirty set and not in the        *)
(* processing set" (queue.go 73), whether handlers, workers or the waiting  *)
(* loop added it.                                                           *)
THEOREM QueuedItemsAreDirtyAndIdle == Spec => []QueuedIsDirtyAndIdle
  <1>1. Inv => QueuedIsDirtyAndIdle
    BY DEF Inv, WQ!QueueInv, QueuedIsDirtyAndIdle
  <1> QED
    BY <1>1, Invariant, PTL

(* No item is queued twice, so two workers never get the same item. *)
THEOREM NoItemQueuedTwice == Spec => []NoDuplicates
  <1>1. Inv => NoDuplicates
    BY DEF Inv, WQ!QueueInv, NoDuplicates
  <1> QED
    BY <1>1, Invariant, PTL

(* No Add and no retry that has reached the queue is lost (queue.go 81-84). *)
THEOREM NoAddIsLost == Spec => []DirtyIsScheduled
  <1>1. Inv => DirtyIsScheduled
    BY DEF Inv, WQ!QueueInv, DirtyIsScheduled
  <1> QED
    BY <1>1, Invariant, PTL

-----------------------------------------------------------------------------
(* An entry leaves the delaying queue only into the dirty set               *)
(* (delaying_queue.go 211-220, 243-262).                                    *)
LEMMA StepKeepsEntries ==
  ASSUME Inv, [Next]_rlqVars
  PROVE  \A i \in Items : Waiting(i) /\ ~Waiting(i)' => i \in dirty'
  <1> SUFFICES ASSUME NEW i \in Items, Waiting(i), ~Waiting(i)'
               PROVE  i \in dirty'
    OBVIOUS
  <1>1. TypeOK
    BY DEF Inv
  <1>2. ~(UNCHANGED delayVars)
    BY DEF Waiting, delayVars
  <1>3. ASSUME NEW j \in Items, Ready(j) PROVE i \in dirty'
    <2>1. i = j
      BY <1>3 DEF Ready, Waiting
    <2> QED
      BY <1>3, <2>1 DEF Ready, WQ!Add
  <1>4. ASSUME NEW j \in processing, AddRateLimited(j) PROVE FALSE
    <2>1. j \in Items
      BY <1>1, <1>4 DEF TypeOK, WQ!TypeOK
    <2>2. waitingForAddCh' = Append(waitingForAddCh, j) /\ waitingForQueue' = waitingForQueue
      BY <1>2, <1>4 DEF AddRateLimited, delayVars
    <2>3. /\ Len(waitingForAddCh) \in Nat
          /\ Len(waitingForAddCh') = Len(waitingForAddCh) + 1
          /\ \A n \in 1..Len(waitingForAddCh) : waitingForAddCh'[n] = waitingForAddCh[n]
      BY <1>1, <2>1, <2>2, WQP!AppendElements DEF TypeOK
    <2>4. 1..Len(waitingForAddCh) \subseteq 1..Len(waitingForAddCh')
      BY <2>3
    <2> QED
      BY <2>2, <2>3, <2>4 DEF Waiting
  <1>5. ASSUME ReceiveEntry PROVE i \in dirty'
    <2>1. /\ Len(waitingForAddCh') \in Nat
          /\ Len(waitingForAddCh) = Len(waitingForAddCh') + 1
          /\ \A n \in 1..Len(waitingForAddCh') : waitingForAddCh'[n] = waitingForAddCh[n + 1]
          /\ Head(waitingForAddCh) = waitingForAddCh[1]
      BY <1>1, <1>5, WQP!TailElements DEF TypeOK, ReceiveEntry
    <2>2. i \notin waitingForQueue
      BY <1>5 DEF ReceiveEntry, Waiting
    <2>3. PICK n \in 1..Len(waitingForAddCh) : waitingForAddCh[n] = i
      BY <2>2 DEF Waiting
    <2>4. n = 1
      <3>1. CASE n # 1
        <4>1. n - 1 \in 1..Len(waitingForAddCh') /\ (n - 1) + 1 = n
          BY <2>1, <3>1
        <4> QED
          BY <2>1, <2>3, <4>1 DEF Waiting
      <3> QED
        BY <3>1
    <2>5. i = Head(waitingForAddCh)
      BY <2>1, <2>3, <2>4
    <2> QED
      BY <1>5, <2>5 DEF ReceiveEntry, Waiting, WQ!Add
  <1>6. ASSUME UNCHANGED rlqVars PROVE FALSE
    BY <1>2, <1>6 DEF rlqVars
  <1> QED
    BY <1>2, <1>3, <1>4, <1>5, <1>6 DEF Next, Add, Get, Done, Forget, ShutDown

THEOREM EntriesAreKept == Spec => NoEntryLost
  BY Invariant, StepKeepsEntries, PTL DEF Spec, NoEntryLost
=============================================================================
