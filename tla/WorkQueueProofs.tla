--------------------------- MODULE WorkQueueProofs ---------------------------
(***************************************************************************)
(* Proofs about the work queue, for any set of items: the three parts of    *)
(* QueueInv support each other and together are inductive.  That a queued   *)
(* item is dirty and idle is what makes Get move it from one set to the     *)
(* other; that no item is queued twice is what keeps the rest of the queue  *)
(* dirty after Get; that dirty items are scheduled is the promise itself.   *)
(***************************************************************************)
EXTENDS WorkQueue, TLAPS, SequenceTheorems

(* What Append and Tail do to the elements of a queue. *)
LEMMA AppendElements ==
  ASSUME NEW q \in Seq(Items), NEW i \in Items
  PROVE  /\ Append(q, i) \in Seq(Items)
         /\ Len(q) \in Nat
         /\ Len(Append(q, i)) = Len(q) + 1
         /\ \A n \in 1..Len(q) : Append(q, i)[n] = q[n]
         /\ Append(q, i)[Len(q) + 1] = i
  BY AppendProperties, LenProperties

LEMMA TailElements ==
  ASSUME NEW q \in Seq(Items), q # << >>
  PROVE  /\ Tail(q) \in Seq(Items)
         /\ Len(q) \in Nat \ {0}
         /\ Len(Tail(q)) = Len(q) - 1
         /\ \A n \in 1..Len(Tail(q)) : Tail(q)[n] = q[n + 1]
         /\ Head(q) = q[1]
         /\ Head(q) \in Items
  BY HeadTailProperties, EmptySeq

LEMMA InitInv == Init => QueueInv
  <1>1. << >> \in Seq(Items) /\ Len(<< >>) = 0
    BY EmptySeq
  <1>2. \A n \in 1..Len(<< >>) : FALSE
    BY <1>1
  <1> SUFFICES ASSUME Init PROVE QueueInv
    OBVIOUS
  <1>3. TypeOK
    BY <1>1 DEF Init, TypeOK
  <1>4. QueuedIsDirtyAndIdle /\ NoDuplicates /\ DirtyIsScheduled
    BY <1>2 DEF Init, QueuedIsDirtyAndIdle, NoDuplicates, DirtyIsScheduled
  <1> QED
    BY <1>3, <1>4 DEF QueueInv

(* Putting an idle item that is in no queue yet at the end of the queue, as *)
(* Add and Done both do.                                                    *)
LEMMA AppendPreserves ==
  ASSUME NEW i \in Items, TypeOK, NoDuplicates,
         \A n \in 1..Len(queue) : queue[n] \in dirty' \ processing' /\ queue[n] # i,
         i \in dirty' \ processing',
         queue' = Append(queue, i)
  PROVE  QueuedIsDirtyAndIdle' /\ NoDuplicates'
  <1>1. /\ Len(queue) \in Nat
        /\ Len(queue') = Len(queue) + 1
        /\ \A n \in 1..Len(queue) : queue'[n] = queue[n]
        /\ queue'[Len(queue) + 1] = i
    BY AppendElements DEF TypeOK
  <1>2. \A n \in 1..Len(queue') : n \in 1..Len(queue) \/ n = Len(queue) + 1
    BY <1>1
  <1>3. QueuedIsDirtyAndIdle'
    BY <1>1, <1>2 DEF QueuedIsDirtyAndIdle
  <1>4. NoDuplicates'
    BY <1>1, <1>2 DEF NoDuplicates
  <1> QED
    BY <1>3, <1>4

LEMMA AddPreserves ==
  ASSUME NEW i \in Items, QueueInv, Add(i)
  PROVE  QueueInv'
  <1> USE DEF QueueInv
  <1>1. CASE shuttingDown \/ i \in dirty
    <2>1. UNCHANGED wqVars
      BY <1>1 DEF Add, TypeOK, wqVars
    <2> QED
      BY <2>1 DEF wqVars, TypeOK, QueuedIsDirtyAndIdle, NoDuplicates, DirtyIsScheduled, InQueue
  <1>2. CASE ~shuttingDown /\ i \notin dirty /\ i \in processing
    <2>1. dirty' = dirty \cup {i} /\ UNCHANGED <<queue, processing, shuttingDown>>
      BY <1>2 DEF Add
    <2> QED
      BY <1>2, <2>1 DEF TypeOK, QueuedIsDirtyAndIdle, NoDuplicates, DirtyIsScheduled, InQueue
  <1>3. CASE ~shuttingDown /\ i \notin dirty /\ i \notin processing
    <2>1. /\ dirty' = dirty \cup {i}
          /\ queue' = Append(queue, i)
          /\ UNCHANGED <<processing, shuttingDown>>
      BY <1>3 DEF Add
    <2>2. /\ Append(queue, i) \in Seq(Items)
          /\ Len(queue) \in Nat
          /\ Len(queue') = Len(queue) + 1
          /\ \A n \in 1..Len(queue) : queue'[n] = queue[n]
          /\ queue'[Len(queue) + 1] = i
      BY <2>1, AppendElements DEF TypeOK
    <2>3. TypeOK'
      BY <2>1, <2>2 DEF TypeOK
    <2>4. QueuedIsDirtyAndIdle' /\ NoDuplicates'
      BY <1>3, <2>1, AppendPreserves DEF QueuedIsDirtyAndIdle
    <2>5. DirtyIsScheduled'
      <3>1. \A j \in Items : InQueue(j) => InQueue(j)'
        BY <2>2 DEF InQueue
      <3>2. InQueue(i)'
        BY <2>2 DEF InQueue
      <3> QED
        BY <2>1, <3>1, <3>2 DEF DirtyIsScheduled, TypeOK
    <2> QED
      BY <2>3, <2>4, <2>5
  <1> QED
    BY <1>1, <1>2, <1>3

LEMMA GetPreserves ==
  ASSUME NEW i \in Items, QueueInv, Get(i)
  PROVE  QueueInv'
  <1> USE DEF QueueInv
  <1>1. /\ queue \in Seq(Items) /\ queue # << >>
        /\ queue' = Tail(queue)
        /\ dirty' = dirty \ {i}
        /\ processing' = processing \cup {i}
        /\ UNCHANGED shuttingDown
    BY DEF Get, TypeOK
  <1>2. /\ queue' \in Seq(Items)
        /\ Len(queue) \in Nat \ {0}
        /\ Len(queue') = Len(queue) - 1
        /\ \A n \in 1..Len(queue') : queue'[n] = queue[n + 1]
        /\ i = queue[1]
    BY <1>1, TailElements DEF Get
  <1>3. TypeOK'
    BY <1>1, <1>2 DEF TypeOK
  (* The rest of the queue holds other items than the one handed out. *)
  <1>4. \A n \in 1..Len(queue') : n + 1 \in 1..Len(queue) /\ queue[n + 1] # i
    BY <1>2 DEF NoDuplicates
  <1>5. QueuedIsDirtyAndIdle'
    BY <1>1, <1>2, <1>4 DEF QueuedIsDirtyAndIdle
  <1>6. NoDuplicates'
    <2> SUFFICES ASSUME NEW m \in 1..Len(queue'), NEW n \in 1..Len(queue'),
                        queue'[m] = queue'[n]
                 PROVE  m = n
      BY DEF NoDuplicates
    <2>1. m + 1 = n + 1
      BY <1>2, <1>4 DEF NoDuplicates
    <2> QED
      BY <2>1, <1>2
  <1>7. DirtyIsScheduled'
    <2> SUFFICES ASSUME NEW j \in dirty', j \notin processing'
                 PROVE  InQueue(j)'
      BY DEF DirtyIsScheduled
    <2>1. j # i /\ InQueue(j)
      BY <1>1 DEF DirtyIsScheduled
    <2>2. PICK n \in 1..Len(queue) : queue[n] = j
      BY <2>1 DEF InQueue
    <2>3. n - 1 \in 1..Len(queue') /\ queue'[n - 1] = queue[n]
      <3>1. n # 1
        BY <2>1, <2>2, <1>2
      <3>2. n - 1 \in 1..Len(queue') /\ (n - 1) + 1 = n
        BY <3>1, <1>2
      <3> QED
        BY <3>2, <1>2
    <2> QED
      BY <2>2, <2>3 DEF InQueue
  <1> QED
    BY <1>3, <1>5, <1>6, <1>7

LEMMA DonePreserves ==
  ASSUME NEW i \in processing, QueueInv, Done(i)
  PROVE  QueueInv'
  <1> USE DEF QueueInv
  <1>0. i \in Items
    BY DEF TypeOK
  <1>1. CASE i \notin dirty
    <2>1. processing' = processing \ {i} /\ UNCHANGED <<queue, dirty, shuttingDown>>
      BY <1>1 DEF Done
    <2> QED
      BY <1>1, <2>1 DEF TypeOK, QueuedIsDirtyAndIdle, NoDuplicates, DirtyIsScheduled, InQueue
  <1>2. CASE i \in dirty
    <2>1. /\ processing' = processing \ {i}
          /\ queue' = Append(queue, i)
          /\ UNCHANGED <<dirty, shuttingDown>>
      BY <1>2 DEF Done
    <2>2. /\ Append(queue, i) \in Seq(Items)
          /\ Len(queue) \in Nat
          /\ Len(queue') = Len(queue) + 1
          /\ \A n \in 1..Len(queue) : queue'[n] = queue[n]
          /\ queue'[Len(queue) + 1] = i
      BY <1>0, <2>1, AppendElements DEF TypeOK
    <2>3. TypeOK'
      BY <2>1, <2>2 DEF TypeOK
    <2>4. QueuedIsDirtyAndIdle' /\ NoDuplicates'
      BY <1>0, <1>2, <2>1, AppendPreserves DEF QueuedIsDirtyAndIdle
    <2>5. DirtyIsScheduled'
      <3>1. \A j \in Items : InQueue(j) => InQueue(j)'
        BY <2>2 DEF InQueue
      <3>2. InQueue(i)'
        BY <2>2 DEF InQueue
      <3> QED
        BY <2>1, <3>1, <3>2 DEF DirtyIsScheduled, TypeOK
    <2> QED
      BY <2>3, <2>4, <2>5
  <1> QED
    BY <1>1, <1>2

LEMMA NextPreserves ==
  ASSUME QueueInv, [Next]_wqVars
  PROVE  QueueInv'
  <1>1. ASSUME NEW i \in Items, Add(i) PROVE QueueInv'
    BY <1>1, AddPreserves
  <1>2. ASSUME NEW i \in Items, Get(i) PROVE QueueInv'
    BY <1>2, GetPreserves
  <1>3. ASSUME NEW i \in processing, Done(i) PROVE QueueInv'
    BY <1>3, DonePreserves
  <1>4. CASE ShutDown
    BY <1>4 DEF ShutDown, QueueInv, TypeOK, QueuedIsDirtyAndIdle, NoDuplicates,
                DirtyIsScheduled, InQueue
  <1>5. CASE UNCHANGED wqVars
    BY <1>5 DEF wqVars, QueueInv, TypeOK, QueuedIsDirtyAndIdle, NoDuplicates,
                DirtyIsScheduled, InQueue
  <1> QED
    BY <1>1, <1>2, <1>3, <1>4, <1>5 DEF Next

THEOREM QueueInvariant == Spec => []QueueInv
  BY InitInv, NextPreserves, PTL DEF Spec

-----------------------------------------------------------------------------
(* The type invariant of the work queue, for any set of items. *)
THEOREM TypeCorrect == Spec => []TypeOK
  <1>1. QueueInv => TypeOK
    BY DEF QueueInv
  <1> QED
    BY <1>1, QueueInvariant, PTL

(* "Every element of queue should be in the dirty set and not in the        *)
(* processing set" (queue.go 73).                                           *)
THEOREM QueuedItemsAreDirtyAndIdle == Spec => []QueuedIsDirtyAndIdle
  <1>1. QueueInv => QueuedIsDirtyAndIdle
    BY DEF QueueInv
  <1> QED
    BY <1>1, QueueInvariant, PTL

(* No item is queued twice: two workers never get the same item. *)
THEOREM NoItemQueuedTwice == Spec => []NoDuplicates
  <1>1. QueueInv => NoDuplicates
    BY DEF QueueInv
  <1> QED
    BY <1>1, QueueInvariant, PTL

(* An item that needs processing is in the queue or will be put back there  *)
(* by the Done of the worker that holds it (queue.go 81-84): no Add is lost.*)
THEOREM NoAddIsLost == Spec => []DirtyIsScheduled
  <1>1. QueueInv => DirtyIsScheduled
    BY DEF QueueInv
  <1> QED
    BY <1>1, QueueInvariant, PTL

-----------------------------------------------------------------------------
(* Each step of the work queue is a step of the abstract bookkeeping of     *)
(* pending work, or a stutter: the safety part of ImplementsPendingWork.    *)
LEMMA StepRefines ==
  ASSUME QueueInv, [Next]_wqVars
  PROVE  [Pending!Next]_Pending!vars
  <1> USE DEF Pending!Next, Pending!vars
  <1>1. ASSUME NEW i \in Items, Add(i) PROVE [Pending!Next]_Pending!vars
    <2>1. CASE shuttingDown
      BY <1>1, <2>1 DEF Add
    <2>2. CASE ~shuttingDown
      BY <1>1, <2>2 DEF Add, Pending!Request
    <2> QED
      BY <2>1, <2>2
  <1>2. ASSUME NEW i \in Items, Get(i) PROVE [Pending!Next]_Pending!vars
    <2>1. i = queue[1] /\ 1 \in 1..Len(queue)
      BY <1>2, TailElements DEF Get, QueueInv, TypeOK
    <2>2. i \in dirty \ processing
      BY <2>1 DEF QueueInv, QueuedIsDirtyAndIdle
    <2> QED
      BY <1>2, <2>2 DEF Get, Pending!Start
  <1>3. ASSUME NEW i \in processing, Done(i) PROVE [Pending!Next]_Pending!vars
    BY <1>3 DEF Done, Pending!Finish, QueueInv, TypeOK
  <1>4. CASE ShutDown
    BY <1>4 DEF ShutDown, Pending!Close
  <1>5. CASE UNCHANGED wqVars
    BY <1>5 DEF wqVars
  <1> QED
    BY <1>1, <1>2, <1>3, <1>4, <1>5 DEF Next

(* The work queue implements PendingWork: it neither invents nor drops      *)
(* work, and never hands out an item that is being worked on.               *)
THEOREM RefinesPendingWork == Spec => Pending!Spec
  <1>1. Init => Pending!Init
    BY DEF Init, Pending!Init
  <1> QED
    BY <1>1, QueueInvariant, StepRefines, PTL DEF Spec, Pending!Spec
=============================================================================
