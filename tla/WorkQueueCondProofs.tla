------------------------- MODULE WorkQueueCondProofs -------------------------
(***************************************************************************)
(* Proofs about the blocking work queue, for any items and any finite set   *)
(* of workers.  Its steps are steps of the plain queue, so the invariant of *)
(* WorkQueueProofs holds; beside it the argument needs to know who may be   *)
(* waiting: before the shutdown only workers, after it only a caller of     *)
(* ShutDownWithDrain.  So while a worker sleeps a Signal wakes a worker,    *)
(* while that caller sleeps a Signal wakes it, and the last worker to leave *)
(* leaves nothing in the queue.                                             *)
(***************************************************************************)
EXTENDS WorkQueueCond, TLAPS, SequenceTheorems, FiniteSetTheorems

WQP == INSTANCE WorkQueueProofs

WhoWaits ==
  /\ \A w \in Workers : w \in waiting => worker[w] = "get" /\ ~shuttingDown
  /\ \A c \in Callers : c \in waiting => caller[c] = "isProcessing"
  /\ \A c \in Callers : caller[c] \notin {"idle", "shutdown"} => shuttingDown

IInv == TypeOK /\ WQ!QueueInv /\ HeldByOneWorker /\ WhoWaits /\ NoWorkerSleepsOnWork

Rest == /\ drain \in BOOLEAN
        /\ waiting \in SUBSET (Workers \cup Callers)
        /\ worker \in [Workers -> Items \cup {"get", "left"}]
        /\ caller \in [Callers -> {"idle", "shutdown", "isProcessing", "shouldDrain",
                                   "waitForProcessing", "returned"}]

LEMMA Distinct ==
  /\ "get" \notin Items /\ "left" \notin Items
  /\ \A w \in Workers : w \notin Callers
  BY WorkersAssumption

LEMMA InitInv == Init => IInv
  <1> SUFFICES ASSUME Init PROVE IInv
    OBVIOUS
  <1>1. WQP!Init => WQP!QueueInv
    BY WQP!InitInv
  <1>2. WQ!QueueInv /\ WQ!TypeOK
    BY <1>1 DEF Init, WQ!Init, WQP!Init, WQP!QueueInv, WQ!QueueInv, WQP!TypeOK, WQ!TypeOK,
            WQP!QueuedIsDirtyAndIdle, WQ!QueuedIsDirtyAndIdle, WQP!NoDuplicates,
            WQ!NoDuplicates, WQP!DirtyIsScheduled, WQ!DirtyIsScheduled, WQP!InQueue, WQ!InQueue
  <1>3. TypeOK
    BY <1>2 DEF Init, TypeOK
  <1>4. HeldByOneWorker /\ WhoWaits /\ NoWorkerSleepsOnWork
    BY Distinct DEF Init, WQ!Init, HeldByOneWorker, WhoWaits, NoWorkerSleepsOnWork, Sleeping
  <1> QED
    BY <1>2, <1>3, <1>4 DEF IInv

-----------------------------------------------------------------------------
(* The queue inside. *)

LEMMA StepIsQueueStep ==
  ASSUME IInv, [Next]_vars
  PROVE  [WQ!Next]_wqVars
  <1> USE DEF WQ!Next, WQ!wqVars, wqVars
  <1>1. ASSUME NEW i \in Items, Add(i) PROVE WQ!Next
    BY <1>1 DEF Add
  <1>2. ASSUME NEW w \in Workers, Wait(w) \/ Leave(w) PROVE UNCHANGED wqVars
    BY <1>2 DEF Wait, Leave
  <1>3. ASSUME NEW w \in Workers, Take(w) PROVE WQ!Next
    BY <1>3 DEF Take
  <1>4. ASSUME NEW w \in Workers, Done(w) PROVE WQ!Next
    <2>1. worker[w] \in processing
      BY <1>4 DEF Done, IInv, HeldByOneWorker
    <2> QED
      BY <1>4, <2>1 DEF Done
  <1>5. ASSUME NEW c \in Callers, Close(c) PROVE WQ!Next
    BY <1>5 DEF Close
  <1>6. ASSUME NEW c \in Callers,
               SetDrain(c) \/ IsProcessing(c) \/ ShouldDrain(c) \/ WaitForProcessing(c)
        PROVE  UNCHANGED wqVars
    BY <1>6 DEF SetDrain, IsProcessing, ShouldDrain, WaitForProcessing
  <1>7. ASSUME UNCHANGED vars PROVE UNCHANGED wqVars
    BY <1>7 DEF vars
  <1> QED
    BY <1>1, <1>2, <1>3, <1>4, <1>5, <1>6, <1>7 DEF Next, Work, Shut

LEMMA QueuePreserved ==
  ASSUME IInv, [Next]_vars
  PROVE  WQ!QueueInv'
  <1>1. [WQ!Next]_wqVars
    BY StepIsQueueStep
  <1>2. [WQP!Next]_WQP!wqVars
    BY <1>1 DEF wqVars, WQP!wqVars, WQ!Next, WQP!Next, WQ!Add, WQP!Add, WQ!Get, WQP!Get,
            WQ!Done, WQP!Done, WQ!ShutDown, WQP!ShutDown
  <1>3. WQP!QueueInv
    BY DEF IInv, WQP!QueueInv, WQ!QueueInv, WQP!TypeOK, WQ!TypeOK, WQP!QueuedIsDirtyAndIdle,
           WQ!QueuedIsDirtyAndIdle, WQP!NoDuplicates, WQ!NoDuplicates,
           WQP!DirtyIsScheduled, WQ!DirtyIsScheduled, WQP!InQueue, WQ!InQueue
  <1>4. WQP!QueueInv'
    BY <1>2, <1>3, WQP!NextPreserves
  <1> QED
    BY <1>4 DEF WQP!QueueInv, WQ!QueueInv, WQP!TypeOK, WQ!TypeOK, WQP!QueuedIsDirtyAndIdle,
           WQ!QueuedIsDirtyAndIdle, WQP!NoDuplicates, WQ!NoDuplicates,
           WQP!DirtyIsScheduled, WQ!DirtyIsScheduled, WQP!InQueue, WQ!InQueue

(* What a Signal may do to the set of waiters. *)
LEMMA SignalWakes ==
  ASSUME Signal
  PROVE  /\ waiting' \subseteq waiting
         /\ waiting' # {} => \E g \in waiting : waiting' = waiting \ {g}
  BY DEF Signal

-----------------------------------------------------------------------------
(* Types, and who may be waiting. *)

LEMMA RestPreserved ==
  ASSUME IInv, [Next]_vars
  PROVE  Rest' /\ WhoWaits'
  <1> USE DEF IInv, TypeOK, Rest, WhoWaits
  <1>1. ASSUME NEW i \in Items, Add(i) PROVE Rest' /\ WhoWaits'
    <2>1. waiting' \subseteq waiting /\ UNCHANGED <<drain, worker, caller, shuttingDown>>
      BY <1>1, SignalWakes DEF Add, WQ!Add
    <2> QED
      BY <2>1
  <1>2. ASSUME NEW w \in Workers, Wait(w) PROVE Rest' /\ WhoWaits'
    <2>1. /\ waiting' = waiting \cup {w}
          /\ worker[w] = "get" /\ ~shuttingDown /\ w \notin Callers
          /\ UNCHANGED <<drain, worker, caller, shuttingDown>>
      BY <1>2, Distinct DEF Wait, InGet, wqVars
    <2> QED
      BY <2>1
  <1>3. ASSUME NEW w \in Workers, Leave(w) PROVE Rest' /\ WhoWaits'
    <2>1. /\ worker' = [worker EXCEPT ![w] = "left"] /\ w \notin waiting
          /\ UNCHANGED <<drain, waiting, caller, shuttingDown>>
      BY <1>3 DEF Leave, InGet, wqVars
    <2> QED
      BY <2>1
  <1>4. ASSUME NEW w \in Workers, Take(w) PROVE Rest' /\ WhoWaits'
    <2>1. PICK i \in Items : WQ!Get(i) /\ worker' = [worker EXCEPT ![w] = i]
      BY <1>4 DEF Take
    <2>2. w \notin waiting /\ UNCHANGED <<drain, waiting, caller, shuttingDown>>
      BY <1>4, <2>1 DEF Take, InGet, WQ!Get
    <2> QED
      BY <2>1, <2>2
  <1>5. ASSUME NEW w \in Workers, Done(w) PROVE Rest' /\ WhoWaits'
    <2>1. /\ worker' = [worker EXCEPT ![w] = "get"]
          /\ waiting' \subseteq waiting
          /\ UNCHANGED <<drain, caller, shuttingDown>>
      BY <1>5, SignalWakes DEF Done, WQ!Done
    <2>2. w \notin waiting
      BY <1>5, Distinct DEF Done
    <2> QED
      BY <2>1, <2>2
  <1>6. ASSUME NEW c \in Callers, SetDrain(c) PROVE Rest' /\ WhoWaits'
    <2>1. /\ caller[c] = "idle" /\ caller' = [caller EXCEPT ![c] = "shutdown"]
          /\ drain' \in BOOLEAN
          /\ UNCHANGED <<waiting, worker, shuttingDown>>
      BY <1>6 DEF SetDrain, Goto, wqVars
    <2> QED
      BY <2>1
  <1>7. ASSUME NEW c \in Callers, Close(c) PROVE Rest' /\ WhoWaits'
    <2>1. /\ caller' \in [Callers -> {"idle", "shutdown", "isProcessing", "shouldDrain",
                                     "waitForProcessing", "returned"}]
          /\ waiting' = {} /\ shuttingDown'
          /\ UNCHANGED <<drain, worker>>
      BY <1>7 DEF Close, Goto, Broadcast, WQ!ShutDown
    <2> QED
      BY <2>1
  <1>8. ASSUME NEW c \in Callers, IsProcessing(c) \/ ShouldDrain(c) PROVE Rest' /\ WhoWaits'
    <2>1. PICK pc \in {"returned", "shouldDrain", "waitForProcessing"} :
            caller' = [caller EXCEPT ![c] = pc]
      BY <1>8 DEF IsProcessing, ShouldDrain, Goto
    <2>2. /\ caller[c] \notin {"idle", "shutdown"} /\ c \notin waiting
          /\ UNCHANGED <<drain, waiting, worker, shuttingDown>>
      BY <1>8 DEF IsProcessing, ShouldDrain, wqVars
    <2> QED
      BY <2>1, <2>2
  <1>9. ASSUME NEW c \in Callers, WaitForProcessing(c) PROVE Rest' /\ WhoWaits'
    <2>1. /\ caller[c] = "waitForProcessing" /\ caller' = [caller EXCEPT ![c] = "isProcessing"]
          /\ waiting' \in {waiting, waiting \cup {c}}
          /\ UNCHANGED <<drain, worker, shuttingDown>>
      BY <1>9 DEF WaitForProcessing, Goto, wqVars
    <2>2. \A w \in Workers : w # c
      BY Distinct
    <2> QED
      BY <2>1, <2>2
  <1>10. ASSUME UNCHANGED vars PROVE Rest' /\ WhoWaits'
    BY <1>10 DEF vars, wqVars
  <1> QED
    BY <1>1, <1>2, <1>3, <1>4, <1>5, <1>6, <1>7, <1>8, <1>9, <1>10 DEF Next, Work, Shut

-----------------------------------------------------------------------------
(* Each item that is being processed is held by one worker. *)

Holders == {v \in Workers : worker[v] \in Items}

LEMMA HeldPreserved ==
  ASSUME IInv, [Next]_vars
  PROVE  HeldByOneWorker'
  <1> USE DEF HeldByOneWorker
  <1>0. worker \in [Workers -> Items \cup {"get", "left"}] /\ HeldByOneWorker
    BY DEF IInv, TypeOK
  <1>1. ASSUME UNCHANGED <<processing, worker>> PROVE HeldByOneWorker'
    BY <1>0, <1>1
  <1>2. ASSUME NEW w \in Workers, Leave(w) PROVE HeldByOneWorker'
    <2>1. worker' = [worker EXCEPT ![w] = "left"] /\ worker[w] = "get" /\ UNCHANGED processing
      BY <1>2 DEF Leave, InGet, wqVars
    <2> QED
      BY <1>0, <2>1, Distinct
  <1>3. ASSUME NEW w \in Workers, Take(w) PROVE HeldByOneWorker'
    <2>1. PICK i \in Items : WQ!Get(i) /\ worker' = [worker EXCEPT ![w] = i]
      BY <1>3 DEF Take
    <2>2. worker[w] = "get" /\ processing' = processing \cup {i}
      BY <1>3, <2>1 DEF Take, InGet, WQ!Get
    <2>3. i \notin processing
      <3>1. queue \in Seq(Items) /\ queue # << >> /\ i = Head(queue)
        BY <2>1 DEF WQ!Get, IInv, TypeOK, WQ!TypeOK
      <3>2. i = queue[1] /\ 1 \in 1..Len(queue)
        BY <3>1, WQP!TailElements
      <3> QED
        BY <3>2 DEF IInv, WQ!QueueInv, WQ!QueuedIsDirtyAndIdle
    <2> QED
      BY <1>0, <2>1, <2>2, <2>3, Distinct
  <1>4. ASSUME NEW w \in Workers, Done(w) PROVE HeldByOneWorker'
    <2>1. /\ worker[w] \in Items
          /\ worker' = [worker EXCEPT ![w] = "get"]
          /\ processing' = processing \ {worker[w]}
      BY <1>4 DEF Done, WQ!Done
    <2> QED
      BY <1>0, <2>1, Distinct
  <1>5. ASSUME NEW i \in Items, Add(i) PROVE UNCHANGED <<processing, worker>>
    BY <1>5 DEF Add, WQ!Add
  <1>6. ASSUME NEW w \in Workers, Wait(w) PROVE UNCHANGED <<processing, worker>>
    BY <1>6 DEF Wait, wqVars
  <1>7. ASSUME NEW c \in Callers, SetDrain(c) \/ Shut(c) PROVE UNCHANGED <<processing, worker>>
    BY <1>7 DEF Shut, SetDrain, Close, IsProcessing, ShouldDrain, WaitForProcessing, wqVars,
                WQ!ShutDown
  <1>8. ASSUME UNCHANGED vars PROVE UNCHANGED <<processing, worker>>
    BY <1>8 DEF vars, wqVars
  <1> QED
    BY <1>1, <1>2, <1>3, <1>4, <1>5, <1>6, <1>7, <1>8 DEF Next, Work

-----------------------------------------------------------------------------
(* No wake-up is lost. *)

LEMMA AwakeCounts ==
  /\ IsFiniteSet(Awake) /\ Cardinality(Awake) \in Nat
  /\ IsFiniteSet(Awake') /\ Cardinality(Awake') \in Nat
  /\ Awake \subseteq Awake' => Cardinality(Awake) <= Cardinality(Awake')
  /\ \A w : w \notin Awake /\ Awake \cup {w} \subseteq Awake' =>
       Cardinality(Awake) + 1 <= Cardinality(Awake')
  <1>1. Awake \subseteq Workers /\ Awake' \subseteq Workers
    BY DEF Awake
  <1>2. IsFiniteSet(Awake) /\ IsFiniteSet(Awake')
    BY <1>1, WorkersAssumption, FS_Subset
  <1>3. Cardinality(Awake) \in Nat /\ Cardinality(Awake') \in Nat
    BY <1>2, FS_CardinalityType
  <1>4. Awake \subseteq Awake' => Cardinality(Awake) <= Cardinality(Awake')
    BY <1>2, FS_Subset
  <1>5. ASSUME NEW w, w \notin Awake, Awake \cup {w} \subseteq Awake'
        PROVE  Cardinality(Awake) + 1 <= Cardinality(Awake')
    <2>1. Cardinality(Awake \cup {w}) = Cardinality(Awake) + 1
      BY <1>2, <1>5, FS_AddElement
    <2> QED
      BY <1>2, <1>5, <2>1, FS_Subset
  <1> QED
    BY <1>2, <1>3, <1>4, <1>5

LEMMA OneMoreAwake ==
  ASSUME NEW w, w \notin Awake, Awake \cup {w} \subseteq Awake'
  PROVE  Cardinality(Awake) + 1 <= Cardinality(Awake')
  BY AwakeCounts

LEMMA OneLessAwake ==
  ASSUME NEW w, w \in Awake, Awake' = Awake \ {w}
  PROVE  Cardinality(Awake') = Cardinality(Awake) - 1
  BY AwakeCounts, FS_RemoveElement

LEMMA LenIsNat == ASSUME IInv, WQ!QueueInv' PROVE Len(queue) \in Nat /\ Len(queue') \in Nat
  BY LenProperties DEF IInv, WQ!QueueInv, WQ!TypeOK

LEMMA SleepPreserved ==
  ASSUME IInv, [Next]_vars
  PROVE  NoWorkerSleepsOnWork'
  <1> USE DEF NoWorkerSleepsOnWork
  <1> SUFFICES ASSUME Sleeping' # {} PROVE Len(queue') <= Cardinality(Awake')
    OBVIOUS
  <1>0. /\ queue \in Seq(Items)
        /\ worker \in [Workers -> Items \cup {"get", "left"}]
        /\ WhoWaits
        /\ Sleeping # {} => Len(queue) <= Cardinality(Awake)
    BY DEF IInv, TypeOK, WQ!TypeOK
  <1>a. Len(queue) \in Nat /\ Len(queue') \in Nat
    BY LenIsNat, QueuePreserved
  <1>b. /\ Cardinality(Awake) \in Nat /\ Cardinality(Awake') \in Nat
    BY AwakeCounts
  <1>1. ASSUME UNCHANGED <<queue, worker>>, waiting' \cap Workers = waiting \cap Workers
        PROVE  Len(queue') <= Cardinality(Awake')
    <2>1. Awake' = Awake /\ Sleeping # {}
      BY <1>1 DEF Awake, InGet, Sleeping
    <2> QED
      BY <1>0, <1>1, <1>a, <1>b, <2>1
  <1>2. ASSUME NEW i \in Items, Add(i) PROVE Len(queue') <= Cardinality(Awake')
    <2>1. CASE shuttingDown \/ i \in dirty \cup processing
      BY <1>1, <1>2, <2>1 DEF Add, WQ!Add
    <2>2. CASE ~shuttingDown /\ i \notin dirty \cup processing
      <3>1. Signal /\ queue' = Append(queue, i) /\ UNCHANGED worker
        BY <1>2, <2>2 DEF Add, WQ!Add
      <3>2. PICK g \in waiting : waiting' = waiting \ {g}
        BY <3>1, SignalWakes DEF Sleeping
      (* Before the shutdown whoever is woken is a worker in Get. *)
      <3>3. g \in Workers /\ worker[g] = "get"
        BY <1>0, <2>2 DEF WhoWaits, IInv, TypeOK
      <3>4. g \notin Awake /\ Awake \cup {g} \subseteq Awake' /\ Sleeping # {}
        BY <3>1, <3>2, <3>3 DEF Awake, InGet, Sleeping
      <3>4a. Cardinality(Awake) + 1 <= Cardinality(Awake')
        BY <3>4, OneMoreAwake
      <3>5. Len(queue') = Len(queue) + 1
        BY <1>0, <3>1, AppendProperties
      <3> QED
        BY <1>0, <1>a, <1>b, <3>4, <3>4a, <3>5
    <2> QED
      BY <2>1, <2>2
  <1>3. ASSUME NEW w \in Workers, Wait(w) PROVE Len(queue') <= Cardinality(Awake')
    <2>1. Len(queue') = 0
      BY <1>0, <1>3, EmptySeq DEF Wait, wqVars
    <2> QED
      BY <1>b, <2>1
  <1>4. ASSUME NEW w \in Workers, Leave(w) PROVE FALSE
    BY <1>0, <1>4 DEF Leave, WhoWaits, Sleeping
  <1>5. ASSUME NEW w \in Workers, Take(w) PROVE Len(queue') <= Cardinality(Awake')
    <2>1. PICK i \in Items : WQ!Get(i) /\ worker' = [worker EXCEPT ![w] = i]
      BY <1>5 DEF Take
    <2>2. w \in Awake /\ Awake' = Awake \ {w} /\ Sleeping # {}
      BY <1>0, <1>5, <2>1, Distinct DEF Take, Awake, InGet, Sleeping
    <2>3. Cardinality(Awake') = Cardinality(Awake) - 1
      BY <2>2, OneLessAwake
    <2>4. Len(queue') = Len(queue) - 1
      BY <1>0, <2>1, WQP!TailElements DEF WQ!Get
    <2> QED
      BY <1>0, <1>a, <1>b, <2>2, <2>3, <2>4
  <1>6. ASSUME NEW w \in Workers, Done(w) PROVE Len(queue') <= Cardinality(Awake')
    <2>1. /\ worker[w] \in Items
          /\ worker' = [worker EXCEPT ![w] = "get"]
          /\ waiting' \subseteq waiting
          /\ queue' \in {queue, Append(queue, worker[w])}
      BY <1>6, SignalWakes DEF Done, WQ!Done
    <2>2. w \notin Awake /\ w \notin waiting
      BY <1>0, <2>1, Distinct DEF WhoWaits, Awake, InGet
    <2>3. Awake \cup {w} \subseteq Awake' /\ Sleeping # {}
      BY <1>0, <2>1, <2>2 DEF Awake, InGet, Sleeping
    <2>3a. Cardinality(Awake) + 1 <= Cardinality(Awake')
      BY <2>2, <2>3, OneMoreAwake
    <2>4. Len(queue') <= Len(queue) + 1
      BY <1>0, <1>a, <2>1, AppendProperties
    <2> QED
      BY <1>0, <1>a, <1>b, <2>3, <2>3a, <2>4
  <1>7. ASSUME NEW c \in Callers, Close(c) PROVE FALSE
    BY <1>7 DEF Close, Broadcast, Sleeping
  <1>8. ASSUME NEW c \in Callers,
               SetDrain(c) \/ IsProcessing(c) \/ ShouldDrain(c) \/ WaitForProcessing(c)
        PROVE  Len(queue') <= Cardinality(Awake')
    <2>1. /\ UNCHANGED <<queue, worker>>
          /\ waiting' \in {waiting, waiting \cup {c}}
      BY <1>8 DEF SetDrain, IsProcessing, ShouldDrain, WaitForProcessing, wqVars
    <2> QED
      BY <1>1, <2>1, Distinct
  <1>9. ASSUME UNCHANGED vars PROVE Len(queue') <= Cardinality(Awake')
    BY <1>1, <1>9 DEF vars, wqVars
  <1> QED
    BY <1>2, <1>3, <1>4, <1>5, <1>6, <1>7, <1>8, <1>9 DEF Next, Work, Shut

LEMMA NextPreserves ==
  ASSUME IInv, [Next]_vars
  PROVE  IInv'
  <1>1. TypeOK'
    BY QueuePreserved, RestPreserved DEF Rest, TypeOK, WQ!QueueInv
  <1> QED
    BY <1>1, QueuePreserved, RestPreserved, HeldPreserved, SleepPreserved DEF IInv

THEOREM Invariant == Spec => []IInv
  BY InitInv, NextPreserves, PTL DEF Spec

-----------------------------------------------------------------------------
(* Workers leave after the shutdown only, and the last one finds nothing.   *)

LeftAfterShutdown == \A w \in Workers : worker[w] = "left" => shuttingDown

LEMMA LeftPreserved ==
  ASSUME IInv, LeftAfterShutdown, [Next]_vars
  PROVE  LeftAfterShutdown'
  <1> USE DEF LeftAfterShutdown
  <1>0. worker \in [Workers -> Items \cup {"get", "left"}]
    BY DEF IInv, TypeOK
  <1>1. ASSUME NEW w \in Workers, Leave(w) PROVE LeftAfterShutdown'
    BY <1>1 DEF Leave, wqVars
  <1>2. ASSUME NEW w \in Workers, Take(w) PROVE LeftAfterShutdown'
    <2>1. PICK i \in Items : WQ!Get(i) /\ worker' = [worker EXCEPT ![w] = i]
      BY <1>2 DEF Take
    <2> QED
      BY <1>0, <2>1, Distinct DEF WQ!Get
  <1>3. ASSUME NEW w \in Workers, Done(w) PROVE LeftAfterShutdown'
    BY <1>0, <1>3 DEF Done, WQ!Done
  <1>4. ASSUME NEW c \in Callers, Close(c) PROVE LeftAfterShutdown'
    BY <1>4 DEF Close, WQ!ShutDown
  <1>5. ASSUME NEW i \in Items, Add(i) PROVE UNCHANGED <<worker, shuttingDown>>
    BY <1>5 DEF Add, WQ!Add
  <1>6. ASSUME NEW w \in Workers, Wait(w) PROVE UNCHANGED <<worker, shuttingDown>>
    BY <1>6 DEF Wait, wqVars
  <1>7. ASSUME NEW c \in Callers,
               SetDrain(c) \/ IsProcessing(c) \/ ShouldDrain(c) \/ WaitForProcessing(c)
        PROVE  UNCHANGED <<worker, shuttingDown>>
    BY <1>7 DEF SetDrain, IsProcessing, ShouldDrain, WaitForProcessing, wqVars
  <1>8. ASSUME UNCHANGED vars PROVE UNCHANGED <<worker, shuttingDown>>
    BY <1>8 DEF vars, wqVars
  <1> QED
    BY <1>1, <1>2, <1>3, <1>4, <1>5, <1>6, <1>7, <1>8 DEF Next, Work, Shut

AllLeft == Workers # {} /\ \A w \in Workers : worker[w] = "left"

(* Whoever leaves last holds nothing, finds the queue empty, and what is    *)
(* dirty would be queued or held. *)
LEMMA NothingLeftPreserved ==
  ASSUME IInv, LeftAfterShutdown, NothingLeftBehind, [Next]_vars
  PROVE  NothingLeftBehind'
  <1> USE DEF NothingLeftBehind
  <1>0. /\ worker \in [Workers -> Items \cup {"get", "left"}]
        /\ processing = {worker[w] : w \in {v \in Workers : worker[v] \in Items}}
    BY DEF IInv, TypeOK, HeldByOneWorker
  <1>1. ASSUME UNCHANGED <<worker, wqVars>> PROVE NothingLeftBehind'
    BY <1>1 DEF wqVars
  <1>2. ASSUME NEW w \in Workers, Leave(w) PROVE NothingLeftBehind'
    <2> SUFFICES ASSUME AllLeft' PROVE queue' = << >> /\ dirty' = {} /\ processing' = {}
      BY DEF AllLeft
    <2>1. /\ worker[w] = "get" /\ worker' = [worker EXCEPT ![w] = "left"]
          /\ queue = << >> /\ UNCHANGED <<queue, dirty, processing>>
      BY <1>2 DEF Leave, InGet, wqVars
    <2>2. \A v \in Workers : worker[v] \notin Items
      BY <1>0, <2>1, Distinct DEF AllLeft
    <2>3. processing = {}
      BY <1>0, <2>2
    <2>4. dirty \in SUBSET Items /\ \A i \in dirty : i \in processing \/ WQ!InQueue(i)
      BY DEF IInv, WQ!QueueInv, WQ!TypeOK, WQ!DirtyIsScheduled
    <2>5. \A i \in dirty : ~WQ!InQueue(i)
      BY <2>1, EmptySeq DEF WQ!InQueue
    <2> QED
      BY <2>1, <2>3, <2>4, <2>5
  <1>3. ASSUME NEW w \in Workers, Take(w) \/ Done(w) PROVE ~AllLeft'
    <2>1. worker'[w] \in Items \cup {"get"}
      BY <1>0, <1>3 DEF Take, Done
    <2> QED
      BY <2>1, Distinct DEF AllLeft
  <1>4. ASSUME NEW i \in Items, Add(i) PROVE NothingLeftBehind'
    <2>1. CASE shuttingDown
      BY <1>4, <2>1 DEF Add, WQ!Add
    <2>2. CASE ~shuttingDown
      BY <1>4, <2>2 DEF Add, LeftAfterShutdown
    <2> QED
      BY <2>1, <2>2
  <1>5. ASSUME NEW c \in Callers, Close(c) PROVE NothingLeftBehind'
    BY <1>5 DEF Close, WQ!ShutDown
  <1>6. ASSUME NEW w \in Workers, Wait(w) PROVE UNCHANGED <<worker, wqVars>>
    BY <1>6 DEF Wait
  <1>7. ASSUME NEW c \in Callers,
               SetDrain(c) \/ IsProcessing(c) \/ ShouldDrain(c) \/ WaitForProcessing(c)
        PROVE  UNCHANGED <<worker, wqVars>>
    BY <1>7 DEF SetDrain, IsProcessing, ShouldDrain, WaitForProcessing
  <1>8. ASSUME UNCHANGED vars PROVE UNCHANGED <<worker, wqVars>>
    BY <1>8 DEF vars
  <1> QED
    BY <1>1, <1>2, <1>3, <1>4, <1>5, <1>6, <1>7, <1>8 DEF Next, Work, Shut, AllLeft

-----------------------------------------------------------------------------
(* A caller sleeps only while a Done is to come.                            *)

(* ShutDown does not wait; what ShutDownWithDrain goes by.                  *)
DrainInv ==
  /\ caller["ShutDown"] \in {"idle", "shutdown", "returned"}
  /\ waiting \cap Callers # {} => processing # {}

LEMMA DrainPreserved ==
  ASSUME IInv, DrainInv, [Next]_vars
  PROVE  DrainInv'
  <1> USE DEF DrainInv
  <1>0. /\ caller \in [Callers -> {"idle", "shutdown", "isProcessing", "shouldDrain",
                                   "waitForProcessing", "returned"}]
        /\ waiting \in SUBSET (Workers \cup Callers)
        /\ WhoWaits /\ processing \in SUBSET Items
    BY DEF IInv, TypeOK, WQ!TypeOK
  (* Who waits while a caller does. *)
  <1>a. waiting \cap Callers # {} => waiting = {"ShutDownWithDrain"}
    <2>1. \A c \in Callers : c \in waiting => c = "ShutDownWithDrain" /\ shuttingDown
      BY <1>0 DEF WhoWaits, Callers
    <2> QED
      BY <1>0, <2>1 DEF WhoWaits
  <1>1. ASSUME waiting' \subseteq waiting, processing \subseteq processing', UNCHANGED caller
        PROVE  DrainInv'
    BY <1>1
  <1>2. ASSUME NEW i \in Items, Add(i) PROVE DrainInv'
    <2>1. waiting' \subseteq waiting /\ UNCHANGED <<processing, caller>>
      BY <1>2, SignalWakes DEF Add, WQ!Add
    <2> QED
      BY <1>1, <2>1
  <1>3. ASSUME NEW w \in Workers, Wait(w) PROVE DrainInv'
    BY <1>3, Distinct DEF Wait, wqVars
  <1>4. ASSUME NEW w \in Workers, Leave(w) \/ Take(w) PROVE DrainInv'
    <2>1. UNCHANGED <<waiting, caller>> /\ processing \subseteq processing'
      BY <1>4 DEF Leave, Take, WQ!Get, wqVars
    <2> QED
      BY <1>1, <2>1
  <1>5. ASSUME NEW w \in Workers, Done(w) PROVE DrainInv'
    <2>1. waiting' \subseteq waiting /\ UNCHANGED caller
      BY <1>5, SignalWakes DEF Done
    <2>2. CASE processing' # {}
      BY <2>1, <2>2
    <2>3. CASE processing' = {}
      <3>1. Signal
        BY <1>5, <2>3 DEF Done
      <3>2. waiting' \cap Callers = {}
        BY <1>a, <2>1, <3>1, SignalWakes
      <3> QED
        BY <2>1, <3>2
    <2> QED
      BY <2>2, <2>3
  <1>6. ASSUME NEW c \in Callers, SetDrain(c) \/ Close(c) PROVE DrainInv'
    <2>1. /\ waiting' \subseteq waiting /\ UNCHANGED processing
          /\ \/ caller' = [caller EXCEPT ![c] = "shutdown"]
             \/ caller' = [caller EXCEPT ![c] = "returned"]
             \/ c # "ShutDown" /\ caller' = [caller EXCEPT ![c] = "isProcessing"]
      BY <1>6 DEF SetDrain, Close, Goto, Broadcast, WQ!ShutDown, wqVars
    <2> QED
      BY <1>0, <2>1 DEF Callers
  <1>7. ASSUME NEW c \in Callers, IsProcessing(c) \/ ShouldDrain(c) \/ WaitForProcessing(c)
        PROVE  DrainInv'
    <2>1. c # "ShutDown" /\ \E pc : caller' = [caller EXCEPT ![c] = pc]
      BY <1>7 DEF IsProcessing, ShouldDrain, WaitForProcessing, Goto
    <2>2. UNCHANGED processing /\ (waiting' = waiting \/ processing # {})
      BY <1>7 DEF IsProcessing, ShouldDrain, WaitForProcessing, wqVars
    <2> QED
      BY <1>0, <2>1, <2>2 DEF Callers
  <1>8. ASSUME UNCHANGED vars PROVE DrainInv'
    BY <1>8 DEF vars, wqVars
  <1> QED
    BY <1>2, <1>3, <1>4, <1>5, <1>6, <1>7, <1>8 DEF Next, Work, Shut

-----------------------------------------------------------------------------
(* Types of the queue, its waiters, the workers and the callers. *)
THEOREM TypeCorrect == Spec => []TypeOK
  <1>1. IInv => TypeOK
    BY DEF IInv
  <1> QED
    BY <1>1, Invariant, PTL

(* A sleeping worker is never needed: as many workers are awake as there    *)
(* are items in the queue, for any number of workers and items.             *)
THEOREM NoWakeUpIsLost == Spec => []NoWorkerSleepsOnWork
  <1>1. IInv => NoWorkerSleepsOnWork
    BY DEF IInv
  <1> QED
    BY <1>1, Invariant, PTL

(* What is being processed is in the hands of one worker. *)
THEOREM ItemsHaveOneHolder == Spec => []HeldByOneWorker
  <1>1. IInv => HeldByOneWorker
    BY DEF IInv
  <1> QED
    BY <1>1, Invariant, PTL

(* The last worker to leave leaves no work behind, for any number of        *)
(* workers and items, however late they are added again.                    *)
THEOREM WorkersLeaveNothingBehind == Spec => []NothingLeftBehind
  <1>1. Init => LeftAfterShutdown /\ NothingLeftBehind
    BY DEF Init, LeftAfterShutdown, NothingLeftBehind
  <1>2. IInv /\ LeftAfterShutdown /\ NothingLeftBehind /\ [Next]_vars
          => LeftAfterShutdown' /\ NothingLeftBehind'
    BY LeftPreserved, NothingLeftPreserved
  <1> QED
    BY <1>1, <1>2, Invariant, PTL DEF Spec

(* Who waits in ShutDownWithDrain is woken: a Done is to come, and nobody   *)
(* else waits that its Signal could wake instead.                           *)
THEOREM DrainSleepsUntilDone == Spec => []CallerSleepsUntilDone
  <1>1. Init => DrainInv
    BY DEF Init, DrainInv, Callers
  <1>2. IInv /\ DrainInv /\ [Next]_vars => DrainInv'
    BY DrainPreserved
  <1>3. IInv /\ DrainInv => CallerSleepsUntilDone
    BY DEF IInv, DrainInv, CallerSleepsUntilDone, WhoWaits, Sleeping
  <1> QED
    BY <1>1, <1>2, <1>3, Invariant, PTL DEF Spec

(* The blocking queue is a work queue: its steps are those of the plain one *)
(* or leave it alone (the safety part of ImplementsWorkQueue).              *)
THEOREM RefinesWorkQueue == Spec => WQ!Spec
  <1>1. Init => WQ!Init
    BY DEF Init
  <1>2. IInv /\ [Next]_vars => [WQ!Next]_wqVars
    BY StepIsQueueStep
  <1>3. IInv /\ [Next]_vars => [WQ!Next]_WQ!wqVars
    BY <1>2 DEF WQ!wqVars, wqVars
  <1> QED
    BY <1>1, <1>3, Invariant, PTL DEF Spec, WQ!Spec
=============================================================================
