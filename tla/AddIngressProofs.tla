--------------------------- MODULE AddIngressProofs ---------------------------
(***************************************************************************)
(* Proofs about the addingress controller in its cluster, for any services, *)
(* workers, capacity, number of retries and of failures.  Each of its steps *)
(* is a step of the queue or leaves it alone, unless the process ends, and  *)
(* a step of each informer; so what is proved of the parts holds of them in *)
(* their places.  What is new is that workers hold what is in processing,   *)
(* and that no change of a service is forgotten between watch and queue.    *)
(***************************************************************************)
EXTENDS AddIngress, TLAPS, SequenceTheorems

RLQP == INSTANCE RateLimitedQueueProofs WITH MaxFailures <- MaxRetry
SvcP == INSTANCE InformerProofs WITH Keys <- Items, Objects <- Services,
          Handlers <- {"AddFunc", "UpdateFunc"}, store <- service,
          watch <- serviceWatch, cache <- serviceCache, notes <- serviceNotes
IngP == INSTANCE InformerProofs WITH Keys <- Items, Objects <- Ingresses,
          Handlers <- {"DeleteFunc"}, store <- ingress,
          watch <- ingressWatch, cache <- ingressCache, notes <- ingressNotes

-----------------------------------------------------------------------------
(* The two instances of each part are the same. *)
LEMMA SameServices ==
  /\ Svc!TypeOK <=> SvcP!TypeOK
  /\ Svc!CacheCatchesUp <=> SvcP!CacheCatchesUp
  /\ Svc!Init => SvcP!Init
  /\ \A k \in Items, obj \in Services \cup {Absent}, up \in BOOLEAN :
        Svc!Write(k, obj, up) => SvcP!Write(k, obj, up)
  /\ \A k \in Items : (Svc!Receive(k) => SvcP!Receive(k)) /\ (Svc!Take(k) => SvcP!Take(k))
  /\ Svc!Disconnect => SvcP!Disconnect
  /\ Svc!Stop => SvcP!Stop
  /\ Svc!Start => SvcP!Start
  <1> USE DEF Svc!MaybeObject, SvcP!MaybeObject, Svc!Event, SvcP!Event, Svc!Note, SvcP!Note,
        Svc!HandlerOf, SvcP!HandlerOf, Svc!Notify, SvcP!Notify, Svc!Empty, SvcP!Empty
  <1>1. Svc!TypeOK <=> SvcP!TypeOK
    BY DEF Svc!TypeOK, SvcP!TypeOK, Svc!Events, SvcP!Events, Svc!Notes, SvcP!Notes,
           Svc!HandlerNames, SvcP!HandlerNames
  <1>2. Svc!CacheCatchesUp <=> SvcP!CacheCatchesUp
    BY DEF Svc!CacheCatchesUp, SvcP!CacheCatchesUp
  <1>3. Svc!Init => SvcP!Init
    BY DEF Svc!Init, SvcP!Init
  <1>4. ASSUME NEW k \in Items, NEW obj \in Services \cup {Absent}, NEW up \in BOOLEAN,
               Svc!Write(k, obj, up)
        PROVE  SvcP!Write(k, obj, up)
    BY <1>4 DEF Svc!Write, SvcP!Write
  <1>5. ASSUME NEW k \in Items, Svc!Receive(k) PROVE SvcP!Receive(k)
    BY <1>5 DEF Svc!Receive, SvcP!Receive
  <1>6. ASSUME NEW k \in Items, Svc!Take(k) PROVE SvcP!Take(k)
    BY <1>6 DEF Svc!Take, SvcP!Take
  <1>7. (Svc!Disconnect => SvcP!Disconnect) /\ (Svc!Stop => SvcP!Stop)
    BY DEF Svc!Disconnect, SvcP!Disconnect, Svc!Stop, SvcP!Stop
  <1>8. Svc!Start => SvcP!Start
    BY DEF Svc!Start, SvcP!Start
  <1> QED
    BY <1>1, <1>2, <1>3, <1>4, <1>5, <1>6, <1>7, <1>8

LEMMA SameIngresses ==
  /\ Ing!TypeOK <=> IngP!TypeOK
  /\ Ing!CacheCatchesUp <=> IngP!CacheCatchesUp
  /\ Ing!Init => IngP!Init
  /\ \A k \in Items, obj \in Ingresses \cup {Absent}, up \in BOOLEAN :
        Ing!Write(k, obj, up) => IngP!Write(k, obj, up)
  /\ \A k \in Items : (Ing!Receive(k) => IngP!Receive(k)) /\ (Ing!Take(k) => IngP!Take(k))
  /\ Ing!Disconnect => IngP!Disconnect
  /\ Ing!Stop => IngP!Stop
  /\ Ing!Start => IngP!Start
  <1> USE DEF Ing!MaybeObject, IngP!MaybeObject, Ing!Event, IngP!Event, Ing!Note, IngP!Note,
        Ing!HandlerOf, IngP!HandlerOf, Ing!Notify, IngP!Notify, Ing!Empty, IngP!Empty
  <1>1. Ing!TypeOK <=> IngP!TypeOK
    BY DEF Ing!TypeOK, IngP!TypeOK, Ing!Events, IngP!Events, Ing!Notes, IngP!Notes,
           Ing!HandlerNames, IngP!HandlerNames
  <1>2. Ing!CacheCatchesUp <=> IngP!CacheCatchesUp
    BY DEF Ing!CacheCatchesUp, IngP!CacheCatchesUp
  <1>3. Ing!Init => IngP!Init
    BY DEF Ing!Init, IngP!Init
  <1>4. ASSUME NEW k \in Items, NEW obj \in Ingresses \cup {Absent}, NEW up \in BOOLEAN,
               Ing!Write(k, obj, up)
        PROVE  IngP!Write(k, obj, up)
    BY <1>4 DEF Ing!Write, IngP!Write
  <1>5. ASSUME NEW k \in Items, Ing!Receive(k) PROVE IngP!Receive(k)
    BY <1>5 DEF Ing!Receive, IngP!Receive
  <1>6. ASSUME NEW k \in Items, Ing!Take(k) PROVE IngP!Take(k)
    BY <1>6 DEF Ing!Take, IngP!Take
  <1>7. (Ing!Disconnect => IngP!Disconnect) /\ (Ing!Stop => IngP!Stop)
    BY DEF Ing!Disconnect, IngP!Disconnect, Ing!Stop, IngP!Stop
  <1>8. Ing!Start => IngP!Start
    BY DEF Ing!Start, IngP!Start
  <1> QED
    BY <1>1, <1>2, <1>3, <1>4, <1>5, <1>6, <1>7, <1>8

-----------------------------------------------------------------------------
(* What is inductive: the types; the invariants of the parts; that the keys *)
(* in processing are those the workers hold, each by one; and what a worker *)
(* that is busy knows, its key and the service it makes an ingress for.     *)
WorkersKnow ==
  \A w \in Workers : ~At(w, "idle") =>
    running /\ Key(w) \in Items /\ (At(w, "create") => worker[w].service # Absent)

Inv == /\ TypeOK
       /\ RLQP!Inv
       /\ SvcP!Agrees(running) /\ IngP!Agrees(running)
       /\ KeyHeldByOneWorker
       /\ WorkersKnow

(* Every step is one of the informer of services in its process.            *)
LEMMA ServicesStep ==
  ASSUME Inv, [Next]_vars
  PROVE  SvcP!ProcessStep(running, running')
  <1> USE DEF SvcP!ProcessStep
  <1>0. running \in BOOLEAN
    BY DEF Inv, TypeOK
  <1>1. ASSUME UNCHANGED <<serviceVars, running>> PROVE SvcP!ProcessStep(running, running')
    BY <1>1 DEF serviceVars, SvcP!vars
  <1>2. ASSUME NEW k \in Items, NEW annotated \in BOOLEAN,
               CreateService(k, annotated) \/ ChangeService(k, annotated) \/ DeleteService(k)
        PROVE  SvcP!ProcessStep(running, running')
    <2>1. used.ops \in 0..MaxOps /\ MaxOps \in Nat /\ service[k] \in Services \cup {Absent}
      BY BoundsAssumption DEF Inv, TypeOK, Svc!TypeOK, Svc!MaybeObject
    <2>2. PICK s \in Services \cup {Absent} : UserWrites(k, s)
      <3>1. CASE CreateService(k, annotated)
        <4>1. used.ops + 1 \in 1..MaxOps
          BY <2>1, <3>1 DEF CreateService, UserWrites
        <4> QED
          BY <3>1, <4>1 DEF CreateService, Services
      <3>2. CASE ChangeService(k, annotated)
        <4>1. used.ops + 1 \in 1..MaxOps
          BY <2>1, <3>2 DEF ChangeService, UserWrites
        <4> QED
          BY <2>1, <3>2, <4>1 DEF ChangeService, Services
      <3>3. CASE DeleteService(k)
        BY <3>3 DEF DeleteService
      <3> QED
        BY <1>2, <3>1, <3>2, <3>3
    <2>3. Svc!Write(k, s, running) /\ running' = running
      BY <2>2 DEF UserWrites
    <2>4. SvcP!Write(k, s, running)
      BY <1>0, <2>3, SameServices
    <2> QED
      BY <2>3, <2>4 DEF SvcP!MaybeObject
  <1>3. ASSUME NEW k \in Items, ReceiveService(k) \/ HandleServiceNote(k)
        PROVE  SvcP!ProcessStep(running, running')
    BY <1>3, SameServices DEF ReceiveService, HandleServiceNote
  <1>4. ASSUME Disconnect PROVE SvcP!ProcessStep(running, running')
    BY <1>1, <1>4, SameServices DEF Disconnect
  <1>5. ASSUME ProcessEnds, running PROVE SvcP!ProcessStep(running, running')
    BY <1>5, SameServices DEF ProcessEnds
  <1>6. ASSUME Restart PROVE SvcP!ProcessStep(running, running')
    BY <1>6, SameServices DEF Restart
  <1>7. ASSUME NEW k \in Items,
               UserDeletesIngress(k) \/ UserCreatesIngress(k) \/ Collect(k) \/ ReceiveIngress(k)
                 \/ HandleIngressDeletion(k) \/ EntryReady(k)
        PROVE  UNCHANGED <<serviceVars, running>>
    BY <1>7 DEF UserDeletesIngress, UserCreatesIngress, Collect, ReceiveIngress,
                HandleIngressDeletion, EntryReady
  <1>8. ASSUME NEW w \in Workers, TakeItem(w) \/ Step(w)
        PROVE  UNCHANGED <<serviceVars, running>>
    BY <1>8 DEF TakeItem, Step, ReadService, ReadIngress, CreateIngress, DeleteIngress, Call,
                HandleError, Dequeue, memory
  <1>9. ASSUME ReceiveEntry PROVE UNCHANGED <<serviceVars, running>>
    BY <1>9 DEF ReceiveEntry
  <1>10. ASSUME UNCHANGED vars PROVE UNCHANGED <<serviceVars, running>>
    BY <1>10 DEF vars, memory
  <1> QED
    BY <1>1, <1>2, <1>3, <1>4, <1>5, <1>6, <1>7, <1>8, <1>9, <1>10
       DEF Next, Users, HandlerPanics, Crash

(* The same of the informer of ingresses, to which the workers write too.   *)
LEMMA IngressesStep ==
  ASSUME Inv, [Next]_vars
  PROVE  IngP!ProcessStep(running, running')
  <1> USE DEF IngP!ProcessStep
  <1>0. running \in BOOLEAN /\ MaxOps \in Nat
    BY BoundsAssumption DEF Inv, TypeOK
  <1>1. ASSUME UNCHANGED <<ingressVars, running>> PROVE IngP!ProcessStep(running, running')
    BY <1>1 DEF ingressVars, IngP!vars
  <1>2. ASSUME NEW k \in Items, NEW obj \in Ingresses \cup {Absent},
               Ing!Write(k, obj, running), running' = running
        PROVE  IngP!ProcessStep(running, running')
    BY <1>0, <1>2, SameIngresses DEF IngP!MaybeObject
  <1>3. ASSUME NEW k \in Items,
               UserDeletesIngress(k) \/ UserCreatesIngress(k) \/ Collect(k)
        PROVE  IngP!ProcessStep(running, running')
    <2>1. [owner |-> NoOwner] \in Ingresses
      BY <1>0 DEF Ingresses, NoOwner
    <2> QED
      BY <1>2, <1>3, <2>1 DEF UserDeletesIngress, UserCreatesIngress, Collect
  <1>4. ASSUME NEW w \in Workers, CreateIngress(w) \/ DeleteIngress(w)
        PROVE  IngP!ProcessStep(running, running')
    <2>1. running /\ running' = running /\ Key(w) \in Items
      BY <1>4 DEF Inv, WorkersKnow, CreateIngress, DeleteIngress, Call, At
    <2>2. CASE CreateIngress(w)
      <3>1. worker[w].service \in Services
        BY <2>2 DEF Inv, TypeOK, WorkersKnow, CreateIngress, At
      <3>2. [owner |-> worker[w].service.uid] \in Ingresses
        BY <1>0, <3>1 DEF Services, Ingresses
      <3> QED
        BY <1>1, <1>2, <2>1, <2>2, <3>2 DEF CreateIngress, Call
    <2>3. CASE DeleteIngress(w)
      BY <1>1, <1>2, <2>1, <2>3 DEF DeleteIngress, Call
    <2> QED
      BY <1>4, <2>2, <2>3
  <1>5. ASSUME NEW k \in Items, ReceiveIngress(k) \/ HandleIngressDeletion(k)
        PROVE  IngP!ProcessStep(running, running')
    BY <1>5, SameIngresses DEF ReceiveIngress, HandleIngressDeletion
  <1>6. ASSUME Disconnect PROVE IngP!ProcessStep(running, running')
    BY <1>1, <1>6, SameIngresses DEF Disconnect
  <1>7. ASSUME ProcessEnds, running PROVE IngP!ProcessStep(running, running')
    BY <1>7, SameIngresses DEF ProcessEnds
  <1>8. ASSUME Restart PROVE IngP!ProcessStep(running, running')
    BY <1>8, SameIngresses DEF Restart
  <1>9. ASSUME NEW k \in Items, NEW annotated \in BOOLEAN,
               CreateService(k, annotated) \/ ChangeService(k, annotated) \/ DeleteService(k)
                 \/ ReceiveService(k) \/ HandleServiceNote(k) \/ EntryReady(k)
        PROVE  UNCHANGED <<ingressVars, running>>
    BY <1>9 DEF CreateService, ChangeService, DeleteService, UserWrites, ReceiveService,
                HandleServiceNote, EntryReady
  <1>10. ASSUME NEW w \in Workers,
                TakeItem(w) \/ ReadService(w) \/ ReadIngress(w) \/ HandleError(w) \/ Dequeue(w)
         PROVE  UNCHANGED <<ingressVars, running>>
    BY <1>10 DEF TakeItem, ReadService, ReadIngress, HandleError, Dequeue, memory
  <1>11. ASSUME ReceiveEntry PROVE UNCHANGED <<ingressVars, running>>
    BY <1>11 DEF ReceiveEntry
  <1>12. ASSUME UNCHANGED vars PROVE UNCHANGED <<ingressVars, running>>
    BY <1>12 DEF vars, memory
  <1> QED
    BY <1>1, <1>3, <1>4, <1>5, <1>6, <1>7, <1>8, <1>9, <1>10, <1>11, <1>12
       DEF Next, Users, Step, HandlerPanics, Crash

-----------------------------------------------------------------------------
LEMMA SameQueues ==
  /\ RLQ!TypeOK <=> RLQP!TypeOK
  /\ RLQ!Init => RLQP!Init
  /\ \A k \in Items : /\ RLQ!Add(k) => RLQP!Add(k)
                      /\ RLQ!Get(k) => RLQP!Get(k)
                      /\ RLQ!Done(k) => RLQP!Done(k)
                      /\ RLQ!Ready(k) => RLQP!Ready(k)
                      /\ RLQ!AddRateLimited(k) => RLQP!AddRateLimited(k)
                      /\ RLQ!Forget(k) => RLQP!Forget(k)
  /\ waitingForAddCh \in Seq(Items) /\ RLQ!ReceiveEntry => RLQP!ReceiveEntry
  <1> USE DEF RLQ!delayVars, RLQP!delayVars, RLQ!wqVars, RLQP!wqVars
  <1>1. RLQ!TypeOK <=> RLQP!TypeOK
    BY DEF RLQ!TypeOK, RLQP!TypeOK, RLQ!WQ!TypeOK, RLQP!WQ!TypeOK
  <1>2. RLQ!Init => RLQP!Init
    BY DEF RLQ!Init, RLQP!Init, RLQ!WQ!Init, RLQP!WQ!Init
  <1>3. ASSUME NEW k \in Items PROVE RLQ!WQ!Add(k) <=> RLQP!WQ!Add(k)
    BY DEF RLQ!WQ!Add, RLQP!WQ!Add
  <1>4. ASSUME NEW k \in Items
        PROVE  /\ RLQ!Add(k) => RLQP!Add(k)
               /\ RLQ!Ready(k) => RLQP!Ready(k)
    BY <1>3 DEF RLQ!Add, RLQP!Add, RLQ!Ready, RLQP!Ready
  <1>5. ASSUME NEW k \in Items
        PROVE  /\ RLQ!Get(k) => RLQP!Get(k)
               /\ RLQ!Done(k) => RLQP!Done(k)
    BY DEF RLQ!Get, RLQP!Get, RLQ!WQ!Get, RLQP!WQ!Get,
           RLQ!Done, RLQP!Done, RLQ!WQ!Done, RLQP!WQ!Done
  <1>6. ASSUME NEW k \in Items
        PROVE  /\ RLQ!AddRateLimited(k) => RLQP!AddRateLimited(k)
               /\ RLQ!Forget(k) => RLQP!Forget(k)
    BY DEF RLQ!AddRateLimited, RLQP!AddRateLimited, RLQ!Forget, RLQP!Forget
  <1>7. ASSUME waitingForAddCh \in Seq(Items), RLQ!ReceiveEntry PROVE RLQP!ReceiveEntry
    <2>1. Head(waitingForAddCh) \in Items
      BY <1>7, HeadTailProperties DEF RLQ!ReceiveEntry
    <2> QED
      BY <1>3, <1>7, <2>1 DEF RLQ!ReceiveEntry, RLQP!ReceiveEntry
  <1> QED
    BY <1>1, <1>2, <1>4, <1>5, <1>6, <1>7

(* A worker holds an item only while it is in processing. *)
LEMMA BusyHolds ==
  ASSUME Inv, NEW w \in Workers, ~At(w, "idle")
  PROVE  Key(w) \in processing /\ Key(w) \in Items
  BY DEF Inv, KeyHeldByOneWorker, WorkersKnow

(* Every step is one of the rate limited queue, or the process ends.        *)
LEMMA QueueStep ==
  ASSUME Inv, [Next]_vars
  PROVE  \/ [RLQP!Next]_RLQP!rlqVars
         \/ RLQP!Init'
  <1> DEFINE Goal == [RLQP!Next]_RLQP!rlqVars \/ RLQP!Init'
  <1> USE DEF RLQP!Next
  <1>0. waitingForAddCh \in Seq(Items) /\ failures \in [Items -> 0..MaxRetry]
    BY DEF Inv, TypeOK, RLQ!TypeOK
  <1>1. ASSUME UNCHANGED queueVars PROVE Goal
    BY <1>1 DEF queueVars, RLQP!rlqVars, RLQP!wqVars, RLQP!delayVars
  <1>2. ASSUME NEW k \in Items, HandleServiceNote(k) \/ HandleIngressDeletion(k) PROVE Goal
    <2>1. UNCHANGED queueVars \/ RLQ!Add(k)
      BY <1>2 DEF HandleServiceNote, HandleIngressDeletion
    <2> QED
      BY <1>1, <2>1, SameQueues
  <1>3. ASSUME NEW k \in Items, EntryReady(k) PROVE Goal
    BY <1>3, SameQueues DEF EntryReady
  <1>4. ASSUME ReceiveEntry PROVE Goal
    BY <1>0, <1>4, SameQueues DEF ReceiveEntry
  <1>5. ASSUME NEW w \in Workers, TakeItem(w) PROVE Goal
    BY <1>5, SameQueues DEF TakeItem
  <1>6. ASSUME NEW w \in Workers, HandleError(w) PROVE Goal
    <2>1. Key(w) \in processing /\ Key(w) \in Items
      BY <1>6, BusyHolds DEF HandleError, At
    <2> QED
      BY <1>6, <2>1, SameQueues DEF HandleError
  <1>7. ASSUME NEW w \in Workers, Dequeue(w) PROVE Goal
    <2>1. Key(w) \in processing /\ Key(w) \in Items
      BY <1>7, BusyHolds DEF Dequeue, At
    <2> QED
      BY <1>7, <2>1, SameQueues DEF Dequeue
  <1>8. ASSUME ProcessEnds PROVE Goal
    BY <1>8 DEF ProcessEnds, RLQP!Init, RLQP!WQ!Init
  <1>9. ASSUME NEW w \in Workers,
               ReadService(w) \/ ReadIngress(w) \/ CreateIngress(w) \/ DeleteIngress(w)
        PROVE  UNCHANGED queueVars
    BY <1>9 DEF ReadService, ReadIngress, CreateIngress, DeleteIngress, Call, memory
  <1>10. ASSUME Users PROVE UNCHANGED queueVars
    BY <1>10 DEF Users, CreateService, ChangeService, DeleteService, UserWrites,
                 UserDeletesIngress, UserCreatesIngress
  <1>11. ASSUME NEW k \in Items, Collect(k) \/ ReceiveService(k) \/ ReceiveIngress(k)
         PROVE  UNCHANGED queueVars
    BY <1>11 DEF Collect, ReceiveService, ReceiveIngress
  <1>12. ASSUME Disconnect \/ Restart PROVE UNCHANGED queueVars
    BY <1>12 DEF Disconnect, Restart
  <1>13. ASSUME UNCHANGED vars PROVE UNCHANGED queueVars
    BY <1>13 DEF vars, memory
  <1> QED
    BY <1>1, <1>2, <1>3, <1>4, <1>5, <1>6, <1>7, <1>8, <1>9, <1>10, <1>11, <1>12, <1>13
       DEF Next, Step, HandlerPanics, Crash

(* The queue of a process that ended is as new. *)
LEMMA NewQueue == RLQP!Init' => RLQP!Inv'
  BY RLQP!InitInv, CapacityAssumption, PTL

LEMMA QueuePreserved ==
  ASSUME RLQP!Inv, [RLQP!Next]_RLQP!rlqVars
  PROVE  RLQP!Inv'
  <1>1. RLQP!TypeOK'
    BY RLQP!TypePreserved, CapacityAssumption
  <1>2. RLQP!WQ!QueueInv'
    BY RLQP!QueuePreserved, CapacityAssumption
  <1> QED
    BY <1>1, <1>2 DEF RLQP!Inv

LEMMA ServicesPreserved ==
  ASSUME Inv, [Next]_vars, running' \in BOOLEAN
  PROVE  SvcP!Agrees(running)'
  <1>1. SvcP!ProcessStep(running, running')
    BY ServicesStep
  <1>2. SvcP!Agrees(running) /\ running \in BOOLEAN
    BY DEF Inv, TypeOK
  <1>3. /\ SvcP!TypeOK'
        /\ running' => SvcP!CacheCatchesUp'
        /\ ~running' => serviceWatch' = SvcP!Empty
    BY <1>1, <1>2, SvcP!AgreesPreserved, AbsentAssumption
  <1> QED
    BY <1>3 DEF SvcP!Agrees

LEMMA IngressesPreserved ==
  ASSUME Inv, [Next]_vars, running' \in BOOLEAN
  PROVE  IngP!Agrees(running)'
  <1>1. IngP!ProcessStep(running, running')
    BY IngressesStep
  <1>2. IngP!Agrees(running) /\ running \in BOOLEAN
    BY DEF Inv, TypeOK
  <1>3. /\ IngP!TypeOK'
        /\ running' => IngP!CacheCatchesUp'
        /\ ~running' => ingressWatch' = IngP!Empty
    BY <1>1, <1>2, IngP!AgreesPreserved, AbsentAssumption
  <1> QED
    BY <1>3 DEF IngP!Agrees

-----------------------------------------------------------------------------
(* The programs of the workers. *)

PCs == {"idle", "sync", "lookup", "create", "delete", "failed", "handled", "done"}
WorkerStates == [pc : PCs, key : Items \cup {NoKey}, service : Services \cup {Absent}]

(* A worker goes on with the item it holds. *)
Goes(w) ==
  /\ ~At(w, "idle")
  /\ \E state \in WorkerStates :
       /\ worker' = [worker EXCEPT ![w] = state]
       /\ state.pc # "idle" /\ state.key = Key(w)
       /\ state.pc = "create" => state.service # Absent
  /\ UNCHANGED <<processing, running>>

(* Each step of a sync keeps the key; the last one gives it back.           *)
LEMMA StepGoes ==
  ASSUME Inv, NEW w \in Workers, Step(w)
  PROVE  Goes(w) \/ Dequeue(w)
  <1>1. worker \in [Workers -> WorkerStates] /\ worker[w] \in WorkerStates
    BY DEF Inv, TypeOK, WorkerStates, PCs
  <1>2. ASSUME NEW pc \in PCs \ {"idle", "create"}, ~At(w, "idle"), Goto(w, pc),
               UNCHANGED <<processing, running>>
        PROVE  Goes(w)
    <2> DEFINE state == [worker[w] EXCEPT !.pc = pc]
    <2>1. state \in WorkerStates /\ state.pc = pc /\ state.key = worker[w].key
      BY <1>1 DEF WorkerStates
    <2>2. worker' = [worker EXCEPT ![w] = state]
      BY <1>1, <1>2 DEF Goto
    <2> QED
      BY <1>2, <2>1, <2>2 DEF Goes, Key
  <1>3. CASE ReadService(w)
    <2> DEFINE s == serviceCache[Key(w)]
               state == [worker[w] EXCEPT !.service = s, !.pc = IF s = Absent THEN "done" ELSE "lookup"]
    <2>1. ~At(w, "idle") /\ Key(w) \in Items
      BY <1>3 DEF ReadService, At, Inv, WorkersKnow
    <2>2. s \in Services \cup {Absent}
      BY <2>1 DEF Inv, TypeOK, Svc!TypeOK, Svc!MaybeObject
    <2>3. /\ state \in WorkerStates /\ state.pc \in {"done", "lookup"}
          /\ state.key = worker[w].key
      BY <1>1, <2>2 DEF WorkerStates, PCs
    <2>4. worker' = [worker EXCEPT ![w] = state]
      BY <1>1, <1>3 DEF ReadService
    <2> QED
      BY <1>3, <2>1, <2>3, <2>4 DEF Goes, Key, ReadService, memory, queueVars
  <1>4. CASE ReadIngress(w)
    <2>1. ~At(w, "idle") /\ UNCHANGED <<processing, running>>
      BY <1>4 DEF ReadIngress, At, memory, queueVars
    <2>2. CASE \E pc \in {"delete", "done"} : Goto(w, pc)
      BY <1>2, <2>1, <2>2 DEF PCs
    <2>3. CASE Goto(w, "create") /\ Annotated(worker[w].service)
      <3> DEFINE state == [worker[w] EXCEPT !.pc = "create"]
      <3>1. /\ state \in WorkerStates /\ state.pc = "create"
            /\ state.key = worker[w].key /\ state.service # Absent
        BY <1>1, <2>3 DEF WorkerStates, PCs, Annotated
      <3>2. worker' = [worker EXCEPT ![w] = state]
        BY <1>1, <2>3 DEF Goto
      <3> QED
        BY <2>1, <3>1, <3>2 DEF Goes, Key
    <2> DEFINE wanted == Annotated(worker[w].service)
               found  == ingressCache[Key(w)] # Absent
    <2>4. Goto(w, CASE wanted /\ ~found -> "create"
                    [] ~wanted /\ found -> "delete"
                    [] OTHER            -> "done")
      BY <1>4 DEF ReadIngress
    <2> HIDE DEF wanted, found
    <2>5. CASE wanted /\ ~found
      <3>1. Goto(w, "create")
        BY <2>4, <2>5
      <3> QED
        BY <2>3, <2>5, <3>1 DEF wanted
    <2>6. CASE ~wanted /\ found
      <3>1. Goto(w, "delete")
        BY <2>4, <2>6
      <3> QED
        BY <2>2, <3>1
    <2>7. CASE ~(wanted /\ ~found) /\ ~(~wanted /\ found)
      <3>1. Goto(w, "done")
        BY <2>4, <2>7
      <3> QED
        BY <2>2, <3>1
    <2> QED
      BY <2>5, <2>6, <2>7
  <1>5. CASE CreateIngress(w) \/ DeleteIngress(w)
    <2>1. /\ ~At(w, "idle") /\ UNCHANGED <<processing, running>>
          /\ Goto(w, "done") \/ Goto(w, "failed")
      BY <1>5 DEF CreateIngress, DeleteIngress, Call, At, queueVars
    <2> QED
      BY <1>2, <2>1 DEF PCs
  <1>6. CASE HandleError(w)
    <2>1. ~At(w, "idle") /\ UNCHANGED <<processing, running>> /\ Goto(w, "handled")
      BY <1>6 DEF HandleError, At, RLQ!AddRateLimited, RLQ!Forget, RLQ!wqVars
    <2> QED
      BY <1>2, <2>1 DEF PCs
  <1> QED
    BY <1>3, <1>4, <1>5, <1>6 DEF Step

(* Whatever is not a worker's step leaves the workers and what is in        *)
(* processing alone, or ends the process.                                   *)
LEMMA OthersStep ==
  ASSUME Inv, [Next]_vars,
         \A w \in Workers : ~TakeItem(w) /\ ~Step(w)
  PROVE  \/ ProcessEnds
         \/ UNCHANGED <<worker, processing>> /\ (running => running')
  <1> DEFINE Goal == UNCHANGED <<worker, processing>> /\ (running => running')
  <1>1. ASSUME NEW k \in Items, RLQ!WQ!Add(k) PROVE processing' = processing
    BY <1>1 DEF RLQ!WQ!Add
  <1>2. CASE Users
    BY <1>2 DEF Users, CreateService, ChangeService, DeleteService, UserWrites,
                UserDeletesIngress, UserCreatesIngress, queueVars
  <1>3. ASSUME NEW k \in Items,
               Collect(k) \/ ReceiveService(k) \/ ReceiveIngress(k) PROVE Goal
    BY <1>3 DEF Collect, ReceiveService, ReceiveIngress, queueVars
  <1>4. ASSUME NEW k \in Items, HandleServiceNote(k) \/ HandleIngressDeletion(k) PROVE Goal
    <2>1. UNCHANGED <<worker, running>> /\ (UNCHANGED queueVars \/ RLQ!Add(k))
      BY <1>4 DEF HandleServiceNote, HandleIngressDeletion
    <2> QED
      BY <1>1, <2>1 DEF RLQ!Add, queueVars
  <1>5. ASSUME NEW k \in Items, EntryReady(k) PROVE Goal
    BY <1>1, <1>5 DEF EntryReady, RLQ!Ready
  <1>6. CASE ReceiveEntry
    <2>1. waitingForAddCh \in Seq(Items) /\ waitingForAddCh # << >>
      BY <1>6 DEF ReceiveEntry, RLQ!ReceiveEntry, Inv, TypeOK, RLQ!TypeOK
    <2>2. Head(waitingForAddCh) \in Items
      BY <2>1, HeadTailProperties
    <2> QED
      BY <1>1, <1>6, <2>2 DEF ReceiveEntry, RLQ!ReceiveEntry, RLQ!wqVars
  <1>7. CASE Disconnect \/ Restart
    BY <1>7 DEF Disconnect, Restart, queueVars
  <1>8. CASE UNCHANGED vars
    BY <1>8 DEF vars, memory, queueVars
  <1> QED
    BY <1>2, <1>3, <1>4, <1>5, <1>6, <1>7, <1>8 DEF Next, HandlerPanics, Crash

LEMMA WorkersPreserved ==
  ASSUME Inv, [Next]_vars
  PROVE  KeyHeldByOneWorker' /\ WorkersKnow'
  <1>1. worker \in [Workers -> WorkerStates]
    BY DEF Inv, TypeOK, WorkerStates, PCs
  <1>2. KeyHeldByOneWorker /\ WorkersKnow
    BY DEF Inv
  <1> USE DEF At, Key
  <1>3. ASSUME NEW w \in Workers, TakeItem(w) PROVE KeyHeldByOneWorker' /\ WorkersKnow'
    <2>1. PICK k \in Items : /\ RLQ!Get(k)
                             /\ worker' = [worker EXCEPT ![w] = [pc |-> "sync", key |-> k, service |-> Absent]]
      BY <1>3 DEF TakeItem
    <2>2. running /\ running' /\ worker[w].pc = "idle"
      BY <1>3 DEF TakeItem
    <2>3. processing' = processing \cup {k} /\ k = Head(queue) /\ queue # << >>
      BY <2>1 DEF RLQ!Get, RLQ!WQ!Get
    <2>4. k \notin processing
      <3>1. queue \in Seq(Items)
        BY DEF Inv, TypeOK, RLQ!TypeOK, RLQ!WQ!TypeOK
      <3>2. 1 \in 1..Len(queue) /\ Head(queue) = queue[1]
        BY <2>3, <3>1, HeadTailProperties, EmptySeq, LenProperties
      <3> QED
        BY <2>3, <3>2 DEF Inv, RLQP!Inv, RLQP!WQ!QueueInv, RLQP!WQ!QueuedIsDirtyAndIdle
    <2>5. /\ worker'[w] = [pc |-> "sync", key |-> k, service |-> Absent]
          /\ \A v \in Workers \ {w} : worker'[v] = worker[v]
      BY <1>1, <2>1
    <2>6. \A v \in Workers : worker[v].pc # "idle" => worker[v].key \in processing
      BY <1>2 DEF KeyHeldByOneWorker
    <2>7. \A u, v \in Workers : u # v /\ worker'[u].pc # "idle" /\ worker'[v].pc # "idle"
                                => worker'[u].key # worker'[v].key
      BY <1>2, <2>2, <2>4, <2>5, <2>6 DEF KeyHeldByOneWorker
    <2>8. processing' = {worker'[v].key : v \in {u \in Workers : worker'[u].pc # "idle"}}
      BY <1>2, <2>2, <2>3, <2>5 DEF KeyHeldByOneWorker
    <2>9. WorkersKnow'
      BY <1>2, <2>2, <2>5 DEF WorkersKnow
    <2> QED
      BY <2>7, <2>8, <2>9 DEF KeyHeldByOneWorker
  <1>4. ASSUME NEW w \in Workers, Goes(w) PROVE KeyHeldByOneWorker' /\ WorkersKnow'
    <2>1. PICK state \in WorkerStates :
            /\ worker' = [worker EXCEPT ![w] = state]
            /\ state.pc # "idle" /\ state.key = worker[w].key
            /\ state.pc = "create" => state.service # Absent
      BY <1>4 DEF Goes
    <2>2. /\ worker'[w] = state
          /\ \A v \in Workers \ {w} : worker'[v] = worker[v]
      BY <1>1, <2>1
    <2>3. worker[w].pc # "idle" /\ processing' = processing /\ running' = running
      BY <1>4 DEF Goes
    <2> QED
      BY <1>2, <2>1, <2>2, <2>3 DEF KeyHeldByOneWorker, WorkersKnow
  <1>5. ASSUME NEW w \in Workers, Dequeue(w) PROVE KeyHeldByOneWorker' /\ WorkersKnow'
    <2>1. /\ worker[w].pc # "idle" /\ running' = running
          /\ processing' = processing \ {worker[w].key}
          /\ worker' = [worker EXCEPT ![w] = Idle]
      BY <1>5 DEF Dequeue, RLQ!Done, RLQ!WQ!Done
    <2>2. /\ worker'[w].pc = "idle"
          /\ \A v \in Workers \ {w} : worker'[v] = worker[v]
      BY <1>1, <2>1 DEF Idle
    <2>3. \A u, v \in Workers : u # v /\ worker'[u].pc # "idle" /\ worker'[v].pc # "idle"
                                => worker'[u].key # worker'[v].key
      BY <1>2, <2>2 DEF KeyHeldByOneWorker
    <2>4. processing' = {worker'[v].key : v \in {u \in Workers : worker'[u].pc # "idle"}}
      BY <1>2, <2>1, <2>2 DEF KeyHeldByOneWorker
    <2>5. WorkersKnow'
      BY <1>2, <2>1, <2>2 DEF WorkersKnow
    <2> QED
      BY <2>3, <2>4, <2>5 DEF KeyHeldByOneWorker
  <1>6. CASE ProcessEnds
    <2>1. processing' = {} /\ \A w \in Workers : worker'[w].pc = "idle"
      BY <1>6 DEF ProcessEnds, Idle
    <2> QED
      BY <2>1 DEF KeyHeldByOneWorker, WorkersKnow
  <1>7. CASE UNCHANGED <<worker, processing>> /\ (running => running')
    BY <1>2, <1>7 DEF KeyHeldByOneWorker, WorkersKnow
  <1> QED
    BY <1>3, <1>4, <1>5, <1>6, <1>7, StepGoes, OthersStep

-----------------------------------------------------------------------------
(* The variables of AddIngress that are none of the parts'. *)
OwnTypes ==
  /\ failures \in [Items -> 0..MaxRetry]
  /\ worker \in [Workers -> WorkerStates]
  /\ running \in BOOLEAN
  /\ used \in [ops : 0..MaxOps, faults : 0..MaxFaults,
               disconnects : 0..MaxDisconnects, crashes : 0..MaxCrashes]
  /\ streak \in [Items -> Nat]

LEMMA OwnTypesPreserved ==
  ASSUME Inv, [Next]_vars
  PROVE  OwnTypes'
  <1>1. OwnTypes
    BY DEF Inv, TypeOK, OwnTypes, WorkerStates, PCs
  <1>2. /\ MaxRetry \in Nat /\ MaxOps \in Nat /\ MaxFaults \in Nat
        /\ MaxDisconnects \in Nat /\ MaxCrashes \in Nat
    BY BoundsAssumption
  <1>3. /\ used.ops < MaxOps => [used EXCEPT !.ops = @ + 1] \in
            [ops : 0..MaxOps, faults : 0..MaxFaults,
             disconnects : 0..MaxDisconnects, crashes : 0..MaxCrashes]
        /\ used.faults < MaxFaults => [used EXCEPT !.faults = @ + 1] \in
            [ops : 0..MaxOps, faults : 0..MaxFaults,
             disconnects : 0..MaxDisconnects, crashes : 0..MaxCrashes]
        /\ used.disconnects < MaxDisconnects => [used EXCEPT !.disconnects = @ + 1] \in
            [ops : 0..MaxOps, faults : 0..MaxFaults,
             disconnects : 0..MaxDisconnects, crashes : 0..MaxCrashes]
        /\ used.crashes < MaxCrashes => [used EXCEPT !.crashes = @ + 1] \in
            [ops : 0..MaxOps, faults : 0..MaxFaults,
             disconnects : 0..MaxDisconnects, crashes : 0..MaxCrashes]
    BY <1>1, <1>2 DEF OwnTypes
  <1>4. Idle \in WorkerStates
    BY DEF Idle, NoKey, WorkerStates, PCs
  <1>5. CASE Users
    <2>1. /\ used.ops < MaxOps /\ used' = [used EXCEPT !.ops = @ + 1]
          /\ UNCHANGED <<failures, worker, running, streak>>
      BY <1>5 DEF Users, CreateService, ChangeService, DeleteService, UserWrites,
                  UserDeletesIngress, UserCreatesIngress, queueVars
    <2> QED
      BY <1>1, <1>3, <2>1 DEF OwnTypes
  <1>6. ASSUME NEW k \in Items,
               Collect(k) \/ ReceiveService(k) \/ HandleServiceNote(k) \/ ReceiveIngress(k)
                 \/ HandleIngressDeletion(k) \/ EntryReady(k)
        PROVE  OwnTypes'
    <2>1. UNCHANGED <<failures, worker, running, used, streak>>
      BY <1>6 DEF Collect, ReceiveService, HandleServiceNote, ReceiveIngress,
                  HandleIngressDeletion, EntryReady, RLQ!Add, RLQ!Ready, queueVars
    <2> QED
      BY <1>1, <2>1 DEF OwnTypes
  <1>7. CASE ReceiveEntry
    BY <1>1, <1>7 DEF ReceiveEntry, RLQ!ReceiveEntry, OwnTypes
  <1>8. CASE Disconnect
    <2>1. /\ used.disconnects < MaxDisconnects /\ used' = [used EXCEPT !.disconnects = @ + 1]
          /\ UNCHANGED <<failures, worker, running, streak>>
      BY <1>8 DEF Disconnect, queueVars
    <2> QED
      BY <1>1, <1>3, <2>1 DEF OwnTypes
  <1>9. CASE ProcessEnds /\ (UNCHANGED used \/ Crash)
    <2>1. \/ UNCHANGED used
          \/ used.crashes < MaxCrashes /\ used' = [used EXCEPT !.crashes = @ + 1]
      BY <1>9 DEF Crash
    <2>2. used' \in [ops : 0..MaxOps, faults : 0..MaxFaults,
                     disconnects : 0..MaxDisconnects, crashes : 0..MaxCrashes]
      BY <1>1, <1>3, <2>1 DEF OwnTypes
    <2>3. /\ failures' \in [Items -> 0..MaxRetry] /\ streak' \in [Items -> Nat]
          /\ running' \in BOOLEAN
      <3>1. /\ failures' = [k \in Items |-> 0] /\ streak' = [k \in Items |-> 0]
            /\ running' = FALSE
        BY <1>9 DEF ProcessEnds
      <3>2. 0 \in 0..MaxRetry
        BY <1>2
      <3>3. failures' \in [Items -> 0..MaxRetry]
        BY <3>1, <3>2
      <3>4. streak' \in [Items -> Nat]
        BY <3>1
      <3> QED
        BY <3>1, <3>3, <3>4
    <2>4. worker' \in [Workers -> WorkerStates]
      BY <1>4, <1>9 DEF ProcessEnds
    <2> QED
      BY <2>2, <2>3, <2>4 DEF OwnTypes
  <1>10. CASE Restart
    BY <1>1, <1>10 DEF Restart, queueVars, OwnTypes
  <1>11. ASSUME NEW w \in Workers, TakeItem(w) PROVE OwnTypes'
    <2>1. PICK k \in Items : /\ RLQ!Get(k)
                             /\ worker' = [worker EXCEPT ![w] = [pc |-> "sync", key |-> k, service |-> Absent]]
      BY <1>11 DEF TakeItem
    <2>2. [pc |-> "sync", key |-> k, service |-> Absent] \in WorkerStates
      BY DEF WorkerStates, PCs
    <2> QED
      BY <1>1, <1>11, <2>1, <2>2 DEF TakeItem, RLQ!Get, OwnTypes
  <1>12. ASSUME NEW w \in Workers, Goes(w) PROVE worker' \in [Workers -> WorkerStates]
    BY <1>1, <1>12 DEF Goes, OwnTypes
  <1>13. ASSUME NEW w \in Workers, ReadService(w) \/ ReadIngress(w) \/ CreateIngress(w) \/ DeleteIngress(w)
         PROVE  OwnTypes'
    <2>1. worker' \in [Workers -> WorkerStates]
      <3>1. CASE Goes(w)
        BY <1>12, <3>1
      <3>2. CASE Dequeue(w)
        BY <1>1, <1>4, <3>2 DEF Dequeue, OwnTypes
      <3> QED
        BY <1>13, <3>1, <3>2, StepGoes DEF Step
    <2>2. UNCHANGED <<failures, running, streak>>
      BY <1>13 DEF ReadService, ReadIngress, CreateIngress, DeleteIngress, Call, memory, queueVars
    <2>3. \/ UNCHANGED used
          \/ used.faults < MaxFaults /\ used' = [used EXCEPT !.faults = @ + 1]
      BY <1>13 DEF ReadService, ReadIngress, CreateIngress, DeleteIngress, Call, Fault
    <2> QED
      BY <1>1, <1>3, <2>1, <2>2, <2>3 DEF OwnTypes
  <1>14. ASSUME NEW w \in Workers, HandleError(w) PROVE OwnTypes'
    <2>1. Key(w) \in Items
      BY <1>14, BusyHolds DEF HandleError, At
    <2>2. worker' \in [Workers -> WorkerStates]
      <3>1. CASE Goes(w)
        BY <1>12, <3>1
      <3>2. CASE Dequeue(w)
        BY <1>1, <1>4, <3>2 DEF Dequeue, OwnTypes
      <3> QED
        BY <1>14, <3>1, <3>2, StepGoes DEF Step
    <2>3. failures' \in [Items -> 0..MaxRetry]
      <3>1. failures \in [Items -> 0..MaxRetry]
        BY <1>1 DEF OwnTypes
      <3>2. \/ failures[Key(w)] < MaxRetry
               /\ failures' = [failures EXCEPT ![Key(w)] = failures[Key(w)] + 1]
            \/ failures' = [failures EXCEPT ![Key(w)] = 0]
        BY <1>14 DEF HandleError, RLQ!AddRateLimited, RLQ!Forget
      <3>3. failures[Key(w)] < MaxRetry => failures[Key(w)] + 1 \in 0..MaxRetry
        BY <1>2, <2>1, <3>1
      <3>4. 0 \in 0..MaxRetry
        BY <1>2
      <3> QED
        BY <2>1, <3>1, <3>2, <3>3, <3>4
    <2>4. streak' \in [Items -> Nat] /\ UNCHANGED <<running, used>>
      BY <1>1, <1>14, <2>1 DEF HandleError, OwnTypes
    <2> QED
      BY <1>1, <2>2, <2>3, <2>4 DEF OwnTypes
  <1>15. ASSUME NEW w \in Workers, Dequeue(w) PROVE OwnTypes'
    BY <1>1, <1>4, <1>15 DEF Dequeue, RLQ!Done, OwnTypes
  <1>16. CASE UNCHANGED vars
    BY <1>1, <1>16 DEF vars, memory, queueVars, OwnTypes
  <1> QED
    BY <1>5, <1>6, <1>7, <1>8, <1>9, <1>10, <1>11, <1>13, <1>14, <1>15, <1>16
       DEF Next, Step, HandlerPanics, Crash

LEMMA SameTypesAfter ==
  /\ RLQP!TypeOK' => RLQ!TypeOK'
  /\ SvcP!TypeOK' => Svc!TypeOK'
  /\ IngP!TypeOK' => Ing!TypeOK'
  BY SameQueues, SameServices, SameIngresses, PTL

LEMMA InvPreserved ==
  ASSUME Inv, [Next]_vars
  PROVE  Inv'
  <1>1. OwnTypes'
    BY OwnTypesPreserved
  <1>2. running' \in BOOLEAN
    BY <1>1 DEF OwnTypes
  <1>3. RLQP!Inv'
    BY QueueStep, QueuePreserved, NewQueue DEF Inv
  <1>4. SvcP!Agrees(running)' /\ IngP!Agrees(running)'
    BY <1>2, ServicesPreserved, IngressesPreserved
  <1>5. TypeOK'
    BY <1>1, <1>3, <1>4, SameTypesAfter
       DEF RLQP!Inv, SvcP!Agrees, IngP!Agrees, OwnTypes, TypeOK, WorkerStates, PCs
  <1> QED
    BY <1>3, <1>4, <1>5, WorkersPreserved DEF Inv

LEMMA InitInv == Init => Inv
  <1> SUFFICES ASSUME Init PROVE Inv
    OBVIOUS
  <1>1. RLQP!Inv
    BY SameQueues, RLQP!InitInv, CapacityAssumption DEF Init
  <1>2. SvcP!TypeOK /\ SvcP!CacheCatchesUp
    BY SameServices, SvcP!InitInv, AbsentAssumption DEF Init
  <1>3. IngP!TypeOK /\ IngP!CacheCatchesUp
    BY SameIngresses, IngP!InitInv, AbsentAssumption DEF Init
  <1>4. running = TRUE /\ processing = {}
    BY DEF Init, RLQ!Init, RLQ!WQ!Init
  <1>5. SvcP!Agrees(running) /\ IngP!Agrees(running)
    BY <1>2, <1>3, <1>4 DEF SvcP!Agrees, IngP!Agrees
  <1>6. OwnTypes
    BY BoundsAssumption DEF Init, RLQ!Init, OwnTypes, Idle, NoKey, WorkerStates, PCs
  <1>7. TypeOK
    BY <1>1, <1>2, <1>3, <1>6, SameQueues, SameServices, SameIngresses
       DEF RLQP!Inv, OwnTypes, TypeOK, WorkerStates, PCs
  <1>8. \A w \in Workers : At(w, "idle")
    BY DEF Init, Idle, At
  <1>9. KeyHeldByOneWorker /\ WorkersKnow
    BY <1>4, <1>8 DEF KeyHeldByOneWorker, WorkersKnow
  <1> QED
    BY <1>1, <1>5, <1>7, <1>9 DEF Inv

THEOREM Invariant == Spec => []Inv
  BY InitInv, InvPreserved, PTL DEF Spec

-----------------------------------------------------------------------------
(* The types of the controller in its cluster, for any bounds: among them   *)
(* that no failure count exceeds MaxRetry (handleError, controller.go 162). *)
THEOREM TypeCorrect == Spec => []TypeOK
  <1>1. Inv => TypeOK
    BY DEF Inv
  <1> QED
    BY <1>1, Invariant, PTL

(* However many workers there are, and however they fail, are restarted or  *)
(* fall behind, a key is in the hands of one of them (Run starts workNum of *)
(* them, controller.go 117-125; processNextItem, 136-157).                  *)
THEOREM OneWorkerHoldsAKey == Spec => []KeyHeldByOneWorker
  <1>1. Inv => KeyHeldByOneWorker
    BY DEF Inv
  <1> QED
    BY <1>1, Invariant, PTL

(* The two listers of syncService are stale at worst, after any number of   *)
(* broken watches, panics and restarts (controller.go 176-194).             *)
THEOREM ListersNeverWrongForGood == Spec => []ListersCatchUp
  <1>1. Inv => ListersCatchUp
    BY SameServices, SameIngresses DEF Inv, SvcP!Agrees, IngP!Agrees, ListersCatchUp
  <1> QED
    BY <1>1, Invariant, PTL

(* The controller runs its parts as they are: every step is one that the    *)
(* rate limited queue and each informer allow, or leaves them alone; a      *)
(* process that ends takes its queue with it, and its informers stop, and   *)
(* the next one starts with an empty queue and lists anew.  Whatever holds  *)
(* of the steps of a part holds in the controller (NewController,           *)
(* controller.go 40-66; processNextItem, 136-157; handleError, 160-171).    *)
THEOREM RunsItsParts ==
  Spec => /\ RLQP!Init /\ [][RLQP!Next \/ RLQP!Init']_RLQP!rlqVars
          /\ SvcP!Init /\ [][SvcP!ProcessStep(running, running')]_<<SvcP!vars, running>>
          /\ IngP!Init /\ [][IngP!ProcessStep(running, running')]_<<IngP!vars, running>>
  <1>1. Init => RLQP!Init /\ SvcP!Init /\ IngP!Init
    BY SameQueues, SameServices, SameIngresses DEF Init
  <1>2. Inv /\ [Next]_vars => [RLQP!Next \/ RLQP!Init']_RLQP!rlqVars
    BY QueueStep
  <1>3. Inv /\ [Next]_vars => [SvcP!ProcessStep(running, running')]_<<SvcP!vars, running>>
    BY ServicesStep
  <1>4. Inv /\ [Next]_vars => [IngP!ProcessStep(running, running')]_<<IngP!vars, running>>
    BY IngressesStep
  <1> QED
    BY <1>1, <1>2, <1>3, <1>4, Invariant, PTL DEF Spec

-----------------------------------------------------------------------------
(* That no event is lost, while no watch breaks and users make no ingresses *)
(* of their own.                                                            *)

(* What an object's events tell: each something else than the one before.   *)
Differ(c, w) == \A n \in 1..Len(w) : w[n].obj # (IF n = 1 THEN c ELSE w[n-1].obj)

Dated(s, ops) == s # Absent => s.version <= ops
Owned(i)      == i # Absent => i.owner # NoOwner

Changes(k) ==
  /\ Dated(service[k], used.ops)
  /\ Differ(serviceCache[k], serviceWatch[k])
  /\ \A n \in 1..Len(serviceNotes[k]) : serviceNotes[k][n].old # serviceNotes[k][n].new
  /\ Owned(ingress[k]) /\ Owned(ingressCache[k])
  /\ Differ(ingressCache[k], ingressWatch[k])
  /\ \A n \in 1..Len(ingressWatch[k]) : Owned(ingressWatch[k][n].obj)
  /\ \A n \in 1..Len(ingressNotes[k]) :
       ingressNotes[k][n].old # Absent /\ Owned(ingressNotes[k][n].old)

(* A sync of k follows that reads the service as it is. *)
ServicePending(k) == serviceWatch[k] # << >> \/ serviceNotes[k] # << >> \/ k \in dirty

(* The informer has seen an ingress or will: when it goes, a sync follows.  *)
IngressSeen(k) ==
  \/ ingressCache[k] # Absent \/ ingressNotes[k] # << >> \/ k \in dirty
  \/ \E n \in 1..Len(ingressWatch[k]) : ingressWatch[k][n].obj # Absent

(* What a worker knows of its key: it read the service as it is, or another *)
(* sync follows; it leaves behind an ingress that will be seen.             *)
SyncKnows(w) ==
  /\ ~At(w, "sync") => service[Key(w)] \in {worker[w].service, Absent} \/ ServicePending(Key(w))
  /\ At(w, "done") /\ Annotated(worker[w].service) => IngressSeen(Key(w))
  /\ At(w, "create") => Annotated(worker[w].service)
  /\ At(w, "delete") => ~Annotated(worker[w].service)
  /\ At(w, "handled") => streak[Key(w)] > 0

NothingLost(k) ==
  running /\ streak[k] = 0 /\ Annotated(service[k]) =>
    ServicePending(k) \/ IngressSeen(k) \/ RLQ!Waiting(k) \/ k \in processing

SyncInv == /\ ~shuttingDown
           /\ \A k \in Items : Changes(k) /\ NothingLost(k)
           /\ \A w \in Workers : ~At(w, "idle") => SyncKnows(w)

-----------------------------------------------------------------------------
(* Sequences of events. *)
LEMMA AppendedElements ==
  ASSUME NEW S, NEW s \in Seq(S), NEW e
  PROVE  /\ Append(s, e) # << >>
         /\ Len(Append(s, e)) = Len(s) + 1 /\ Len(s) \in Nat
         /\ Append(s, e)[Len(s) + 1] = e
         /\ \A n \in 1..Len(s) : Append(s, e)[n] = s[n]
  <1>1. s \in Seq(S \cup {e})
    BY ElementOfSeq, LenProperties
  <1>2. /\ Append(s, e) \in Seq(S \cup {e}) /\ Len(Append(s, e)) = Len(s) + 1 /\ Len(s) \in Nat
        /\ Append(s, e)[Len(s) + 1] = e
        /\ \A n \in 1..Len(s) : Append(s, e)[n] = s[n]
    BY <1>1, AppendProperties, LenProperties
  <1> QED
    BY <1>2, EmptySeq

LEMMA TailElements ==
  ASSUME NEW S, NEW s \in Seq(S), s # << >>
  PROVE  /\ Tail(s) \in Seq(S) /\ Len(s) \in Nat \ {0} /\ Len(Tail(s)) = Len(s) - 1
         /\ Head(s) = s[1] /\ Head(s) \in S /\ 1 \in 1..Len(s)
         /\ \A n \in 1..Len(Tail(s)) : Tail(s)[n] = s[n+1] /\ n+1 \in 1..Len(s)
  <1>1. /\ Tail(s) \in Seq(S) /\ Len(s) \in Nat \ {0} /\ Len(Tail(s)) = Len(s) - 1
        /\ Head(s) = s[1] /\ Head(s) \in S
        /\ \A n \in 1..Len(Tail(s)) : Tail(s)[n] = s[n+1]
    BY HeadTailProperties, EmptySeq, LenProperties
  <1> QED
    BY <1>1

LEMMA DifferAppend ==
  ASSUME NEW S, NEW w \in Seq(S), NEW e, NEW c, Differ(c, w),
         e.obj # (IF Len(w) = 0 THEN c ELSE w[Len(w)].obj)
  PROVE  Differ(c, Append(w, e))
  <1> DEFINE after == Append(w, e)
  <1>1. /\ Len(after) = Len(w) + 1 /\ Len(w) \in Nat /\ after[Len(w) + 1] = e
        /\ \A n \in 1..Len(w) : after[n] = w[n]
    BY AppendedElements
  <1> HIDE DEF after
  <1> SUFFICES ASSUME NEW n \in 1..Len(after)
               PROVE  after[n].obj # (IF n = 1 THEN c ELSE after[n-1].obj)
    BY DEF Differ, after
  <1>2. CASE n \in 1..Len(w)
    <2>1. n # 1 => n - 1 \in 1..Len(w)
      BY <1>1, <1>2
    <2>2. after[n] = w[n] /\ (n # 1 => after[n-1] = w[n-1])
      BY <1>1, <1>2, <2>1
    <2> QED
      BY <1>2, <2>2 DEF Differ
  <1>3. CASE n = Len(w) + 1
    <2>1. n # 1 => n - 1 = Len(w) /\ Len(w) \in 1..Len(w)
      BY <1>1, <1>3
    <2>2. n = 1 => Len(w) = 0
      BY <1>1, <1>3
    <2> QED
      BY <1>1, <1>3, <2>1, <2>2
  <1> QED
    BY <1>1, <1>2, <1>3

LEMMA DifferTail ==
  ASSUME NEW S, NEW w \in Seq(S), NEW c, Differ(c, w), w # << >>
  PROVE  Head(w).obj # c /\ Differ(Head(w).obj, Tail(w))
  <1>1. /\ Len(w) \in Nat \ {0} /\ Len(Tail(w)) = Len(w) - 1
        /\ Head(w) = w[1] /\ 1 \in 1..Len(w)
        /\ \A n \in 1..Len(Tail(w)) : Tail(w)[n] = w[n+1] /\ n+1 \in 1..Len(w)
    BY TailElements
  <1>2. ASSUME NEW n \in 1..Len(Tail(w))
        PROVE  Tail(w)[n].obj # (IF n = 1 THEN Head(w).obj ELSE Tail(w)[n-1].obj)
    <2>1. w[n+1].obj # w[n].obj
      <3>1. n + 1 \in 1..Len(w) /\ n + 1 # 1 /\ (n + 1) - 1 = n
        BY <1>1
      <3> QED
        BY <3>1 DEF Differ
    <2>2. n # 1 => n - 1 \in 1..Len(Tail(w)) /\ (n - 1) + 1 = n
      BY <1>1
    <2>3. n # 1 => Tail(w)[n-1] = w[n]
      BY <1>1, <2>2
    <2> QED
      BY <1>1, <2>1, <2>3
  <1> QED
    BY <1>1, <1>2 DEF Differ

-----------------------------------------------------------------------------
(* What a step does to the service of a key, its events and notifications,  *)
(* while no watch breaks and every ingress is the controller's: with a      *)
(* broken watch an ingress may come and go unseen, and the end of a foreign *)
(* ingress is no reason for a sync; both leave a service without ingress.   *)
Undisturbed == MaxDisconnects = 0 /\ ~ForeignIngresses

ServiceKept(k) == UNCHANGED <<service[k], serviceWatch[k], serviceCache[k], serviceNotes[k]>>

ServiceWritten(k) ==
  /\ service'[k] # service[k] /\ Dated(service'[k], used'.ops)
  /\ serviceWatch'[k] = IF running THEN Append(serviceWatch[k], Svc!Event(service'[k]))
                                   ELSE serviceWatch[k]
  /\ UNCHANGED <<serviceCache[k], serviceNotes[k], running>>

ServiceReceived(k) ==
  /\ running /\ running' /\ serviceWatch[k] # << >>
  /\ serviceCache'[k] = Head(serviceWatch[k]).obj /\ serviceWatch'[k] = Tail(serviceWatch[k])
  /\ serviceNotes'[k] = Svc!Notify(serviceNotes[k], Svc!Note(serviceCache[k], Head(serviceWatch[k])))
  /\ UNCHANGED service[k]

ServiceNoteTaken(k) ==
  /\ running /\ running' /\ serviceNotes[k] # << >>
  /\ serviceNotes'[k] = Tail(serviceNotes[k])
  /\ UNCHANGED <<service[k], serviceWatch[k], serviceCache[k]>>
  /\ Head(serviceNotes[k]).old # Head(serviceNotes[k]).new => k \in dirty'

ServiceStopped(k) ==
  /\ ~running' /\ serviceWatch'[k] = << >> /\ serviceCache'[k] = Absent
  /\ serviceNotes'[k] = << >> /\ UNCHANGED service[k]

ServiceStarted(k) ==
  /\ ~running /\ running'
  /\ serviceCache'[k] = service[k] /\ UNCHANGED <<service[k], serviceWatch[k]>>
  /\ serviceNotes'[k] = IF service[k] = Absent THEN << >>
                        ELSE Svc!Notify(<< >>, Svc!Note(Absent, Svc!Event(service[k])))

ServiceMoves(k) ==
  /\ used.ops <= used'.ops
  /\ \/ ServiceKept(k) /\ (running => running') /\ (running' => running)
     \/ ServiceWritten(k) \/ ServiceReceived(k) \/ ServiceNoteTaken(k)
     \/ ServiceStopped(k) \/ ServiceStarted(k)

LEMMA UsedGrows ==
  ASSUME Inv, [Next]_vars
  PROVE  used.ops <= used'.ops /\ used.ops \in Nat /\ used'.ops \in Nat
  <1>1. /\ used \in [ops : 0..MaxOps, faults : 0..MaxFaults,
                     disconnects : 0..MaxDisconnects, crashes : 0..MaxCrashes]
        /\ used' \in [ops : 0..MaxOps, faults : 0..MaxFaults,
                      disconnects : 0..MaxDisconnects, crashes : 0..MaxCrashes]
        /\ MaxOps \in Nat
    BY OwnTypesPreserved, BoundsAssumption DEF Inv, TypeOK, OwnTypes
  <1>2. \/ used' = used \/ used' = [used EXCEPT !.ops = @ + 1]
        \/ Fault \/ Disconnect \/ Crash
    BY DEF Next, Users, CreateService, ChangeService, DeleteService, UserWrites,
           UserDeletesIngress, UserCreatesIngress, Collect, ReceiveService, HandleServiceNote,
           ReceiveIngress, HandleIngressDeletion, HandlerPanics, EntryReady, ReceiveEntry,
           TakeItem, Step, ReadService, ReadIngress, CreateIngress, DeleteIngress, Call,
           HandleError, Dequeue, Restart, vars
  <1>3. used'.ops = used.ops \/ used'.ops = used.ops + 1
    BY <1>1, <1>2 DEF Fault, Disconnect, Crash
  <1> QED
    BY <1>1, <1>3

LEMMA EveryStepMovesServices ==
  ASSUME Undisturbed, Inv, SyncInv, [Next]_vars, NEW k \in Items
  PROVE  ServiceMoves(k)
  <1>1. /\ service \in [Items -> Services \cup {Absent}]
        /\ serviceWatch \in [Items -> Seq(Svc!Events)]
        /\ serviceCache \in [Items -> Services \cup {Absent}]
        /\ serviceNotes \in [Items -> Seq(Svc!Notes)]
        /\ running \in BOOLEAN
    BY DEF Inv, TypeOK, Svc!TypeOK, Svc!MaybeObject
  <1>2. used.ops <= used'.ops /\ used.ops \in Nat /\ used'.ops \in Nat
    BY UsedGrows
  <1>3. ASSUME UNCHANGED <<serviceVars, running>> PROVE ServiceMoves(k)
    BY <1>2, <1>3 DEF serviceVars, ServiceMoves, ServiceKept
  <1>4. ASSUME NEW j \in Items, NEW annotated \in BOOLEAN,
               CreateService(j, annotated) \/ ChangeService(j, annotated) \/ DeleteService(j)
        PROVE  ServiceMoves(k)
    <2>1. /\ used' = [used EXCEPT !.ops = @ + 1] /\ running' = running
          /\ used \in [ops : 0..MaxOps, faults : 0..MaxFaults,
                       disconnects : 0..MaxDisconnects, crashes : 0..MaxCrashes]
      BY <1>4 DEF CreateService, ChangeService, DeleteService, UserWrites, Inv, TypeOK
    <2>2. used'.ops = used.ops + 1
      BY <2>1
    <2>3. service[j] # Absent => service[j] \in Services /\ service[j].version <= used.ops
      BY <1>1 DEF SyncInv, Changes, Dated
    <2>4. PICK s : /\ UserWrites(j, s) /\ s # service[j] /\ Dated(s, used'.ops)
      <3>1. CASE CreateService(j, annotated)
        <4> DEFINE s == [uid |-> used.ops + 1, version |-> used.ops + 1, annotated |-> annotated]
        <4>1. Dated(s, used'.ops)
          BY <1>2, <2>2 DEF Dated
        <4>2. s # Absent
          <5>1. used.ops + 1 \in 1..MaxOps
            BY <1>2, <2>1, <3>1, BoundsAssumption DEF CreateService, UserWrites
          <5> QED
            BY <5>1, AbsentAssumption DEF Services
        <4> QED
          BY <3>1, <4>1, <4>2 DEF CreateService
      <3>2. CASE ChangeService(j, annotated)
        <4> DEFINE s == [service[j] EXCEPT !.version = used.ops + 1, !.annotated = annotated]
        <4>1. service[j] \in Services /\ service[j].version <= used.ops
          BY <2>3, <3>2 DEF ChangeService
        <4>2. s.version = used.ops + 1 /\ service[j].version \in Nat
          BY <4>1, BoundsAssumption DEF Services
        <4>3. s # service[j] /\ Dated(s, used'.ops)
          <5> HIDE DEF s
          <5> QED
            BY <1>2, <2>2, <4>1, <4>2 DEF Dated
        <4> QED
          BY <3>2, <4>3 DEF ChangeService
      <3>3. CASE DeleteService(j)
        BY <3>3 DEF DeleteService, Dated
      <3> QED
        BY <1>4, <3>1, <3>2, <3>3
    <2>5. Svc!Write(j, s, running)
      BY <2>4 DEF UserWrites
    <2>6. CASE j = k
      <3>1. /\ service'[k] = s
            /\ serviceWatch'[k] = IF running THEN Append(serviceWatch[k], Svc!Event(s))
                                             ELSE serviceWatch[k]
            /\ UNCHANGED <<serviceCache[k], serviceNotes[k]>>
        BY <1>1, <2>5, <2>6 DEF Svc!Write
      <3> QED
        BY <1>2, <2>1, <2>4, <2>6, <3>1 DEF ServiceMoves, ServiceWritten
    <2>7. CASE j # k
      <3>1. ServiceKept(k)
        BY <1>1, <2>5, <2>7 DEF Svc!Write, ServiceKept
      <3> QED
        BY <1>2, <2>1, <3>1 DEF ServiceMoves
    <2> QED
      BY <2>6, <2>7
  <1>5. ASSUME NEW j \in Items, ReceiveService(j) PROVE ServiceMoves(k)
    <2>1. running /\ running' /\ Svc!Receive(j)
      BY <1>5 DEF ReceiveService
    <2>2. j = k => ServiceReceived(k)
      BY <1>1, <2>1 DEF Svc!Receive, ServiceReceived
    <2>3. j # k => ServiceKept(k)
      BY <1>1, <2>1 DEF Svc!Receive, ServiceKept
    <2> QED
      BY <1>2, <2>1, <2>2, <2>3 DEF ServiceMoves
  <1>6. ASSUME NEW j \in Items, HandleServiceNote(j) PROVE ServiceMoves(k)
    <2>1. running /\ running' /\ Svc!Take(j)
      BY <1>6 DEF HandleServiceNote
    <2>2. Head(serviceNotes[j]).old # Head(serviceNotes[j]).new => j \in dirty'
      BY <1>6 DEF HandleServiceNote, RLQ!Add, RLQ!WQ!Add, SyncInv
    <2>3. j = k => ServiceNoteTaken(k)
      BY <1>1, <2>1, <2>2 DEF Svc!Take, ServiceNoteTaken
    <2>4. j # k => ServiceKept(k)
      BY <1>1, <2>1 DEF Svc!Take, ServiceKept
    <2> QED
      BY <1>2, <2>1, <2>3, <2>4 DEF ServiceMoves
  <1>7. ~Disconnect
    BY DEF Undisturbed, Disconnect, Inv, TypeOK
  <1>8. ASSUME ProcessEnds PROVE ServiceMoves(k)
    BY <1>2, <1>8 DEF ProcessEnds, Svc!Stop, Svc!Empty, ServiceMoves, ServiceStopped
  <1>9. ASSUME Restart PROVE ServiceMoves(k)
    BY <1>2, <1>9 DEF Restart, Svc!Start, ServiceMoves, ServiceStarted
  <1>10. ASSUME NEW j \in Items,
               UserDeletesIngress(j) \/ UserCreatesIngress(j) \/ Collect(j) \/ ReceiveIngress(j)
                 \/ HandleIngressDeletion(j) \/ EntryReady(j)
        PROVE  UNCHANGED <<serviceVars, running>>
    BY <1>10 DEF UserDeletesIngress, UserCreatesIngress, Collect, ReceiveIngress,
                HandleIngressDeletion, EntryReady
  <1>11. ASSUME NEW w \in Workers, TakeItem(w) \/ Step(w)
        PROVE  UNCHANGED <<serviceVars, running>>
    BY <1>11 DEF TakeItem, Step, ReadService, ReadIngress, CreateIngress, DeleteIngress, Call,
                HandleError, Dequeue, memory
  <1>12. ASSUME ReceiveEntry \/ UNCHANGED vars PROVE UNCHANGED <<serviceVars, running>>
    BY <1>12 DEF ReceiveEntry, vars, memory
  <1> QED
    BY <1>3, <1>4, <1>5, <1>6, <1>7, <1>8, <1>9, <1>10, <1>11, <1>12
       DEF Next, Users, HandlerPanics, Crash

-----------------------------------------------------------------------------
(* What a step does to the ingress of a key, its events and notifications.  *)
IngressKept(k) == UNCHANGED <<ingress[k], ingressWatch[k], ingressCache[k], ingressNotes[k]>>

IngressWritten(k) ==
  /\ ingress'[k] # ingress[k] /\ Owned(ingress'[k])
  /\ ingressWatch'[k] = IF running THEN Append(ingressWatch[k], Ing!Event(ingress'[k]))
                                   ELSE ingressWatch[k]
  /\ UNCHANGED <<ingressCache[k], ingressNotes[k], running>>

IngressReceived(k) ==
  /\ running /\ running' /\ ingressWatch[k] # << >>
  /\ ingressCache'[k] = Head(ingressWatch[k]).obj /\ ingressWatch'[k] = Tail(ingressWatch[k])
  /\ ingressNotes'[k] = Ing!Notify(ingressNotes[k], Ing!Note(ingressCache[k], Head(ingressWatch[k])))
  /\ UNCHANGED ingress[k]

IngressNoteTaken(k) ==
  /\ running /\ running' /\ ingressNotes[k] # << >>
  /\ ingressNotes'[k] = Tail(ingressNotes[k])
  /\ UNCHANGED <<ingress[k], ingressWatch[k], ingressCache[k]>>
  /\ k \in dirty'

IngressStopped(k) ==
  /\ ~running' /\ ingressWatch'[k] = << >> /\ ingressCache'[k] = Absent
  /\ ingressNotes'[k] = << >> /\ UNCHANGED ingress[k]

IngressStarted(k) ==
  /\ ~running /\ running'
  /\ ingressCache'[k] = ingress[k] /\ UNCHANGED <<ingress[k], ingressWatch[k]>>
  /\ ingressNotes'[k] = << >>

IngressMoves(k) ==
  \/ IngressKept(k) /\ (running => running') /\ (running' => running)
  \/ IngressWritten(k) \/ IngressReceived(k) \/ IngressNoteTaken(k)
  \/ IngressStopped(k) \/ IngressStarted(k)

LEMMA EveryStepMovesIngresses ==
  ASSUME Undisturbed, Inv, SyncInv, [Next]_vars, NEW k \in Items
  PROVE  IngressMoves(k)
  <1>1. /\ ingress \in [Items -> Ingresses \cup {Absent}]
        /\ ingressWatch \in [Items -> Seq(Ing!Events)]
        /\ ingressCache \in [Items -> Ingresses \cup {Absent}]
        /\ ingressNotes \in [Items -> Seq(Ing!Notes)]
        /\ running \in BOOLEAN
    BY DEF Inv, TypeOK, Ing!TypeOK, Ing!MaybeObject
  <1>3. ASSUME UNCHANGED <<ingressVars, running>> PROVE IngressMoves(k)
    BY <1>3 DEF ingressVars, IngressMoves, IngressKept
  <1>4. ASSUME NEW j \in Items, NEW obj, Ing!Write(j, obj, running), running' = running,
               obj # ingress[j], Owned(obj)
        PROVE  IngressMoves(k)
    <2>1. CASE j = k
      <3>1. /\ ingress'[k] = obj
            /\ ingressWatch'[k] = IF running THEN Append(ingressWatch[k], Ing!Event(obj))
                                             ELSE ingressWatch[k]
            /\ UNCHANGED <<ingressCache[k], ingressNotes[k]>>
        BY <1>1, <1>4, <2>1 DEF Ing!Write
      <3> QED
        BY <1>4, <2>1, <3>1 DEF IngressMoves, IngressWritten
    <2>2. CASE j # k
      <3>1. IngressKept(k)
        BY <1>1, <1>4, <2>2 DEF Ing!Write, IngressKept
      <3> QED
        BY <1>4, <3>1 DEF IngressMoves
    <2> QED
      BY <2>1, <2>2
  <1>5. ASSUME NEW j \in Items, UserDeletesIngress(j) \/ UserCreatesIngress(j) \/ Collect(j)
        PROVE  IngressMoves(k)
    BY <1>4, <1>5 DEF UserDeletesIngress, UserCreatesIngress, Collect, HasIngress, Owned, Undisturbed
  <1>6. ASSUME NEW w \in Workers, CreateIngress(w) \/ DeleteIngress(w)
        PROVE  IngressMoves(k)
    <2>1. running /\ running' = running /\ Key(w) \in Items /\ running = TRUE
      BY <1>1, <1>6 DEF Inv, WorkersKnow, CreateIngress, DeleteIngress, Call, At
    <2>2. CASE UNCHANGED ingressVars
      BY <1>3, <2>1, <2>2
    <2>3. CASE CreateIngress(w) /\ ~UNCHANGED ingressVars
      <3> DEFINE obj == [owner |-> worker[w].service.uid]
      <3>1. worker[w].service \in Services
        BY <2>3 DEF Inv, TypeOK, WorkersKnow, CreateIngress, At
      <3>2. Owned(obj)
        BY <3>1, BoundsAssumption DEF Services, Owned, NoOwner
      <3>3. obj # Absent
        <4>1. obj \in Ingresses
          BY <3>1, BoundsAssumption DEF Services, Ingresses
        <4> QED
          BY <4>1, AbsentAssumption
      <3>4. Ing!Write(Key(w), obj, TRUE) /\ ingress[Key(w)] = Absent
        BY <2>3 DEF CreateIngress, Call, HasIngress
      <3> HIDE DEF obj
      <3> QED
        BY <1>4, <2>1, <3>2, <3>3, <3>4
    <2>4. CASE DeleteIngress(w) /\ ~UNCHANGED ingressVars
      <3>1. Ing!Write(Key(w), Absent, TRUE) /\ ingress[Key(w)] # Absent
        BY <2>4 DEF DeleteIngress, Call, HasIngress
      <3> QED
        BY <1>4, <2>1, <3>1 DEF Owned
    <2> QED
      BY <1>6, <2>2, <2>3, <2>4
  <1>7. ASSUME NEW j \in Items, ReceiveIngress(j) PROVE IngressMoves(k)
    <2>1. running /\ running' /\ Ing!Receive(j)
      BY <1>7 DEF ReceiveIngress
    <2>2. j = k => IngressReceived(k)
      BY <1>1, <2>1 DEF Ing!Receive, IngressReceived
    <2>3. j # k => IngressKept(k)
      BY <1>1, <2>1 DEF Ing!Receive, IngressKept
    <2> QED
      BY <2>1, <2>2, <2>3 DEF IngressMoves
  <1>8. ASSUME NEW j \in Items, HandleIngressDeletion(j) PROVE IngressMoves(k)
    <2>1. running /\ running' /\ Ing!Take(j) /\ ingressNotes[j] # << >>
      BY <1>8 DEF HandleIngressDeletion
    <2>2. Head(ingressNotes[j]) = ingressNotes[j][1] /\ 1 \in 1..Len(ingressNotes[j])
      <3>1. ingressNotes[j] \in Seq(Ing!Notes)
        BY <1>1
      <3> QED
        BY <2>1, <3>1, TailElements
    <2>3. Head(ingressNotes[j]).old.owner # NoOwner
      BY <2>2 DEF SyncInv, Changes, Owned
    <2>4. j \in dirty'
      BY <1>8, <2>3 DEF HandleIngressDeletion, RLQ!Add, RLQ!WQ!Add, SyncInv
    <2>5. j = k => IngressNoteTaken(k)
      BY <1>1, <2>1, <2>4 DEF Ing!Take, IngressNoteTaken
    <2>6. j # k => IngressKept(k)
      BY <1>1, <2>1 DEF Ing!Take, IngressKept
    <2> QED
      BY <2>1, <2>5, <2>6 DEF IngressMoves
  <1>9. ~Disconnect
    BY DEF Undisturbed, Disconnect, Inv, TypeOK
  <1>10. ASSUME ProcessEnds PROVE IngressMoves(k)
    BY <1>10 DEF ProcessEnds, Ing!Stop, Ing!Empty, IngressMoves, IngressStopped
  <1>11. ASSUME Restart PROVE IngressMoves(k)
    <2>1. /\ ~running /\ running' /\ ingressCache'[k] = ingress[k]
          /\ UNCHANGED <<ingress[k], ingressWatch[k]>>
          /\ \/ ingress[k] = Absent /\ ingressNotes'[k] = << >>
             \/ ingress[k] # Absent
                /\ ingressNotes'[k] = Ing!Notify(<< >>, Ing!Note(Absent, Ing!Event(ingress[k])))
      BY <1>11 DEF Restart, Ing!Start
    <2>2. ingress[k] # Absent => Ing!Note(Absent, Ing!Event(ingress[k])).handler = "AddFunc"
      BY DEF Ing!Note, Ing!Event, Ing!HandlerOf
    <2>3. ingressNotes'[k] = << >>
      BY <2>1, <2>2 DEF Ing!Notify
    <2> QED
      BY <2>1, <2>3 DEF IngressMoves, IngressStarted
  <1>12. ASSUME NEW j \in Items, NEW annotated \in BOOLEAN,
               CreateService(j, annotated) \/ ChangeService(j, annotated) \/ DeleteService(j)
                 \/ ReceiveService(j) \/ HandleServiceNote(j) \/ EntryReady(j)
        PROVE  UNCHANGED <<ingressVars, running>>
    BY <1>12 DEF CreateService, ChangeService, DeleteService, UserWrites, ReceiveService,
                HandleServiceNote, EntryReady
  <1>13. ASSUME NEW w \in Workers,
                TakeItem(w) \/ ReadService(w) \/ ReadIngress(w) \/ HandleError(w) \/ Dequeue(w)
         PROVE  UNCHANGED <<ingressVars, running>>
    BY <1>13 DEF TakeItem, ReadService, ReadIngress, HandleError, Dequeue, memory
  <1>14. ASSUME ReceiveEntry \/ UNCHANGED vars PROVE UNCHANGED <<ingressVars, running>>
    BY <1>14 DEF ReceiveEntry, vars, memory
  <1> QED
    BY <1>3, <1>5, <1>6, <1>7, <1>8, <1>9, <1>10, <1>11, <1>12, <1>13, <1>14
       DEF Next, Users, Step, HandlerPanics, Crash

-----------------------------------------------------------------------------
(* The changes of a service, as its events and notifications tell them.     *)
LEMMA ServiceChangesPreserved ==
  ASSUME Inv, SyncInv, NEW k \in Items, ServiceMoves(k), used.ops \in Nat, used'.ops \in Nat
  PROVE  /\ Dated(service'[k], used'.ops)
         /\ Differ(serviceCache'[k], serviceWatch'[k])
         /\ \A n \in 1..Len(serviceNotes'[k]) : serviceNotes'[k][n].old # serviceNotes'[k][n].new
  <1> DEFINE Told(notes) == \A n \in 1..Len(notes) : notes[n].old # notes[n].new
  <1>1. /\ service[k] \in Services \cup {Absent}
        /\ serviceWatch[k] \in Seq(Svc!Events) /\ serviceNotes[k] \in Seq(Svc!Notes)
    BY DEF Inv, TypeOK, Svc!TypeOK, Svc!MaybeObject
  <1>2. /\ Dated(service[k], used.ops) /\ Differ(serviceCache[k], serviceWatch[k])
        /\ Told(serviceNotes[k])
    BY DEF SyncInv, Changes
  <1>3. UNCHANGED service[k] => Dated(service'[k], used'.ops)
    <2>1. service[k] # Absent => service[k].version \in Nat
      BY <1>1, BoundsAssumption DEF Services
    <2> QED
      BY <1>2, <2>1 DEF Dated, ServiceMoves
  <1>4. \A c : Differ(c, << >>) /\ Told(<< >>)
    BY EmptySeq DEF Differ
  <1>5. ASSUME NEW S, NEW notes \in Seq(S), Told(notes), NEW old, NEW e, old # e.obj
        PROVE  Told(Svc!Notify(notes, Svc!Note(old, e)))
    <2> DEFINE note == Svc!Note(old, e)
    <2>1. note.old # note.new
      BY <1>5 DEF Svc!Note
    <2> HIDE DEF note
    <2>2. Told(Append(notes, note))
      <3>1. /\ Len(Append(notes, note)) = Len(notes) + 1 /\ Len(notes) \in Nat
            /\ Append(notes, note)[Len(notes) + 1] = note
            /\ \A n \in 1..Len(notes) : Append(notes, note)[n] = notes[n]
        BY AppendedElements
      <3>2. ASSUME NEW n \in 1..Len(Append(notes, note))
            PROVE  Append(notes, note)[n].old # Append(notes, note)[n].new
        <4>1. n \in 1..Len(notes) \/ n = Len(notes) + 1
          BY <3>1
        <4> QED
          BY <1>5, <2>1, <3>1, <4>1
      <3> QED
        BY <3>2
    <2>3. Told(Svc!Notify(notes, note))
      BY <1>5, <2>2 DEF Svc!Notify
    <2> QED
      BY <2>3 DEF note
  <1> HIDE DEF Told
  <1>6. CASE ServiceKept(k)
    BY <1>2, <1>3, <1>6 DEF ServiceKept, Told
  <1>7. CASE ServiceWritten(k)
    <2> DEFINE e == Svc!Event(service'[k])
    <2>1. e.obj = service'[k] /\ service'[k] # service[k]
      BY <1>7 DEF Svc!Event, ServiceWritten
    <2>2. running => service[k] = IF Len(serviceWatch[k]) = 0 THEN serviceCache[k]
                                  ELSE serviceWatch[k][Len(serviceWatch[k])].obj
      BY DEF Inv, SvcP!Agrees, SvcP!CacheCatchesUp
    <2> HIDE DEF e
    <2>3. running => Differ(serviceCache[k], Append(serviceWatch[k], e))
      BY <1>1, <1>2, <2>1, <2>2, DifferAppend
    <2>4. Differ(serviceCache'[k], serviceWatch'[k])
      BY <1>2, <1>7, <2>3 DEF ServiceWritten, e
    <2> QED
      BY <1>2, <1>7, <2>4 DEF ServiceWritten, Told
  <1>8. CASE ServiceReceived(k)
    <2>1. Head(serviceWatch[k]).obj # serviceCache[k] /\ Differ(serviceCache'[k], serviceWatch'[k])
      BY <1>1, <1>2, <1>8, DifferTail DEF ServiceReceived
    <2>2. Told(serviceNotes'[k])
      BY <1>1, <1>2, <1>5, <1>8, <2>1 DEF ServiceReceived
    <2> QED
      BY <1>3, <1>8, <2>1, <2>2 DEF ServiceReceived, Told
  <1>9. CASE ServiceNoteTaken(k)
    <2>1. Told(Tail(serviceNotes[k]))
      <3>1. \A n \in 1..Len(Tail(serviceNotes[k])) :
              Tail(serviceNotes[k])[n] = serviceNotes[k][n+1] /\ n+1 \in 1..Len(serviceNotes[k])
        BY <1>1, <1>9, TailElements DEF ServiceNoteTaken
      <3> QED
        BY <1>2, <3>1 DEF Told
    <2> QED
      BY <1>2, <1>3, <1>9, <2>1 DEF ServiceNoteTaken, Told
  <1>10. CASE ServiceStopped(k)
    BY <1>3, <1>4, <1>10 DEF ServiceStopped, Told
  <1>11. CASE ServiceStarted(k)
    <2>1. serviceWatch[k] = << >>
      BY <1>11 DEF ServiceStarted, Inv, SvcP!Agrees, SvcP!Empty
    <2>2. Told(serviceNotes'[k])
      <3>1. CASE service[k] = Absent
        BY <1>4, <1>11, <3>1 DEF ServiceStarted
      <3>2. CASE service[k] # Absent
        <4>1. Absent # Svc!Event(service[k]).obj
          BY <3>2 DEF Svc!Event
        <4>2. << >> \in Seq({})
          BY EmptySeq
        <4>3. Told(Svc!Notify(<< >>, Svc!Note(Absent, Svc!Event(service[k]))))
          BY <1>4, <1>5, <4>1, <4>2
        <4> QED
          BY <1>11, <3>2, <4>3 DEF ServiceStarted
      <3> QED
        BY <3>1, <3>2
    <2> QED
      BY <1>3, <1>4, <1>11, <2>1, <2>2 DEF ServiceStarted, Told
  <1> QED
    BY <1>6, <1>7, <1>8, <1>9, <1>10, <1>11 DEF ServiceMoves

(* The same of an ingress: it is the controller's, and its deletion is told *)
(* with what it was.                                                        *)
LEMMA IngressChangesPreserved ==
  ASSUME Inv, SyncInv, NEW k \in Items, IngressMoves(k)
  PROVE  /\ Owned(ingress'[k]) /\ Owned(ingressCache'[k])
         /\ Differ(ingressCache'[k], ingressWatch'[k])
         /\ \A n \in 1..Len(ingressWatch'[k]) : Owned(ingressWatch'[k][n].obj)
         /\ \A n \in 1..Len(ingressNotes'[k]) :
              ingressNotes'[k][n].old # Absent /\ Owned(ingressNotes'[k][n].old)
  <1> DEFINE Sent(watch)  == \A n \in 1..Len(watch) : Owned(watch[n].obj)
             Told(notes) == \A n \in 1..Len(notes) : notes[n].old # Absent /\ Owned(notes[n].old)
             Goal == /\ Owned(ingress'[k]) /\ Owned(ingressCache'[k])
                     /\ Differ(ingressCache'[k], ingressWatch'[k])
                     /\ Sent(ingressWatch'[k]) /\ Told(ingressNotes'[k])
  <1> SUFFICES Goal
    OBVIOUS
  <1>1. ingressWatch[k] \in Seq(Ing!Events) /\ ingressNotes[k] \in Seq(Ing!Notes)
    BY DEF Inv, TypeOK, Ing!TypeOK
  <1>2. /\ Owned(ingress[k]) /\ Owned(ingressCache[k])
        /\ Differ(ingressCache[k], ingressWatch[k])
        /\ Sent(ingressWatch[k]) /\ Told(ingressNotes[k])
    BY DEF SyncInv, Changes
  <1>3. Owned(Absent) /\ Sent(<< >>) /\ Told(<< >>) /\ \A c : Differ(c, << >>)
    BY EmptySeq DEF Owned, Differ
  <1>4. CASE IngressKept(k)
    BY <1>2, <1>4 DEF IngressKept
  <1>5. CASE IngressWritten(k)
    <2> DEFINE e == Ing!Event(ingress'[k])
    <2>1. e.obj = ingress'[k] /\ ingress'[k] # ingress[k] /\ Owned(e.obj)
      BY <1>5 DEF Ing!Event, IngressWritten
    <2>2. running => ingress[k] = IF Len(ingressWatch[k]) = 0 THEN ingressCache[k]
                                  ELSE ingressWatch[k][Len(ingressWatch[k])].obj
      BY DEF Inv, IngP!Agrees, IngP!CacheCatchesUp
    <2> HIDE DEF e
    <2>3. running => Differ(ingressCache[k], Append(ingressWatch[k], e))
      BY <1>1, <1>2, <2>1, <2>2, DifferAppend
    <2>4. Sent(Append(ingressWatch[k], e))
      <3> DEFINE after == Append(ingressWatch[k], e)
      <3>1. /\ Len(after) = Len(ingressWatch[k]) + 1 /\ Len(ingressWatch[k]) \in Nat
            /\ after[Len(ingressWatch[k]) + 1] = e
            /\ \A n \in 1..Len(ingressWatch[k]) : after[n] = ingressWatch[k][n]
        BY <1>1, AppendedElements
      <3> HIDE DEF after
      <3>2. ASSUME NEW n \in 1..Len(after) PROVE Owned(after[n].obj)
        <4>1. n \in 1..Len(ingressWatch[k]) \/ n = Len(ingressWatch[k]) + 1
          BY <3>1
        <4> QED
          BY <1>2, <2>1, <3>1, <4>1
      <3>3. Sent(after)
        BY <3>2
      <3> QED
        BY <3>3 DEF after
    <2> HIDE DEF Sent, Told
    <2>5. \/ ingressWatch'[k] = Append(ingressWatch[k], e) /\ running
          \/ ingressWatch'[k] = ingressWatch[k]
      BY <1>5 DEF IngressWritten, e
    <2>6. ingressCache'[k] = ingressCache[k] /\ ingressNotes'[k] = ingressNotes[k]
      BY <1>5 DEF IngressWritten
    <2> QED
      BY <1>2, <2>1, <2>3, <2>4, <2>5, <2>6
  <1>6. CASE IngressReceived(k)
    <2> DEFINE e == Head(ingressWatch[k])
               note == Ing!Note(ingressCache[k], e)
    <2>1. e.obj # ingressCache[k] /\ Differ(ingressCache'[k], ingressWatch'[k])
      BY <1>1, <1>2, <1>6, DifferTail DEF IngressReceived
    <2>2. /\ e = ingressWatch[k][1] /\ 1 \in 1..Len(ingressWatch[k])
          /\ \A n \in 1..Len(Tail(ingressWatch[k])) :
               Tail(ingressWatch[k])[n] = ingressWatch[k][n+1] /\ n+1 \in 1..Len(ingressWatch[k])
      BY <1>1, <1>6, TailElements DEF IngressReceived
    <2>3. Owned(e.obj) /\ Sent(ingressWatch'[k])
      BY <1>2, <1>6, <2>2 DEF IngressReceived
    <2>4. note.handler = "DeleteFunc" => note.old # Absent /\ Owned(note.old)
      BY <1>2, <2>1 DEF Ing!Note, Ing!HandlerOf
    <2> HIDE DEF note
    <2>5. note.handler = "DeleteFunc" => Told(Append(ingressNotes[k], note))
      <3> DEFINE after == Append(ingressNotes[k], note)
      <3>1. /\ Len(after) = Len(ingressNotes[k]) + 1 /\ Len(ingressNotes[k]) \in Nat
            /\ after[Len(ingressNotes[k]) + 1] = note
            /\ \A n \in 1..Len(ingressNotes[k]) : after[n] = ingressNotes[k][n]
        BY <1>1, AppendedElements
      <3> HIDE DEF after
      <3>2. ASSUME note.handler = "DeleteFunc", NEW n \in 1..Len(after)
            PROVE  after[n].old # Absent /\ Owned(after[n].old)
        <4>1. n \in 1..Len(ingressNotes[k]) \/ n = Len(ingressNotes[k]) + 1
          BY <3>1
        <4> QED
          BY <1>2, <2>4, <3>1, <3>2, <4>1
      <3>3. note.handler = "DeleteFunc" => Told(after)
        BY <3>2
      <3> QED
        BY <3>3 DEF after
    <2> HIDE DEF Sent, Told
    <2>6. Told(ingressNotes'[k])
      <3>1. ingressNotes'[k] = Ing!Notify(ingressNotes[k], note)
        BY <1>6 DEF IngressReceived, note
      <3> QED
        BY <1>2, <2>5, <3>1 DEF Ing!Notify
    <2>7. ingressCache'[k] = e.obj /\ ingress'[k] = ingress[k]
      BY <1>6 DEF IngressReceived
    <2> QED
      BY <1>2, <2>1, <2>3, <2>6, <2>7
  <1>7. CASE IngressNoteTaken(k)
    <2>1. Told(Tail(ingressNotes[k]))
      <3>1. \A n \in 1..Len(Tail(ingressNotes[k])) :
              Tail(ingressNotes[k])[n] = ingressNotes[k][n+1] /\ n+1 \in 1..Len(ingressNotes[k])
        BY <1>1, <1>7, TailElements DEF IngressNoteTaken
      <3> QED
        BY <1>2, <3>1
    <2> QED
      BY <1>2, <1>7, <2>1 DEF IngressNoteTaken
  <1>8. CASE IngressStopped(k)
    BY <1>2, <1>3, <1>8 DEF IngressStopped
  <1>9. CASE IngressStarted(k)
    <2>1. ingressWatch[k] = << >>
      BY <1>9 DEF IngressStarted, Inv, IngP!Agrees, IngP!Empty
    <2> QED
      BY <1>2, <1>3, <1>9, <2>1 DEF IngressStarted
  <1> QED
    BY <1>4, <1>5, <1>6, <1>7, <1>8, <1>9 DEF IngressMoves

-----------------------------------------------------------------------------
(* What makes a sync follow stays until it is begun.                        *)
LEMMA PendingStays ==
  ASSUME Inv, SyncInv, NEW k \in Items, ServiceMoves(k), running, running',
         k \in dirty => k \in dirty'
  PROVE  /\ ServicePending(k) => ServicePending(k)' \/ service'[k] = Absent
         /\ service'[k] = service[k] \/ ServicePending(k)'
  <1>1. /\ serviceWatch[k] \in Seq(Svc!Events) /\ serviceNotes[k] \in Seq(Svc!Notes)
        /\ \A n \in 1..Len(serviceNotes[k]) : serviceNotes[k][n].old # serviceNotes[k][n].new
        /\ SvcP!CacheCatchesUp
    BY DEF Inv, TypeOK, Svc!TypeOK, SyncInv, Changes, SvcP!Agrees
  <1>2. CASE ServiceKept(k)
    BY <1>2 DEF ServiceKept, ServicePending
  <1>3. CASE ServiceWritten(k)
    <2>1. serviceWatch'[k] # << >>
      BY <1>1, <1>3, AppendedElements DEF ServiceWritten
    <2> QED
      BY <2>1 DEF ServicePending
  <1>4. CASE ServiceReceived(k)
    <2> DEFINE e == Head(serviceWatch[k])
    <2>1. /\ Len(serviceWatch[k]) \in Nat \ {0} /\ e = serviceWatch[k][1]
          /\ Tail(serviceWatch[k]) \in Seq(Svc!Events)
          /\ Len(Tail(serviceWatch[k])) = Len(serviceWatch[k]) - 1
      BY <1>1, <1>4, TailElements DEF ServiceReceived
    <2>2. CASE serviceWatch'[k] # << >>
      BY <1>4, <2>2 DEF ServicePending, ServiceReceived
    <2>3. CASE e.obj # Absent
      <3>1. Svc!Note(serviceCache[k], e).handler \in {"AddFunc", "UpdateFunc"}
        BY <2>3 DEF Svc!Note, Svc!HandlerOf
      <3>2. serviceNotes'[k] # << >>
        BY <1>1, <1>4, <3>1, AppendedElements DEF ServiceReceived, Svc!Notify
      <3> QED
        BY <3>2 DEF ServicePending
    <2>4. CASE serviceWatch'[k] = << >> /\ e.obj = Absent
      <3>1. Len(serviceWatch[k]) = 1
        <4>1. Tail(serviceWatch[k]) = << >>
          BY <1>4, <2>4 DEF ServiceReceived
        <4>2. Len(Tail(serviceWatch[k])) = 0
          BY <4>1, EmptySeq
        <4> QED
          BY <2>1, <4>2
      <3>2. service[k] = Absent
        BY <1>1, <2>1, <2>4, <3>1 DEF SvcP!CacheCatchesUp
      <3> QED
        BY <1>4, <3>2 DEF ServiceReceived
    <2> QED
      BY <2>2, <2>3, <2>4
  <1>5. CASE ServiceNoteTaken(k)
    <2>1. Head(serviceNotes[k]) = serviceNotes[k][1] /\ 1 \in 1..Len(serviceNotes[k])
      BY <1>1, <1>5, TailElements DEF ServiceNoteTaken
    <2>2. k \in dirty'
      BY <1>1, <1>5, <2>1 DEF ServiceNoteTaken
    <2> QED
      BY <2>2 DEF ServicePending
  <1> QED
    BY <1>2, <1>3, <1>4, <1>5 DEF ServiceMoves, ServiceStopped, ServiceStarted

LEMMA SeenStays ==
  ASSUME Inv, SyncInv, NEW k \in Items, IngressMoves(k), running, running',
         k \in dirty => k \in dirty'
  PROVE  /\ IngressSeen(k) => IngressSeen(k)'
         /\ ingress'[k] \in {ingress[k], Absent} \/ IngressSeen(k)'
  <1>1. ingressWatch[k] \in Seq(Ing!Events) /\ ingressNotes[k] \in Seq(Ing!Notes)
    BY DEF Inv, TypeOK, Ing!TypeOK
  <1>2. CASE IngressKept(k)
    BY <1>2 DEF IngressKept, IngressSeen
  <1>3. CASE IngressWritten(k)
    <2> DEFINE e == Ing!Event(ingress'[k])
    <2>1. /\ ingressWatch'[k] = Append(ingressWatch[k], e) /\ e.obj = ingress'[k]
          /\ UNCHANGED <<ingressCache[k], ingressNotes[k]>>
      BY <1>3 DEF IngressWritten, Ing!Event
    <2> HIDE DEF e
    <2>2. /\ Len(ingressWatch'[k]) = Len(ingressWatch[k]) + 1 /\ Len(ingressWatch[k]) \in Nat
          /\ ingressWatch'[k][Len(ingressWatch[k]) + 1] = e
          /\ \A n \in 1..Len(ingressWatch[k]) : ingressWatch'[k][n] = ingressWatch[k][n]
      BY <1>1, <2>1, AppendedElements
    <2>3. /\ Len(ingressWatch[k]) + 1 \in 1..Len(ingressWatch'[k])
          /\ \A n \in 1..Len(ingressWatch[k]) : n \in 1..Len(ingressWatch'[k])
      BY <2>2
    <2> QED
      BY <2>1, <2>2, <2>3 DEF IngressSeen
  <1>4. CASE IngressReceived(k)
    <2> DEFINE e == Head(ingressWatch[k])
               note == Ing!Note(ingressCache[k], e)
    <2>1. /\ e = ingressWatch[k][1] /\ Len(ingressWatch[k]) \in Nat \ {0}
          /\ Len(Tail(ingressWatch[k])) = Len(ingressWatch[k]) - 1
          /\ \A n \in 1..Len(Tail(ingressWatch[k])) : Tail(ingressWatch[k])[n] = ingressWatch[k][n+1]
      BY <1>1, <1>4, TailElements DEF IngressReceived
    <2>2. /\ ingressCache'[k] = e.obj /\ ingressWatch'[k] = Tail(ingressWatch[k])
          /\ ingressNotes'[k] \in {ingressNotes[k], Append(ingressNotes[k], note)}
          /\ note.handler = "DeleteFunc" => ingressNotes'[k] = Append(ingressNotes[k], note)
      BY <1>4 DEF IngressReceived, Ing!Notify
    <2>3. Append(ingressNotes[k], note) # << >>
      BY <1>1, AppendedElements
    <2>4. CASE e.obj # Absent
      BY <2>2, <2>4 DEF IngressSeen
    <2>5. CASE e.obj = Absent
      <3>1. note.handler = "DeleteFunc"
        BY <2>5 DEF Ing!Note, Ing!HandlerOf
      <3> QED
        BY <2>2, <2>3, <3>1 DEF IngressSeen
    <2> QED
      BY <1>4, <2>4, <2>5 DEF IngressReceived
  <1>5. CASE IngressNoteTaken(k)
    BY <1>5 DEF IngressNoteTaken, IngressSeen
  <1> QED
    BY <1>2, <1>3, <1>4, <1>5 DEF IngressMoves, IngressStopped, IngressStarted

(* How a step uses the queue, unless it ends the process. *)
LEMMA QueueUse ==
  ASSUME Inv, [Next]_vars, ~ProcessEnds
  PROVE  \/ UNCHANGED queueVars
         \/ \E j \in Items : RLQ!Add(j) \/ RLQ!Ready(j) \/ RLQ!Get(j) \/ RLQ!Done(j)
                               \/ RLQ!AddRateLimited(j) \/ RLQ!Forget(j)
         \/ RLQ!ReceiveEntry
  <1> DEFINE Goal == \/ UNCHANGED queueVars
                     \/ \E j \in Items : RLQ!Add(j) \/ RLQ!Ready(j) \/ RLQ!Get(j) \/ RLQ!Done(j)
                                           \/ RLQ!AddRateLimited(j) \/ RLQ!Forget(j)
                     \/ RLQ!ReceiveEntry
  <1>1. ASSUME NEW k \in Items, HandleServiceNote(k) \/ HandleIngressDeletion(k) PROVE Goal
    BY <1>1 DEF HandleServiceNote, HandleIngressDeletion
  <1>2. ASSUME NEW k \in Items, EntryReady(k) PROVE Goal
    BY <1>2 DEF EntryReady
  <1>3. ASSUME ReceiveEntry PROVE Goal
    BY <1>3 DEF ReceiveEntry
  <1>4. ASSUME NEW w \in Workers, TakeItem(w) PROVE Goal
    BY <1>4 DEF TakeItem
  <1>5. ASSUME NEW w \in Workers, HandleError(w) \/ Dequeue(w) PROVE Goal
    <2>1. Key(w) \in Items
      BY <1>5, BusyHolds DEF HandleError, Dequeue, At
    <2> QED
      BY <1>5, <2>1 DEF HandleError, Dequeue
  <1>6. ASSUME NEW w \in Workers,
               ReadService(w) \/ ReadIngress(w) \/ CreateIngress(w) \/ DeleteIngress(w)
        PROVE  UNCHANGED queueVars
    BY <1>6 DEF ReadService, ReadIngress, CreateIngress, DeleteIngress, Call, memory
  <1>7. ASSUME Users PROVE UNCHANGED queueVars
    BY <1>7 DEF Users, CreateService, ChangeService, DeleteService, UserWrites,
                 UserDeletesIngress, UserCreatesIngress
  <1>8. ASSUME NEW k \in Items, Collect(k) \/ ReceiveService(k) \/ ReceiveIngress(k)
         PROVE  UNCHANGED queueVars
    BY <1>8 DEF Collect, ReceiveService, ReceiveIngress
  <1>9. ASSUME Disconnect \/ Restart \/ UNCHANGED vars PROVE UNCHANGED queueVars
    BY <1>9 DEF Disconnect, Restart, vars, memory
  <1> QED
    BY <1>1, <1>2, <1>3, <1>4, <1>5, <1>6, <1>7, <1>8, <1>9
       DEF Next, Step, HandlerPanics, Crash

(* A key that needs a sync is not forgotten: it stays dirty until a worker  *)
(* takes it, and an entry waits until its key is dirty.                     *)
LEMMA DirtyStays ==
  ASSUME Inv, SyncInv, [Next]_vars, running', NEW k \in Items
  PROVE  /\ ~shuttingDown'
         /\ k \in dirty => k \in dirty' \/ (k \notin processing /\ k \in processing')
         /\ RLQ!Waiting(k) => RLQ!Waiting(k)' \/ k \in dirty'
  <1>0. ~ProcessEnds
    BY DEF ProcessEnds
  <1>1. /\ ~shuttingDown /\ queue \in Seq(Items) /\ waitingForAddCh \in Seq(Items)
        /\ RLQP!WQ!QueuedIsDirtyAndIdle
    BY DEF SyncInv, Inv, TypeOK, RLQ!TypeOK, RLQ!WQ!TypeOK, RLQP!Inv, RLQP!WQ!QueueInv
  <1>2. CASE UNCHANGED queueVars
    BY <1>1, <1>2 DEF queueVars, RLQ!Waiting
  <1>3. ASSUME NEW j \in Items, RLQ!WQ!Add(j)
        PROVE  j \in dirty' /\ dirty \subseteq dirty' /\ ~shuttingDown'
    BY <1>1, <1>3 DEF RLQ!WQ!Add
  <1>4. ASSUME NEW j \in Items, RLQ!Add(j) \/ RLQ!Ready(j)
        PROVE  /\ j \in dirty' /\ dirty \subseteq dirty' /\ ~shuttingDown'
               /\ waitingForAddCh' = waitingForAddCh
               /\ k \in waitingForQueue => k \in waitingForQueue' \/ k = j
    BY <1>3, <1>4 DEF RLQ!Add, RLQ!Ready, RLQ!delayVars
  <1>5. ASSUME NEW j \in Items, RLQ!Get(j)
        PROVE  /\ ~shuttingDown' /\ UNCHANGED <<waitingForAddCh, waitingForQueue>>
               /\ k \in dirty => k \in dirty' \/ (k \notin processing /\ k \in processing')
    <2>1. queue # << >> /\ j = Head(queue) /\ dirty' = dirty \ {j} /\ processing' = processing \cup {j}
      BY <1>5 DEF RLQ!Get, RLQ!WQ!Get
    <2>2. Head(queue) = queue[1] /\ 1 \in 1..Len(queue)
      BY <1>1, <2>1, TailElements
    <2>3. j \notin processing
      BY <1>1, <2>1, <2>2 DEF RLQP!WQ!QueuedIsDirtyAndIdle
    <2> QED
      BY <1>1, <1>5, <2>1, <2>3 DEF RLQ!Get, RLQ!WQ!Get, RLQ!delayVars
  <1>6. ASSUME NEW j \in Items, RLQ!Done(j) \/ RLQ!Forget(j)
        PROVE  UNCHANGED <<dirty, shuttingDown, waitingForAddCh, waitingForQueue>>
    BY <1>6 DEF RLQ!Done, RLQ!WQ!Done, RLQ!Forget, RLQ!delayVars, RLQ!wqVars
  <1>7. ASSUME NEW j \in Items, RLQ!AddRateLimited(j)
        PROVE  /\ UNCHANGED <<dirty, shuttingDown, waitingForQueue>>
               /\ waitingForAddCh' = Append(waitingForAddCh, j)
    BY <1>1, <1>7 DEF RLQ!AddRateLimited, RLQ!wqVars
  <1>8. ASSUME NEW j \in Items
        PROVE  \A n \in 1..Len(waitingForAddCh) :
                 /\ n \in 1..Len(Append(waitingForAddCh, j))
                 /\ Append(waitingForAddCh, j)[n] = waitingForAddCh[n]
    <2>1. /\ Len(Append(waitingForAddCh, j)) = Len(waitingForAddCh) + 1
          /\ Len(waitingForAddCh) \in Nat
          /\ \A n \in 1..Len(waitingForAddCh) :
               Append(waitingForAddCh, j)[n] = waitingForAddCh[n]
      BY <1>1, AppendedElements
    <2> QED
      BY <2>1
  <1>9. CASE RLQ!ReceiveEntry
    <2> DEFINE j == Head(waitingForAddCh)
    <2>1. /\ waitingForAddCh # << >> /\ waitingForAddCh' = Tail(waitingForAddCh)
          /\ \/ waitingForQueue' = waitingForQueue \cup {j}
                /\ UNCHANGED <<dirty, shuttingDown>>
             \/ RLQ!WQ!Add(j) /\ UNCHANGED waitingForQueue
      BY <1>9 DEF RLQ!ReceiveEntry, RLQ!wqVars
    <2>2. /\ j \in Items /\ j = waitingForAddCh[1] /\ Len(waitingForAddCh) \in Nat \ {0}
          /\ Len(Tail(waitingForAddCh)) = Len(waitingForAddCh) - 1
          /\ \A n \in 1..Len(Tail(waitingForAddCh)) :
               Tail(waitingForAddCh)[n] = waitingForAddCh[n+1]
      BY <1>1, <2>1, TailElements
    <2>3. ASSUME NEW n \in 1..Len(waitingForAddCh), n # 1
          PROVE  n - 1 \in 1..Len(waitingForAddCh') /\ waitingForAddCh'[n-1] = waitingForAddCh[n]
      <3> HIDE DEF j
      <3>1. n - 1 \in 1..Len(Tail(waitingForAddCh)) /\ (n - 1) + 1 = n
        BY <2>2, <2>3
      <3>2. Tail(waitingForAddCh)[n-1] = waitingForAddCh[(n-1)+1]
        BY <2>2, <3>1
      <3> QED
        BY <2>1, <3>1, <3>2
    <2>4. \/ waitingForQueue' = waitingForQueue \cup {j} /\ dirty' = dirty /\ ~shuttingDown'
          \/ waitingForQueue' = waitingForQueue /\ j \in dirty' /\ dirty \subseteq dirty' /\ ~shuttingDown'
      BY <1>1, <1>3, <2>1, <2>2
    <2> HIDE DEF j
    <2>5. RLQ!Waiting(k) => RLQ!Waiting(k)' \/ k \in dirty'
      BY <2>2, <2>3, <2>4 DEF RLQ!Waiting
    <2> QED
      BY <2>4, <2>5
  <1> QED
    BY <1>0, <1>1, <1>2, <1>4, <1>5, <1>6, <1>7, <1>8, <1>9, QueueUse DEF RLQ!Waiting

-----------------------------------------------------------------------------
(* What a busy worker knows.                                                *)

(* While a key is processed, what makes a sync follow stays.                *)
LEMMA HeldKey ==
  ASSUME Undisturbed, Inv, SyncInv, [Next]_vars, running, running', NEW k \in processing
  PROVE  /\ ServicePending(k) => ServicePending(k)' \/ service'[k] = Absent
         /\ service'[k] = service[k] \/ ServicePending(k)'
         /\ IngressSeen(k) => IngressSeen(k)'
         /\ ingress'[k] \in {ingress[k], Absent} \/ IngressSeen(k)'
  <1>1. k \in Items
    BY DEF Inv, TypeOK, RLQ!TypeOK, RLQ!WQ!TypeOK
  <1>2. k \in dirty => k \in dirty'
    BY <1>1, DirtyStays
  <1>3. ServiceMoves(k) /\ IngressMoves(k)
    BY <1>1, EveryStepMovesServices, EveryStepMovesIngresses
  <1> QED
    BY <1>1, <1>2, <1>3, PendingStays, SeenStays

(* A worker changes only by its own steps, until the process ends.          *)
LEMMA WorkerStays ==
  ASSUME Inv, [Next]_vars, running', NEW w \in Workers
  PROVE  TakeItem(w) \/ Step(w) \/ worker'[w] = worker[w]
  <1>1. worker \in [Workers -> WorkerStates]
    BY DEF Inv, TypeOK, WorkerStates, PCs
  <1>2. ASSUME NEW v \in Workers, v # w, TakeItem(v) PROVE worker'[w] = worker[w]
    BY <1>1, <1>2 DEF TakeItem
  <1>3. ASSUME NEW v \in Workers, v # w, Step(v) PROVE worker'[w] = worker[w]
    BY <1>1, <1>3, StepGoes DEF Goes, Dequeue
  <1>4. ASSUME \A v \in Workers : ~TakeItem(v) /\ ~Step(v) PROVE worker'[w] = worker[w]
    BY <1>4, OthersStep DEF ProcessEnds
  <1> QED
    BY <1>2, <1>3, <1>4

(* How a step changes the failures that are counted for a key.              *)
LEMMA StreakMoves ==
  ASSUME Inv, [Next]_vars, running', NEW k \in Items
  PROVE  \/ streak'[k] = streak[k]
         \/ streak[k] \in Nat /\ streak'[k] = streak[k] + 1
         \/ \E v \in Workers : Dequeue(v) /\ At(v, "done") /\ Key(v) = k
  <1>1. streak \in [Items -> Nat]
    BY DEF Inv, TypeOK
  <1>2. ASSUME NEW v \in Workers, HandleError(v)
        PROVE  streak'[k] = streak[k] \/ streak'[k] = streak[k] + 1
    BY <1>1, <1>2 DEF HandleError
  <1>3. ASSUME NEW v \in Workers, Dequeue(v)
        PROVE  streak'[k] = streak[k] \/ (At(v, "done") /\ Key(v) = k)
    BY <1>1, <1>3 DEF Dequeue
  <1>4. ASSUME NEW v \in Workers,
               TakeItem(v) \/ ReadService(v) \/ ReadIngress(v) \/ CreateIngress(v) \/ DeleteIngress(v)
        PROVE  streak' = streak
    BY <1>4 DEF TakeItem, ReadService, ReadIngress, CreateIngress, DeleteIngress, Call
  <1>5. ASSUME Users \/ Disconnect \/ Restart \/ ReceiveEntry \/ UNCHANGED vars
        PROVE  streak' = streak
    BY <1>5 DEF Users, CreateService, ChangeService, DeleteService, UserWrites,
                UserDeletesIngress, UserCreatesIngress, Disconnect, Restart, ReceiveEntry, vars
  <1>6. ASSUME NEW j \in Items,
               \/ Collect(j) \/ ReceiveService(j) \/ HandleServiceNote(j)
               \/ ReceiveIngress(j) \/ HandleIngressDeletion(j) \/ EntryReady(j)
        PROVE  streak' = streak
    BY <1>6 DEF Collect, ReceiveService, HandleServiceNote, ReceiveIngress,
                HandleIngressDeletion, EntryReady
  <1>7. ~ProcessEnds
    BY DEF ProcessEnds
  <1> QED
    BY <1>1, <1>2, <1>3, <1>4, <1>5, <1>6, <1>7 DEF Next, Step, HandlerPanics, Crash

LEMMA SyncKnowsPreserved ==
  ASSUME Undisturbed, Inv, SyncInv, [Next]_vars, NEW w \in Workers, ~At(w, "idle")'
  PROVE  SyncKnows(w)'
  <1>0. PICK k : k = Key(w)
    OBVIOUS
  <1>1. running' /\ worker \in [Workers -> WorkerStates] /\ worker[w] \in WorkerStates
    BY WorkersPreserved DEF WorkersKnow, Inv, TypeOK, WorkerStates, PCs
  <1>2. ASSUME TakeItem(w) PROVE SyncKnows(w)'
    BY <1>1, <1>2 DEF TakeItem, SyncKnows, At
  <1>3. ASSUME ~At(w, "idle")
        PROVE  /\ running /\ k \in processing /\ k \in Items /\ SyncKnows(w)
               /\ ServicePending(k) => ServicePending(k)' \/ service'[k] = Absent
               /\ service'[k] = service[k] \/ ServicePending(k)'
               /\ IngressSeen(k) => IngressSeen(k)'
               /\ ingress'[k] \in {ingress[k], Absent} \/ IngressSeen(k)'
    <2>1. running /\ k \in processing /\ k \in Items
      BY <1>0, <1>3, BusyHolds DEF Inv, WorkersKnow
    <2>2. SyncKnows(w)
      BY <1>3 DEF SyncInv
    <2> QED
      BY <1>1, <2>1, <2>2, HeldKey
  <1>4. ASSUME ~At(w, "idle"), ~At(w, "sync"), worker'[w].service = worker[w].service
        PROVE  service'[k] \in {worker'[w].service, Absent} \/ ServicePending(k)'
    <2>1. service[k] \in {worker[w].service, Absent} \/ ServicePending(k)
      BY <1>0, <1>3, <1>4 DEF SyncKnows
    <2> QED
      BY <1>3, <1>4, <2>1
  <1>5. ASSUME worker'[w] = worker[w] PROVE SyncKnows(w)'
    <2>1. ~At(w, "idle") /\ At(w, "idle")' = At(w, "idle")
      BY <1>5 DEF At
    <2>2. At(w, "handled") => streak[k] \in Nat /\ streak[k] > 0
      BY <1>0, <1>3, <2>1 DEF SyncKnows, Inv, TypeOK
    <2>3. ASSUME NEW v \in Workers, Dequeue(v), Key(v) = k PROVE FALSE
      <3>1. v = w
        BY <1>0, <2>1, <2>3 DEF Inv, KeyHeldByOneWorker, Dequeue, At
      <3> QED
        BY <1>1, <2>3, <3>1 DEF Dequeue, At, Idle
    <2>4. At(w, "handled") => streak'[k] > 0
      BY <1>1, <1>3, <2>1, <2>2, <2>3, StreakMoves
    <2>5. ~At(w, "sync") => service'[k] \in {worker'[w].service, Absent} \/ ServicePending(k)'
      BY <1>4, <1>5, <2>1
    <2>6. SyncKnows(w) /\ (IngressSeen(k) => IngressSeen(k)')
      BY <1>3, <2>1
    <2> QED
      BY <1>0, <1>5, <2>4, <2>5, <2>6 DEF SyncKnows, At, Key
  <1>6. ASSUME ReadService(w) PROVE SyncKnows(w)'
    <2>1. /\ UNCHANGED <<service, ServicePending(k)>>
          /\ worker'[w].service = serviceCache[k] /\ Key(w)' = k
          /\ worker'[w].pc = IF serviceCache[k] = Absent THEN "done" ELSE "lookup"
      BY <1>0, <1>1, <1>6 DEF ReadService, memory, queueVars, serviceVars, ServicePending, Key, WorkerStates
    <2>2. serviceWatch[k] = << >> => serviceCache[k] = service[k]
      <3>1. running /\ k \in Items
        BY <1>3, <1>6 DEF ReadService, At
      <3>2. SvcP!CacheCatchesUp
        BY <3>1 DEF Inv, SvcP!Agrees
      <3>3. serviceWatch[k] = << >> => Len(serviceWatch[k]) = 0
        BY EmptySeq
      <3> QED
        BY <3>1, <3>2, <3>3 DEF SvcP!CacheCatchesUp
    <2>3. service'[k] = worker'[w].service \/ ServicePending(k)'
      BY <2>1, <2>2 DEF ServicePending
    <2>4. At(w, "done")' => ~Annotated(worker'[w].service)
      BY <2>1 DEF At, Annotated
    <2> QED
      BY <2>1, <2>3, <2>4 DEF SyncKnows, At
  <1>7. ASSUME ReadIngress(w) PROVE SyncKnows(w)'
    <2> DEFINE wanted == Annotated(worker[w].service)
               found  == ingressCache[k] # Absent
    <2>1. /\ UNCHANGED IngressSeen(k) /\ At(w, "lookup")
          /\ worker'[w].service = worker[w].service /\ Key(w)' = k
          /\ worker'[w].pc = CASE wanted /\ ~found -> "create"
                               [] ~wanted /\ found -> "delete"
                               [] OTHER            -> "done"
      BY <1>0, <1>1, <1>7 DEF ReadIngress, Goto, memory, queueVars, ingressVars, IngressSeen, Key, WorkerStates
    <2>2. service'[k] \in {worker'[w].service, Absent} \/ ServicePending(k)'
      BY <1>4, <2>1 DEF At
    <2>3. found => IngressSeen(k)
      BY DEF IngressSeen
    <2>4. /\ worker'[w].pc = "create" => wanted
          /\ worker'[w].pc = "delete" => ~wanted
          /\ worker'[w].pc = "done" => (wanted => found)
          /\ worker'[w].pc # "handled"
      <3> HIDE DEF wanted, found
      <3> QED
        BY <2>1
    <2> QED
      BY <2>1, <2>2, <2>3, <2>4 DEF SyncKnows, At
  <1>8. ASSUME CreateIngress(w) PROVE SyncKnows(w)'
    <2>1. /\ At(w, "create") /\ worker'[w].service = worker[w].service /\ Key(w)' = k
          /\ \/ worker'[w].pc = "failed"
             \/ /\ worker'[w].pc = "done" /\ ~HasIngress(k)
                /\ Ing!Write(k, [owner |-> worker[w].service.uid], TRUE)
      BY <1>0, <1>1, <1>8 DEF CreateIngress, Call, Goto, Key, WorkerStates
    <2>2. service'[k] \in {worker'[w].service, Absent} \/ ServicePending(k)'
      BY <1>4, <2>1 DEF At
    <2>3. ASSUME worker'[w].pc = "done" PROVE IngressSeen(k)'
      <3>1. k \in Items /\ ingress \in [Items -> Ingresses \cup {Absent}]
        BY <1>3, <2>1 DEF At, Inv, TypeOK, Ing!TypeOK, Ing!MaybeObject
      <3>2. worker[w].service \in Services
        BY <1>1, <2>1 DEF Inv, WorkersKnow, At, WorkerStates
      <3>3. worker[w].service.uid \in 0..MaxOps
        BY <3>2, BoundsAssumption DEF Services
      <3>4. [owner |-> worker[w].service.uid] \in Ingresses
        BY <3>3 DEF Ingresses
      <3>5. ingress'[k] \in Ingresses /\ ingress[k] = Absent
        BY <2>1, <2>3, <3>1, <3>4 DEF Ing!Write, HasIngress
      <3> QED
        BY <1>3, <2>1, <3>5, AbsentAssumption DEF At
    <2> QED
      BY <2>1, <2>2, <2>3 DEF SyncKnows, At
  <1>9. ASSUME DeleteIngress(w) PROVE SyncKnows(w)'
    <2>1. /\ At(w, "delete") /\ worker'[w].service = worker[w].service /\ Key(w)' = k
          /\ worker'[w].pc \in {"done", "failed"}
      BY <1>0, <1>1, <1>9 DEF DeleteIngress, Call, Goto, Key, WorkerStates
    <2>2. service'[k] \in {worker'[w].service, Absent} \/ ServicePending(k)'
      BY <1>4, <2>1 DEF At
    <2>3. ~Annotated(worker'[w].service)
      BY <1>3, <2>1 DEF SyncKnows, At
    <2> QED
      BY <2>1, <2>2, <2>3 DEF SyncKnows, At
  <1>10. ASSUME HandleError(w) PROVE SyncKnows(w)'
    <2>1. /\ At(w, "failed") /\ worker'[w].service = worker[w].service /\ Key(w)' = k
          /\ worker'[w].pc = "handled"
      BY <1>0, <1>1, <1>10 DEF HandleError, Goto, Key, WorkerStates
    <2>2. service'[k] \in {worker'[w].service, Absent} \/ ServicePending(k)'
      BY <1>4, <2>1 DEF At
    <2>3. streak'[k] > 0
      <3>1. k \in Items /\ streak \in [Items -> Nat]
        BY <1>3, <2>1 DEF At, Inv, TypeOK
      <3>2. streak'[k] = streak[k] + 1 /\ streak[k] \in Nat
        BY <1>0, <1>10, <3>1 DEF HandleError
      <3> QED
        BY <3>2
    <2> QED
      BY <2>1, <2>2, <2>3 DEF SyncKnows, At
  <1>11. ~Dequeue(w)
    <2>1. \A v \in {w} : Dequeue(v) => worker'[v].pc \in {"idle"}
      BY <1>1 DEF Dequeue, Idle
    <2> QED
      BY <2>1 DEF At
  <1> QED
    BY <1>1, <1>2, <1>5, <1>6, <1>7, <1>8, <1>9, <1>10, <1>11, WorkerStays DEF Step

-----------------------------------------------------------------------------
(* A key is processed until its worker gives it back. *)
LEMMA ProcessedStays ==
  ASSUME Inv, [Next]_vars, running', NEW k \in processing,
         \A v \in Workers : ~(Dequeue(v) /\ Key(v) = k)
  PROVE  k \in processing'
  <1>1. PICK w \in Workers : ~At(w, "idle") /\ Key(w) = k
    BY DEF Inv, KeyHeldByOneWorker
  <1>2. ~TakeItem(w)
    BY <1>1 DEF TakeItem
  <1>3. CASE Step(w)
    BY <1>1, <1>3, StepGoes DEF Goes
  <1>4. CASE worker'[w] = worker[w]
    <2>1. ~At(w, "idle")' /\ Key(w)' = k
      BY <1>1, <1>4 DEF At, Key
    <2> QED
      BY <2>1, WorkersPreserved DEF KeyHeldByOneWorker
  <1> QED
    BY <1>2, <1>3, <1>4, WorkerStays

(* An annotated service is never forgotten before its ingress is there.     *)
LEMMA NothingLostPreserved ==
  ASSUME Undisturbed, Inv, SyncInv, [Next]_vars, NEW k \in Items
  PROVE  NothingLost(k)'
  <1> DEFINE Kept == ServicePending(k)' \/ IngressSeen(k)' \/ RLQ!Waiting(k)' \/ k \in processing'
  <1>1. SUFFICES ASSUME running', streak'[k] = 0, Annotated(service'[k])
                 PROVE  Kept
    BY DEF NothingLost, Annotated
  <1>2. ServiceMoves(k) /\ IngressMoves(k) /\ service'[k] # Absent
    BY <1>1, EveryStepMovesServices, EveryStepMovesIngresses DEF Annotated
  <1>3. CASE ~running
    <2> DEFINE note == Svc!Note(Absent, Svc!Event(service[k]))
    <2>1. ServiceStarted(k)
      BY <1>1, <1>2, <1>3
         DEF ServiceMoves, ServiceWritten, ServiceReceived, ServiceNoteTaken, ServiceStopped
    <2>2. service[k] # Absent /\ serviceNotes'[k] = Svc!Notify(<< >>, note)
      BY <1>2, <2>1 DEF ServiceStarted
    <2>3. note.handler = "AddFunc"
      BY <2>2 DEF Svc!Note, Svc!Event, Svc!HandlerOf
    <2>4. serviceNotes'[k] = Append(<< >>, note)
      BY <2>2, <2>3 DEF Svc!Notify
    <2> HIDE DEF note
    <2>5. serviceNotes'[k] # << >>
      BY <2>4
    <2> QED
      BY <2>5 DEF ServicePending
  <1>4. CASE running /\ ~(k \in dirty => k \in dirty')
    BY <1>1, <1>4, DirtyStays
  <1>5. CASE running /\ (k \in dirty => k \in dirty')
    <2>1. /\ ServicePending(k) => ServicePending(k)'
          /\ service'[k] = service[k] \/ ServicePending(k)'
          /\ IngressSeen(k) => IngressSeen(k)'
      BY <1>1, <1>2, <1>5, PendingStays, SeenStays
    <2>2. ASSUME service'[k] = service[k], NEW v \in Workers, Dequeue(v), Key(v) = k
          PROVE  Kept
      <3>1. ~At(v, "idle") /\ (At(v, "done") \/ At(v, "handled"))
        BY <2>2 DEF Dequeue, At
      <3>2. SyncKnows(v)
        BY <3>1 DEF SyncInv
      <3>3. CASE At(v, "handled")
        <4>1. ~At(v, "done") /\ streak'[k] = streak[k]
          BY <2>2, <3>3 DEF Dequeue, At
        <4>2. streak[k] > 0 /\ streak[k] \in Nat
          BY <2>2, <3>2, <3>3 DEF SyncKnows, Inv, TypeOK
        <4> QED
          BY <1>1, <4>1, <4>2
      <3>4. CASE At(v, "done")
        <4>1. service[k] = worker[v].service \/ ServicePending(k)
          BY <1>2, <2>2, <3>2, <3>4 DEF SyncKnows, At
        <4>2. service[k] = worker[v].service => IngressSeen(k)
          BY <1>1, <2>2, <3>2, <3>4 DEF SyncKnows
        <4> QED
          BY <2>1, <4>1, <4>2
      <3> QED
        BY <3>1, <3>3, <3>4
    <2>3. ASSUME service'[k] = service[k], \A v \in Workers : ~(Dequeue(v) /\ Key(v) = k)
          PROVE  Kept
      <3>1. streak'[k] = streak[k] \/ (streak[k] \in Nat /\ streak'[k] = streak[k] + 1)
        BY <1>1, <2>3, StreakMoves
      <3>2. streak[k] = 0
        BY <1>1, <3>1
      <3>3. ServicePending(k) \/ IngressSeen(k) \/ RLQ!Waiting(k) \/ k \in processing
        BY <1>1, <1>5, <2>3, <3>2 DEF SyncInv, NothingLost
      <3>4. RLQ!Waiting(k) => RLQ!Waiting(k)' \/ k \in dirty'
        BY <1>1, DirtyStays
      <3>5. k \in processing => k \in processing'
        BY <1>1, <2>3, ProcessedStays
      <3> QED
        BY <2>1, <3>3, <3>4, <3>5 DEF ServicePending
    <2> QED
      BY <2>1, <2>2, <2>3
  <1> QED
    BY <1>3, <1>4, <1>5

-----------------------------------------------------------------------------
LEMMA SyncInvPreserved ==
  ASSUME Undisturbed, Inv, SyncInv, [Next]_vars
  PROVE  SyncInv'
  <1>1. ~shuttingDown'
    <2>1. CASE ProcessEnds
      BY <2>1 DEF ProcessEnds
    <2>2. CASE ~ProcessEnds
      BY <2>2, QueueUse
         DEF SyncInv, queueVars, RLQ!Add, RLQ!Ready, RLQ!Get, RLQ!Done, RLQ!AddRateLimited,
             RLQ!Forget, RLQ!ReceiveEntry, RLQ!wqVars, RLQ!WQ!Add, RLQ!WQ!Get, RLQ!WQ!Done
    <2> QED
      BY <2>1, <2>2
  <1>2. ASSUME NEW k \in Items PROVE Changes(k)'
    <2>1. ServiceMoves(k) /\ IngressMoves(k) /\ used.ops \in Nat /\ used'.ops \in Nat
      BY EveryStepMovesServices, EveryStepMovesIngresses, UsedGrows
    <2> QED
      BY <2>1, ServiceChangesPreserved, IngressChangesPreserved DEF Changes
  <1> QED
    BY <1>1, <1>2, NothingLostPreserved, SyncKnowsPreserved DEF SyncInv

LEMMA InitSyncInv == Init => SyncInv
  <1> SUFFICES ASSUME Init PROVE SyncInv
    OBVIOUS
  <1>1. /\ Svc!Init /\ Ing!Init /\ RLQ!Init
        /\ worker = [w \in Workers |-> Idle] /\ streak = [k \in Items |-> 0]
    BY DEF Init
  <1>2. ASSUME NEW k \in Items PROVE Changes(k)
    <2>1. /\ service[k] = Absent /\ serviceWatch[k] = << >> /\ serviceNotes[k] = << >>
          /\ ingress[k] = Absent /\ ingressWatch[k] = << >> /\ ingressNotes[k] = << >>
          /\ serviceCache[k] = Absent /\ ingressCache[k] = Absent
      BY <1>1 DEF Svc!Init, Ing!Init, Svc!Empty, Ing!Empty
    <2>2. 1..Len(<< >>) = {}
      OBVIOUS
    <2> QED
      BY <2>1, <2>2 DEF Changes, Differ, Dated, Owned
  <1>3. ASSUME NEW k \in Items PROVE NothingLost(k)
    BY <1>1 DEF NothingLost, Svc!Init, Annotated
  <1>4. \A w \in Workers : At(w, "idle")
    BY <1>1 DEF At, Idle
  <1>5. ~shuttingDown
    BY <1>1 DEF RLQ!Init, RLQ!WQ!Init
  <1> QED
    BY <1>2, <1>3, <1>4, <1>5 DEF SyncInv

(* When nothing about a key is under way, what was seen is what there is.   *)
LEMMA NothingLostWhenSettled ==
  ASSUME Inv, SyncInv
  PROVE  SettledServiceHasIngress
  <1> SUFFICES ASSUME NEW k \in Items, Settled(k), streak[k] = 0, Annotated(service[k])
               PROVE  HasIngress(k)
    BY DEF SettledServiceHasIngress
  <1>1. /\ running /\ k \notin dirty /\ k \notin processing /\ ~RLQ!Waiting(k)
        /\ serviceWatch[k] = << >> /\ serviceNotes[k] = << >>
        /\ ingressWatch[k] = << >> /\ ingressNotes[k] = << >>
    BY DEF Settled
  <1>2. Len(ingressWatch[k]) = 0 /\ 1..Len(ingressWatch[k]) = {}
    BY <1>1, EmptySeq
  <1>3. IngressSeen(k)
    BY <1>1 DEF SyncInv, NothingLost, ServicePending
  <1>4. ingressCache[k] # Absent
    BY <1>1, <1>2, <1>3 DEF IngressSeen
  <1>5. ingressCache[k] = ingress[k]
    BY <1>1, <1>2 DEF Inv, IngP!Agrees, IngP!CacheCatchesUp
  <1> QED
    BY <1>4, <1>5 DEF HasIngress

(* Theorem: nothing is lost between the API server and the work queue, and  *)
(* no stale read goes uncorrected (syncService 191-204, deleteIngress 86):  *)
(* when nothing about a key is under way and its last sync was good, an     *)
(* annotated service has its ingress.  For any items, workers, failing API  *)
(* calls, crashes and restarts, but no broken watch: what is created and    *)
(* deleted while a watch is down leaves no trace in the informer; and no    *)
(* ingress without an owner, whose deletion the controller ignores.         *)
THEOREM NoServiceForgotten ==
  ASSUME Undisturbed
  PROVE  Spec => []SettledServiceHasIngress
  <1>1. Inv /\ SyncInv /\ [Next]_vars => (Inv /\ SyncInv)'
    BY InvPreserved, SyncInvPreserved
  <1>2. Inv /\ SyncInv => SettledServiceHasIngress
    BY NothingLostWhenSettled
  <1> QED
    BY <1>1, <1>2, InitInv, InitSyncInv, PTL DEF Spec
=============================================================================
