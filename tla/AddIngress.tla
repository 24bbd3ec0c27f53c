------------------------------ MODULE AddIngress ------------------------------
(***************************************************************************)
(* The controller of addingress/pkg/controller.go in its cluster: it keeps  *)
(* an ingress, of the same name, for every service that has the annotation  *)
(* "ingress/http".  The module composes the rate limited work queue, the    *)
(* two shared informers, the workers (one action for each step between two  *)
(* points at which another goroutine or the API server may intervene), the  *)
(* API server and its garbage collector, the users, and the failures the    *)
(* code handles: failing calls, calls that fail after they took effect,     *)
(* broken watches and the end and restart of the process.                   *)
(***************************************************************************)
EXTENDS Naturals, Sequences

CONSTANTS Items,            \* "namespace/name", of a service and of its ingress
          Workers,          \* workNum goroutines
          Absent,           \* no object
          ForeignIngresses, \* users also create ingresses of their own
          MaxRetry,
          Capacity,         \* of the delaying queue's channel
          MaxOps,           \* bound on the users' operations
          MaxFaults,        \* bound on failing API calls
          MaxDisconnects,   \* bound on broken watches
          MaxCrashes        \* bound on ends of the process other than a panic

VARIABLES
  queue, dirty, processing, shuttingDown, failures, waitingForAddCh, waitingForQueue,
  service, serviceWatch, serviceCache, serviceNotes,
  ingress, ingressWatch, ingressCache, ingressNotes,
  worker,                   \* worker -> its program counter, key and the service it read
  running,                  \* the process is up
  used,                     \* how much of each bound is used up
  streak                    \* history: failed syncs of a key since its last good one

queueVars   == <<queue, dirty, processing, shuttingDown, failures, waitingForAddCh, waitingForQueue>>
serviceVars == <<service, serviceWatch, serviceCache, serviceNotes>>
ingressVars == <<ingress, ingressWatch, ingressCache, ingressNotes>>
memory      == <<queueVars, serviceVars, ingressVars>>
vars        == <<memory, worker, running, used, streak>>

(* Versions are numbers of user operations: the operation that creates a    *)
(* service gives it its uid, each later one a new resource version.         *)
Services  == [uid : 1..MaxOps, version : 1..MaxOps, annotated : BOOLEAN]
Ingresses == [owner : 0..MaxOps]       \* the uid in the controller reference

NoOwner == 0                           \* no controller reference to a service

ASSUME CapacityAssumption == Capacity \in Nat \ {0}
ASSUME BoundsAssumption   == {MaxRetry, MaxOps, MaxFaults, MaxDisconnects, MaxCrashes} \subseteq Nat
ASSUME AbsentAssumption   == Absent \notin Services \cup Ingresses

RLQ == INSTANCE RateLimitedQueue WITH MaxFailures <- MaxRetry
Svc == INSTANCE Informer WITH Keys <- Items, Objects <- Services,
         Handlers <- {"AddFunc", "UpdateFunc"}, store <- service,
         watch <- serviceWatch, cache <- serviceCache, notes <- serviceNotes
Ing == INSTANCE Informer WITH Keys <- Items, Objects <- Ingresses,
         Handlers <- {"DeleteFunc"}, store <- ingress,
         watch <- ingressWatch, cache <- ingressCache, notes <- ingressNotes

NoKey == Absent
Idle  == [pc |-> "idle", key |-> NoKey, service |-> Absent]

TypeOK ==
  /\ RLQ!TypeOK /\ Svc!TypeOK /\ Ing!TypeOK
  /\ failures \in [Items -> 0..MaxRetry]
  /\ worker \in [Workers ->
       [pc : {"idle", "sync", "lookup", "create", "delete", "failed", "handled", "done"},
        key : Items \cup {NoKey}, service : Services \cup {Absent}]]
  /\ running \in BOOLEAN
  /\ used \in [ops : 0..MaxOps, faults : 0..MaxFaults,
               disconnects : 0..MaxDisconnects, crashes : 0..MaxCrashes]
  /\ streak \in [Items -> Nat]

Init ==
  /\ RLQ!Init /\ Svc!Init /\ Ing!Init
  /\ worker = [w \in Workers |-> Idle]
  /\ running = TRUE
  /\ used = [ops |-> 0, faults |-> 0, disconnects |-> 0, crashes |-> 0]
  /\ streak = [k \in Items |-> 0]

HasIngress(k) == ingress[k] # Absent
Annotated(s)  == s # Absent /\ s.annotated
OwnerLives(k) == service[k] # Absent /\ service[k].uid = ingress[k].owner

-----------------------------------------------------------------------------
(* The users of the cluster. *)

UserWrites(k, s) ==
  /\ used.ops < MaxOps
  /\ used' = [used EXCEPT !.ops = @ + 1]
  /\ Svc!Write(k, s, running)
  /\ UNCHANGED <<queueVars, ingressVars, worker, running, streak>>

CreateService(k, annotated) ==
  /\ service[k] = Absent
  /\ UserWrites(k, [uid |-> used.ops + 1, version |-> used.ops + 1, annotated |-> annotated])

(* Any change of the service, of its annotation or of something else. *)
ChangeService(k, annotated) ==
  /\ service[k] # Absent
  /\ UserWrites(k, [service[k] EXCEPT !.version = used.ops + 1, !.annotated = annotated])

DeleteService(k) ==
  /\ service[k] # Absent
  /\ UserWrites(k, Absent)

UserDeletesIngress(k) ==
  /\ used.ops < MaxOps
  /\ HasIngress(k)
  /\ used' = [used EXCEPT !.ops = @ + 1]
  /\ Ing!Write(k, Absent, running)
  /\ UNCHANGED <<queueVars, serviceVars, worker, running, streak>>

(* An ingress the controller has not made, under the name of a service. *)
UserCreatesIngress(k) ==
  /\ ForeignIngresses
  /\ used.ops < MaxOps
  /\ ~HasIngress(k)
  /\ used' = [used EXCEPT !.ops = @ + 1]
  /\ Ing!Write(k, [owner |-> NoOwner], running)
  /\ UNCHANGED <<queueVars, serviceVars, worker, running, streak>>

(* The garbage collector of kube-controller-manager deletes an ingress      *)
(* whose owner is gone: no service has the uid of its controller reference. *)
Collect(k) ==
  /\ HasIngress(k) /\ ingress[k].owner # NoOwner
  /\ ~OwnerLives(k)
  /\ Ing!Write(k, Absent, running)
  /\ UNCHANGED <<queueVars, serviceVars, worker, running, used, streak>>

Users ==
  \E k \in Items :
    \/ \E annotated \in BOOLEAN : CreateService(k, annotated) \/ ChangeService(k, annotated)
    \/ DeleteService(k)
    \/ UserDeletesIngress(k)
    \/ UserCreatesIngress(k)

-----------------------------------------------------------------------------
(* The informers and their event handlers. *)

(* Slip, for a mutant run: the deletion of a service never leaves the cache. *)
ReceiveServiceButDeletion(k) ==
  /\ running
  /\ serviceWatch[k] # << >>
  /\ IF Head(serviceWatch[k]).obj = Absent
       THEN serviceWatch' = [serviceWatch EXCEPT ![k] = Tail(@)]
            /\ UNCHANGED <<service, serviceCache, serviceNotes>>
       ELSE Svc!Receive(k)
  /\ UNCHANGED <<queueVars, ingressVars, worker, running, used, streak>>

ReceiveService(k) ==
  /\ running
  /\ Svc!Receive(k)
  /\ UNCHANGED <<queueVars, ingressVars, worker, running, used, streak>>

ReceiveIngress(k) ==
  /\ running
  /\ Ing!Receive(k)
  /\ UNCHANGED <<queueVars, serviceVars, worker, running, used, streak>>

Disconnect ==
  /\ running
  /\ used.disconnects < MaxDisconnects
  /\ used' = [used EXCEPT !.disconnects = @ + 1]
  /\ \/ Svc!Disconnect /\ UNCHANGED ingressVars
     \/ Ing!Disconnect /\ UNCHANGED serviceVars
  /\ UNCHANGED <<queueVars, worker, running, streak>>

(* addService; updateService, which returns early when old and new agree. *)
HandleServiceNote(k) ==
  /\ running
  /\ Svc!Take(k)
  /\ LET n == Head(serviceNotes[k]) IN
       IF n.handler = "UpdateFunc" /\ n.old = n.new THEN UNCHANGED queueVars ELSE RLQ!Add(k)
  /\ UNCHANGED <<ingressVars, worker, running, used, streak>>

(* Slip, for a mutant run: the check of the owner's kind is inverted. *)
HandleIngressDeletionInverted(k) ==
  /\ running
  /\ ingressNotes[k] # << >>
  /\ ~Head(ingressNotes[k]).tombstone
  /\ Ing!Take(k)
  /\ IF Head(ingressNotes[k]).old.owner # NoOwner THEN UNCHANGED queueVars ELSE RLQ!Add(k)
  /\ UNCHANGED <<serviceVars, worker, running, used, streak>>

(* deleteIngress ignores an ingress that no service controls; HandlerPanics *)
(* is the same handler on a tombstone, where its type assertion fails.      *)
HandleIngressDeletion(k) ==
  /\ running
  /\ ingressNotes[k] # << >>
  /\ ~Head(ingressNotes[k]).tombstone
  /\ Ing!Take(k)
  /\ IF Head(ingressNotes[k]).old.owner = NoOwner THEN UNCHANGED queueVars ELSE RLQ!Add(k)
  /\ UNCHANGED <<serviceVars, worker, running, used, streak>>

ProcessEnds ==
  /\ running' = FALSE
  /\ Svc!Stop /\ Ing!Stop
  /\ worker' = [w \in Workers |-> Idle]
  /\ queue' = << >> /\ dirty' = {} /\ processing' = {} /\ shuttingDown' = FALSE
  /\ failures' = [k \in Items |-> 0] /\ waitingForAddCh' = << >> /\ waitingForQueue' = {}
  /\ streak' = [k \in Items |-> 0]

(* HandleCrash logs the panic and panics again: the process ends. *)
HandlerPanics(k) ==
  /\ running
  /\ ingressNotes[k] # << >>
  /\ Head(ingressNotes[k]).tombstone
  /\ ProcessEnds
  /\ UNCHANGED used

Crash ==
  /\ running
  /\ used.crashes < MaxCrashes
  /\ used' = [used EXCEPT !.crashes = @ + 1]
  /\ ProcessEnds

(* main: the factory starts, the caches are filled, then the workers run. *)
Restart ==
  /\ ~running
  /\ running' = TRUE
  /\ Svc!Start /\ Ing!Start
  /\ UNCHANGED <<queueVars, worker, used, streak>>

-----------------------------------------------------------------------------
(* The workers: processNextItem and syncService. *)

At(w, pc)   == worker[w].pc = pc
Goto(w, pc) == worker' = [worker EXCEPT ![w].pc = pc]
Key(w)      == worker[w].key

TakeItem(w) ==
  /\ running
  /\ At(w, "idle")
  /\ \E k \in Items :
       /\ RLQ!Get(k)
       /\ worker' = [worker EXCEPT ![w] = [pc |-> "sync", key |-> k, service |-> Absent]]
  /\ UNCHANGED <<serviceVars, ingressVars, running, used, streak>>

(* serviceLister.Get; without a service the sync is over. *)
ReadService(w) ==
  /\ At(w, "sync")
  /\ LET s == serviceCache[Key(w)] IN
       worker' = [worker EXCEPT ![w].service = s,
                                ![w].pc = IF s = Absent THEN "done" ELSE "lookup"]
  /\ UNCHANGED <<memory, running, used, streak>>

(* ingressLister.Get, and what syncService decides from the two reads. *)
ReadIngress(w) ==
  /\ At(w, "lookup")
  /\ LET wanted == Annotated(worker[w].service)
         found  == ingressCache[Key(w)] # Absent IN
       Goto(w, CASE wanted /\ ~found -> "create"
                 [] ~wanted /\ found -> "delete"
                 [] OTHER            -> "done")
  /\ UNCHANGED <<memory, running, used, streak>>

(* An API call fails for a reason of its own; it may have taken effect. *)
Fault == used.faults < MaxFaults /\ used' = [used EXCEPT !.faults = @ + 1]

Call(w, enabled, effect) ==
  /\ \/ enabled /\ effect /\ Goto(w, "done") /\ UNCHANGED used
     \/ ~enabled /\ UNCHANGED ingressVars /\ Goto(w, "failed") /\ UNCHANGED used
     \/ Fault /\ enabled /\ effect /\ Goto(w, "failed")
     \/ Fault /\ UNCHANGED ingressVars /\ Goto(w, "failed")
  /\ UNCHANGED <<queueVars, serviceVars, running, streak>>

(* Create fails with AlreadyExists when there is an ingress by now. *)
CreateIngress(w) ==
  /\ At(w, "create")
  /\ Call(w, ~HasIngress(Key(w)),
             Ing!Write(Key(w), [owner |-> worker[w].service.uid], TRUE))

(* Delete fails with NotFound when there is none any more. *)
DeleteIngress(w) ==
  /\ At(w, "delete")
  /\ Call(w, HasIngress(Key(w)), Ing!Write(Key(w), Absent, TRUE))

(* Slip, for a mutant run: one retry too many. *)
HandleErrorOneMoreRetry(w) ==
  /\ At(w, "failed")
  /\ IF failures[Key(w)] <= MaxRetry THEN RLQ!AddRateLimited(Key(w)) ELSE RLQ!Forget(Key(w))
  /\ Goto(w, "handled")
  /\ streak' = [streak EXCEPT ![Key(w)] = @ + 1]
  /\ UNCHANGED <<serviceVars, ingressVars, running, used>>

(* The failure count is compared before this failure is counted. *)
HandleError(w) ==
  /\ At(w, "failed")
  /\ IF failures[Key(w)] < MaxRetry THEN RLQ!AddRateLimited(Key(w)) ELSE RLQ!Forget(Key(w))
  /\ Goto(w, "handled")
  /\ streak' = [streak EXCEPT ![Key(w)] = @ + 1]
  /\ UNCHANGED <<serviceVars, ingressVars, running, used>>

(* The deferred dequeue; the sync was good unless handleError was called. *)
Dequeue(w) ==
  /\ At(w, "done") \/ At(w, "handled")
  /\ RLQ!Done(Key(w))
  /\ worker' = [worker EXCEPT ![w] = Idle]
  /\ streak' = IF At(w, "done") THEN [streak EXCEPT ![Key(w)] = 0] ELSE streak
  /\ UNCHANGED <<serviceVars, ingressVars, running, used>>

Step(w) ==
  \/ ReadService(w)
  \/ ReadIngress(w)
  \/ CreateIngress(w)
  \/ DeleteIngress(w)
  \/ HandleError(w)
  \/ Dequeue(w)

-----------------------------------------------------------------------------
(* The waiting loop of the delaying queue. *)

ReceiveEntry ==
  /\ RLQ!ReceiveEntry
  /\ UNCHANGED <<serviceVars, ingressVars, worker, running, used, streak>>

EntryReady(k) ==
  /\ RLQ!Ready(k)
  /\ UNCHANGED <<serviceVars, ingressVars, worker, running, used, streak>>

Next ==
  \/ Users
  \/ \E k \in Items : \/ Collect(k)
                     \/ ReceiveService(k) \/ HandleServiceNote(k)
                     \/ ReceiveIngress(k) \/ HandleIngressDeletion(k) \/ HandlerPanics(k)
                     \/ EntryReady(k)
  \/ ReceiveEntry
  \/ \E w \in Workers : TakeItem(w) \/ Step(w)
  \/ Disconnect \/ Crash \/ Restart

Spec == Init /\ [][Next]_vars

(* Goroutines that can run do run, the API server answers and sends what it *)
(* has, its garbage collector works, delays pass, and a process that ended  *)
(* is started again.  Users act when they like; failures need not happen.   *)
Fairness ==
  /\ \A k \in Items :
       /\ WF_vars(Collect(k))
       /\ WF_vars(ReceiveService(k)) /\ WF_vars(HandleServiceNote(k))
       /\ WF_vars(ReceiveIngress(k)) /\ WF_vars(HandleIngressDeletion(k) \/ HandlerPanics(k))
       /\ WF_vars(EntryReady(k))
  /\ WF_vars(ReceiveEntry)
  /\ WF_vars(\E w \in Workers : TakeItem(w))
  /\ \A w \in Workers : WF_vars(Step(w))
  /\ WF_vars(Restart)

FairSpec == Spec /\ Fairness

-----------------------------------------------------------------------------
(* A key is in the hands of the one worker that took it, and of nobody      *)
(* else, for the whole of its sync: two creates for a service never race.   *)
KeyHeldByOneWorker ==
  /\ \A v, w \in Workers : v # w /\ ~At(v, "idle") /\ ~At(w, "idle") => Key(v) # Key(w)
  /\ processing = {Key(w) : w \in {v \in Workers : ~At(v, "idle")}}

(* Nothing about k is under way any more. *)
Settled(k) ==
  /\ running
  /\ serviceWatch[k] = << >> /\ serviceNotes[k] = << >>
  /\ ingressWatch[k] = << >> /\ ingressNotes[k] = << >>
  /\ k \notin dirty \cup processing /\ ~RLQ!Waiting(k)
  /\ HasIngress(k) => OwnerLives(k)

(* No event is lost between the API server and the work queue, and no stale *)
(* read goes uncorrected: when nothing about a key is under way and its     *)
(* last sync was good, an annotated service has an ingress (controller.go,  *)
(* syncService 191-204 on caches that lag behind, deleteIngress 86).        *)
SettledServiceHasIngress ==
  \A k \in Items : Settled(k) /\ streak[k] = 0 /\ Annotated(service[k]) => HasIngress(k)

(* The same once and for all when the users stop: each annotated service    *)
(* gets its ingress and keeps it, unless the last sync of its key failed    *)
(* (handleError, controller.go 160, may have given the key up).             *)
ServiceGetsIngress ==
  \A k \in Items : <>[](streak[k] = 0 /\ Annotated(service[k]) => HasIngress(k))

(* An ingress whose service is gone, or was replaced by one of the same     *)
(* name, goes for good, although workers may create it again from a cache   *)
(* that still holds the old service (createIngress 218, GC by owner).       *)
OrphanIsCollected ==
  \A k \in Items : <>[](HasIngress(k) /\ ingress[k].owner # NoOwner => OwnerLives(k))

(* What the listers read is stale at worst: it catches up with the API      *)
(* server, after broken watches and restarts too.                           *)
ListersCatchUp == running => Svc!CacheCatchesUp /\ Ing!CacheCatchesUp

(* "The ingress exists, but the service has no ingress/http: the ingress    *)
(* must be deleted" (controller.go 206).                                    *)
PlainServiceHasNoIngress ==
  \A k \in Items :
    Settled(k) /\ streak[k] = 0 /\ service[k] # Absent /\ ~Annotated(service[k]) => ~HasIngress(k)
=============================================================================
