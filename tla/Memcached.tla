------------------------------ MODULE Memcached ------------------------------
(***************************************************************************)
(* The memcached operator: MemcachedReconciler.Reconcile of                 *)
(* memcached-operator/internal/controller/memcached_controller.go for one   *)
(* custom resource, with its Deployment, the API server (versions,          *)
(* finalizers, garbage collector), the cached client and the queue of       *)
(* controller-runtime, and the users.                                       *)
(*                                                                         *)
(* Each action of Reconcile is the code up to its next call, so everybody   *)
(* else may act between any two calls.  Every read is answered by the       *)
(* cache; an update carries the version of the object in hand, is refused   *)
(* when that is not the stored one, and leaves the stored object in hand.   *)
(***************************************************************************)
EXTENDS Naturals, Sequences

CONSTANTS Absent,
          Sizes,            \* of Spec.Size, 1 to 3 in the API
          Images,           \* what MEMCACHED_IMAGE may be: "tagged", "untagged", "none"
          MaxOps,           \* bound on the users' operations
          MaxFaults,        \* bound on failing calls and crashes, together
          MaxLag            \* bound on how far the caches are behind when a Reconcile begins

VARIABLES
  memcached, memcachedWatch, memcachedCache,          \* under the one key Mc
  deployment, deploymentWatch, deploymentCache,
  requested,                \* a request is in the queue (dirty)
  delayed,                  \* a request waits in the delaying queue
  reconcile,                \* program counter and locals of Reconcile
  running,
  image,                    \* of the operand, in the environment of the process
  used,
  finalized                 \* history: uids whose finalizer operations were done

memcachedVars  == <<memcached, memcachedWatch, memcachedCache>>
deploymentVars == <<deployment, deploymentWatch, deploymentCache>>
clusterVars    == <<memcachedVars, deploymentVars>>
queueVars      == <<requested, delayed>>
vars == <<clusterVars, queueVars, reconcile, running, image, used, finalized>>

Mc   == "mc"
Uids == 1..(MaxOps + 1)

typeFinalizers  == {"memcached", "foreground"}     \* this operator's, the collector's
ConditionStatus == {"none", "Unknown", "False", "True"}

(* replicas is the number the message of condition Available speaks of.     *)
Memcacheds  == [uid : Uids, size : Sizes, deleting : BOOLEAN, finalizers : SUBSET typeFinalizers,
                available : ConditionStatus, replicas : Sizes \cup {0},
                degraded : ConditionStatus, version : Nat]
Deployments == [owner : Uids, size : Sizes, version : Nat]

MC  == INSTANCE Informer WITH Keys <- {Mc}, Objects <- Memcacheds, Handlers <- {},
         store <- memcached, watch <- memcachedWatch, cache <- memcachedCache,
         notes <- [k \in {Mc} |-> << >>]
Dep == INSTANCE Informer WITH Keys <- {Mc}, Objects <- Deployments, Handlers <- {},
         store <- deployment, watch <- deploymentWatch, cache <- deploymentCache,
         notes <- [k \in {Mc} |-> << >>]

PCs  == {"idle", "get", "init", "refetchInit", "finalizer", "degrade", "operations",
         "refetchDegraded", "degraded", "remove", "find", "noImage", "create", "resize",
         "refetchResize", "notResized", "available"}
Idle == [pc |-> "idle", memcached |-> Absent, found |-> Absent]

ASSUME BoundsAssumption == MaxOps \in Nat /\ MaxFaults \in Nat
ASSUME AbsentAssumption == Absent \notin Memcacheds \cup Deployments

TypeOK ==
  /\ MC!TypeOK /\ Dep!TypeOK
  /\ requested \in BOOLEAN /\ delayed \in BOOLEAN
  /\ reconcile \in
       [pc : PCs, memcached : Memcacheds \cup {Absent}, found : Deployments \cup {Absent}]
  /\ running \in BOOLEAN
  /\ image \in Images
  /\ used \in [ops : 0..MaxOps, faults : 0..MaxFaults]
  /\ finalized \in SUBSET Uids

Init ==
  /\ MC!Init /\ Dep!Init
  /\ requested = FALSE /\ delayed = FALSE
  /\ reconcile = Idle
  /\ running = TRUE
  /\ image \in Images
  /\ used = [ops |-> 0, faults |-> 0]
  /\ finalized = {}

Exists      == memcached[Mc] # Absent
Deployed    == deployment[Mc] # Absent
Live(uid)   == Exists /\ memcached[Mc].uid = uid
Newer(obj)  == [obj EXCEPT !.version = @ + 1]

(* The API server keeps an object that is being deleted until its last      *)
(* finalizer is gone.                                                       *)
Kept(m) == IF m.deleting /\ m.finalizers = {} THEN Absent ELSE m

-----------------------------------------------------------------------------
(* The users and the garbage collector. *)

Others == UNCHANGED <<queueVars, reconcile, running, image, finalized>>

UserOp == used.ops < MaxOps /\ used' = [used EXCEPT !.ops = @ + 1]
Fault  == used.faults < MaxFaults /\ used' = [used EXCEPT !.faults = @ + 1]

CreateMemcached ==
  /\ ~Exists
  /\ \E n \in Sizes :
       MC!Write(Mc, [uid |-> used.ops + 1, size |-> n, deleting |-> FALSE, finalizers |-> {},
                     available |-> "none", replicas |-> 0, degraded |-> "none",
                     version |-> 1], running)
  /\ UserOp /\ Others /\ UNCHANGED deploymentVars

ChangeSize ==
  /\ Exists
  /\ \E n \in Sizes \ {memcached[Mc].size} :
       MC!Write(Mc, Newer([memcached[Mc] EXCEPT !.size = n]), running)
  /\ UserOp /\ Others /\ UNCHANGED deploymentVars

(* In the foreground: dependents first, which a finalizer of its own keeps. *)
DeleteMemcached ==
  /\ Exists /\ ~memcached[Mc].deleting
  /\ \E more \in {{}, {"foreground"}} :
       MC!Write(Mc, Kept(Newer([memcached[Mc] EXCEPT !.deleting = TRUE,
                                                     !.finalizers = @ \cup more])), running)
  /\ UserOp /\ Others /\ UNCHANGED deploymentVars

ScaleOrDeleteDeployment ==
  /\ Deployed
  /\ \E n \in (Sizes \cup {0}) \ {deployment[Mc].size} :
       Dep!Write(Mc, IF n = 0 THEN Absent ELSE Newer([deployment[Mc] EXCEPT !.size = n]),
                 running)
  /\ UserOp /\ Others /\ UNCHANGED memcachedVars

(* A Deployment goes with its owner, or before an owner that waits for it.  *)
CollectDeployment ==
  /\ Deployed
  /\ Live(deployment[Mc].owner) => "foreground" \in memcached[Mc].finalizers
  /\ Dep!Write(Mc, Absent, running)
  /\ Others /\ UNCHANGED <<memcachedVars, used>>

DependentsGone ==
  /\ Exists /\ "foreground" \in memcached[Mc].finalizers
  /\ ~(Deployed /\ Live(deployment[Mc].owner))
  /\ MC!Write(Mc, Kept(Newer([memcached[Mc] EXCEPT !.finalizers = @ \ {"foreground"}])), running)
  /\ Others /\ UNCHANGED <<deploymentVars, used>>

-----------------------------------------------------------------------------
(* controller-runtime. SetupWithManager: For(Memcached), Owns(Deployment).  *)

(* Slip, for a mutant run: deletions of the Deployment are filtered out. *)
ReceiveDeploymentButDeletion ==
  /\ running
  /\ Dep!Receive(Mc)
  /\ requested' = (requested \/ deploymentCache'[Mc] # Absent)
  /\ UNCHANGED <<memcachedVars, delayed, reconcile, running, image, used, finalized>>

(* A change of a cache requests a Reconcile; the notification that carries  *)
(* the request is part of the step, for the request may wait as long.       *)
ReceiveMemcached ==
  /\ running
  /\ MC!Receive(Mc)
  /\ requested' = TRUE
  /\ UNCHANGED <<deploymentVars, delayed, reconcile, running, image, used, finalized>>

ReceiveDeployment ==
  /\ running
  /\ Dep!Receive(Mc)
  /\ requested' = TRUE
  /\ UNCHANGED <<memcachedVars, delayed, reconcile, running, image, used, finalized>>

DelayPasses ==
  /\ delayed
  /\ delayed' = FALSE /\ requested' = TRUE
  /\ UNCHANGED <<clusterVars, reconcile, running, image, used, finalized>>

ProcessEnds ==
  /\ running' = FALSE
  /\ MC!Stop /\ Dep!Stop
  /\ requested' = FALSE /\ delayed' = FALSE
  /\ reconcile' = Idle
  /\ UNCHANGED <<image, finalized>>

Crash ==
  /\ running
  /\ Fault
  /\ ProcessEnds

Restart ==
  /\ ~running
  /\ running' = TRUE
  /\ MC!Start /\ Dep!Start
  /\ requested' = (Exists \/ Deployed)
  /\ UNCHANGED <<delayed, reconcile, image, used, finalized>>

-----------------------------------------------------------------------------
(* Reconcile. *)

At(pc)   == reconcile.pc = pc
InHand   == reconcile.memcached
Local    == UNCHANGED <<running, image>>

(* Slip, for a mutant run: errors are logged and not returned. *)
ReturnNothing == reconcile' = Idle /\ UNCHANGED delayed

(* An empty Result, and all others: RequeueAfter, Requeue and an error.     *)
Return      == reconcile' = Idle /\ UNCHANGED delayed
ReturnLater == reconcile' = Idle /\ delayed' = TRUE

Proceed(m, pc) ==
  /\ reconcile' = [reconcile EXCEPT !.memcached = m, !.pc = pc]
  /\ UNCHANGED delayed

(* A call of the API that is admitted when fresh is true: it has its effect *)
(* and Reconcile goes on, or it is refused, or it fails for reasons of its  *)
(* own, which may be after it took effect.                                  *)
Call(fresh, effect, nothing, goesOn, fails) ==
  /\ \/ fresh /\ effect /\ goesOn /\ UNCHANGED used
     \/ ~fresh /\ nothing /\ fails /\ UNCHANGED used
     \/ Fault /\ fresh /\ effect /\ fails
     \/ Fault /\ nothing /\ fails
  /\ UNCHANGED requested

(* Update and Status().Update of the resource in hand: changed is what it   *)
(* shall become; one that changes nothing writes nothing.                   *)
Update(changed, admitted, pc) ==
  LET stored == IF changed = InHand THEN changed ELSE Newer(changed)
      fresh  == Exists /\ memcached[Mc].uid = InHand.uid /\ memcached[Mc].version = InHand.version
  IN /\ Call(fresh /\ admitted,
             IF changed = InHand THEN UNCHANGED memcachedVars ELSE MC!Write(Mc, Kept(stored), TRUE),
             UNCHANGED memcachedVars,
             IF pc = "idle" THEN Return ELSE IF pc = "error" THEN ReturnLater ELSE Proceed(stored, pc),
             ReturnLater)
     /\ UNCHANGED deploymentVars /\ Local

Available(status, n) == [InHand EXCEPT !.available = status, !.replicas = n]
Degraded(status)     == [InHand EXCEPT !.degraded = status]
HasNoConditions(m)   == m.available = "none" /\ m.degraded = "none"

(* Slip, for a mutant run: degraded is taken for finished. *)
AfterFinalizerOnce(m) == IF m.deleting /\ m.degraded # "True" THEN "degrade" ELSE "find"

(* What comes after the status is there: the finalizer, then the question   *)
(* whether the resource is marked to be deleted.                            *)
AfterFinalizer(m) == IF m.deleting THEN "degrade" ELSE "find"
AfterInit(m)      == IF "memcached" \notin m.finalizers THEN "finalizer" ELSE AfterFinalizer(m)

BeginReconcile ==
  /\ running /\ At("idle") /\ requested
  /\ Len(memcachedWatch[Mc]) + Len(deploymentWatch[Mc]) <= MaxLag
  /\ requested' = FALSE
  /\ Proceed(Absent, "get")
  /\ Local /\ UNCHANGED <<clusterVars, used, finalized>>

Quiet == Local /\ UNCHANGED <<clusterVars, requested, used, finalized>>

GetMemcached ==
  /\ At("get")
  /\ LET m == memcachedCache[Mc] IN
       IF m = Absent THEN Return
       ELSE Proceed(m, IF HasNoConditions(m) THEN "init" ELSE AfterInit(m))
  /\ Quiet

SetUnknown ==
  /\ At("init")
  /\ Update(Available("Unknown", 0), TRUE, "refetchInit")
  /\ UNCHANGED finalized

Refetch ==
  /\ At("refetchInit") \/ At("refetchDegraded") \/ At("refetchResize")
  /\ LET m == memcachedCache[Mc] IN
       IF m = Absent THEN ReturnLater
       ELSE Proceed(m, IF At("refetchInit") THEN AfterInit(m)
                       ELSE IF At("refetchDegraded") THEN "degraded" ELSE "notResized")
  /\ Quiet

(* Slip, for a mutant run: what was begun is taken for done. *)
SetDegradingOnce ==
  /\ At("degrade")
  /\ Update(Degraded("Unknown"), TRUE,
            IF InHand.degraded = "none" THEN "operations" ELSE "refetchDegraded")
  /\ UNCHANGED finalized

(* The API server refuses a new finalizer on a resource being deleted.      *)
AddFinalizer ==
  /\ At("finalizer")
  /\ Update([InHand EXCEPT !.finalizers = @ \cup {"memcached"}], ~InHand.deleting,
            AfterFinalizer(InHand))
  /\ UNCHANGED finalized

SetDegrading ==
  /\ At("degrade")
  /\ Update(Degraded("Unknown"), TRUE, "operations")
  /\ UNCHANGED finalized

(* doFinalizerOperationsForMemcached. *)
FinalizerOperations ==
  /\ At("operations")
  /\ finalized' = finalized \cup {InHand.uid}
  /\ Proceed(InHand, "refetchDegraded")
  /\ Local /\ UNCHANGED <<clusterVars, requested, used>>

SetDegraded ==
  /\ At("degraded")
  /\ Update(Degraded("True"), TRUE, "remove")
  /\ UNCHANGED finalized

RemoveFinalizer ==
  /\ At("remove")
  /\ Update([InHand EXCEPT !.finalizers = @ \ {"memcached"}], TRUE, "idle")
  /\ UNCHANGED finalized

FindDeployment ==
  /\ At("find")
  /\ LET d == deploymentCache[Mc] IN
     /\ d = Absent => image # "untagged"          \* or else ImagePanics
     /\ reconcile' = [reconcile EXCEPT !.found = d,
          !.pc = IF d = Absent THEN (IF image = "none" THEN "noImage" ELSE "create")
                 ELSE IF d.size # InHand.size THEN "resize" ELSE "available"]
  /\ UNCHANGED delayed
  /\ Quiet

(* labelsForMemcached takes what follows the first colon of the image; the  *)
(* index is out of range when there is none, and the process ends.          *)
ImagePanics ==
  /\ At("find")
  /\ deploymentCache[Mc] = Absent /\ image = "untagged"
  /\ ProcessEnds
  /\ UNCHANGED used

(* imageForMemcached fails, and so does Reconcile when that is noted. *)
SetNoImage ==
  /\ At("noImage")
  /\ Update(Available("False", 0), TRUE, "error")
  /\ UNCHANGED finalized

CreateDeployment ==
  /\ At("create")
  /\ Call(~Deployed,
          Dep!Write(Mc, [owner |-> InHand.uid, size |-> InHand.size, version |-> 1], TRUE),
          UNCHANGED deploymentVars, ReturnLater, ReturnLater)
  /\ Local /\ UNCHANGED <<memcachedVars, finalized>>

ResizeDeployment ==
  /\ At("resize")
  /\ Call(Deployed /\ deployment[Mc].owner = reconcile.found.owner
                   /\ deployment[Mc].version = reconcile.found.version,
          Dep!Write(Mc, Newer([reconcile.found EXCEPT !.size = InHand.size]), TRUE),
          UNCHANGED deploymentVars, ReturnLater, Proceed(InHand, "refetchResize"))
  /\ Local /\ UNCHANGED <<memcachedVars, finalized>>

SetNotResized ==
  /\ At("notResized")
  /\ Update(Available("False", 0), TRUE, "error")
  /\ UNCHANGED finalized

SetAvailable ==
  /\ At("available")
  /\ Update(Available("True", InHand.size), TRUE, "idle")
  /\ UNCHANGED finalized

Reconcile ==
  \/ GetMemcached \/ SetUnknown \/ Refetch \/ AddFinalizer
  \/ SetDegrading \/ FinalizerOperations \/ SetDegraded \/ RemoveFinalizer
  \/ FindDeployment \/ ImagePanics \/ SetNoImage \/ CreateDeployment
  \/ ResizeDeployment \/ SetNotResized \/ SetAvailable

-----------------------------------------------------------------------------
Next ==
  \/ CreateMemcached \/ ChangeSize \/ DeleteMemcached \/ ScaleOrDeleteDeployment
  \/ CollectDeployment \/ DependentsGone
  \/ ReceiveMemcached \/ ReceiveDeployment \/ DelayPasses
  \/ BeginReconcile \/ Reconcile
  \/ Crash \/ Restart

Spec == Init /\ [][Next]_vars

(* The collector and the goroutines of the process run, delays pass, and an *)
(* ended process is started again.                                          *)
Fairness ==
  /\ WF_vars(CollectDeployment) /\ WF_vars(DependentsGone)
  /\ WF_vars(ReceiveMemcached) /\ WF_vars(ReceiveDeployment) /\ WF_vars(DelayPasses)
  /\ WF_vars(BeginReconcile) /\ WF_vars(Reconcile)
  /\ WF_vars(Restart)

FairSpec == Spec /\ Fairness

-----------------------------------------------------------------------------
(* Nothing is under way: no event, no request, no Reconcile. *)
AtRest ==
  /\ running /\ At("idle") /\ ~requested /\ ~delayed
  /\ memcachedWatch[Mc] = << >> /\ deploymentWatch[Mc] = << >>

Reconciled(m, d) ==
  CASE image = "tagged" -> d # Absent /\ d.size = m.size
                           /\ m.available = "True" /\ m.replicas = m.size
    [] image = "none"   -> m.available = "False"
    [] OTHER            -> TRUE

(* No conflict, failed call or crash is forgotten: while nothing is under   *)
(* way, a resource has its finalizer, and its Deployment and its condition  *)
(* Available say what its spec says (Reconcile as a whole, whose results    *)
(* ask for the next one; the conditions of lines 203 and 273).              *)
AtRestMeansReconciled ==
  AtRest /\ Exists /\ ~memcached[Mc].deleting =>
    "memcached" \in memcached[Mc].finalizers /\ Reconciled(memcached[Mc], deployment[Mc])

(* "define some operations which should occurs before the custom resource   *)
(* to be deleted" (120): the finalizer is only removed from a resource      *)
(* being deleted whose operations were done and whose status says so, with  *)
(* whatever stale reads, conflicts and crashes in between.                  *)
FinalizerRemovedLast ==
  [][ LET m == memcached[Mc]
          n == memcached'[Mc]
      IN (m # Absent /\ "memcached" \in m.finalizers /\ (n # Absent => "memcached" \notin n.finalizers))
         => m.deleting /\ m.uid \in finalized /\ m.degraded = "True" ]_vars

(* A resource that is marked to be deleted goes in the end: the finalizer   *)
(* never holds it for good (lines 139 to 191), nor does the refusal of a    *)
(* new finalizer (123).                                                     *)
MarkedIsGone == (Exists /\ memcached[Mc].deleting) ~> ~Exists

(* When the users leave it alone, the resource is reconciled for good: the  *)
(* Deployment is its own, not one the collector is about to take, and the   *)
(* controller does not keep itself busy.                                    *)
SettlesReconciled ==
  <>[]( image = "tagged" =>
          /\ AtRest
          /\ Exists => /\ ~memcached[Mc].deleting
                       /\ Reconciled(memcached[Mc], deployment[Mc])
                       /\ deployment[Mc].owner = memcached[Mc].uid )
=============================================================================
