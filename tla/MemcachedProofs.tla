---------------------------- MODULE MemcachedProofs ----------------------------
(***************************************************************************)
(* Proofs about the memcached operator, for any sizes, images and number of *)
(* operations, failures and crashes: its types, that the finalizer is       *)
(* removed last, and that a resource at rest was reconciled.  What Reconcile *)
(* has in hand may be any state the resource was ever in; that an update is *)
(* admitted means it is the stored one.                                     *)
(***************************************************************************)
EXTENDS Memcached, TLAPS, SequenceTheorems

McP  == INSTANCE InformerProofs WITH Keys <- {Mc}, Objects <- Memcacheds, Handlers <- {},
          store <- memcached, watch <- memcachedWatch, cache <- memcachedCache,
          notes <- [k \in {Mc} |-> << >>]
DepP == INSTANCE InformerProofs WITH Keys <- {Mc}, Objects <- Deployments, Handlers <- {},
          store <- deployment, watch <- deploymentWatch, cache <- deploymentCache,
          notes <- [k \in {Mc} |-> << >>]

-----------------------------------------------------------------------------
(* The two instances of each informer are the same. *)
LEMMA SameMemcacheds ==
  /\ MC!TypeOK <=> McP!TypeOK
  /\ MC!Init => McP!Init
  /\ \A obj \in Memcacheds \cup {Absent}, up \in BOOLEAN :
        MC!Write(Mc, obj, up) => McP!Write(Mc, obj, up)
  /\ MC!Receive(Mc) => McP!Receive(Mc)
  /\ MC!Stop => McP!Stop
  /\ MC!Start => McP!Start
  <1> USE DEF MC!MaybeObject, McP!MaybeObject, MC!Event, McP!Event, MC!Note, McP!Note,
        MC!HandlerOf, McP!HandlerOf, MC!Notify, McP!Notify, MC!Empty, McP!Empty
  <1>1. MC!TypeOK <=> McP!TypeOK
    BY DEF MC!TypeOK, McP!TypeOK, MC!Events, McP!Events, MC!Notes, McP!Notes,
           MC!HandlerNames, McP!HandlerNames
  <1>2. MC!Init => McP!Init
    BY DEF MC!Init, McP!Init
  <1>3. ASSUME NEW obj \in Memcacheds \cup {Absent}, NEW up \in BOOLEAN, MC!Write(Mc, obj, up)
        PROVE  McP!Write(Mc, obj, up)
    BY <1>3 DEF MC!Write, McP!Write
  <1>4. MC!Receive(Mc) => McP!Receive(Mc)
    BY DEF MC!Receive, McP!Receive
  <1>5. (MC!Stop => McP!Stop) /\ (MC!Start => McP!Start)
    BY DEF MC!Stop, McP!Stop, MC!Start, McP!Start
  <1> QED
    BY <1>1, <1>2, <1>3, <1>4, <1>5

LEMMA SameDeployments ==
  /\ Dep!TypeOK <=> DepP!TypeOK
  /\ Dep!Init => DepP!Init
  /\ \A obj \in Deployments \cup {Absent}, up \in BOOLEAN :
        Dep!Write(Mc, obj, up) => DepP!Write(Mc, obj, up)
  /\ Dep!Receive(Mc) => DepP!Receive(Mc)
  /\ Dep!Stop => DepP!Stop
  /\ Dep!Start => DepP!Start
  <1> USE DEF Dep!MaybeObject, DepP!MaybeObject, Dep!Event, DepP!Event, Dep!Note, DepP!Note,
        Dep!HandlerOf, DepP!HandlerOf, Dep!Notify, DepP!Notify, Dep!Empty, DepP!Empty
  <1>1. Dep!TypeOK <=> DepP!TypeOK
    BY DEF Dep!TypeOK, DepP!TypeOK, Dep!Events, DepP!Events, Dep!Notes, DepP!Notes,
           Dep!HandlerNames, DepP!HandlerNames
  <1>2. Dep!Init => DepP!Init
    BY DEF Dep!Init, DepP!Init
  <1>3. ASSUME NEW obj \in Deployments \cup {Absent}, NEW up \in BOOLEAN, Dep!Write(Mc, obj, up)
        PROVE  DepP!Write(Mc, obj, up)
    BY <1>3 DEF Dep!Write, DepP!Write
  <1>4. Dep!Receive(Mc) => DepP!Receive(Mc)
    BY DEF Dep!Receive, DepP!Receive
  <1>5. (Dep!Stop => DepP!Stop) /\ (Dep!Start => DepP!Start)
    BY DEF Dep!Stop, DepP!Stop, Dep!Start, DepP!Start
  <1> QED
    BY <1>1, <1>2, <1>3, <1>4, <1>5
-----------------------------------------------------------------------------
Stored == memcached[Mc]
Known  == Memcacheds \cup {Absent}

(* m is a state the resource was in, or a resource that is gone: where the  *)
(* API server stores the same resource, m is older, or it is what is stored. *)
IsPast(m, stored, ops) ==
  m # Absent =>
    /\ m.uid <= ops
    /\ stored # Absent /\ stored.uid = m.uid =>
         m.version <= stored.version /\ (m.version = stored.version => m = stored)

(* What is stored, seen and on its way, and what Reconcile has in hand.     *)
Versions ==
  /\ IsPast(Stored, Stored, used.ops)
  /\ IsPast(memcachedCache[Mc], Stored, used.ops)
  /\ \A n \in 1..Len(memcachedWatch[Mc]) : IsPast(memcachedWatch[Mc][n].obj, Stored, used.ops)
  /\ IsPast(InHand, Stored, used.ops)

Finalized(m) == m # Absent /\ "memcached" \in m.finalizers

(* What is known at each step of the deletion.  Once the finalizer is on a  *)
(* resource being deleted only Reconcile itself takes it off.               *)
Deleting ==
  /\ ~At("idle") => running
  /\ At("idle") \/ At("get") <=> InHand = Absent
  /\ At("degrade") => Finalized(InHand) /\ InHand.deleting
  /\ At("operations") => Finalized(Stored) /\ Stored.deleting /\ Stored.uid = InHand.uid
  /\ At("refetchDegraded") \/ At("degraded") =>
       Finalized(Stored) /\ Stored.deleting /\ Stored.uid \in finalized
  /\ At("remove") => InHand.deleting /\ InHand.uid \in finalized /\ InHand.degraded = "True"

(* A Deployment that is resized was found. *)
Found == At("resize") => reconcile.found # Absent

Inv == /\ TypeOK
       /\ Found
       /\ McP!Agrees(running) /\ DepP!Agrees(running)
       /\ Versions
       /\ Deleting

-----------------------------------------------------------------------------
(* Types. *)
LEMMA MemcachedTypes ==
  ASSUME Inv
  PROVE  /\ Stored \in Known /\ memcachedCache[Mc] \in Known /\ InHand \in Known
         /\ memcached \in [{Mc} -> Known] /\ memcachedCache \in [{Mc} -> Known]
         /\ memcachedWatch \in [{Mc} -> Seq(MC!Events)]
         /\ reconcile \in [pc : PCs, memcached : Known, found : Deployments \cup {Absent}]
         /\ running \in BOOLEAN
         /\ used \in [ops : 0..MaxOps, faults : 0..MaxFaults] /\ used.ops \in Nat
         /\ finalized \in SUBSET Uids
  <1>1. MC!TypeOK /\ TypeOK /\ MaxOps \in Nat
    BY BoundsAssumption DEF Inv, TypeOK
  <1> QED
    BY <1>1 DEF TypeOK, MC!TypeOK, MC!MaybeObject, Known, Stored, InHand

LEMMA ChangedTypes ==
  ASSUME NEW m \in Memcacheds
  PROVE  /\ m # Absent /\ m.uid \in Nat /\ m.version \in Nat
         /\ Newer(m) \in Memcacheds
         /\ Newer(m) = [m EXCEPT !.version = m.version + 1]
         /\ Newer(m).uid = m.uid /\ Newer(m).version = m.version + 1
         /\ Newer(m).deleting = m.deleting /\ Newer(m).finalizers = m.finalizers
         /\ Newer(m).degraded = m.degraded
         /\ Kept(m) \in Known
         /\ \A n \in Sizes : [m EXCEPT !.size = n] \in Memcacheds
         /\ \A f \in SUBSET typeFinalizers :
              /\ [m EXCEPT !.finalizers = f] \in Memcacheds
              /\ [m EXCEPT !.deleting = TRUE, !.finalizers = f] \in Memcacheds
  <1>1. m # Absent
    BY AbsentAssumption
  <1>2. Newer(m) \in Memcacheds /\ Newer(m) = [m EXCEPT !.version = m.version + 1]
    BY DEF Memcacheds, Newer
  <1>3. /\ Newer(m).uid = m.uid /\ Newer(m).version = m.version + 1
        /\ Newer(m).deleting = m.deleting /\ Newer(m).finalizers = m.finalizers
        /\ Newer(m).degraded = m.degraded
    BY <1>2 DEF Memcacheds
  <1>4. m.uid \in Nat /\ m.version \in Nat
    BY BoundsAssumption DEF Memcacheds, Uids
  <1>5. Kept(m) \in Known
    BY DEF Kept, Known
  <1>6. \A n \in Sizes : [m EXCEPT !.size = n] \in Memcacheds
    BY DEF Memcacheds
  <1>7. ASSUME NEW f \in SUBSET typeFinalizers
        PROVE  /\ [m EXCEPT !.finalizers = f] \in Memcacheds
               /\ [m EXCEPT !.deleting = TRUE, !.finalizers = f] \in Memcacheds
    BY DEF Memcacheds
  <1> QED
    BY <1>1, <1>2, <1>3, <1>4, <1>5, <1>6, <1>7

(* How an admitted or failed update ends: changed is what the resource in   *)
(* hand was to become.                                                      *)
Ends(changed, admitted, pc) ==
  LET stored == IF changed = InHand THEN changed ELSE Newer(changed) IN
  \/ UNCHANGED memcachedVars /\ reconcile' = Idle
  \/ /\ admitted /\ Stored = InHand
     /\ IF changed = InHand THEN UNCHANGED memcachedVars ELSE MC!Write(Mc, Kept(stored), TRUE)
     /\ \/ reconcile' = Idle
        \/ pc \in PCs \ {"idle"} /\ reconcile' = [reconcile EXCEPT !.memcached = stored, !.pc = pc]

(* An update is only admitted when what is in hand is what is stored.       *)
LEMMA UpdateEnds ==
  ASSUME Inv, InHand # Absent, NEW changed, NEW admitted \in BOOLEAN, NEW pc \in PCs \cup {"error"},
         Update(changed, admitted, pc)
  PROVE  /\ Ends(changed, admitted, pc)
         /\ UNCHANGED <<deploymentVars, requested, running, image>>
         /\ used' = used \/ Fault
  <1>1. ASSUME Exists, memcached[Mc].uid = InHand.uid, memcached[Mc].version = InHand.version
        PROVE  Stored = InHand
    BY <1>1, MemcachedTypes DEF Inv, Versions, IsPast, Exists, Stored
  <1>2. pc # "error" => pc \in PCs
    OBVIOUS
  <1>3. "error" \notin PCs
    BY DEF PCs
  <1> QED
    BY <1>1, <1>2, <1>3 DEF Update, Call, Ends, Return, ReturnLater, Proceed, Local
-----------------------------------------------------------------------------
(* The updates of Reconcile, and what they make of the resource in hand.    *)
Updates(changed, admitted, pc) ==
  \/ /\ SetUnknown
     /\ changed = Available("Unknown", 0) /\ admitted = TRUE /\ pc = "refetchInit"
  \/ /\ AddFinalizer
     /\ changed = [InHand EXCEPT !.finalizers = @ \cup {"memcached"}]
     /\ admitted = ~InHand.deleting /\ pc = AfterFinalizer(InHand)
  \/ SetDegrading /\ changed = Degraded("Unknown") /\ admitted = TRUE /\ pc = "operations"
  \/ SetDegraded /\ changed = Degraded("True") /\ admitted = TRUE /\ pc = "remove"
  \/ /\ RemoveFinalizer
     /\ changed = [InHand EXCEPT !.finalizers = @ \ {"memcached"}] /\ admitted = TRUE /\ pc = "idle"
  \/ SetNoImage /\ changed = Available("False", 0) /\ admitted = TRUE /\ pc = "error"
  \/ SetNotResized /\ changed = Available("False", 0) /\ admitted = TRUE /\ pc = "error"
  \/ SetAvailable /\ changed = Available("True", InHand.size) /\ admitted = TRUE /\ pc = "idle"

LEMMA UpdatesEnd ==
  ASSUME Inv, NEW changed, NEW admitted, NEW pc, Updates(changed, admitted, pc)
  PROVE  /\ InHand \in Memcacheds /\ running
         /\ changed \in Memcacheds /\ changed.uid = InHand.uid /\ changed.version = InHand.version
         /\ pc \in PCs \cup {"error"}
         /\ Ends(changed, admitted, pc)
         /\ UNCHANGED <<deploymentVars, requested, running, image, finalized>>
         /\ used' = used \/ Fault
  <1>1. ~At("idle") /\ ~At("get")
    BY DEF Updates, SetUnknown, AddFinalizer, SetDegrading, SetDegraded, RemoveFinalizer,
           SetNoImage, SetNotResized, SetAvailable, At
  <1>2. running /\ InHand # Absent /\ InHand \in Memcacheds
    BY <1>1, MemcachedTypes DEF Inv, Deleting, Known
  <1>3. /\ changed \in Memcacheds /\ changed.uid = InHand.uid /\ changed.version = InHand.version
        /\ pc \in PCs \cup {"error"} /\ admitted \in BOOLEAN
    <2>1. ASSUME NEW status \in ConditionStatus, NEW n \in Sizes \cup {0}
          PROVE  /\ Available(status, n) \in Memcacheds
                 /\ Available(status, n).uid = InHand.uid
                 /\ Available(status, n).version = InHand.version
      BY <1>2 DEF Available, Memcacheds
    <2>2. ASSUME NEW status \in ConditionStatus
          PROVE  /\ Degraded(status) \in Memcacheds
                 /\ Degraded(status).uid = InHand.uid
                 /\ Degraded(status).version = InHand.version
      BY <1>2 DEF Degraded, Memcacheds
    <2>3. ASSUME NEW f \in SUBSET typeFinalizers
          PROVE  /\ [InHand EXCEPT !.finalizers = f] \in Memcacheds
                 /\ [InHand EXCEPT !.finalizers = f].uid = InHand.uid
                 /\ [InHand EXCEPT !.finalizers = f].version = InHand.version
      BY <1>2 DEF Memcacheds
    <2>4. /\ InHand.finalizers \cup {"memcached"} \in SUBSET typeFinalizers
          /\ InHand.finalizers \ {"memcached"} \in SUBSET typeFinalizers
          /\ InHand.deleting \in BOOLEAN /\ InHand.size \in Sizes
      BY <1>2 DEF Memcacheds, typeFinalizers
    <2>5. {"Unknown", "True", "False"} \subseteq ConditionStatus
      BY DEF ConditionStatus
    <2>6. /\ {"refetchInit", "degrade", "find", "operations", "remove", "idle"} \subseteq PCs
          /\ AfterFinalizer(InHand) \in {"degrade", "find"}
      BY DEF PCs, AfterFinalizer
    <2>7. CASE SetUnknown /\ changed = Available("Unknown", 0) /\ admitted = TRUE /\ pc = "refetchInit"
      BY <2>1, <2>5, <2>6, <2>7
    <2>8. CASE /\ changed = [InHand EXCEPT !.finalizers = @ \cup {"memcached"}]
               /\ admitted = ~InHand.deleting /\ pc = AfterFinalizer(InHand)
      BY <2>3, <2>4, <2>6, <2>8
    <2>9. CASE changed = Degraded("Unknown") /\ admitted = TRUE /\ pc = "operations"
      BY <2>2, <2>5, <2>6, <2>9
    <2>10. CASE changed = Degraded("True") /\ admitted = TRUE /\ pc = "remove"
      BY <2>2, <2>5, <2>6, <2>10
    <2>11. CASE changed = [InHand EXCEPT !.finalizers = @ \ {"memcached"}] /\ admitted = TRUE /\ pc = "idle"
      BY <2>3, <2>4, <2>6, <2>11
    <2>12. CASE changed = Available("False", 0) /\ admitted = TRUE /\ pc = "error"
      BY <2>1, <2>5, <2>12
    <2>13. CASE changed = Available("True", InHand.size) /\ admitted = TRUE /\ pc = "idle"
      BY <2>1, <2>4, <2>5, <2>6, <2>13
    <2> QED
      BY <2>7, <2>8, <2>9, <2>10, <2>11, <2>12, <2>13 DEF Updates
  <1>4. Update(changed, admitted, pc) /\ UNCHANGED finalized
    BY DEF Updates, SetUnknown, AddFinalizer, SetDegrading, SetDegraded, RemoveFinalizer,
           SetNoImage, SetNotResized, SetAvailable
  <1> QED
    BY <1>2, <1>3, <1>4, UpdateEnds

(* Every step of Reconcile is an update, or leaves the resource alone.      *)
LEMMA ReconcileCases ==
  ASSUME Reconcile
  PROVE  \/ \E changed, admitted, pc : Updates(changed, admitted, pc)
         \/ GetMemcached \/ Refetch \/ FinalizerOperations \/ FindDeployment \/ ImagePanics
         \/ CreateDeployment \/ ResizeDeployment
  BY DEF Reconcile, Updates
-----------------------------------------------------------------------------
(* How a step changes what the API server stores under the key: to a later  *)
(* version, to nothing, or from nothing to a resource of a new uid.         *)
Follows(old, new, ops, opsAfter) ==
  new = Absent
    \/ /\ new.uid <= opsAfter
       /\ \/ old = Absent /\ ops < new.uid
          \/ old # Absent /\ new.uid = old.uid /\ new.version = old.version + 1

LEMMA PastStaysPast ==
  ASSUME NEW m \in Known, NEW old \in Known, NEW new \in Known,
         NEW ops \in Nat, NEW opsAfter \in Nat, ops <= opsAfter,
         IsPast(m, old, ops), new = old \/ Follows(old, new, ops, opsAfter)
  PROVE  IsPast(m, new, opsAfter)
  <1> SUFFICES ASSUME m # Absent PROVE IsPast(m, new, opsAfter)
    BY DEF IsPast
  <1>1. m \in Memcacheds /\ m.uid \in Nat /\ m.version \in Nat
    BY ChangedTypes DEF Known
  <1>2. m.uid <= ops
    BY DEF IsPast
  <1>3. CASE new = old \/ new = Absent
    BY <1>1, <1>2, <1>3 DEF IsPast
  <1>4. CASE new # Absent /\ old = Absent /\ ops < new.uid
    <2>1. new.uid \in Nat
      BY <1>4, ChangedTypes DEF Known
    <2> QED
      BY <1>1, <1>2, <1>4, <2>1 DEF IsPast
  <1>5. CASE new # Absent /\ old # Absent /\ new.uid = old.uid /\ new.version = old.version + 1
    <2>1. old.version \in Nat
      BY <1>5, ChangedTypes DEF Known
    <2> QED
      BY <1>1, <1>2, <1>5, <2>1 DEF IsPast
  <1> QED
    BY <1>3, <1>4, <1>5 DEF Follows

LEMMA NewIsPast ==
  ASSUME NEW new \in Known, NEW opsAfter, new # Absent => new.uid <= opsAfter
  PROVE  IsPast(new, new, opsAfter)
  <1>1. new # Absent => new.version \in Nat
    BY ChangedTypes DEF Known
  <1> QED
    BY <1>1 DEF IsPast
-----------------------------------------------------------------------------
(* What a step does to the informer of the resource and to its process.     *)
Moves ==
  /\ used.ops <= used'.ops /\ used'.ops \in Nat
  /\ \/ UNCHANGED <<memcachedVars, running>>
     \/ \E obj \in Known : /\ MC!Write(Mc, obj, running) /\ running' = running
                           /\ Follows(Stored, obj, used.ops, used'.ops)
     \/ MC!Receive(Mc) /\ running /\ running'
     \/ MC!Stop /\ running /\ ~running'
     \/ MC!Start /\ ~running /\ running'

(* A write of the resource that is stored, as changed, with a new version.  *)
LEMMA NewerFollows ==
  ASSUME Inv, Exists, NEW changed \in Memcacheds,
         changed.uid = Stored.uid, changed.version = Stored.version,
         used.ops <= used'.ops, used'.ops \in Nat
  PROVE  /\ Kept(Newer(changed)) \in Known
         /\ Follows(Stored, Kept(Newer(changed)), used.ops, used'.ops)
         /\ Follows(Stored, Newer(changed), used.ops, used'.ops)
  <1>1. /\ Newer(changed) \in Memcacheds /\ Newer(changed).uid = Stored.uid
        /\ Newer(changed).version = Stored.version + 1
    BY ChangedTypes
  <1>2. Kept(Newer(changed)) \in {Newer(changed), Absent}
    BY DEF Kept
  <1>3. Stored # Absent /\ Stored.uid <= used.ops /\ Stored \in Memcacheds
    BY MemcachedTypes DEF Inv, Versions, IsPast, Exists, Stored, Known
  <1>4. Newer(changed).uid <= used'.ops
    <2>1. Stored.uid \in Nat /\ used.ops \in Nat
      BY <1>3, MemcachedTypes, ChangedTypes
    <2>2. Stored.uid <= used'.ops
      BY <1>3, <2>1
    <2> QED
      BY <1>1, <2>2
  <1> QED
    BY <1>1, <1>2, <1>3, <1>4 DEF Follows, Known

LEMMA EveryStepMoves ==
  ASSUME Inv, [Next]_vars
  PROVE  Moves
  <1>1. /\ Stored \in Known /\ running \in BOOLEAN /\ used.ops \in 0..MaxOps
        /\ used \in [ops : 0..MaxOps, faults : 0..MaxFaults] /\ MaxOps \in Nat
    BY MemcachedTypes, BoundsAssumption
  <1>2. ASSUME UNCHANGED <<memcachedVars, running>>,
               used' = used \/ UserOp \/ Fault
        PROVE  Moves
    BY <1>1, <1>2 DEF Moves, UserOp, Fault
  <1>3. CASE CreateMemcached
    <2>1. PICK n \in Sizes :
            MC!Write(Mc, [uid |-> used.ops + 1, size |-> n, deleting |-> FALSE, finalizers |-> {},
                          available |-> "none", replicas |-> 0, degraded |-> "none",
                          version |-> 1], running)
      BY <1>3 DEF CreateMemcached
    <2> DEFINE new == [uid |-> used.ops + 1, size |-> n, deleting |-> FALSE, finalizers |-> {},
                       available |-> "none", replicas |-> 0, degraded |-> "none", version |-> 1]
    <2>2. used.ops + 1 \in Uids /\ used'.ops = used.ops + 1
      BY <1>1, <1>3 DEF CreateMemcached, UserOp, Uids
    <2>3. new \in Memcacheds
      BY <2>2 DEF Memcacheds, ConditionStatus
    <2>4. Follows(Stored, new, used.ops, used'.ops)
      BY <1>1, <1>3, <2>2 DEF Follows, CreateMemcached, Exists, Stored
    <2> HIDE DEF new
    <2> QED
      BY <1>1, <1>3, <2>1, <2>2, <2>3, <2>4 DEF Moves, CreateMemcached, Others, Known, new
  <1>4. ASSUME NEW changed \in Memcacheds, Exists, changed.uid = Stored.uid,
               changed.version = Stored.version, used' = used \/ UserOp,
               \/ MC!Write(Mc, Newer(changed), running)
               \/ MC!Write(Mc, Kept(Newer(changed)), running),
               running' = running
        PROVE  Moves
    <2>1. used.ops <= used'.ops /\ used'.ops \in Nat
      BY <1>1, <1>4 DEF UserOp
    <2>2. Newer(changed) \in Known
      BY ChangedTypes DEF Known
    <2> QED
      BY <1>4, <2>1, <2>2, NewerFollows DEF Moves
  <1>5. CASE ChangeSize
    <2>1. PICK n \in Sizes : MC!Write(Mc, Newer([memcached[Mc] EXCEPT !.size = n]), running)
      BY <1>5 DEF ChangeSize
    <2>2. Stored \in Memcacheds
      BY <1>1, <1>5 DEF ChangeSize, Exists, Stored, Known
    <2>3. /\ [Stored EXCEPT !.size = n] \in Memcacheds
          /\ [Stored EXCEPT !.size = n].uid = Stored.uid
          /\ [Stored EXCEPT !.size = n].version = Stored.version
      BY <2>2 DEF Memcacheds
    <2> QED
      BY <1>4, <1>5, <2>1, <2>3 DEF ChangeSize, Others, Stored
  <1>6. CASE DeleteMemcached
    <2>1. PICK more \in {{}, {"foreground"}} :
            MC!Write(Mc, Kept(Newer([memcached[Mc] EXCEPT !.deleting = TRUE,
                                                          !.finalizers = @ \cup more])), running)
      BY <1>6 DEF DeleteMemcached
    <2>2. Stored \in Memcacheds
      BY <1>1, <1>6 DEF DeleteMemcached, Exists, Stored, Known
    <2> DEFINE changed == [Stored EXCEPT !.deleting = TRUE, !.finalizers = @ \cup more]
    <2>3. Stored.finalizers \cup more \in SUBSET typeFinalizers
      BY <2>2 DEF Memcacheds, typeFinalizers
    <2>4. changed \in Memcacheds /\ changed.uid = Stored.uid /\ changed.version = Stored.version
      BY <2>2, <2>3 DEF Memcacheds
    <2> QED
      BY <1>4, <1>6, <2>1, <2>4 DEF DeleteMemcached, Others, Stored
  <1>7. CASE DependentsGone
    <2>1. Stored \in Memcacheds
      BY <1>1, <1>7 DEF DependentsGone, Exists, Stored, Known
    <2> DEFINE changed == [Stored EXCEPT !.finalizers = @ \ {"foreground"}]
    <2>2. changed \in Memcacheds /\ changed.uid = Stored.uid /\ changed.version = Stored.version
      BY <2>1 DEF Memcacheds
    <2> QED
      BY <1>4, <1>7, <2>2 DEF DependentsGone, Others, Stored
  <1>8. CASE ScaleOrDeleteDeployment \/ CollectDeployment
    BY <1>2, <1>8 DEF ScaleOrDeleteDeployment, CollectDeployment, Others
  <1>9. CASE ReceiveMemcached
    BY <1>1, <1>9 DEF ReceiveMemcached, Moves
  <1>10. CASE ReceiveDeployment \/ DelayPasses \/ BeginReconcile
    BY <1>2, <1>10 DEF ReceiveDeployment, DelayPasses, BeginReconcile, clusterVars, Local
  <1>11. CASE ProcessEnds /\ running /\ (used' = used \/ Fault)
    <2>1. MC!Stop /\ running /\ ~running'
      BY <1>11 DEF ProcessEnds
    <2>2. used.ops <= used'.ops /\ used'.ops \in Nat
      BY <1>1, <1>11 DEF Fault
    <2> QED
      BY <2>1, <2>2 DEF Moves
  <1>12. CASE Restart
    <2>1. MC!Start /\ ~running /\ running'
      BY <1>12 DEF Restart
    <2>2. used.ops <= used'.ops /\ used'.ops \in Nat
      BY <1>1, <1>12 DEF Restart
    <2> QED
      BY <2>1, <2>2 DEF Moves
  <1>13. ASSUME NEW changed, NEW admitted, NEW pc, Updates(changed, admitted, pc)
         PROVE  Moves
    <2>1. /\ InHand \in Memcacheds /\ changed \in Memcacheds
          /\ changed.uid = InHand.uid /\ changed.version = InHand.version
          /\ Ends(changed, admitted, pc) /\ running /\ running' = running
          /\ used' = used \/ Fault
      BY <1>13, UpdatesEnd
    <2>2. CASE UNCHANGED memcachedVars
      BY <1>2, <2>1, <2>2
    <2>3. CASE Stored = InHand /\ MC!Write(Mc, Kept(Newer(changed)), TRUE)
      <3>1. Exists
        BY <2>1, <2>3, AbsentAssumption DEF Exists, Stored
      <3>2. used.ops <= used'.ops /\ used'.ops \in Nat
        BY <1>1, <2>1 DEF Fault
      <3>3. /\ Kept(Newer(changed)) \in Known
            /\ Follows(Stored, Kept(Newer(changed)), used.ops, used'.ops)
        BY <2>1, <2>3, <3>1, <3>2, NewerFollows
      <3> QED
        BY <2>1, <2>3, <3>2, <3>3 DEF Moves
    <2> QED
      BY <2>1, <2>2, <2>3 DEF Ends
  <1>14. CASE GetMemcached \/ Refetch \/ FinalizerOperations \/ FindDeployment
    BY <1>2, <1>14 DEF GetMemcached, Refetch, FinalizerOperations, FindDeployment, Quiet, Local,
                       clusterVars
  <1>15. CASE CreateDeployment \/ ResizeDeployment
    BY <1>2, <1>15 DEF CreateDeployment, ResizeDeployment, Call, Local
  <1>16. CASE ImagePanics
    <2>1. running
      BY <1>16 DEF ImagePanics, Inv, Deleting, At
    <2> QED
      BY <1>11, <1>16, <2>1 DEF ImagePanics
  <1>17. CASE UNCHANGED vars
    BY <1>2, <1>17 DEF vars, clusterVars
  <1> QED
    BY <1>3, <1>5, <1>6, <1>7, <1>8, <1>9, <1>10, <1>11, <1>12, <1>13, <1>14, <1>15, <1>16, <1>17,
       ReconcileCases DEF Next, Crash

LEMMA MemcachedsStep ==
  ASSUME Inv, Moves
  PROVE  McP!ProcessStep(running, running')
  <1>1. running \in BOOLEAN
    BY MemcachedTypes
  <1>2. CASE UNCHANGED <<memcachedVars, running>>
    BY <1>2 DEF memcachedVars, McP!vars, McP!ProcessStep
  <1>3. ASSUME NEW obj \in Known, MC!Write(Mc, obj, running), running' = running
        PROVE  McP!ProcessStep(running, running')
    BY <1>1, <1>3, SameMemcacheds DEF Known, McP!MaybeObject, McP!ProcessStep
  <1>4. CASE MC!Receive(Mc) /\ running /\ running'
    BY <1>4, SameMemcacheds DEF McP!ProcessStep
  <1>5. CASE MC!Stop /\ running /\ ~running'
    BY <1>5, SameMemcacheds DEF McP!ProcessStep
  <1>6. CASE MC!Start /\ ~running /\ running'
    BY <1>6, SameMemcacheds DEF McP!ProcessStep
  <1> QED
    BY <1>2, <1>3, <1>4, <1>5, <1>6 DEF Moves

(* What is seen of the resource after a step, in terms of what was seen. *)
LEMMA SeenPast ==
  ASSUME Inv, Moves
  PROVE  /\ IsPast(Stored', Stored', used'.ops)
         /\ IsPast(memcachedCache'[Mc], Stored', used'.ops)
         /\ \A n \in 1..Len(memcachedWatch'[Mc]) :
               IsPast(memcachedWatch'[Mc][n].obj, Stored', used'.ops)
         /\ Stored' \in Known
         /\ \A m \in Known : IsPast(m, Stored, used.ops) => IsPast(m, Stored', used'.ops)
  <1>1. /\ Stored \in Known /\ memcachedCache[Mc] \in Known
        /\ memcached \in [{Mc} -> Known] /\ memcachedCache \in [{Mc} -> Known]
        /\ memcachedWatch \in [{Mc} -> Seq(MC!Events)] /\ memcachedWatch[Mc] \in Seq(MC!Events)
        /\ used.ops \in Nat /\ used'.ops \in Nat /\ used.ops <= used'.ops
    BY MemcachedTypes DEF Moves
  <1>2. ASSUME NEW n \in 1..Len(memcachedWatch[Mc])
        PROVE  memcachedWatch[Mc][n] \in MC!Events /\ memcachedWatch[Mc][n].obj \in Known
    <2>1. memcachedWatch[Mc][n] \in MC!Events
      BY <1>1, ElementOfSeq
    <2> QED
      BY <2>1 DEF MC!Events, MC!MaybeObject, Known
  <1>3. /\ IsPast(Stored, Stored, used.ops) /\ IsPast(memcachedCache[Mc], Stored, used.ops)
        /\ \A n \in 1..Len(memcachedWatch[Mc]) : IsPast(memcachedWatch[Mc][n].obj, Stored, used.ops)
        /\ IsPast(Absent, Stored, used.ops)
    BY DEF Inv, Versions, IsPast
  <1> DEFINE Seen(m) == m \in Known /\ IsPast(m, Stored, used.ops)
  <1>4. /\ Seen(Stored) /\ Seen(memcachedCache[Mc]) /\ Seen(Absent)
        /\ \A n \in 1..Len(memcachedWatch[Mc]) : Seen(memcachedWatch[Mc][n].obj)
    BY <1>1, <1>2, <1>3 DEF Known
  <1>5. ASSUME Stored' \in Known,
               Stored' = Stored \/ Follows(Stored, Stored', used.ops, used'.ops),
               Seen(memcachedCache'[Mc]),
               \A n \in 1..Len(memcachedWatch'[Mc]) :
                 Seen(memcachedWatch'[Mc][n].obj) \/ memcachedWatch'[Mc][n].obj = Stored'
        PROVE  /\ IsPast(Stored', Stored', used'.ops)
               /\ IsPast(memcachedCache'[Mc], Stored', used'.ops)
               /\ \A n \in 1..Len(memcachedWatch'[Mc]) :
                     IsPast(memcachedWatch'[Mc][n].obj, Stored', used'.ops)
               /\ Stored' \in Known
               /\ \A m \in Known : IsPast(m, Stored, used.ops) => IsPast(m, Stored', used'.ops)
    <2>1. ASSUME NEW m, Seen(m) PROVE IsPast(m, Stored', used'.ops)
      BY <1>1, <1>5, <2>1, PastStaysPast
    <2>2. IsPast(Stored', Stored', used'.ops)
      <3>1. CASE Stored' = Stored
        BY <1>4, <2>1, <3>1
      <3>2. CASE Follows(Stored, Stored', used.ops, used'.ops)
        <4>1. Stored' # Absent => Stored'.uid <= used'.ops
          BY <3>2 DEF Follows
        <4> QED
          BY <1>5, <4>1, NewIsPast
      <3> QED
        BY <1>5, <3>1, <3>2
    <2> QED
      BY <1>5, <2>1, <2>2
  <1> HIDE DEF Seen
  <1>6. CASE UNCHANGED <<memcachedVars, running>>
    <2>1. Stored' = Stored /\ memcachedCache' = memcachedCache /\ memcachedWatch' = memcachedWatch
      BY <1>6 DEF memcachedVars, Stored
    <2> QED
      BY <1>1, <1>4, <1>5, <2>1
  <1>7. ASSUME NEW obj \in Known, MC!Write(Mc, obj, running),
               Follows(Stored, obj, used.ops, used'.ops)
        PROVE  /\ Stored' \in Known
               /\ Stored' = Stored \/ Follows(Stored, Stored', used.ops, used'.ops)
               /\ Seen(memcachedCache'[Mc])
               /\ \A n \in 1..Len(memcachedWatch'[Mc]) :
                    Seen(memcachedWatch'[Mc][n].obj) \/ memcachedWatch'[Mc][n].obj = Stored'
    <2>1. Stored' = obj /\ memcachedCache' = memcachedCache
      BY <1>1, <1>7 DEF MC!Write, Stored
    <2>2. \/ memcachedWatch'[Mc] = memcachedWatch[Mc]
          \/ memcachedWatch'[Mc] = Append(memcachedWatch[Mc], MC!Event(obj))
      BY <1>1, <1>7 DEF MC!Write
    <2>3. MC!Event(obj) \in MC!Events /\ MC!Event(obj).obj = obj
      BY DEF MC!Event, MC!Events, MC!MaybeObject, Known
    <2>4. ASSUME memcachedWatch'[Mc] = Append(memcachedWatch[Mc], MC!Event(obj)),
                 NEW n \in 1..Len(memcachedWatch'[Mc])
          PROVE  Seen(memcachedWatch'[Mc][n].obj) \/ memcachedWatch'[Mc][n].obj = obj
      <3>1. /\ Len(memcachedWatch[Mc]) \in Nat
            /\ Len(memcachedWatch'[Mc]) = Len(memcachedWatch[Mc]) + 1
            /\ \A j \in 1..Len(memcachedWatch[Mc]) : memcachedWatch'[Mc][j] = memcachedWatch[Mc][j]
            /\ memcachedWatch'[Mc][Len(memcachedWatch[Mc]) + 1] = MC!Event(obj)
        BY <1>1, <2>3, <2>4, AppendProperties, LenProperties
      <3>2. n \in 1..Len(memcachedWatch[Mc]) \/ n = Len(memcachedWatch[Mc]) + 1
        BY <3>1
      <3> QED
        BY <1>4, <2>3, <3>1, <3>2
    <2> QED
      BY <1>4, <1>7, <2>1, <2>2, <2>4
  <1>8. CASE MC!Receive(Mc)
    <2>1. /\ memcachedWatch[Mc] # << >> /\ Stored' = Stored
          /\ memcachedCache'[Mc] = Head(memcachedWatch[Mc]).obj
          /\ memcachedWatch'[Mc] = Tail(memcachedWatch[Mc])
      BY <1>1, <1>8 DEF MC!Receive, Stored
    <2>2. /\ Len(memcachedWatch[Mc]) \in Nat \ {0}
          /\ Len(memcachedWatch'[Mc]) = Len(memcachedWatch[Mc]) - 1
          /\ \A n \in 1..Len(memcachedWatch'[Mc]) :
                memcachedWatch'[Mc][n] = memcachedWatch[Mc][n + 1]
          /\ Head(memcachedWatch[Mc]) = memcachedWatch[Mc][1]
      BY <1>1, <2>1, HeadTailProperties, EmptySeq
    <2>3. ASSUME NEW n \in 1..Len(memcachedWatch'[Mc])
          PROVE  Seen(memcachedWatch'[Mc][n].obj)
      <3>1. n + 1 \in 1..Len(memcachedWatch[Mc])
        BY <2>2
      <3> QED
        BY <1>4, <2>2, <3>1
    <2>4. Seen(memcachedCache'[Mc])
      <3>1. 1 \in 1..Len(memcachedWatch[Mc])
        BY <2>2
      <3> QED
        BY <1>4, <2>1, <2>2, <3>1
    <2> QED
      BY <1>1, <1>5, <2>1, <2>3, <2>4
  <1>9. CASE MC!Stop
    <2>1. Stored' = Stored /\ memcachedCache'[Mc] = Absent /\ memcachedWatch'[Mc] = << >>
      BY <1>9 DEF MC!Stop, MC!Empty, Stored
    <2>2. Len(<< >>) = 0
      BY EmptySeq
    <2>3. 1..Len(memcachedWatch'[Mc]) = {}
      BY <2>1, <2>2
    <2> QED
      BY <1>1, <1>4, <1>5, <2>1, <2>3
  <1>10. CASE MC!Start
    <2>1. Stored' = Stored /\ memcachedCache'[Mc] = Stored /\ memcachedWatch' = memcachedWatch
      BY <1>10 DEF MC!Start, Stored
    <2> QED
      BY <1>1, <1>4, <1>5, <2>1
  <1> QED
    BY <1>5, <1>6, <1>7, <1>8, <1>9, <1>10 DEF Moves

-----------------------------------------------------------------------------
(* What Reconcile has in hand after a step. *)
LEMMA HandMoves ==
  ASSUME Inv, [Next]_vars
  PROVE  \/ InHand' \in {InHand, Absent, memcachedCache[Mc]}
         \/ /\ InHand # Absent /\ InHand' \in Memcacheds /\ InHand'.uid = InHand.uid
            /\ Stored' \in {InHand', Absent}
  <1>1. /\ reconcile \in [pc : PCs, memcached : Known, found : Deployments \cup {Absent}]
        /\ InHand \in Known /\ memcached \in [{Mc} -> Known]
    BY MemcachedTypes
  <1>2. CASE UNCHANGED reconcile \/ reconcile' = Idle
    BY <1>2 DEF InHand, Idle
  <1>3. CASE CreateMemcached \/ ChangeSize \/ DeleteMemcached \/ ScaleOrDeleteDeployment
             \/ CollectDeployment \/ DependentsGone \/ ReceiveMemcached \/ ReceiveDeployment
             \/ DelayPasses \/ Crash \/ ImagePanics \/ Restart \/ UNCHANGED vars
    BY <1>2, <1>3
       DEF CreateMemcached, ChangeSize, DeleteMemcached, ScaleOrDeleteDeployment,
           CollectDeployment, DependentsGone, ReceiveMemcached, ReceiveDeployment,
           DelayPasses, Crash, ImagePanics, ProcessEnds, Restart, Others, vars
  <1>4. ASSUME NEW m, NEW pc, Proceed(m, pc) PROVE InHand' = m
    BY <1>1, <1>4 DEF Proceed, InHand
  <1>5. CASE BeginReconcile
    BY <1>4, <1>5 DEF BeginReconcile
  <1>6. CASE GetMemcached
    BY <1>2, <1>4, <1>6 DEF GetMemcached, Return
  <1>7. CASE Refetch
    BY <1>2, <1>4, <1>7 DEF Refetch, ReturnLater
  <1>8. CASE FinalizerOperations
    BY <1>4, <1>8 DEF FinalizerOperations
  <1>9. CASE FindDeployment
    BY <1>1, <1>9 DEF FindDeployment, InHand
  <1>10. CASE CreateDeployment \/ ResizeDeployment
    BY <1>2, <1>4, <1>10 DEF CreateDeployment, ResizeDeployment, Call, ReturnLater
  <1>11. ASSUME NEW changed, NEW admitted, NEW pc, Updates(changed, admitted, pc)
         PROVE  \/ InHand' \in {InHand, Absent}
                \/ /\ InHand # Absent /\ InHand' \in Memcacheds /\ InHand'.uid = InHand.uid
                   /\ Stored' \in {InHand', Absent}
    <2>1. /\ InHand \in Memcacheds /\ changed \in Memcacheds /\ changed.uid = InHand.uid
          /\ Ends(changed, admitted, pc)
      BY <1>11, UpdatesEnd
    <2>2. CASE reconcile' = Idle
      BY <1>2, <2>2 DEF InHand, Idle
    <2>3. CASE changed = InHand /\ reconcile' = [reconcile EXCEPT !.memcached = changed, !.pc = pc]
      BY <1>1, <2>3 DEF InHand
    <2>4. CASE /\ MC!Write(Mc, Kept(Newer(changed)), TRUE)
               /\ reconcile' = [reconcile EXCEPT !.memcached = Newer(changed), !.pc = pc]
      <3>1. InHand' = Newer(changed) /\ Stored' = Kept(Newer(changed))
        BY <1>1, <2>4 DEF InHand, Stored, MC!Write
      <3>2. Kept(Newer(changed)) \in {Newer(changed), Absent}
        BY DEF Kept
      <3>3. Newer(changed) \in Memcacheds /\ Newer(changed).uid = changed.uid
        BY <2>1, ChangedTypes
      <3>4. InHand # Absent
        BY <2>1, AbsentAssumption
      <3> QED
        BY <2>1, <3>1, <3>2, <3>3, <3>4
    <2> QED
      BY <2>1, <2>2, <2>3, <2>4 DEF Ends
  <1> QED
    BY <1>3, <1>5, <1>6, <1>7, <1>8, <1>9, <1>10, <1>11, ReconcileCases DEF Next

LEMMA VersionsPreserved ==
  ASSUME Inv, [Next]_vars
  PROVE  Versions'
  <1>1. Moves
    BY EveryStepMoves
  <1>2. /\ IsPast(Stored', Stored', used'.ops)
        /\ IsPast(memcachedCache'[Mc], Stored', used'.ops)
        /\ \A n \in 1..Len(memcachedWatch'[Mc]) :
              IsPast(memcachedWatch'[Mc][n].obj, Stored', used'.ops)
        /\ \A m \in Known : IsPast(m, Stored, used.ops) => IsPast(m, Stored', used'.ops)
    BY <1>1, SeenPast
  <1>3. /\ InHand \in Known /\ memcachedCache[Mc] \in Known /\ Absent \in Known
        /\ IsPast(InHand, Stored, used.ops) /\ IsPast(memcachedCache[Mc], Stored, used.ops)
        /\ used.ops \in Nat /\ used'.ops \in Nat /\ used.ops <= used'.ops
    BY <1>1, MemcachedTypes DEF Inv, Versions, Moves, Known
  <1>4. CASE InHand' \in {InHand, Absent, memcachedCache[Mc]}
    <2>1. IsPast(Absent, Stored', used'.ops)
      BY DEF IsPast
    <2> QED
      BY <1>2, <1>3, <1>4, <2>1 DEF Versions
  <1>5. CASE /\ InHand # Absent /\ InHand' \in Memcacheds /\ InHand'.uid = InHand.uid
             /\ Stored' \in {InHand', Absent}
    <2>1. InHand.uid <= used'.ops
      <3>1. InHand.uid \in Nat /\ InHand.uid <= used.ops
        BY <1>3, <1>5, ChangedTypes DEF IsPast, Known
      <3> QED
        BY <1>3, <3>1
    <2>2. IsPast(InHand', Stored', used'.ops)
      <3>1. CASE Stored' = InHand'
        BY <1>2, <3>1
      <3>2. CASE Stored' = Absent
        BY <1>5, <2>1, <3>2 DEF IsPast
      <3> QED
        BY <1>5, <3>1, <3>2
    <2> QED
      BY <1>2, <2>2 DEF Versions
  <1> QED
    BY <1>4, <1>5, HandMoves

-----------------------------------------------------------------------------
(* The finalizer stays on the resource, but for one step of Reconcile, and  *)
(* what is being deleted remains so.                                        *)
LEMMA FinalizerStays ==
  ASSUME Inv, [Next]_vars, ~RemoveFinalizer, Finalized(Stored)
  PROVE  /\ Finalized(Stored') /\ Stored'.uid = Stored.uid
         /\ Stored.deleting => Stored'.deleting
  <1> DEFINE Stays(m) == /\ Finalized(m) /\ m.uid = Stored.uid
                         /\ Stored.deleting => m.deleting
  <1>1. /\ Stored \in Memcacheds /\ memcached \in [{Mc} -> Known]
        /\ memcached[Mc] = Stored /\ Exists
    BY MemcachedTypes DEF Finalized, Known, Stored, Exists
  <1>2. CASE UNCHANGED memcached
    BY <1>2 DEF Stored
  <1>3. ASSUME NEW changed \in Memcacheds, Stays(changed), NEW up,
               \/ MC!Write(Mc, Newer(changed), up)
               \/ MC!Write(Mc, Kept(Newer(changed)), up)
        PROVE  Stays(Stored')
    <2>1. /\ Newer(changed) \in Memcacheds
          /\ Newer(changed).uid = changed.uid /\ Newer(changed).finalizers = changed.finalizers
          /\ Newer(changed).deleting = changed.deleting
      BY ChangedTypes
    <2>2. Kept(Newer(changed)) = Newer(changed)
      BY <1>3, <2>1 DEF Kept, Finalized
    <2>3. Stored' = Newer(changed)
      BY <1>1, <1>3, <2>2 DEF MC!Write, Stored
    <2>4. Newer(changed) # Absent
      BY <2>1, ChangedTypes
    <2> QED
      BY <1>3, <2>1, <2>3, <2>4 DEF Finalized
  <1>4. CASE CreateMemcached
    BY <1>1, <1>4 DEF CreateMemcached
  <1>5. CASE ChangeSize
    <2>1. PICK n \in Sizes : MC!Write(Mc, Newer([Stored EXCEPT !.size = n]), running)
      BY <1>5 DEF ChangeSize, Stored
    <2>2. [Stored EXCEPT !.size = n] \in Memcacheds
      BY <1>1 DEF Memcacheds
    <2>3. Stays([Stored EXCEPT !.size = n])
      BY <1>1, <2>2, ChangedTypes DEF Memcacheds, Finalized
    <2> QED
      BY <1>3, <2>1, <2>2, <2>3
  <1>6. CASE DeleteMemcached
    <2>1. PICK more \in {{}, {"foreground"}} :
            MC!Write(Mc, Kept(Newer([Stored EXCEPT !.deleting = TRUE,
                                                   !.finalizers = @ \cup more])), running)
      BY <1>6 DEF DeleteMemcached, Stored
    <2> DEFINE changed == [Stored EXCEPT !.deleting = TRUE, !.finalizers = @ \cup more]
    <2>2. Stored.finalizers \cup more \in SUBSET typeFinalizers
      BY <1>1 DEF Memcacheds, typeFinalizers
    <2>3. changed \in Memcacheds
      BY <1>1, <2>2 DEF Memcacheds
    <2>4. Stays(changed)
      BY <1>1, <2>3, ChangedTypes DEF Memcacheds, Finalized
    <2> QED
      BY <1>3, <2>1, <2>3, <2>4
  <1>7. CASE DependentsGone
    <2> DEFINE changed == [Stored EXCEPT !.finalizers = @ \ {"foreground"}]
    <2>1. changed \in Memcacheds
      BY <1>1 DEF Memcacheds
    <2>2. Stays(changed)
      BY <1>1, <2>1, ChangedTypes DEF Memcacheds, Finalized
    <2> QED
      BY <1>3, <1>7, <2>1, <2>2 DEF DependentsGone, Stored
  <1>8. CASE ScaleOrDeleteDeployment \/ CollectDeployment \/ ReceiveMemcached \/ ReceiveDeployment
             \/ DelayPasses \/ BeginReconcile \/ Crash \/ ImagePanics \/ Restart \/ UNCHANGED vars
    BY <1>2, <1>8
       DEF ScaleOrDeleteDeployment, CollectDeployment, ReceiveMemcached, MC!Receive, DelayPasses,
           ReceiveDeployment, BeginReconcile, Crash, ImagePanics, ProcessEnds, MC!Stop, Restart,
           MC!Start, clusterVars, memcachedVars, vars
  <1>9. CASE GetMemcached \/ Refetch \/ FinalizerOperations \/ FindDeployment
             \/ CreateDeployment \/ ResizeDeployment
    BY <1>2, <1>9
       DEF GetMemcached, Refetch, FinalizerOperations, FindDeployment, CreateDeployment,
           ResizeDeployment, Quiet, clusterVars, memcachedVars
  <1>10. ASSUME NEW changed, NEW admitted, NEW pc, Updates(changed, admitted, pc)
         PROVE  Stays(Stored')
    <2>1. changed \in Memcacheds /\ changed.uid = InHand.uid /\ Ends(changed, admitted, pc)
          /\ InHand \in Memcacheds
      BY <1>10, UpdatesEnd
    <2>2. CASE UNCHANGED memcachedVars
      BY <1>2, <2>2 DEF memcachedVars
    <2>3. CASE Stored = InHand /\ MC!Write(Mc, Kept(Newer(changed)), TRUE)
      <3>1. changed.finalizers \in {InHand.finalizers, InHand.finalizers \cup {"memcached"}}
            /\ changed.deleting = InHand.deleting
        BY <1>10, <2>1 DEF Updates, Available, Degraded, Memcacheds
      <3>2. Stays(changed)
        BY <2>1, <2>3, <3>1, ChangedTypes DEF Finalized
      <3> QED
        BY <1>3, <2>1, <2>3, <3>2
    <2> QED
      BY <2>1, <2>2, <2>3 DEF Ends
  <1> QED
    BY <1>4, <1>5, <1>6, <1>7, <1>8, <1>9, <1>10, ReconcileCases DEF Next

LEMMA RemovalEnds ==
  ASSUME Inv, RemoveFinalizer
  PROVE  At("remove") /\ reconcile' = Idle /\ reconcile' # reconcile
  <1>1. Updates([InHand EXCEPT !.finalizers = @ \ {"memcached"}], TRUE, "idle")
    BY DEF Updates
  <1>2. Ends([InHand EXCEPT !.finalizers = @ \ {"memcached"}], TRUE, "idle")
    BY <1>1, UpdatesEnd
  <1>3. At("remove")
    BY DEF RemoveFinalizer
  <1>4. reconcile' = Idle
    BY <1>2 DEF Ends
  <1>5. Idle.pc # "remove"
    BY DEF Idle
  <1> QED
    BY <1>3, <1>4, <1>5 DEF At

LEMMA DeletingPreserved ==
  ASSUME Inv, [Next]_vars
  PROVE  Deleting'
  <1>1. /\ reconcile \in [pc : PCs, memcached : Known, found : Deployments \cup {Absent}]
        /\ memcachedCache[Mc] \in Known /\ Deleting
    BY MemcachedTypes DEF Inv
  <1> USE DEF At
  <1>2. CASE reconcile' = Idle
    BY <1>2 DEF Deleting, Idle, InHand
  <1>3. ASSUME ~RemoveFinalizer, Finalized(Stored)
        PROVE  /\ Finalized(Stored') /\ Stored'.uid = Stored.uid
               /\ Stored.deleting => Stored'.deleting
    BY <1>3, FinalizerStays
  <1>4. CASE UNCHANGED <<reconcile, finalized>> /\ (running' = running \/ At("idle"))
    <2>1. ~RemoveFinalizer
      BY <1>4, RemovalEnds
    <2> QED
      BY <1>1, <1>3, <1>4, <2>1 DEF Deleting, InHand
  <1>5. CASE CreateMemcached \/ ChangeSize \/ DeleteMemcached \/ ScaleOrDeleteDeployment
             \/ CollectDeployment \/ DependentsGone \/ ReceiveMemcached \/ ReceiveDeployment
             \/ DelayPasses \/ UNCHANGED vars
    BY <1>4, <1>5
       DEF CreateMemcached, ChangeSize, DeleteMemcached, ScaleOrDeleteDeployment,
           CollectDeployment, DependentsGone, ReceiveMemcached, ReceiveDeployment,
           DelayPasses, Others, vars
  <1>6. CASE Restart
    BY <1>1, <1>4, <1>6 DEF Restart, Deleting
  <1>7. CASE Crash \/ ImagePanics
    BY <1>2, <1>7 DEF Crash, ImagePanics, ProcessEnds
  <1>8. ASSUME NEW m, NEW pc, Proceed(m, pc)
        PROVE  InHand' = m /\ reconcile'.pc = pc
    BY <1>1, <1>8 DEF Proceed, InHand
  <1>9. CASE BeginReconcile
    BY <1>8, <1>9 DEF BeginReconcile, Local, Deleting, InHand
  <1>10. ASSUME NEW m \in Memcacheds
         PROVE  /\ AfterInit(m) \in {"finalizer", "degrade", "find"}
                /\ AfterInit(m) = "degrade" => Finalized(m) /\ m.deleting
    BY ChangedTypes DEF AfterInit, AfterFinalizer, Finalized
  <1>11. CASE GetMemcached
    <2>1. CASE memcachedCache[Mc] = Absent
      BY <1>2, <1>11, <2>1 DEF GetMemcached, Return
    <2>2. CASE memcachedCache[Mc] # Absent
      <3> DEFINE m == memcachedCache[Mc]
      <3>1. m \in Memcacheds /\ m # Absent /\ running' = running /\ running
        BY <1>1, <1>11, <2>2 DEF Known, GetMemcached, Quiet, Local, Deleting
      <3>2. InHand' = m /\ reconcile'.pc \in {"init", AfterInit(m)}
        BY <1>8, <1>11, <2>2 DEF GetMemcached
      <3> HIDE DEF m
      <3> QED
        BY <1>10, <3>1, <3>2 DEF Deleting, InHand
    <2> QED
      BY <2>1, <2>2
  <1>12. CASE Refetch
    <2>1. CASE memcachedCache[Mc] = Absent
      BY <1>2, <1>12, <2>1 DEF Refetch, ReturnLater
    <2>2. CASE memcachedCache[Mc] # Absent
      <3> DEFINE m == memcachedCache[Mc]
      <3>1. /\ m \in Memcacheds /\ m # Absent /\ running' = running /\ running
            /\ Stored' = Stored /\ finalized' = finalized
        BY <1>1, <1>12, <2>2
           DEF Known, Refetch, Quiet, Local, Deleting, clusterVars, memcachedVars, Stored
      <3>2. /\ InHand' = m
            /\ \/ reconcile'.pc = AfterInit(m)
               \/ At("refetchDegraded") /\ reconcile'.pc = "degraded"
               \/ reconcile'.pc = "notResized"
        BY <1>8, <1>12, <2>2 DEF Refetch
      <3> HIDE DEF m
      <3> QED
        BY <1>1, <1>10, <3>1, <3>2 DEF Deleting, InHand
    <2> QED
      BY <2>1, <2>2
  <1>13. CASE FinalizerOperations
    <2>1. InHand' = InHand /\ reconcile'.pc = "refetchDegraded"
      BY <1>8, <1>13 DEF FinalizerOperations
    <2>2. /\ Stored' = Stored /\ finalized' = finalized \cup {InHand.uid} /\ running' = running
      BY <1>13 DEF FinalizerOperations, Local, clusterVars, memcachedVars, Stored
    <2> QED
      BY <1>1, <1>13, <2>1, <2>2 DEF FinalizerOperations, Deleting, InHand
  <1>14. CASE FindDeployment
    <2>1. InHand' = InHand /\ reconcile'.pc \in {"noImage", "create", "resize", "available"}
      BY <1>1, <1>14 DEF FindDeployment, InHand
    <2> QED
      BY <1>1, <1>14, <2>1 DEF FindDeployment, Quiet, Local, Deleting, InHand
  <1>15. CASE CreateDeployment \/ ResizeDeployment
    <2>1. \/ reconcile' = Idle
          \/ At("resize") /\ InHand' = InHand /\ reconcile'.pc = "refetchResize"
      BY <1>8, <1>15 DEF CreateDeployment, ResizeDeployment, Call, ReturnLater
    <2>2. running' = running
      BY <1>15 DEF CreateDeployment, ResizeDeployment, Local
    <2> QED
      BY <1>1, <1>2, <2>1, <2>2 DEF Deleting, InHand
  <1>16. ASSUME NEW changed, NEW admitted, NEW pc, Updates(changed, admitted, pc)
         PROVE  Deleting'
    <2> SUFFICES ASSUME reconcile' # Idle PROVE Deleting'
      BY <1>2
    <2> DEFINE new == IF changed = InHand THEN changed ELSE Newer(changed)
    <2>1. /\ InHand \in Memcacheds /\ running /\ running' = running /\ finalized' = finalized
          /\ changed \in Memcacheds /\ changed.uid = InHand.uid
          /\ admitted /\ Stored = InHand /\ pc \in PCs \ {"idle"}
          /\ reconcile' = [reconcile EXCEPT !.memcached = new, !.pc = pc]
      <3>1. /\ InHand \in Memcacheds /\ running /\ changed \in Memcacheds
            /\ changed.uid = InHand.uid /\ Ends(changed, admitted, pc)
            /\ UNCHANGED <<running, finalized>>
        BY <1>16, UpdatesEnd
      <3>2. /\ admitted /\ Stored = InHand /\ pc \in PCs \ {"idle"}
            /\ reconcile' = [reconcile EXCEPT !.memcached = new, !.pc = pc]
        BY <3>1 DEF Ends
      <3> QED
        BY <3>1, <3>2
    <2>2. InHand' = new /\ reconcile'.pc = pc
      BY <1>1, <2>1 DEF InHand
    <2>3. /\ new \in Memcacheds /\ new # Absent
          /\ new.uid = changed.uid /\ new.deleting = changed.deleting
          /\ new.degraded = changed.degraded
      BY <2>1, ChangedTypes
    <2> HIDE DEF new
    <2>4. ~RemoveFinalizer
      BY RemovalEnds
    <2>5. CASE SetUnknown /\ pc = "refetchInit"
      BY <2>1, <2>2, <2>3, <2>5 DEF Deleting, InHand
    <2>6. CASE AddFinalizer /\ admitted = ~InHand.deleting /\ pc = AfterFinalizer(InHand)
      <3>1. pc = "find"
        BY <2>1, <2>6 DEF AfterFinalizer
      <3> QED
        BY <2>1, <2>2, <2>3, <3>1 DEF Deleting, InHand
    <2>7. CASE SetDegrading /\ changed = Degraded("Unknown") /\ pc = "operations"
      <3>1. Finalized(Stored) /\ Stored.deleting
        BY <1>1, <2>1, <2>7 DEF SetDegrading, Deleting
      <3>2. Finalized(Stored') /\ Stored'.uid = Stored.uid /\ Stored'.deleting
        BY <1>3, <2>4, <3>1
      <3> QED
        BY <2>1, <2>2, <2>3, <2>7, <3>2 DEF Deleting, InHand
    <2>8. CASE SetDegraded /\ changed = Degraded("True") /\ pc = "remove"
      <3>1. InHand.deleting /\ InHand.uid \in finalized
        BY <1>1, <2>1, <2>8 DEF SetDegraded, Deleting
      <3>2. changed.deleting = InHand.deleting /\ changed.degraded = "True"
        BY <2>1, <2>8 DEF Degraded, Memcacheds
      <3>3. new.deleting /\ new.uid \in finalized /\ new.degraded = "True"
        BY <2>1, <2>3, <3>1, <3>2
      <3> QED
        BY <2>1, <2>2, <2>3, <2>8, <3>3 DEF Deleting, InHand
    <2>9. pc \notin {"idle", "error"}
      BY <2>1 DEF PCs
    <2> QED
      BY <1>16, <2>5, <2>6, <2>7, <2>8, <2>9 DEF Updates
  <1> QED
    BY <1>5, <1>6, <1>7, <1>9, <1>11, <1>12, <1>13, <1>14, <1>15, <1>16, ReconcileCases DEF Next

-----------------------------------------------------------------------------
LEMMA NewerDeployment ==
  ASSUME NEW d \in Deployments
  PROVE  Newer(d) \in Deployments
  BY DEF Deployments, Newer

(* Every step is one of the informer of Deployments in its process.         *)
LEMMA DeploymentsStep ==
  ASSUME Inv, [Next]_vars
  PROVE  DepP!ProcessStep(running, running')
  <1>1. /\ running \in BOOLEAN /\ deployment[Mc] \in Deployments \cup {Absent}
        /\ InHand \in Known
        /\ reconcile \in [pc : PCs, memcached : Known, found : Deployments \cup {Absent}]
    BY MemcachedTypes DEF Inv, TypeOK, Dep!TypeOK, Dep!MaybeObject
  <1>2. ASSUME UNCHANGED <<deploymentVars, running>> PROVE DepP!ProcessStep(running, running')
    BY <1>2 DEF deploymentVars, DepP!vars, DepP!ProcessStep
  <1>3. ASSUME NEW obj \in Deployments \cup {Absent}, Dep!Write(Mc, obj, running), running' = running
        PROVE  DepP!ProcessStep(running, running')
    BY <1>1, <1>3, SameDeployments DEF DepP!MaybeObject, DepP!ProcessStep
  <1>4. CASE ScaleOrDeleteDeployment
    <2>1. PICK n \in Sizes \cup {0} :
            Dep!Write(Mc, IF n = 0 THEN Absent ELSE Newer([deployment[Mc] EXCEPT !.size = n]),
                      running)
      BY <1>4 DEF ScaleOrDeleteDeployment
    <2>2. deployment[Mc] \in Deployments
      BY <1>1, <1>4 DEF ScaleOrDeleteDeployment, Deployed
    <2>3. n # 0 => [deployment[Mc] EXCEPT !.size = n] \in Deployments
      BY <2>2 DEF Deployments
    <2>4. n # 0 => Newer([deployment[Mc] EXCEPT !.size = n]) \in Deployments
      BY <2>3, NewerDeployment
    <2> QED
      BY <1>3, <1>4, <2>1, <2>4 DEF ScaleOrDeleteDeployment, Others
  <1>5. CASE CollectDeployment
    BY <1>3, <1>5 DEF CollectDeployment, Others
  <1>6. CASE ReceiveDeployment
    BY <1>6, SameDeployments DEF ReceiveDeployment, DepP!ProcessStep
  <1>7. CASE ProcessEnds /\ running
    <2>1. Dep!Stop /\ running /\ ~running'
      BY <1>7 DEF ProcessEnds
    <2> QED
      BY <2>1, SameDeployments DEF DepP!ProcessStep
  <1>8. CASE Restart
    <2>1. Dep!Start /\ ~running /\ running'
      BY <1>8 DEF Restart
    <2> QED
      BY <2>1, SameDeployments DEF DepP!ProcessStep
  <1>9. ASSUME CreateDeployment \/ ResizeDeployment \/ ImagePanics
        PROVE  running /\ InHand \in Memcacheds
    BY <1>1, <1>9 DEF CreateDeployment, ResizeDeployment, ImagePanics, Inv, Deleting, At, Known
  <1>10. CASE CreateDeployment
    <2>1. [owner |-> InHand.uid, size |-> InHand.size, version |-> 1] \in Deployments
      BY <1>9, <1>10 DEF Memcacheds, Deployments
    <2> QED
      BY <1>2, <1>3, <1>9, <1>10, <2>1 DEF CreateDeployment, Call, Local
  <1>11. CASE ResizeDeployment
    <2>1. reconcile.found \in Deployments
      BY <1>1, <1>11 DEF ResizeDeployment, Inv, Found
    <2>2. [reconcile.found EXCEPT !.size = InHand.size] \in Deployments
      BY <1>9, <1>11, <2>1 DEF Memcacheds, Deployments
    <2>3. Newer([reconcile.found EXCEPT !.size = InHand.size]) \in Deployments
      BY <2>2, NewerDeployment
    <2> QED
      BY <1>2, <1>3, <1>9, <1>11, <2>3 DEF ResizeDeployment, Call, Local
  <1>12. ASSUME NEW changed, NEW admitted, NEW pc, Updates(changed, admitted, pc)
         PROVE  UNCHANGED <<deploymentVars, running>>
    BY <1>12, UpdatesEnd
  <1>13. CASE CreateMemcached \/ ChangeSize \/ DeleteMemcached \/ DependentsGone
              \/ ReceiveMemcached \/ DelayPasses \/ BeginReconcile \/ GetMemcached \/ Refetch
              \/ FinalizerOperations \/ FindDeployment \/ UNCHANGED vars
    BY <1>2, <1>13
       DEF CreateMemcached, ChangeSize, DeleteMemcached, DependentsGone, ReceiveMemcached,
           DelayPasses, BeginReconcile, GetMemcached, Refetch, FinalizerOperations,
           FindDeployment, Others, Quiet, Local, clusterVars, vars
  <1> QED
    BY <1>2, <1>4, <1>5, <1>6, <1>7, <1>8, <1>9, <1>10, <1>11, <1>12, <1>13, ReconcileCases
       DEF Next, Crash, ImagePanics

(* The types of all but the informers. *)
OwnTypes ==
  /\ requested \in BOOLEAN /\ delayed \in BOOLEAN
  /\ reconcile \in [pc : PCs, memcached : Known, found : Deployments \cup {Absent}]
  /\ running \in BOOLEAN
  /\ image \in Images
  /\ used \in [ops : 0..MaxOps, faults : 0..MaxFaults]
  /\ finalized \in SUBSET Uids
  /\ Found

LEMMA OwnTypesPreserved ==
  ASSUME Inv, [Next]_vars
  PROVE  OwnTypes'
  <1>1. /\ OwnTypes /\ MaxOps \in Nat /\ MaxFaults \in Nat
        /\ memcachedCache[Mc] \in Known
        /\ deploymentCache[Mc] \in Deployments \cup {Absent}
        /\ Absent \in Known
    BY MemcachedTypes, BoundsAssumption
       DEF Inv, TypeOK, OwnTypes, Dep!TypeOK, Dep!MaybeObject, Known
  <1>2. ASSUME UserOp \/ Fault \/ used' = used
        PROVE  used' \in [ops : 0..MaxOps, faults : 0..MaxFaults]
    BY <1>1, <1>2 DEF UserOp, Fault, OwnTypes
  <1>3. CASE UserOp /\ Others
    BY <1>1, <1>2, <1>3 DEF Others, queueVars, OwnTypes, Found, At
  <1>4. CASE used' = used /\ Others
    BY <1>1, <1>2, <1>4 DEF Others, queueVars, OwnTypes, Found, At
  <1>5. CASE CreateMemcached \/ ChangeSize \/ DeleteMemcached \/ ScaleOrDeleteDeployment
             \/ CollectDeployment \/ DependentsGone
    BY <1>3, <1>4, <1>5
       DEF CreateMemcached, ChangeSize, DeleteMemcached, ScaleOrDeleteDeployment,
           CollectDeployment, DependentsGone
  <1>6. CASE ReceiveMemcached \/ ReceiveDeployment \/ DelayPasses
    <2>1. requested' = TRUE /\ delayed' \in BOOLEAN
      BY <1>1, <1>6 DEF ReceiveMemcached, ReceiveDeployment, DelayPasses, OwnTypes
    <2>2. UNCHANGED <<reconcile, running, image, used, finalized>>
      BY <1>6 DEF ReceiveMemcached, ReceiveDeployment, DelayPasses
    <2> QED
      BY <1>1, <2>1, <2>2 DEF OwnTypes, Found, At
  <1>7. Idle \in [pc : PCs, memcached : Known, found : Deployments \cup {Absent}] /\ Idle.pc # "resize"
    BY <1>1 DEF Idle, PCs
  <1>8. CASE ProcessEnds /\ (UNCHANGED used \/ Fault)
    <2>1. requested' = FALSE /\ delayed' = FALSE /\ running' = FALSE
      BY <1>8 DEF ProcessEnds
    <2>2. reconcile' = Idle /\ UNCHANGED <<image, finalized>>
      BY <1>8 DEF ProcessEnds
    <2> QED
      BY <1>1, <1>2, <1>7, <1>8, <2>1, <2>2 DEF OwnTypes, Found, At
  <1>9. CASE Restart
    <2>1. requested' \in BOOLEAN /\ running' = TRUE
      BY <1>9 DEF Restart, Exists, Deployed
    <2>2. UNCHANGED <<delayed, reconcile, image, used, finalized>>
      BY <1>9 DEF Restart
    <2> QED
      BY <1>1, <2>1, <2>2 DEF OwnTypes, Found, At
  (* How Reconcile goes on: with a resource in hand, or not at all. *)
  <1> DEFINE Goes == \/ reconcile' = Idle
                     \/ \E m \in Known, pc \in PCs \ {"resize"} :
                          reconcile' = [reconcile EXCEPT !.memcached = m, !.pc = pc]
  <1>10. ASSUME Goes
         PROVE  /\ reconcile' \in [pc : PCs, memcached : Known, found : Deployments \cup {Absent}]
                /\ Found'
    <2>1. CASE reconcile' = Idle
      BY <1>7, <2>1 DEF Found, At
    <2>2. ASSUME NEW m \in Known, NEW pc \in PCs \ {"resize"},
                 reconcile' = [reconcile EXCEPT !.memcached = m, !.pc = pc]
          PROVE  /\ reconcile' \in [pc : PCs, memcached : Known, found : Deployments \cup {Absent}]
                 /\ Found'
      BY <1>1, <2>2 DEF OwnTypes, Found, At
    <2> QED
      BY <1>10, <2>1, <2>2
  <1>11. CASE BeginReconcile
    <2>1. Goes /\ UNCHANGED <<running, image, used, finalized, delayed>> /\ requested' = FALSE
      BY <1>1, <1>11 DEF BeginReconcile, Proceed, Local, PCs
    <2> QED
      BY <1>1, <1>10, <2>1 DEF OwnTypes
  <1>12. ASSUME Goes, UNCHANGED <<requested, running, image>>,
                delayed' = delayed \/ delayed' = TRUE,
                used' = used \/ Fault, finalized' \in SUBSET Uids
         PROVE  OwnTypes'
    <2>1. delayed' \in BOOLEAN
      BY <1>1, <1>12 DEF OwnTypes
    <2>2. requested' \in BOOLEAN /\ running' \in BOOLEAN /\ image' \in Images
      BY <1>1, <1>12 DEF OwnTypes
    <2> QED
      BY <1>2, <1>10, <1>12, <2>1, <2>2 DEF OwnTypes
  <1>13. finalized \in SUBSET Uids
    BY <1>1 DEF OwnTypes
  <1>14. ASSUME NEW m \in Known PROVE AfterInit(m) \in PCs \ {"resize"}
    BY DEF AfterInit, AfterFinalizer, PCs
  <1>15. CASE GetMemcached
    <2>1. Goes /\ (delayed' = delayed \/ delayed' = TRUE)
      <3>1. {"init"} \subseteq PCs \ {"resize"}
        BY DEF PCs
      <3> QED
        BY <1>1, <1>14, <1>15, <3>1 DEF GetMemcached, Return, Proceed
    <2> QED
      BY <1>12, <1>13, <1>15, <2>1 DEF GetMemcached, Quiet, Local
  <1>16. CASE Refetch
    <2>1. Goes /\ (delayed' = delayed \/ delayed' = TRUE)
      <3>1. {"degraded", "notResized"} \subseteq PCs \ {"resize"}
        BY DEF PCs
      <3> QED
        BY <1>1, <1>14, <1>16, <3>1 DEF Refetch, ReturnLater, Proceed
    <2> QED
      BY <1>12, <1>13, <1>16, <2>1 DEF Refetch, Quiet, Local
  <1>17. CASE FinalizerOperations
    <2>1. InHand \in Memcacheds
      BY <1>17, MemcachedTypes DEF FinalizerOperations, Inv, Deleting, At, Known
    <2>2. finalized' \in SUBSET Uids
      BY <1>13, <1>17, <2>1 DEF FinalizerOperations, Memcacheds
    <2>3. Goes /\ delayed' = delayed
      BY <1>17, <2>1 DEF FinalizerOperations, Proceed, Known, PCs
    <2> QED
      BY <1>12, <1>17, <2>2, <2>3 DEF FinalizerOperations, Local
  <1>18. CASE FindDeployment
    <2> DEFINE d == deploymentCache[Mc]
    <2>1. PICK pc \in {"noImage", "create", "resize", "available"} :
             /\ reconcile' = [reconcile EXCEPT !.found = d, !.pc = pc]
             /\ pc = "resize" => d # Absent
      BY <1>18 DEF FindDeployment
    <2>2. pc \in PCs
      BY DEF PCs
    <2>3. /\ reconcile' \in [pc : PCs, memcached : Known, found : Deployments \cup {Absent}]
          /\ Found'
      BY <1>1, <2>1, <2>2 DEF OwnTypes, Found, At
    <2>4. UNCHANGED <<requested, delayed, running, image, used, finalized>>
      BY <1>18 DEF FindDeployment, Quiet, Local
    <2> QED
      BY <1>1, <2>3, <2>4 DEF OwnTypes
  <1>19. CASE CreateDeployment \/ ResizeDeployment
    <2>1. InHand \in Known /\ "refetchResize" \in PCs \ {"resize"}
      BY MemcachedTypes DEF PCs
    <2>2. Goes /\ (delayed' = delayed \/ delayed' = TRUE) /\ (used' = used \/ Fault)
      BY <1>19, <2>1 DEF CreateDeployment, ResizeDeployment, Call, ReturnLater, Proceed
    <2>3. UNCHANGED <<requested, running, image, finalized>>
      BY <1>19 DEF CreateDeployment, ResizeDeployment, Call, Local
    <2> QED
      BY <1>12, <1>13, <2>2, <2>3
  <1>20. ASSUME NEW changed, NEW admitted, NEW pc, Updates(changed, admitted, pc)
         PROVE  OwnTypes'
    <2>1. /\ changed \in Memcacheds /\ Ends(changed, admitted, pc)
          /\ UNCHANGED <<requested, running, image, finalized>> /\ (used' = used \/ Fault)
      BY <1>20, UpdatesEnd
    <2>2. pc # "resize"
      BY <1>20 DEF Updates, AfterFinalizer
    <2>3. Newer(changed) \in Known /\ changed \in Known
      BY <2>1, ChangedTypes DEF Known
    <2>4. Goes
      BY <2>1, <2>2, <2>3 DEF Ends
    <2>5. delayed' = delayed \/ delayed' = TRUE
      BY <1>20 DEF Updates, SetUnknown, AddFinalizer, SetDegrading, SetDegraded, RemoveFinalizer,
                   SetNoImage, SetNotResized, SetAvailable, Update, Call, Return, ReturnLater,
                   Proceed
    <2> QED
      BY <1>12, <1>13, <2>1, <2>4, <2>5
  <1>21. CASE UNCHANGED vars
    BY <1>1, <1>21 DEF vars, queueVars, OwnTypes, Found, At
  <1> QED
    BY <1>5, <1>6, <1>8, <1>9, <1>11, <1>15, <1>16, <1>17, <1>18, <1>19, <1>20, <1>21,
       ReconcileCases DEF Next, Crash, ImagePanics

-----------------------------------------------------------------------------
LEMMA InformersPreserved ==
  ASSUME Inv, [Next]_vars
  PROVE  /\ McP!TypeOK' /\ DepP!TypeOK'
         /\ running' => McP!CacheCatchesUp' /\ DepP!CacheCatchesUp'
         /\ ~running' => memcachedWatch' = McP!Empty /\ deploymentWatch' = DepP!Empty
  <1>1. McP!ProcessStep(running, running') /\ DepP!ProcessStep(running, running')
    BY EveryStepMoves, MemcachedsStep, DeploymentsStep
  <1>2. McP!Agrees(running) /\ DepP!Agrees(running) /\ running \in BOOLEAN /\ running' \in BOOLEAN
    BY OwnTypesPreserved DEF Inv, TypeOK, OwnTypes
  <1>3. /\ McP!TypeOK'
        /\ running' => McP!CacheCatchesUp'
        /\ ~running' => memcachedWatch' = McP!Empty
    BY <1>1, <1>2, McP!AgreesPreserved, AbsentAssumption
  <1>4. /\ DepP!TypeOK'
        /\ running' => DepP!CacheCatchesUp'
        /\ ~running' => deploymentWatch' = DepP!Empty
    BY <1>1, <1>2, DepP!AgreesPreserved, AbsentAssumption
  <1> QED
    BY <1>3, <1>4

LEMMA SameTypesAfter ==
  /\ McP!TypeOK' => MC!TypeOK'
  /\ DepP!TypeOK' => Dep!TypeOK'
  BY SameMemcacheds, SameDeployments, PTL

LEMMA InvPreserved ==
  ASSUME Inv, [Next]_vars
  PROVE  Inv'
  <1>1. /\ McP!TypeOK' /\ DepP!TypeOK'
        /\ running' => McP!CacheCatchesUp' /\ DepP!CacheCatchesUp'
        /\ ~running' => memcachedWatch' = McP!Empty /\ deploymentWatch' = DepP!Empty
    BY InformersPreserved
  <1>2. OwnTypes'
    BY OwnTypesPreserved
  <1>3. TypeOK'
    BY <1>1, <1>2, SameTypesAfter DEF TypeOK, OwnTypes, Known
  <1>4. McP!Agrees(running)' /\ DepP!Agrees(running)'
    BY <1>1 DEF McP!Agrees, DepP!Agrees
  <1> QED
    BY <1>2, <1>3, <1>4, VersionsPreserved, DeletingPreserved DEF Inv, OwnTypes

LEMMA InitInv == Init => Inv
  <1> SUFFICES ASSUME Init PROVE Inv
    OBVIOUS
  <1>1. McP!TypeOK /\ McP!CacheCatchesUp /\ DepP!TypeOK /\ DepP!CacheCatchesUp
    BY SameMemcacheds, SameDeployments, McP!InitInv, DepP!InitInv, AbsentAssumption DEF Init
  <1>2. McP!Agrees(running) /\ DepP!Agrees(running)
    BY <1>1 DEF Init, McP!Agrees, DepP!Agrees
  <1>3. Idle \in [pc : PCs, memcached : Known, found : Deployments \cup {Absent}]
    BY DEF Idle, PCs, Known
  <1>4. used \in [ops : 0..MaxOps, faults : 0..MaxFaults]
    BY BoundsAssumption DEF Init
  <1>5. TypeOK
    BY <1>1, <1>3, <1>4, SameMemcacheds, SameDeployments DEF Init, TypeOK, Known
  <1>6. Stored = Absent /\ memcachedCache[Mc] = Absent /\ memcachedWatch[Mc] = << >> /\ InHand = Absent
    BY DEF Init, MC!Init, MC!Empty, Stored, InHand, Idle
  <1>7. Versions
    <2>1. 1..Len(memcachedWatch[Mc]) = {}
      BY <1>6, EmptySeq
    <2> QED
      BY <1>6, <2>1 DEF Versions, IsPast
  <1>8. Deleting /\ Found
    BY <1>6 DEF Init, Idle, Deleting, Found, At
  <1> QED
    BY <1>2, <1>5, <1>7, <1>8 DEF Inv

THEOREM Invariant == Spec => []Inv
  BY InitInv, InvPreserved, PTL DEF Spec

-----------------------------------------------------------------------------
(* The types of the operator and of its resource, for any sizes, images and *)
(* bounds: a Deployment that is resized was found, every update writes a    *)
(* resource.                                                                *)
THEOREM TypeCorrect == Spec => []TypeOK
  <1>1. Inv => TypeOK
    BY DEF Inv
  <1> QED
    BY <1>1, Invariant, PTL

(* However stale what Reconcile reads, and whatever calls fail or take      *)
(* effect unnoticed: the finalizer comes off a resource that is being       *)
(* deleted, after the operations for its uid and after its status said so   *)
(* (memcached_controller.go 139-191).                                       *)
THEOREM OperationsBeforeRemoval == Spec => FinalizerRemovedLast
  <1> DEFINE m == memcached[Mc]
             n == memcached'[Mc]
             Last == (m # Absent /\ "memcached" \in m.finalizers /\ (n # Absent => "memcached" \notin n.finalizers))
                        => m.deleting /\ m.uid \in finalized /\ m.degraded = "True"
  <1>1. ASSUME Inv, [Next]_vars PROVE Last
    <2> SUFFICES ASSUME Finalized(Stored), ~Finalized(Stored')
                 PROVE  Stored.deleting /\ Stored.uid \in finalized /\ Stored.degraded = "True"
      BY DEF Stored, Finalized
    <2>1. RemoveFinalizer
      BY <1>1, FinalizerStays
    <2>2. Updates([InHand EXCEPT !.finalizers = @ \ {"memcached"}], TRUE, "idle")
      BY <2>1 DEF Updates
    <2>3. Ends([InHand EXCEPT !.finalizers = @ \ {"memcached"}], TRUE, "idle")
      BY <1>1, <2>2, UpdatesEnd
    <2>4. Stored = InHand
      BY <2>3 DEF Ends, memcachedVars, Stored
    <2>5. InHand.deleting /\ InHand.uid \in finalized /\ InHand.degraded = "True"
      BY <1>1, <2>1 DEF RemoveFinalizer, Inv, Deleting
    <2> QED
      BY <2>4, <2>5
  <1>2. Inv /\ [Next]_vars => [Last]_vars
    BY <1>1
  <1> HIDE DEF Last
  <1>3. Spec => [][Last]_vars
    BY <1>2, Invariant, PTL DEF Spec
  <1> QED
    BY <1>3 DEF FinalizerRemovedLast, Last

-----------------------------------------------------------------------------
(* Nothing asks for another Reconcile: no request, no event on its way.     *)
Undisturbed ==
  /\ running /\ ~requested /\ ~delayed
  /\ memcachedWatch[Mc] = << >> /\ deploymentWatch[Mc] = << >>

(* Without an image no Deployment is ever created. *)
NeverDeployed ==
  image = "none" => deployment[Mc] = Absent /\ deploymentWatch[Mc] = << >> /\ ~At("create")

(* A Reconcile that is not disturbed has what is stored in hand, and comes  *)
(* to its end with the finalizer on it and the Deployment as it shall be.   *)
Resting ==
  /\ AtRestMeansReconciled
  /\ Undisturbed /\ ~At("idle") /\ ~At("get") => InHand = Stored
  /\ Undisturbed /\ At("available") => Deployed /\ deployment[Mc].size = InHand.size
  /\ At("find") \/ At("available") => Finalized(InHand)
  /\ NeverDeployed

LEMMA AppendedIsNotEmpty ==
  ASSUME NEW S, NEW s \in Seq(S), NEW e
  PROVE  Append(s, e) # << >>
  <1>1. s \in Seq(S \cup {e})
    BY ElementOfSeq, LenProperties
  <1>2. Len(Append(s, e)) = Len(s) + 1 /\ Len(s) \in Nat /\ Append(s, e) \in Seq(S \cup {e})
    BY <1>1, AppendProperties, LenProperties
  <1> QED
    BY <1>2, EmptySeq

(* A write reaches a running process as an event. *)
LEMMA WriteDisturbs ==
  ASSUME Inv, NEW obj
  PROVE  /\ MC!Write(Mc, obj, TRUE) => memcachedWatch'[Mc] # << >>
         /\ Dep!Write(Mc, obj, TRUE) => deploymentWatch'[Mc] # << >>
  <1>1. memcachedWatch \in [{Mc} -> Seq(MC!Events)] /\ deploymentWatch \in [{Mc} -> Seq(Dep!Events)]
    BY DEF Inv, TypeOK, MC!TypeOK, Dep!TypeOK
  <1>2. MC!Write(Mc, obj, TRUE) => memcachedWatch'[Mc] = Append(memcachedWatch[Mc], MC!Event(obj))
    BY <1>1 DEF MC!Write
  <1>3. Dep!Write(Mc, obj, TRUE) => deploymentWatch'[Mc] = Append(deploymentWatch[Mc], Dep!Event(obj))
    BY <1>1 DEF Dep!Write
  <1> QED
    BY <1>1, <1>2, <1>3, AppendedIsNotEmpty

(* What Reconcile reads while it is not disturbed is what is stored. *)
LEMMA ReadsAreFresh ==
  ASSUME Inv, Undisturbed
  PROVE  memcachedCache[Mc] = Stored /\ deploymentCache[Mc] = deployment[Mc]
  <1>1. McP!CacheCatchesUp /\ DepP!CacheCatchesUp
    BY DEF Inv, Undisturbed, McP!Agrees, DepP!Agrees
  <1>2. Len(memcachedWatch[Mc]) = 0 /\ Len(deploymentWatch[Mc]) = 0
    BY EmptySeq DEF Undisturbed
  <1> QED
    BY <1>1, <1>2 DEF McP!CacheCatchesUp, DepP!CacheCatchesUp, Stored

(* An update without disturbance changed nothing and met what is stored. *)
LEMMA UndisturbedUpdate ==
  ASSUME Inv, NEW changed, NEW admitted, NEW pc, Updates(changed, admitted, pc), Undisturbed'
  PROVE  /\ UNCHANGED <<clusterVars, queueVars, running, image>>
         /\ changed = InHand /\ Stored = InHand /\ admitted
         /\ \/ pc = "idle" /\ reconcile' = Idle
            \/ pc \in PCs \ {"idle"}
               /\ reconcile' = [reconcile EXCEPT !.memcached = InHand, !.pc = pc]
  <1>1. /\ InHand \in Memcacheds /\ running /\ pc \in PCs \cup {"error"}
        /\ UNCHANGED <<deploymentVars, requested, running, image>>
    BY UpdatesEnd
  <1>2. Update(changed, admitted, pc)
    BY DEF Updates, SetUnknown, AddFinalizer, SetDegrading, SetDegraded, RemoveFinalizer,
           SetNoImage, SetNotResized, SetAvailable
  <1>3. ~ReturnLater /\ \A obj : ~MC!Write(Mc, obj, TRUE)
    BY WriteDisturbs DEF Undisturbed, ReturnLater
  <1> DEFINE fresh == Exists /\ memcached[Mc].uid = InHand.uid /\ memcached[Mc].version = InHand.version
  <1>4. /\ fresh /\ admitted /\ changed = InHand /\ UNCHANGED memcachedVars
        /\ IF pc = "idle" THEN Return ELSE pc # "error" /\ Proceed(InHand, pc)
    BY <1>2, <1>3 DEF Update, Call
  <1>5. Stored = InHand
    BY <1>1, <1>4, MemcachedTypes, AbsentAssumption DEF Inv, Versions, IsPast, Exists, Stored
  <1> QED
    BY <1>1, <1>4, <1>5 DEF Return, Proceed, clusterVars, queueVars

(* Undisturbed is a state after a restart with nothing to reconcile, after  *)
(* the begin of Reconcile, or after a step of it that wrote nothing.        *)
LEMMA HowUndisturbed ==
  ASSUME Inv, [Next]_vars, Undisturbed'
  PROVE  \/ At("idle") /\ UNCHANGED <<reconcile, image>> /\ memcached'[Mc] = Absent
         \/ BeginReconcile
         \/ /\ Undisturbed /\ UNCHANGED <<clusterVars, queueVars, running, image>>
            /\ Reconcile \/ UNCHANGED vars
  <1>1. \A obj : ~MC!Write(Mc, obj, TRUE) /\ ~Dep!Write(Mc, obj, TRUE)
    BY WriteDisturbs DEF Undisturbed
  <1>2. running' = TRUE /\ requested' = FALSE /\ delayed' = FALSE
        /\ running \in BOOLEAN /\ requested \in BOOLEAN /\ delayed \in BOOLEAN
    BY OwnTypesPreserved DEF Undisturbed, OwnTypes, Inv, TypeOK
  <1>3. ~(CreateMemcached \/ ChangeSize \/ DeleteMemcached \/ ScaleOrDeleteDeployment
             \/ CollectDeployment \/ DependentsGone)
    BY <1>1, <1>2
       DEF CreateMemcached, ChangeSize, DeleteMemcached, ScaleOrDeleteDeployment,
           CollectDeployment, DependentsGone, Others
  <1>4. ~(ReceiveMemcached \/ ReceiveDeployment \/ DelayPasses \/ Crash \/ ImagePanics)
    BY <1>2 DEF ReceiveMemcached, ReceiveDeployment, DelayPasses, Crash, ImagePanics, ProcessEnds
  <1>5. CASE Restart
    <2>1. ~Exists /\ UNCHANGED <<reconcile, image, memcached>>
      BY <1>2, <1>5 DEF Restart, MC!Start
    <2>2. At("idle")
      BY <1>5 DEF Restart, Inv, Deleting
    <2> QED
      BY <2>1, <2>2 DEF Exists
  <1>6. ASSUME UNCHANGED <<clusterVars, queueVars, running, image>> PROVE Undisturbed
    BY <1>6 DEF Undisturbed, clusterVars, memcachedVars, deploymentVars, queueVars
  <1>7. CASE Reconcile
    <2>1. ASSUME GetMemcached \/ Refetch \/ FinalizerOperations \/ FindDeployment
          PROVE  UNCHANGED <<clusterVars, queueVars, running, image>>
      BY <1>2, <2>1
         DEF GetMemcached, Refetch, FinalizerOperations, FindDeployment, Return, ReturnLater,
             Proceed, Quiet, Local, clusterVars, queueVars
    <2>2. ASSUME CreateDeployment \/ ResizeDeployment
          PROVE  UNCHANGED <<clusterVars, queueVars, running, image>>
      BY <1>1, <1>2, <2>2
         DEF CreateDeployment, ResizeDeployment, Call, ReturnLater, Proceed, Local, clusterVars,
             queueVars
    <2>3. ASSUME NEW changed, NEW admitted, NEW pc, Updates(changed, admitted, pc)
          PROVE  UNCHANGED <<clusterVars, queueVars, running, image>>
      BY <2>3, UndisturbedUpdate
    <2> QED
      BY <1>4, <1>6, <1>7, <2>1, <2>2, <2>3, ReconcileCases
  <1>8. CASE UNCHANGED vars
    BY <1>6, <1>8 DEF vars
  <1> QED
    BY <1>3, <1>4, <1>5, <1>7, <1>8 DEF Next

LEMMA NeverDeployedPreserved ==
  ASSUME Inv, NeverDeployed, [Next]_vars
  PROVE  NeverDeployed'
  <1>1. image' = image
    BY UpdatesEnd, ReconcileCases
       DEF Next, CreateMemcached, ChangeSize, DeleteMemcached, ScaleOrDeleteDeployment,
           CollectDeployment, DependentsGone, Others, ReceiveMemcached, ReceiveDeployment,
           DelayPasses, BeginReconcile, Crash, ImagePanics, ProcessEnds, Restart, GetMemcached,
           Refetch, FinalizerOperations, FindDeployment, CreateDeployment, ResizeDeployment,
           Quiet, Local, vars
  <1> SUFFICES ASSUME image = "none", deployment[Mc] = Absent, deploymentWatch[Mc] = << >>,
                      ~At("create")
               PROVE  deployment'[Mc] = Absent /\ deploymentWatch'[Mc] = << >> /\ ~At("create")'
    BY <1>1 DEF NeverDeployed
  <1>2. reconcile \in [pc : PCs, memcached : Known, found : Deployments \cup {Absent}]
    BY MemcachedTypes
  <1>3. ~(ScaleOrDeleteDeployment \/ CollectDeployment \/ ReceiveDeployment \/ CreateDeployment)
    BY DEF ScaleOrDeleteDeployment, CollectDeployment, Deployed, ReceiveDeployment, Dep!Receive,
           CreateDeployment
  <1>4. Idle.pc # "create"
    BY DEF Idle
  <1>5. ASSUME UNCHANGED <<deploymentVars, reconcile>>
        PROVE  deployment'[Mc] = Absent /\ deploymentWatch'[Mc] = << >> /\ ~At("create")'
    BY <1>5 DEF deploymentVars, At
  <1>6. CASE CreateMemcached \/ ChangeSize \/ DeleteMemcached \/ DependentsGone
             \/ ReceiveMemcached \/ DelayPasses \/ UNCHANGED vars
    BY <1>5, <1>6
       DEF CreateMemcached, ChangeSize, DeleteMemcached, DependentsGone, Others,
           ReceiveMemcached, DelayPasses, clusterVars, vars
  <1>7. CASE Crash \/ ImagePanics
    BY <1>4, <1>7 DEF Crash, ImagePanics, ProcessEnds, Dep!Stop, Dep!Empty, At
  <1>8. CASE Restart
    BY <1>8 DEF Restart, Dep!Start, At
  <1>9. ASSUME UNCHANGED deploymentVars,
               \/ reconcile' = Idle
               \/ \E m, pc : pc # "create"
                               /\ reconcile' = [reconcile EXCEPT !.memcached = m, !.pc = pc]
        PROVE  deployment'[Mc] = Absent /\ deploymentWatch'[Mc] = << >> /\ ~At("create")'
    BY <1>2, <1>4, <1>9 DEF deploymentVars, At
  <1>10. \A m : AfterInit(m) # "create"
    BY DEF AfterInit, AfterFinalizer
  <1>11. CASE BeginReconcile \/ GetMemcached \/ Refetch \/ FinalizerOperations
    BY <1>9, <1>10, <1>11
       DEF BeginReconcile, GetMemcached, Refetch, FinalizerOperations, Return, ReturnLater,
           Proceed, Quiet, clusterVars
  <1>12. CASE FindDeployment
    <2>1. running
      BY <1>12 DEF FindDeployment, Inv, Deleting, At
    <2>2. deploymentCache[Mc] = Absent
      <3>1. DepP!CacheCatchesUp
        BY <2>1 DEF Inv, DepP!Agrees
      <3>2. Len(deploymentWatch[Mc]) = 0
        BY EmptySeq
      <3> QED
        BY <3>1, <3>2 DEF DepP!CacheCatchesUp
    <2>3. reconcile' = [reconcile EXCEPT !.found = Absent, !.pc = "noImage"]
      BY <1>12, <2>2 DEF FindDeployment
    <2> QED
      BY <1>2, <1>12, <2>3 DEF FindDeployment, Quiet, clusterVars, deploymentVars, At
  <1>13. CASE ResizeDeployment
    BY <1>9, <1>13 DEF ResizeDeployment, Call, Deployed, ReturnLater, Proceed
  <1>14. ASSUME NEW changed, NEW admitted, NEW pc, Updates(changed, admitted, pc)
         PROVE  deployment'[Mc] = Absent /\ deploymentWatch'[Mc] = << >> /\ ~At("create")'
    <2>1. Ends(changed, admitted, pc) /\ UNCHANGED deploymentVars
      BY <1>14, UpdatesEnd
    <2>2. pc # "create"
      BY <1>14 DEF Updates, AfterFinalizer
    <2> QED
      BY <1>9, <2>1, <2>2 DEF Ends
  <1> QED
    BY <1>3, <1>6, <1>7, <1>8, <1>11, <1>12, <1>13, <1>14, ReconcileCases DEF Next

(* Whoever looks for the Deployment has put the finalizer on. *)
LEMMA FinalizedBeforeFind ==
  ASSUME Inv, At("find") \/ At("available") => Finalized(InHand), [Next]_vars
  PROVE  (At("find") \/ At("available") => Finalized(InHand))'
  <1> DEFINE Goal == reconcile'.pc \in {"find", "available"} => Finalized(reconcile'.memcached)
  <1> SUFFICES Goal
    BY DEF At, InHand, Finalized
  <1>1. reconcile \in [pc : PCs, memcached : Known, found : Deployments \cup {Absent}]
    BY MemcachedTypes
  <1>2. CASE UNCHANGED reconcile \/ reconcile' = Idle
    BY <1>2 DEF InHand, Idle, Finalized, At
  <1>3. CASE CreateMemcached \/ ChangeSize \/ DeleteMemcached \/ ScaleOrDeleteDeployment
             \/ CollectDeployment \/ DependentsGone \/ ReceiveMemcached \/ ReceiveDeployment
             \/ DelayPasses \/ Crash \/ ImagePanics \/ Restart \/ UNCHANGED vars
    BY <1>2, <1>3
       DEF CreateMemcached, ChangeSize, DeleteMemcached, ScaleOrDeleteDeployment,
           CollectDeployment, DependentsGone, ReceiveMemcached, ReceiveDeployment,
           DelayPasses, Crash, ImagePanics, ProcessEnds, Restart, Others, vars
  <1>4. ASSUME NEW m, NEW pc, pc \in {"find", "available"} => Finalized(m),
               reconcile' = [reconcile EXCEPT !.memcached = m, !.pc = pc]
        PROVE  Goal
    BY <1>1, <1>4
  <1> HIDE DEF Goal
  <1>5. CASE BeginReconcile \/ FinalizerOperations
    <2>1. \E m : \E pc \in {"get", "refetchDegraded"} :
             reconcile' = [reconcile EXCEPT !.memcached = m, !.pc = pc]
      BY <1>5 DEF BeginReconcile, FinalizerOperations, Proceed
    <2> QED
      BY <1>4, <2>1
  <1>6. \A m : m # Absent /\ AfterInit(m) \in {"find", "available"} => Finalized(m)
    BY DEF AfterInit, AfterFinalizer, Finalized
  <1>7. CASE GetMemcached \/ Refetch
    <2> DEFINE m == memcachedCache[Mc]
    <2>1. \/ reconcile' = Idle
          \/ m # Absent /\ \E pc \in {"init", "degraded", "notResized", AfterInit(m)} :
               reconcile' = [reconcile EXCEPT !.memcached = m, !.pc = pc]
      BY <1>7 DEF GetMemcached, Refetch, Return, ReturnLater, Proceed
    <2> HIDE DEF m
    <2> QED
      BY <1>2, <1>4, <1>6, <2>1
  <1>8. CASE FindDeployment
    BY <1>1, <1>8 DEF FindDeployment, At, InHand, Goal
  <1>9. CASE CreateDeployment \/ ResizeDeployment
    <2>1. ReturnLater \/ Proceed(InHand, "refetchResize")
      BY <1>9 DEF CreateDeployment, ResizeDeployment, Call
    <2>2. CASE ReturnLater
      BY <1>2, <2>2 DEF ReturnLater
    <2>3. CASE Proceed(InHand, "refetchResize")
      <3>1. \E m : \E pc \in {"refetchResize"} :
               reconcile' = [reconcile EXCEPT !.memcached = m, !.pc = pc]
        BY <2>3 DEF Proceed
      <3> QED
        BY <1>4, <3>1
    <2> QED
      BY <2>1, <2>2, <2>3
  <1>10. ASSUME NEW changed, NEW admitted, NEW pc, Updates(changed, admitted, pc)
         PROVE  Goal
    <2>1. InHand \in Memcacheds /\ changed \in Memcacheds /\ Ends(changed, admitted, pc)
      BY <1>10, UpdatesEnd
    <2>2. CASE reconcile' = Idle
      BY <1>2, <2>2
    <2>3. ASSUME NEW stored \in {changed, Newer(changed)},
                 reconcile' = [reconcile EXCEPT !.memcached = stored, !.pc = pc], pc \in PCs \ {"idle"}
          PROVE  Goal
      <3>1. stored # Absent /\ stored.finalizers = changed.finalizers
        BY <2>1, ChangedTypes
      <3>2. pc \in {"find", "available"} => "memcached" \in changed.finalizers
        BY <1>10, <2>1, <2>3 DEF Updates, AfterFinalizer, Memcacheds
      <3> QED
        BY <1>4, <2>3, <3>1, <3>2 DEF Finalized
    <2> QED
      BY <2>1, <2>2, <2>3 DEF Ends
  <1> QED
    BY <1>3, <1>5, <1>7, <1>8, <1>9, <1>10, ReconcileCases DEF Next

LEMMA RestingPreserved ==
  ASSUME Inv, Resting, [Next]_vars
  PROVE  Resting'
  <1>1. NeverDeployed' /\ (At("find") \/ At("available") => Finalized(InHand))'
    BY NeverDeployedPreserved, FinalizedBeforeFind DEF Resting
  <1> DEFINE HandIsStored    == ~At("idle") /\ ~At("get") => InHand = Stored
             DeploymentFits  == At("available") => Deployed /\ deployment[Mc].size = InHand.size
             Settled         == At("idle") /\ Exists /\ ~memcached[Mc].deleting =>
                                  /\ "memcached" \in memcached[Mc].finalizers
                                  /\ Reconciled(memcached[Mc], deployment[Mc])
  <1>2. ASSUME Undisturbed' => HandIsStored' /\ DeploymentFits' /\ Settled'
        PROVE  Resting'
    BY <1>1, <1>2 DEF Resting, AtRestMeansReconciled, AtRest, Undisturbed
  <1>3. Undisturbed => HandIsStored /\ DeploymentFits /\ Settled
    BY DEF Resting, AtRestMeansReconciled, AtRest, Undisturbed
  <1> SUFFICES ASSUME Undisturbed'
               PROVE  HandIsStored' /\ DeploymentFits' /\ Settled'
    BY <1>2
  <1>4. reconcile \in [pc : PCs, memcached : Known, found : Deployments \cup {Absent}]
    BY MemcachedTypes
  <1>5. CASE At("idle") /\ UNCHANGED <<reconcile, image>> /\ memcached'[Mc] = Absent
    BY <1>5 DEF At, Exists
  <1>6. CASE BeginReconcile
    <2>1. reconcile'.pc = "get"
      BY <1>4, <1>6 DEF BeginReconcile, Proceed
    <2> QED
      BY <2>1 DEF At
  <1> SUFFICES ASSUME Undisturbed, UNCHANGED <<clusterVars, queueVars, running, image>>,
                      Reconcile \/ UNCHANGED vars
               PROVE  HandIsStored' /\ DeploymentFits' /\ Settled'
    BY <1>5, <1>6, HowUndisturbed
  <1>7. /\ memcached' = memcached /\ deployment' = deployment /\ Stored' = Stored
        /\ image' = image /\ delayed' = FALSE /\ running'
    BY DEF clusterVars, memcachedVars, deploymentVars, Stored, Undisturbed
  (* What is left to show, by where Reconcile is after the step. *)
  <1>8. ASSUME reconcile'.pc # "idle", reconcile'.pc # "get" => reconcile'.memcached = Stored,
               reconcile'.pc = "available" =>
                 Deployed /\ deployment[Mc].size = reconcile'.memcached.size
        PROVE  HandIsStored' /\ DeploymentFits' /\ Settled'
    BY <1>7, <1>8 DEF At, InHand, Deployed
  <1>9. ASSUME reconcile'.pc = "idle",
               Exists /\ ~memcached[Mc].deleting =>
                 /\ "memcached" \in memcached[Mc].finalizers
                 /\ Reconciled(memcached[Mc], deployment[Mc])
        PROVE  HandIsStored' /\ DeploymentFits' /\ Settled'
    BY <1>7, <1>9 DEF At, Exists, Reconciled
  <1>10. memcachedCache[Mc] = Stored /\ deploymentCache[Mc] = deployment[Mc]
    BY ReadsAreFresh
  <1>11. ~ReturnLater
    BY <1>7 DEF ReturnLater
  <1>12. Idle.pc = "idle"
    BY DEF Idle
  <1> HIDE DEF HandIsStored, DeploymentFits, Settled
  <1>13. CASE UNCHANGED vars
    BY <1>3, <1>7, <1>13 DEF vars, HandIsStored, DeploymentFits, Settled, At, InHand, Exists, Reconciled,
                             Deployed
  <1>14. ASSUME NEW pc, pc \notin {"idle", "available"},
                reconcile' = [reconcile EXCEPT !.memcached = Stored, !.pc = pc]
         PROVE  HandIsStored' /\ DeploymentFits' /\ Settled'
    BY <1>4, <1>8, <1>14
  <1>15. CASE GetMemcached
    <2>1. \/ Stored = Absent /\ reconcile' = Idle
          \/ \E pc \in {"init", AfterInit(Stored)} :
               reconcile' = [reconcile EXCEPT !.memcached = Stored, !.pc = pc]
      BY <1>10, <1>15 DEF GetMemcached, Return, Proceed
    <2>2. AfterInit(Stored) \in {"finalizer", "degrade", "find"}
      BY DEF AfterInit, AfterFinalizer
    <2>3. CASE Stored = Absent /\ reconcile' = Idle
      BY <1>9, <1>12, <2>3 DEF Exists, Stored
    <2> QED
      BY <1>14, <2>1, <2>2, <2>3
  <1>16. CASE Refetch
    <2>1. \E pc \in {"degraded", "notResized", AfterInit(Stored)} :
            reconcile' = [reconcile EXCEPT !.memcached = Stored, !.pc = pc]
      BY <1>10, <1>11, <1>16 DEF Refetch, Proceed
    <2>2. AfterInit(Stored) \in {"finalizer", "degrade", "find"}
      BY DEF AfterInit, AfterFinalizer
    <2> QED
      BY <1>14, <2>1, <2>2
  <1>17. ASSUME reconcile.pc \notin {"idle", "get"} PROVE reconcile.memcached = Stored
    BY <1>3, <1>17 DEF HandIsStored, At, InHand
  <1>18. CASE FinalizerOperations
    <2>1. \E pc \in {"refetchDegraded"} : reconcile' = [reconcile EXCEPT !.memcached = Stored, !.pc = pc]
      BY <1>17, <1>18 DEF FinalizerOperations, At, InHand, Proceed
    <2> QED
      BY <1>14, <2>1
  <1>19. CASE FindDeployment
    <2> DEFINE d == deployment[Mc]
    <2>1. /\ reconcile.memcached = Stored /\ InHand = Stored
          /\ \E pc \in {"noImage", "create", "resize", "available"} :
               /\ reconcile' = [reconcile EXCEPT !.found = d, !.pc = pc]
               /\ pc = "available" => d # Absent /\ d.size = Stored.size
      BY <1>10, <1>17, <1>19 DEF FindDeployment, At, InHand
    <2>2. /\ reconcile'.pc \in {"noImage", "create", "resize", "available"}
          /\ reconcile'.memcached = Stored
          /\ reconcile'.pc = "available" => d # Absent /\ d.size = Stored.size
      BY <1>4, <2>1
    <2> QED
      BY <1>8, <2>2 DEF Deployed
  <1>20. ~CreateDeployment /\ ~ImagePanics
    BY <1>7, <1>11 DEF CreateDeployment, Call, ImagePanics, ProcessEnds
  <1>21. CASE ResizeDeployment
    <2>1. \E pc \in {"refetchResize"} : reconcile' = [reconcile EXCEPT !.memcached = Stored, !.pc = pc]
      BY <1>11, <1>17, <1>21 DEF ResizeDeployment, Call, Proceed, At, InHand
    <2> QED
      BY <1>14, <2>1
  <1>22. ASSUME NEW changed, NEW admitted, NEW pc, Updates(changed, admitted, pc)
         PROVE  HandIsStored' /\ DeploymentFits' /\ Settled'
    <2>1. /\ changed = InHand /\ Stored = InHand /\ InHand \in Memcacheds
          /\ \/ pc = "idle" /\ reconcile' = Idle
             \/ pc \in PCs \ {"idle"}
                /\ reconcile' = [reconcile EXCEPT !.memcached = InHand, !.pc = pc]
      BY <1>22, UndisturbedUpdate, UpdatesEnd
    <2>2. pc # "available"
      BY <1>22 DEF Updates, AfterFinalizer
    <2>3. CASE pc # "idle"
      BY <1>14, <2>1, <2>2, <2>3
    <2>4. CASE RemoveFinalizer
      BY <1>9, <1>12, <2>1, <2>4, RemovalEnds DEF Inv, Deleting, Stored
    <2>5. CASE SetAvailable /\ changed = Available("True", InHand.size) /\ pc = "idle"
      <3>1. At("available") /\ Finalized(InHand)
        BY <2>5 DEF SetAvailable, Resting
      <3>2. Deployed /\ deployment[Mc].size = InHand.size
        BY <1>3, <3>1 DEF DeploymentFits
      <3>3. InHand.available = "True" /\ InHand.replicas = InHand.size
        BY <2>1, <2>5 DEF Available, Memcacheds
      <3>4. image # "none"
        BY <3>2 DEF Resting, NeverDeployed, Deployed
      <3>5. "memcached" \in Stored.finalizers /\ Reconciled(Stored, deployment[Mc])
        BY <2>1, <3>1, <3>2, <3>3, <3>4 DEF Finalized, Reconciled, Deployed
      <3> QED
        BY <1>9, <1>12, <2>1, <2>5, <3>5 DEF Stored
    <2>6. AfterFinalizer(InHand) # "idle"
      BY DEF AfterFinalizer
    <2> QED
      BY <1>22, <2>3, <2>4, <2>5, <2>6 DEF Updates
  <1> QED
    BY <1>13, <1>15, <1>16, <1>18, <1>19, <1>20, <1>21, <1>22, ReconcileCases

(* No conflict, failed call, crash or change by a user is forgotten, for    *)
(* any sizes, images and bounds: when neither a request nor an event is on  *)
(* its way, the finalizer is on the resource and the Deployment and the     *)
(* condition Available say what its spec says.                              *)
THEOREM NothingForgotten == Spec => []AtRestMeansReconciled
  <1>1. Init => Resting
    BY DEF Init, MC!Init, Dep!Init, Dep!Empty, Resting, AtRestMeansReconciled, AtRest, Exists,
           NeverDeployed, At, Idle
  <1>2. Inv /\ Resting /\ [Next]_vars => Resting'
    BY RestingPreserved
  <1>3. Resting => AtRestMeansReconciled
    BY DEF Resting
  <1> QED
    BY <1>1, <1>2, <1>3, Invariant, PTL DEF Spec
=============================================================================
