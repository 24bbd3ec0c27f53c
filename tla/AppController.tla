---------------------------- MODULE AppController ----------------------------
(***************************************************************************)
(* The App controller of crd-controller-demo and its program: for every     *)
(* App it creates the Deployment and the Service that the App's spec names, *)
(* and copies their status into the App's.                                  *)
(*                                                                         *)
(* The module composes the rate limited queue and the informers of the      *)
(* three kinds with main (cmd/main.go), which starts the informers, waits   *)
(* for their caches, runs the workers, and ends when it is signalled.       *)
(* Between two steps of a worker the users, the API server, the garbage     *)
(* collector and the other goroutines may act.  An event handler runs in    *)
(* the step that changes the cache: the key it adds may wait as long.       *)
(* Watches do not break here (AddIngress has that), and the resync of every *)
(* 30 s takes no step: it passes one object as old and new, which UpdateApp *)
(* finds equal.                                                             *)
(***************************************************************************)
EXTENDS Naturals, Sequences

CONSTANTS Items,            \* "namespace/name", of Apps and of their children
          Workers,          \* WorkNum goroutines
          Absent,           \* no object; no name in a template
          AppNames,         \* the Items under which the users make Apps
          Specs,            \* the App specs of the users, in [Kinds -> Items \cup {Absent}]
          MaxRetry,
          Capacity,         \* of the delaying queue's channel
          MaxOps,           \* bound on the users' operations
          MaxFaults,        \* bound on failing calls and programs that are stopped, together
          MaxLag            \* bound on the events that wait for a cache when a sync begins

VARIABLES
  queue, dirty, processing, shuttingDown, failures, waitingForAddCh, waitingForQueue,
  app, appWatch, appCache,
  child, childWatch, childCache,       \* <<kind, name>> -> a Deployment or Service
  main,                     \* the program counter of main, "down" without a process
  stopCh,                   \* it is closed
  informers, startedInformers,         \* of the two factories
  listed,                   \* the informers whose first list was answered
  initial,                  \* keys of first lists that are not yet in a cache
  worker, used,
  lastFailed                \* history: keys whose last sync returned an error

queueVars   == <<queue, dirty, processing, shuttingDown, failures, waitingForAddCh, waitingForQueue>>
appVars     == <<app, appWatch, appCache>>
childVars   == <<child, childWatch, childCache>>
programVars == <<main, stopCh, informers, startedInformers, listed>>
vars == <<queueVars, appVars, childVars, programVars, initial, worker, used, lastFailed>>

Kinds     == {"deployment", "service"}
Informers == Kinds \cup {"app"}
ChildKeys == Kinds \X Items

(* A child's version stands for its status, which others keep up to date.   *)
Apps     == [uid : 1..MaxOps, spec : Specs, status : [Kinds -> 0..MaxOps], version : Nat]
Children == [owner : 0..MaxOps, version : 1..MaxOps]

NoOwner == 0                           \* no controller reference to an App

RLQ   == INSTANCE RateLimitedQueue WITH MaxFailures <- MaxRetry
App   == INSTANCE Informer WITH Keys <- Items, Objects <- Apps, Handlers <- {},
           store <- app, watch <- appWatch, cache <- appCache,
           notes <- [k \in Items |-> << >>]
Child == INSTANCE Informer WITH Keys <- ChildKeys, Objects <- Children, Handlers <- {},
           store <- child, watch <- childWatch, cache <- childCache,
           notes <- [c \in ChildKeys |-> << >>]

Idle == [pc |-> "idle", key |-> Absent, app |-> Absent, kind |-> Absent]

ASSUME CapacityAssumption == Capacity \in Nat \ {0}
ASSUME BoundsAssumption   == {MaxRetry, MaxOps, MaxFaults} \subseteq Nat
ASSUME NamesAssumption    == Absent \notin Items /\ Specs \subseteq [Kinds -> Items \cup {Absent}]
ASSUME AbsentAssumption   == Absent \notin Apps \cup Children

TypeOK ==
  /\ RLQ!TypeOK /\ App!TypeOK /\ Child!TypeOK
  /\ failures \in [Items -> 0..MaxRetry]
  /\ main \in {"down", "new", "start", "wait", "run"}
  /\ stopCh \in BOOLEAN
  /\ informers \in SUBSET Informers /\ startedInformers \in SUBSET Informers
  /\ listed \in SUBSET Informers
  /\ initial \in SUBSET (Informers \X Items)
  /\ worker \in [Workers ->
       [pc : {"idle", "sync", "find", "create", "get", "update", "failed", "handled", "done"},
        key : Items \cup {Absent}, app : Apps \cup {Absent}, kind : Kinds \cup {Absent}]]
  /\ used \in [ops : 0..MaxOps, faults : 0..MaxFaults]
  /\ lastFailed \in SUBSET Items

Init ==
  /\ RLQ!Init /\ App!Init /\ Child!Init
  /\ main = "new" /\ stopCh = FALSE
  /\ informers = {} /\ startedInformers = {} /\ listed = {} /\ initial = {}
  /\ worker = [w \in Workers |-> Idle]
  /\ used = [ops |-> 0, faults |-> 0]
  /\ lastFailed = {}

Exists(k)         == app[k] # Absent
Controlled(c, a)  == c # Absent /\ c.owner = a.uid          \* metav1.IsControlledBy
OwnerLives(c)     == \E k \in Items : Exists(k) /\ Controlled(child[c], app[k])

-----------------------------------------------------------------------------
(* The users, the controllers of Kubernetes, the garbage collector. *)

Elsewhere == UNCHANGED <<queueVars, programVars, initial, worker, lastFailed>>

UserOp == used.ops < MaxOps /\ used' = [used EXCEPT !.ops = @ + 1]
Fault  == used.faults < MaxFaults /\ used' = [used EXCEPT !.faults = @ + 1]

WriteApp(k, a)   == App!Write(k, a, "app" \in listed)
WriteChild(c, d) == Child!Write(c, d, c[1] \in listed)

UserWrites(k) ==
  /\ k \in AppNames
  /\ \/ \E spec \in Specs :
          IF Exists(k)
            THEN spec # app[k].spec
                 /\ WriteApp(k, [app[k] EXCEPT !.spec = spec, !.version = @ + 1])
            ELSE WriteApp(k, [uid |-> used.ops + 1, spec |-> spec,
                              status |-> [kind \in Kinds |-> 0], version |-> 1])
     \/ Exists(k) /\ WriteApp(k, Absent)
  /\ UserOp /\ Elsewhere /\ UNCHANGED childVars

(* A user makes or deletes a child that some App may want, or the status of *)
(* a child changes.                                                         *)
OthersWriteChild(c) ==
  /\ \E spec \in Specs : spec[c[1]] = c[2]
  /\ \/ WriteChild(c, IF child[c] = Absent THEN [owner |-> NoOwner, version |-> 1]
                      ELSE [child[c] EXCEPT !.version = @ + 1])
     \/ child[c] # Absent /\ WriteChild(c, Absent)
  /\ UserOp /\ Elsewhere /\ UNCHANGED appVars

Collect(c) ==
  /\ child[c] # Absent /\ child[c].owner # NoOwner
  /\ ~OwnerLives(c)
  /\ WriteChild(c, Absent)
  /\ Elsewhere /\ UNCHANGED <<appVars, used>>

-----------------------------------------------------------------------------
(* The informers. *)

(* The first list of an informer: its objects are on the way to the cache.  *)
ListApps ==
  /\ appWatch' = [k \in Items |-> IF Exists(k) THEN <<App!Event(app[k])>> ELSE << >>]
  /\ initial' = initial \cup {<<"app", k>> : k \in {x \in Items : Exists(x)}}
  /\ UNCHANGED <<app, appCache, childVars>>

ListChildren(kind) ==
  LET there == {c \in ChildKeys : c[1] = kind /\ child[c] # Absent} IN
  /\ childWatch' = [c \in ChildKeys |-> IF c \in there THEN <<Child!Event(child[c])>> ELSE childWatch[c]]
  /\ initial' = initial \cup there
  /\ UNCHANGED <<child, childCache, appVars>>

List(t) ==
  /\ t \in startedInformers \ listed
  /\ listed' = listed \cup {t}
  /\ IF t = "app" THEN ListApps ELSE ListChildren(t)
  /\ UNCHANGED <<queueVars, main, stopCh, informers, startedInformers, worker, used, lastFailed>>

HasSynced(t) == t \in listed /\ \A k \in Items : <<t, k>> \notin initial

(* AddApp, UpdateApp; there is no handler for the deletion of an App. *)
ReceiveApp(k) ==
  /\ App!Receive(k)
  /\ IF appCache'[k] \in {Absent, appCache[k]} THEN UNCHANGED queueVars ELSE RLQ!Add(k)
  /\ initial' = initial \ {<<"app", k>>}
  /\ UNCHANGED <<childVars, programVars, worker, used, lastFailed>>

(* Slip, for a mutant run: the check of the owner's kind is inverted. *)
ReceiveChildInverted(c) ==
  /\ Child!Receive(c)
  /\ IF childCache[c] # Absent /\ childCache'[c] = Absent /\ childCache[c].owner = NoOwner
       THEN RLQ!Add(c[2]) ELSE UNCHANGED queueVars
  /\ initial' = initial \ {c}
  /\ UNCHANGED <<appVars, programVars, worker, used, lastFailed>>

(* DeleteDeployment and DeleteService add the child's own key. *)
ReceiveChild(c) ==
  /\ Child!Receive(c)
  /\ IF childCache[c] # Absent /\ childCache'[c] = Absent /\ childCache[c].owner # NoOwner
       THEN RLQ!Add(c[2]) ELSE UNCHANGED queueVars
  /\ initial' = initial \ {c}
  /\ UNCHANGED <<appVars, programVars, worker, used, lastFailed>>

-----------------------------------------------------------------------------
(* main, Run and the signals. *)

InMemory == <<queueVars, appVars, childVars, initial, worker, lastFailed>>

(* The factories make one informer of a type when it is first asked for,    *)
(* and start each of those they have, once.                                 *)
InformerFor(ts) == informers' = informers \cup ts /\ UNCHANGED startedInformers
Start == startedInformers' = startedInformers \cup informers /\ UNCHANGED informers

(* NewController asks for the informers of all three kinds. *)
NewController ==
  /\ main = "new" /\ main' = "start"
  /\ InformerFor(Informers)
  /\ UNCHANGED <<InMemory, stopCh, listed, used>>

(* Slip, for a mutant run: the factories start before they have informers. *)
StartBeforeNew ==
  /\ main = "start" /\ main' = "wait"
  /\ UNCHANGED <<InMemory, stopCh, informers, startedInformers, listed, used>>

StartFactories ==
  /\ main = "start" /\ main' = "wait"
  /\ Start
  /\ UNCHANGED <<InMemory, stopCh, listed, used>>

(* Slip, for a mutant run: Run waits for the cache of Apps alone. *)
WaitForAppsOnly ==
  /\ main = "wait" /\ main' = "run"
  /\ HasSynced("app")
  /\ UNCHANGED <<InMemory, stopCh, informers, startedInformers, listed, used>>

WaitForCacheSync ==
  /\ main = "wait" /\ main' = "run"
  /\ \A t \in Informers : HasSynced(t)
  /\ UNCHANGED <<InMemory, stopCh, informers, startedInformers, listed, used>>

ProcessEnds ==
  /\ main' = "down" /\ stopCh' = FALSE
  /\ informers' = {} /\ startedInformers' = {} /\ listed' = {} /\ initial' = {}
  /\ App!Stop /\ Child!Stop
  /\ worker' = [w \in Workers |-> Idle]
  /\ queue' = << >> /\ dirty' = {} /\ processing' = {} /\ shuttingDown' = FALSE
  /\ failures' = [k \in Items |-> 0] /\ waitingForAddCh' = << >> /\ waitingForQueue' = {}
  /\ lastFailed' = {}

(* The first signal closes the channel, the second ends the program. *)
Signal ==
  /\ main # "down"
  /\ \/ stopCh /\ ProcessEnds /\ UNCHANGED used
     \/ ~stopCh /\ Fault /\ stopCh' = TRUE
        /\ UNCHANGED <<InMemory, main, informers, startedInformers, listed>>

(* Run returns when the channel is closed, and shuts the queue down.        *)
ShutDown ==
  /\ main = "run" /\ stopCh /\ ~shuttingDown
  /\ RLQ!ShutDown
  /\ UNCHANGED <<appVars, childVars, programVars, initial, worker, used, lastFailed>>

(* main returns behind Run, or gives up when the caches were not filled;    *)
(* in either case nobody waits for the workers.                             *)
Exit ==
  /\ stopCh
  /\ main = "wait" \/ shuttingDown
  /\ ProcessEnds
  /\ UNCHANGED used

Restart ==
  /\ main = "down" /\ main' = "new"
  /\ UNCHANGED <<InMemory, stopCh, informers, startedInformers, listed, used>>

-----------------------------------------------------------------------------
(* The workers: processNextWorkItem and syncApp. *)

At(w, pc)   == worker[w].pc = pc
Goto(w, pc) == worker' = [worker EXCEPT ![w].pc = pc]
Key(w)      == worker[w].key
InHand(w)   == worker[w].app
ChildKey(w) == <<worker[w].kind, InHand(w).spec[worker[w].kind]>>

(* What comes in syncApp for the app a: the template of the Deployment, the *)
(* one of the Service, each if it has a name, then the update.              *)
Proceed(w, a, kinds) ==
  LET wanted == {kind \in kinds : a.spec[kind] # Absent}
      first  == IF "deployment" \in wanted THEN "deployment" ELSE "service"
  IN worker' = [worker EXCEPT ![w].app = a,
                  ![w].pc   = IF wanted = {} THEN "update" ELSE "find",
                  ![w].kind = IF wanted = {} THEN Absent ELSE first]

After(kind) == IF kind = "deployment" THEN {"service"} ELSE {}

TakeItem(w) ==
  /\ main = "run"
  /\ At(w, "idle")
  /\ \A k \in Items : Len(appWatch[k]) <= MaxLag
  /\ \A c \in ChildKeys : Len(childWatch[c]) <= MaxLag
  /\ \E k \in Items :
       /\ RLQ!Get(k)
       /\ worker' = [worker EXCEPT ![w] = [Idle EXCEPT !.pc = "sync", !.key = k]]
  /\ UNCHANGED <<appVars, childVars, programVars, initial, used, lastFailed>>

(* The lister returns the object of the cache itself. *)
Lister(k) == appCache[k]

(* An App that is not in the cache is an error. *)
ReadApp(w) ==
  /\ At(w, "sync")
  /\ IF Lister(Key(w)) = Absent THEN Goto(w, "failed") ELSE Proceed(w, Lister(Key(w)), Kinds)
  /\ UNCHANGED <<queueVars, appVars, childVars, programVars, initial, used, lastFailed>>

(* The status is written into the object that the lister returned, which    *)
(* is the one in the cache unless an event has replaced it.                 *)
TakeStatus(w, c) ==
  IF Controlled(c, InHand(w))
    THEN LET a == [InHand(w) EXCEPT !.status[worker[w].kind] = c.version] IN
         /\ Proceed(w, a, After(worker[w].kind))
         /\ appCache' = IF appCache[Key(w)] = InHand(w)
                          THEN [appCache EXCEPT ![Key(w)] = a] ELSE appCache
    ELSE Goto(w, "failed") /\ UNCHANGED appCache

FindChild(w) ==
  /\ At(w, "find")
  /\ IF childCache[ChildKey(w)] = Absent
       THEN Goto(w, "create") /\ UNCHANGED appCache
       ELSE TakeStatus(w, childCache[ChildKey(w)])
  /\ UNCHANGED <<queueVars, app, appWatch, childVars, programVars, initial, used, lastFailed>>

(* An API call may also fail for a reason of its own, its effect made or not. *)
Call(w, admitted, effect, nothing, pc) ==
  /\ \/ admitted /\ effect /\ Goto(w, pc) /\ UNCHANGED used
     \/ ~admitted /\ nothing /\ Goto(w, "failed") /\ UNCHANGED used
     \/ Fault /\ admitted /\ effect /\ Goto(w, "failed")
     \/ Fault /\ nothing /\ Goto(w, "failed")
  /\ UNCHANGED <<queueVars, programVars, initial, lastFailed>>

CreateChild(w) ==
  /\ At(w, "create")
  /\ Call(w, child[ChildKey(w)] = Absent,
             WriteChild(ChildKey(w), [owner |-> InHand(w).uid, version |-> 1]),
             UNCHANGED childVars, "get")
  /\ UNCHANGED appVars

(* The error of this Get is dropped: without an answer syncApp goes on with *)
(* an empty object, which nobody controls.                                  *)
GetChild(w) ==
  /\ At(w, "get")
  /\ \/ TakeStatus(w, child[ChildKey(w)]) /\ UNCHANGED used
     \/ TakeStatus(w, Absent) /\ Fault
  /\ UNCHANGED <<queueVars, app, appWatch, childVars, programVars, initial, lastFailed>>

(* Slip, for a mutant run: an update without a resource version. *)
ExistsLike(a, k) == Exists(k) /\ app[k].uid = a.uid

(* The API server refuses an object that is not of the stored version.      *)
Fresh(a, k) == Exists(k) /\ app[k].uid = a.uid /\ app[k].version = a.version

(* Update of spec and status at once: Apps have no status subresource.      *)
UpdateApp(w) ==
  /\ At(w, "update")
  /\ LET a == InHand(w)
         k == Key(w) IN
       Call(w, Fresh(a, k),
               IF a = app[k] THEN UNCHANGED appVars
               ELSE WriteApp(k, [a EXCEPT !.version = app[k].version + 1]),
               UNCHANGED appVars, "done")
  /\ UNCHANGED childVars

(* Slip, for a mutant run: one retry too many. *)
HandleErrorOneMoreRetry(w) ==
  /\ At(w, "failed")
  /\ IF failures[Key(w)] <= MaxRetry THEN RLQ!AddRateLimited(Key(w)) ELSE RLQ!Forget(Key(w))
  /\ Goto(w, "handled")
  /\ lastFailed' = lastFailed \cup {Key(w)}
  /\ UNCHANGED <<appVars, childVars, programVars, initial, used>>

HandleError(w) ==
  /\ At(w, "failed")
  /\ IF failures[Key(w)] < MaxRetry THEN RLQ!AddRateLimited(Key(w)) ELSE RLQ!Forget(Key(w))
  /\ Goto(w, "handled")
  /\ lastFailed' = lastFailed \cup {Key(w)}
  /\ UNCHANGED <<appVars, childVars, programVars, initial, used>>

(* The deferred Done. *)
Done(w) ==
  /\ At(w, "done") \/ At(w, "handled")
  /\ RLQ!Done(Key(w))
  /\ worker' = [worker EXCEPT ![w] = Idle]
  /\ lastFailed' = IF At(w, "done") THEN lastFailed \ {Key(w)} ELSE lastFailed
  /\ UNCHANGED <<appVars, childVars, programVars, initial, used>>

Step(w) ==
  \/ ReadApp(w) \/ FindChild(w) \/ CreateChild(w) \/ GetChild(w) \/ UpdateApp(w)
  \/ HandleError(w) \/ Done(w)

-----------------------------------------------------------------------------
(* The waiting loop of the delaying queue. *)

Delays == UNCHANGED <<appVars, childVars, programVars, initial, worker, used, lastFailed>>

ReceiveEntry  == RLQ!ReceiveEntry /\ Delays
EntryReady(k) == RLQ!Ready(k) /\ Delays

Main == NewController \/ StartFactories \/ WaitForCacheSync \/ ShutDown \/ Exit \/ Restart

Next ==
  \/ \E k \in Items : UserWrites(k) \/ ReceiveApp(k) \/ EntryReady(k)
  \/ \E c \in ChildKeys : OthersWriteChild(c) \/ Collect(c) \/ ReceiveChild(c)
  \/ \E t \in Informers : List(t)
  \/ Main \/ Signal
  \/ \E w \in Workers : TakeItem(w) \/ Step(w)
  \/ ReceiveEntry

Spec == Init /\ [][Next]_vars

(* The goroutines of the program run, the API server and the collector do   *)
(* their work, delays pass, and a program that ended is started again.      *)
Fairness ==
  /\ WF_vars(\E t \in Informers : List(t))
  /\ WF_vars(\E k \in Items : ReceiveApp(k))
  /\ WF_vars(\E c \in ChildKeys : ReceiveChild(c))
  /\ WF_vars(\E c \in ChildKeys : Collect(c))
  /\ WF_vars(Main)
  /\ WF_vars(\E w \in Workers : TakeItem(w))
  /\ \A w \in Workers : WF_vars(Step(w))
  /\ WF_vars(ReceiveEntry) /\ WF_vars(\E k \in Items : EntryReady(k))

FairSpec == Spec /\ Fairness

-----------------------------------------------------------------------------
(* While a worker is at work, the caches it reads are complete but for the  *)
(* events on their way to them (Run 160: it waits for three caches; the     *)
(* factories have started them, and the workers come last).  The cached     *)
(* Apps may differ in the status that syncApp writes into them.             *)
WorkersReadFullCaches ==
  (\E w \in Workers : ~At(w, "idle")) =>
    /\ Child!CacheCatchesUp
    /\ \A k \in Items :
         LET n == Len(appWatch[k]) IN
         IF n > 0 THEN appWatch[k][n].obj = app[k]
         ELSE IF Exists(k) THEN appCache[k] # Absent /\ [appCache[k] EXCEPT !.status = app[k].status] = app[k]
         ELSE appCache[k] = Absent

(* Nothing about k is under way any more. *)
Settled(k) ==
  /\ main = "run" /\ ~stopCh
  /\ appWatch[k] = << >> /\ k \notin dirty \cup processing /\ ~RLQ!Waiting(k)
  /\ \A kind \in Kinds : LET c == <<kind, k>> IN
       childWatch[c] = << >> /\ (child[c] # Absent /\ child[c].owner # NoOwner => OwnerLives(c))

HasChildren(k) ==
  \A kind \in Kinds : app[k].spec[kind] = k => Controlled(child[<<kind, k>>], app[k])

(* An App whose last sync was good has the children that go by its name:    *)
(* neither a stale cache, a refused or failed call, nor the end of the      *)
(* program loses one (syncApp 219 to 289, DeleteDeployment 134).  A child   *)
(* of another name is not asked for: its deletion adds another key.         *)
SettledAppHasChildren ==
  \A k \in Items : Settled(k) /\ k \notin lastFailed /\ Exists(k) => HasChildren(k)

(* What a user put into a spec is never undone by a sync that read the App  *)
(* before: Update sends the spec along with the status (syncApp 292).       *)
UsersSpecIsKept ==
  [][ \A k \in Items :
        used'.ops = used.ops /\ Exists(k) => Exists(k)' /\ app'[k].spec = app[k].spec ]_vars

(* The users' wishes once and for all, and the controller comes to rest: an *)
(* update of the status is an event that brings the App back to the queue   *)
(* (UpdateApp 125), and this ends.                                          *)
ControllerSettles ==
  <>[] \A k \in Items : Settled(k) /\ (k \notin lastFailed /\ Exists(k) => HasChildren(k))
=============================================================================
