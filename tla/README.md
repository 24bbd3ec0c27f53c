# Verification of the controllers in share-code-operator-study

The repository holds Kubernetes controllers at several levels of the ladder: written by
hand on client-go (`addingress`, `crd-controller-demo`), generated by kubebuilder and
operator-sdk (`cronJob-operator`, `memcached-operator`, `guestbook`), and demos of the code
generators. This directory holds TLA+ specifications of them, TLC models that check the
specifications on small instances, and proofs for every instance.

Paths below are relative to the repository; `PROJECT.json` names the lines that each
definition models.

## The system

```
 users --> API server (custom resources, services, jobs, ...) <-- garbage collector, other controllers
               |  watch events                     ^
               v                                   | create / update / delete / status
      shared informer: cache  <---- lister ----  workers / Reconcile
               |  notifications                    ^
               v                                   | Get / Done / AddRateLimited / Forget
        event handlers --- Add(key) --->  rate limited work queue
                                                   ^
        main: start informers, wait for caches, run workers, signals, ShutDown
```

| component | state | operations | what makes it correct |
|---|---|---|---|
| work queue (`vendor/k8s.io/client-go/util/workqueue/queue.go`) | `queue`, `dirty`, `processing`, `shuttingDown`, `drain`, the condition variable | Add, Get, Done, ShutDown, ShutDownWithDrain | no Add and no wake-up is lost, an item is in one worker's hands at a time, everybody leaves after a shutdown |
| delaying and rate limiting queue (`delaying_queue.go`, `rate_limiting_queue.go`, `default_rate_limiters.go`) | channel, heap, failure counts | AddRateLimited, Forget, the waiting loop | a retry leads to a new start |
| shared informer (`tools/cache`) | watch, cache, notifications | first list, receive an event, re-list, notify | the cache catches up with the API server, notifications follow it |
| addingress (`addingress/pkg/controller.go`) | the queue, two informers, five workers | addService, updateService, deleteIngress, processNextItem, syncService, handleError | a service annotated `ingress/http` has its ingress, others have none |
| CronJob operator (`cronJob-operator/internal/controller`) | CronJob and Job caches, requests, timers | Reconcile | every nominal time runs at most once, policies are kept, nobody oversleeps |
| CronJob API (`cronJob-operator/api`) | none | defaults, validation, conversion between v1 and v2 | what is admitted can be scheduled and survives both versions |
| App controller (`crd-controller-demo/pkg/controller`) | the queue, three informers, workers | handlers, syncApp, handleError | an App gets its Deployment and Service, its spec stays the user's |
| App controller's program (`crd-controller-demo/cmd`, `pkg/signals`) | informer factories, stop channel | NewController, Start, Run, the two signals | workers start behind full caches; a stop at any point loses nothing |
| Memcached operator (`memcached-operator/internal/controller`) | CR with finalizer and conditions, Deployment, caches, requests | Reconcile | the Deployment follows the CR, the finalizer's operations are done before the CR goes, and it does go |
| API types and generated DeepCopy (`api`, `pkg/apis` of all programs) | none | DeepCopyInto | a copy shares nothing with the cached object |
| generated clientsets, informers, listers | informers of a factory, started informers | InformerFor, Start, List, Update | part of the App controller's program |
| Guestbook operator, demos | none of their own | - | - |

What is hard here is concurrency between processes that share nothing but the API server:
caches lag behind it and behind each other; calls fail, some after they took effect;
watches break; the process ends and comes back with only what the API server stores; the
clock moves between two lines of one function. `PROJECT.json` lists the hazards at the lines
where they bite, with the properties that would catch them going wrong.

## Modules

| module | models | remarks |
|---|---|---|
| `PendingWork` | what a work queue promises, as two sets | abstract specification |
| `WorkQueue` | `queue.go` without its condition variable; each method is one critical section, so one action | implements `PendingWork` |
| `WorkQueueCond` | the same with `q.cond`: workers that wait in Get, Signal and Broadcast, the callers of ShutDown and ShutDownWithDrain | implements `WorkQueue`, whose fairness of Get it has to earn |
| `RateLimitedQueue` | a `WorkQueue` with the delaying queue's channel and heap and the failure counts | delays are "later": an entry may be ready at any moment |
| `Informer` | reflector, DeltaFIFO, indexer and listener of one kind of object | one channel per key; a broken watch loses what is on its way and a list replaces it, with tombstones |
| `AddIngress` | the controller in its cluster: `RateLimitedQueue`, two `Informer`s, workers, users, garbage collector | composes the modules above |
| `CronSchedule` | `getNextSchedule` as a function, with the width of a `Duration` | period 0 is a schedule that never comes due |
| `CronJob` | `Reconcile` for one CronJob with jobs, caches, clock, timers | composes `CronSchedule` and two `Informer`s |
| `CronJobAPI` | defaults, validation and conversion of CronJobs | a schedule is the sequence of its words, an empty word between two blanks |
| `CronJobFunctions` | what `CronSchedule` and `CronJobAPI` promise; the input of a function is a state | used by `MCFunctions` for TLC and by `CronJobProofs` |
| `Memcached` | `Reconcile` for one resource with its Deployment, versions, finalizers and the garbage collector | composes two `Informer`s |
| `AppController` | the App controller and its program | composes `RateLimitedQueue` and the `Informer`s of three kinds |
| `DeepCopy` | which references the API types hold and which of them the generated functions copy | a type is a table of its fields; a copied object is the set of its references |
| `WorkQueueProofs`, `WorkQueueCondProofs`, `RateLimitedQueueProofs`, `InformerProofs`, `AddIngressProofs`, `MemcachedProofs`, `AppControllerProofs`, `CronJobProofs` | | theorems, see Proofs |
| `MCInformer`, `MCAddIngress`, `MCAppController` | | bounds, symmetry and inputs for TLC |
| `MCFunctions` | | `CronJobFunctions` and `DeepCopy` on all inputs up to a bound, one input per state |

State and actions keep the code's names. The places where a process may be interrupted decide
how an operation is cut into actions: a section under a mutex is one action; a worker's sync
is one action per read of a cache (`ReadService`, `ReadIngress`, `FindChild`) and per API call
(`CreateIngress`, `UpdateApp`); `Reconcile` is one action per cache read, clock reading and API
call, with the pure code between them. Two loops of deletions in the CronJob operator's
`Reconcile`, the clean-up of the history and that of Replace, are one action each, with any
subset of the calls failing.

An API call has four outcomes (`Call` in `AddIngress`, the disjuncts in `CronJob`,
`AppController` and `Memcached`): it succeeds; it is refused for what the API server stores
(AlreadyExists, NotFound, Conflict, a new finalizer on an object being deleted); it fails for a
reason of its own and has no effect; it fails and took effect.

Some abstractions are worth knowing:

* `CronJob`, `Memcached` and `AppController` run an event handler in the step that changes the
  cache: what the handler adds to the queue may wait there as long. `AddIngress` keeps the
  notifications apart, and `Informer` shows how they relate to the cache.
* `CronJob` and `Memcached` have controller-runtime's queue for one request as a flag and a
  timer or a delayed request; that it keeps a request that comes in meanwhile is what
  `WorkQueue` is about.
* Jobs are a function of their nominal time because the code names them after it. A history
  limit that is nil deletes nothing, as a limit above the number of jobs does. Which jobs are the
  oldest is decided by the time the job controller started them (`cronjob_controller.go:166`):
  `JobsStartInOrder` says that it does so in the order of their nominal times, and without it
  `Surplus` may take any as many.
* In `CronJob` the clock is read once for `getNextSchedule`, again for `RequeueAfter` and the
  deadline (one reading), and once more when the queue adds `RequeueAfter` to it; it may tick in
  between, except that a Reconcile that returns right after the second reading hands its
  `RequeueAfter` to the queue in the same step. In the code the timer is late by what passes
  there, which is less than the model's clock can tell. The delay after an error is any within the time
  of the model, past the next start too, since the back-off of controller-runtime grows to 1000 s.
  `ended` remembers how the last Reconcile ended, and `onTime` whether the operator has kept up
  with the clock: no tick found a cache behind, and none that is a start found a Reconcile at work.
* `AddRateLimited` counts the failure, chooses the delay and sends the entry in one step; the
  code counts before it may wait for room in the channel. Only the worker that holds the item
  reads or writes the item's count, so the order does not show; while the channel is full the
  step is disabled, with the worker still holding its item.
* In `Memcached` an update carries the version that was read, so that a stale one is refused;
  an unchanged update writes nothing. The image in the environment may be missing, and may have
  no tag, on which the process panics (`ImagePanics`).
* In `AppController` the status that `syncApp` writes into the object of the cache stays there
  although the update may fail, as in the code (`controller.go:256`); a child's version stands
  for its status. The second signal ends the program, and so does `main` behind Run, with the
  workers wherever they are.
* In `DeepCopy` all elements of a slice are treated alike, so one stands for them.

The operators whose names say how they go wrong (`AddDroppedWhileProcessing`,
`DecideRunWithoutForbid`, `CloseSignal`, ...) are slips a programmer could make. Nothing uses
them; put in place of the definition beside them each makes a run fail, which shows that the
run's property depends on that line of the code.

## Runs

`tlc -config <cfg> <module>`; all finish within three minutes with two workers.

| run | module, cfg | what it shows |
|---|---|---|
| queue | `RateLimitedQueue`, `RateLimitedQueue.cfg` | types and the channel's bound; the plain queue's invariants and its refinement of `PendingWork` with liveness; retries are made and no entry is lost |
| queue_wait | `WorkQueueCond`, `WorkQueueCond.cfg` | no worker sleeps on work, an item has one holder, after a shutdown all workers leave, the last one with nothing left to do, and the callers return, who sleep only while a Done is to come, ShutDown beside ShutDownWithDrain included; the blocking queue implements `WorkQueue` with its liveness |
| informer | `MCInformer`, `MCInformer.cfg` | the cache catches up after any broken watches; notifications follow the cache without a gap |
| ingress_sync | `MCAddIngress`, `AddIngress_sync.cfg` | an annotated service is not left without its ingress, when nothing about it is under way (`SettledServiceHasIngress`) and in the end (`ServiceGetsIngress`) |
| ingress_outages | `MCAddIngress`, `AddIngress_outages.cfg` | broken watches, panics, restarts, ingresses of others: listers catch up, a key is in one worker's hands, orphans are collected for good |
| ingress_leftover | `MCAddIngress`, `AddIngress_leftover.cfg` | violation: a service without the annotation keeps its ingress |
| app_sync | `MCAppController`, `AppController.cfg` | workers read full caches only; a good sync leaves no App without its children; no sync undoes what a user wrote into a spec; the controller comes to rest |
| memcached | `Memcached`, `Memcached.cfg` | at rest the resource is reconciled; the finalizer is removed last; a resource that is marked goes; what users leave alone is reconciled for good |
| cron_once | `CronJob`, `CronJob_once.cfg` | with slow caches, a clock that ticks within Reconcile, a failing call and a crash, no nominal time runs twice, runs under Forbid and Replace overlap only if the operator did not keep up with the clock, the status never goes back and the last start runs in the end |
| cron_users | `CronJob`, `CronJob_users.cfg` | whatever users do (suspend, resume, create again, delete jobs), calls fail, processes crash, and however long errors delay: a CronJob at rest is woken for its next start at the latest, after an error at some time |
| functions | `MCFunctions`, `Functions_repository.cfg` | `getNextSchedule` agrees with a set-based reading of the schedule, a longer deadline admits more, admitted CronJobs survive both versions, full deep copies share nothing |
| app_copies | `MCFunctions`, `Functions_app.cfg` | violation: the copy of an App shares its statuses with the original |

The type invariants of `Informer` and of the plain queue are checked as part of those of the
modules that compose them; those of `CronJob` and `Memcached` are not among the runs' properties
but are proved.

### Bounds, and why they are enough

* queue: two items and a channel of two, so one item may be in the channel, in the heap, queued
  and in hands at the same time as another, and the channel may be full.
* queue_wait: three items and three workers, so one Signal finds several sleepers, an item may
  come while others are awake, and a worker may take the item another was woken for; both
  callers, once each.
* informer: one key, two objects, at most three events and notifications in a channel: a
  deletion between two versions, a re-list with anything before it. Keys do not interact. The
  bound is a CONSTRAINT, so the run checks every state up to it; the proofs need no bound.
* ingress: one service and two workers, since a second worker could take the key while the
  first holds it; keys meet only in the queue, whose run has two. Three operations of users are
  create, change or delete, and create again, or delete the ingress. One failing call and one
  restart (ingress_sync), one broken watch and one end of the process (ingress_outages).
  `MaxRetry` is 2 or 1 in place of 10, so that keys are given up.
* app_sync: one App, whose children go by its name, or whose Deployment goes by another one and
  whose Service is not asked for; one worker (that a key has one holder is proved, here and for
  `AddIngress`, and checked in queue_wait), `MaxRetry` 1, two operations of users and others, one
  failing call or one stop, and at most one event per cache on its way when a sync begins
  (`MaxLag`): more stale reads than one repeat the same branches.
* memcached: two sizes, three images, three operations of users (create, delete, create again;
  or changes of the size and of the Deployment), one failing call or crash, `MaxLag` 1. Versions
  have no bound of their own: each write has an operation, a failure or a change to make. The
  proof needs none of the bounds.
* cron_once: a tick is a period and time goes up to 2, so each tick is a start and a Reconcile may
  be overtaken by both; all three policies; one CronJob, one failing call, one crash. History
  limits of one, so that the second job of a kind deletes the first.
* cron_users: period 2 and time up to 3: one start, with a tick before and after it; policies
  Forbid and Replace. Users create, suspend, resume and delete the CronJob and delete jobs, three
  operations at most, so that a CronJob is resumed after an error, or created again while jobs of
  its predecessor are there. At most three operations, failing calls and crashes together
  (`MaxEvents`). The proof of `WakesInTime` needs none of these bounds.
* `TooMany` is 5 in place of 100 in `CronJob` (never reached there) and 3 in `functions`, where
  it is. A Duration has 8 or 6 bits.
* functions: periods up to 5 and times up to 14, deadlines from 0 to the longest that does not
  wrap around, and a negative one, which the API of v1 does not exclude; schedules of up to six words out of a star, a field, a descriptor and the empty word; names at
  the limit and beyond; what a user leaves open is left open in all the optional fields or in
  none; every set of references that an object of the listed types may have.
* `workNum`, `maxRetry` and the channel's capacity are constants of the modules, which the code
  fixes at 5, 10 and 1000.
* CHECK_DEADLOCK is off where users have a bounded number of operations, and in queue_wait,
  where everybody may have left: the system stops then.

### Assumptions the passing runs depend on

* ingress_sync has no broken watch: an ingress created and deleted while the watch is down
  leaves no event, there is no resync (`addingress/main.go:30`) and no `AddFunc`, and the
  service stays without its ingress (with `MaxDisconnects = 1` `SettledServiceHasIngress`
  fails). It has no ingresses of others either, whose deletion `deleteIngress` ignores
  (`controller.go:91`). Its properties are stated for keys whose last sync was good (`streak`,
  and `lastFailed` in `AppController`), because `handleError` gives keys up.
* The failure count of a key is never reset by a good sync (`addingress/pkg/controller.go:162`
  forgets it only when it gives the key up, and so does the App controller), so a key may be
  given up on a first failure. The models keep that (`failures` against `streak`).
* `RunsDoNotOverlap` is promised as long as the operator keeps up with the clock (`onTime`).
  Otherwise Forbid and Replace overlap, since Reconcile counts the active jobs that its cache had
  before the start: TLC violates the property without `onTime`.
* `WakesForNextStart` sets two ways to end apart, for which the code asks nothing of the queue:
  too many missed starts (`cronjob_controller.go:266`), and a start between the reading for
  `getNextSchedule` and the one for `RequeueAfter` (`cronjob_controller.go:269`), which is then
  zero or negative (`ended = "overtaken"`). The CronJob then sleeps until something else happens;
  TLC finds the second when it is not set apart, and `LastStartRuns` sets it apart too. After an
  error the back-off may pass the next start, so no more is promised than that it ends.
* cron_once has history limits of one, jobs that start in the order of their nominal times, and
  users who leave jobs alone: LastScheduleTime is rebuilt from the jobs that exist
  (`cronjob_controller.go:143`), so when the newest is deleted the status goes back and its
  nominal time runs again (a limit of 0 or `JobsStartInOrder = FALSE` makes `RunsOnce` and
  `LastScheduleTimeAdvances` fail).
* A `startingDeadlineSeconds` above about 292 years wraps around (`Wrapped`), and the deadline
  then lies in the future.
* In app_sync what is promised of children is promised of those that go by their App's own name.
  The deletion of another child adds the child's key to the queue and not the App's
  (`crd-controller-demo/pkg/controller/controller.go:140`), so nobody makes it again.
* `AdmittedIsKept` says which admitted schedules can be read in v2: those of five words with one
  blank between them. `@hourly`, double blanks and a trailing blank pass the validation of v1
  and are an error of `ConvertFrom`.

### Where the code does not do what it says

* `ingress_leftover`: the annotation is removed while the new ingress is not yet in the cache;
  the sync finds nothing to delete and nothing brings the key back
  (`addingress/pkg/controller.go:205`).
* `app_copies`: `DeepCopyInto` of an App assigns its status, which holds two pointers; it was
  generated before the type had them. `ApplicationList` of code-generator-demo has the same gap in
  its `ListMeta`.
* `deleteIngress` panics on a tombstone (`addingress/pkg/controller.go:88`). This ends the
  process; `HandlerPanics` is an action of `AddIngress`, and the runs show what survives it.

### Fairness

Weak fairness of every step of the programs, the API server, its garbage collector and the job
controller, for each key or worker: goroutines that can run do run, watches deliver, delays
pass (the waiting loop has a heartbeat of ten seconds, and timers), jobs end, and a process that
ended is started again by its Deployment. No fairness for users, failures, broken watches,
signals or ends of the process.

`TakeItem` is fair for some worker, not for each. Get is fair for the queue as a whole and not
for each item: that every item gets its turn follows from the order of the queue, and the
refinement of `PendingWork`, whose fairness is per item, checks it. What `WorkQueue` assumes of
Get, that somebody comes for the next item, is in turn checked in queue_wait from the fairness
of goroutines that are awake: one that waits on the condition variable takes no step until it is
signalled. Fairness of `Work(w)` there includes that an item that was taken is Done, as the
deferred Done of both controllers sees to.

In app_sync and memcached fairness is per kind of step (some event arrives, some worker goes on).
That is no stronger than the fairness of each, since every event and every entry is brought on in
the end when there are finitely many.

## Proofs

`tlapm <module>` proves every obligation of the eight proof modules.

* `WorkQueueProofs`: the invariant of the work queue. No part of it is inductive alone. Get
  removes the head from `dirty` and puts it in `processing`; that the rest of the queue is still
  dirty and idle needs that no item is queued twice. Add appends only items that are neither
  dirty nor in processing, which keeps items from being queued twice because queued items are
  dirty. Done appends an item that is dirty; it was in processing, so it was not queued.
  `RefinesPendingWork` proves the safety part of `ImplementsPendingWork` under the refinement
  mapping; a Get is a Start because the head is dirty and idle.
* `WorkQueueCondProofs`: that no wake-up is lost (`NoWakeUpIsLost`). The invariant counts: while a
  worker sleeps, the queue is no longer than the number of workers awake in Get. A Signal may go
  to a caller of ShutDownWithDrain instead of a worker, so the invariant also says where callers
  wait: only after the queue is shut down, when no worker sleeps any more and Add does nothing.
  Every step is one of `WorkQueue` or leaves it alone (`RefinesWorkQueue`), so the plain queue's
  invariant holds and gives `ItemsHaveOneHolder`. Workers leave only after the shutdown
  (`LeftAfterShutdown`), when Add does nothing; the last one holds nothing and finds the queue
  empty, and an item that is dirty would be queued or held, so nothing is left behind
  (`WorkersLeaveNothingBehind`). Who sleeps in ShutDownWithDrain is alone on the condition
  variable, so the Signal of the last Done goes there (`DrainSleepsUntilDone`, by `DrainInv`).
  Assumption: finitely many workers, none of them a caller.
* `RateLimitedQueueProofs`: each operation is one of the plain queue or leaves it alone
  (`RefinesWorkQueue`), so the plain queue's invariant holds of the queue inside by the lemmas
  of `WorkQueueProofs`; the channel's bound follows from the guard of AddRateLimited; an entry
  leaves the delaying queue only into the dirty set (`EntriesAreKept`). Assumption: the
  capacity is a positive number.
* `InformerProofs`: types; the cache catches up, because each event carries the object that was
  stored when it was sent and a re-list sends what is stored or a tombstone for what is cached
  and no longer stored; notifications follow the cache. `Agrees` and its lemmas say the same of an
  informer whose process may end and start again, for the modules that compose it.
* `AddIngressProofs`: the invariant is that of each part in its place (the rate limited queue, the
  two informers while the process runs), that a key which is in processing is held by one worker
  and by the one that took it, and what workers know at each point of a sync. Each action of the
  controller is one of the queue and the informers or leaves them alone, so their lemmas carry
  over; a worker takes a key that is not in processing because queued keys are idle. Hence
  `TypeCorrect` with the bound on failure counts, `OneWorkerHoldsAKey`,
  `ListersNeverWrongForGood`, for any services, workers and bounds. Assumptions: `Capacity`
  positive, the bounds numbers, `Absent` no object. `RunsItsParts` is the composition itself: every
  step of the controller is one of the queue's, or one that ends the process and its queue, or
  leaves the queue alone; and so for each informer.
  `NoServiceForgotten` (`SettledServiceHasIngress`) has an invariant of its own (`SyncInv`).
  updateService and deleteIngress drop an event that shows them nothing new, so `Changes` says
  that each event and each notification differs from the one before it. A worker knows that what
  it read of the service is what is stored, or that another sync of the key follows
  (`SyncKnows`); an ingress that was left because it existed and goes away will be seen to go
  (`IngressSeen`); so a service that lacks its ingress after a good sync has something under way
  (`NothingLost`). Conditions: no broken watch and no ingresses of others (`Undisturbed`), without
  which it fails (see the assumptions above).
* `MemcachedProofs`: the finalizer is removed last (`OperationsBeforeRemoval`). Reads are stale, so
  the invariant relates what Reconcile has in hand, what is cached and what is on its way to the
  stored resource: everything seen is a past state of it, and with the same uid and version it is
  the stored one. An update that is admitted therefore means that what is in hand is stored
  (`UpdateEnds`). On the way to the removal the invariant says what is known at each step: the
  resource is being deleted, its operations were done, its status says so. These facts survive
  other actors because a deletion is never taken back and only Reconcile takes its finalizer off
  (`FinalizerStays`). Assumptions: the bounds are numbers, `Absent` no object.
  `NothingForgotten` (`AtRestMeansReconciled`) needs what `Resting` says: while nothing about the
  resource or its Deployment is on its way and no other request waits, what Reconcile has in hand
  is what is stored, so that past each step the work of that step is done: the finalizer is there
  when it looks for the Deployment, the Deployment is there and has the right size when it writes
  "Available". Whatever disturbs this, a user's change or a write of its own, is an event that
  brings another Reconcile.
* `AppControllerProofs`: types; a worker syncs from full caches only (`SyncsReadFullCaches`); no
  sync undoes what a user wrote into a spec (`SyncsKeepTheSpec`). The status that `syncApp` writes
  into the objects of the cache makes cached Apps that were never stored, so the invariant compares
  without it: every App that is stored, cached, on its way or in hand is older than the stored one
  of its uid, or has its spec (`IsPast`). That survives a write because versions grow, and a
  deletion because a uid comes from the count of the users' operations and does not come back.
  An admitted update has the stored version, hence the stored spec. For the caches the invariant
  says that an informer which was not listed has an empty cache and nothing on the way, one
  which was ends with what is stored, and that `main` runs workers only when all three were
  listed. What each action does to the Apps, the children, the workers and the queue is stated
  first (`AppMoves`, `ChildMoves`, `WorkerMoves`, `QueueMoves`), then that each of these moves
  keeps its part of the invariant. Assumptions: `Capacity` positive, the bounds numbers, `Absent`
  neither a name nor an object, specs name Deployments and Services.
  `NoAppForgotten` (`SettledAppHasChildren`) says that a good sync leaves no App without a child
  it asked for, unless something about it is under way. The queue inside has the invariant of
  `WorkQueueProofs`, and a key in processing has one holder (`Holders`). An event of an App has
  another version than the one before it (`AppChanges`), so the handler drops none; events of a child keep its
  owner (`ChildChanges`). A child that was seen with its owner, or will be, stays so until its
  deletion brings the key back (`Noticed`); a sync knows of each child it has passed that it was
  seen, or is to run again (`Knows`). Once the stop channel is closed nothing is claimed, since
  the queue may refuse the key; the next start of the process lists every App again.
  `OneWorkerHoldsAnApp` has `Holders` alone, for any number of workers. `RunsItsQueue` says that the
  program keeps the queue's contract: Done, Forget and AddRateLimited come for a key in hand, and
  retries end at `MaxRetry`, so every step is one of `RateLimitedQueue`, or ends the program, or
  leaves the queue alone.
* `CronJobProofs`: first `getNextSchedule` (`NextScheduleAnswers`): its loop is a recursive
  function, and that a set of naturals has a least element (`LeastNatural`, from the
  well-foundedness of `<`) gives the closed form of the times it visits (`VisitsEveryStart`).
  From it, a longer deadline reports the run a shorter one reports, or fails
  (`LongerDeadlineAdmitsTheSame`): that run is a start in the current period, and only one is.
  With the number of due starts it gives what the run `functions` checks: the function fails just
  when too many starts are due, or the schedule never comes due (`TheScheduleIsAnswered`), and a
  longer deadline admits more (`DeadlinesAreMonotone`), for all periods, times and deadlines that
  do not wrap around.
  `AdmissionKeepsWhatItAdmits` proves `AdmittedIsKept` for schedules of any length over any words.
  The conversion writes five words and reads five, so that they can be written out and no
  induction is needed: a schedule that is accepted has five words or is one descriptor
  (`AcceptedWords`), and reading five words gives back what was written (`WrittenInV2`,
  `RoundTrip`). Assumptions: the star is a word, neither it nor the empty word is a descriptor, and
  `NoValue` is no sequence of words.
  Then the promises of the reconciler. `Inv`, the invariant they share, has the types, that each
  cache ends with what is stored, that what is seen of CronJobs and jobs was once there (uids are
  given in order, jobs are no earlier than their nominal time), and what is in hand at each step:
  a missed run is later than every job that was listed. What each action does to the counters, the
  CronJob, the jobs and what is in hand is stated first (`CountersMove`, `CronJobMoves`,
  `JobsMove`, `HandMoves`). Each promise then has an invariant of its own and its own conditions,
  which are hypotheses of the theorem; TLC violates the promise when any one of them is dropped
  (`UserDeletesJobs` and a CronJob created again need `MaxOps` of 2 and 3).
  - `NoRunTwice` (`RunsOnce`): a nominal time that was run has its job or is superseded, a period
    or more in the past (`OnceInv`); only a time of the current period is run, and its job is in
    the way. Conditions: both history limits are at least one, jobs start in the order of their
    nominal times and users delete no jobs, because a run is remembered by its job alone; and the CronJob is not deleted between the status update
    and the end of a Reconcile (`DeletesBetweenReconciles`), because the garbage collector then
    takes the job away and the Reconcile makes it again for a CronJob that is gone. Nothing is
    asked of caches, failures or crashes.
  - `LastTimeAdvances` (`LastScheduleTimeAdvances`): for each job that was seen there is one no
    earlier that remains, in the cluster, in the cache and in all events on their way
    (`AdvanceInv`), while the policy is not Replace (`NotReplaced`; a policy never changes).
    Conditions: limits of at least one, jobs start in the order of their nominal times, users
    delete no jobs, the CronJob is not deleted.
  - `OneRunAtATime` (`RunsDoNotOverlap`): an active job of an earlier period is in the cache as it
    is, so Reconcile lists it, and has found none or deleted all when it comes to the create
    (`OverlapInv`, as long as `onTime`). No conditions beyond that of the property.
  - `WakesInTime` (`WakesForNextStart`): while nothing about the CronJob is on its way, what is in
    hand is what is stored; `next` is then the first start after the first reading of the clock, so
    that a difference that is still positive at the second ends before the next start, and after
    a Reconcile that has ended well the timer is set for no later (`WakeInv`). A Reconcile that
    ended with an error leaves a timer. No conditions.
  Assumptions on constants: a positive period, numbers for bounds, limits and deadlines, the three
  policies, `Absent` no object.

Only model-checked:

* Liveness (`ServiceGetsIngress`, `OrphanIsCollected`, `LastStartRuns`, `ControllerSettles`, the
  fairness in the refinements, and the others): it rests on fairness, hence on
  ENABLED, for which the provers have no rules.
* `CopySharesNothing`: DeepCopy is a recursive operator over the table of the types. The table is
  constant and the run copies every set of references that an object of the listed types may have,
  so that TLC's check leaves no case out.
* The two violation runs.

## Not modelled

* How long delays are: exponential backoff and token bucket. The queue's metrics.
* controller-runtime and `robfig/cron` are not in the repository; they are modelled from how the
  operators use them and marked external. What they use of client-go and apimachinery is vendored
  and mapped to its lines.
* The watch of the App controller does not break (that of `AddIngress` does), and its resync every
  30 s takes no step, since `UpdateApp` finds old and new equal.
* Guestbook's empty Reconcile; the two demo programs, which make one call each (their types are in
  `DeepCopy`).
* The generated clientsets, informers and listers beyond what the App controller's program calls:
  wrappers of the REST client.
* Flags, metrics, probes, leader election, manifests.

## What is left

Each invariant that a passing run checks on a module with proofs is a theorem, except
`CopySharesNothing`. What could be added: a watch that breaks in the App controller, and more
than one CronJob or Memcached resource in controller-runtime's queue. The
liveness properties wait for provers with rules for ENABLED.
