------------------------------- MODULE CronJob -------------------------------
(***************************************************************************)
(* The CronJob operator: CronJobReconciler.Reconcile of                     *)
(* cronJob-operator/internal/controller/cronjob_controller.go for one       *)
(* CronJob, with its jobs, the API server, the cached client and the queue  *)
(* of controller-runtime, a clock, and the users.                           *)
(*                                                                         *)
(* Each action of Reconcile is the code between two points at which the     *)
(* cluster or the clock may change under it.  A job is named after its      *)
(* nominal time (constructJobForCronJob), so jobs are a function of it.     *)
(* One Reconcile runs at a time: the controller has one worker, and a       *)
(* request that comes in meanwhile is kept until it is done.                *)
(***************************************************************************)
EXTENDS CronSchedule, Sequences

CONSTANTS Period,           \* of the schedule
          Policies,         \* values of ConcurrencyPolicy
          Deadlines,        \* values of StartingDeadlineSeconds, NoDeadline among them
          SuccessLimit, FailLimit,     \* the history limits
          Absent,
          UserDeletesJobs,  \* users delete jobs of the CronJob themselves
          JobsStartInOrder, \* jobs are started in the order of their nominal times
          MaxTime, MaxOps, MaxFaults, MaxCrashes,   \* bounds, and one on the sum of
          MaxEvents         \* users' operations, failed calls and crashes

ASSUME CronJobAssumption ==
  /\ Period \in Nat \ {0} /\ MaxTime \in Nat
  /\ Policies \subseteq {"Allow", "Forbid", "Replace"}
  /\ SuccessLimit \in Nat /\ FailLimit \in Nat
  /\ Deadlines \ {NoDeadline} \subseteq Int
  /\ {MaxOps, MaxFaults, MaxCrashes, MaxEvents} \subseteq Nat

Times == {t \in 1..MaxTime : t % Period = 0}      \* nominal times, names of jobs

VARIABLES
  now,
  cronJob, cronJobWatch, cronJobCache,      \* under the one key "cj"
  jobs, jobsWatch, jobsCache,
  requested,                \* a request is in the queue (dirty)
  wakeAt,                   \* when the delaying queue's entry is ready, or Never
  reconcile,                \* program counter and locals of Reconcile
  running,
  used,
  ended,                    \* history: how the last Reconcile ended
  onTime,                   \* history: no start fell into a Reconcile, and the caches
                            \* were up to date whenever the clock ticked
  runs                      \* history: how often a job of a nominal time was created

cronJobVars == <<cronJob, cronJobWatch, cronJobCache>>
jobVars     == <<jobs, jobsWatch, jobsCache>>
clusterVars == <<cronJobVars, jobVars>>
queueVars   == <<requested, wakeAt, ended>>
vars        == <<now, onTime, clusterVars, queueVars, reconcile, running, used, runs>>

Never == MaxTime + Period + 2
Cj    == "cj"

Uids == 1..(MaxOps + 1)
Nil  == ZeroTime            \* Status.LastScheduleTime is nil

CronJobs == [uid : Uids, created : 0..MaxTime, deadline : Deadlines,
             policy : Policies, suspend : BOOLEAN, last : Times \cup {Nil},
             active : SUBSET Times, version : Nat]
Jobs     == [owner : Uids, state : {"active", "complete", "failed"}]

ASSUME AbsentAssumption == Absent \notin CronJobs \cup Jobs

CJ  == INSTANCE Informer WITH Keys <- {Cj}, Objects <- CronJobs, Handlers <- {},
         store <- cronJob, watch <- cronJobWatch, cache <- cronJobCache,
         notes <- [k \in {Cj} |-> << >>]
Job == INSTANCE Informer WITH Keys <- Times, Objects <- Jobs, Handlers <- {},
         store <- jobs, watch <- jobsWatch, cache <- jobsCache,
         notes <- [t \in Times |-> << >>]

NoJobs == [t \in Times |-> Absent]
Idle   == [pc |-> "idle", cj |-> Absent, children |-> NoJobs, missed |-> ZeroTime,
           next |-> Never, requeueAfter |-> 0]

TypeOK ==
  /\ now \in 0..MaxTime
  /\ CJ!TypeOK /\ Job!TypeOK
  /\ requested \in BOOLEAN
  /\ wakeAt \in 0..Never
  /\ reconcile \in
       [pc : {"idle", "get", "list", "status", "history", "schedule", "requeue",
              "replace", "create"},
        cj : CronJobs \cup {Absent}, children : [Times -> Jobs \cup {Absent}],
        missed : Times \cup {ZeroTime}, next : 0..Never, requeueAfter : 0..Period]
  /\ running \in BOOLEAN
  /\ used \in [ops : 0..MaxOps, faults : 0..MaxFaults, crashes : 0..MaxCrashes]
  /\ ended \in {"settled", "error", "overtaken", "tooMany"}
  /\ onTime \in BOOLEAN
  /\ runs \in [Uids -> [Times -> Nat]]

Init ==
  /\ now = 0
  /\ CJ!Init /\ Job!Init
  /\ requested = FALSE
  /\ wakeAt = Never
  /\ reconcile = Idle
  /\ running = TRUE
  /\ used = [ops |-> 0, faults |-> 0, crashes |-> 0]
  /\ ended = "settled"
  /\ onTime = TRUE
  /\ runs = [u \in Uids |-> [t \in Times |-> 0]]

(* Slip, for a mutant run: the later of two entries is kept. *)
EarlierInverted(s, t) == IF t < s /\ s # Never THEN s ELSE t

Earlier(s, t) == IF s < t THEN s ELSE t
Live(uid)     == cronJob[Cj] # Absent /\ cronJob[Cj].uid = uid

-----------------------------------------------------------------------------
(* The users, the job controller, the garbage collector and the clock. *)

EventsAllowed(n) == used.ops + used.faults + used.crashes + n <= MaxEvents

UserOp ==
  /\ used.ops < MaxOps /\ EventsAllowed(1)
  /\ used' = [used EXCEPT !.ops = @ + 1]
  /\ UNCHANGED <<now, onTime, queueVars, reconcile, running, runs>>

CreateCronJob ==
  /\ cronJob[Cj] = Absent
  /\ \E d \in Deadlines, p \in Policies :
       CJ!Write(Cj, [uid |-> used.ops + 1, created |-> now, deadline |-> d, policy |-> p,
                     suspend |-> FALSE, last |-> Nil, active |-> {}, version |-> 1], running)
  /\ UserOp
  /\ UNCHANGED jobVars

SuspendOrResume ==
  /\ cronJob[Cj] # Absent
  /\ CJ!Write(Cj, [cronJob[Cj] EXCEPT !.suspend = ~@, !.version = @ + 1], running)
  /\ UserOp
  /\ UNCHANGED jobVars

DeleteCronJob ==
  /\ cronJob[Cj] # Absent
  /\ CJ!Write(Cj, Absent, running)
  /\ UserOp
  /\ UNCHANGED jobVars

DeleteJob(t) ==
  /\ UserDeletesJobs
  /\ jobs[t] # Absent
  /\ Job!Write(t, Absent, running)
  /\ UserOp
  /\ UNCHANGED cronJobVars

JobFinishes(t) ==
  /\ jobs[t] # Absent
  /\ jobs[t].state = "active"
  /\ \E s \in {"complete", "failed"} : Job!Write(t, [jobs[t] EXCEPT !.state = s], running)
  /\ UNCHANGED <<now, onTime, cronJobVars, queueVars, reconcile, running, used, runs>>

(* A job whose CronJob is gone is deleted by the garbage collector. *)
Collect(t) ==
  /\ jobs[t] # Absent
  /\ ~Live(jobs[t].owner)
  /\ Job!Write(t, Absent, running)
  /\ UNCHANGED <<now, onTime, cronJobVars, queueVars, reconcile, running, used, runs>>

CachesUpToDate ==
  cronJobWatch[Cj] = << >> /\ \A t \in Times : jobsWatch[t] = << >>

Tick ==
  /\ now < MaxTime
  /\ now' = now + 1
  /\ onTime' = /\ onTime
               /\ CachesUpToDate
               /\ reconcile.pc # "idle" => (now + 1) % Period # 0
  /\ UNCHANGED <<clusterVars, queueVars, reconcile, running, used, runs>>

-----------------------------------------------------------------------------
(* controller-runtime: informers, and the queue with its delaying part.     *)
(* For(CronJob) and Owns(Job): every change of a cache requests a Reconcile; *)
(* the notification that carries the request is part of the step, for the   *)
(* request may wait as long.                                                *)

Receive ==
  /\ running
  /\ \/ CJ!Receive(Cj) /\ UNCHANGED jobVars
     \/ \E t \in Times : Job!Receive(t) /\ UNCHANGED cronJobVars
  /\ requested' = TRUE
  /\ UNCHANGED <<now, onTime, wakeAt, ended, reconcile, running, used, runs>>

(* The delaying queue holds one entry for the request; AddAfter on an entry *)
(* that is there keeps the earlier of the two times.                        *)
WakeUp ==
  /\ wakeAt <= now
  /\ wakeAt' = Never
  /\ requested' = TRUE
  /\ UNCHANGED <<now, onTime, clusterVars, ended, reconcile, running, used, runs>>

Crash ==
  /\ running
  /\ used.crashes < MaxCrashes /\ EventsAllowed(1)
  /\ used' = [used EXCEPT !.crashes = @ + 1]
  /\ running' = FALSE
  /\ CJ!Stop /\ Job!Stop
  /\ requested' = FALSE /\ wakeAt' = Never /\ ended' = "settled"
  /\ reconcile' = Idle
  /\ UNCHANGED <<now, onTime, runs>>

Restart ==
  /\ ~running
  /\ running' = TRUE
  /\ CJ!Start /\ Job!Start
  /\ requested' = (cronJob[Cj] # Absent \/ jobs # NoJobs)
  /\ UNCHANGED <<now, onTime, wakeAt, ended, reconcile, used, runs>>

-----------------------------------------------------------------------------
(* Reconcile. *)

At(pc) == reconcile.pc = pc

(* Reconcile ends and asks for the next one after a delay (0: it does not   *)
(* ask); the queue adds the delay to the clock when it takes the entry, and *)
(* that clock may have ticked since the delay was computed.                 *)
Return(requeueAfter) ==
  /\ reconcile' = Idle
  /\ wakeAt' = IF requeueAfter = 0 THEN wakeAt ELSE Earlier(wakeAt, now + requeueAfter)
  /\ ended' = "settled"

(* Reconcile ends without an error, and nothing was asked of the queue.     *)
GiveUp(why) == reconcile' = Idle /\ ended' = why /\ UNCHANGED wakeAt

(* Slip, for a mutant run: the error is logged and not returned. *)
ReturnErrorLogged == GiveUp("error")

(* An error: the queue chooses a delay, which grows with every failure of   *)
(* the request and may pass any start; here, any within the model's time.   *)
ReturnError ==
  /\ reconcile' = Idle
  /\ \E time \in now..MaxTime : wakeAt' = Earlier(wakeAt, time)
  /\ ended' = "error"

Proceed(changed) == reconcile' = changed /\ UNCHANGED <<wakeAt, ended>>

Fault(n) ==
  /\ used.faults + n <= MaxFaults /\ EventsAllowed(n)
  /\ used' = [used EXCEPT !.faults = @ + n]

BeginReconcile ==
  /\ running /\ At("idle")
  /\ requested
  /\ requested' = FALSE
  /\ reconcile' = [Idle EXCEPT !.pc = "get"]
  /\ ended' = "settled"
  /\ UNCHANGED wakeAt
  /\ UNCHANGED <<now, onTime, clusterVars, running, used, runs>>

GetCronJob ==
  /\ At("get")
  /\ LET cj == cronJobCache[Cj] IN
       IF cj = Absent THEN Return(0)
       ELSE Proceed([reconcile EXCEPT !.pc = "list", !.cj = cj])
  /\ UNCHANGED <<now, onTime, clusterVars, requested, running, used, runs>>

(* The index goes by the name of the owner, not by its uid. *)
ListJobs ==
  /\ At("list")
  /\ Proceed([reconcile EXCEPT !.pc = "status", !.children = jobsCache])
  /\ UNCHANGED <<now, onTime, clusterVars, requested, running, used, runs>>

In(children, state) == {t \in Times : children[t] # Absent /\ children[t].state = state}

LatestOf(S)         == IF S = {} THEN Nil ELSE Max(S)

(* Slip, for a mutant run: only the jobs that still run are looked at. *)
LastRunOfActive(children) == LatestOf(In(children, "active"))

LastRun(children)   == LatestOf({t \in Times : children[t] # Absent})
ActiveJobs          == In(reconcile.children, "active")

(* The status is computed from the jobs alone; the update carries the       *)
(* version that was read, and one that changes nothing writes nothing.      *)
UpdateStatus ==
  /\ At("status")
  /\ LET read    == reconcile.cj
         current == cronJob[Cj]
         status  == [read EXCEPT !.last = LastRun(reconcile.children), !.active = ActiveJobs]
         updated == IF status = read THEN read ELSE [status EXCEPT !.version = @ + 1]
         fresh   == current # Absent /\ current.uid = read.uid /\ current.version = read.version
         write   == /\ IF updated = read THEN UNCHANGED cronJobVars
                       ELSE CJ!Write(Cj, updated, TRUE)
                    /\ UNCHANGED jobVars
     IN \/ /\ fresh /\ write /\ UNCHANGED used
           /\ Proceed([reconcile EXCEPT !.pc = "history", !.cj = updated])
        \/ ~fresh /\ ReturnError /\ UNCHANGED <<clusterVars, used>>
        \/ Fault(1) /\ fresh /\ write /\ ReturnError
        \/ Fault(1) /\ ReturnError /\ UNCHANGED clusterVars
  /\ UNCHANGED <<now, onTime, requested, running, runs>>

DeleteJobs(S) ==
  LET there == {t \in S : jobs[t] # Absent} IN
  /\ jobs' = [t \in Times |-> IF t \in there THEN Absent ELSE jobs[t]]
  /\ jobsWatch' = [t \in Times |->
       IF t \in there THEN Append(jobsWatch[t], Job!Event(Absent)) ELSE jobsWatch[t]]
  /\ UNCHANGED <<cronJobVars, jobsCache>>

Oldest(S, limit) == {t \in S : Cardinality({s \in S : s > t}) >= limit}

(* The jobs to delete: all but limit of them, by Status.StartTime, which    *)
(* the job controller sets, to the second, when it gets to the job; jobs    *)
(* without one come first.  Unless jobs start in the order of their nominal *)
(* times, these may be any as many.                                         *)
Surplus(S, limit) ==
  IF JobsStartInOrder THEN {Oldest(S, limit)}
  ELSE {some \in SUBSET S : Cardinality(some) = Cardinality(Oldest(S, limit))}

(* A job that cannot be deleted is logged and left alone. *)
CleanUpHistory ==
  /\ At("history")
  /\ \E failed \in Surplus(In(reconcile.children, "failed"), FailLimit),
        complete \in Surplus(In(reconcile.children, "complete"), SuccessLimit) :
       \E kept \in SUBSET (failed \cup complete) :
         /\ DeleteJobs((failed \cup complete) \ kept)
         /\ Fault(Cardinality(kept))
  /\ IF reconcile.cj.suspend THEN Return(0)
     ELSE Proceed([reconcile EXCEPT !.pc = "schedule"])
  /\ UNCHANGED <<now, onTime, requested, running, runs>>

(* getNextSchedule with the first reading of the clock; an error ends the   *)
(* Reconcile without a requeue.                                             *)
Schedule ==
  /\ At("schedule")
  /\ LET cj == reconcile.cj
         r  == GetNextSchedule(Period, IF cj.last # Nil THEN cj.last ELSE cj.created,
                               cj.deadline, now)
     IN IF r.err THEN GiveUp("tooMany")
        ELSE Proceed([reconcile EXCEPT !.pc = "requeue", !.missed = r.missed, !.next = r.next])
  /\ UNCHANGED <<now, onTime, clusterVars, requested, running, used, runs>>

(* RequeueAfter, from the second reading of the clock; what is not positive *)
(* (the next start is over by then) asks for nothing.                       *)
RequeueAfter == IF reconcile.next > now THEN reconcile.next - now ELSE 0
EndSettled   == IF RequeueAfter > 0 THEN Return(RequeueAfter) ELSE GiveUp("overtaken")
ProceedTo(pc) ==
  Proceed([reconcile EXCEPT !.pc = pc, !.next = Never, !.requeueAfter = RequeueAfter])

(* Slip, for a mutant run: the concurrency policy Forbid is not looked at. *)
DecideRunWithoutForbid ==
  /\ At("requeue")
  /\ IF reconcile.missed = ZeroTime THEN EndSettled ELSE ProceedTo("create")
  /\ UNCHANGED <<now, onTime, clusterVars, requested, running, used, runs>>

(* The later readings of the clock, taken as one. *)
DecideRun ==
  /\ At("requeue")
  /\ LET missed  == reconcile.missed
         deadline == reconcile.cj.deadline
         tooLate == deadline # NoDeadline /\ missed + Wrapped(Second * deadline) < now
         blocked == reconcile.cj.policy = "Forbid" /\ ActiveJobs # {}
     IN IF missed = ZeroTime \/ tooLate \/ blocked THEN EndSettled
        ELSE ProceedTo(IF reconcile.cj.policy = "Replace" THEN "replace" ELSE "create")
  /\ UNCHANGED <<now, onTime, clusterVars, requested, running, used, runs>>

(* Slip, for a mutant run: active jobs are left running. *)
ReplaceActiveWithoutDelete ==
  /\ At("replace")
  /\ Proceed([reconcile EXCEPT !.pc = "create"])
  /\ UNCHANGED <<now, onTime, clusterVars, requested, running, used, runs>>

(* A job that cannot be deleted ends the Reconcile; others may be gone. *)
ReplaceActive ==
  /\ At("replace")
  /\ \/ /\ DeleteJobs(ActiveJobs)
        /\ Proceed([reconcile EXCEPT !.pc = "create"])
        /\ UNCHANGED used
     \/ \E some \in SUBSET ActiveJobs :
          ActiveJobs # {} /\ DeleteJobs(some) /\ ReturnError /\ Fault(1)
  /\ UNCHANGED <<now, onTime, requested, running, runs>>

(* Slip, for a mutant run: the name is generated, so there is no conflict. *)
CreateJobUnderAnyName ==
  /\ At("create")
  /\ Job!Write(reconcile.missed, [owner |-> reconcile.cj.uid, state |-> "active"], TRUE)
  /\ runs' = [runs EXCEPT ![reconcile.cj.uid][reconcile.missed] = @ + 1]
  /\ Return(reconcile.requeueAfter)
  /\ UNCHANGED <<now, onTime, cronJobVars, requested, running, used>>

(* Create fails with AlreadyExists when the nominal time has its job. *)
CreateJob ==
  /\ At("create")
  /\ LET t   == reconcile.missed
         uid == reconcile.cj.uid
         create == /\ jobs[t] = Absent
                   /\ Job!Write(t, [owner |-> uid, state |-> "active"], TRUE)
                   /\ runs' = [runs EXCEPT ![uid][t] = @ + 1]
         nothing == UNCHANGED <<jobVars, runs>>
     IN \/ create /\ Return(reconcile.requeueAfter) /\ UNCHANGED used
        \/ jobs[t] # Absent /\ nothing /\ ReturnError /\ UNCHANGED used
        \/ Fault(1) /\ create /\ ReturnError
        \/ Fault(1) /\ nothing /\ ReturnError
  /\ UNCHANGED <<now, onTime, cronJobVars, requested, running>>

Reconcile ==
  \/ GetCronJob \/ ListJobs \/ UpdateStatus \/ CleanUpHistory
  \/ Schedule \/ DecideRun \/ ReplaceActive \/ CreateJob

-----------------------------------------------------------------------------
Next ==
  \/ CreateCronJob \/ SuspendOrResume \/ DeleteCronJob
  \/ \E t \in Times : DeleteJob(t) \/ JobFinishes(t) \/ Collect(t)
  \/ Tick
  \/ Receive \/ WakeUp
  \/ BeginReconcile \/ Reconcile
  \/ Crash \/ Restart

Spec == Init /\ [][Next]_vars

(* Time passes, jobs finish, the API server, its garbage collector and the  *)
(* goroutines of the process run, and an ended process is started again.    *)
Fairness ==
  /\ \A t \in Times : WF_vars(JobFinishes(t)) /\ WF_vars(Collect(t))
  /\ WF_vars(Tick)
  /\ WF_vars(Receive) /\ WF_vars(WakeUp)
  /\ WF_vars(BeginReconcile) /\ WF_vars(Reconcile)
  /\ WF_vars(Restart)

FairSpec == Spec /\ Fairness

-----------------------------------------------------------------------------
(* "We want job names for a given nominal start time to have a              *)
(* deterministic name to avoid the same job being created twice"            *)
(* (cronjob_controller.go 308): no nominal time of a CronJob runs twice,    *)
(* with lagging caches, failed calls that took effect, and restarts.        *)
RunsOnce == \A u \in Uids : \A t \in Times : runs[u][t] <= 1

(* "Information when was the last time the job was successfully scheduled"  *)
(* (cronjob_types.go 98): the time in the status, read off the jobs there   *)
(* are, never goes back, unless jobs are deleted as the policy Replace says.*)
LastScheduleTimeAdvances ==
  [][ (/\ cronJob[Cj] # Absent /\ cronJob[Cj].policy # "Replace"
       /\ cronJob'[Cj] # Absent /\ cronJob[Cj].uid = cronJob'[Cj].uid)
      => cronJob'[Cj].last >= cronJob[Cj].last ]_vars

(* "Forbid: forbids concurrent runs, skipping next run if previous run      *)
(* hasn't finished yet; Replace: cancels currently running job and replaces *)
(* it with a new one" (cronjob_types.go 64): one run at a time, as long as  *)
(* the operator kept up with the clock.                                     *)
RunsDoNotOverlap ==
  onTime /\ cronJob[Cj] # Absent /\ cronJob[Cj].policy # "Allow" =>
    Cardinality({t \in Times : jobs[t] # Absent /\ jobs[t].state = "active"
                                /\ Live(jobs[t].owner)}) <= 1

(* "No upcoming scheduled times, sleeping until next" (line 273): when      *)
(* nothing is under way, the queue wakes the controller for the next start  *)
(* at the latest; after an error it wakes it, if later; and it sleeps on    *)
(* only when too many starts were missed, or when the next one came between *)
(* the two readings of the clock.                                           *)
WakesForNextStart ==
  (/\ running /\ CachesUpToDate /\ ~requested /\ At("idle")
   /\ cronJob[Cj] # Absent /\ ~cronJob[Cj].suspend)
  => \/ ended = "settled" /\ wakeAt <= NextStart(Period, now)
     \/ ended = "error" /\ wakeAt # Never
     \/ ended \in {"tooMany", "overtaken"}

(* In the end the last nominal time has run, whatever was skipped before    *)
(* it, unless the CronJob is suspended, gone or too young, or the last      *)
(* Reconcile was overtaken by it between its two readings of the clock.     *)
LastStartRuns ==
  LET t == Max(Times) IN
  <>[](/\ cronJob[Cj] # Absent /\ ~cronJob[Cj].suspend /\ cronJob[Cj].created < t
       /\ ended # "overtaken"
       => runs[cronJob[Cj].uid][t] >= 1)
=============================================================================
