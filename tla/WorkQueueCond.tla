---------------------------- MODULE WorkQueueCond ----------------------------
(***************************************************************************)
(* The work queue of client-go with its condition variable: the workers     *)
(* that block in Get, the callers of ShutDown and ShutDownWithDrain, and    *)
(* the one q.cond on which both kinds of goroutine wait                     *)
(* (util/workqueue/queue.go).  Each action is one critical section.  Signal *)
(* wakes one waiter, whoever that is; a goroutine that is woken looks at    *)
(* the queue again before it goes on.                                       *)
(***************************************************************************)
EXTENDS Naturals, Sequences, FiniteSets

CONSTANTS Items, Workers

Callers == {"ShutDown", "ShutDownWithDrain"}       \* one goroutine calls each

ASSUME WorkersAssumption ==
  /\ IsFiniteSet(Workers)
  /\ Workers \cap Callers = {}
  /\ Items \cap {"get", "left"} = {}

VARIABLES queue, dirty, processing, shuttingDown,
          drain,
          waiting,          \* the goroutines that are in q.cond.Wait()
          worker,           \* worker -> the item it holds, or "get", or "left"
          caller            \* caller -> its program counter

wqVars == <<queue, dirty, processing, shuttingDown>>
vars   == <<wqVars, drain, waiting, worker, caller>>

WQ == INSTANCE WorkQueue

TypeOK ==
  /\ WQ!TypeOK
  /\ drain \in BOOLEAN
  /\ waiting \in SUBSET (Workers \cup Callers)
  /\ worker \in [Workers -> Items \cup {"get", "left"}]
  /\ caller \in [Callers -> {"idle", "shutdown", "isProcessing", "shouldDrain",
                             "waitForProcessing", "returned"}]

Init ==
  /\ WQ!Init
  /\ drain = FALSE
  /\ waiting = {}
  /\ worker = [w \in Workers |-> "get"]
  /\ caller = [c \in Callers |-> "idle"]

-----------------------------------------------------------------------------
Signal ==
  \/ waiting = {} /\ UNCHANGED waiting
  \/ \E g \in waiting : waiting' = waiting \ {g}

Broadcast == waiting' = {}

(* Slip, for a mutant run: the signal only when the queue was empty.        *)
AddSignalWhenEmpty(i) ==
  /\ WQ!Add(i)
  /\ IF queue = << >> /\ queue' # queue THEN Signal ELSE UNCHANGED waiting
  /\ UNCHANGED <<drain, worker, caller>>

Add(i) ==
  /\ WQ!Add(i)
  /\ IF ~shuttingDown /\ i \notin dirty \cup processing THEN Signal ELSE UNCHANGED waiting
  /\ UNCHANGED <<drain, worker, caller>>

(* Get by a worker that is awake: it waits, or gives up, or takes an item. *)
InGet(w) == worker[w] = "get" /\ w \notin waiting

Wait(w) ==
  /\ InGet(w)
  /\ queue = << >> /\ ~shuttingDown
  /\ waiting' = waiting \cup {w}
  /\ UNCHANGED <<wqVars, drain, worker, caller>>

(* Slip, for a mutant run: a shutdown ends workers whatever is queued. *)
LeaveAtOnce(w) ==
  /\ InGet(w)
  /\ shuttingDown
  /\ worker' = [worker EXCEPT ![w] = "left"]
  /\ UNCHANGED <<wqVars, drain, waiting, caller>>

Leave(w) ==
  /\ InGet(w)
  /\ queue = << >> /\ shuttingDown
  /\ worker' = [worker EXCEPT ![w] = "left"]
  /\ UNCHANGED <<wqVars, drain, waiting, caller>>

(* Slip, for a mutant run: shuttingDown is looked at first. *)
TakeUnlessShuttingDown(w) ==
  /\ InGet(w)
  /\ \E i \in Items :
       /\ ~shuttingDown
       /\ WQ!Get(i)
       /\ worker' = [worker EXCEPT ![w] = i]
  /\ UNCHANGED <<drain, waiting, caller>>

Take(w) ==
  /\ InGet(w)
  /\ \E i \in Items :
       /\ WQ!Get(i)
       /\ worker' = [worker EXCEPT ![w] = i]
  /\ UNCHANGED <<drain, waiting, caller>>

(* Slip, for a mutant run: only a new item in the queue is signalled. *)
DoneSignalsWorkersOnly(w) ==
  /\ worker[w] \in Items
  /\ WQ!Done(worker[w])
  /\ IF worker[w] \in dirty THEN Signal ELSE UNCHANGED waiting
  /\ worker' = [worker EXCEPT ![w] = "get"]
  /\ UNCHANGED <<drain, caller>>

Done(w) ==
  /\ worker[w] \in Items
  /\ WQ!Done(worker[w])
  /\ IF worker[w] \in dirty \/ processing' = {} THEN Signal ELSE UNCHANGED waiting
  /\ worker' = [worker EXCEPT ![w] = "get"]
  /\ UNCHANGED <<drain, caller>>

-----------------------------------------------------------------------------
Goto(c, pc) == caller' = [caller EXCEPT ![c] = pc]

SetDrain(c) ==
  /\ caller[c] = "idle"
  /\ drain' = (c = "ShutDownWithDrain")
  /\ Goto(c, "shutdown")
  /\ UNCHANGED <<wqVars, waiting, worker>>

(* Slip, for a mutant run: one waiter is woken. *)
CloseSignal(c) ==
  /\ caller[c] = "shutdown"
  /\ WQ!ShutDown /\ Signal
  /\ Goto(c, IF c = "ShutDownWithDrain" THEN "isProcessing" ELSE "returned")
  /\ UNCHANGED <<drain, worker>>

Close(c) ==
  /\ caller[c] = "shutdown"
  /\ WQ!ShutDown /\ Broadcast
  /\ Goto(c, IF c = "ShutDownWithDrain" THEN "isProcessing" ELSE "returned")
  /\ UNCHANGED <<drain, worker>>

(* The loop of ShutDownWithDrain, which takes the lock anew for each test.  *)
IsProcessing(c) ==
  /\ caller[c] = "isProcessing" /\ c \notin waiting
  /\ Goto(c, IF processing = {} THEN "returned" ELSE "shouldDrain")
  /\ UNCHANGED <<wqVars, drain, waiting, worker>>

ShouldDrain(c) ==
  /\ caller[c] = "shouldDrain"
  /\ Goto(c, IF drain THEN "waitForProcessing" ELSE "returned")
  /\ UNCHANGED <<wqVars, drain, waiting, worker>>

WaitForProcessing(c) ==
  /\ caller[c] = "waitForProcessing"
  /\ waiting' = IF processing = {} THEN waiting ELSE waiting \cup {c}
  /\ Goto(c, "isProcessing")
  /\ UNCHANGED <<wqVars, drain, worker>>

-----------------------------------------------------------------------------
Work(w) == Wait(w) \/ Leave(w) \/ Take(w) \/ Done(w)
Shut(c) == Close(c) \/ IsProcessing(c) \/ ShouldDrain(c) \/ WaitForProcessing(c)

Next ==
  \/ \E i \in Items : Add(i)
  \/ \E w \in Workers : Work(w)
  \/ \E c \in Callers : SetDrain(c) \/ Shut(c)

Spec == Init /\ [][Next]_vars

(* Goroutines that are not blocked run, and every item that was taken is    *)
(* Done.  Nobody has to call ShutDown.                                      *)
Fairness ==
  /\ \A w \in Workers : WF_vars(Work(w))
  /\ \A c \in Callers : WF_vars(Shut(c))

FairSpec == Spec /\ Fairness

-----------------------------------------------------------------------------
Sleeping == waiting \cap Workers
Awake    == {w \in Workers : InGet(w)}

(* No wake-up is lost: while any worker sleeps in Get, there are as many    *)
(* workers on their way to the queue as there are items in it, although a   *)
(* Signal wakes one goroutine only and callers of ShutDownWithDrain wait on *)
(* the same condition (queue.go 138, 157, 189, 239).                        *)
NoWorkerSleepsOnWork == Sleeping # {} => Len(queue) <= Cardinality(Awake)

(* What is being processed is what the workers hold, each by one of them.   *)
HeldByOneWorker ==
  /\ processing = {worker[w] : w \in {v \in Workers : worker[v] \in Items}}
  /\ \A v, w \in Workers : v # w /\ worker[v] \in Items => worker[v] # worker[w]

(* When the last worker has left Get, it leaves no work behind: an item     *)
(* that was added again while it was processed, and that its Done queues    *)
(* after other workers found the queue empty and left, is still taken       *)
(* (queue.go 155-168, 180-193).                                             *)
NothingLeftBehind ==
  Workers # {} /\ (\A w \in Workers : worker[w] = "left") =>
    queue = << >> /\ dirty = {} /\ processing = {}

(* A caller of ShutDownWithDrain sleeps only while there is a Done to come  *)
(* that wakes it: what it found before it waited still holds, although it   *)
(* gives the lock back between the tests of its loop, and no worker sleeps  *)
(* beside it that the one Signal could go to (queue.go 189-191, 221-240).   *)
CallerSleepsUntilDone ==
  waiting \cap Callers # {} => processing # {} /\ Sleeping = {}

(* The blocking queue is a work queue as module WorkQueue has it: what that *)
(* module assumes of its workers, that some worker always comes for the     *)
(* next item, is what waiting and signalling provide.                       *)
ImplementsWorkQueue == WQ!FairSpec

(* "immediately instruct the worker goroutines to exit" (queue.go 196): all *)
(* workers end, and not before the items they were left are done.           *)
WorkersLeave ==
  shuttingDown ~> (dirty = {} /\ \A w \in Workers : worker[w] = "left")

(* Who shuts the queue down is not kept waiting: "as soon as the worker     *)
(* goroutines have drained ... ShutDownWithDrain will return" (queue.go     *)
(* 202), also when ShutDown is called beside it.                            *)
CallersReturn ==
  \A c \in Callers : caller[c] = "shutdown" ~> caller[c] = "returned"
=============================================================================
