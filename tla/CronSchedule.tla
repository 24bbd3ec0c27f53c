----------------------------- MODULE CronSchedule -----------------------------
(***************************************************************************)
(* getNextSchedule of cronJob-operator's cronjob_controller.go (208-259) as *)
(* a pure function.  Time is counted in the unit of a Go Duration; a        *)
(* schedule is its period, the nominal times are the positive multiples,    *)
(* and the period 0 stands for a schedule that parses and never comes due   *)
(* ("0 0 30 2 *"), for which the cron library answers with the zero time.   *)
(***************************************************************************)
EXTENDS Integers, FiniteSets, FiniteSetsExt

CONSTANTS Second,           \* units in a second, 10^9 in the code
          Bits,             \* width of a Duration, 64 in the code
          NoDeadline,       \* StartingDeadlineSeconds is nil
          TooMany           \* missed starts the code is ready to walk over, 100

ASSUME ScheduleAssumption ==
  /\ Second \in Nat \ {0} /\ Bits \in Nat \ {0} /\ TooMany \in Nat
  /\ 2^(Bits - 1) \in Nat \ {0} /\ 2^Bits = 2 * 2^(Bits - 1)   \* the provers do not know 2^n
  /\ NoDeadline \notin Int

ZeroTime == 0

(* cron.Schedule.Next: the first nominal time after t. *)
NextStart(period, t) == IF period = 0 THEN ZeroTime ELSE ((t \div period) + 1) * period

(* Slip, for a mutant run: the product is computed in a narrower integer. *)
WrappedNarrow(x) == LET half == 2^(Bits - 2) IN ((x + half) % 2^(Bits - 1)) - half

(* A product of Durations wraps around at its width. *)
Wrapped(x) == LET half == 2^(Bits - 1) IN ((x + half) % 2^Bits) - half

(* The first time at which a start still counts. *)
EarliestTime(last, deadline, now) ==
  IF deadline = NoDeadline THEN last
  ELSE LET schedulingDeadline == now + Wrapped(-Second * deadline)
       IN IF schedulingDeadline > last THEN schedulingDeadline ELSE last

(* The n-th time the loop visits. *)
Visited(period, earliest) ==
  LET visit[n \in 0..(TooMany + 1)] ==
        IF n = 0 THEN earliest ELSE NextStart(period, visit[n - 1])
  IN visit

(* Slips of getNextSchedule, for the mutant runs. *)
GetNextScheduleExclusive(period, last, deadline, now) ==
  LET earliest == EarliestTime(last, deadline, now)
      visit    == Visited(period, earliest)
      starts   == {n \in 1..(TooMany + 1) : \A m \in 1..n : visit[m] < now}
  IN IF earliest > now THEN [err |-> FALSE, missed |-> ZeroTime, next |-> NextStart(period, now)]
     ELSE IF TooMany + 1 \in starts THEN [err |-> TRUE, missed |-> ZeroTime, next |-> ZeroTime]
     ELSE [err |-> FALSE, missed |-> IF starts = {} THEN ZeroTime ELSE visit[Max(starts)],
           next |-> NextStart(period, now)]

(* last is Status.LastScheduleTime, or the creation time when that is nil.  *)
(* The loop walks over the starts up to now; one more than TooMany of them  *)
(* is an error.                                                             *)
GetNextSchedule(period, last, deadline, now) ==
  LET earliest == EarliestTime(last, deadline, now)
      visit    == Visited(period, earliest)
      starts   == {n \in 1..(TooMany + 1) : \A m \in 1..n : visit[m] <= now}
  IN IF earliest > now THEN [err |-> FALSE, missed |-> ZeroTime, next |-> NextStart(period, now)]
     ELSE IF TooMany + 1 \in starts THEN [err |-> TRUE, missed |-> ZeroTime, next |-> ZeroTime]
     ELSE [err |-> FALSE, missed |-> IF starts = {} THEN ZeroTime ELSE visit[Max(starts)],
           next |-> NextStart(period, now)]
=============================================================================
