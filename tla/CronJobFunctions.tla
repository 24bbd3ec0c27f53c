--------------------------- MODULE CronJobFunctions ---------------------------
(***************************************************************************)
(* What the pure functions of the CronJob operator promise: getNextSchedule *)
(* (CronSchedule), the conversion and the admission of CronJobs             *)
(* (CronJobAPI).  The input of a function is a state.                       *)
(***************************************************************************)
EXTENDS CronSchedule, CronJobAPI

VARIABLE input

-----------------------------------------------------------------------------
(* getNextSchedule *)

Result(i) == GetNextSchedule(i.period, i.last, i.deadline, i.now)

(* The nominal times that are due and not excluded by the deadline. *)
Due(i) ==
  {t \in 1..i.now : /\ i.period # 0 /\ t % i.period = 0
                    /\ t > i.last
                    /\ i.deadline = NoDeadline \/ t > i.now - Second * i.deadline}

(* The run to start is the latest that is due, the next one is the first    *)
(* after now, more than TooMany due ones are an error, and so is a schedule *)
(* that never comes due (unless the last start lies in the future, or the   *)
(* deadline is negative, which the API of v1 does not exclude).             *)
AnswersTheSchedule ==
  input.of = "schedule" =>
  LET due == Due(input) IN LET r == Result(input) IN
    /\ r.err <=> \/ Cardinality(due) > TooMany
                 \/ /\ input.period = 0 /\ input.last <= input.now
                    /\ input.deadline = NoDeadline \/ input.deadline >= 0
    /\ ~r.err =>
         /\ r.missed = IF due = {} THEN ZeroTime ELSE Max(due)
         /\ input.period # 0 =>
              /\ r.next > input.now /\ r.next % input.period = 0
              /\ \A t \in (input.now + 1)..(r.next - 1) : t % input.period # 0

(* "Optional deadline in seconds for starting the job if it misses          *)
(* scheduled time for any reason" (api/v1/cronjob_types.go): a longer       *)
(* deadline admits every start that a shorter one admits.                   *)
LongerDeadlineAdmitsMore ==
  input.of = "schedule" /\ input.deadline # NoDeadline =>
    \A d \in 0..(input.deadline - 1) :
      Result([input EXCEPT !.deadline = d]).missed # ZeroTime
        => Result(input).err \/ Result(input).missed # ZeroTime

-----------------------------------------------------------------------------
(* Versions and webhooks *)

ToV1(c)     == IF c.of = "v1" THEN c ELSE ConvertTo(c)
Admitted(c) == Validate(Default(ToV1(c)))
Stored(c)   == Default(ToV1(c))

Given(schedule) == [f \in DOMAIN schedule |-> IF schedule[f] = NoValue THEN Star ELSE schedule[f]]

(* What is admitted in either version stays what it is: it can be read in   *)
(* v2 if it is made of five words with one blank between them and only      *)
(* then, who reads it there and writes it back changes nothing, v2 users    *)
(* read what they wrote; and its jobs have names that the API server takes  *)
(* (ConvertTo, ConvertFrom, Default, validateCronJob).                      *)
AdmittedIsKept ==
  input.of \in {"v1", "v2"} /\ Admitted(input) =>
  LET stored == Stored(input) IN
    /\ Convertible(stored)
         <=> "" \notin ToSet(stored.schedule) /\ ToSet(stored.schedule) \cap Descriptors = {}
    /\ Convertible(stored) =>
         /\ Default(ConvertTo(ConvertFrom(stored))) = stored
         /\ input.of = "v2" => Given(ConvertFrom(stored).schedule) = Given(input.schedule)
    /\ JobNameLength(stored) <= LabelMaxLength
=============================================================================
