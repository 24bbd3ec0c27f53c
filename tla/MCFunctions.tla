------------------------------ MODULE MCFunctions ------------------------------
(***************************************************************************)
(* The pure functions of the repository on all inputs up to a bound:        *)
(* getNextSchedule, the conversion and the admission of CronJobs, and the   *)
(* generated DeepCopy functions.                                            *)
(***************************************************************************)
EXTENDS CronJobFunctions, DeepCopy

CONSTANTS MaxTime, Periods, Deadlines,     \* inputs of getNextSchedule
          MaxWords,         \* of a schedule
          CopiedTypes       \* types whose objects are copied

ScheduleInputs == [of : {"schedule"}, period : Periods, last : 0..MaxTime, now : 0..MaxTime,
                   deadline : Deadlines \cup {-1, NoDeadline}]

(* What a user leaves open is open everywhere or nowhere. *)
CronJobs(version, schedules) ==
  {c \in [of : {version}, schedule : schedules, nameLength : {52, 53}, policy : {"", "Forbid"},
          suspend : {NoValue, TRUE}, successLimit : {NoValue, 0}, failLimit : {NoValue, 2}, deadline : {NoValue}] :
     LET open == c.suspend = NoValue IN
       (c.policy = "" <=> open) /\ (c.successLimit = NoValue <=> open) /\ (c.failLimit = NoValue <=> open)}

SchedulesV1 == BoundedSeq(Words, MaxWords) \ {<< >>}
FieldsV2    == {NoValue} \cup {<<w>> : w \in Words} \cup {<<"5", w>> : w \in Words}
SchedulesV2 == [ToSet(Fields) -> FieldsV2]

CopyInputs(t) == {[of |-> "copy", type |-> t, refs |-> o]
                  : o \in {refs \in SUBSET References(t) : IsObject(t, refs)}}

Init == \/ input \in ScheduleInputs
        \/ input \in CronJobs("v1", SchedulesV1)
        \/ input \in CronJobs("v2", SchedulesV2)
        \/ \E t \in CopiedTypes : input \in CopyInputs(t)
Next == UNCHANGED input
Spec == Init /\ [][Next]_input

-----------------------------------------------------------------------------
(* Copies *)

(* A copy that DeepCopy made of an object shares no cell with it, so that   *)
(* what a reconciler writes into the copy of a cached object (a condition,  *)
(* the active jobs, a limit) never changes the cache under its readers.     *)
CopySharesNothing ==
  input.of = "copy" =>
    \A p \in input.refs : DeepCopy(input.type, input.refs)[p] = "own"
=============================================================================
