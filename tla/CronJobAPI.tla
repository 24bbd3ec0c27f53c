------------------------------ MODULE CronJobAPI ------------------------------
(***************************************************************************)
(* The two versions of the CronJob API: the conversion between v2 and v1,   *)
(* the version that is stored (api/v2/cronjob_conversion.go), and the       *)
(* webhooks that complete and validate what is stored                       *)
(* (api/v1/cronjob_webhook.go).                                             *)
(*                                                                         *)
(* A string that is split at blanks or joined with them is the sequence of  *)
(* its words, an empty word between two blanks and at a blank end.          *)
(***************************************************************************)
EXTENDS Naturals, Sequences, FiniteSets, SequencesExt

CONSTANTS NoValue,          \* a pointer without a value
          Words,            \* of schedules
          Descriptors       \* the words that name a schedule, "@hourly" and others

ASSUME APIAssumption ==
  "*" \in Words /\ {"", "*"} \cap Descriptors = {} /\ NoValue \notin Seq(Words)

Star   == <<"*">>
Fields == <<"Minute", "Hour", "DayOfMonth", "Month", "DayOfWeek">>

-----------------------------------------------------------------------------
(* Conversion.  All but the schedule is carried over field by field; the    *)
(* deadline stands for the fields that no webhook looks at.                 *)

(* Slip, for a mutant run: two fields change places. *)
ConvertToSwapped(c) ==
  LET word(f) == IF c.schedule[f] = NoValue THEN Star ELSE c.schedule[f]
  IN [c EXCEPT !.schedule = word("Minute") \o word("Hour") \o word("Month")
                              \o word("DayOfMonth") \o word("DayOfWeek")]

(* v2 to v1: the fields are joined, "*" for one that is not given. *)
ConvertTo(c) ==
  LET word(f) == IF c.schedule[f] = NoValue THEN Star ELSE c.schedule[f]
  IN [c EXCEPT !.schedule = word("Minute") \o word("Hour") \o word("DayOfMonth")
                              \o word("Month") \o word("DayOfWeek")]

(* v1 to v2 is an error unless the string has five words. *)
Convertible(c) == Len(c.schedule) = 5

ConvertFrom(c) ==
  LET field(i) == IF <<c.schedule[i]>> = Star THEN NoValue ELSE <<c.schedule[i]>>
  IN [c EXCEPT !.schedule =
        [f \in ToSet(Fields) |-> field(CHOOSE i \in 1..5 : Fields[i] = f)]]

-----------------------------------------------------------------------------
(* Admission, of v1 objects. *)

Default(c) ==
  [c EXCEPT !.policy       = IF @ = "" THEN "Allow" ELSE @,
            !.suspend      = IF @ = NoValue THEN FALSE ELSE @,
            !.successLimit = IF @ = NoValue THEN 3 ELSE @,
            !.failLimit    = IF @ = NoValue THEN 1 ELSE @]

(* The cron library takes a descriptor, or five fields with blanks around   *)
(* them.  The other words of this model are fields it can read.             *)
ParseStandard(s) ==
  IF s[1] \in Descriptors THEN Len(s) = 1
  ELSE /\ Cardinality({i \in DOMAIN s : s[i] # ""}) = 5
       /\ ToSet(s) \cap Descriptors = {}

LabelMaxLength == 63                   \* validationutils.DNS1035LabelMaxLength

(* "-" and the ten digits of a time in seconds *)
JobNameLength(c) == c.nameLength + 1 + 10

ValidateName(c)     == c.nameLength <= LabelMaxLength - 11
ValidateSchedule(c) == ParseStandard(c.schedule)
Validate(c)         == ValidateName(c) /\ ValidateSchedule(c)
=============================================================================
