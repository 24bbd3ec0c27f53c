------------------------------- MODULE DeepCopy -------------------------------
(***************************************************************************)
(* The API types of the repository, as far as they hold references, and the *)
(* generated DeepCopy functions (zz_generated.deepcopy.go) that copies out  *)
(* of the informers' caches rely on.                                        *)
(*                                                                         *)
(* A struct is the function from its fields that hold references to what    *)
(* they are: another struct, or a reference (a pointer or a slice) to a     *)
(* struct or to plain data.  All elements of a slice are treated alike, so  *)
(* one stands for them.                                                     *)
(***************************************************************************)
EXTENDS Naturals, Sequences, TLC

Struct(t) == [ref |-> FALSE, of |-> t]
Ref(t)    == [ref |-> TRUE, of |-> t]
Data      == Ref("plain")

(* The types of Kubernetes that the repository's refer to; a single         *)
(* reference stands for all that ObjectMeta, a template or a status holds.  *)
MetaTypes ==
  [plain      |-> << >>,
   ObjectMeta |-> [labels |-> Data],
   ListMeta   |-> [remainingItemCount |-> Data]]

BatchTypes == [JobTemplateSpec |-> [template |-> Data]]
AppsTypes  == [DeploymentStatus |-> [conditions |-> Data]]
CoreTypes  == [ServiceStatus |-> [conditions |-> Data]]

Object(spec, status) == [meta |-> Struct("ObjectMeta"), spec |-> Struct(spec), status |-> Struct(status)]
ListOf(t)            == [meta |-> Struct("ListMeta"), items |-> Ref(t)]

CronJobV1Types ==
  "v1.CronJob"       :> Object("v1.CronJobSpec", "v1.CronJobStatus") @@
  "v1.CronJobList"   :> ListOf("v1.CronJob") @@
  "v1.CronJobSpec"   :> [jobTemplate |-> Struct("JobTemplateSpec"), startingDeadlineSeconds |-> Data,
                         suspend |-> Data, successfulJobsHistoryLimit |-> Data,
                         failedJobsHistoryLimit |-> Data] @@
  "v1.CronJobStatus" :> [active |-> Data, lastScheduleTime |-> Data]

CronJobV2Types ==
  "v2.CronJob"       :> Object("v2.CronJobSpec", "v2.CronJobStatus") @@
  "v2.CronJobList"   :> ListOf("v2.CronJob") @@
  "v2.CronJobSpec"   :> [schedule |-> Struct("v2.CronSchedule"), jobTemplate |-> Struct("JobTemplateSpec"),
                         startingDeadlineSeconds |-> Data, suspend |-> Data,
                         successfulJobsHistoryLimit |-> Data, failedJobsHistoryLimit |-> Data] @@
  "v2.CronSchedule"  :> [minute |-> Data, hour |-> Data, dayOfMonth |-> Data, month |-> Data,
                         dayOfWeek |-> Data] @@
  "v2.CronJobStatus" :> [active |-> Data, lastScheduleTime |-> Data]

MemcachedTypes ==
  "Memcached"       :> Object("plain", "MemcachedStatus") @@
  "MemcachedList"   :> ListOf("Memcached") @@
  "MemcachedStatus" :> [conditions |-> Data]

GuestbookTypes ==
  "Guestbook" :> Object("plain", "plain") @@ "GuestbookList" :> ListOf("Guestbook")

(* controller-tools-demo *)
ToolsTypes ==
  "tools.Application" :> Object("plain", "plain") @@ "tools.ApplicationList" :> ListOf("tools.Application")

(* code-generator-demo *)
GeneratorTypes ==
  "gen.Application"     :> Object("gen.ApplicationSpec", "plain") @@
  "gen.ApplicationList" :> ListOf("gen.Application") @@
  "gen.ApplicationSpec" :> [replicas |-> Data]

(* crd-controller-demo *)
AppTypes ==
  "App"       :> Object("plain", "AppStatus") @@
  "AppList"   :> ListOf("App") @@
  "AppStatus" :> [deploymentStatus |-> Ref("DeploymentStatus"), serviceStatus |-> Ref("ServiceStatus")]

Types == MetaTypes @@ BatchTypes @@ AppsTypes @@ CoreTypes
           @@ CronJobV1Types @@ CronJobV2Types @@ MemcachedTypes @@ GuestbookTypes
           @@ ToolsTypes @@ GeneratorTypes @@ AppTypes

-----------------------------------------------------------------------------
(* DeepCopyInto begins with *out = *in.  Then it treats some fields:        *)
(*   "into"     the field's own DeepCopyInto                                *)
(*   "new"      a new cell with the old one's content as it is              *)
(*   "newInto"  a new cell, filled by the DeepCopyInto of what it holds     *)
(* A field that it does not treat, or assigns as it is, stays as copied.    *)

OfObject == [meta |-> "into", spec |-> "into", status |-> "into"]
OfList   == [meta |-> "into", items |-> "newInto"]

MetaCopies ==
  [plain      |-> << >>,
   ObjectMeta |-> [labels |-> "new"],
   ListMeta   |-> [remainingItemCount |-> "new"]]

BatchCopies == [JobTemplateSpec |-> [template |-> "new"]]
AppsCopies  == [DeploymentStatus |-> [conditions |-> "new"]]
CoreCopies  == [ServiceStatus |-> [conditions |-> "new"]]

CronJobV1Copies ==
  "v1.CronJob"       :> OfObject @@
  "v1.CronJobList"   :> OfList @@
  "v1.CronJobSpec"   :> [jobTemplate |-> "into", startingDeadlineSeconds |-> "new", suspend |-> "new",
                         successfulJobsHistoryLimit |-> "new", failedJobsHistoryLimit |-> "new"] @@
  "v1.CronJobStatus" :> [active |-> "new", lastScheduleTime |-> "new"]

CronJobV2Copies == "v2.CronJob" :> OfObject @@ "v2.CronJobList" :> OfList

(* Slip, for a mutant run: functions generated before the schedule had its  *)
(* optional fields.                                                         *)
CronJobV2PartCopiesStale ==
  "v2.CronJobSpec"   :> [jobTemplate |-> "into", startingDeadlineSeconds |-> "new", suspend |-> "new",
                         successfulJobsHistoryLimit |-> "new", failedJobsHistoryLimit |-> "new"] @@
  "v2.CronJobStatus" :> [active |-> "new", lastScheduleTime |-> "new"] @@
  "v2.CronSchedule"  :> << >>

CronJobV2PartCopies ==
  "v2.CronJobSpec"   :> [schedule |-> "into", jobTemplate |-> "into", startingDeadlineSeconds |-> "new",
                         suspend |-> "new", successfulJobsHistoryLimit |-> "new",
                         failedJobsHistoryLimit |-> "new"] @@
  "v2.CronJobStatus" :> [active |-> "new", lastScheduleTime |-> "new"] @@
  "v2.CronSchedule"  :> [minute |-> "new", hour |-> "new", dayOfMonth |-> "new", month |-> "new",
                         dayOfWeek |-> "new"]

MemcachedCopies ==
  "Memcached"       :> [meta |-> "into", status |-> "into"] @@
  "MemcachedList"   :> OfList @@
  "MemcachedStatus" :> [conditions |-> "newInto"]

GuestbookCopies == "Guestbook" :> [meta |-> "into"] @@ "GuestbookList" :> OfList

ToolsCopies == "tools.Application" :> [meta |-> "into"] @@ "tools.ApplicationList" :> OfList

(* The list's ListMeta is assigned. *)
GeneratorCopies ==
  "gen.Application"     :> [meta |-> "into", spec |-> "into"] @@
  "gen.ApplicationList" :> [items |-> "newInto"] @@
  "gen.ApplicationSpec" :> [replicas |-> "new"]

(* The status is assigned, and has no function of its own. *)
AppCopies ==
  "App" :> [meta |-> "into"] @@ "AppList" :> OfList @@ "AppStatus" :> << >>

Copies == MetaCopies @@ BatchCopies @@ AppsCopies @@ CoreCopies
            @@ CronJobV1Copies @@ CronJobV2Copies @@ CronJobV2PartCopies
            @@ MemcachedCopies @@ GuestbookCopies @@ ToolsCopies @@ GeneratorCopies @@ AppCopies

-----------------------------------------------------------------------------
Under(n, paths) == {<<n>> \o p : p \in paths}

(* The paths to the references of a type. *)
RECURSIVE References(_)
References(t) ==
  UNION {(IF Types[t][n].ref THEN {<<n>>} ELSE {}) \cup Under(n, References(Types[t][n].of))
         : n \in DOMAIN Types[t]}

(* Those that DeepCopyInto gives a cell of their own in the copy. *)
RECURSIVE Copied(_)
Copied(t) ==
  UNION {LET how == Copies[t][n] IN
           (IF how = "into" THEN {} ELSE {<<n>>})
             \cup (IF how = "new" THEN {} ELSE Under(n, Copied(Types[t][n].of)))
         : n \in DOMAIN Copies[t]}

(* The references of an object that are not nil: none lies behind a nil one. *)
IsObject(t, o) ==
  /\ o \subseteq References(t)
  /\ \A p \in o : \A n \in 1..Len(p) :
       SubSeq(p, 1, n) \in References(t) => SubSeq(p, 1, n) \in o

(* The copy has the references of the object, and shares a cell with it     *)
(* where it has none of its own.  A nil one is left nil.                    *)
DeepCopy(t, o) == [p \in o |-> IF p \in Copied(t) THEN "own" ELSE "shared"]
=============================================================================
