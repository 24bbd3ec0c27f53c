----------------------------- MODULE PendingWork -----------------------------
(***************************************************************************)
(* What a work queue promises, without any order or buffer: a set of items  *)
(* that were requested and not yet started, and a set of items being worked *)
(* on.  An item is never worked on twice at the same time, a request made   *)
(* while the item is being worked on is served by a later start, and every  *)
(* request is eventually served.                                            *)
(***************************************************************************)
CONSTANT Items

VARIABLES pending, active, closed

vars == <<pending, active, closed>>

Init ==
  /\ pending = {}
  /\ active = {}
  /\ closed = FALSE

Request(i) ==
  /\ ~closed
  /\ pending' = pending \cup {i}
  /\ UNCHANGED <<active, closed>>

Start(i) ==
  /\ i \in pending \ active
  /\ pending' = pending \ {i}
  /\ active' = active \cup {i}
  /\ UNCHANGED closed

Finish(i) ==
  /\ i \in active
  /\ active' = active \ {i}
  /\ UNCHANGED <<pending, closed>>

Close ==
  /\ closed' = TRUE
  /\ UNCHANGED <<pending, active>>

Next ==
  \/ \E i \in Items : Request(i) \/ Start(i) \/ Finish(i)
  \/ Close

Spec == Init /\ [][Next]_vars

FairSpec == Spec /\ \A i \in Items : WF_vars(Start(i)) /\ WF_vars(Finish(i))
=============================================================================
