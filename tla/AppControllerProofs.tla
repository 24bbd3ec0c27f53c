------------------------- MODULE AppControllerProofs -------------------------
(***************************************************************************)
(* Proofs about the App controller, for any Apps, specs, workers, retries,  *)
(* operations and failures: its types, that its workers read full caches,   *)
(* that no sync undoes what a user wrote into a spec, and that no App is    *)
(* forgotten.  The last rests on what was seen of a child: one that was     *)
(* seen with its owner, or will be, cannot disappear without its key        *)
(* coming back to the queue (Noticed), so that a sync only has to know that *)
(* the children it has passed were seen (Knows).                            *)
(***************************************************************************)
EXTENDS AppController, TLAPS, SequenceTheorems

Known      == Apps \cup {Absent}
KnownChild == Children \cup {Absent}
PCs        == {"idle", "sync", "find", "create", "get", "update", "failed", "handled", "done"}
States     == [pc : PCs, key : Items \cup {Absent}, app : Known, kind : Kinds \cup {Absent}]

(* m is a state an App was in, but for its status, or an App that is gone:  *)
(* where the API server stores the same App, m is older, or it has the spec *)
(* that is stored.                                                          *)
IsPast(m, stored, ops) ==
  m # Absent =>
    /\ m.uid <= ops
    /\ stored # Absent /\ stored.uid = m.uid =>
         m.version <= stored.version /\ (m.version = stored.version => m.spec = stored.spec)

(* Of the Apps that are stored, seen, on their way and in hand; and a       *)
(* child's version counts operations.                                       *)
Versions ==
  /\ \A k \in Items :
       /\ IsPast(app[k], app[k], used.ops)
       /\ IsPast(appCache[k], app[k], used.ops)
       /\ \A n \in 1..Len(appWatch[k]) : IsPast(appWatch[k][n].obj, app[k], used.ops)
  /\ \A w \in Workers : ~At(w, "idle") => IsPast(InHand(w), app[Key(w)], used.ops)
  /\ \A c \in ChildKeys : child[c] # Absent => child[c].version <= used.ops

(* What a worker knows at each point of a sync. *)
Sound(r) ==
  /\ r.pc # "idle" => r.key \in Items
  /\ r.pc \in {"find", "create", "get"} =>
       r.app # Absent /\ r.kind \in Kinds /\ r.app.spec[r.kind] # Absent
  /\ r.pc = "update" => r.app # Absent

WorkersKnow == \A w \in Workers : Sound(worker[w])

(* A cache that was listed catches up, one that was not is empty.           *)
SameButStatus(a, b) == a # Absent /\ [a EXCEPT !.status = b.status] = b

AppFull(k) ==
  LET n == Len(appWatch[k]) IN
  IF n > 0 THEN appWatch[k][n].obj = app[k]
  ELSE IF app[k] # Absent THEN SameButStatus(appCache[k], app[k]) ELSE appCache[k] = Absent

ChildFull(c) ==
  LET n == Len(childWatch[c]) IN
  IF n = 0 THEN childCache[c] = child[c] ELSE childWatch[c][n].obj = child[c]

AppsFill == \A k \in Items :
  IF "app" \in listed THEN AppFull(k) ELSE appWatch[k] = << >> /\ appCache[k] = Absent

ChildrenFill == \A c \in ChildKeys :
  IF c[1] \in listed THEN ChildFull(c) ELSE childWatch[c] = << >> /\ childCache[c] = Absent

(* main starts the workers last. *)
WorkersLast ==
  /\ main = "run" => listed = Informers
  /\ \A w \in Workers : ~At(w, "idle") => main = "run"

Inv == /\ TypeOK
       /\ Versions
       /\ WorkersKnow
       /\ AppsFill /\ ChildrenFill
       /\ WorkersLast

-----------------------------------------------------------------------------
(* Types. *)
LEMMA Types ==
  ASSUME Inv
  PROVE  /\ app \in [Items -> Known] /\ appCache \in [Items -> Known]
         /\ appWatch \in [Items -> Seq(App!Events)]
         /\ child \in [ChildKeys -> KnownChild] /\ childCache \in [ChildKeys -> KnownChild]
         /\ childWatch \in [ChildKeys -> Seq(Child!Events)]
         /\ worker \in [Workers -> States] /\ listed \in SUBSET Informers
         /\ used \in [ops : 0..MaxOps, faults : 0..MaxFaults]
         /\ used.ops \in 0..MaxOps /\ used.ops \in Nat /\ MaxOps \in Nat
  <1>1. TypeOK /\ MaxOps \in Nat
    BY BoundsAssumption DEF Inv
  <1>2. /\ app \in [Items -> Known] /\ appCache \in [Items -> Known]
        /\ appWatch \in [Items -> Seq(App!Events)]
    BY <1>1 DEF TypeOK, App!TypeOK, App!MaybeObject, Known
  <1>3. /\ child \in [ChildKeys -> KnownChild] /\ childCache \in [ChildKeys -> KnownChild]
        /\ childWatch \in [ChildKeys -> Seq(Child!Events)]
    BY <1>1 DEF TypeOK, Child!TypeOK, Child!MaybeObject, KnownChild
  <1>4. /\ worker \in [Workers -> States] /\ listed \in SUBSET Informers
        /\ used \in [ops : 0..MaxOps, faults : 0..MaxFaults]
    BY <1>1 DEF TypeOK, States, PCs, Known
  <1> QED
    BY <1>1, <1>2, <1>3, <1>4

LEMMA AppTypes ==
  ASSUME NEW a \in Apps
  PROVE  /\ a # Absent /\ a.uid \in Nat /\ a.uid \in 1..MaxOps /\ a.version \in Nat
         /\ a.spec \in Specs /\ a.spec \in [Kinds -> Items \cup {Absent}]
         /\ a.status \in [Kinds -> 0..MaxOps]
         /\ a = [uid |-> a.uid, spec |-> a.spec, status |-> a.status, version |-> a.version]
         /\ SameButStatus(a, a)
  <1>1. a # Absent
    BY AbsentAssumption
  <1>2. /\ a.uid \in 1..MaxOps /\ a.version \in Nat /\ a.spec \in Specs
        /\ a.status \in [Kinds -> 0..MaxOps]
        /\ a = [uid |-> a.uid, spec |-> a.spec, status |-> a.status, version |-> a.version]
    BY DEF Apps
  <1>3. [a EXCEPT !.status = a.status] = a
    BY DEF Apps
  <1>4. a.uid \in Nat /\ a.spec \in [Kinds -> Items \cup {Absent}]
    BY <1>2, BoundsAssumption, NamesAssumption
  <1> QED
    BY <1>1, <1>2, <1>3, <1>4 DEF SameButStatus

(* The status of a child in hand is written into an App. *)
LEMMA StatusWritten ==
  ASSUME NEW m \in Apps, NEW kind \in Kinds, NEW v \in 0..MaxOps,
         NEW a, a = [m EXCEPT !.status[kind] = v]
  PROVE  /\ a \in Apps /\ a.uid = m.uid /\ a.version = m.version /\ a.spec = m.spec
         /\ \A b \in Apps : SameButStatus(m, b) => SameButStatus(a, b)
         /\ \A stored, ops : IsPast(m, stored, ops) => IsPast(a, stored, ops)
  <1>1. m.status \in [Kinds -> 0..MaxOps] /\ m # Absent
    BY AppTypes
  <1>2. [m.status EXCEPT ![kind] = v] \in [Kinds -> 0..MaxOps]
    BY <1>1
  <1>3. a \in Apps /\ a.uid = m.uid /\ a.version = m.version /\ a.spec = m.spec
    BY <1>2 DEF Apps
  <1>4. a # Absent
    BY <1>3, AppTypes
  <1>5. ASSUME NEW b \in Apps, SameButStatus(m, b) PROVE SameButStatus(a, b)
    <2>1. [a EXCEPT !.status = b.status] = [m EXCEPT !.status = b.status]
      BY <1>2 DEF Apps
    <2> QED
      BY <1>4, <1>5, <2>1 DEF SameButStatus
  <1>6. ASSUME NEW stored, NEW ops, IsPast(m, stored, ops) PROVE IsPast(a, stored, ops)
    BY <1>1, <1>3, <1>6 DEF IsPast
  <1> QED
    BY <1>3, <1>5, <1>6

-----------------------------------------------------------------------------
(* How a step changes what the API server stores under a key: to a later    *)
(* version, to nothing, or from nothing to an App of a new uid.             *)
Follows(old, new, ops, opsAfter) ==
  new = Absent
    \/ /\ new.uid <= opsAfter
       /\ \/ old = Absent /\ ops < new.uid
          \/ old # Absent /\ new.uid = old.uid /\ new.version = old.version + 1

LEMMA PastStaysPast ==
  ASSUME NEW m \in Known, NEW old \in Known, NEW new \in Known,
         NEW ops \in Nat, NEW opsAfter \in Nat, ops <= opsAfter,
         IsPast(m, old, ops), new = old \/ Follows(old, new, ops, opsAfter)
  PROVE  IsPast(m, new, opsAfter)
  <1> SUFFICES ASSUME m # Absent PROVE IsPast(m, new, opsAfter)
    BY DEF IsPast
  <1>1. m \in Apps /\ m.uid \in Nat /\ m.version \in Nat
    BY AppTypes DEF Known
  <1>2. m.uid <= ops
    BY DEF IsPast
  <1>3. CASE new = old \/ new = Absent
    BY <1>1, <1>2, <1>3 DEF IsPast
  <1>4. CASE new # Absent /\ old = Absent /\ ops < new.uid
    <2>1. new.uid \in Nat
      BY <1>4, AppTypes DEF Known
    <2> QED
      BY <1>1, <1>2, <1>4, <2>1 DEF IsPast
  <1>5. CASE new # Absent /\ old # Absent /\ new.uid = old.uid /\ new.version = old.version + 1
    <2>1. old.version \in Nat
      BY <1>5, AppTypes DEF Known
    <2> QED
      BY <1>1, <1>2, <1>5, <2>1 DEF IsPast
  <1> QED
    BY <1>3, <1>4, <1>5 DEF Follows

LEMMA NewIsPast ==
  ASSUME NEW new \in Known, NEW opsAfter, new # Absent => new.uid <= opsAfter
  PROVE  IsPast(new, new, opsAfter)
  <1>1. new # Absent => new.version \in Nat
    BY AppTypes DEF Known
  <1> QED
    BY <1>1 DEF IsPast

(* A write of an App that is stored, with a new version. *)
LEMMA NewerFollows ==
  ASSUME Inv, NEW k \in Items, Exists(k), NEW a \in Apps, a.uid = app[k].uid,
         used.ops <= used'.ops, used'.ops \in Nat
  PROVE  /\ [a EXCEPT !.version = app[k].version + 1] \in Apps
         /\ Follows(app[k], [a EXCEPT !.version = app[k].version + 1], used.ops, used'.ops)
         /\ [a EXCEPT !.version = app[k].version + 1].spec = a.spec
  <1> DEFINE new == [a EXCEPT !.version = app[k].version + 1]
  <1>1. app[k] \in Apps /\ used.ops \in Nat
    BY Types DEF Exists, Known
  <1>2. app[k].version + 1 \in Nat /\ app[k].uid \in Nat
    BY <1>1, AppTypes
  <1>3. new \in Apps /\ new.uid = a.uid /\ new.version = app[k].version + 1 /\ new.spec = a.spec
    BY <1>2 DEF Apps
  <1>4. app[k].uid <= used.ops
    BY <1>1 DEF Inv, Versions, IsPast, Exists
  <1>5. new.uid <= used'.ops
    BY <1>1, <1>2, <1>3, <1>4
  <1> QED
    BY <1>3, <1>5 DEF Follows, Exists

-----------------------------------------------------------------------------
(* What a step does to the Apps, and to their cache.  A worker writes a     *)
(* status into the object of the cache.                                     *)
TouchesCache ==
  \E k \in Items, kind \in Kinds, v \in 0..MaxOps :
    /\ appCache[k] # Absent
    /\ appCache' = [appCache EXCEPT ![k] = [appCache[k] EXCEPT !.status[kind] = v]]

SameListed(t) == t \in listed' <=> t \in listed

AppMoves ==
  /\ used.ops <= used'.ops /\ used'.ops \in Nat
  /\ \/ UNCHANGED appVars /\ SameListed("app")
     \/ UNCHANGED <<app, appWatch>> /\ TouchesCache /\ "app" \in listed /\ listed' = listed
     \/ \E k \in Items, obj \in Known :
          WriteApp(k, obj) /\ Follows(app[k], obj, used.ops, used'.ops) /\ listed' = listed
     \/ \E k \in Items : ReceiveApp(k)
     \/ App!Stop /\ listed' = {}
     \/ ListApps /\ "app" \notin listed /\ "app" \in listed'

(* The steps of workers that a status may come with. *)
LEMMA StatusTaken ==
  ASSUME Inv, NEW w \in Workers, NEW c \in KnownChild, TakeStatus(w, c),
         worker[w].pc \in {"find", "get"}
  PROVE  \/ Goto(w, "failed") /\ appCache' = appCache
         \/ \E a \in Apps :
              /\ Proceed(w, a, After(worker[w].kind)) /\ After(worker[w].kind) \subseteq Kinds
              /\ appCache' = appCache \/ TouchesCache
              /\ IsPast(a, app[Key(w)], used.ops)
  <1>1. /\ Key(w) \in Items /\ InHand(w) \in Apps /\ worker[w].kind \in Kinds
        /\ appCache \in [Items -> Known]
    <2>1. worker[w] \in States /\ Sound(worker[w])
      BY Types DEF Inv, WorkersKnow
    <2> QED
      BY <2>1, Types DEF Sound, States, Key, InHand, Known
  <1>2. CASE ~Controlled(c, InHand(w))
    BY <1>2 DEF TakeStatus
  <1>3. CASE Controlled(c, InHand(w))
    <2> DEFINE a == [InHand(w) EXCEPT !.status[worker[w].kind] = c.version]
    <2>1. c \in Children /\ c.version \in 0..MaxOps
      <3>1. c \in Children
        BY <1>3 DEF Controlled, KnownChild
      <3> QED
        BY <3>1, BoundsAssumption DEF Children
    <2>2. /\ Proceed(w, a, After(worker[w].kind))
          /\ appCache' = IF appCache[Key(w)] = InHand(w)
                          THEN [appCache EXCEPT ![Key(w)] = a] ELSE appCache
      BY <1>3 DEF TakeStatus
    <2>3. /\ a \in Apps
          /\ \A stored, ops : IsPast(InHand(w), stored, ops) => IsPast(a, stored, ops)
      BY <1>1, <2>1, StatusWritten
    <2>4. IsPast(InHand(w), app[Key(w)], used.ops)
      BY DEF Inv, Versions, At
    <2>5. appCache' = appCache \/ TouchesCache
      <3>1. CASE appCache[Key(w)] = InHand(w)
        <4>1. appCache' = [appCache EXCEPT ![Key(w)] =
                             [appCache[Key(w)] EXCEPT !.status[worker[w].kind] = c.version]]
          BY <2>2, <3>1
        <4>2. appCache[Key(w)] # Absent
          BY <1>1, <3>1, AppTypes
        <4> QED
          BY <1>1, <2>1, <4>1, <4>2 DEF TouchesCache
      <3> QED
        BY <2>2, <3>1
    <2>6. After(worker[w].kind) \subseteq Kinds
      BY DEF After, Kinds
    <2> HIDE DEF a
    <2> QED
      BY <2>2, <2>3, <2>4, <2>5, <2>6
  <1> QED
    BY <1>2, <1>3

(* A worker at one of the steps in between. *)
LEMMA WorkerKnows ==
  ASSUME Inv, NEW w \in Workers, ~At(w, "idle")
  PROVE  /\ worker[w] \in States /\ Sound(worker[w]) /\ Key(w) \in Items
         /\ InHand(w) \in Known /\ IsPast(InHand(w), app[Key(w)], used.ops)
         /\ main = "run" /\ listed = Informers
         /\ worker[w].pc \in {"find", "create", "get"} =>
              /\ InHand(w) \in Apps /\ worker[w].kind \in Kinds /\ ChildKey(w) \in ChildKeys
              /\ child[ChildKey(w)] \in KnownChild /\ childCache[ChildKey(w)] \in KnownChild
         /\ At(w, "update") => InHand(w) \in Apps
  <1>1. worker[w] \in States /\ Sound(worker[w])
    BY Types DEF Inv, WorkersKnow
  <1>2. Key(w) \in Items /\ InHand(w) \in Known
    BY <1>1 DEF Sound, States, Key, InHand, At
  <1>3. IsPast(InHand(w), app[Key(w)], used.ops) /\ main = "run" /\ listed = Informers
    BY DEF Inv, Versions, WorkersLast
  <1>4. ASSUME worker[w].pc \in {"find", "create", "get"}
        PROVE  /\ InHand(w) \in Apps /\ worker[w].kind \in Kinds /\ ChildKey(w) \in ChildKeys
               /\ child[ChildKey(w)] \in KnownChild /\ childCache[ChildKey(w)] \in KnownChild
    <2>1. InHand(w) \in Apps /\ worker[w].kind \in Kinds /\ InHand(w).spec[worker[w].kind] # Absent
      BY <1>1, <1>2, <1>4 DEF Sound, Known, InHand
    <2>2. InHand(w).spec[worker[w].kind] \in Items
      BY <2>1, AppTypes
    <2>3. ChildKey(w) \in ChildKeys
      BY <2>1, <2>2 DEF ChildKey, ChildKeys
    <2> QED
      BY <2>1, <2>3, Types
  <1>5. At(w, "update") => InHand(w) \in Apps
    BY <1>1, <1>2 DEF Sound, Known, At, InHand
  <1> QED
    BY <1>1, <1>2, <1>3, <1>4, <1>5

(* What the steps of workers leave alone. *)
LEMMA StepKeeps ==
  ASSUME NEW w \in Workers, TakeItem(w) \/ Step(w)
  PROVE  /\ UNCHANGED <<programVars, initial>>
         /\ used' = used \/ Fault
         /\ TakeItem(w) \/ ~At(w, "idle")
  BY DEF TakeItem, Step, ReadApp, FindChild, CreateChild, GetChild, UpdateApp, HandleError, Done,
         Call, At

LEMMA UsedGrows ==
  ASSUME Inv, used' = used \/ UserOp \/ Fault
  PROVE  /\ used' \in [ops : 0..MaxOps, faults : 0..MaxFaults]
         /\ used.ops <= used'.ops /\ used'.ops \in Nat
         /\ ~UserOp => used'.ops = used.ops
  <1>1. used \in [ops : 0..MaxOps, faults : 0..MaxFaults] /\ MaxOps \in Nat /\ MaxFaults \in Nat
    BY Types, BoundsAssumption
  <1> QED
    BY <1>1 DEF UserOp, Fault

LEMMA EveryStepMovesApps ==
  ASSUME Inv, [Next]_vars
  PROVE  AppMoves
  <1>1. ASSUME UNCHANGED appVars, SameListed("app"), used' = used \/ UserOp \/ Fault
        PROVE  AppMoves
    BY <1>1, UsedGrows DEF AppMoves
  <1>2. ASSUME NEW k \in Items, UserWrites(k) PROVE AppMoves
    <2>1. UserOp /\ listed' = listed
      BY <1>2 DEF UserWrites, Elsewhere, programVars
    <2>2. /\ used.ops <= used'.ops /\ used'.ops \in Nat /\ used'.ops = used.ops + 1
          /\ used.ops + 1 \in 1..MaxOps
      BY <2>1, Types, UsedGrows DEF UserOp
    <2>3. ASSUME NEW spec \in Specs, ~Exists(k),
                 WriteApp(k, [uid |-> used.ops + 1, spec |-> spec,
                              status |-> [kind \in Kinds |-> 0], version |-> 1])
          PROVE  AppMoves
      <3> DEFINE new == [uid |-> used.ops + 1, spec |-> spec,
                         status |-> [kind \in Kinds |-> 0], version |-> 1]
      <3>1. new \in Apps
        BY <2>2, Types DEF Apps
      <3>2. Follows(app[k], new, used.ops, used'.ops)
        BY <2>2, <2>3, Types DEF Follows, Exists
      <3> HIDE DEF new
      <3>3. WriteApp(k, new)
        BY <2>3 DEF new
      <3> QED
        BY <2>1, <2>2, <3>1, <3>2, <3>3 DEF AppMoves, Known
    <2>4. ASSUME NEW spec \in Specs, Exists(k),
                 WriteApp(k, [app[k] EXCEPT !.spec = spec, !.version = @ + 1])
          PROVE  AppMoves
      <3> DEFINE a == [app[k] EXCEPT !.spec = spec]
      <3>1. app[k] \in Apps
        BY <2>4, Types DEF Exists, Known
      <3>2. a \in Apps /\ a.uid = app[k].uid /\ a.version = app[k].version
        BY <3>1 DEF Apps
      <3>3. [a EXCEPT !.version = app[k].version + 1]
              = [app[k] EXCEPT !.spec = spec, !.version = @ + 1]
        BY <3>1 DEF Apps
      <3>4. WriteApp(k, [a EXCEPT !.version = app[k].version + 1])
        BY <2>4, <3>3
      <3> HIDE DEF a
      <3>5. /\ [a EXCEPT !.version = app[k].version + 1] \in Known
            /\ Follows(app[k], [a EXCEPT !.version = app[k].version + 1], used.ops, used'.ops)
        BY <2>2, <2>4, <3>2, NewerFollows DEF Known
      <3> QED
        BY <2>1, <2>2, <3>4, <3>5 DEF AppMoves
    <2>5. CASE WriteApp(k, Absent)
      BY <2>1, <2>2, <2>5 DEF AppMoves, Follows, Known
    <2> QED
      BY <1>2, <2>3, <2>4, <2>5 DEF UserWrites
  <1>3. ASSUME NEW c \in ChildKeys, OthersWriteChild(c) \/ Collect(c) \/ ReceiveChild(c)
        PROVE  AppMoves
    BY <1>1, <1>3 DEF OthersWriteChild, Collect, ReceiveChild, Elsewhere, programVars, SameListed
  <1>4. ASSUME NEW k \in Items, ReceiveApp(k) PROVE AppMoves
    <2>1. used' = used
      BY <1>4 DEF ReceiveApp
    <2> QED
      BY <1>4, <2>1, UsedGrows DEF AppMoves
  <1>5. ASSUME ReceiveEntry \/ \E k \in Items : EntryReady(k) PROVE AppMoves
    BY <1>1, <1>5 DEF EntryReady, ReceiveEntry, Delays, programVars, SameListed
  <1>6. ASSUME NEW t \in Informers, List(t) PROVE AppMoves
    <2>1. used' = used /\ listed' = listed \cup {t} /\ t \notin listed
      BY <1>6 DEF List
    <2>2. CASE t = "app"
      BY <1>6, <2>1, <2>2, UsedGrows DEF List, AppMoves
    <2>3. CASE t # "app"
      BY <1>1, <1>6, <2>1, <2>3 DEF List, ListChildren, SameListed, appVars
    <2> QED
      BY <2>2, <2>3
  <1>7. ASSUME ProcessEnds, used' = used PROVE AppMoves
    BY <1>7, UsedGrows DEF ProcessEnds, AppMoves
  <1>8. CASE NewController \/ StartFactories \/ WaitForCacheSync \/ Restart
    BY <1>1, <1>8 DEF NewController, StartFactories, WaitForCacheSync, Restart, InMemory, SameListed
  <1>9. CASE ShutDown
    BY <1>1, <1>9 DEF ShutDown, programVars, SameListed
  <1>10. CASE Signal
    BY <1>1, <1>7, <1>10 DEF Signal, InMemory, SameListed
  <1>11. ASSUME NEW w \in Workers, TakeItem(w) \/ Step(w), UNCHANGED appVars PROVE AppMoves
    BY <1>1, <1>11, StepKeeps DEF programVars, SameListed
  <1>12. ASSUME NEW w \in Workers, FindChild(w) \/ GetChild(w) PROVE AppMoves
    <2>1. /\ UNCHANGED <<app, appWatch, programVars>> /\ (used' = used \/ Fault)
          /\ ~At(w, "idle") /\ worker[w].pc \in {"find", "get"}
      BY <1>12 DEF FindChild, GetChild, At
    <2>2. "app" \in listed /\ listed' = listed
      BY <2>1, WorkerKnows DEF Informers, programVars
    <2>3. appCache' = appCache \/ TouchesCache
      <3>1. ASSUME NEW c \in KnownChild, TakeStatus(w, c) PROVE appCache' = appCache \/ TouchesCache
        BY <2>1, <3>1, StatusTaken
      <3>2. /\ Absent \in KnownChild /\ childCache[ChildKey(w)] \in KnownChild
            /\ child[ChildKey(w)] \in KnownChild
        BY <2>1, WorkerKnows DEF KnownChild
      <3> QED
        BY <1>12, <3>1, <3>2 DEF FindChild, GetChild
    <2>4. CASE appCache' = appCache
      BY <1>1, <2>1, <2>2, <2>4 DEF appVars, SameListed
    <2>5. CASE TouchesCache
      BY <2>1, <2>2, <2>5, UsedGrows DEF AppMoves
    <2> QED
      BY <2>3, <2>4, <2>5
  <1>13. ASSUME NEW w \in Workers, UpdateApp(w) PROVE AppMoves
    <2>1. ~At(w, "idle") /\ At(w, "update") /\ listed' = listed /\ (used' = used \/ Fault)
      BY <1>13 DEF UpdateApp, At, Call, programVars
    <2>2. /\ \/ UNCHANGED appVars
             \/ /\ Fresh(InHand(w), Key(w))
                /\ WriteApp(Key(w), [InHand(w) EXCEPT !.version = app[Key(w)].version + 1])
      BY <1>13 DEF UpdateApp, Call
    <2>3. Key(w) \in Items /\ InHand(w) \in Apps
      BY <2>1, WorkerKnows
    <2>4. used.ops <= used'.ops /\ used'.ops \in Nat
      BY <2>1, UsedGrows
    <2>5. CASE UNCHANGED appVars
      BY <1>1, <2>1, <2>5 DEF SameListed
    <2>6. CASE Fresh(InHand(w), Key(w))
               /\ WriteApp(Key(w), [InHand(w) EXCEPT !.version = app[Key(w)].version + 1])
      <3>1. Exists(Key(w)) /\ InHand(w).uid = app[Key(w)].uid
        BY <2>6 DEF Fresh
      <3>2. /\ [InHand(w) EXCEPT !.version = app[Key(w)].version + 1] \in Known
            /\ Follows(app[Key(w)], [InHand(w) EXCEPT !.version = app[Key(w)].version + 1],
                       used.ops, used'.ops)
        BY <2>3, <2>4, <3>1, NewerFollows DEF Known
      <3> QED
        BY <2>1, <2>3, <2>4, <2>6, <3>2 DEF AppMoves
    <2> QED
      BY <2>2, <2>5, <2>6
  <1>14. ASSUME NEW w \in Workers,
                TakeItem(w) \/ ReadApp(w) \/ CreateChild(w) \/ HandleError(w) \/ Done(w)
         PROVE  UNCHANGED appVars
    BY <1>14 DEF TakeItem, ReadApp, CreateChild, HandleError, Done
  <1>15. CASE UNCHANGED vars
    BY <1>1, <1>15 DEF vars, programVars, SameListed
  <1>16. ASSUME NEW w \in Workers, TakeItem(w) \/ Step(w) PROVE AppMoves
    BY <1>11, <1>12, <1>13, <1>14, <1>16 DEF Step
  <1>17. ASSUME Main PROVE AppMoves
    BY <1>7, <1>8, <1>9, <1>17 DEF Main, Exit
  <1> QED
    BY <1>2, <1>3, <1>4, <1>5, <1>6, <1>10, <1>15, <1>16, <1>17 DEF Next

-----------------------------------------------------------------------------
(* Sequences of events. *)
LEMMA Appended ==
  ASSUME NEW S, NEW q \in Seq(S), NEW e \in S
  PROVE  /\ Append(q, e) \in Seq(S)
         /\ Len(q) \in Nat /\ Len(Append(q, e)) = Len(q) + 1
         /\ \A n \in 1..Len(q) : Append(q, e)[n] = q[n]
         /\ Append(q, e)[Len(q) + 1] = e
  BY AppendProperties, LenProperties

LEMMA Shifted ==
  ASSUME NEW S, NEW q \in Seq(S), q # << >>
  PROVE  /\ Tail(q) \in Seq(S)
         /\ Len(q) \in Nat \ {0} /\ Len(Tail(q)) = Len(q) - 1
         /\ \A n \in 1..Len(Tail(q)) : Tail(q)[n] = q[n + 1]
         /\ Head(q) = q[1] /\ Head(q) \in S
  BY HeadTailProperties, EmptySeq

LEMMA ZeroOrMore == \A n \in Nat : n > 0 \/ n = 0
  OBVIOUS

LEMMA Single ==
  ASSUME NEW S, NEW e \in S
  PROVE  <<e>> \in Seq(S) /\ Len(<<e>>) = 1 /\ <<e>>[1] = e
         /\ << >> \in Seq(S) /\ Len(<< >>) = 0
  BY EmptySeq

-----------------------------------------------------------------------------
(* The Apps under one key after a step: what is stored, cached and on its   *)
(* way, in terms of what was seen.                                          *)
Seen(k, m) == m \in Known /\ IsPast(m, app[k], used.ops)

LEMMA SeenBefore ==
  ASSUME Inv, NEW k \in Items
  PROVE  /\ Seen(k, app[k]) /\ Seen(k, appCache[k]) /\ Seen(k, Absent)
         /\ appWatch[k] \in Seq(App!Events) /\ Len(appWatch[k]) \in Nat
         /\ \A n \in 1..Len(appWatch[k]) :
              appWatch[k][n] \in App!Events /\ Seen(k, appWatch[k][n].obj)
  <1>1. /\ app[k] \in Known /\ appCache[k] \in Known /\ appWatch[k] \in Seq(App!Events)
        /\ Absent \in Known
    BY Types DEF Known
  <1>2. ASSUME NEW n \in 1..Len(appWatch[k])
        PROVE  appWatch[k][n] \in App!Events /\ appWatch[k][n].obj \in Known
    <2>1. appWatch[k][n] \in App!Events
      BY <1>1, ElementOfSeq
    <2> QED
      BY <2>1 DEF App!Events, App!MaybeObject, Known
  <1>3. IsPast(Absent, app[k], used.ops)
    BY DEF IsPast
  <1> QED
    BY <1>1, <1>2, <1>3, LenProperties DEF Inv, Versions, Seen

(* How the Apps under the key k may be after a step, and that it keeps the  *)
(* cache filled.                                                            *)
AppAfter(k) ==
  /\ app'[k] \in Known
  /\ app'[k] = app[k] \/ Follows(app[k], app'[k], used.ops, used'.ops)
  /\ Seen(k, appCache'[k])
  /\ appWatch'[k] \in Seq(App!Events)
  /\ \A n \in 1..Len(appWatch'[k]) : Seen(k, appWatch'[k][n].obj) \/ appWatch'[k][n].obj = app'[k]
  /\ IF "app" \in listed' THEN AppFull(k)' ELSE appWatch'[k] = << >> /\ appCache'[k] = Absent

LEMMA AppUntouched ==
  ASSUME Inv, NEW k \in Items, SameListed("app"),
         app'[k] = app[k], appCache'[k] = appCache[k], appWatch'[k] = appWatch[k]
  PROVE  AppAfter(k)
  <1>1. AppFull(k)' <=> AppFull(k)
    BY DEF AppFull
  <1> QED
    BY <1>1, SeenBefore DEF AppAfter, SameListed, Inv, AppsFill, Seen

LEMMA EventIsEvent ==
  ASSUME NEW obj \in Known
  PROVE  App!Event(obj) \in App!Events /\ App!Event(obj).obj = obj
  BY DEF App!Event, App!Events, App!MaybeObject, Known

LEMMA AppWritten ==
  ASSUME Inv, NEW k \in Items, NEW obj \in Known,
         Follows(app[k], obj, used.ops, used'.ops), listed' = listed,
         app'[k] = obj, appCache'[k] = appCache[k],
         appWatch'[k] = IF "app" \in listed THEN Append(appWatch[k], App!Event(obj)) ELSE appWatch[k]
  PROVE  AppAfter(k)
  <1>1. Seen(k, appCache'[k])
    BY SeenBefore
  <1>2. CASE "app" \in listed
    <2>1. /\ appWatch'[k] \in Seq(App!Events)
          /\ Len(appWatch[k]) \in Nat /\ Len(appWatch'[k]) = Len(appWatch[k]) + 1
          /\ \A n \in 1..Len(appWatch[k]) : appWatch'[k][n] = appWatch[k][n]
          /\ appWatch'[k][Len(appWatch[k]) + 1].obj = obj
      BY <1>2, SeenBefore, EventIsEvent, Appended
    <2>2. ASSUME NEW n \in 1..Len(appWatch'[k])
          PROVE  Seen(k, appWatch'[k][n].obj) \/ appWatch'[k][n].obj = app'[k]
      <3>1. n \in 1..Len(appWatch[k]) \/ n = Len(appWatch[k]) + 1
        BY <2>1
      <3> QED
        BY <2>1, <3>1, SeenBefore
    <2>3. AppFull(k)'
      BY <2>1 DEF AppFull
    <2> QED
      BY <1>1, <1>2, <2>1, <2>2, <2>3 DEF AppAfter
  <1>3. CASE "app" \notin listed
    BY <1>1, <1>3, SeenBefore DEF AppAfter, Inv, AppsFill
  <1> QED
    BY <1>2, <1>3

LEMMA AppReceived ==
  ASSUME Inv, NEW k \in Items, listed' = listed, appWatch[k] # << >>,
         app'[k] = app[k], appCache'[k] = Head(appWatch[k]).obj, appWatch'[k] = Tail(appWatch[k])
  PROVE  AppAfter(k)
  <1>1. /\ appWatch'[k] \in Seq(App!Events)
        /\ Len(appWatch[k]) \in Nat \ {0} /\ Len(appWatch'[k]) = Len(appWatch[k]) - 1
        /\ \A n \in 1..Len(appWatch'[k]) : appWatch'[k][n] = appWatch[k][n + 1]
        /\ Head(appWatch[k]) = appWatch[k][1]
    BY SeenBefore, Shifted
  <1>2. ASSUME NEW n \in 1..Len(appWatch'[k]) PROVE Seen(k, appWatch'[k][n].obj)
    <2>1. n + 1 \in 1..Len(appWatch[k])
      BY <1>1
    <2> QED
      BY <1>1, <2>1, SeenBefore
  <1>3. Seen(k, appCache'[k])
    <2>1. 1 \in 1..Len(appWatch[k])
      BY <1>1
    <2> QED
      BY <1>1, <2>1, SeenBefore
  <1>4. "app" \in listed /\ AppFull(k)
    BY DEF Inv, AppsFill
  <1>5. appWatch[k][Len(appWatch[k])].obj = app[k]
    BY <1>1, <1>4 DEF AppFull
  <1>6. AppFull(k)'
    <2>1. CASE Len(appWatch'[k]) > 0
      <3>1. Len(appWatch'[k]) \in 1..Len(appWatch'[k]) /\ Len(appWatch'[k]) + 1 = Len(appWatch[k])
        BY <1>1, <2>1
      <3>2. appWatch'[k][Len(appWatch'[k])] = appWatch[k][Len(appWatch[k])]
        BY <1>1, <3>1
      <3> QED
        BY <1>5, <2>1, <3>2 DEF AppFull
    <2>2. CASE Len(appWatch'[k]) = 0
      <3>1. Len(appWatch[k]) = 1
        BY <1>1, <2>2
      <3>2. appCache'[k] = app[k]
        BY <1>1, <1>5, <3>1
      <3>3. app[k] # Absent => SameButStatus(app[k], app[k])
        BY Types, AppTypes DEF Known
      <3> QED
        BY <2>2, <3>2, <3>3 DEF AppFull, SameButStatus
    <2>3. Len(appWatch'[k]) > 0 \/ Len(appWatch'[k]) = 0
      <3>1. Len(appWatch'[k]) \in Nat
        BY <1>1, LenProperties
      <3> QED
        BY <3>1, ZeroOrMore
    <2> QED
      BY <2>1, <2>2, <2>3
  <1> QED
    BY <1>1, <1>2, <1>3, <1>4, <1>6, SeenBefore DEF AppAfter, Seen

LEMMA AppTouched ==
  ASSUME Inv, NEW k \in Items, NEW kind \in Kinds, NEW v \in 0..MaxOps,
         "app" \in listed, listed' = listed, appCache[k] # Absent,
         app'[k] = app[k], appWatch'[k] = appWatch[k],
         appCache'[k] = [appCache[k] EXCEPT !.status[kind] = v]
  PROVE  AppAfter(k)
  <1>1. appCache[k] \in Apps
    BY Types DEF Known
  <1>2. /\ appCache'[k] \in Apps
        /\ \A b \in Apps : SameButStatus(appCache[k], b) => SameButStatus(appCache'[k], b)
        /\ \A stored, ops : IsPast(appCache[k], stored, ops) => IsPast(appCache'[k], stored, ops)
    BY <1>1, StatusWritten
  <1>3. Seen(k, appCache'[k])
    BY <1>2, SeenBefore DEF Seen, Known
  <1>4. AppFull(k)'
    <2>1. AppFull(k) /\ app[k] \in Known
      BY Types DEF Inv, AppsFill
    <2> QED
      BY <1>2, <2>1 DEF AppFull, Known, SameButStatus
  <1> QED
    BY <1>3, <1>4, SeenBefore DEF AppAfter, Seen

LEMMA AppStopped ==
  ASSUME Inv, NEW k \in Items, listed' = {},
         app'[k] = app[k], appCache'[k] = Absent, appWatch'[k] = << >>
  PROVE  AppAfter(k)
  <1>1. << >> \in Seq(App!Events) /\ Len(<< >>) = 0
    BY EmptySeq
  <1>2. 1..Len(appWatch'[k]) = {}
    BY <1>1
  <1> QED
    BY <1>1, <1>2, SeenBefore DEF AppAfter, Seen

LEMMA AppListed ==
  ASSUME Inv, NEW k \in Items, "app" \notin listed, "app" \in listed',
         app'[k] = app[k], appCache'[k] = appCache[k],
         appWatch'[k] = IF Exists(k) THEN <<App!Event(app[k])>> ELSE << >>
  PROVE  AppAfter(k)
  <1>1. app[k] \in Known /\ appCache[k] = Absent
    BY Types DEF Inv, AppsFill
  <1>2. CASE Exists(k)
    <2>1. /\ appWatch'[k] \in Seq(App!Events) /\ Len(appWatch'[k]) = 1
          /\ appWatch'[k][1].obj = app[k]
      BY <1>1, <1>2, EventIsEvent, Single
    <2>2. \A n \in 1..Len(appWatch'[k]) : appWatch'[k][n].obj = app'[k]
      BY <2>1
    <2>3. AppFull(k)'
      BY <2>1 DEF AppFull
    <2> QED
      BY <1>1, <2>1, <2>2, <2>3, SeenBefore DEF AppAfter, Seen
  <1>3. CASE ~Exists(k)
    <2>1. appWatch'[k] \in Seq(App!Events) /\ Len(appWatch'[k]) = 0
      BY <1>3, EmptySeq
    <2>2. 1..Len(appWatch'[k]) = {}
      BY <2>1
    <2> QED
      BY <1>1, <1>3, <2>1, <2>2, SeenBefore DEF AppAfter, AppFull, Seen, Exists
  <1> QED
    BY <1>2, <1>3

(* Every step leaves the Apps so. *)
Shaped ==
  /\ app' = [k \in Items |-> app'[k]]
  /\ appCache' = [k \in Items |-> appCache'[k]]
  /\ appWatch' = [k \in Items |-> appWatch'[k]]

LEMMA AppsStep ==
  ASSUME Inv, AppMoves
  PROVE  Shaped /\ \A k \in Items : AppAfter(k)
  <1>1. /\ app \in [Items -> Known] /\ appCache \in [Items -> Known]
        /\ appWatch \in [Items -> Seq(App!Events)]
    BY Types
  <1>2. CASE UNCHANGED appVars /\ SameListed("app")
    <2>1. app' = app /\ appCache' = appCache /\ appWatch' = appWatch
      BY <1>2 DEF appVars
    <2> QED
      BY <1>1, <1>2, <2>1, AppUntouched DEF Shaped
  <1>3. CASE UNCHANGED <<app, appWatch>> /\ TouchesCache /\ "app" \in listed /\ listed' = listed
    <2>1. PICK k0 \in Items, kind \in Kinds, v \in 0..MaxOps :
            /\ appCache[k0] # Absent
            /\ appCache' = [appCache EXCEPT ![k0] = [appCache[k0] EXCEPT !.status[kind] = v]]
      BY <1>3 DEF TouchesCache
    <2>2. SameListed("app") /\ app' = app /\ appWatch' = appWatch
      BY <1>3 DEF SameListed
    <2>3. appCache'[k0] = [appCache[k0] EXCEPT !.status[kind] = v]
      BY <1>1, <2>1
    <2>4. AppAfter(k0)
      BY <1>3, <2>1, <2>2, <2>3, AppTouched
    <2>5. ASSUME NEW k \in Items, k # k0 PROVE AppAfter(k)
      BY <1>1, <2>1, <2>2, <2>5, AppUntouched
    <2>6. Shaped
      BY <1>1, <2>1, <2>2 DEF Shaped
    <2> QED
      BY <2>4, <2>5, <2>6
  <1>4. ASSUME NEW k0 \in Items, NEW obj \in Known, WriteApp(k0, obj),
               Follows(app[k0], obj, used.ops, used'.ops), listed' = listed
        PROVE  Shaped /\ \A k \in Items : AppAfter(k)
    <2>1. /\ app' = [app EXCEPT ![k0] = obj] /\ appCache' = appCache
          /\ appWatch' = IF "app" \in listed
                           THEN [appWatch EXCEPT ![k0] = Append(appWatch[k0], App!Event(obj))]
                           ELSE appWatch
      BY <1>4 DEF WriteApp, App!Write
    <2>2. AppAfter(k0)
      <3>1. /\ app'[k0] = obj /\ appCache'[k0] = appCache[k0]
            /\ appWatch'[k0] = IF "app" \in listed THEN Append(appWatch[k0], App!Event(obj))
                               ELSE appWatch[k0]
        BY <1>1, <2>1
      <3> QED
        BY <1>4, <3>1, AppWritten
    <2>3. ASSUME NEW k \in Items, k # k0 PROVE AppAfter(k)
      BY <1>1, <1>4, <2>1, <2>3, AppUntouched DEF SameListed
    <2>4. Shaped
      BY <1>1, <2>1 DEF Shaped
    <2> QED
      BY <2>2, <2>3, <2>4
  <1>5. ASSUME NEW k0 \in Items, ReceiveApp(k0)
        PROVE  Shaped /\ \A k \in Items : AppAfter(k)
    <2>1. /\ appWatch[k0] # << >> /\ app' = app /\ listed' = listed
          /\ appCache' = [appCache EXCEPT ![k0] = Head(appWatch[k0]).obj]
          /\ appWatch' = [appWatch EXCEPT ![k0] = Tail(appWatch[k0])]
      BY <1>5 DEF ReceiveApp, App!Receive, programVars
    <2>2. AppAfter(k0)
      <3>1. /\ app'[k0] = app[k0] /\ appCache'[k0] = Head(appWatch[k0]).obj
            /\ appWatch'[k0] = Tail(appWatch[k0])
        BY <1>1, <2>1
      <3> QED
        BY <2>1, <3>1, AppReceived
    <2>3. ASSUME NEW k \in Items, k # k0 PROVE AppAfter(k)
      BY <1>1, <2>1, <2>3, AppUntouched DEF SameListed
    <2>4. Shaped
      BY <1>1, <2>1 DEF Shaped
    <2> QED
      BY <2>2, <2>3, <2>4
  <1>6. CASE App!Stop /\ listed' = {}
    <2>1. app' = app /\ appCache' = [k \in Items |-> Absent] /\ appWatch' = [k \in Items |-> << >>]
      BY <1>6 DEF App!Stop, App!Empty
    <2>2. ASSUME NEW k \in Items PROVE AppAfter(k)
      BY <1>6, <2>1, AppStopped
    <2> QED
      BY <1>1, <2>1, <2>2 DEF Shaped
  <1>7. CASE ListApps /\ "app" \notin listed /\ "app" \in listed'
    <2>1. /\ app' = app /\ appCache' = appCache
          /\ appWatch' = [k \in Items |-> IF Exists(k) THEN <<App!Event(app[k])>> ELSE << >>]
      BY <1>7 DEF ListApps
    <2>2. ASSUME NEW k \in Items PROVE AppAfter(k)
      BY <1>7, <2>1, AppListed
    <2> QED
      BY <1>1, <2>1, <2>2 DEF Shaped
  <1> QED
    BY <1>2, <1>3, <1>4, <1>5, <1>6, <1>7 DEF AppMoves

LEMMA AppsPreserved ==
  ASSUME Inv, [Next]_vars
  PROVE  /\ App!TypeOK'
         /\ AppsFill'
         /\ \A k \in Items :
              /\ IsPast(app'[k], app'[k], used'.ops)
              /\ IsPast(appCache'[k], app'[k], used'.ops)
              /\ \A n \in 1..Len(appWatch'[k]) : IsPast(appWatch'[k][n].obj, app'[k], used'.ops)
              /\ \A m : Seen(k, m) => IsPast(m, app'[k], used'.ops)
  <1>1. AppMoves /\ used.ops <= used'.ops /\ used'.ops \in Nat /\ used.ops \in Nat
    BY EveryStepMovesApps, Types DEF AppMoves
  <1>2. Shaped /\ \A k \in Items : AppAfter(k)
    BY <1>1, AppsStep
  <1>3. ASSUME NEW k \in Items, NEW m, Seen(k, m) PROVE IsPast(m, app'[k], used'.ops)
    <2>1. app[k] \in Known /\ app'[k] \in Known
      BY <1>2, Types DEF AppAfter
    <2>2. app'[k] = app[k] \/ Follows(app[k], app'[k], used.ops, used'.ops)
      BY <1>2 DEF AppAfter
    <2> QED
      BY <1>1, <1>3, <2>1, <2>2, PastStaysPast DEF Seen
  <1>4. ASSUME NEW k \in Items PROVE IsPast(app'[k], app'[k], used'.ops)
    <2>1. app'[k] \in Known /\ (app'[k] = app[k] \/ Follows(app[k], app'[k], used.ops, used'.ops))
      BY <1>2 DEF AppAfter
    <2>2. CASE app'[k] = app[k]
      BY <1>3, <2>2, SeenBefore
    <2>3. CASE Follows(app[k], app'[k], used.ops, used'.ops)
      BY <2>1, <2>3, NewIsPast DEF Follows
    <2> QED
      BY <2>1, <2>2, <2>3
  <1>5. ASSUME NEW k \in Items
        PROVE  /\ IsPast(appCache'[k], app'[k], used'.ops)
               /\ \A n \in 1..Len(appWatch'[k]) : IsPast(appWatch'[k][n].obj, app'[k], used'.ops)
    BY <1>2, <1>3, <1>4 DEF AppAfter
  <1>6. AppsFill'
    BY <1>2 DEF AppAfter, AppsFill
  <1>7. App!TypeOK'
    <2>1. /\ app' \in [Items -> Known] /\ appCache' \in [Items -> Known]
          /\ appWatch' \in [Items -> Seq(App!Events)]
      BY <1>2 DEF AppAfter, Shaped, Seen
    <2>2. [k \in Items |-> << >>] \in [Items -> Seq(App!Notes)]
      BY EmptySeq
    <2> QED
      BY <2>1, <2>2 DEF App!TypeOK, App!MaybeObject, Known
  <1> QED
    BY <1>3, <1>4, <1>5, <1>6, <1>7

-----------------------------------------------------------------------------
(* What a step does to the children, and to their caches. *)
OpsOf(d, ops) == d # Absent => d.version <= ops

SameOwner(c, d) == c # Absent /\ d # Absent => c.owner = d.owner

ChildMoves ==
  \/ UNCHANGED childVars /\ \A kind \in Kinds : SameListed(kind)
  \/ \E c \in ChildKeys, d \in KnownChild :
       WriteChild(c, d) /\ OpsOf(d, used'.ops) /\ SameOwner(child[c], d) /\ listed' = listed
  \/ \E c \in ChildKeys : ReceiveChild(c)
  \/ Child!Stop /\ listed' = {}
  \/ \E kind \in Kinds : ListChildren(kind) /\ kind \notin listed /\ listed' = listed \cup {kind}

LEMMA EveryStepMovesChildren ==
  ASSUME Inv, [Next]_vars
  PROVE  ChildMoves
  <1>1. ASSUME UNCHANGED <<childVars, programVars>> PROVE ChildMoves
    BY <1>1 DEF ChildMoves, SameListed, programVars
  <1>2. ASSUME NEW k \in Items, UserWrites(k) \/ ReceiveApp(k) \/ EntryReady(k) PROVE ChildMoves
    BY <1>1, <1>2 DEF UserWrites, ReceiveApp, EntryReady, Delays, Elsewhere
  <1>3. ASSUME NEW c \in ChildKeys, OthersWriteChild(c) PROVE ChildMoves
    <2>1. /\ listed' = listed /\ used'.ops = used.ops + 1
          /\ used.ops \in Nat /\ used.ops + 1 \in 1..MaxOps /\ MaxOps \in Nat
      BY <1>3, Types DEF OthersWriteChild, UserOp, Elsewhere, programVars
    <2>2. CASE WriteChild(c, Absent)
      BY <2>1, <2>2 DEF ChildMoves, KnownChild, OpsOf, SameOwner
    <2>3. CASE child[c] = Absent /\ WriteChild(c, [owner |-> NoOwner, version |-> 1])
      <3>1. [owner |-> NoOwner, version |-> 1] \in Children
        BY <2>1 DEF Children, NoOwner
      <3>2. OpsOf([owner |-> NoOwner, version |-> 1], used'.ops)
        BY <2>1 DEF OpsOf
      <3> QED
        BY <2>1, <2>3, <3>1, <3>2 DEF ChildMoves, KnownChild, SameOwner
    <2>4. CASE child[c] # Absent /\ WriteChild(c, [child[c] EXCEPT !.version = @ + 1])
      <3> DEFINE d == [child[c] EXCEPT !.version = @ + 1]
      <3>1. child[c] \in Children /\ child[c].version <= used.ops
        BY <2>4, Types DEF KnownChild, Inv, Versions
      <3>2. child[c].version \in 1..MaxOps
        BY <3>1 DEF Children
      <3>3. child[c].version + 1 \in 1..MaxOps /\ child[c].version + 1 <= used'.ops
        BY <2>1, <3>1, <3>2
      <3>4. d \in Children /\ d.version = child[c].version + 1 /\ SameOwner(child[c], d)
        BY <3>1, <3>3 DEF Children, SameOwner
      <3>5. WriteChild(c, d)
        BY <2>4
      <3> HIDE DEF d
      <3> QED
        BY <2>1, <3>3, <3>4, <3>5 DEF ChildMoves, KnownChild, OpsOf
    <2> QED
      BY <1>3, <2>2, <2>3, <2>4 DEF OthersWriteChild
  <1>4. ASSUME NEW c \in ChildKeys, Collect(c) PROVE ChildMoves
    BY <1>4 DEF Collect, Elsewhere, programVars, ChildMoves, KnownChild, OpsOf, SameOwner
  <1>5. ASSUME NEW c \in ChildKeys, ReceiveChild(c) PROVE ChildMoves
    BY <1>5 DEF ChildMoves
  <1>6. ASSUME NEW t \in Informers, List(t) PROVE ChildMoves
    <2>1. listed' = listed \cup {t} /\ t \notin listed
      BY <1>6 DEF List
    <2>2. CASE t = "app"
      BY <1>6, <2>1, <2>2 DEF List, ListApps, ChildMoves, SameListed, Kinds
    <2>3. CASE t # "app"
      BY <1>6, <2>1, <2>3 DEF List, ChildMoves, Informers
    <2> QED
      BY <2>2, <2>3
  <1>7. ASSUME ProcessEnds PROVE ChildMoves
    BY <1>7 DEF ProcessEnds, ChildMoves
  <1>8. ASSUME Main \/ Signal, ~ProcessEnds PROVE ChildMoves
    <2>1. childVars' = childVars /\ listed' = listed
      BY <1>8 DEF Main, Signal, NewController, StartFactories, WaitForCacheSync, ShutDown, Exit,
                  Restart, InMemory, programVars
    <2> QED
      BY <2>1 DEF ChildMoves, SameListed
  <1>9. ASSUME NEW w \in Workers, CreateChild(w) PROVE ChildMoves
    <2>1. At(w, "create") /\ ~At(w, "idle") /\ listed' = listed /\ (used' = used \/ Fault)
      BY <1>9 DEF CreateChild, Call, At, programVars
    <2>2. /\ InHand(w) \in Apps /\ ChildKey(w) \in ChildKeys
          /\ IsPast(InHand(w), app[Key(w)], used.ops)
      BY <2>1, WorkerKnows DEF At
    <2>3. /\ InHand(w).uid \in 1..MaxOps /\ InHand(w).uid <= used.ops
          /\ used.ops <= used'.ops /\ used'.ops \in Nat /\ used.ops \in Nat /\ MaxOps \in Nat
      BY <2>1, <2>2, AppTypes, UsedGrows, Types DEF IsPast
    <2> DEFINE d == [owner |-> InHand(w).uid, version |-> 1]
    <2>4. d \in Children /\ d.version = 1 /\ 1 <= used'.ops
      BY <2>3 DEF Children
    <2>5. \/ WriteChild(ChildKey(w), d) /\ SameOwner(child[ChildKey(w)], d)
          \/ UNCHANGED childVars
      BY <1>9 DEF CreateChild, Call, SameOwner
    <2> HIDE DEF d
    <2> QED
      BY <2>1, <2>2, <2>4, <2>5 DEF ChildMoves, KnownChild, OpsOf, SameListed
  <1>10. ASSUME NEW w \in Workers, TakeItem(w) \/ Step(w), UNCHANGED childVars PROVE ChildMoves
    BY <1>1, <1>10, StepKeeps
  <1>11. ASSUME NEW w \in Workers,
                \/ TakeItem(w) \/ ReadApp(w) \/ FindChild(w) \/ GetChild(w) \/ UpdateApp(w)
                \/ HandleError(w) \/ Done(w)
         PROVE  UNCHANGED childVars
    BY <1>11 DEF TakeItem, ReadApp, FindChild, GetChild, UpdateApp, HandleError, Done
  <1>12. ASSUME NEW w \in Workers, TakeItem(w) \/ Step(w) PROVE ChildMoves
    BY <1>9, <1>10, <1>11, <1>12 DEF Step
  <1>13. ASSUME ReceiveEntry PROVE ChildMoves
    BY <1>1, <1>13 DEF ReceiveEntry, Delays
  <1>14. CASE UNCHANGED vars
    BY <1>1, <1>14 DEF vars
  <1> QED
    BY <1>2, <1>3, <1>4, <1>5, <1>6, <1>7, <1>8, <1>12, <1>13, <1>14 DEF Next

(* The child under one key after a step. *)
ChildAfter(c) ==
  /\ child'[c] \in KnownChild /\ OpsOf(child'[c], used'.ops)
  /\ childCache'[c] \in KnownChild
  /\ childWatch'[c] \in Seq(Child!Events)
  /\ IF c[1] \in listed' THEN ChildFull(c)' ELSE childWatch'[c] = << >> /\ childCache'[c] = Absent

LEMMA ChildBefore ==
  ASSUME Inv, NEW c \in ChildKeys, used.ops <= used'.ops, used'.ops \in Nat
  PROVE  /\ child[c] \in KnownChild /\ childCache[c] \in KnownChild /\ Absent \in KnownChild
         /\ OpsOf(child[c], used'.ops)
         /\ childWatch[c] \in Seq(Child!Events) /\ Len(childWatch[c]) \in Nat
         /\ c[1] \in Kinds
         /\ IF c[1] \in listed THEN ChildFull(c)
            ELSE childWatch[c] = << >> /\ childCache[c] = Absent
  <1>1. /\ child[c] \in KnownChild /\ childCache[c] \in KnownChild /\ Absent \in KnownChild
        /\ childWatch[c] \in Seq(Child!Events) /\ c[1] \in Kinds
    BY Types DEF KnownChild, ChildKeys
  <1>2. OpsOf(child[c], used'.ops)
    <2>1. child[c] # Absent => child[c].version \in Nat /\ child[c].version <= used.ops
      BY <1>1, BoundsAssumption DEF Inv, Versions, KnownChild, Children
    <2> QED
      BY <2>1, Types DEF OpsOf
  <1> QED
    BY <1>1, <1>2, LenProperties DEF Inv, ChildrenFill

LEMMA ChildUntouched ==
  ASSUME Inv, NEW c \in ChildKeys, used.ops <= used'.ops, used'.ops \in Nat,
         c[1] \in listed' <=> c[1] \in listed,
         child'[c] = child[c], childCache'[c] = childCache[c], childWatch'[c] = childWatch[c]
  PROVE  ChildAfter(c)
  <1>1. ChildFull(c)' <=> ChildFull(c)
    BY DEF ChildFull
  <1> QED
    BY <1>1, ChildBefore DEF ChildAfter

LEMMA ChildEventIsEvent ==
  ASSUME NEW d \in KnownChild
  PROVE  Child!Event(d) \in Child!Events /\ Child!Event(d).obj = d
  BY DEF Child!Event, Child!Events, Child!MaybeObject, KnownChild

LEMMA ChildWritten ==
  ASSUME Inv, NEW c \in ChildKeys, NEW d \in KnownChild, used.ops <= used'.ops, used'.ops \in Nat,
         OpsOf(d, used'.ops), listed' = listed, child'[c] = d, childCache'[c] = childCache[c],
         childWatch'[c] = IF c[1] \in listed THEN Append(childWatch[c], Child!Event(d))
                          ELSE childWatch[c]
  PROVE  ChildAfter(c)
  <1>1. CASE c[1] \in listed
    <2>1. /\ childWatch'[c] \in Seq(Child!Events)
          /\ Len(childWatch[c]) \in Nat /\ Len(childWatch'[c]) = Len(childWatch[c]) + 1
          /\ childWatch'[c][Len(childWatch[c]) + 1].obj = d
      BY <1>1, ChildBefore, ChildEventIsEvent, Appended
    <2>2. ChildFull(c)'
      BY <2>1 DEF ChildFull
    <2> QED
      BY <1>1, <2>1, <2>2, ChildBefore DEF ChildAfter
  <1>2. CASE c[1] \notin listed
    BY <1>2, ChildBefore DEF ChildAfter
  <1> QED
    BY <1>1, <1>2

LEMMA ChildReceived ==
  ASSUME Inv, NEW c \in ChildKeys, used.ops <= used'.ops, used'.ops \in Nat,
         listed' = listed, childWatch[c] # << >>, child'[c] = child[c],
         childCache'[c] = Head(childWatch[c]).obj, childWatch'[c] = Tail(childWatch[c])
  PROVE  ChildAfter(c)
  <1>1. /\ childWatch'[c] \in Seq(Child!Events)
        /\ Len(childWatch[c]) \in Nat \ {0} /\ Len(childWatch'[c]) = Len(childWatch[c]) - 1
        /\ \A n \in 1..Len(childWatch'[c]) : childWatch'[c][n] = childWatch[c][n + 1]
        /\ Head(childWatch[c]) = childWatch[c][1] /\ Head(childWatch[c]) \in Child!Events
    BY ChildBefore, Shifted
  <1>2. childCache'[c] \in KnownChild
    BY <1>1 DEF Child!Events, Child!MaybeObject, KnownChild
  <1>3. c[1] \in listed /\ ChildFull(c)
    BY ChildBefore
  <1>4. childWatch[c][Len(childWatch[c])].obj = child[c]
    BY <1>1, <1>3 DEF ChildFull
  <1>5. ChildFull(c)'
    <2>1. CASE Len(childWatch'[c]) > 0
      <3>1. /\ Len(childWatch'[c]) \in 1..Len(childWatch'[c])
            /\ Len(childWatch'[c]) + 1 = Len(childWatch[c])
        BY <1>1, <2>1
      <3>2. childWatch'[c][Len(childWatch'[c])] = childWatch[c][Len(childWatch[c])]
        BY <1>1, <3>1
      <3> QED
        BY <1>4, <2>1, <3>2 DEF ChildFull
    <2>2. CASE Len(childWatch'[c]) = 0
      <3>1. Len(childWatch[c]) = 1
        BY <1>1, <2>2
      <3>2. childCache'[c] = child[c]
        BY <1>1, <1>4, <3>1
      <3> QED
        BY <2>2, <3>2 DEF ChildFull
    <2>3. Len(childWatch'[c]) > 0 \/ Len(childWatch'[c]) = 0
      <3>1. Len(childWatch'[c]) \in Nat
        BY <1>1, LenProperties
      <3> QED
        BY <3>1, ZeroOrMore
    <2> QED
      BY <2>1, <2>2, <2>3
  <1> QED
    BY <1>1, <1>2, <1>3, <1>5, ChildBefore DEF ChildAfter

LEMMA ChildListed ==
  ASSUME Inv, NEW c \in ChildKeys, used.ops <= used'.ops, used'.ops \in Nat,
         c[1] \notin listed, c[1] \in listed', child'[c] = child[c], childCache'[c] = childCache[c],
         childWatch'[c] = IF child[c] # Absent THEN <<Child!Event(child[c])>> ELSE childWatch[c]
  PROVE  ChildAfter(c)
  <1>1. childWatch[c] = << >> /\ childCache[c] = Absent /\ child[c] \in KnownChild
    BY ChildBefore
  <1>2. CASE child[c] # Absent
    <2>1. /\ childWatch'[c] \in Seq(Child!Events) /\ Len(childWatch'[c]) = 1
          /\ childWatch'[c][1].obj = child[c]
      BY <1>1, <1>2, ChildEventIsEvent, Single
    <2>2. ChildFull(c)'
      BY <2>1 DEF ChildFull
    <2> QED
      BY <2>1, <2>2, ChildBefore DEF ChildAfter
  <1>3. CASE child[c] = Absent
    <2>1. childWatch'[c] \in Seq(Child!Events) /\ Len(childWatch'[c]) = 0
      BY <1>1, <1>3, EmptySeq
    <2>2. ChildFull(c)'
      BY <1>1, <1>3, <2>1 DEF ChildFull
    <2> QED
      BY <2>1, <2>2, ChildBefore DEF ChildAfter
  <1> QED
    BY <1>2, <1>3

ChildrenShaped ==
  /\ child' = [c \in ChildKeys |-> child'[c]]
  /\ childCache' = [c \in ChildKeys |-> childCache'[c]]
  /\ childWatch' = [c \in ChildKeys |-> childWatch'[c]]

LEMMA ChildrenStep ==
  ASSUME Inv, ChildMoves, used.ops <= used'.ops, used'.ops \in Nat
  PROVE  ChildrenShaped /\ \A c \in ChildKeys : ChildAfter(c)
  <1>1. /\ child \in [ChildKeys -> KnownChild] /\ childCache \in [ChildKeys -> KnownChild]
        /\ childWatch \in [ChildKeys -> Seq(Child!Events)]
        /\ \A c \in ChildKeys : c[1] \in Kinds
    BY Types DEF ChildKeys
  <1>2. CASE UNCHANGED childVars /\ \A kind \in Kinds : SameListed(kind)
    <2>1. child' = child /\ childCache' = childCache /\ childWatch' = childWatch
      BY <1>2 DEF childVars
    <2> QED
      BY <1>1, <1>2, <2>1, ChildUntouched DEF ChildrenShaped, SameListed
  <1>3. ASSUME NEW c0 \in ChildKeys, NEW d \in KnownChild, WriteChild(c0, d),
               OpsOf(d, used'.ops), listed' = listed
        PROVE  ChildrenShaped /\ \A c \in ChildKeys : ChildAfter(c)
    <2>1. /\ child' = [child EXCEPT ![c0] = d] /\ childCache' = childCache
          /\ childWatch' = IF c0[1] \in listed
                             THEN [childWatch EXCEPT ![c0] = Append(childWatch[c0], Child!Event(d))]
                             ELSE childWatch
      BY <1>3 DEF WriteChild, Child!Write
    <2>2. ChildAfter(c0)
      <3>1. /\ child'[c0] = d /\ childCache'[c0] = childCache[c0]
            /\ childWatch'[c0] = IF c0[1] \in listed THEN Append(childWatch[c0], Child!Event(d))
                                 ELSE childWatch[c0]
        BY <1>1, <2>1
      <3> QED
        BY <1>3, <3>1, ChildWritten
    <2>3. ASSUME NEW c \in ChildKeys, c # c0 PROVE ChildAfter(c)
      <3>1. child'[c] = child[c] /\ childCache'[c] = childCache[c] /\ childWatch'[c] = childWatch[c]
        BY <1>1, <2>1, <2>3
      <3> QED
        BY <1>3, <3>1, ChildUntouched
    <2>4. ChildrenShaped
      BY <1>1, <2>1 DEF ChildrenShaped
    <2> QED
      BY <2>2, <2>3, <2>4
  <1>4. ASSUME NEW c0 \in ChildKeys, ReceiveChild(c0)
        PROVE  ChildrenShaped /\ \A c \in ChildKeys : ChildAfter(c)
    <2>1. /\ childWatch[c0] # << >> /\ child' = child /\ listed' = listed
          /\ childCache' = [childCache EXCEPT ![c0] = Head(childWatch[c0]).obj]
          /\ childWatch' = [childWatch EXCEPT ![c0] = Tail(childWatch[c0])]
      BY <1>4 DEF ReceiveChild, Child!Receive, programVars
    <2>2. ChildAfter(c0)
      <3>1. /\ child'[c0] = child[c0] /\ childCache'[c0] = Head(childWatch[c0]).obj
            /\ childWatch'[c0] = Tail(childWatch[c0])
        BY <1>1, <2>1
      <3> QED
        BY <2>1, <3>1, ChildReceived
    <2>3. ASSUME NEW c \in ChildKeys, c # c0 PROVE ChildAfter(c)
      <3>1. child'[c] = child[c] /\ childCache'[c] = childCache[c] /\ childWatch'[c] = childWatch[c]
        BY <1>1, <2>1, <2>3
      <3> QED
        BY <2>1, <3>1, ChildUntouched
    <2>4. ChildrenShaped
      BY <1>1, <2>1 DEF ChildrenShaped
    <2> QED
      BY <2>2, <2>3, <2>4
  <1>5. CASE Child!Stop /\ listed' = {}
    <2>1. /\ child' = child /\ childCache' = [c \in ChildKeys |-> Absent]
          /\ childWatch' = [c \in ChildKeys |-> << >>]
      BY <1>5 DEF Child!Stop, Child!Empty
    <2>2. ASSUME NEW c \in ChildKeys PROVE ChildAfter(c)
      BY <1>5, <2>1, ChildBefore, EmptySeq DEF ChildAfter
    <2> QED
      BY <1>1, <2>1, <2>2 DEF ChildrenShaped
  <1>6. ASSUME NEW kind \in Kinds, ListChildren(kind), kind \notin listed,
               listed' = listed \cup {kind}
        PROVE  ChildrenShaped /\ \A c \in ChildKeys : ChildAfter(c)
    <2>1. /\ child' = child /\ childCache' = childCache
          /\ childWatch' = [c \in ChildKeys |->
               IF c[1] = kind /\ child[c] # Absent THEN <<Child!Event(child[c])>> ELSE childWatch[c]]
      BY <1>6 DEF ListChildren
    <2>2. ASSUME NEW c \in ChildKeys, c[1] = kind PROVE ChildAfter(c)
      BY <1>6, <2>1, <2>2, ChildListed
    <2>3. ASSUME NEW c \in ChildKeys, c[1] # kind PROVE ChildAfter(c)
      <3>1. child'[c] = child[c] /\ childCache'[c] = childCache[c] /\ childWatch'[c] = childWatch[c]
        BY <2>1, <2>3
      <3>2. c[1] \in listed' <=> c[1] \in listed
        BY <1>6, <2>3
      <3> QED
        BY <3>1, <3>2, ChildUntouched
    <2> QED
      BY <1>1, <2>1, <2>2, <2>3 DEF ChildrenShaped
  <1> QED
    BY <1>2, <1>3, <1>4, <1>5, <1>6 DEF ChildMoves

LEMMA ChildrenPreserved ==
  ASSUME Inv, [Next]_vars
  PROVE  /\ Child!TypeOK' /\ ChildrenFill'
         /\ \A c \in ChildKeys : child'[c] # Absent => child'[c].version <= used'.ops
  <1>1. ChildMoves /\ used.ops <= used'.ops /\ used'.ops \in Nat
    BY EveryStepMovesChildren, EveryStepMovesApps DEF AppMoves
  <1>2. ChildrenShaped /\ \A c \in ChildKeys : ChildAfter(c)
    BY <1>1, ChildrenStep
  <1>3. Child!TypeOK'
    <2>1. /\ child' \in [ChildKeys -> KnownChild] /\ childCache' \in [ChildKeys -> KnownChild]
          /\ childWatch' \in [ChildKeys -> Seq(Child!Events)]
      BY <1>2 DEF ChildAfter, ChildrenShaped
    <2>2. [c \in ChildKeys |-> << >>] \in [ChildKeys -> Seq(Child!Notes)]
      BY EmptySeq
    <2> QED
      BY <2>1, <2>2 DEF Child!TypeOK, Child!MaybeObject, KnownChild
  <1>4. ChildrenFill'
    BY <1>2 DEF ChildAfter, ChildrenFill
  <1> QED
    BY <1>2, <1>3, <1>4 DEF ChildAfter, OpsOf

-----------------------------------------------------------------------------
(* The workers. *)
MayBe(r) == r \in States /\ Sound(r) /\ (r.pc # "idle" => Seen(r.key, r.app))

WorkerMoves ==
  \/ UNCHANGED worker
  \/ worker' = [w \in Workers |-> Idle]
  \/ \E w \in Workers, r \in States : worker' = [worker EXCEPT ![w] = r] /\ MayBe(r)

LEMMA IdleMayBe == MayBe(Idle)
  BY DEF MayBe, Idle, States, PCs, Known, Sound

LEMMA WorkerMayBe ==
  ASSUME Inv, NEW w \in Workers
  PROVE  MayBe(worker[w])
  <1>1. worker[w] \in States /\ Sound(worker[w])
    BY Types DEF Inv, WorkersKnow
  <1>2. ~At(w, "idle") => Seen(Key(w), InHand(w))
    BY WorkerKnows DEF Seen
  <1> QED
    BY <1>1, <1>2 DEF MayBe, At, Key, InHand

LEMMA GotoMoves ==
  ASSUME Inv, NEW w \in Workers, ~At(w, "idle"), NEW pc, Goto(w, pc),
         \/ pc \in {"failed", "handled", "done"}
         \/ pc \in {"create", "get"} /\ worker[w].pc \in {"find", "create"}
  PROVE  WorkerMoves
  <1> DEFINE r == [worker[w] EXCEPT !.pc = pc]
  <1>1. MayBe(worker[w]) /\ worker[w] \in States
    BY WorkerMayBe DEF MayBe
  <1>2. /\ r \in States /\ r.pc = pc /\ r.key = worker[w].key
        /\ r.app = worker[w].app /\ r.kind = worker[w].kind
    BY <1>1 DEF States, PCs
  <1>3. worker' = [worker EXCEPT ![w] = r]
    BY Types DEF Goto
  <1> HIDE DEF r
  <1>4. Sound(r)
    BY <1>1, <1>2 DEF MayBe, Sound, At
  <1>5. Seen(r.key, r.app)
    BY <1>1, <1>2 DEF MayBe, At
  <1> QED
    BY <1>2, <1>3, <1>4, <1>5 DEF WorkerMoves, MayBe

LEMMA ProceedMoves ==
  ASSUME Inv, NEW w \in Workers, ~At(w, "idle"), NEW a \in Apps, Seen(Key(w), a),
         NEW kinds \in SUBSET Kinds, Proceed(w, a, kinds)
  PROVE  WorkerMoves
  <1>1. worker[w] \in States /\ Key(w) \in Items
    BY WorkerKnows
  <1>2. PICK pc \in {"update", "find"}, kind \in Kinds \cup {Absent} :
          /\ worker' = [worker EXCEPT ![w].app = a, ![w].pc = pc, ![w].kind = kind]
          /\ pc = "find" => kind \in Kinds /\ a.spec[kind] # Absent
    <2> DEFINE wanted == {kind \in kinds : a.spec[kind] # Absent}
               first  == IF "deployment" \in wanted THEN "deployment" ELSE "service"
    <2>1. wanted # {} => first \in wanted
      BY DEF Kinds
    <2>2. wanted \subseteq Kinds
      OBVIOUS
    <2>3. worker' = [worker EXCEPT ![w].app = a,
                       ![w].pc   = IF wanted = {} THEN "update" ELSE "find",
                       ![w].kind = IF wanted = {} THEN Absent ELSE first]
      BY DEF Proceed
    <2>4. CASE wanted = {}
      BY <2>3, <2>4
    <2>5. CASE wanted # {}
      <3>1. first \in Kinds /\ a.spec[first] # Absent
        BY <2>1, <2>2, <2>5
      <3>2. worker' = [worker EXCEPT ![w].app = a, ![w].pc = "find", ![w].kind = first]
        BY <2>3, <2>5
      <3> HIDE DEF wanted, first
      <3> QED
        BY <3>1, <3>2
    <2> QED
      BY <2>4, <2>5
  <1> DEFINE r == [worker[w] EXCEPT !.app = a, !.pc = pc, !.kind = kind]
  <1>3. /\ r \in States /\ r.pc = pc /\ r.key = Key(w) /\ r.app = a /\ r.kind = kind
    BY <1>1 DEF States, PCs, Known, Key
  <1>4. worker' = [worker EXCEPT ![w] = r]
    BY <1>2, Types
  <1> HIDE DEF r
  <1>5. Sound(r) /\ Seen(r.key, r.app)
    BY <1>1, <1>2, <1>3, AppTypes DEF Sound
  <1> QED
    BY <1>3, <1>4, <1>5 DEF WorkerMoves, MayBe

LEMMA TakeStatusMoves ==
  ASSUME Inv, NEW w \in Workers, NEW c \in KnownChild, TakeStatus(w, c),
         worker[w].pc \in {"find", "get"}
  PROVE  WorkerMoves
  <1>1. ~At(w, "idle")
    BY DEF At
  <1>2. CASE Goto(w, "failed")
    BY <1>1, <1>2, GotoMoves
  <1>3. ASSUME NEW a \in Apps, Proceed(w, a, After(worker[w].kind)),
               After(worker[w].kind) \subseteq Kinds, IsPast(a, app[Key(w)], used.ops)
        PROVE  WorkerMoves
    BY <1>1, <1>3, ProceedMoves DEF Seen, Known
  <1> QED
    BY <1>2, <1>3, StatusTaken

LEMMA EveryStepMovesWorkers ==
  ASSUME Inv, [Next]_vars
  PROVE  WorkerMoves
  <1>1. ASSUME NEW k \in Items, UserWrites(k) \/ ReceiveApp(k) \/ EntryReady(k) PROVE WorkerMoves
    BY <1>1 DEF UserWrites, ReceiveApp, EntryReady, Delays, Elsewhere, WorkerMoves
  <1>2. ASSUME NEW c \in ChildKeys, OthersWriteChild(c) \/ Collect(c) \/ ReceiveChild(c)
        PROVE  WorkerMoves
    BY <1>2 DEF OthersWriteChild, Collect, ReceiveChild, Elsewhere, WorkerMoves
  <1>3. ASSUME Main \/ Signal \/ ReceiveEntry \/ (\E t \in Informers : List(t)) PROVE WorkerMoves
    BY <1>3 DEF Main, Signal, NewController, StartFactories, WaitForCacheSync, ShutDown, Exit,
                Restart, ReceiveEntry, List, Delays, InMemory, ProcessEnds, WorkerMoves
  <1>4. ASSUME NEW w \in Workers, TakeItem(w) PROVE WorkerMoves
    <2>1. PICK k \in Items : worker' = [worker EXCEPT ![w] = [Idle EXCEPT !.pc = "sync", !.key = k]]
      BY <1>4 DEF TakeItem
    <2> DEFINE r == [Idle EXCEPT !.pc = "sync", !.key = k]
    <2>2. r \in States /\ r.pc = "sync" /\ r.key = k /\ r.app = Absent /\ r.kind = Absent
      BY DEF Idle, States, PCs, Known
    <2>3. Seen(k, Absent)
      BY SeenBefore
    <2>4. worker' = [worker EXCEPT ![w] = r]
      BY <2>1
    <2> HIDE DEF r
    <2> QED
      BY <2>2, <2>3, <2>4 DEF WorkerMoves, MayBe, Sound
  <1>5. ASSUME NEW w \in Workers, ReadApp(w) PROVE WorkerMoves
    <2>1. ~At(w, "idle")
      BY <1>5 DEF ReadApp, At
    <2>2. Key(w) \in Items
      BY <2>1, WorkerKnows
    <2>3. CASE Goto(w, "failed")
      BY <2>1, <2>3, GotoMoves
    <2>4. CASE appCache[Key(w)] # Absent /\ Proceed(w, appCache[Key(w)], Kinds)
      BY <2>1, <2>2, <2>4, SeenBefore, ProceedMoves DEF Seen, Known
    <2> QED
      BY <1>5, <2>3, <2>4 DEF ReadApp, Lister
  <1>6. ASSUME NEW w \in Workers, FindChild(w) PROVE WorkerMoves
    <2>1. worker[w].pc = "find" /\ ~At(w, "idle")
      BY <1>6 DEF FindChild, At
    <2>2. childCache[ChildKey(w)] \in KnownChild
      BY <2>1, WorkerKnows
    <2> QED
      BY <1>6, <2>1, <2>2, GotoMoves, TakeStatusMoves DEF FindChild
  <1>7. ASSUME NEW w \in Workers, GetChild(w) PROVE WorkerMoves
    <2>1. worker[w].pc = "get" /\ ~At(w, "idle")
      BY <1>7 DEF GetChild, At
    <2>2. child[ChildKey(w)] \in KnownChild /\ Absent \in KnownChild
      BY <2>1, WorkerKnows DEF KnownChild
    <2> QED
      BY <1>7, <2>1, <2>2, TakeStatusMoves DEF GetChild
  <1>8. ASSUME NEW w \in Workers, CreateChild(w) PROVE WorkerMoves
    BY <1>8, GotoMoves DEF CreateChild, Call, At
  <1>9. ASSUME NEW w \in Workers, UpdateApp(w) PROVE WorkerMoves
    <2>1. ~At(w, "idle") /\ (Goto(w, "done") \/ Goto(w, "failed"))
      BY <1>9 DEF UpdateApp, Call, At
    <2> QED
      BY <2>1, GotoMoves
  <1>10. ASSUME NEW w \in Workers, HandleError(w) PROVE WorkerMoves
    BY <1>10, GotoMoves DEF HandleError, At
  <1>11. ASSUME NEW w \in Workers, Done(w) PROVE WorkerMoves
    BY <1>11, IdleMayBe DEF Done, WorkerMoves, MayBe
  <1>12. CASE UNCHANGED vars
    BY <1>12 DEF vars, WorkerMoves
  <1> QED
    BY <1>1, <1>2, <1>3, <1>4, <1>5, <1>6, <1>7, <1>8, <1>9, <1>10, <1>11, <1>12 DEF Next, Step

LEMMA WorkersPreserved ==
  ASSUME Inv, [Next]_vars
  PROVE  /\ worker' \in [Workers -> States] /\ WorkersKnow'
         /\ \A w \in Workers : ~At(w, "idle")' => IsPast(InHand(w)', app'[Key(w)'], used'.ops)
  <1>1. WorkerMoves /\ worker \in [Workers -> States]
    BY EveryStepMovesWorkers, Types
  <1>2. worker' \in [Workers -> States] /\ \A w \in Workers : MayBe(worker'[w])
    <2>1. CASE UNCHANGED worker
      BY <1>1, <2>1, WorkerMayBe
    <2>2. CASE worker' = [w \in Workers |-> Idle]
      BY <2>2, IdleMayBe DEF MayBe
    <2>3. ASSUME NEW w0 \in Workers, NEW r \in States, worker' = [worker EXCEPT ![w0] = r], MayBe(r)
          PROVE  worker' \in [Workers -> States] /\ \A w \in Workers : MayBe(worker'[w])
      BY <1>1, <2>3, WorkerMayBe
    <2> QED
      BY <1>1, <2>1, <2>2, <2>3 DEF WorkerMoves
  <1>3. WorkersKnow'
    BY <1>2 DEF MayBe, WorkersKnow
  <1>4. ASSUME NEW w \in Workers, worker'[w].pc # "idle"
        PROVE  IsPast(worker'[w].app, app'[worker'[w].key], used'.ops)
    <2>1. worker'[w].key \in Items /\ Seen(worker'[w].key, worker'[w].app)
      BY <1>2, <1>4 DEF MayBe, Sound
    <2> QED
      BY <2>1, AppsPreserved
  <1> QED
    BY <1>2, <1>3, <1>4 DEF At, InHand, Key

-----------------------------------------------------------------------------
(* The queue: the operations that the steps call. *)
QueueOK == RLQ!TypeOK /\ failures \in [Items -> 0..MaxRetry]

HeldBySome(i) == \E w \in Workers : ~At(w, "idle") /\ Key(w) = i

QueueMoves ==
  \/ UNCHANGED queueVars
  \/ ProcessEnds
  \/ \E i \in Items : \/ RLQ!Add(i) \/ RLQ!Get(i) \/ RLQ!Ready(i)
                      \/ RLQ!AddRateLimited(i) /\ failures[i] < MaxRetry /\ HeldBySome(i)
                      \/ RLQ!Forget(i) /\ HeldBySome(i)
  \/ \E w \in Workers : ~At(w, "idle") /\ Key(w) \in Items /\ RLQ!Done(Key(w))
  \/ RLQ!ReceiveEntry
  \/ ShutDown

LEMMA EveryStepMovesQueue ==
  ASSUME Inv, [Next]_vars
  PROVE  QueueMoves
  <1>1. ASSUME NEW k \in Items, UserWrites(k) \/ ReceiveApp(k) \/ EntryReady(k) PROVE QueueMoves
    BY <1>1 DEF UserWrites, ReceiveApp, EntryReady, Elsewhere, QueueMoves
  <1>2. ASSUME NEW c \in ChildKeys, OthersWriteChild(c) \/ Collect(c) PROVE QueueMoves
    BY <1>2 DEF OthersWriteChild, Collect, Elsewhere, QueueMoves
  <1>3. ASSUME NEW c \in ChildKeys, ReceiveChild(c) PROVE QueueMoves
    <2>1. c[2] \in Items
      BY DEF ChildKeys
    <2> QED
      BY <1>3, <2>1 DEF ReceiveChild, QueueMoves
  <1>4. ASSUME ProcessEnds PROVE QueueMoves
    BY <1>4 DEF QueueMoves
  <1>5. ASSUME Main \/ Signal, ~ProcessEnds PROVE QueueMoves
    BY <1>5 DEF Main, Signal, NewController, StartFactories, WaitForCacheSync, ShutDown, Exit,
                Restart, InMemory, QueueMoves
  <1>6. ASSUME ReceiveEntry \/ \E t \in Informers : List(t) PROVE QueueMoves
    BY <1>6 DEF ReceiveEntry, List, QueueMoves
  <1>7. ASSUME NEW w \in Workers, TakeItem(w) PROVE QueueMoves
    BY <1>7 DEF TakeItem, QueueMoves
  <1>8. ASSUME NEW w \in Workers, HandleError(w) \/ Done(w) PROVE QueueMoves
    <2>1. Key(w) \in Items /\ ~At(w, "idle")
      BY <1>8, WorkerKnows DEF HandleError, Done, At
    <2> QED
      BY <1>8, <2>1 DEF HandleError, Done, QueueMoves, HeldBySome
  <1>9. ASSUME NEW w \in Workers,
               ReadApp(w) \/ FindChild(w) \/ CreateChild(w) \/ GetChild(w) \/ UpdateApp(w)
        PROVE  QueueMoves
    BY <1>9 DEF ReadApp, FindChild, CreateChild, GetChild, UpdateApp, Call, QueueMoves
  <1>10. CASE UNCHANGED vars
    BY <1>10 DEF vars, QueueMoves
  <1> QED
    BY <1>1, <1>2, <1>3, <1>4, <1>5, <1>6, <1>7, <1>8, <1>9, <1>10 DEF Next, Step

LEMMA QueueParts ==
  QueueOK <=> /\ queue \in Seq(Items) /\ dirty \in SUBSET Items /\ processing \in SUBSET Items
              /\ shuttingDown \in BOOLEAN
              /\ failures \in [Items -> 0..MaxRetry]
              /\ waitingForAddCh \in Seq(Items) /\ Len(waitingForAddCh) <= Capacity
              /\ waitingForQueue \in SUBSET Items
  <1>1. failures \in [Items -> 0..MaxRetry] => failures \in [Items -> Nat]
    BY BoundsAssumption
  <1> QED
    BY <1>1 DEF QueueOK, RLQ!TypeOK, RLQ!WQ!TypeOK

LEMMA AddKeepsTypes ==
  ASSUME QueueOK, NEW i \in Items, RLQ!WQ!Add(i)
  PROVE  queue' \in Seq(Items) /\ dirty' \in SUBSET Items /\ processing' = processing
         /\ shuttingDown' = shuttingDown
  BY QueueParts, AppendProperties DEF RLQ!WQ!Add

LEMMA QueuePreserved ==
  ASSUME Inv, [Next]_vars
  PROVE  QueueOK'
  <1> USE QueueParts
  <1>1. QueueMoves /\ QueueOK
    BY EveryStepMovesQueue DEF Inv, TypeOK, QueueOK
  <1>2. MaxRetry \in Nat /\ Capacity \in Nat \ {0}
    BY BoundsAssumption, CapacityAssumption
  <1>3. CASE UNCHANGED queueVars
    BY <1>1, <1>3 DEF queueVars, QueueOK, RLQ!TypeOK, RLQ!WQ!TypeOK
  <1>4. SUFFICES ASSUME ~UNCHANGED queueVars
                 PROVE  /\ queue' \in Seq(Items) /\ dirty' \in SUBSET Items
                        /\ processing' \in SUBSET Items /\ shuttingDown' \in BOOLEAN
                        /\ failures' \in [Items -> 0..MaxRetry]
                        /\ waitingForAddCh' \in Seq(Items) /\ Len(waitingForAddCh') <= Capacity
                        /\ waitingForQueue' \in SUBSET Items
    <2>1. failures' \in [Items -> 0..MaxRetry] => failures' \in [Items -> Nat]
      BY <1>2
    <2> QED
      BY <1>3, <2>1 DEF QueueOK, RLQ!TypeOK, RLQ!WQ!TypeOK
  <1>5. CASE ProcessEnds
    <2>1. << >> \in Seq(Items) /\ Len(<< >>) <= Capacity
      BY <1>2, EmptySeq
    <2>2. [k \in Items |-> 0] \in [Items -> 0..MaxRetry]
      BY <1>2
    <2> QED
      BY <1>5, <2>1, <2>2 DEF ProcessEnds
  <1>6. ASSUME NEW i \in Items, RLQ!Add(i) \/ RLQ!Ready(i)
        PROVE  /\ queue' \in Seq(Items) /\ dirty' \in SUBSET Items
               /\ processing' = processing /\ shuttingDown' = shuttingDown
               /\ failures' = failures /\ waitingForAddCh' = waitingForAddCh
               /\ waitingForQueue' \in SUBSET Items
    BY <1>1, <1>6, AddKeepsTypes DEF RLQ!Add, RLQ!Ready, RLQ!delayVars
  <1>7. ASSUME NEW i \in Items, RLQ!Get(i) \/ RLQ!Done(i)
        PROVE  /\ queue' \in Seq(Items) /\ dirty' \in SUBSET Items
               /\ processing' \in SUBSET Items /\ shuttingDown' = shuttingDown
               /\ failures' = failures /\ waitingForAddCh' = waitingForAddCh
               /\ waitingForQueue' = waitingForQueue
    <2>1. CASE RLQ!Get(i)
      <3>1. queue # << >> /\ Tail(queue) \in Seq(Items)
        BY <1>1, <2>1, HeadTailProperties DEF RLQ!Get, RLQ!WQ!Get
      <3> QED
        BY <1>1, <2>1, <3>1 DEF RLQ!Get, RLQ!WQ!Get, RLQ!delayVars
    <2>2. CASE RLQ!Done(i)
      <3>1. Append(queue, i) \in Seq(Items)
        BY <1>1, AppendProperties
      <3> QED
        BY <1>1, <2>2, <3>1 DEF RLQ!Done, RLQ!WQ!Done, RLQ!delayVars
    <2> QED
      BY <1>7, <2>1, <2>2
  <1>8. ASSUME NEW i \in Items, \/ RLQ!AddRateLimited(i) /\ failures[i] < MaxRetry
                                \/ RLQ!Forget(i)
        PROVE  /\ queue' = queue /\ dirty' = dirty /\ processing' = processing
               /\ shuttingDown' = shuttingDown
               /\ failures' \in [Items -> 0..MaxRetry]
               /\ waitingForAddCh' \in Seq(Items) /\ Len(waitingForAddCh') <= Capacity
               /\ waitingForQueue' = waitingForQueue
    <2>1. failures[i] \in 0..MaxRetry
      BY <1>1
    <2>2. CASE RLQ!AddRateLimited(i) /\ failures[i] < MaxRetry
      <3>1. failures[i] + 1 \in 0..MaxRetry
        BY <1>2, <2>1, <2>2
      <3>2. failures' \in [Items -> 0..MaxRetry]
        BY <1>1, <2>2, <3>1 DEF RLQ!AddRateLimited
      <3>3. /\ Append(waitingForAddCh, i) \in Seq(Items)
            /\ Len(Append(waitingForAddCh, i)) = Len(waitingForAddCh) + 1
            /\ Len(waitingForAddCh) \in Nat
        BY <1>1, AppendProperties, LenProperties
      <3>4. waitingForAddCh' \in Seq(Items) /\ Len(waitingForAddCh') <= Capacity
        BY <1>1, <1>2, <2>2, <3>3 DEF RLQ!AddRateLimited
      <3> QED
        BY <2>2, <3>2, <3>4 DEF RLQ!AddRateLimited, RLQ!wqVars
    <2>3. CASE RLQ!Forget(i)
      BY <1>1, <1>2, <2>3 DEF RLQ!Forget, RLQ!wqVars, RLQ!delayVars
    <2> QED
      BY <1>8, <2>2, <2>3
  <1>9. ASSUME RLQ!ReceiveEntry
        PROVE  /\ queue' \in Seq(Items) /\ dirty' \in SUBSET Items
               /\ processing' = processing /\ shuttingDown' = shuttingDown
               /\ failures' = failures
               /\ waitingForAddCh' \in Seq(Items) /\ Len(waitingForAddCh') <= Capacity
               /\ waitingForQueue' \in SUBSET Items
    <2>1. /\ Head(waitingForAddCh) \in Items /\ Tail(waitingForAddCh) \in Seq(Items)
          /\ Len(Tail(waitingForAddCh)) = Len(waitingForAddCh) - 1
          /\ Len(waitingForAddCh) \in Nat
      BY <1>1, <1>9, HeadTailProperties, LenProperties DEF RLQ!ReceiveEntry
    <2>2. waitingForAddCh' = Tail(waitingForAddCh) /\ failures' = failures
      BY <1>9 DEF RLQ!ReceiveEntry
    <2>3. Len(waitingForAddCh') <= Capacity
      BY <1>1, <1>2, <2>1, <2>2
    <2>4. CASE RLQ!WQ!Add(Head(waitingForAddCh)) /\ UNCHANGED waitingForQueue
      BY <1>1, <2>1, <2>2, <2>3, <2>4, AddKeepsTypes
    <2>5. CASE /\ waitingForQueue' = waitingForQueue \cup {Head(waitingForAddCh)}
               /\ UNCHANGED RLQ!wqVars
      BY <1>1, <2>1, <2>2, <2>3, <2>5 DEF RLQ!wqVars
    <2> QED
      BY <1>9, <2>4, <2>5 DEF RLQ!ReceiveEntry
  <1>10. CASE ShutDown
    BY <1>1, <1>10 DEF ShutDown, RLQ!ShutDown, RLQ!WQ!ShutDown, RLQ!delayVars
  <1>11. ASSUME NEW i \in Items, \/ RLQ!Add(i) \/ RLQ!Get(i) \/ RLQ!Done(i) \/ RLQ!Ready(i)
                                 \/ RLQ!AddRateLimited(i) /\ failures[i] < MaxRetry
                                 \/ RLQ!Forget(i)
         PROVE  /\ queue' \in Seq(Items) /\ dirty' \in SUBSET Items
                /\ processing' \in SUBSET Items /\ shuttingDown' \in BOOLEAN
                /\ failures' \in [Items -> 0..MaxRetry]
                /\ waitingForAddCh' \in Seq(Items) /\ Len(waitingForAddCh') <= Capacity
                /\ waitingForQueue' \in SUBSET Items
    <2>1. CASE RLQ!Add(i) \/ RLQ!Ready(i)
      BY <1>1, <1>6, <2>1
    <2>2. CASE RLQ!Get(i) \/ RLQ!Done(i)
      BY <1>1, <1>7, <2>2
    <2>3. CASE (RLQ!AddRateLimited(i) /\ failures[i] < MaxRetry) \/ RLQ!Forget(i)
      BY <1>1, <1>8, <2>3
    <2> QED
      BY <1>11, <2>1, <2>2, <2>3
  <1>12. CASE RLQ!ReceiveEntry
    BY <1>1, <1>9, <1>12
  <1> QED
    BY <1>1, <1>4, <1>5, <1>10, <1>11, <1>12 DEF QueueMoves

-----------------------------------------------------------------------------
(* main, its informers, and the history of failures. *)
ProgramOK ==
  /\ main \in {"down", "new", "start", "wait", "run"}
  /\ stopCh \in BOOLEAN
  /\ informers \in SUBSET Informers /\ startedInformers \in SUBSET Informers
  /\ listed \in SUBSET Informers
  /\ initial \in SUBSET (Informers \X Items)
  /\ lastFailed \in SUBSET Items

LEMMA ProgramPreserved ==
  ASSUME Inv, [Next]_vars
  PROVE  ProgramOK' /\ WorkersLast' /\ used' \in [ops : 0..MaxOps, faults : 0..MaxFaults]
  <1> DEFINE Good == ProgramOK' /\ WorkersLast'
                       /\ used' \in [ops : 0..MaxOps, faults : 0..MaxFaults]
  <1>1. ProgramOK /\ WorkersLast
    BY DEF Inv, TypeOK, ProgramOK
  <1>2. used \in [ops : 0..MaxOps, faults : 0..MaxFaults]
    BY Types
  <1>3. ASSUME UNCHANGED <<programVars, worker>>, used' = used \/ UserOp \/ Fault,
               initial' \subseteq initial, lastFailed' = lastFailed
        PROVE  Good
    <2>1. WorkersLast'
      BY <1>1, <1>3 DEF WorkersLast, programVars, At
    <2> QED
      BY <1>1, <1>3, <2>1, UsedGrows DEF ProgramOK, programVars
  <1>4. ASSUME NEW k \in Items, UserWrites(k) \/ ReceiveApp(k) \/ EntryReady(k) PROVE Good
    BY <1>3, <1>4 DEF UserWrites, ReceiveApp, EntryReady, Delays, Elsewhere
  <1>5. ASSUME NEW c \in ChildKeys, OthersWriteChild(c) \/ Collect(c) \/ ReceiveChild(c) PROVE Good
    BY <1>3, <1>5 DEF OthersWriteChild, Collect, ReceiveChild, Elsewhere
  <1>6. ASSUME ReceiveEntry \/ ShutDown PROVE Good
    BY <1>3, <1>6 DEF ReceiveEntry, ShutDown, Delays
  <1>7. ASSUME NEW t \in Informers, List(t) PROVE Good
    <2>1. /\ UNCHANGED <<main, stopCh, informers, startedInformers, worker, used, lastFailed>>
          /\ listed' = listed \cup {t}
      BY <1>7 DEF List
    <2>2. initial' \in SUBSET (Informers \X Items)
      <3>1. CASE t = "app"
        BY <1>1, <1>7, <3>1 DEF List, ListApps, ProgramOK, Informers
      <3>2. CASE t # "app"
        <4>1. initial' = initial \cup {c \in ChildKeys : c[1] = t /\ child[c] # Absent}
          BY <1>7, <3>2 DEF List, ListChildren
        <4>2. ChildKeys \subseteq Informers \X Items
          BY DEF ChildKeys, Informers
        <4> QED
          BY <1>1, <4>1, <4>2 DEF ProgramOK
      <3> QED
        BY <3>1, <3>2
    <2>3. WorkersLast'
      BY <1>1, <2>1 DEF WorkersLast, ProgramOK, At
    <2> QED
      BY <1>1, <1>2, <2>1, <2>2, <2>3 DEF ProgramOK
  <1>8. ASSUME ProcessEnds, used' = used PROVE Good
    BY <1>2, <1>8 DEF ProcessEnds, ProgramOK, WorkersLast, At, Idle
  <1>9. CASE NewController \/ StartFactories \/ WaitForCacheSync \/ Restart
    <2>1. UNCHANGED <<worker, stopCh, listed, initial, lastFailed, used>>
      BY <1>9 DEF NewController, StartFactories, WaitForCacheSync, Restart, InMemory
    <2>2. main # "run" /\ \A w \in Workers : At(w, "idle")
      BY <1>1, <1>9 DEF NewController, StartFactories, WaitForCacheSync, Restart, WorkersLast
    <2>3. main' \in {"new", "start", "wait"} \/ (main' = "run" /\ WaitForCacheSync)
      BY <1>9 DEF NewController, StartFactories, WaitForCacheSync, Restart
    <2>4. WaitForCacheSync => listed = Informers
      BY <1>1 DEF WaitForCacheSync, HasSynced, ProgramOK
    <2>5. WorkersLast'
      BY <2>1, <2>2, <2>3, <2>4 DEF WorkersLast, At
    <2>6. informers' \in SUBSET Informers /\ startedInformers' \in SUBSET Informers
      BY <1>1, <1>9 DEF NewController, StartFactories, WaitForCacheSync, Restart, InformerFor,
                        Start, ProgramOK
    <2> QED
      BY <1>1, <1>2, <2>1, <2>3, <2>5, <2>6 DEF ProgramOK
  <1>10. CASE Signal
    <2>1. CASE ProcessEnds /\ UNCHANGED used
      BY <1>8, <2>1
    <2>2. CASE /\ Fault /\ stopCh' = TRUE
               /\ UNCHANGED <<InMemory, main, informers, startedInformers, listed>>
      <3>1. WorkersLast'
        BY <1>1, <2>2 DEF InMemory, WorkersLast, At
      <3> QED
        BY <1>1, <2>2, <3>1, UsedGrows DEF InMemory, ProgramOK
    <2> QED
      BY <1>10, <2>1, <2>2 DEF Signal
  <1>11. ASSUME NEW w \in Workers, TakeItem(w) \/ Step(w) PROVE Good
    <2>1. UNCHANGED <<programVars, initial>> /\ (used' = used \/ Fault)
      BY <1>11, StepKeeps
    <2>2. main = "run"
      BY <1>11, StepKeeps, WorkerKnows DEF TakeItem
    <2>3. WorkersLast'
      BY <1>1, <2>1, <2>2 DEF WorkersLast, programVars
    <2>4. lastFailed' \in SUBSET Items
      <3>1. CASE HandleError(w)
        <4>1. Key(w) \in Items
          BY <3>1, WorkerKnows DEF HandleError, At
        <4> QED
          BY <1>1, <3>1, <4>1 DEF HandleError, ProgramOK
      <3>2. CASE Done(w)
        BY <1>1, <3>2 DEF Done, ProgramOK
      <3>3. CASE ~HandleError(w) /\ ~Done(w)
        <4>1. lastFailed' = lastFailed
          BY <1>11, <3>3 DEF TakeItem, Step, ReadApp, FindChild, CreateChild, GetChild, UpdateApp,
                             Call
        <4> QED
          BY <1>1, <4>1 DEF ProgramOK
      <3> QED
        BY <3>1, <3>2, <3>3
    <2> QED
      BY <1>1, <2>1, <2>3, <2>4, UsedGrows DEF ProgramOK, programVars
  <1>12. CASE UNCHANGED vars
    BY <1>3, <1>12 DEF vars
  <1>13. CASE Main
    BY <1>6, <1>8, <1>9, <1>13 DEF Main, Exit
  <1> QED
    BY <1>4, <1>5, <1>6, <1>7, <1>10, <1>11, <1>12, <1>13 DEF Next

-----------------------------------------------------------------------------
LEMMA InitInv == Init => Inv
  <1> SUFFICES ASSUME Init PROVE Inv
    OBVIOUS
  <1>1. /\ app = [k \in Items |-> Absent] /\ appCache = [k \in Items |-> Absent]
        /\ appWatch = [k \in Items |-> << >>]
        /\ child = [c \in ChildKeys |-> Absent] /\ childCache = [c \in ChildKeys |-> Absent]
        /\ childWatch = [c \in ChildKeys |-> << >>]
    BY DEF Init, App!Init, App!Empty, Child!Init, Child!Empty
  <1>2. used.ops = 0 /\ used \in [ops : 0..MaxOps, faults : 0..MaxFaults]
    BY BoundsAssumption DEF Init
  <1>3. worker \in [Workers -> States] /\ \A w \in Workers : worker[w] = Idle
    BY IdleMayBe DEF Init, MayBe
  <1>4. QueueOK
    <2>1. /\ queue = << >> /\ dirty = {} /\ processing = {} /\ shuttingDown = FALSE
          /\ failures = [k \in Items |-> 0] /\ waitingForAddCh = << >> /\ waitingForQueue = {}
      BY DEF Init, RLQ!Init, RLQ!WQ!Init
    <2>2. << >> \in Seq(Items) /\ Len(<< >>) <= Capacity
      BY CapacityAssumption, EmptySeq
    <2>3. [k \in Items |-> 0] \in [Items -> 0..MaxRetry]
      BY BoundsAssumption
    <2> QED
      BY <2>1, <2>2, <2>3, QueueParts
  <1>5. App!TypeOK /\ Child!TypeOK
    BY <1>1, EmptySeq DEF App!TypeOK, App!MaybeObject, Child!TypeOK, Child!MaybeObject
  <1>6. TypeOK
    BY <1>2, <1>3, <1>4, <1>5 DEF Init, TypeOK, QueueOK, States, PCs, Known
  <1>7. Versions
    <2>1. ASSUME NEW k \in Items
          PROVE  /\ IsPast(app[k], app[k], used.ops) /\ IsPast(appCache[k], app[k], used.ops)
                 /\ \A n \in 1..Len(appWatch[k]) : IsPast(appWatch[k][n].obj, app[k], used.ops)
      <3>1. 1..Len(appWatch[k]) = {}
        BY <1>1, EmptySeq
      <3> QED
        BY <1>1, <3>1 DEF IsPast
    <2>2. \A c \in ChildKeys : child[c] = Absent
      BY <1>1
    <2> QED
      BY <1>3, <2>1, <2>2 DEF Versions, At, Idle
  <1>8. WorkersKnow
    BY <1>3, IdleMayBe DEF WorkersKnow, MayBe
  <1>9. AppsFill /\ ChildrenFill
    BY <1>1 DEF Init, AppsFill, ChildrenFill
  <1>10. WorkersLast
    BY <1>3 DEF Init, WorkersLast, At, Idle
  <1> QED
    BY <1>6, <1>7, <1>8, <1>9, <1>10 DEF Inv

LEMMA InvPreserved ==
  ASSUME Inv, [Next]_vars
  PROVE  Inv'
  <1>1. QueueOK' /\ ProgramOK' /\ WorkersLast'
        /\ used' \in [ops : 0..MaxOps, faults : 0..MaxFaults]
    BY QueuePreserved, ProgramPreserved
  <1>2. App!TypeOK' /\ AppsFill'
        /\ \A k \in Items :
              /\ IsPast(app'[k], app'[k], used'.ops)
              /\ IsPast(appCache'[k], app'[k], used'.ops)
              /\ \A n \in 1..Len(appWatch'[k]) : IsPast(appWatch'[k][n].obj, app'[k], used'.ops)
    BY AppsPreserved
  <1>3. Child!TypeOK' /\ ChildrenFill'
        /\ \A c \in ChildKeys : child'[c] # Absent => child'[c].version <= used'.ops
    BY ChildrenPreserved
  <1>4. worker' \in [Workers -> States] /\ WorkersKnow'
        /\ \A w \in Workers : ~At(w, "idle")' => IsPast(InHand(w)', app'[Key(w)'], used'.ops)
    BY WorkersPreserved
  <1>5. TypeOK'
    BY <1>1, <1>2, <1>3, <1>4 DEF TypeOK, QueueOK, ProgramOK, States, PCs, Known
  <1>6. Versions'
    BY <1>2, <1>3, <1>4 DEF Versions
  <1> QED
    BY <1>1, <1>2, <1>3, <1>4, <1>5, <1>6 DEF Inv

THEOREM Invariant == Spec => []Inv
  <1>1. Inv /\ [Next]_vars => Inv'
    BY InvPreserved
  <1> QED
    BY InitInv, <1>1, PTL DEF Spec

-----------------------------------------------------------------------------
(* The types of the controller's state, for any Apps, workers and bounds:   *)
(* no more than MaxRetry failures are counted for a key (controller.go 195),*)
(* and the delaying queue's channel never holds more than its capacity.     *)
THEOREM TypeCorrect == Spec => []TypeOK
  <1>1. Inv => TypeOK
    BY DEF Inv
  <1> QED
    BY <1>1, Invariant, PTL

(* No worker syncs from a cache that lacks an object (Run, controller.go    *)
(* 160): the three caches were filled before the first worker started, and  *)
(* they lack only what the events on their way to them carry.               *)
THEOREM SyncsReadFullCaches == Spec => []WorkersReadFullCaches
  <1>1. ASSUME Inv PROVE WorkersReadFullCaches
    <2> SUFFICES ASSUME NEW w \in Workers, ~At(w, "idle")
                 PROVE  /\ Child!CacheCatchesUp
                        /\ \A k \in Items :
                             LET n == Len(appWatch[k]) IN
                             IF n > 0 THEN appWatch[k][n].obj = app[k]
                             ELSE IF Exists(k)
                               THEN /\ appCache[k] # Absent
                                    /\ [appCache[k] EXCEPT !.status = app[k].status] = app[k]
                               ELSE appCache[k] = Absent
      BY DEF WorkersReadFullCaches
    <2>1. listed = Informers
      BY <1>1, WorkerKnows
    <2>2. Child!CacheCatchesUp
      <3>1. ASSUME NEW c \in ChildKeys PROVE ChildFull(c)
        BY <1>1, <2>1 DEF Inv, ChildrenFill, ChildKeys, Informers
      <3> QED
        BY <3>1 DEF ChildFull, Child!CacheCatchesUp
    <2>3. ASSUME NEW k \in Items PROVE AppFull(k)
      BY <1>1, <2>1 DEF Inv, AppsFill, Informers
    <2> QED
      BY <2>2, <2>3 DEF AppFull, SameButStatus, Exists
  <1> QED
    BY <1>1, Invariant, PTL

-----------------------------------------------------------------------------
(* Only a user and syncApp's Update write an App. *)
LEMMA SpecKept ==
  ASSUME Inv, [Next]_vars, used'.ops = used.ops, NEW k \in Items, Exists(k)
  PROVE  app'[k] # Absent /\ app'[k].spec = app[k].spec
  <1>1. app[k] # Absent /\ app \in [Items -> Known] /\ used.ops \in Nat
    BY Types DEF Exists
  <1>2. CASE app' = app
    BY <1>1, <1>2
  <1>3. ASSUME NEW x \in Items, UserWrites(x) PROVE FALSE
    <2>1. used'.ops = used.ops + 1
      BY <1>3, Types DEF UserWrites, UserOp
    <2> QED
      BY <1>1, <2>1
  <1>4. ASSUME NEW w \in Workers, UpdateApp(w)
        PROVE  app'[k] # Absent /\ app'[k].spec = app[k].spec
    <2>1. ~At(w, "idle") /\ At(w, "update")
      BY <1>4 DEF UpdateApp, At
    <2>2. /\ Key(w) \in Items /\ InHand(w) \in Apps
          /\ IsPast(InHand(w), app[Key(w)], used.ops)
      BY <2>1, WorkerKnows
    <2>3. CASE UNCHANGED appVars
      BY <1>2, <2>3 DEF appVars
    <2>4. CASE Fresh(InHand(w), Key(w))
               /\ WriteApp(Key(w), [InHand(w) EXCEPT !.version = app[Key(w)].version + 1])
      <3> DEFINE new == [InHand(w) EXCEPT !.version = app[Key(w)].version + 1]
      <3>1. new.spec = InHand(w).spec /\ new # Absent
        <4>1. app[Key(w)] \in Apps
          BY <2>2, <2>4, Types DEF Fresh, Exists, Known
        <4>2. app[Key(w)].version + 1 \in Nat
          BY <4>1, AppTypes
        <4>3. new \in Apps /\ new.spec = InHand(w).spec
          BY <2>2, <4>2 DEF Apps
        <4> QED
          BY <4>3, AppTypes
      <3>2. InHand(w).spec = app[Key(w)].spec
        BY <2>2, <2>4, AppTypes DEF Fresh, Exists, IsPast
      <3>3. app' = [app EXCEPT ![Key(w)] = new]
        BY <2>4 DEF WriteApp, App!Write
      <3> HIDE DEF new
      <3> QED
        BY <1>1, <2>2, <3>1, <3>2, <3>3
    <2> QED
      BY <1>4, <2>3, <2>4 DEF UpdateApp, Call
  <1>5. ASSUME ~(\E x \in Items : UserWrites(x)), ~(\E w \in Workers : UpdateApp(w))
        PROVE  app' = app
    <2>1. ASSUME NEW w \in Workers, TakeItem(w) \/ Step(w) PROVE app' = app
      BY <1>5, <2>1 DEF TakeItem, Step, ReadApp, FindChild, CreateChild, GetChild, HandleError, Done,
                        appVars
    <2>2. ASSUME NEW x \in Items, ReceiveApp(x) \/ EntryReady(x) PROVE app' = app
      BY <2>2 DEF ReceiveApp, EntryReady, Delays, App!Receive, appVars
    <2>3. ASSUME NEW c \in ChildKeys, OthersWriteChild(c) \/ Collect(c) \/ ReceiveChild(c)
          PROVE  app' = app
      BY <2>3 DEF OthersWriteChild, Collect, ReceiveChild, appVars
    <2>4. ASSUME ReceiveEntry \/ \E t \in Informers : List(t) PROVE app' = app
      BY <2>4 DEF ReceiveEntry, Delays, List, ListApps, ListChildren, appVars
    <2>5. CASE Main \/ Signal
      BY <2>5 DEF Main, Signal, NewController, StartFactories, WaitForCacheSync, ShutDown, Exit,
                  Restart, InMemory, ProcessEnds, App!Stop, appVars
    <2>6. CASE UNCHANGED vars
      BY <2>6 DEF vars, appVars
    <2> QED
      BY <1>5, <2>1, <2>2, <2>3, <2>4, <2>5, <2>6 DEF Next
  <1> QED
    BY <1>2, <1>3, <1>4, <1>5

(* No sync undoes what a user wrote into an App's spec, or removes the App  *)
(* (syncApp 292): the API server refuses an update that was made from an    *)
(* older version, and the version that is in hand says the spec.            *)
THEOREM SyncsKeepTheSpec == Spec => UsersSpecIsKept
  <1>1. Inv /\ [Next]_vars =>
          [ \A k \in Items :
              used'.ops = used.ops /\ Exists(k) => Exists(k)' /\ app'[k].spec = app[k].spec ]_vars
    BY SpecKept DEF Exists
  <1> QED
    BY <1>1, Invariant, PTL DEF Spec, UsersSpecIsKept

-----------------------------------------------------------------------------
(* That no App is forgotten.  The queue inside and the workers: a key in    *)
(* processing is in the hands of one worker.                                *)
WQP == INSTANCE WorkQueueProofs

Holders ==
  /\ \A v, w \in Workers : v # w /\ ~At(v, "idle") /\ ~At(w, "idle") => Key(v) # Key(w)
  /\ \A w \in Workers : ~At(w, "idle") => Key(w) \in processing
  /\ \A k \in processing : \E w \in Workers : ~At(w, "idle") /\ Key(w) = k

LEMMA SameWorkQueue ==
  /\ \A i : /\ RLQ!WQ!Add(i) => WQP!Add(i)
            /\ RLQ!WQ!Get(i) => WQP!Get(i)
            /\ RLQ!WQ!Done(i) => WQP!Done(i)
  /\ RLQ!WQ!ShutDown => WQP!ShutDown
  BY DEF RLQ!WQ!Add, WQP!Add, RLQ!WQ!Get, WQP!Get, RLQ!WQ!Done, WQP!Done,
         RLQ!WQ!ShutDown, WQP!ShutDown

LEMMA WorkQueuePreserved ==
  ASSUME Inv, Holders, WQP!QueueInv, [Next]_vars
  PROVE  WQP!QueueInv'
  <1> USE DEF WQP!Next, WQP!wqVars, RLQ!wqVars
  <1>1. QueueMoves /\ waitingForAddCh \in Seq(Items)
    BY EveryStepMovesQueue DEF Inv, TypeOK, RLQ!TypeOK
  <1>2. ASSUME WQP!Next \/ UNCHANGED RLQ!wqVars PROVE WQP!QueueInv'
    BY <1>2, WQP!NextPreserves
  <1>3. CASE UNCHANGED queueVars
    BY <1>2, <1>3 DEF queueVars
  <1>4. CASE ProcessEnds
    <2>1. queue' = << >> /\ dirty' = {} /\ processing' = {} /\ shuttingDown' = FALSE
      BY <1>4 DEF ProcessEnds
    <2>2. Len(<< >>) = 0 /\ << >> \in Seq(Items)
      BY EmptySeq
    <2>3. 1..Len(queue') = {}
      BY <2>1, <2>2
    <2> QED
      BY <2>1, <2>2, <2>3 DEF WQP!QueueInv, WQP!TypeOK, WQP!QueuedIsDirtyAndIdle, WQP!NoDuplicates,
                              WQP!DirtyIsScheduled
  <1>5. ASSUME NEW i \in Items, RLQ!Add(i) \/ RLQ!Get(i) \/ RLQ!Ready(i) PROVE WQP!QueueInv'
    BY <1>2, <1>5, SameWorkQueue DEF RLQ!Add, RLQ!Get, RLQ!Ready
  <1>6. ASSUME NEW i \in Items, RLQ!AddRateLimited(i) \/ RLQ!Forget(i) PROVE WQP!QueueInv'
    BY <1>2, <1>6 DEF RLQ!AddRateLimited, RLQ!Forget
  <1>7. ASSUME NEW w \in Workers, ~At(w, "idle"), RLQ!Done(Key(w)) PROVE WQP!QueueInv'
    BY <1>2, <1>7, SameWorkQueue DEF RLQ!Done, Holders
  <1>8. CASE RLQ!ReceiveEntry
    <2>1. Head(waitingForAddCh) \in Items
      BY <1>1, <1>8, HeadTailProperties DEF RLQ!ReceiveEntry
    <2> QED
      BY <1>2, <1>8, <2>1, SameWorkQueue DEF RLQ!ReceiveEntry
  <1>9. CASE ShutDown
    BY <1>2, <1>9, SameWorkQueue DEF ShutDown, RLQ!ShutDown
  <1> QED
    BY <1>1, <1>3, <1>4, <1>5, <1>6, <1>7, <1>8, <1>9 DEF QueueMoves

(* The key at the head of the queue is dirty, and nobody holds it.          *)
LEMMA HeadIsIdle ==
  ASSUME WQP!QueueInv, queue # << >>
  PROVE  Head(queue) \in dirty /\ Head(queue) \notin processing
  <1>1. queue \in Seq(Items)
    BY DEF WQP!QueueInv, WQP!TypeOK
  <1>2. Head(queue) = queue[1] /\ 1 \in 1..Len(queue)
    BY <1>1, Shifted
  <1> QED
    BY <1>2 DEF WQP!QueueInv, WQP!QueuedIsDirtyAndIdle

(* A key that needs a sync stays dirty until a worker takes it.             *)
LEMMA DirtyStays ==
  ASSUME Inv, WQP!QueueInv, [Next]_vars, ~ProcessEnds, NEW k \in dirty
  PROVE  k \in dirty' \/ (k \notin processing /\ k \in processing')
  <1>1. QueueMoves
    BY EveryStepMovesQueue
  <1>2. ASSUME NEW i, RLQ!WQ!Add(i) PROVE k \in dirty'
    BY <1>2 DEF RLQ!WQ!Add
  <1>3. ASSUME NEW i \in Items, RLQ!Add(i) \/ RLQ!Ready(i) PROVE k \in dirty'
    BY <1>2, <1>3 DEF RLQ!Add, RLQ!Ready
  <1>4. ASSUME NEW i \in Items, RLQ!Get(i)
        PROVE  k \in dirty' \/ (k \notin processing /\ k \in processing')
    BY <1>4, HeadIsIdle DEF RLQ!Get, RLQ!WQ!Get
  <1>5. ASSUME NEW i \in Items, RLQ!AddRateLimited(i) \/ RLQ!Forget(i) PROVE dirty' = dirty
    BY <1>5 DEF RLQ!AddRateLimited, RLQ!Forget, RLQ!wqVars
  <1>6. ASSUME NEW i, RLQ!Done(i) PROVE dirty' = dirty
    BY <1>6 DEF RLQ!Done, RLQ!WQ!Done
  <1>7. ASSUME RLQ!ReceiveEntry PROVE k \in dirty'
    BY <1>2, <1>7 DEF RLQ!ReceiveEntry, RLQ!wqVars
  <1>8. ASSUME ShutDown \/ UNCHANGED queueVars PROVE dirty' = dirty
    BY <1>8 DEF ShutDown, RLQ!ShutDown, RLQ!WQ!ShutDown, queueVars
  <1> QED
    BY <1>1, <1>3, <1>4, <1>5, <1>6, <1>7, <1>8 DEF QueueMoves

(* A worker goes on with the key it holds. *)
Goes(w) ==
  /\ ~At(w, "idle")
  /\ \E r \in States : worker' = [worker EXCEPT ![w] = r] /\ r.pc # "idle" /\ r.key = Key(w)
  /\ UNCHANGED <<processing, lastFailed>> \/ HandleError(w)

LEMMA GotoState ==
  ASSUME Inv, NEW w \in Workers, NEW pc \in PCs \ {"idle"}, Goto(w, pc)
  PROVE  \E r \in States : /\ worker' = [worker EXCEPT ![w] = r] /\ r.key = Key(w)
                           /\ r.pc = pc /\ r.app = InHand(w) /\ r.kind = worker[w].kind
  <1> DEFINE r == [worker[w] EXCEPT !.pc = pc]
  <1>1. worker[w] \in States /\ worker \in [Workers -> States]
    BY Types
  <1>2. r \in States /\ r.key = Key(w) /\ r.pc = pc /\ r.app = InHand(w) /\ r.kind = worker[w].kind
    BY <1>1 DEF States, Key, InHand
  <1>3. worker' = [worker EXCEPT ![w] = r]
    BY <1>1 DEF Goto
  <1> HIDE DEF r
  <1> QED
    BY <1>2, <1>3

(* Where syncApp goes on: to the first template that has a name.            *)
LEMMA ProceedState ==
  ASSUME Inv, NEW w \in Workers, NEW a \in Apps, NEW kinds \in SUBSET Kinds, Proceed(w, a, kinds)
  PROVE  \E r \in States :
           /\ worker' = [worker EXCEPT ![w] = r] /\ r.key = Key(w) /\ r.app = a
           /\ \/ r.pc = "update" /\ \A kind \in kinds : a.spec[kind] = Absent
              \/ /\ r.pc = "find" /\ r.kind \in kinds
                 /\ r.kind = "service" /\ "deployment" \in kinds => a.spec["deployment"] = Absent
  <1> DEFINE wanted == {kind \in kinds : a.spec[kind] # Absent}
             first  == IF "deployment" \in wanted THEN "deployment" ELSE "service"
             pc     == IF wanted = {} THEN "update" ELSE "find"
             kind   == IF wanted = {} THEN Absent ELSE first
             r      == [worker[w] EXCEPT !.app = a, !.pc = pc, !.kind = kind]
  <1>1. worker[w] \in States /\ worker \in [Workers -> States] /\ a \in Known
    BY Types DEF Known
  <1>2. wanted # {} => first \in wanted
    BY DEF Kinds
  <1>3. kind \in Kinds \cup {Absent} /\ pc \in PCs
    BY <1>2 DEF PCs
  <1>4. worker' = [worker EXCEPT ![w] = r]
    BY <1>1 DEF Proceed
  <1>5. /\ wanted = {} => pc = "update" /\ \A x \in kinds : a.spec[x] = Absent
        /\ wanted # {} => /\ pc = "find" /\ kind \in kinds
                          /\ kind = "service" /\ "deployment" \in kinds => a.spec["deployment"] = Absent
    BY <1>2
  <1> HIDE DEF wanted, kind, pc
  <1>6. r \in States /\ r.key = Key(w) /\ r.app = a /\ r.pc = pc /\ r.kind = kind
    BY <1>1, <1>3 DEF States, Key
  <1> HIDE DEF r
  <1> QED
    BY <1>4, <1>5, <1>6

LEMMA StepGoes ==
  ASSUME Inv, NEW w \in Workers, Step(w)
  PROVE  Goes(w) \/ Done(w)
  <1>1. ASSUME NEW pc \in PCs \ {"idle"}, Goto(w, pc), ~At(w, "idle"),
               UNCHANGED <<processing, lastFailed>> \/ HandleError(w)
        PROVE  Goes(w)
    BY <1>1, GotoState DEF Goes
  <1>2. ASSUME NEW a \in Apps, NEW kinds \in SUBSET Kinds, Proceed(w, a, kinds), ~At(w, "idle"),
               UNCHANGED <<processing, lastFailed>>
        PROVE  Goes(w)
    <2>1. \E r \in States : worker' = [worker EXCEPT ![w] = r] /\ r.pc # "idle" /\ r.key = Key(w)
      BY <1>2, ProceedState
    <2> QED
      BY <1>2, <2>1 DEF Goes
  <1>3. ASSUME ReadApp(w) PROVE Goes(w)
    <2>1. ~At(w, "idle") /\ UNCHANGED <<processing, lastFailed>>
      BY <1>3 DEF ReadApp, At, queueVars
    <2>2. Key(w) \in Items
      BY <2>1, WorkerKnows
    <2>3. CASE Goto(w, "failed")
      <3>1. \A pc \in {"failed"} : Goto(w, pc) => Goes(w)
        BY <1>1, <2>1 DEF PCs
      <3> QED
        BY <2>3, <3>1
    <2>4. CASE appCache[Key(w)] # Absent /\ Proceed(w, appCache[Key(w)], Kinds)
      BY <1>2, <2>1, <2>2, <2>4, Types DEF Known
    <2> QED
      BY <1>3, <2>3, <2>4 DEF ReadApp, Lister
  <1>4. ASSUME NEW c \in KnownChild, TakeStatus(w, c), At(w, "find") \/ At(w, "get"),
               UNCHANGED <<processing, lastFailed>>
        PROVE  Goes(w)
    <2>1. ~At(w, "idle") /\ worker[w].pc \in {"find", "get"}
      BY <1>4 DEF At
    <2>2. CASE Goto(w, "failed")
      <3>1. \A pc \in {"failed"} : Goto(w, pc) => Goes(w)
        BY <1>1, <1>4, <2>1 DEF PCs
      <3> QED
        BY <2>2, <3>1
    <2>3. ASSUME NEW a \in Apps, Proceed(w, a, After(worker[w].kind)),
                 After(worker[w].kind) \subseteq Kinds
          PROVE  Goes(w)
      BY <1>2, <1>4, <2>1, <2>3
    <2> QED
      BY <1>4, <2>1, <2>2, <2>3, StatusTaken
  <1>5. ASSUME FindChild(w) PROVE Goes(w)
    <2>1. ~At(w, "idle") /\ At(w, "find") /\ UNCHANGED <<processing, lastFailed>>
      BY <1>5 DEF FindChild, At, queueVars
    <2>2. childCache[ChildKey(w)] \in KnownChild
      BY <2>1, WorkerKnows DEF At
    <2>3. \A pc \in {"create"} : Goto(w, pc) => Goes(w)
      BY <1>1, <2>1 DEF PCs
    <2> QED
      BY <1>4, <1>5, <2>1, <2>2, <2>3 DEF FindChild
  <1>6. ASSUME GetChild(w) PROVE Goes(w)
    <2>1. ~At(w, "idle") /\ At(w, "get") /\ UNCHANGED <<processing, lastFailed>>
      BY <1>6 DEF GetChild, At, queueVars
    <2>2. child[ChildKey(w)] \in KnownChild /\ Absent \in KnownChild
      BY <2>1, WorkerKnows DEF At, KnownChild
    <2> QED
      BY <1>4, <1>6, <2>1, <2>2 DEF GetChild
  <1>7. ASSUME CreateChild(w) \/ UpdateApp(w) PROVE Goes(w)
    <2>1. ~At(w, "idle") /\ UNCHANGED <<processing, lastFailed>>
      BY <1>7 DEF CreateChild, UpdateApp, Call, At, queueVars
    <2>2. \E pc \in {"get", "done", "failed"} : Goto(w, pc)
      BY <1>7 DEF CreateChild, UpdateApp, Call
    <2> QED
      BY <1>1, <2>1, <2>2 DEF PCs
  <1>8. ASSUME HandleError(w) PROVE Goes(w)
    <2>1. ~At(w, "idle") /\ \E pc \in {"handled"} : Goto(w, pc)
      BY <1>8 DEF HandleError, At
    <2> QED
      BY <1>1, <1>8, <2>1 DEF PCs
  <1> QED
    BY <1>3, <1>5, <1>6, <1>7, <1>8 DEF Step

(* The steps that are not of a worker leave the workers alone. *)
LEMMA OthersStep ==
  ASSUME Inv, [Next]_vars, ~ProcessEnds, \A w \in Workers : ~TakeItem(w) /\ ~Step(w)
  PROVE  UNCHANGED <<worker, processing, lastFailed>>
  <1>1. \A i : RLQ!WQ!Add(i) => processing' = processing
    BY DEF RLQ!WQ!Add
  <1>2. ASSUME NEW k \in Items, UserWrites(k) \/ ReceiveApp(k) \/ EntryReady(k)
        PROVE  UNCHANGED <<worker, processing, lastFailed>>
    BY <1>1, <1>2 DEF UserWrites, ReceiveApp, EntryReady, Delays, Elsewhere, RLQ!Add, RLQ!Ready,
                      queueVars
  <1>3. ASSUME NEW c \in ChildKeys, OthersWriteChild(c) \/ Collect(c) \/ ReceiveChild(c)
        PROVE  UNCHANGED <<worker, processing, lastFailed>>
    BY <1>1, <1>3 DEF OthersWriteChild, Collect, ReceiveChild, Elsewhere, RLQ!Add, queueVars
  <1>4. CASE ReceiveEntry
    BY <1>1, <1>4 DEF ReceiveEntry, Delays, RLQ!ReceiveEntry, RLQ!wqVars
  <1>5. ASSUME NEW t \in Informers, List(t) PROVE UNCHANGED <<worker, processing, lastFailed>>
    BY <1>5 DEF List, queueVars
  <1>6. CASE Main \/ Signal
    BY <1>6 DEF Main, Signal, NewController, StartFactories, WaitForCacheSync, ShutDown, Exit,
                Restart, InMemory, queueVars, RLQ!ShutDown, RLQ!WQ!ShutDown
  <1>7. CASE UNCHANGED vars
    BY <1>7 DEF vars, queueVars
  <1> QED
    BY <1>2, <1>3, <1>4, <1>5, <1>6, <1>7 DEF Next

LEMMA ErrorKeepsProcessing ==
  ASSUME NEW w \in Workers, Goes(w)
  PROVE  processing' = processing /\ lastFailed \subseteq lastFailed'
  BY DEF Goes, HandleError, RLQ!AddRateLimited, RLQ!Forget, RLQ!wqVars

(* A worker takes a key that nobody holds. *)
LEMMA Taken ==
  ASSUME Inv, WQP!QueueInv, NEW w \in Workers, TakeItem(w)
  PROVE  \E k \in Items, r \in States :
           /\ k \notin processing /\ processing' = processing \cup {k} /\ lastFailed' = lastFailed
           /\ worker' = [worker EXCEPT ![w] = r] /\ r.pc = "sync" /\ r.key = k
  <1>1. PICK k \in Items :
          /\ RLQ!Get(k)
          /\ worker' = [worker EXCEPT ![w] = [Idle EXCEPT !.pc = "sync", !.key = k]]
    BY DEF TakeItem
  <1> DEFINE r == [Idle EXCEPT !.pc = "sync", !.key = k]
  <1>2. r \in States /\ r.pc = "sync" /\ r.key = k
    BY DEF Idle, States, PCs, Known
  <1>3. queue # << >> /\ k = Head(queue) /\ processing' = processing \cup {k}
    BY <1>1 DEF RLQ!Get, RLQ!WQ!Get
  <1>4. lastFailed' = lastFailed
    BY DEF TakeItem
  <1>5. worker' = [worker EXCEPT ![w] = r]
    BY <1>1
  <1> HIDE DEF r
  <1> QED
    BY <1>2, <1>3, <1>4, <1>5, HeadIsIdle

LEMMA HoldersPreserved ==
  ASSUME Inv, WQP!QueueInv, Holders, [Next]_vars
  PROVE  Holders'
  <1> USE DEF At, Key
  <1>1. worker \in [Workers -> States]
    BY Types
  <1>2. CASE ProcessEnds
    <2>1. \A w \in Workers : worker'[w].pc = "idle"
      BY <1>2 DEF ProcessEnds, Idle
    <2>2. processing' = {}
      BY <1>2 DEF ProcessEnds
    <2> QED
      BY <2>1, <2>2 DEF Holders
  <1>3. CASE UNCHANGED <<worker, processing>>
    BY <1>3 DEF Holders
  <1>4. ASSUME NEW w \in Workers, TakeItem(w) PROVE Holders'
    <2>1. PICK k \in Items, r \in States :
            /\ k \notin processing /\ processing' = processing \cup {k}
            /\ worker' = [worker EXCEPT ![w] = r] /\ r.pc = "sync" /\ r.key = k
      BY <1>4, Taken
    <2>2. /\ worker'[w].pc = "sync" /\ worker'[w].key = k /\ worker[w].pc = "idle"
          /\ \A v \in Workers \ {w} : worker'[v] = worker[v]
      BY <1>1, <1>4, <2>1 DEF TakeItem
    <2> QED
      BY <2>1, <2>2 DEF Holders
  <1>5. ASSUME NEW w \in Workers, Goes(w) PROVE Holders'
    <2>1. /\ \A v \in Workers : (worker'[v].pc = "idle" <=> worker[v].pc = "idle")
                                  /\ worker'[v].key = worker[v].key
      BY <1>1, <1>5 DEF Goes
    <2>2. processing' = processing
      BY <1>5, ErrorKeepsProcessing
    <2> QED
      BY <2>1, <2>2 DEF Holders
  <1>6. ASSUME NEW w \in Workers, Done(w) PROVE Holders'
    <2>1. /\ worker'[w].pc = "idle" /\ \A v \in Workers \ {w} : worker'[v] = worker[v]
          /\ worker[w].pc # "idle"
      BY <1>1, <1>6 DEF Done, Idle
    <2>2. processing' = processing \ {worker[w].key}
      BY <1>6 DEF Done, RLQ!Done, RLQ!WQ!Done
    <2> QED
      BY <2>1, <2>2 DEF Holders
  <1>7. ASSUME NEW w \in Workers, Step(w) PROVE Holders'
    BY <1>5, <1>6, <1>7, StepGoes
  <1> QED
    BY <1>2, <1>3, <1>4, <1>7, OthersStep

QueueInvs == Holders /\ WQP!QueueInv

LEMMA InitQueueInvs == Init => QueueInvs
  <1> SUFFICES ASSUME Init PROVE QueueInvs
    OBVIOUS
  <1>1. queue = << >> /\ dirty = {} /\ processing = {} /\ shuttingDown = FALSE
    BY DEF Init, RLQ!Init, RLQ!WQ!Init
  <1>2. WQP!QueueInv
    <2>1. Len(<< >>) = 0 /\ << >> \in Seq(Items)
      BY EmptySeq
    <2>2. 1..Len(queue) = {}
      BY <1>1, <2>1
    <2> QED
      BY <1>1, <2>1, <2>2 DEF WQP!QueueInv, WQP!TypeOK, WQP!QueuedIsDirtyAndIdle,
                              WQP!NoDuplicates, WQP!DirtyIsScheduled
  <1>3. Holders
    BY <1>1 DEF Init, Holders, Idle, At
  <1> QED
    BY <1>2, <1>3 DEF QueueInvs

(* However many workers there are, and however the program ends and starts  *)
(* again, a key in processing is in the hands of one worker, which will     *)
(* call Done for it (processNextWorkItem, controller.go 182-208).           *)
THEOREM OneWorkerHoldsAnApp == Spec => []Holders
  <1>1. Inv /\ QueueInvs /\ [Next]_vars => QueueInvs'
    BY HoldersPreserved, WorkQueuePreserved DEF QueueInvs
  <1>2. QueueInvs => Holders
    BY DEF QueueInvs
  <1> QED
    BY <1>1, <1>2, InitQueueInvs, Invariant, PTL DEF Spec

LEMMA QueueStep ==
  ASSUME Inv, Holders, [Next]_vars
  PROVE  [RLQ!Next \/ RLQ!Init']_RLQ!rlqVars
  <1> DEFINE Goal == [RLQ!Next \/ RLQ!Init']_RLQ!rlqVars
  <1> USE DEF RLQ!Next
  <1>1. CASE UNCHANGED queueVars
    BY <1>1 DEF queueVars, RLQ!rlqVars, RLQ!wqVars, RLQ!delayVars
  <1>2. CASE ProcessEnds
    BY <1>2 DEF ProcessEnds, RLQ!Init, RLQ!WQ!Init
  <1>3. ASSUME NEW i \in Items, RLQ!Add(i) \/ RLQ!Get(i) \/ RLQ!Ready(i) PROVE Goal
    BY <1>3
  <1>4. ASSUME NEW i \in Items, HeldBySome(i),
               (RLQ!AddRateLimited(i) /\ failures[i] < MaxRetry) \/ RLQ!Forget(i)
        PROVE  Goal
    <2>1. i \in processing
      BY <1>4 DEF HeldBySome, Holders
    <2> QED
      BY <1>4, <2>1
  <1>5. ASSUME NEW w \in Workers, ~At(w, "idle"), RLQ!Done(Key(w)) PROVE Goal
    BY <1>5 DEF Holders
  <1>6. CASE RLQ!ReceiveEntry
    BY <1>6
  <1>7. CASE ShutDown
    BY <1>7 DEF ShutDown
  <1> QED
    BY <1>1, <1>2, <1>3, <1>4, <1>5, <1>6, <1>7, EveryStepMovesQueue DEF QueueMoves

(* The program uses the rate limited queue as it is: every step is one that *)
(* module RateLimitedQueue allows, whose callers keep the contract that     *)
(* Done, Forget and AddRateLimited are for a key in hand and retries end at *)
(* maxRetry, or leaves the queue alone, or ends the program and with it the *)
(* queue (controller.go 182-208 and 376-387).                               *)
THEOREM RunsItsQueue ==
  Spec => RLQ!Init /\ [][RLQ!Next \/ RLQ!Init']_RLQ!rlqVars
  <1>1. Init => RLQ!Init
    BY DEF Init
  <1>2. Inv /\ Holders /\ [Next]_vars => [RLQ!Next \/ RLQ!Init']_RLQ!rlqVars
    BY QueueStep
  <1> QED
    BY <1>1, <1>2, Invariant, OneWorkerHoldsAnApp, PTL DEF Spec

(* What a cache holds and the events on their way to it, each related by R  *)
(* to the one before it.                                                    *)
Linked(first, q, R) ==
  \A n \in 1..Len(q) : <<IF n = 1 THEN first ELSE q[n - 1].obj, q[n].obj>> \in R

LastOf(first, q) == IF Len(q) = 0 THEN first ELSE q[Len(q)].obj

LEMMA LinkedAppend ==
  ASSUME NEW S, NEW q \in Seq(S), NEW e \in S, NEW first, NEW R,
         Linked(first, q, R), <<LastOf(first, q), e.obj>> \in R
  PROVE  Linked(first, Append(q, e), R)
  <1> DEFINE r == Append(q, e)
  <1>1. /\ Len(q) \in Nat /\ Len(r) = Len(q) + 1
        /\ \A n \in 1..Len(q) : r[n] = q[n]
        /\ r[Len(q) + 1] = e
    BY Appended
  <1> HIDE DEF r
  <1> SUFFICES ASSUME NEW n \in 1..Len(r)
               PROVE  <<IF n = 1 THEN first ELSE r[n - 1].obj, r[n].obj>> \in R
    BY DEF Linked, r
  <1>2. CASE n \in 1..Len(q)
    <2>1. n # 1 => n - 1 \in 1..Len(q)
      BY <1>1, <1>2
    <2>2. <<IF n = 1 THEN first ELSE q[n - 1].obj, q[n].obj>> \in R
      BY <1>2 DEF Linked
    <2> QED
      BY <1>1, <1>2, <2>1, <2>2
  <1>3. CASE n = Len(q) + 1
    <2>1. n # 1 => n - 1 = Len(q) /\ Len(q) \in 1..Len(q) /\ Len(q) # 0
      BY <1>1, <1>3
    <2>2. n = 1 => Len(q) = 0
      BY <1>1, <1>3
    <2> QED
      BY <1>1, <1>3, <2>1, <2>2 DEF LastOf
  <1>4. n \in 1..Len(q) \/ n = Len(q) + 1
    BY <1>1
  <1> QED
    BY <1>2, <1>3, <1>4

LEMMA LinkedTail ==
  ASSUME NEW S, NEW q \in Seq(S), q # << >>, NEW first, NEW R, Linked(first, q, R)
  PROVE  Linked(Head(q).obj, Tail(q), R) /\ <<first, Head(q).obj>> \in R
  <1> DEFINE r == Tail(q)
  <1>1. /\ Len(q) \in Nat \ {0} /\ Len(r) = Len(q) - 1
        /\ \A n \in 1..Len(r) : r[n] = q[n + 1]
        /\ Head(q) = q[1]
    BY Shifted
  <1>2. <<first, Head(q).obj>> \in R
    <2>1. 1 \in 1..Len(q)
      BY <1>1
    <2> QED
      BY <1>1, <2>1 DEF Linked
  <1> HIDE DEF r
  <1>3. ASSUME NEW n \in 1..Len(r)
        PROVE  <<IF n = 1 THEN Head(q).obj ELSE r[n - 1].obj, r[n].obj>> \in R
    <2>1. /\ n + 1 \in 1..Len(q) /\ n + 1 # 1 /\ (n + 1) - 1 = n
          /\ n # 1 => n - 1 \in 1..Len(r) /\ (n - 1) + 1 = n
      BY <1>1
    <2>2. <<q[n].obj, q[n + 1].obj>> \in R
      BY <2>1 DEF Linked
    <2>3. n # 1 => r[n - 1] = q[n]
      BY <1>1, <2>1
    <2> QED
      BY <1>1, <2>2, <2>3
  <1> QED
    BY <1>2, <1>3 DEF Linked, r

LEMMA LinkedShort ==
  ASSUME NEW first, NEW R
  PROVE  /\ Linked(first, << >>, R)
         /\ \A S : \A e \in S : <<first, e.obj>> \in R => Linked(first, <<e>>, R)
  <1>1. Linked(first, << >>, R)
    <2>1. 1..Len(<< >>) = {}
      BY EmptySeq
    <2> QED
      BY <2>1 DEF Linked
  <1>2. ASSUME NEW S, NEW e \in S, <<first, e.obj>> \in R PROVE Linked(first, <<e>>, R)
    <2>1. 1..Len(<<e>>) = {1} /\ <<e>>[1] = e
      BY Single
    <2> QED
      BY <1>2, <2>1 DEF Linked
  <1> QED
    BY <1>1, <1>2

LEMMA LinkedLike ==
  ASSUME NEW first, NEW other, NEW q, NEW R, Linked(first, q, R),
         \A y : <<first, y>> \in R => <<other, y>> \in R
  PROVE  Linked(other, q, R)
  BY DEF Linked

(* An event tells another version than the one before it, and a child that  *)
(* changes keeps its owner.                                                 *)
Differs(x, y)   == x # Absent /\ y # Absent /\ x.uid = y.uid => x.version # y.version
Differences     == {p \in Known \X Known : Differs(p[1], p[2])}
SameOwners      == {p \in KnownChild \X KnownChild : SameOwner(p[1], p[2])}
AppChanges(k)   == Linked(appCache[k], appWatch[k], Differences)
ChildChanges(c) == Linked(childCache[c], childWatch[c], SameOwners)

LEMMA AppChangesPreserved ==
  ASSUME Inv, NEW k \in Items, AppChanges(k), [Next]_vars
  PROVE  AppChanges(k)'
  <1>1. AppMoves
    BY EveryStepMovesApps
  <1>2. /\ app \in [Items -> Known] /\ appCache \in [Items -> Known] /\ Absent \in Known
        /\ appWatch \in [Items -> Seq(App!Events)]
    BY Types DEF Known
  <1>3. CASE appCache'[k] = appCache[k] /\ appWatch'[k] = appWatch[k]
    BY <1>3 DEF AppChanges
  <1>4. CASE UNCHANGED <<app, appWatch>> /\ TouchesCache
    <2>1. PICK k0 \in Items, kind \in Kinds, v \in 0..MaxOps :
            /\ appCache[k0] # Absent
            /\ appCache' = [appCache EXCEPT ![k0] = [appCache[k0] EXCEPT !.status[kind] = v]]
      BY <1>4 DEF TouchesCache
    <2>2. CASE k = k0
      <3>1. appCache[k] \in Apps /\ appCache'[k] = [appCache[k] EXCEPT !.status[kind] = v]
        BY <1>2, <2>1, <2>2 DEF Known
      <3>2. /\ appCache'[k] \in Known /\ appCache[k] # Absent
            /\ appCache'[k].uid = appCache[k].uid /\ appCache'[k].version = appCache[k].version
        BY <3>1, StatusWritten, AppTypes DEF Known
      <3>3. \A y : <<appCache[k], y>> \in Differences => <<appCache'[k], y>> \in Differences
        BY <3>2 DEF Differences, Differs
      <3>4. Linked(appCache'[k], appWatch[k], Differences)
        BY <3>3, LinkedLike DEF AppChanges
      <3> QED
        BY <1>4, <3>4 DEF AppChanges
    <2>3. CASE k # k0
      BY <1>2, <1>3, <1>4, <2>1, <2>3
    <2> QED
      BY <2>2, <2>3
  <1>5. ASSUME NEW k0 \in Items, NEW obj \in Known, WriteApp(k0, obj),
               Follows(app[k0], obj, used.ops, used'.ops)
        PROVE  AppChanges(k)'
    <2>1. /\ appCache' = appCache
          /\ appWatch' = IF "app" \in listed
                           THEN [appWatch EXCEPT ![k0] = Append(appWatch[k0], App!Event(obj))]
                           ELSE appWatch
      BY <1>5 DEF WriteApp, App!Write
    <2>2. CASE k = k0 /\ "app" \in listed
      <3>1. appWatch'[k] = Append(appWatch[k], App!Event(obj)) /\ appCache'[k] = appCache[k]
        BY <1>2, <2>1, <2>2
      <3>2. AppFull(k) /\ Len(appWatch[k]) \in Nat
        BY <2>2, SeenBefore DEF Inv, AppsFill
      <3> DEFINE m == LastOf(appCache[k], appWatch[k])
      <3>3. /\ m \in Known /\ (m = Absent <=> app[k] = Absent)
            /\ m # Absent => m.uid = app[k].uid /\ m.version = app[k].version
        <4>1. CASE Len(appWatch[k]) = 0
          <5>1. m = appCache[k] /\ m \in Known
            BY <1>2, <4>1 DEF LastOf
          <5>2. IF app[k] # Absent THEN SameButStatus(m, app[k]) ELSE m = Absent
            BY <3>2, <4>1, <5>1 DEF AppFull
          <5>3. m # Absent => m \in Apps
            BY <5>1 DEF Known
          <5>4. ASSUME app[k] # Absent
                PROVE  m # Absent /\ m.uid = app[k].uid /\ m.version = app[k].version
            <6>1. m \in Apps /\ app[k] \in Apps /\ [m EXCEPT !.status = app[k].status] = app[k]
              BY <1>2, <5>2, <5>3, <5>4 DEF SameButStatus, Known
            <6>2. /\ [m EXCEPT !.status = app[k].status].uid = m.uid
                  /\ [m EXCEPT !.status = app[k].status].version = m.version
              BY <6>1 DEF Apps
            <6> QED
              BY <6>1, <6>2, AppTypes
          <5> QED
            BY <5>1, <5>2, <5>4
        <4>2. CASE Len(appWatch[k]) > 0
          BY <1>2, <3>2, <4>2 DEF LastOf, AppFull
        <4> QED
          BY <3>2, <4>1, <4>2, ZeroOrMore
      <3> HIDE DEF m
      <3>4. Differs(m, obj)
        <4> SUFFICES ASSUME m # Absent, obj # Absent, m.uid = obj.uid PROVE m.version # obj.version
          BY DEF Differs
        <4>1. app[k] # Absent /\ m.uid = app[k].uid /\ m.version = app[k].version
          BY <3>3
        <4>2. app[k].version \in Nat /\ obj.version = app[k].version + 1
          BY <1>2, <1>5, <2>2, <4>1, AppTypes DEF Follows, Known
        <4> QED
          BY <4>1, <4>2
      <3>5. App!Event(obj) \in App!Events /\ App!Event(obj).obj = obj
        BY <1>5, EventIsEvent
      <3>6. <<m, App!Event(obj).obj>> \in Differences
        BY <1>5, <3>3, <3>4, <3>5 DEF Differences
      <3>7. Linked(appCache[k], Append(appWatch[k], App!Event(obj)), Differences)
        BY <1>2, <3>5, <3>6, LinkedAppend DEF AppChanges, m
      <3> QED
        BY <3>1, <3>7 DEF AppChanges
    <2>3. CASE k # k0 \/ "app" \notin listed
      BY <1>2, <1>3, <2>1, <2>3
    <2> QED
      BY <2>2, <2>3
  <1>6. ASSUME NEW k0 \in Items, ReceiveApp(k0) PROVE AppChanges(k)'
    <2>1. /\ appWatch[k0] # << >>
          /\ appCache' = [appCache EXCEPT ![k0] = Head(appWatch[k0]).obj]
          /\ appWatch' = [appWatch EXCEPT ![k0] = Tail(appWatch[k0])]
      BY <1>6 DEF ReceiveApp, App!Receive
    <2>2. CASE k = k0
      <3>1. appCache'[k] = Head(appWatch[k]).obj /\ appWatch'[k] = Tail(appWatch[k])
        BY <1>2, <2>1, <2>2
      <3>2. Linked(Head(appWatch[k]).obj, Tail(appWatch[k]), Differences)
        BY <1>2, <2>1, <2>2, LinkedTail DEF AppChanges
      <3> QED
        BY <3>1, <3>2 DEF AppChanges
    <2>3. CASE k # k0
      BY <1>2, <1>3, <2>1, <2>3
    <2> QED
      BY <2>2, <2>3
  <1>7. CASE App!Stop
    <2>1. appWatch'[k] = << >>
      BY <1>7 DEF App!Stop, App!Empty
    <2> QED
      BY <2>1, LinkedShort DEF AppChanges
  <1>8. CASE ListApps /\ "app" \notin listed
    <2>1. /\ appCache'[k] = Absent
          /\ appWatch'[k] = IF Exists(k) THEN <<App!Event(app[k])>> ELSE << >>
      BY <1>8 DEF ListApps, Inv, AppsFill
    <2>2. App!Event(app[k]) \in App!Events /\ App!Event(app[k]).obj = app[k]
      BY <1>2, EventIsEvent
    <2>3. <<Absent, App!Event(app[k]).obj>> \in Differences
      BY <1>2, <2>2 DEF Differences, Differs
    <2>4. Linked(Absent, appWatch'[k], Differences)
      BY <2>1, <2>2, <2>3, LinkedShort
    <2> QED
      BY <2>1, <2>4 DEF AppChanges
  <1> QED
    BY <1>1, <1>3, <1>4, <1>5, <1>6, <1>7, <1>8 DEF AppMoves, appVars

LEMMA ChildChangesPreserved ==
  ASSUME Inv, NEW c \in ChildKeys, ChildChanges(c), [Next]_vars
  PROVE  ChildChanges(c)'
  <1>1. ChildMoves
    BY EveryStepMovesChildren
  <1>2. /\ child \in [ChildKeys -> KnownChild] /\ childCache \in [ChildKeys -> KnownChild]
        /\ childWatch \in [ChildKeys -> Seq(Child!Events)] /\ Absent \in KnownChild
        /\ Len(childWatch[c]) \in Nat /\ c[1] \in Kinds
        /\ IF c[1] \in listed THEN ChildFull(c)
           ELSE childWatch[c] = << >> /\ childCache[c] = Absent
    <2>1. childWatch[c] \in Seq(Child!Events)
      BY Types
    <2> QED
      BY <2>1, Types, LenProperties DEF KnownChild, ChildKeys, Inv, ChildrenFill
  <1>3. CASE childCache'[c] = childCache[c] /\ childWatch'[c] = childWatch[c]
    BY <1>3 DEF ChildChanges
  <1>4. ASSUME NEW c0 \in ChildKeys, NEW d \in KnownChild, WriteChild(c0, d), SameOwner(child[c0], d)
        PROVE  ChildChanges(c)'
    <2>1. /\ childCache' = childCache
          /\ childWatch' = IF c0[1] \in listed
                             THEN [childWatch EXCEPT ![c0] = Append(childWatch[c0], Child!Event(d))]
                             ELSE childWatch
      BY <1>4 DEF WriteChild, Child!Write
    <2>2. CASE c = c0 /\ c[1] \in listed
      <3>1. childWatch'[c] = Append(childWatch[c], Child!Event(d)) /\ childCache'[c] = childCache[c]
        BY <1>2, <2>1, <2>2
      <3>2. LastOf(childCache[c], childWatch[c]) = child[c]
        BY <1>2, <2>2 DEF ChildFull, LastOf
      <3>3. Child!Event(d) \in Child!Events /\ Child!Event(d).obj = d
        BY <1>4, ChildEventIsEvent
      <3>4. <<LastOf(childCache[c], childWatch[c]), Child!Event(d).obj>> \in SameOwners
        BY <1>2, <1>4, <2>2, <3>2, <3>3 DEF SameOwners
      <3>5. Linked(childCache[c], Append(childWatch[c], Child!Event(d)), SameOwners)
        BY <1>2, <3>3, <3>4, LinkedAppend DEF ChildChanges
      <3> QED
        BY <3>1, <3>5 DEF ChildChanges
    <2>3. CASE c # c0 \/ c[1] \notin listed
      BY <1>2, <1>3, <2>1, <2>3
    <2> QED
      BY <2>2, <2>3
  <1>5. ASSUME NEW c0 \in ChildKeys, ReceiveChild(c0) PROVE ChildChanges(c)'
    <2>1. /\ childWatch[c0] # << >>
          /\ childCache' = [childCache EXCEPT ![c0] = Head(childWatch[c0]).obj]
          /\ childWatch' = [childWatch EXCEPT ![c0] = Tail(childWatch[c0])]
      BY <1>5 DEF ReceiveChild, Child!Receive
    <2>2. CASE c = c0
      <3>1. childCache'[c] = Head(childWatch[c]).obj /\ childWatch'[c] = Tail(childWatch[c])
        BY <1>2, <2>1, <2>2
      <3>2. Linked(Head(childWatch[c]).obj, Tail(childWatch[c]), SameOwners)
        BY <1>2, <2>1, <2>2, LinkedTail DEF ChildChanges
      <3> QED
        BY <3>1, <3>2 DEF ChildChanges
    <2>3. CASE c # c0
      BY <1>2, <1>3, <2>1, <2>3
    <2> QED
      BY <2>2, <2>3
  <1>6. CASE Child!Stop
    <2>1. childWatch'[c] = << >>
      BY <1>6 DEF Child!Stop, Child!Empty
    <2> QED
      BY <2>1, LinkedShort DEF ChildChanges
  <1>7. ASSUME NEW kind \in Kinds, ListChildren(kind), kind \notin listed PROVE ChildChanges(c)'
    <2>1. /\ childCache'[c] = childCache[c]
          /\ childWatch'[c] = IF c[1] = kind /\ child[c] # Absent THEN <<Child!Event(child[c])>>
                              ELSE childWatch[c]
      BY <1>7 DEF ListChildren
    <2>2. CASE c[1] = kind /\ child[c] # Absent
      <3>1. Child!Event(child[c]) \in Child!Events /\ Child!Event(child[c]).obj = child[c]
        BY <1>2, ChildEventIsEvent
      <3>2. childCache[c] = Absent /\ <<Absent, Child!Event(child[c]).obj>> \in SameOwners
        BY <1>2, <1>7, <2>2, <3>1 DEF SameOwners, SameOwner
      <3>3. Linked(Absent, <<Child!Event(child[c])>>, SameOwners)
        BY <3>1, <3>2, LinkedShort
      <3> QED
        BY <2>1, <2>2, <3>2, <3>3 DEF ChildChanges
    <2>3. CASE ~(c[1] = kind /\ child[c] # Absent)
      BY <1>3, <2>1, <2>3
    <2> QED
      BY <2>2, <2>3
  <1> QED
    BY <1>1, <1>3, <1>4, <1>5, <1>6, <1>7 DEF ChildMoves, childVars

(* What brings a change to the notice of a worker: a change of the App k is *)
(* on its way or was queued; a child was seen with an owner, or will be, so *)
(* that its deletion will be seen as one of an owned child.                 *)
Pending(k)    == appWatch[k] # << >> \/ k \in dirty
Holds(d, u)   == d # Absent /\ d.owner = u
Noticed(c, u) == Holds(childCache[c], u) \/ \E n \in 1..Len(childWatch[c]) : Holds(childWatch[c][n].obj, u)

ChildrenNoticed(k, a, kinds) ==
  \A kind \in kinds : a.spec[kind] = k => Noticed(<<kind, k>>, a.uid)

LEMMA ListedStays ==
  ASSUME [Next]_vars, ~ProcessEnds
  PROVE  listed \subseteq listed'
  <1>1. ASSUME NEW t \in Informers, List(t) PROVE listed \subseteq listed'
    BY <1>1 DEF List
  <1>2. ASSUME UNCHANGED programVars PROVE listed \subseteq listed'
    BY <1>2 DEF programVars
  <1>3. ASSUME NEW w \in Workers, TakeItem(w) \/ Step(w) PROVE listed \subseteq listed'
    BY <1>2, <1>3, StepKeeps
  <1>4. CASE Main \/ Signal
    BY <1>4 DEF Main, Signal, NewController, StartFactories, WaitForCacheSync, ShutDown, Exit,
                Restart, programVars
  <1>5. CASE UNCHANGED vars
    BY <1>2, <1>5 DEF vars
  <1>6. CASE \/ \E k \in Items : UserWrites(k) \/ ReceiveApp(k) \/ EntryReady(k)
             \/ \E c \in ChildKeys : OthersWriteChild(c) \/ Collect(c) \/ ReceiveChild(c)
             \/ ReceiveEntry
    BY <1>2, <1>6 DEF UserWrites, ReceiveApp, EntryReady, OthersWriteChild, Collect, ReceiveChild,
                      ReceiveEntry, Delays, Elsewhere
  <1> QED
    BY <1>1, <1>3, <1>4, <1>5, <1>6 DEF Next

LEMMA Added ==
  ASSUME NEW k, RLQ!Add(k), ~shuttingDown
  PROVE  k \in dirty'
  BY DEF RLQ!Add, RLQ!WQ!Add

LEMMA WriteIsEvent ==
  ASSUME Inv, NEW k \in Items, NEW obj \in Known, WriteApp(k, obj), "app" \in listed
  PROVE  appWatch'[k] # << >> /\ \A x \in Items \ {k} : appWatch'[x] = appWatch[x] /\ app'[x] = app[x]
  <1>1. app \in [Items -> Known] /\ appWatch \in [Items -> Seq(App!Events)]
    BY Types
  <1>2. /\ app' = [app EXCEPT ![k] = obj]
        /\ appWatch' = [appWatch EXCEPT ![k] = Append(appWatch[k], App!Event(obj))]
    BY DEF WriteApp, App!Write
  <1>3. App!Event(obj) \in App!Events
    BY EventIsEvent
  <1>4. Append(appWatch[k], App!Event(obj)) # << >>
    BY <1>1, <1>3, AppendProperties
  <1> QED
    BY <1>1, <1>2, <1>4

(* A change of an App is an event.                                          *)
LEMMA AppChangeIsPending ==
  ASSUME Inv, [Next]_vars, NEW k \in Items, "app" \in listed
  PROVE  app'[k] = app[k] \/ Pending(k)'
  <1>1. AppMoves
    BY EveryStepMovesApps
  <1>3. ASSUME NEW k0 \in Items, NEW obj \in Known, WriteApp(k0, obj)
        PROVE  app'[k] = app[k] \/ Pending(k)'
    BY <1>3, WriteIsEvent DEF Pending
  <1>4. ASSUME app' = app PROVE app'[k] = app[k]
    BY <1>4
  <1>5. CASE \/ UNCHANGED appVars \/ UNCHANGED <<app, appWatch>> \/ App!Stop
             \/ ListApps \/ \E x \in Items : ReceiveApp(x)
    BY <1>4, <1>5 DEF appVars, App!Stop, ListApps, ReceiveApp, App!Receive
  <1> QED
    BY <1>1, <1>3, <1>5 DEF AppMoves

(* An event on its way comes to the queue, unless the App is gone by then:  *)
(* no event repeats what the cache holds.                                   *)
LEMMA PendingStays ==
  ASSUME Inv, WQP!QueueInv, [Next]_vars, ~ProcessEnds, ~shuttingDown,
         NEW k \in Items, AppChanges(k), Pending(k)
  PROVE  Pending(k)' \/ app'[k] = Absent \/ (k \notin processing /\ k \in processing')
  <1>1. AppMoves /\ listed \subseteq listed'
    BY EveryStepMovesApps, ListedStays
  <1>2. appWatch \in [Items -> Seq(App!Events)] /\ appCache \in [Items -> Known]
    BY Types
  <1>3. CASE k \in dirty
    BY <1>3, DirtyStays DEF Pending
  <1>4. ASSUME appWatch'[k] # << >> PROVE Pending(k)'
    BY <1>4 DEF Pending
  <1>5. CASE appWatch[k] # << >>
    <2>1. "app" \in listed /\ AppFull(k)
      BY <1>5 DEF Inv, AppsFill
    <2>2. ASSUME NEW k0 \in Items, NEW obj \in Known, WriteApp(k0, obj) PROVE appWatch'[k] # << >>
      BY <1>5, <2>1, <2>2, WriteIsEvent
    <2>3. ASSUME NEW k0 \in Items, ReceiveApp(k0)
          PROVE  Pending(k)' \/ app'[k] = Absent
      <3>1. /\ app' = app
            /\ appCache' = [appCache EXCEPT ![k0] = Head(appWatch[k0]).obj]
            /\ appWatch' = [appWatch EXCEPT ![k0] = Tail(appWatch[k0])]
        BY <2>3 DEF ReceiveApp, App!Receive
      <3>2. CASE k # k0
        BY <1>2, <1>4, <1>5, <3>1, <3>2
      <3>3. CASE k = k0
        <4>1. /\ Len(appWatch[k]) \in Nat \ {0} /\ Len(Tail(appWatch[k])) = Len(appWatch[k]) - 1
              /\ Head(appWatch[k]) = appWatch[k][1] /\ Tail(appWatch[k]) \in Seq(App!Events)
          BY <1>2, <1>5, Shifted
        <4>2. CASE Len(appWatch[k]) = 1
          <5>1. appCache'[k] = app[k]
            BY <1>2, <2>1, <3>1, <3>3, <4>1, <4>2 DEF AppFull
          <5>2. CASE app[k] = Absent
            BY <3>1, <5>2
          <5>3. CASE app[k] # Absent
            <6>1. <<appCache[k], Head(appWatch[k]).obj>> \in Differences
              BY <1>2, <1>5, LinkedTail DEF AppChanges
            <6>2. appCache'[k] = Head(appWatch[k]).obj
              BY <1>2, <3>1, <3>3
            <6>3. Differs(appCache[k], app[k])
              BY <5>1, <6>1, <6>2 DEF Differences
            <6>4. appCache'[k] \notin {Absent, appCache[k]}
              BY <5>1, <5>3, <6>3 DEF Differs
            <6>5. RLQ!Add(k)
              BY <2>3, <3>3, <6>4 DEF ReceiveApp
            <6> QED
              BY <6>5, Added DEF Pending
          <5> QED
            BY <5>2, <5>3
        <4>3. CASE Len(appWatch[k]) # 1
          <5>1. Len(Tail(appWatch[k])) # 0
            BY <4>1, <4>3
          <5>2. appWatch'[k] # << >>
            BY <1>2, <3>1, <3>3, <5>1, EmptySeq
          <5> QED
            BY <1>4, <5>2
        <4> QED
          BY <4>2, <4>3
      <3> QED
        BY <3>2, <3>3
    <2> QED
      BY <1>1, <1>4, <1>5, <2>1, <2>2, <2>3 DEF AppMoves, appVars
  <1> QED
    BY <1>3, <1>5 DEF Pending

(* A child that was seen with its owner is seen so until its deletion adds  *)
(* its key to the queue.                                                    *)
LEMMA NoticedStays ==
  ASSUME Inv, [Next]_vars, ~ProcessEnds, ~shuttingDown,
         NEW c \in ChildKeys, ChildChanges(c), NEW u, u # NoOwner, Noticed(c, u)
  PROVE  Noticed(c, u)' \/ c[2] \in dirty'
  <1>1. ChildMoves /\ listed \subseteq listed'
    BY EveryStepMovesChildren, ListedStays
  <1>2. /\ childCache \in [ChildKeys -> KnownChild] /\ childWatch \in [ChildKeys -> Seq(Child!Events)]
        /\ childWatch[c] \in Seq(Child!Events) /\ Len(childWatch[c]) \in Nat
    <2>1. childWatch[c] \in Seq(Child!Events)
      BY Types
    <2> QED
      BY <2>1, Types, LenProperties
  <1>3. c[1] \in listed
    <2>1. CASE childWatch[c] = << >> /\ childCache[c] = Absent
      <3>1. 1..Len(childWatch[c]) = {}
        BY <2>1, EmptySeq
      <3> QED
        BY <2>1, <3>1 DEF Noticed, Holds
    <2> QED
      BY <2>1 DEF Inv, ChildrenFill
  <1>4. ASSUME childCache'[c] = childCache[c], childWatch'[c] = childWatch[c] PROVE Noticed(c, u)'
    BY <1>4 DEF Noticed
  <1>5. ASSUME NEW c0 \in ChildKeys, NEW d \in KnownChild, WriteChild(c0, d)
        PROVE  Noticed(c, u)'
    <2>1. /\ childCache' = childCache
          /\ childWatch' = IF c0[1] \in listed
                             THEN [childWatch EXCEPT ![c0] = Append(childWatch[c0], Child!Event(d))]
                             ELSE childWatch
      BY <1>5 DEF WriteChild, Child!Write
    <2>2. CASE c = c0
      <3>1. Child!Event(d) \in Child!Events
        BY <1>5, ChildEventIsEvent
      <3>2. childWatch'[c] = Append(childWatch[c], Child!Event(d)) /\ childCache'[c] = childCache[c]
        BY <1>2, <1>3, <2>1, <2>2
      <3>3. /\ Len(childWatch'[c]) = Len(childWatch[c]) + 1
            /\ \A n \in 1..Len(childWatch[c]) : childWatch'[c][n] = childWatch[c][n]
        BY <1>2, <3>1, <3>2, Appended
      <3>4. 1..Len(childWatch[c]) \subseteq 1..Len(childWatch'[c])
        BY <1>2, <3>3
      <3> QED
        BY <3>2, <3>3, <3>4 DEF Noticed
    <2>3. CASE c # c0
      BY <1>2, <1>4, <2>1, <2>3
    <2> QED
      BY <2>2, <2>3
  <1>6. ASSUME NEW c0 \in ChildKeys, ReceiveChild(c0) PROVE Noticed(c, u)' \/ c[2] \in dirty'
    <2>1. /\ childWatch[c0] # << >>
          /\ childCache' = [childCache EXCEPT ![c0] = Head(childWatch[c0]).obj]
          /\ childWatch' = [childWatch EXCEPT ![c0] = Tail(childWatch[c0])]
          /\ IF childCache[c0] # Absent /\ childCache'[c0] = Absent /\ childCache[c0].owner # NoOwner
               THEN RLQ!Add(c0[2]) ELSE UNCHANGED queueVars
      BY <1>6 DEF ReceiveChild, Child!Receive
    <2>2. CASE c = c0
      <3>1. childCache'[c] = Head(childWatch[c]).obj /\ childWatch'[c] = Tail(childWatch[c])
        BY <1>2, <2>1, <2>2
      <3>2. /\ Len(childWatch[c]) \in Nat \ {0} /\ Len(childWatch'[c]) = Len(childWatch[c]) - 1
            /\ \A n \in 1..Len(childWatch'[c]) : childWatch'[c][n] = childWatch[c][n + 1]
            /\ Head(childWatch[c]) = childWatch[c][1]
        BY <1>2, <2>1, <2>2, <3>1, Shifted
      <3>3. CASE Holds(childCache[c], u)
        <4>1. <<childCache[c], Head(childWatch[c]).obj>> \in SameOwners
          BY <1>2, <2>1, <2>2, LinkedTail DEF ChildChanges
        <4>2. SameOwner(childCache[c], childCache'[c])
          BY <3>1, <4>1 DEF SameOwners
        <4>3. CASE childCache'[c] # Absent
          BY <3>3, <4>2, <4>3 DEF SameOwner, Holds, Noticed
        <4>4. CASE childCache'[c] = Absent
          BY <2>1, <2>2, <3>3, <4>4, Added DEF Holds
        <4> QED
          BY <4>3, <4>4
      <3>4. ASSUME NEW n \in 1..Len(childWatch[c]), Holds(childWatch[c][n].obj, u)
            PROVE  Noticed(c, u)'
        <4>1. CASE n = 1
          BY <3>1, <3>2, <3>4, <4>1 DEF Noticed
        <4>2. CASE n # 1
          <5>1. n - 1 \in 1..Len(childWatch'[c]) /\ (n - 1) + 1 = n
            BY <3>2, <4>2
          <5>2. childWatch'[c][n - 1] = childWatch[c][n]
            BY <3>2, <5>1
          <5> QED
            BY <3>4, <5>1, <5>2 DEF Noticed
        <4> QED
          BY <4>1, <4>2
      <3> QED
        BY <3>3, <3>4 DEF Noticed
    <2>3. CASE c # c0
      BY <1>2, <1>4, <2>1, <2>3
    <2> QED
      BY <2>2, <2>3
  <1>7. ASSUME NEW kind \in Kinds, ListChildren(kind), kind \notin listed PROVE Noticed(c, u)'
    <2>1. childCache'[c] = childCache[c] /\ childWatch'[c] = childWatch[c]
      BY <1>3, <1>7 DEF ListChildren
    <2> QED
      BY <1>4, <2>1
  <1>8. CASE UNCHANGED childVars
    BY <1>4, <1>8 DEF childVars
  <1> QED
    BY <1>1, <1>3, <1>5, <1>6, <1>7, <1>8 DEF ChildMoves

LEMMA ChildrenStayNoticed ==
  ASSUME Inv, WQP!QueueInv, [Next]_vars, ~ProcessEnds, ~shuttingDown, \A c \in ChildKeys : ChildChanges(c),
         NEW k \in Items, NEW a \in Apps, NEW kinds \in SUBSET Kinds,
         ChildrenNoticed(k, a, kinds) \/ k \in dirty
  PROVE  \/ \A kind \in kinds : a.spec[kind] = k => Noticed(<<kind, k>>, a.uid)'
         \/ k \in dirty'
         \/ k \notin processing /\ k \in processing'
  <1>1. CASE k \in dirty
    BY <1>1, DirtyStays
  <1>2. CASE ChildrenNoticed(k, a, kinds)
    <2>1. a.uid # NoOwner
      BY AppTypes, BoundsAssumption DEF NoOwner
    <2>2. ASSUME NEW kind \in kinds, a.spec[kind] = k
          PROVE  Noticed(<<kind, k>>, a.uid)' \/ k \in dirty'
      <3>1. <<kind, k>> \in ChildKeys /\ <<kind, k>>[2] = k
        BY DEF ChildKeys
      <3>2. Noticed(<<kind, k>>, a.uid)
        BY <1>2, <2>2 DEF ChildrenNoticed
      <3>3. \A u \in {a.uid} : Noticed(<<kind, k>>, u)' \/ <<kind, k>>[2] \in dirty'
        BY <2>1, <3>1, <3>2, NoticedStays
      <3> QED
        BY <3>1, <3>3
    <2> QED
      BY <2>2
  <1> QED
    BY <1>1, <1>2

(* What a sync knows: the child that it has passed was seen with its owner, *)
(* or another sync follows.  After the update the same is known of the App  *)
(* that is stored, unless that changes again.                               *)
Knows(r) ==
  /\ r.pc \in {"find", "create", "get"} /\ r.kind = "service" =>
       ChildrenNoticed(r.key, r.app, {"deployment"}) \/ r.key \in dirty
  /\ r.pc = "update" => ChildrenNoticed(r.key, r.app, Kinds) \/ r.key \in dirty
  /\ r.pc = "done" => \/ Pending(r.key) \/ app[r.key] = Absent
                      \/ ChildrenNoticed(r.key, app[r.key], Kinds)
  /\ r.pc = "handled" => r.key \in lastFailed

(* The steps of others leave it so.                                         *)
LEMMA KnowsStays ==
  ASSUME Inv, WQP!QueueInv, [Next]_vars, ~ProcessEnds, ~shuttingDown,
         \A k \in Items : AppChanges(k), \A c \in ChildKeys : ChildChanges(c), "app" \in listed,
         NEW r \in States, Sound(r), r.pc # "idle", r.key \in processing, Knows(r),
         r.pc = "handled" => r.key \in lastFailed'
  PROVE  Knows(r)'
  <1>1. r.key \in Items
    BY DEF Sound
  <1>2. ASSUME NEW a \in Apps, NEW kinds \in SUBSET Kinds,
               ChildrenNoticed(r.key, a, kinds) \/ r.key \in dirty
        PROVE  ChildrenNoticed(r.key, a, kinds)' \/ r.key \in dirty'
    BY <1>1, <1>2, ChildrenStayNoticed DEF ChildrenNoticed
  <1>3. {"deployment"} \in SUBSET Kinds /\ Kinds \in SUBSET Kinds
    BY DEF Kinds
  <1>4. ASSUME r.pc \in {"find", "create", "get"}, r.kind = "service"
        PROVE  ChildrenNoticed(r.key, r.app, {"deployment"})' \/ r.key \in dirty'
    <2>1. r.app \in Apps
      BY <1>4 DEF Sound, States, Known
    <2>2. \A kinds \in {{"deployment"}} : ChildrenNoticed(r.key, r.app, kinds) \/ r.key \in dirty
      BY <1>4 DEF Knows
    <2>3. \A kinds \in {{"deployment"}} : ChildrenNoticed(r.key, r.app, kinds)' \/ r.key \in dirty'
      BY <1>2, <1>3, <2>1, <2>2
    <2> QED
      BY <2>3
  <1>5. ASSUME r.pc = "update" PROVE ChildrenNoticed(r.key, r.app, Kinds)' \/ r.key \in dirty'
    <2>1. r.app \in Apps
      BY <1>5 DEF Sound, States, Known
    <2>2. \A kinds \in {Kinds} : ChildrenNoticed(r.key, r.app, kinds) \/ r.key \in dirty
      BY <1>5 DEF Knows
    <2>3. \A kinds \in {Kinds} : ChildrenNoticed(r.key, r.app, kinds)' \/ r.key \in dirty'
      BY <1>2, <1>3, <2>1, <2>2
    <2> QED
      BY <2>3 DEF Kinds
  <1>6. ASSUME r.pc = "done"
        PROVE  \/ Pending(r.key)' \/ app'[r.key] = Absent
               \/ ChildrenNoticed(r.key, app[r.key], Kinds)'
    <2>1. app'[r.key] = app[r.key] \/ Pending(r.key)'
      BY <1>1, AppChangeIsPending
    <2>2. CASE Pending(r.key)
      BY <1>1, <2>2, PendingStays
    <2>3. CASE app[r.key] = Absent
      BY <2>1, <2>3
    <2>4. CASE app[r.key] # Absent /\ app'[r.key] = app[r.key] /\ ChildrenNoticed(r.key, app[r.key], Kinds)
      <3>1. PICK a \in Apps : a = app[r.key]
        BY <1>1, <2>4, Types DEF Known
      <3>2. ChildrenNoticed(r.key, a, Kinds)' \/ r.key \in dirty'
        <4>1. \A kinds \in {Kinds} : ChildrenNoticed(r.key, a, kinds)
          BY <2>4, <3>1
        <4>2. \A kinds \in {Kinds} : ChildrenNoticed(r.key, a, kinds)' \/ r.key \in dirty'
          BY <1>2, <1>3, <4>1
        <4> QED
          BY <4>2 DEF Kinds
      <3>3. a = app'[r.key]
        BY <2>4, <3>1
      <3> QED
        BY <3>2, <3>3 DEF Pending
    <2> QED
      BY <1>6, <2>1, <2>2, <2>3, <2>4 DEF Knows
  <1> QED
    BY <1>4, <1>5, <1>6 DEF Knows

(* A worker that has taken a child's status into the App it has in hand.    *)
LEMMA StatusKnown ==
  ASSUME Inv, NEW w \in Workers, NEW c \in KnownChild, TakeStatus(w, c),
         worker[w].pc \in {"find", "get"}, Knows(worker[w]),
         Controlled(c, InHand(w)) => Noticed(ChildKey(w), InHand(w).uid)
  PROVE  \E r \in States : worker' = [worker EXCEPT ![w] = r] /\ Knows(r)
  <1>1. /\ ~At(w, "idle") /\ InHand(w) \in Apps /\ worker[w].kind \in Kinds /\ Key(w) \in Items
        /\ worker[w] \in States
    <2>1. ~At(w, "idle")
      BY DEF At
    <2> QED
      BY <2>1, WorkerKnows
  <1>2. CASE ~Controlled(c, InHand(w))
    <2>1. \E pc \in {"failed"} : Goto(w, pc)
      BY <1>2 DEF TakeStatus
    <2>2. \A pc \in {"failed"} : pc \in PCs \ {"idle"}
      BY DEF PCs
    <2>3. \E r \in States : worker' = [worker EXCEPT ![w] = r] /\ r.pc = "failed"
      BY <2>1, <2>2, GotoState
    <2> QED
      BY <2>3 DEF Knows
  <1>3. CASE Controlled(c, InHand(w))
    <2> DEFINE a == [InHand(w) EXCEPT !.status[worker[w].kind] = c.version]
    <2>1. c.version \in 0..MaxOps
      BY <1>3, BoundsAssumption DEF Controlled, KnownChild, Children
    <2>2. a \in Apps /\ a.uid = InHand(w).uid /\ a.spec = InHand(w).spec
      BY <1>1, <2>1, StatusWritten
    <2>3. Proceed(w, a, After(worker[w].kind))
      BY <1>3 DEF TakeStatus
    <2> HIDE DEF a
    <2>4. After(worker[w].kind) \subseteq Kinds
      BY DEF After, Kinds
    <2>5. PICK r \in States :
            /\ worker' = [worker EXCEPT ![w] = r] /\ r.key = Key(w) /\ r.app = a
            /\ \/ r.pc = "update" /\ \A kind \in After(worker[w].kind) : a.spec[kind] = Absent
               \/ r.pc = "find" /\ r.kind \in After(worker[w].kind)
      BY <2>2, <2>3, <2>4, ProceedState
    <2>6. PICK k \in Items : k = Key(w)
      BY <1>1
    <2>7. a.spec[worker[w].kind] = k => Noticed(<<worker[w].kind, k>>, a.uid)
      BY <1>3, <2>2, <2>6 DEF ChildKey
    <2>8. k # Absent
      BY NamesAssumption
    <2>9. CASE worker[w].kind = "deployment"
      <3>1. a.spec["deployment"] = k => Noticed(<<"deployment", k>>, a.uid)
        BY <2>7, <2>9
      <3>2. CASE r.pc = "find"
        BY <2>5, <2>6, <3>1, <3>2 DEF Knows, ChildrenNoticed
      <3>3. CASE r.pc = "update"
        <4>1. a.spec["service"] = Absent
          BY <2>5, <2>9, <3>3 DEF After
        <4> QED
          BY <2>5, <2>6, <2>8, <3>1, <3>3, <4>1 DEF Knows, ChildrenNoticed, Kinds
      <3> QED
        BY <2>5, <3>2, <3>3
    <2>10. CASE worker[w].kind = "service"
      <3>1. a.spec["service"] = k => Noticed(<<"service", k>>, a.uid)
        BY <2>7, <2>10
      <3>2. (a.spec["deployment"] = k => Noticed(<<"deployment", k>>, a.uid)) \/ k \in dirty
        BY <2>2, <2>6, <2>10 DEF Knows, ChildrenNoticed, Key, InHand
      <3>3. r.pc = "update"
        BY <2>5, <2>10 DEF After
      <3> QED
        BY <2>5, <2>6, <3>1, <3>2, <3>3 DEF Knows, ChildrenNoticed, Kinds
    <2> QED
      BY <1>1, <2>9, <2>10 DEF Kinds
  <1> QED
    BY <1>2, <1>3

(* The steps of a sync that only read.                                      *)
LEMMA ReaderKnows ==
  ASSUME Inv, NEW w \in Workers, ReadApp(w) \/ FindChild(w) \/ GetChild(w), Knows(worker[w])
  PROVE  Knows(worker[w])'
  <1>1. UNCHANGED <<dirty, lastFailed, app, appWatch, childCache, childWatch>>
    BY DEF ReadApp, FindChild, GetChild, queueVars, appVars, childVars
  <1>2. worker \in [Workers -> States]
    BY Types
  <1>3. ASSUME NEW r \in States, worker' = [worker EXCEPT ![w] = r], Knows(r)
        PROVE  Knows(worker[w])'
    <2>1. worker'[w] = r
      BY <1>2, <1>3
    <2>2. Knows(r)'
      BY <1>1, <1>3 DEF Knows, Pending, ChildrenNoticed, Noticed
    <2> QED
      BY <2>1, <2>2
  <1>4. ASSUME NEW pc \in {"failed", "create"}, Goto(w, pc), pc = "create" => At(w, "find")
        PROVE  \E r \in States : worker' = [worker EXCEPT ![w] = r] /\ Knows(r)
    <2>1. PICK r \in States : /\ worker' = [worker EXCEPT ![w] = r] /\ r.key = Key(w)
                              /\ r.pc = pc /\ r.app = InHand(w) /\ r.kind = worker[w].kind
      BY <1>4, GotoState DEF PCs
    <2>2. Knows(r)
      BY <1>4, <2>1 DEF Knows, At, Key, InHand
    <2> QED
      BY <2>1, <2>2
  <1>5. ASSUME ReadApp(w) PROVE \E r \in States : worker' = [worker EXCEPT ![w] = r] /\ Knows(r)
    <2>1. Key(w) \in Items
      <3>1. ~At(w, "idle")
        BY <1>5 DEF ReadApp, At
      <3> QED
        BY <3>1, WorkerKnows
    <2>2. CASE Goto(w, "failed")
      <3>1. \A pc \in {"failed"} : Goto(w, pc) =>
              \E r \in States : worker' = [worker EXCEPT ![w] = r] /\ Knows(r)
        BY <1>4
      <3> QED
        BY <2>2, <3>1
    <2>3. CASE appCache[Key(w)] # Absent /\ Proceed(w, appCache[Key(w)], Kinds)
      <3>1. PICK a \in Apps : a = appCache[Key(w)]
        BY <2>1, <2>3, Types DEF Known
      <3>2. PICK r \in States :
              /\ worker' = [worker EXCEPT ![w] = r] /\ r.key = Key(w) /\ r.app = a
              /\ \/ r.pc = "update" /\ \A kind \in Kinds : a.spec[kind] = Absent
                 \/ /\ r.pc = "find" /\ r.kind \in Kinds
                    /\ r.kind = "service" /\ "deployment" \in Kinds => a.spec["deployment"] = Absent
        <4>1. \A kinds \in {Kinds} : Proceed(w, a, kinds) =>
                \E r \in States :
                  /\ worker' = [worker EXCEPT ![w] = r] /\ r.key = Key(w) /\ r.app = a
                  /\ \/ r.pc = "update" /\ \A kind \in kinds : a.spec[kind] = Absent
                     \/ /\ r.pc = "find" /\ r.kind \in kinds
                        /\ r.kind = "service" /\ "deployment" \in kinds => a.spec["deployment"] = Absent
          BY ProceedState
        <4> QED
          BY <2>3, <3>1, <4>1
      <3>3. Key(w) # Absent
        BY <2>1, NamesAssumption
      <3>4. Knows(r)
        BY <3>2, <3>3 DEF Knows, ChildrenNoticed, Kinds
      <3> QED
        BY <3>2, <3>4
    <2> QED
      BY <1>5, <2>2, <2>3 DEF ReadApp, Lister
  <1>6. ASSUME FindChild(w) PROVE \E r \in States : worker' = [worker EXCEPT ![w] = r] /\ Knows(r)
    <2>1. At(w, "find") /\ ~At(w, "idle") /\ worker[w].pc \in {"find", "get"}
      BY <1>6 DEF FindChild, At
    <2>2. childCache[ChildKey(w)] \in KnownChild
      BY <2>1, WorkerKnows DEF At
    <2>3. CASE Goto(w, "create")
      <3>1. \A pc \in {"create"} : Goto(w, pc) =>
              \E r \in States : worker' = [worker EXCEPT ![w] = r] /\ Knows(r)
        BY <1>4, <2>1
      <3> QED
        BY <2>3, <3>1
    <2>4. CASE TakeStatus(w, childCache[ChildKey(w)])
      <3>1. Controlled(childCache[ChildKey(w)], InHand(w)) => Noticed(ChildKey(w), InHand(w).uid)
        BY DEF Controlled, Noticed, Holds
      <3> QED
        BY <2>1, <2>2, <2>4, <3>1, StatusKnown
    <2> QED
      BY <1>6, <2>3, <2>4 DEF FindChild
  <1>7. ASSUME GetChild(w) PROVE \E r \in States : worker' = [worker EXCEPT ![w] = r] /\ Knows(r)
    <2>1. At(w, "get") /\ ~At(w, "idle") /\ worker[w].pc \in {"find", "get"}
      BY <1>7 DEF GetChild, At
    <2>2. /\ child[ChildKey(w)] \in KnownChild /\ Absent \in KnownChild /\ ChildKey(w) \in ChildKeys
          /\ listed = Informers
      BY <2>1, WorkerKnows DEF At, KnownChild
    <2>3. CASE TakeStatus(w, Absent)
      BY <2>1, <2>2, <2>3, StatusKnown DEF Controlled
    <2>4. CASE TakeStatus(w, child[ChildKey(w)])
      <3>1. Controlled(child[ChildKey(w)], InHand(w)) => Noticed(ChildKey(w), InHand(w).uid)
        <4>1. ChildFull(ChildKey(w)) /\ childWatch[ChildKey(w)] \in Seq(Child!Events)
          BY <2>2, Types DEF Inv, ChildrenFill, ChildKeys, Informers
        <4>2. Len(childWatch[ChildKey(w)]) # 0 =>
                Len(childWatch[ChildKey(w)]) \in 1..Len(childWatch[ChildKey(w)])
          <5>1. Len(childWatch[ChildKey(w)]) \in Nat
            BY <4>1, LenProperties
          <5> QED
            BY <5>1
        <4> QED
          BY <4>1, <4>2 DEF ChildFull, Controlled, Noticed, Holds
      <3> QED
        BY <2>1, <2>2, <2>4, <3>1, StatusKnown
    <2> QED
      BY <1>7, <2>3, <2>4 DEF GetChild
  <1> QED
    BY <1>3, <1>5, <1>6, <1>7

-----------------------------------------------------------------------------
(* The invariant.  An App whose last sync was good has its children seen    *)
(* with their owner, or is on its way to a worker, or is in a worker's      *)
(* hands; and each worker knows so much of its sync.  Once the channel is   *)
(* closed the queue may refuse what is added to it.                         *)
NothingLost(k) ==
  "app" \in listed /\ k \notin lastFailed /\ Exists(k) =>
    Pending(k) \/ k \in processing \/ ChildrenNoticed(k, app[k], Kinds)

SyncInv ==
  /\ Holders /\ WQP!QueueInv
  /\ shuttingDown => stopCh
  /\ \A k \in Items : AppChanges(k)
  /\ \A c \in ChildKeys : ChildChanges(c)
  /\ ~stopCh => /\ \A w \in Workers : ~At(w, "idle") => Knows(worker[w])
                /\ \A k \in Items : NothingLost(k)

LEMMA ChannelStaysClosed ==
  ASSUME [Next]_vars, ~ProcessEnds, shuttingDown => stopCh
  PROVE  (stopCh => stopCh') /\ (shuttingDown' => stopCh')
  <1>1. \A i : \/ RLQ!WQ!Add(i) \/ RLQ!WQ!Get(i) \/ RLQ!WQ!Done(i) => shuttingDown' = shuttingDown
    BY DEF RLQ!WQ!Add, RLQ!WQ!Get, RLQ!WQ!Done
  <1>2. ASSUME stopCh' = stopCh, shuttingDown' = shuttingDown
        PROVE  (stopCh => stopCh') /\ (shuttingDown' => stopCh')
    BY <1>2
  <1>3. ASSUME NEW k \in Items, UserWrites(k) \/ ReceiveApp(k) \/ EntryReady(k)
        PROVE  stopCh' = stopCh /\ shuttingDown' = shuttingDown
    BY <1>1, <1>3 DEF UserWrites, ReceiveApp, EntryReady, Delays, Elsewhere, RLQ!Add, RLQ!Ready,
                      queueVars, programVars
  <1>4. ASSUME NEW c \in ChildKeys, OthersWriteChild(c) \/ Collect(c) \/ ReceiveChild(c)
        PROVE  stopCh' = stopCh /\ shuttingDown' = shuttingDown
    BY <1>1, <1>4 DEF OthersWriteChild, Collect, ReceiveChild, Elsewhere, RLQ!Add, queueVars,
                      programVars
  <1>5. ASSUME ReceiveEntry \/ \E t \in Informers : List(t)
        PROVE  stopCh' = stopCh /\ shuttingDown' = shuttingDown
    BY <1>1, <1>5 DEF ReceiveEntry, Delays, RLQ!ReceiveEntry, RLQ!wqVars, List, queueVars,
                      programVars
  <1>6. CASE Main \/ Signal
    BY <1>6 DEF Main, Signal, NewController, StartFactories, WaitForCacheSync, ShutDown, Exit,
                Restart, InMemory, queueVars, programVars
  <1>7. ASSUME NEW w \in Workers, TakeItem(w) \/ Step(w)
        PROVE  stopCh' = stopCh /\ shuttingDown' = shuttingDown
    <2>1. stopCh' = stopCh
      BY <1>7, StepKeeps DEF programVars
    <2>2. shuttingDown' = shuttingDown
      BY <1>1, <1>7 DEF TakeItem, Step, ReadApp, FindChild, CreateChild, GetChild, UpdateApp,
                        HandleError, Done, Call, queueVars, RLQ!Get, RLQ!Done, RLQ!AddRateLimited,
                        RLQ!Forget, RLQ!wqVars
    <2> QED
      BY <2>1, <2>2
  <1>8. CASE UNCHANGED vars
    BY <1>8 DEF vars, queueVars, programVars
  <1> QED
    BY <1>2, <1>3, <1>4, <1>5, <1>6, <1>7, <1>8 DEF Next

(* What a busy worker knows stays true while it is not its turn.            *)
LEMMA BusyKnows ==
  ASSUME Inv, SyncInv, ~stopCh, [Next]_vars, ~ProcessEnds,
         NEW w \in Workers, ~At(w, "idle"), Key(w) \in lastFailed => Key(w) \in lastFailed',
         NEW r \in States, r = worker[w]
  PROVE  Knows(r)'
  <1>1. /\ Sound(worker[w]) /\ "app" \in listed
    BY WorkerKnows DEF Informers
  <1>2. Key(w) \in processing /\ Knows(worker[w]) /\ ~shuttingDown
    BY DEF SyncInv, Holders
  <1>3. Sound(r) /\ r.pc # "idle" /\ r.key \in processing /\ Knows(r) /\ r.key = Key(w)
    BY <1>1, <1>2 DEF At, Key
  <1>4. r.pc = "handled" => r.key \in lastFailed'
    BY <1>3 DEF Knows
  <1> QED
    BY <1>1, <1>2, <1>3, <1>4, KnowsStays DEF SyncInv

(* The steps of a sync that call the API server or handle an error.         *)
LEMMA CallerKnows ==
  ASSUME Inv, SyncInv, ~stopCh, [Next]_vars, ~ProcessEnds,
         NEW w \in Workers, CreateChild(w) \/ UpdateApp(w) \/ HandleError(w)
  PROVE  Knows(worker[w])'
  <1>1. ~At(w, "idle") /\ "app" \in listed /\ Key(w) \in Items /\ worker[w] \in States
    <2>1. ~At(w, "idle")
      BY DEF CreateChild, UpdateApp, HandleError, At
    <2> QED
      BY <2>1, WorkerKnows DEF Informers
  <1>2. worker \in [Workers -> States] /\ Knows(worker[w])
    BY <1>1, Types DEF SyncInv
  <1>3. ASSUME NEW pc \in {"get", "done", "failed", "handled"}, Goto(w, pc)
        PROVE  /\ worker'[w] \in States /\ worker'[w].pc = pc /\ worker'[w].key = Key(w)
               /\ worker'[w].app = InHand(w) /\ worker'[w].kind = worker[w].kind
    BY <1>2, <1>3, GotoState DEF PCs
  <1>4. CASE \E pc \in {"failed"} : Goto(w, pc)
    <2>1. worker'[w].pc = "failed"
      BY <1>3, <1>4
    <2> QED
      BY <2>1 DEF Knows
  <1>5. CASE CreateChild(w) /\ \E pc \in {"get"} : Goto(w, pc)
    <2>1. PICK r \in States : r = worker[w]
      BY <1>1
    <2>2. lastFailed' = lastFailed
      BY <1>5 DEF CreateChild, Call
    <2>3. Knows(r)'
      BY <1>1, <2>1, <2>2, BusyKnows
    <2>4. /\ r.pc = "create" /\ worker'[w].pc = "get" /\ worker'[w].key = r.key
          /\ worker'[w].app = r.app /\ worker'[w].kind = r.kind
      BY <1>3, <1>5, <2>1 DEF CreateChild, At, Key, InHand
    <2> QED
      BY <2>3, <2>4 DEF Knows
  <1>6. CASE UpdateApp(w) /\ \E pc \in {"done"} : Goto(w, pc)
    <2>1. PICK k \in Items : k = Key(w)
      BY <1>1
    <2>2. worker'[w].pc = "done" /\ worker'[w].key = k
      BY <1>3, <1>6, <2>1
    <2>3. ASSUME \/ Pending(k)' \/ ChildrenNoticed(k, app[k], Kinds)'
          PROVE  Knows(worker[w])'
      BY <2>2, <2>3 DEF Knows
    <2>4. /\ UNCHANGED <<queueVars, childVars>> /\ At(w, "update") /\ InHand(w) \in Apps
          /\ IsPast(InHand(w), app[k], used.ops)
      BY <1>1, <1>6, <2>1, WorkerKnows DEF UpdateApp, Call
    <2>5. worker'[w].pc # "failed" /\ worker[w].pc # "done"
      BY <2>2, <2>4 DEF At
    <2>6. /\ Fresh(InHand(w), k)
          /\ IF InHand(w) = app[k] THEN UNCHANGED appVars
             ELSE WriteApp(k, [InHand(w) EXCEPT !.version = app[k].version + 1])
      <3>1. ~Goto(w, "failed")
        <4>1. \A pc \in {"failed"} : Goto(w, pc) => worker'[w].pc = "failed"
          BY <1>3
        <4> QED
          BY <2>5, <4>1
      <3> QED
        BY <1>6, <2>1, <3>1 DEF UpdateApp, Call
    <2>7. CASE InHand(w) = app[k]
      <3>1. ChildrenNoticed(k, app[k], Kinds) \/ k \in dirty
        BY <1>2, <2>1, <2>4, <2>7 DEF Knows, At, Key, InHand
      <3>2. UNCHANGED <<appVars, childVars, dirty>>
        BY <2>4, <2>6, <2>7 DEF queueVars
      <3>3. CASE k \in dirty
        BY <2>3, <3>2, <3>3 DEF Pending
      <3>4. CASE ChildrenNoticed(k, app[k], Kinds)
        <4>1. ChildrenNoticed(k, app[k], Kinds)'
          BY <3>2, <3>4 DEF ChildrenNoticed, Noticed, appVars, childVars, Kinds
        <4> QED
          BY <2>3, <4>1
      <3> QED
        BY <3>1, <3>3, <3>4
    <2>8. CASE InHand(w) # app[k]
      <3>1. Exists(k) /\ InHand(w).uid = app[k].uid
        BY <2>6 DEF Fresh
      <3>2. used.ops <= used'.ops /\ used'.ops \in Nat
        BY EveryStepMovesApps DEF AppMoves
      <3>3. [InHand(w) EXCEPT !.version = app[k].version + 1] \in Known
        BY <2>4, <3>1, <3>2, NewerFollows DEF Known
      <3>4. appWatch'[k] # << >>
        BY <1>1, <2>6, <2>8, <3>3, WriteIsEvent
      <3> QED
        BY <2>3, <3>4 DEF Pending
    <2> QED
      BY <2>7, <2>8
  <1>7. CASE HandleError(w)
    <2>1. \E pc \in {"handled"} : Goto(w, pc)
      BY <1>7 DEF HandleError
    <2>2. worker'[w].pc = "handled" /\ worker'[w].key = Key(w)
      BY <1>3, <2>1
    <2>3. Key(w) \in lastFailed'
      BY <1>7 DEF HandleError
    <2> QED
      BY <2>2, <2>3 DEF Knows
  <1> QED
    BY <1>4, <1>5, <1>6, <1>7 DEF CreateChild, UpdateApp, Call

LEMMA WorkersStep ==
  ASSUME Inv, [Next]_vars, ~ProcessEnds
  PROVE  \/ UNCHANGED <<worker, processing, lastFailed>>
         \/ \E w \in Workers : TakeItem(w) \/ (Step(w) /\ Goes(w)) \/ Done(w)
  BY OthersStep, StepGoes

LEMMA AllKnow ==
  ASSUME Inv, SyncInv, ~stopCh, [Next]_vars, ~ProcessEnds
  PROVE  \A w \in Workers : ~At(w, "idle")' => Knows(worker[w])'
  <1> SUFFICES ASSUME NEW w \in Workers, worker'[w].pc # "idle" PROVE Knows(worker[w])'
    BY DEF At
  <1>1. worker \in [Workers -> States]
    BY Types
  <1>2. ASSUME worker'[w] = worker[w], Key(w) \in lastFailed => Key(w) \in lastFailed'
        PROVE  Knows(worker[w])'
    <2>1. PICK r \in States : r = worker[w]
      BY <1>1
    <2>2. Knows(r)'
      BY <1>2, <2>1, BusyKnows DEF At
    <2> QED
      BY <1>2, <2>1, <2>2
  <1>3. CASE UNCHANGED <<worker, lastFailed>>
    BY <1>2, <1>3
  <1>4. ASSUME NEW v \in Workers, TakeItem(v) PROVE Knows(worker[w])'
    <2>1. PICK r \in States :
            worker' = [worker EXCEPT ![v] = r] /\ r.pc = "sync" /\ lastFailed' = lastFailed
      BY <1>4, Taken DEF SyncInv
    <2>2. CASE v = w
      <3>1. worker'[w].pc = "sync"
        BY <1>1, <2>1, <2>2
      <3> QED
        BY <3>1 DEF Knows
    <2>3. CASE v # w
      BY <1>1, <1>2, <2>1, <2>3
    <2> QED
      BY <2>2, <2>3
  <1>5. ASSUME NEW v \in Workers, Step(v), Goes(v) PROVE Knows(worker[w])'
    <2>1. /\ lastFailed \subseteq lastFailed' /\ ~At(v, "idle")
          /\ \A x \in Workers \ {v} : worker'[x] = worker[x]
      BY <1>1, <1>5, ErrorKeepsProcessing DEF Goes
    <2>2. CASE v = w
      <3>1. Knows(worker[w])
        BY <2>1, <2>2 DEF SyncInv
      <3>2. ~Done(w)
        <4>1. Done(w) => worker'[w].pc = "idle"
          BY <1>1 DEF Done, Idle
        <4> QED
          BY <4>1
      <3> QED
        BY <1>5, <2>2, <3>1, <3>2, ReaderKnows, CallerKnows DEF Step
    <2>3. CASE v # w
      BY <1>2, <2>1, <2>3
    <2> QED
      BY <2>2, <2>3
  <1>6. ASSUME NEW v \in Workers, Done(v) PROVE Knows(worker[w])'
    <2>1. /\ v # w /\ worker'[w] = worker[w] /\ ~At(v, "idle")
          /\ lastFailed \ {Key(v)} \subseteq lastFailed'
      BY <1>1, <1>6 DEF Done, Idle, At
    <2>2. Key(w) # Key(v)
      BY <2>1 DEF SyncInv, Holders, At
    <2> QED
      BY <1>2, <2>1, <2>2
  <1> QED
    BY <1>3, <1>4, <1>5, <1>6, WorkersStep

(* A worker lets a key go only with its Done, and no failure is forgotten   *)
(* otherwise.                                                               *)
LEMMA KeyLetGo ==
  ASSUME Inv, WQP!QueueInv, Holders, [Next]_vars, ~ProcessEnds, NEW k \in Items,
         (k \in processing /\ k \notin processing') \/ (k \in lastFailed /\ k \notin lastFailed')
  PROVE  k \in processing /\ \E w \in Workers : Done(w) /\ Key(w) = k
  <1>1. ASSUME NEW w \in Workers, TakeItem(w) PROVE FALSE
    BY <1>1, Taken
  <1>2. ASSUME NEW w \in Workers, Goes(w) PROVE FALSE
    BY <1>2, ErrorKeepsProcessing
  <1>3. ASSUME NEW w \in Workers, Done(w) PROVE k = Key(w) /\ k \in processing
    <2>1. processing' = processing \ {Key(w)} /\ lastFailed \ {Key(w)} \subseteq lastFailed'
      BY <1>3 DEF Done, RLQ!Done, RLQ!WQ!Done
    <2>2. Key(w) \in processing
      BY <1>3 DEF Done, Holders, At
    <2> QED
      BY <2>1, <2>2
  <1> QED
    BY <1>1, <1>2, <1>3, WorkersStep

LEMMA NothingLostPreserved ==
  ASSUME Inv, SyncInv, ~stopCh, [Next]_vars, ~ProcessEnds, NEW k \in Items
  PROVE  NothingLost(k)'
  <1> SUFFICES ASSUME "app" \in listed', k \notin lastFailed', app'[k] # Absent
               PROVE  Pending(k)' \/ k \in processing' \/ ChildrenNoticed(k, app[k], Kinds)'
    BY DEF NothingLost, Exists
  <1>1. /\ Holders /\ WQP!QueueInv /\ ~shuttingDown /\ NothingLost(k)
        /\ AppChanges(k) /\ \A c \in ChildKeys : ChildChanges(c)
    BY DEF SyncInv
  <1>2. CASE "app" \notin listed
    <2>1. AppMoves
      BY EveryStepMovesApps
    <2>2. ListApps
      BY <1>2, <2>1 DEF AppMoves, SameListed, ReceiveApp, programVars
    <2>3. appWatch'[k] = <<App!Event(app[k])>>
      BY <2>2 DEF ListApps, Exists
    <2>4. appWatch'[k] # << >>
      BY <2>3
    <2> QED
      BY <2>4 DEF Pending
  <1>3. CASE "app" \in listed /\ k \in processing /\ k \notin processing'
    <2>1. PICK w \in Workers : Done(w) /\ Key(w) = k
      BY <1>1, <1>3, KeyLetGo
    <2>2. /\ UNCHANGED <<appVars, childVars, dirty>> /\ Knows(worker[w])
          /\ At(w, "done") \/ (At(w, "handled") /\ lastFailed' = lastFailed)
      BY <2>1 DEF Done, RLQ!Done, RLQ!WQ!Done, SyncInv, At
    <2>3. At(w, "done")
      BY <2>1, <2>2 DEF Knows, At, Key
    <2>4. Pending(k) \/ app[k] = Absent \/ ChildrenNoticed(k, app[k], Kinds)
      BY <2>1, <2>2, <2>3 DEF Knows, At, Key
    <2>5. /\ app'[k] = app[k]
          /\ Pending(k) => Pending(k)'
          /\ ChildrenNoticed(k, app[k], Kinds) => ChildrenNoticed(k, app[k], Kinds)'
      BY <2>2 DEF appVars, childVars, Pending, ChildrenNoticed, Noticed, Kinds
    <2> QED
      BY <2>4, <2>5
  <1>4. CASE "app" \in listed /\ k \notin processing /\ k \notin processing'
    <2>1. k \notin lastFailed
      BY <1>1, <1>4, KeyLetGo
    <2>2. app'[k] = app[k] \/ Pending(k)'
      BY <1>4, AppChangeIsPending
    <2>3. CASE Pending(k)
      BY <1>1, <1>4, <2>3, PendingStays
    <2>4. CASE app'[k] = app[k] /\ ChildrenNoticed(k, app[k], Kinds)
      <3>1. PICK a \in Apps : a = app[k]
        BY <2>4, Types DEF Known
      <3>2. \A kinds \in {Kinds} : ChildrenNoticed(k, a, kinds) /\ kinds \in SUBSET Kinds
        BY <2>4, <3>1
      <3>3. \A kinds \in {Kinds} :
              (\A kind \in kinds : a.spec[kind] = k => Noticed(<<kind, k>>, a.uid)') \/ k \in dirty'
        BY <1>1, <1>4, <3>2, ChildrenStayNoticed
      <3> QED
        BY <2>4, <3>1, <3>3 DEF ChildrenNoticed, Pending, Kinds
    <2> QED
      BY <1>1, <1>4, <2>1, <2>2, <2>3, <2>4 DEF NothingLost, Exists
  <1> QED
    BY <1>2, <1>3, <1>4

LEMMA InitSyncInv == Init => SyncInv
  <1> SUFFICES ASSUME Init PROVE SyncInv
    OBVIOUS
  <1>1. \A w \in Workers : At(w, "idle")
    BY DEF Init, At, Idle
  <1>2. /\ queue = << >> /\ dirty = {} /\ processing = {} /\ shuttingDown = FALSE
        /\ listed = {} /\ stopCh = FALSE
    BY DEF Init, RLQ!Init, RLQ!WQ!Init
  <1>3. WQP!QueueInv
    <2>1. WQP!Init
      BY <1>2 DEF WQP!Init
    <2> QED
      BY <2>1, WQP!InitInv
  <1>4. Holders
    BY <1>1, <1>2 DEF Holders
  <1>5. \A k \in Items : AppChanges(k)
    <2>1. \A k \in Items : appWatch[k] = << >>
      BY DEF Init, App!Init, App!Empty
    <2> QED
      BY <2>1, LinkedShort DEF AppChanges
  <1>6. \A c \in ChildKeys : ChildChanges(c)
    <2>1. \A c \in ChildKeys : childWatch[c] = << >>
      BY DEF Init, Child!Init, Child!Empty
    <2> QED
      BY <2>1, LinkedShort DEF ChildChanges
  <1> QED
    BY <1>1, <1>2, <1>3, <1>4, <1>5, <1>6 DEF SyncInv, NothingLost

LEMMA SyncInvPreserved ==
  ASSUME Inv, SyncInv, [Next]_vars
  PROVE  SyncInv'
  <1>1. /\ Holders' /\ WQP!QueueInv'
        /\ \A k \in Items : AppChanges(k)'
        /\ \A c \in ChildKeys : ChildChanges(c)'
    BY HoldersPreserved, WorkQueuePreserved, AppChangesPreserved, ChildChangesPreserved DEF SyncInv
  <1>2. CASE ProcessEnds
    <2>1. shuttingDown' = FALSE /\ listed' = {} /\ \A w \in Workers : worker'[w].pc = "idle"
      BY <1>2 DEF ProcessEnds, Idle
    <2> QED
      BY <1>1, <2>1 DEF SyncInv, NothingLost, At
  <1>3. CASE ~ProcessEnds
    <2>1. (stopCh => stopCh') /\ (shuttingDown' => stopCh')
      BY <1>3, ChannelStaysClosed DEF SyncInv
    <2>2. CASE stopCh'
      BY <1>1, <2>1, <2>2 DEF SyncInv
    <2>3. CASE ~stopCh'
      <3>1. \A w \in Workers : ~At(w, "idle")' => Knows(worker[w])'
        BY <1>3, <2>1, <2>3, AllKnow
      <3>2. \A k \in Items : NothingLost(k)'
        BY <1>3, <2>1, <2>3, NothingLostPreserved
      <3> QED
        BY <1>1, <2>1, <2>3, <3>1, <3>2 DEF SyncInv
    <2> QED
      BY <2>2, <2>3
  <1> QED
    BY <1>2, <1>3

(* When nothing is on its way, what was seen is what the API server stores. *)
LEMMA SettledIsSeen ==
  ASSUME Inv, SyncInv
  PROVE  SettledAppHasChildren
  <1> SUFFICES ASSUME NEW k \in Items, Settled(k), k \notin lastFailed, Exists(k),
                      NEW kind \in Kinds, app[k].spec[kind] = k
               PROVE  Controlled(child[<<kind, k>>], app[k])
    BY DEF SettledAppHasChildren, HasChildren
  <1>1. /\ main = "run" /\ ~stopCh /\ appWatch[k] = << >> /\ k \notin dirty /\ k \notin processing
        /\ childWatch[<<kind, k>>] = << >>
    BY DEF Settled
  <1>2. listed = Informers
    BY <1>1 DEF Inv, WorkersLast
  <1>3. NothingLost(k)
    BY <1>1 DEF SyncInv
  <1>4. ChildrenNoticed(k, app[k], Kinds)
    BY <1>1, <1>2, <1>3 DEF NothingLost, Pending, Informers
  <1>5. Noticed(<<kind, k>>, app[k].uid)
    BY <1>4 DEF ChildrenNoticed
  <1>6. Holds(childCache[<<kind, k>>], app[k].uid)
    <2>1. Len(childWatch[<<kind, k>>]) = 0 /\ 1..Len(childWatch[<<kind, k>>]) = {}
      BY <1>1, EmptySeq
    <2> QED
      BY <1>5, <2>1 DEF Noticed
  <1>7. childCache[<<kind, k>>] = child[<<kind, k>>]
    <2>1. <<kind, k>> \in ChildKeys /\ <<kind, k>>[1] \in listed
      BY <1>2 DEF ChildKeys, Informers
    <2>2. ChildFull(<<kind, k>>)
      BY <2>1 DEF Inv, ChildrenFill
    <2>3. Len(childWatch[<<kind, k>>]) = 0
      BY <1>1, EmptySeq
    <2> QED
      BY <2>2, <2>3 DEF ChildFull
  <1> QED
    BY <1>6, <1>7 DEF Holds, Controlled

(* No App is forgotten (syncApp 219 to 289, DeleteDeployment 134): when     *)
(* nothing about an App is under way and its last sync was good, the        *)
(* Deployment and the Service that go by its name are there and its own,    *)
(* whatever was changed, refused or deleted in between.                     *)
THEOREM NoAppForgotten == Spec => []SettledAppHasChildren
  <1>1. Init => SyncInv
    BY InitSyncInv
  <1>2. Inv /\ Inv' /\ SyncInv /\ [Next]_vars => SyncInv'
    BY SyncInvPreserved
  <1>3. Inv /\ SyncInv => SettledAppHasChildren
    BY SettledIsSeen
  <1> QED
    BY <1>1, <1>2, <1>3, Invariant, PTL DEF Spec
=============================================================================
