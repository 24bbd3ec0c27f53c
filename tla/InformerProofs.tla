---------------------------- MODULE InformerProofs ----------------------------
(***************************************************************************)
(* Proofs about a shared informer, for any keys, objects and handlers.      *)
(* Types, the agreement of cache and API server and the chain of            *)
(* notifications are each inductive once the types are known.               *)
(***************************************************************************)
EXTENDS Informer, TLAPS, SequenceTheorems

(* What Append and Tail do to the elements of a channel. *)
LEMMA AppendElements ==
  ASSUME NEW S, NEW q \in Seq(S), NEW e \in S
  PROVE  /\ Append(q, e) \in Seq(S)
         /\ Len(q) \in Nat
         /\ Len(Append(q, e)) = Len(q) + 1
         /\ \A n \in 1..Len(q) : Append(q, e)[n] = q[n]
         /\ Append(q, e)[Len(q) + 1] = e
  BY AppendProperties, LenProperties

LEMMA TailElements ==
  ASSUME NEW S, NEW q \in Seq(S), q # << >>
  PROVE  /\ Tail(q) \in Seq(S)
         /\ Len(q) \in Nat \ {0}
         /\ Len(Tail(q)) = Len(q) - 1
         /\ \A n \in 1..Len(Tail(q)) : Tail(q)[n] = q[n + 1]
         /\ Head(q) = q[1]
         /\ Head(q) \in S
  BY HeadTailProperties, EmptySeq

LEMMA NoteIsNote ==
  ASSUME NEW old \in MaybeObject, NEW e \in Events
  PROVE  Note(old, e) \in Notes /\ Note(old, e).old = old /\ Note(old, e).new = e.obj
  <1>1. HandlerOf(old, e.obj) \in HandlerNames
    <2>1. CASE e.obj = Absent
      BY <2>1 DEF HandlerOf, HandlerNames
    <2>2. CASE e.obj # Absent /\ old = Absent
      BY <2>2 DEF HandlerOf, HandlerNames
    <2>3. CASE e.obj # Absent /\ old # Absent
      BY <2>3 DEF HandlerOf, HandlerNames
    <2> QED
      BY <2>1, <2>2, <2>3
  <1> QED
    BY <1>1 DEF Note, Notes, Events

LEMMA ReceiveTypes ==
  ASSUME TypeOK, NEW k \in Keys, Receive(k)
  PROVE  TypeOK'
  <1>1. watch[k] \in Seq(Events) /\ watch[k] # << >>
    BY DEF TypeOK, Receive
  <1>2. Head(watch[k]) \in Events /\ Tail(watch[k]) \in Seq(Events)
    BY <1>1, TailElements
  <1>3. Head(watch[k]).obj \in MaybeObject
    BY <1>2 DEF Events
  <1>4. Note(cache[k], Head(watch[k])) \in Notes
    BY <1>2, NoteIsNote DEF TypeOK
  <1>5. Notify(notes[k], Note(cache[k], Head(watch[k]))) \in Seq(Notes)
    BY <1>4, AppendProperties DEF Notify, TypeOK
  <1> QED
    BY <1>2, <1>3, <1>5 DEF TypeOK, Receive

(* A step of the informer, or a write that stores what is stored already. *)
ConnectedStep ==
  \/ [Next]_vars
  \/ \E k \in Keys : \E obj \in MaybeObject : Write(k, obj, TRUE)

LEMMA TypesPreserved ==
  ASSUME TypeOK, ConnectedStep
  PROVE  TypeOK'
  <1>1. ASSUME NEW k \in Keys, NEW obj \in MaybeObject, Write(k, obj, TRUE) PROVE TypeOK'
    <2>1. Event(obj) \in Events
      BY DEF Event, Events
    <2>2. Append(watch[k], Event(obj)) \in Seq(Events)
      BY <2>1, AppendProperties DEF TypeOK
    <2> QED
      BY <1>1, <2>2 DEF TypeOK, Write
  <1>2. ASSUME NEW k \in Keys, Receive(k) PROVE TypeOK'
    BY <1>2, ReceiveTypes
  <1>3. ASSUME NEW k \in Keys, Take(k) PROVE TypeOK'
    <2>1. Tail(notes[k]) \in Seq(Notes)
      BY <1>3, TailElements DEF TypeOK, Take
    <2> QED
      BY <1>3, <2>1 DEF TypeOK, Take
  <1>4. ASSUME Disconnect PROVE TypeOK'
    <2>1. \A k \in Keys : watch'[k] \in Seq(Events)
      <3> TAKE k \in Keys
      <3>1. store[k] \in MaybeObject /\ Absent \in MaybeObject
        BY DEF TypeOK, MaybeObject
      <3>2. Event(store[k]) \in Events /\ [obj |-> Absent, tombstone |-> TRUE] \in Events
        BY <3>1 DEF Event, Events
      <3> QED
        BY <1>4, <3>2, EmptySeq DEF Disconnect
    <2> QED
      BY <1>4, <2>1 DEF TypeOK, Disconnect
  <1>5. ASSUME UNCHANGED vars PROVE TypeOK'
    BY <1>5 DEF TypeOK, vars
  <1> QED
    BY <1>1, <1>2, <1>3, <1>4, <1>5 DEF ConnectedStep, Next

-----------------------------------------------------------------------------
LEMMA CachePreserved ==
  ASSUME TypeOK, CacheCatchesUp, ConnectedStep
  PROVE  CacheCatchesUp'
  <1>1. ASSUME NEW k \in Keys, NEW obj \in MaybeObject, Write(k, obj, TRUE)
        PROVE  CacheCatchesUp'
    <2>1. /\ store' = [store EXCEPT ![k] = obj]
          /\ watch' = [watch EXCEPT ![k] = Append(@, Event(obj))]
          /\ cache' = cache
      BY <1>1 DEF Write
    <2>2. /\ watch'[k] = Append(watch[k], Event(obj)) /\ store'[k] = obj
          /\ \A j \in Keys \ {k} : watch'[j] = watch[j] /\ store'[j] = store[j]
      BY <2>1 DEF TypeOK
    <2>3. Event(obj) \in Events
      BY DEF Event, Events
    <2>4. Len(watch'[k]) # 0 /\ watch'[k][Len(watch'[k])] = Event(obj)
      BY <2>2, <2>3, AppendElements DEF TypeOK
    <2> QED
      BY <2>1, <2>2, <2>4 DEF CacheCatchesUp, Event
  <1>2. ASSUME NEW k \in Keys, Receive(k) PROVE CacheCatchesUp'
    <2>1. /\ cache'[k] = Head(watch[k]).obj /\ watch'[k] = Tail(watch[k])
          /\ \A j \in Keys \ {k} : cache'[j] = cache[j] /\ watch'[j] = watch[j]
          /\ store' = store
      BY <1>2 DEF Receive, TypeOK
    <2>2. /\ Len(watch[k]) \in Nat \ {0}
          /\ Len(watch'[k]) = Len(watch[k]) - 1
          /\ \A n \in 1..Len(watch'[k]) : watch'[k][n] = watch[k][n + 1]
          /\ Head(watch[k]) = watch[k][1]
      BY <1>2, <2>1, TailElements DEF Receive, TypeOK
    <2>3. watch[k][Len(watch[k])].obj = store[k]
      BY <2>2 DEF CacheCatchesUp
    <2>4. IF Len(watch'[k]) = 0 THEN cache'[k] = store'[k]
          ELSE watch'[k][Len(watch'[k])].obj = store'[k]
      <3>1. CASE Len(watch[k]) = 1
        <4>1. Len(watch'[k]) = 0
          BY <2>2, <3>1
        <4> QED
          BY <2>1, <2>2, <2>3, <3>1, <4>1
      <3>2. CASE Len(watch[k]) # 1
        <4> DEFINE n == Len(watch'[k])
        <4>1. n \in Nat /\ n # 0 /\ Len(watch[k]) = n + 1
          BY <2>2, <3>2
        <4>2. watch'[k][n] = watch[k][n + 1]
          <5>1. n \in 1..n
            BY <4>1
          <5> QED
            BY <2>2, <5>1
        <4> QED
          BY <2>1, <2>3, <4>1, <4>2
      <3> QED
        BY <3>1, <3>2
    <2>5. ASSUME NEW j \in Keys \ {k}
          PROVE  IF Len(watch'[j]) = 0 THEN cache'[j] = store'[j]
                 ELSE watch'[j][Len(watch'[j])].obj = store'[j]
      BY <2>1 DEF CacheCatchesUp
    <2> QED
      BY <2>4, <2>5 DEF CacheCatchesUp
  <1>3. ASSUME NEW k \in Keys, Take(k) PROVE CacheCatchesUp'
    BY <1>3 DEF CacheCatchesUp, Take
  <1>4. ASSUME Disconnect PROVE CacheCatchesUp'
    <2> SUFFICES ASSUME NEW k \in Keys
                 PROVE  IF Len(watch'[k]) = 0 THEN cache[k] = store[k]
                        ELSE watch'[k][Len(watch'[k])].obj = store[k]
      BY <1>4 DEF CacheCatchesUp, Disconnect
    <2>1. CASE store[k] # Absent
      <3>1. watch'[k] = <<Event(store[k])>>
        BY <1>4, <2>1 DEF Disconnect
      <3> QED
        BY <3>1 DEF Event
    <2>2. CASE store[k] = Absent /\ cache[k] # Absent
      <3>1. watch'[k] = <<[obj |-> Absent, tombstone |-> TRUE]>>
        BY <1>4, <2>2 DEF Disconnect
      <3> QED
        BY <2>2, <3>1
    <2>3. CASE store[k] = Absent /\ cache[k] = Absent
      <3>1. watch'[k] = << >>
        BY <1>4, <2>3 DEF Disconnect
      <3> QED
        BY <2>3, <3>1, EmptySeq
    <2> QED
      BY <2>1, <2>2, <2>3
  <1>5. ASSUME UNCHANGED vars PROVE CacheCatchesUp'
    BY <1>5 DEF CacheCatchesUp, vars
  <1> QED
    BY <1>1, <1>2, <1>3, <1>4, <1>5 DEF ConnectedStep, Next

-----------------------------------------------------------------------------
LEMMA NotesPreserved ==
  ASSUME TypeOK, NotesFollowCache, [Next]_vars
  PROVE  NotesFollowCache'
  <1> SUFFICES ASSUME Handlers = HandlerNames PROVE NotesFollowCache'
    BY DEF NotesFollowCache
  <1>1. ASSUME NEW k \in Keys, NEW obj \in MaybeObject, Write(k, obj, TRUE)
        PROVE  NotesFollowCache'
    BY <1>1 DEF NotesFollowCache, Write
  <1>2. ASSUME NEW k \in Keys, Receive(k) PROVE NotesFollowCache'
    <2> DEFINE note == Note(cache[k], Head(watch[k]))
    <2>1. Head(watch[k]) \in Events
      BY <1>2, TailElements DEF Receive, TypeOK
    <2>2. note \in Notes /\ note.old = cache[k] /\ note.new = Head(watch[k]).obj
      BY <2>1, NoteIsNote DEF TypeOK
    <2>3. note.handler \in Handlers
      BY <2>2 DEF Notes
    <2>4. Notify(notes[k], note) = Append(notes[k], note)
      BY <2>3 DEF Notify
    <2>5. notes' = [notes EXCEPT ![k] = Append(@, note)]
      BY <1>2, <2>4 DEF Receive, TypeOK
    <2> HIDE DEF note
    <2>6. /\ cache'[k] = Head(watch[k]).obj /\ notes'[k] = Append(notes[k], note)
          /\ \A j \in Keys \ {k} : cache'[j] = cache[j] /\ notes'[j] = notes[j]
      BY <1>2, <2>5 DEF Receive, TypeOK
    <2>7. /\ Len(notes[k]) \in Nat /\ Len(notes'[k]) = Len(notes[k]) + 1
          /\ \A n \in 1..Len(notes[k]) : notes'[k][n] = notes[k][n]
          /\ notes'[k][Len(notes[k]) + 1] = note
      BY <2>2, <2>6, AppendElements DEF TypeOK
    <2>8. notes'[k][Len(notes'[k])].new = cache'[k]
      BY <2>2, <2>6, <2>7
    <2>9. ASSUME NEW m \in 1..(Len(notes'[k]) - 1)
          PROVE  notes'[k][m].new = notes'[k][m + 1].old
      <3>1. CASE m = Len(notes[k])
        BY <2>2, <2>7, <3>1 DEF NotesFollowCache
      <3>2. CASE m # Len(notes[k])
        <4>1. m \in 1..(Len(notes[k]) - 1) /\ m \in 1..Len(notes[k]) /\ m + 1 \in 1..Len(notes[k])
          BY <2>7, <3>2
        <4> QED
          BY <2>7, <4>1 DEF NotesFollowCache
      <3> QED
        BY <3>1, <3>2
    <2>10. ASSUME NEW j \in Keys \ {k}
           PROVE  /\ \A m \in 1..(Len(notes'[j]) - 1) : notes'[j][m].new = notes'[j][m + 1].old
                  /\ Len(notes'[j]) > 0 => notes'[j][Len(notes'[j])].new = cache'[j]
      BY <2>6 DEF NotesFollowCache
    <2> QED
      BY <2>8, <2>9, <2>10 DEF NotesFollowCache
  <1>3. ASSUME NEW k \in Keys, Take(k) PROVE NotesFollowCache'
    <2>1. /\ cache' = cache /\ notes'[k] = Tail(notes[k])
          /\ \A j \in Keys \ {k} : notes'[j] = notes[j]
      BY <1>3 DEF Take, TypeOK
    <2>2. /\ Len(notes[k]) \in Nat \ {0}
          /\ Len(notes'[k]) = Len(notes[k]) - 1
          /\ \A n \in 1..Len(notes'[k]) : notes'[k][n] = notes[k][n + 1]
      BY <1>3, <2>1, TailElements DEF Take, TypeOK
    <2>3. ASSUME NEW m \in 1..(Len(notes'[k]) - 1)
          PROVE  notes'[k][m].new = notes'[k][m + 1].old
      <3>1. /\ m \in 1..Len(notes'[k]) /\ m + 1 \in 1..Len(notes'[k])
            /\ m + 1 \in 1..(Len(notes[k]) - 1)
        BY <2>2
      <3>2. notes[k][m + 1].new = notes[k][(m + 1) + 1].old
        BY <3>1 DEF NotesFollowCache
      <3>3. notes'[k][m] = notes[k][m + 1] /\ notes'[k][m + 1] = notes[k][(m + 1) + 1]
        BY <2>2, <3>1
      <3> QED
        BY <3>2, <3>3
    <2>4. Len(notes'[k]) > 0 => notes'[k][Len(notes'[k])].new = cache[k]
      <3> SUFFICES ASSUME Len(notes'[k]) > 0
                   PROVE  notes'[k][Len(notes'[k])].new = cache[k]
        OBVIOUS
      <3>1. Len(notes'[k]) \in 1..Len(notes'[k]) /\ Len(notes'[k]) + 1 = Len(notes[k])
        BY <2>2
      <3> QED
        BY <2>2, <3>1 DEF NotesFollowCache
    <2>5. ASSUME NEW j \in Keys \ {k}
          PROVE  /\ \A m \in 1..(Len(notes'[j]) - 1) : notes'[j][m].new = notes'[j][m + 1].old
                 /\ Len(notes'[j]) > 0 => notes'[j][Len(notes'[j])].new = cache'[j]
      BY <2>1 DEF NotesFollowCache
    <2> QED
      BY <2>1, <2>3, <2>4, <2>5 DEF NotesFollowCache
  <1>4. ASSUME Disconnect PROVE NotesFollowCache'
    BY <1>4 DEF NotesFollowCache, Disconnect
  <1>5. ASSUME UNCHANGED vars PROVE NotesFollowCache'
    BY <1>5 DEF NotesFollowCache, vars
  <1> QED
    BY <1>1, <1>2, <1>3, <1>4, <1>5 DEF Next

-----------------------------------------------------------------------------
LEMMA InitInv == Init => TypeOK /\ CacheCatchesUp /\ NotesFollowCache
  <1>1. /\ << >> \in Seq(Events) /\ << >> \in Seq(Notes)
        /\ Len(<< >>) = 0 /\ 1..(0 - 1) = {} /\ ~(0 > 0)
    BY EmptySeq
  <1> QED
    BY <1>1 DEF Init, Empty, TypeOK, CacheCatchesUp, NotesFollowCache, MaybeObject

(* The types of a shared informer, for any keys and objects. *)
THEOREM TypeCorrect == Spec => []TypeOK
  <1>1. TypeOK /\ [Next]_vars => TypeOK'
    BY TypesPreserved DEF ConnectedStep
  <1> QED
    BY InitInv, <1>1, PTL DEF Spec

(* The cache is stale at worst: the last event on its way carries what the  *)
(* API server stores, after any number of broken watches and re-lists       *)
(* (DeltaFIFO.Replace, delta_fifo.go 575-656).                              *)
THEOREM CacheNeverWrongForGood == Spec => []CacheCatchesUp
  <1>1. TypeOK /\ CacheCatchesUp /\ [Next]_vars => CacheCatchesUp'
    BY CachePreserved DEF ConnectedStep
  <1> QED
    BY InitInv, TypeCorrect, <1>1, PTL DEF Spec

(* The notifications of a key follow the cache without a gap, whatever is   *)
(* re-listed (processDeltas, tools/cache/controller.go 412-451).            *)
THEOREM NotificationsFollowCache == Spec => []NotesFollowCache
  BY InitInv, TypeCorrect, NotesPreserved, PTL DEF Spec
-----------------------------------------------------------------------------
(* An informer in a process that ends and starts: while the process is down *)
(* nothing is on its way, and the first list fills the cache.               *)
Agrees(up) ==
  /\ TypeOK
  /\ up => CacheCatchesUp
  /\ ~up => watch = Empty

(* One step of the cluster, from a process that is up (or not) to one that  *)
(* is up (or not) afterwards.                                               *)
ProcessStep(up, upAfter) ==
  \/ up = upAfter /\ UNCHANGED vars
  \/ up = upAfter /\ \E k \in Keys : \E obj \in MaybeObject : Write(k, obj, up)
  \/ up /\ upAfter /\ Disconnect
  \/ up /\ upAfter /\ \E k \in Keys : Receive(k) \/ Take(k)
  \/ up /\ ~upAfter /\ Stop
  \/ ~up /\ upAfter /\ Start

LEMMA StartFills ==
  ASSUME Agrees(FALSE), Start
  PROVE  TypeOK' /\ CacheCatchesUp'
  <1>1. TypeOK /\ watch = Empty /\ watch' = watch /\ store' = store /\ cache' = store
    BY DEF Agrees, Start
  <1>2. ASSUME NEW k \in Keys PROVE notes'[k] \in Seq(Notes)
    <2>1. CASE store[k] = Absent
      BY <2>1, EmptySeq DEF Start
    <2>2. CASE store[k] # Absent
      <3>1. Event(store[k]) \in Events /\ Absent \in MaybeObject
        BY <1>1 DEF Event, Events, TypeOK, MaybeObject
      <3>2. Note(Absent, Event(store[k])) \in Notes
        BY <3>1, NoteIsNote
      <3> QED
        BY <2>2, <3>2, EmptySeq, AppendProperties DEF Start, Notify
    <2> QED
      BY <2>1, <2>2
  <1>3. notes' \in [Keys -> Seq(Notes)]
    BY <1>2 DEF Start
  <1>4. Len(<< >>) = 0
    BY EmptySeq
  <1> QED
    BY <1>1, <1>3, <1>4 DEF TypeOK, CacheCatchesUp, Empty

LEMMA AgreesPreserved ==
  ASSUME NEW up \in BOOLEAN, NEW upAfter \in BOOLEAN, Agrees(up), ProcessStep(up, upAfter)
  PROVE  /\ TypeOK'
         /\ upAfter => CacheCatchesUp'
         /\ ~upAfter => watch' = Empty
  <1> USE DEF Agrees
  <1>1. CASE up /\ upAfter
    <2>1. ConnectedStep
      BY <1>1 DEF ProcessStep, ConnectedStep, Next
    <2> QED
      BY <1>1, <2>1, TypesPreserved, CachePreserved
  <1>2. CASE up /\ ~upAfter
    <2>1. Stop
      BY <1>2 DEF ProcessStep
    <2>2. << >> \in Seq(Events) /\ << >> \in Seq(Notes) /\ Absent \in MaybeObject
      BY EmptySeq DEF MaybeObject
    <2> QED
      BY <1>2, <2>1, <2>2 DEF Stop, TypeOK, Empty
  <1>3. CASE ~up /\ upAfter
    BY <1>3, StartFills DEF ProcessStep
  <1>4. CASE ~up /\ ~upAfter
    <2>1. CASE UNCHANGED vars
      BY <1>4, <2>1 DEF vars, TypeOK
    <2>2. ASSUME NEW k \in Keys, NEW obj \in MaybeObject, Write(k, obj, up)
          PROVE  TypeOK' /\ watch' = watch
      BY <1>4, <2>2 DEF Write, TypeOK
    <2> QED
      BY <1>4, <2>1, <2>2 DEF ProcessStep
  <1> QED
    BY <1>1, <1>2, <1>3, <1>4
=============================================================================
