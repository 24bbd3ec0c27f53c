------------------------------- MODULE Informer -------------------------------
(***************************************************************************)
(* One shared informer of client-go: the objects of one kind at the API     *)
(* server, the watch events on their way to the informer, the informer's    *)
(* cache (what a lister reads) and the notifications its listener goroutine *)
(* has not yet passed to the registered handlers.                           *)
(*                                                                         *)
(* The reflector and the DeltaFIFO are one channel per key.  A watch that   *)
(* breaks loses the events that have not arrived, and the list that follows *)
(* replaces them (Disconnect); what had arrived is in the cache by then,    *)
(* the reflector backs off for most of a second before it lists again.      *)
(***************************************************************************)
EXTENDS Naturals, Sequences

CONSTANTS Keys,
          Absent,           \* no object under a key
          Objects,          \* what can be stored under a key
          Handlers          \* the non-nil fields of ResourceEventHandlerFuncs

ASSUME AbsentIsNoObject == Absent \notin Objects

HandlerNames == {"AddFunc", "UpdateFunc", "DeleteFunc"}

VARIABLES store,            \* the objects at the API server
          watch,            \* key -> events not yet in the cache
          cache,            \* the informer's indexer
          notes             \* key -> notifications not yet handled

vars == <<store, watch, cache, notes>>

MaybeObject == Objects \cup {Absent}

(* A deletion found by a re-list is a DeletedFinalStateUnknown (tombstone). *)
Events == [obj : MaybeObject, tombstone : BOOLEAN]
Notes  == [handler : HandlerNames, old : MaybeObject, new : MaybeObject, tombstone : BOOLEAN]

TypeOK ==
  /\ store \in [Keys -> MaybeObject]
  /\ watch \in [Keys -> Seq(Events)]
  /\ cache \in [Keys -> MaybeObject]
  /\ notes \in [Keys -> Seq(Notes)]

Event(obj) == [obj |-> obj, tombstone |-> FALSE]

(* Which handler a change of the cache from old to new calls: processDeltas. *)
HandlerOf(old, new) ==
  IF new = Absent THEN "DeleteFunc" ELSE IF old = Absent THEN "AddFunc" ELSE "UpdateFunc"

Note(old, e) == [handler |-> HandlerOf(old, e.obj), old |-> old, new |-> e.obj,
                 tombstone |-> e.tombstone]

(* Kinds of notification without a handler are dropped here already. *)
Notify(pending, n) == IF n.handler \in Handlers THEN Append(pending, n) ELSE pending

Empty == [k \in Keys |-> << >>]

Init ==
  /\ store = [k \in Keys |-> Absent]
  /\ cache = [k \in Keys |-> Absent]
  /\ watch = Empty
  /\ notes = Empty

-----------------------------------------------------------------------------
(* A write at the API server; a connected informer will hear of it. *)
Write(k, obj, connected) ==
  /\ store' = [store EXCEPT ![k] = obj]
  /\ watch' = IF connected THEN [watch EXCEPT ![k] = Append(@, Event(obj))] ELSE watch
  /\ UNCHANGED <<cache, notes>>

(* Slips of the code below, for the mutant runs. *)
ReceiveWithoutNote(k) ==
  /\ watch[k] # << >>
  /\ cache' = [cache EXCEPT ![k] = Head(watch[k]).obj]
  /\ watch' = [watch EXCEPT ![k] = Tail(@)]
  /\ notes' = IF cache[k] = Absent
              THEN [notes EXCEPT ![k] = Notify(@, Note(cache[k], Head(watch[k])))] ELSE notes
  /\ UNCHANGED store

DisconnectWithoutDeletions ==
  /\ watch' = [k \in Keys |-> IF store[k] = Absent THEN << >> ELSE <<Event(store[k])>>]
  /\ UNCHANGED <<store, cache, notes>>

-----------------------------------------------------------------------------
Receive(k) ==
  /\ watch[k] # << >>
  /\ cache' = [cache EXCEPT ![k] = Head(watch[k]).obj]
  /\ watch' = [watch EXCEPT ![k] = Tail(@)]
  /\ notes' = [notes EXCEPT ![k] = Notify(@, Note(cache[k], Head(watch[k])))]
  /\ UNCHANGED store

(* DeltaFIFO.Replace: every listed object again, and a tombstone for every  *)
(* key of the cache that is not listed.                                     *)
Disconnect ==
  /\ watch' = [k \in Keys |->
       IF store[k] # Absent THEN <<Event(store[k])>>
       ELSE IF cache[k] # Absent THEN <<[obj |-> Absent, tombstone |-> TRUE]>>
       ELSE << >>]
  /\ UNCHANGED <<store, cache, notes>>

(* The listener goroutine passes the oldest notification to a handler. *)
Take(k) ==
  /\ notes[k] # << >>
  /\ notes' = [notes EXCEPT ![k] = Tail(@)]
  /\ UNCHANGED <<store, watch, cache>>

(* The process ends; the API server keeps its objects. *)
Stop ==
  /\ watch' = Empty
  /\ cache' = [k \in Keys |-> Absent]
  /\ notes' = Empty
  /\ UNCHANGED store

(* A new process: WaitForCacheSync returns when the first list is cached,   *)
(* with one AddFunc notification for each listed object.                    *)
Start ==
  /\ cache' = store
  /\ notes' = [k \in Keys |->
       IF store[k] = Absent THEN << >> ELSE Notify(<< >>, Note(Absent, Event(store[k])))]
  /\ UNCHANGED <<store, watch>>

-----------------------------------------------------------------------------
Next ==
  \/ \E k \in Keys : \/ \E obj \in MaybeObject : obj # store[k] /\ Write(k, obj, TRUE)
                     \/ Receive(k)
                     \/ Take(k)
  \/ Disconnect

Spec == Init /\ [][Next]_vars

(* The last event on the way to the cache carries the object the API server *)
(* stores, and when nothing is on the way the cache agrees with the server: *)
(* a lister is stale but never wrong for good, even after lost events.      *)
CacheCatchesUp ==
  \A k \in Keys : LET n == Len(watch[k]) IN
    IF n = 0 THEN cache[k] = store[k] ELSE watch[k][n].obj = store[k]

(* The notifications of a key tell the history of the cache without a gap:  *)
(* each starts at the object the one before it ended with, and the last     *)
(* ends with what the cache holds (for an informer with all handlers).      *)
NotesFollowCache ==
  Handlers = HandlerNames =>
    \A k \in Keys : LET n == Len(notes[k]) IN
      /\ \A m \in 1..(n-1) : notes[k][m].new = notes[k][m+1].old
      /\ n > 0 => notes[k][n].new = cache[k]
=============================================================================
