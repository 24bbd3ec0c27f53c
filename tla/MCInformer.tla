------------------------------ MODULE MCInformer ------------------------------
(* Bounds for TLC: how many events and notifications of a key may pile up. *)
EXTENDS Informer

CONSTANT MaxPending

Bounded == \A k \in Keys : Len(watch[k]) <= MaxPending /\ Len(notes[k]) <= MaxPending
=============================================================================
