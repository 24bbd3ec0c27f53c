----------------------------- MODULE MCAddIngress -----------------------------
(* Workers are interchangeable: runs that check safety alone may use it.    *)
EXTENDS AddIngress, TLC

Symmetry == Permutations(Workers)
=============================================================================
