--------------------------- MODULE MCAppController ---------------------------
(* The users' one App is named n1.  Its Deployment goes by another name, or *)
(* both children go by its own.                                             *)
EXTENDS AppController

CONSTANTS n1, n2

Template(deployment, service) ==
  [kind \in Kinds |-> IF kind = "deployment" THEN deployment ELSE service]

MCSpecs == {Template(n2, Absent), Template(n1, n1)}
=============================================================================
