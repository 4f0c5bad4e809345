--------------------------- MODULE MCFederatedSend ---------------------------
(* One caller's instruction, known by its own id and by the handles of two   *)
(* incarnations of its author.                                               *)
EXTENDS FederatedSend

CONSTANTS s, h1, h2

TheScalar == [h \in Handles |-> s]
TheLife == [h \in Handles |-> IF h = h1 THEN 1 ELSE 2]
===============================================================================
