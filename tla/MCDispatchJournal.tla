-------------------------- MODULE MCDispatchJournal --------------------------
(* A conversation handle with its scalar, and two plain ids.                 *)
EXTENDS DispatchJournal

CONSTANTS s, h

TheScalar == [g \in Handles |-> s]
===============================================================================
