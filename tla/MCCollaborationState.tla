------------------------- MODULE MCCollaborationState -------------------------
(* Two compactions, two contacts.                                            *)
EXTENDS CollaborationState
===============================================================================
