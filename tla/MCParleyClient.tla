---------------------------- MODULE MCParleyClient ----------------------------
(* Two sessions, between which the name in use moves.                      *)
EXTENDS ParleyClient

CONSTANTS t1, t2
MCTargets == {t1, t2}
MCKinds == {"name", "identity", "reply", "snapshot"}
MCRetries == {<<"name", "snapshot">>, <<"snapshot", "name">>,
              <<"identity", "identity">>}
=============================================================================
