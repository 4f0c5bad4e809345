---------------------------- MODULE MCExtensionBus ----------------------------
(* Small instances of ExtensionBus for TLC: two sessions of one scope that   *)
(* contend for a namespace.                                                  *)
EXTENDS ExtensionBus, TLC

CONSTANTS a, b

TheKeyId == [k \in Keys |-> IF k = b THEN "b" ELSE "a"]
TheKeyScope == [k \in Keys |-> "here"]
Unnamed == {[name |-> None, alias |-> FALSE, cwd |-> "dir", super |-> None]}

SocketSymmetry == Permutations(Sockets)
===============================================================================
