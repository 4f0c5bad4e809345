-------------------------- MODULE MCSessionRegistry --------------------------
(* Small instances of SessionRegistry for TLC: two sessions of one scope and *)
(* one of another scope that has the stable id of the first.                 *)
EXTENDS SessionRegistry, TLC

CONSTANTS a, b, far

TheKeyId == [k \in Keys |-> IF k = b THEN "b" ELSE "a"]
TheKeyScope == [k \in Keys |-> IF k = far THEN "there" ELSE "here"]

Profile(name, alias, super) ==
    [name |-> name, alias |-> alias, cwd |-> "dir", super |-> super]

(* Clients that choose one name, and an unnamed one.                         *)
ClashingProfiles ==
    {Profile("worker", FALSE, None), Profile(None, FALSE, None)}
=============================================================================
