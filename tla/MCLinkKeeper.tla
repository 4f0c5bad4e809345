------------------------------ MODULE MCLinkKeeper ------------------------------
(* Two ways to write one host name: they lead to one computer, to two, or  *)
(* the second leads back here. There Parley has not run until it is added. *)
EXTENDS LinkKeeper

CONSTANTS box, alias, other
MCReach == {[d \in Dests |-> IF d = alias THEN c ELSE box] : c \in {box, other, Here}}
MCNameOf == [d \in Dests |-> box]
=================================================================================
