------------------------------ MODULE MCPeerLinks ------------------------------
(* Small instances of PeerLinks for TLC: both brokers dial for one scope, and *)
(* a third link carries that scope at one end and another one at the other.  *)
EXTENDS PeerLinks, TLC

CONSTANTS l1, h1, h2

TheDialer == [a \in Attempts |-> IF a = l1 THEN Low ELSE High]
TheScopes == [b \in Brokers |-> [a \in Attempts |->
    CASE a = h2 /\ b = High -> {"y"} [] OTHER -> {"x"}]]
================================================================================
