---------------------------- MODULE RuntimeService ----------------------------
(***************************************************************************)
(* What a computer's Parley runtime promises its clients, seen from the    *)
(* outside: at any moment at most one broker process answers on the IPC    *)
(* endpoint, and a broker that has stopped never answers again.            *)
(* BrokerLifecycle implements it (RuntimeServiceRefined there).            *)
(***************************************************************************)
CONSTANTS
    Brokers,   \* broker processes; each one starts at most once
    None       \* no broker

VARIABLES
    owner,     \* the broker that answers on the endpoint, or None
    retired    \* brokers that will never answer (again)

vars == <<owner, retired>>

Init == owner = None /\ retired = {}

(* A broker begins to answer: nobody else does, and it is not a ghost.     *)
Begin(b) == /\ owner = None
            /\ b \notin retired
            /\ owner' = b
            /\ UNCHANGED retired

(* The answering broker stops: graceful shutdown or process death.         *)
End(b) == /\ owner = b
          /\ owner' = None
          /\ retired' = retired \cup {b}

(* A broker gives up before it ever answered.                              *)
Abandon(b) == /\ owner # b
              /\ b \notin retired
              /\ retired' = retired \cup {b}
              /\ UNCHANGED owner

Next == \E b \in Brokers : Begin(b) \/ End(b) \/ Abandon(b)

Spec == Init /\ [][Next]_vars
=============================================================================
