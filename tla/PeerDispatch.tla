----------------------------- MODULE PeerDispatch -----------------------------
(***************************************************************************)
(* What a routed send promises the author of an operation. An operation is *)
(* dispatched again only after every earlier attempt is known to have      *)
(* failed; "delivered" is only said of what was written to the receiver,   *)
(* and what was called failed is not and never will be written. Any other  *)
(* attempt ends in doubt and may be written late.                          *)
(***************************************************************************)
CONSTANTS Sends, Operations, None

VARIABLES
    operation,        \* [Sends -> Operations \cup {None}]: what an attempt is for
    verdict,          \* [Sends -> Verdicts]
    written           \* the attempts whose message the receiver was handed

vars == <<operation, verdict, written>>

Init ==
    /\ operation = [n \in Sends |-> None]
    /\ verdict = [n \in Sends |-> "none"]
    /\ written = {}

Dispatch(n, o) ==
    /\ operation[n] = None
    /\ \A k \in Sends : operation[k] = o => verdict[k] = "failed"
    /\ operation' = [operation EXCEPT ![n] = o]
    /\ verdict' = [verdict EXCEPT ![n] = "open"]
    /\ UNCHANGED written

Write(n) ==
    /\ verdict[n] \in {"open", "unknown"}
    /\ n \notin written
    /\ written' = written \cup {n}
    /\ UNCHANGED <<operation, verdict>>

Deliver(n) ==
    /\ verdict[n] = "open" /\ n \in written
    /\ verdict' = [verdict EXCEPT ![n] = "delivered"]
    /\ UNCHANGED <<operation, written>>

(* Attempts that the receiver refused have failed; a deadline, a lost link  *)
(* or a crash leaves others in doubt for good.                             *)
Close(F, D) ==
    /\ \A n \in F : verdict[n] = "open" /\ n \notin written
    /\ \A n \in D : verdict[n] = "open"
    /\ verdict' = [n \in Sends |-> IF n \in F THEN "failed"
                                   ELSE IF n \in D THEN "unknown" ELSE verdict[n]]
    /\ UNCHANGED <<operation, written>>

Next ==
    \/ \E n \in Sends, o \in Operations : Dispatch(n, o)
    \/ \E n \in Sends : Write(n) \/ Deliver(n)
    \/ \E F, D \in SUBSET Sends : Close(F, D)

Spec == Init /\ [][Next]_vars
===============================================================================
