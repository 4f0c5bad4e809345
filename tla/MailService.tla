----------------------------- MODULE MailService -----------------------------
(***************************************************************************)
(* What the broker promises an author about one message while it remembers *)
(* the message: it is kept for a later session or settled, and once it is  *)
(* handed over or refused for good that verdict stands, whatever retries,  *)
(* withdrawals, reconnects and evictions follow. Only where the record is  *)
(* gone may a refused message be tried again.                              *)
(***************************************************************************)
CONSTANT Msgs

VARIABLES
    fate,             \* per message: open, queued, handed or refused
    remembered        \* the messages of which a record is kept

vars == <<fate, remembered>>

Init == fate = [m \in Msgs |-> "open"] /\ remembered = {}

(* Also without a record, where a store fails after the mail was kept.     *)
Queue(m) ==
    /\ fate[m] = "open" /\ fate' = [fate EXCEPT ![m] = "queued"]
    /\ remembered' \in {remembered, remembered \cup {m}}

(* A refusal is as good as its record.                                     *)
Refusal(m) == IF m \in remembered' THEN "refused" ELSE "open"

(* One registration may hand over, and one new mail refuse, several others. *)
Settle ==
    /\ remembered' \in SUBSET Msgs /\ remembered \subseteq remembered'
    /\ fate' \in [Msgs -> {"open", "queued", "handed", "refused"}]
    /\ \A m \in Msgs :
          \/ fate'[m] = fate[m]
          \/ fate[m] \in {"open", "queued"} /\ fate'[m] \in {"handed", Refusal(m)}

(* At the cap the mailbox refuses its oldest mail for the new one.         *)
Replace(m, old) ==
    /\ fate[m] = "open" /\ fate[old] = "queued" /\ m # old
    /\ remembered' \in {remembered, remembered \cup {m}}
    /\ fate' = [fate EXCEPT ![m] = "queued", ![old] = Refusal(old)]

Forget(m) ==
    /\ m \in remembered /\ remembered' = remembered \ {m}
    /\ fate' = [fate EXCEPT ![m] = IF @ = "refused" THEN "open" ELSE @]

Next == Settle \/ \E m, old \in Msgs : Queue(m) \/ Replace(m, old) \/ Forget(m)

Spec == Init /\ [][Next]_vars
=============================================================================
