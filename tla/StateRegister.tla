---------------------------- MODULE StateRegister ----------------------------
(***************************************************************************)
(* What a namespace's state promises its clients: a register with a        *)
(* revision that changes by compare-and-swap. A commit answered as done    *)
(* was applied and one answered as not done was not; a commit that a crash *)
(* interrupts may have been applied or not. Only a damaged file ever takes *)
(* an answered commit back.                                                *)
(***************************************************************************)
EXTENDS Naturals

CONSTANTS Payloads, None

VARIABLES
    state,            \* [revision, payload]; revision 0 has payload None
    call,             \* None, or the commit that is under way
    answer,           \* the last answer: None, TRUE (committed) or FALSE
    damaged           \* damages to the files so far

vars == <<state, call, answer, damaged>>

Init == /\ state = [revision |-> 0, payload |-> None]
        /\ call = None /\ answer = None /\ damaged = 0

Begin == /\ call = None
         /\ call' \in [expected : Nat, payload : Payloads, applied : {FALSE}]
         /\ answer' = None
         /\ UNCHANGED <<state, damaged>>

Apply == /\ call # None /\ ~call.applied
         /\ call.expected = state.revision
         /\ state' = [revision |-> state.revision + 1, payload |-> call.payload]
         /\ call' = [call EXCEPT !.applied = TRUE]
         /\ UNCHANGED <<answer, damaged>>

Answer == /\ call # None
          /\ answer' = call.applied
          /\ call' = None
          /\ UNCHANGED state
          /\ damaged' \in {damaged, damaged + 1}

(* The broker dies: the state stays, an unanswered commit may be undone    *)
(* with it, and a damaged file may cost one revision more.                 *)
Undoable == IF call # None /\ call.applied THEN {0, 1} ELSE {0}
Costs == IF damaged > 0 THEN {0, 1} ELSE {0}
Crash == /\ call' = None
         /\ answer' = None
         /\ damaged' \in {damaged, damaged + 1}
         /\ \E u \in Undoable, c \in Costs :
               /\ state'.revision + u + c = state.revision
               /\ u + c = 0 => UNCHANGED state

(* Somebody damages the file, which the broker may notice at once.         *)
Damage == /\ damaged' = damaged + 1
          /\ state'.revision \in {state.revision, state.revision - 1}
          /\ state'.revision = state.revision => UNCHANGED state
          /\ UNCHANGED <<call, answer>>

Next == Begin \/ Apply \/ Answer \/ Crash \/ Damage

Spec == Init /\ [][Next]_vars
==============================================================================
