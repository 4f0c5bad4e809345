----------------------------- MODULE MCStateStore -----------------------------
(* Small instances of StateStore for TLC: two payloads, so that a state that  *)
(* comes back under a revision it did not have is seen.                       *)
EXTENDS StateStore, TLC

PayloadSymmetry == Permutations(Payloads)
===============================================================================
