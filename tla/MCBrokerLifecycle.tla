-------------------------- MODULE MCBrokerLifecycle --------------------------
(* Small instances of BrokerLifecycle for TLC. *)
EXTENDS BrokerLifecycle, TLC

BrokerSymmetry == Permutations(Brokers)
=============================================================================
