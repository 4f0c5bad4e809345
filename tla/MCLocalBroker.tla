---------------------------- MODULE MCLocalBroker ----------------------------
(* Small instances of LocalBroker for TLC.                                   *)
EXTENDS LocalBroker, TLC

CONSTANTS a, b, c, m1, m2, m3

TheKeyId == [k \in Keys |-> CASE k = a -> "a" [] k = b -> "b" [] OTHER -> "c"]
TheKeyScope == [k \in Keys |-> "here"]
NoPrefixes == [token \in Tokens |-> {}]
Profile(name, alias, super) ==
    [name |-> name, alias |-> alias, cwd |-> "dir", super |-> super]

Unnamed == {Profile(None, FALSE, None)}
(* A name that sessions may take over, or a session that comes back as a     *)
(* subagent of c, hidden from the mains.                                     *)
NamedOrSupervised == {Profile("w", FALSE, None), Profile(None, FALSE, <<"c", 1>>)}

Plain(author) ==
    [from |-> author, replyTo |-> None, supersedes |-> None,
     asks |-> FALSE, completes |-> FALSE, broadcast |-> FALSE]
PlainLetters == [m \in Msgs |-> Plain(a)]

(* m1 asks, m2 answers it and m3 replaces the question.                      *)
AskLetters ==
    [m \in Msgs |->
        CASE m = m1 -> [Plain(a) EXCEPT !.asks = TRUE]
          [] m = m2 -> [Plain(b) EXCEPT !.replyTo = m1, !.completes = TRUE]
          [] OTHER  -> [Plain(a) EXCEPT !.asks = TRUE, !.supersedes = m1]]

SocketSymmetry == Permutations(Sockets)
=============================================================================
