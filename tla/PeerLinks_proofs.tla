---------------------------- MODULE PeerLinks_proofs ----------------------------
(***************************************************************************)
(* Proofs about PeerLinks, for any number of attempts, scopes and faults:  *)
(* type correctness, one link per scope, that no end is left with a link   *)
(* that the other end does not have, that settled links are defended, and  *)
(* that a simultaneous attach leaves a link.                               *)
(***************************************************************************)
EXTENDS PeerLinks, TLAPS

LEMMA TwoBrokers ==
    /\ \A b \in Brokers : Other(b) \in Brokers /\ Other(b) # b /\ Other(Other(b)) = b
    /\ \A a \in Attempts : Dialer[a] \in Brokers /\ Acceptor(a) \in Brokers
    /\ \A a \in Attempts, b \in Brokers : b # Dialer[a] => b = Acceptor(a)
    /\ \A a \in Attempts : Acceptor(a) # Dialer[a]
BY PeerAssumption DEF Brokers, Other, Acceptor, PeerAssumption

(* How far the handshake of an attempt is, seen from both ends.            *)
HandshakeOf(a) ==
    /\ stage[a] = "new" => \A b \in Brokers : sock[b][a] = "none"
    /\ \A b \in Brokers : a \in links[b] =>
          /\ sock[b][a] \in {"open", "destroyed"}
          /\ stage[a] = "over" \/ (stage[a] = "accepted" /\ b = Acceptor(a))
    /\ stage[a] = "accepted" /\ sock[Acceptor(a)][a] = "open" => a \in links[Acceptor(a)]
    /\ stage[a] = "refused" => sock[Acceptor(a)][a] # "open"
    /\ stage[a] = "over" /\ (\A b \in Brokers : sock[b][a] = "open")
          => \A b \in Brokers : a \in links[b]

HandshakeInv == \A a \in Attempts : HandshakeOf(a)

PeerInv == PeerTypeOK /\ OneLinkPerScope /\ HandshakeInv

LEMMA SameHandshake ==
    ASSUME NEW x \in Attempts, HandshakeOf(x), stage'[x] = stage[x],
           \A c \in Brokers : sock'[c][x] = sock[c][x] /\ (x \in links'[c] <=> x \in links[c])
    PROVE  HandshakeOf(x)'
  <1>1. Acceptor(x) \in Brokers BY TwoBrokers
  <1> QED BY <1>1 DEF HandshakeOf

-----------------------------------------------------------------------------
(* What the two operators do that most steps are made of.                  *)

LEMMA RelinkShape ==
    ASSUME PeerTypeOK, NEW b \in Brokers, NEW gone \in SUBSET Attempts,
           NEW new \in SUBSET Attempts,
           Relink(b, gone, new)
    PROVE  /\ links' \in [Brokers -> SUBSET Attempts]
           /\ settled' \in [Brokers -> SUBSET Attempts]
           /\ probe' \in [Brokers -> [Attempts -> {"none", "asked", "answered"}]]
           /\ links'[b] = (links[b] \ gone) \cup new
           /\ \A c \in Brokers : c # b => links'[c] = links[c]
           /\ \A c \in Brokers :
                 settled'[c] \subseteq links'[c]
                 /\ {a \in Attempts : probe'[c][a] # "none"} \subseteq settled'[c]
  <1>1. /\ links' \in [Brokers -> SUBSET Attempts]
        /\ links'[b] = (links[b] \ gone) \cup new
        /\ \A c \in Brokers : c # b => links'[c] = links[c]
    BY DEF Relink, PeerTypeOK
  <1>2. /\ settled' \in [Brokers -> SUBSET Attempts]
        /\ settled'[b] = settled[b] \ gone
        /\ \A c \in Brokers : c # b => settled'[c] = settled[c]
    BY DEF Relink, PeerTypeOK
  <1>3. /\ probe' \in [Brokers -> [Attempts -> {"none", "asked", "answered"}]]
        /\ \A a \in Attempts : probe'[b][a] = IF a \in gone THEN "none" ELSE probe[b][a]
        /\ \A c \in Brokers : c # b => probe'[c] = probe[c]
    BY DEF Relink, PeerTypeOK
  <1> QED BY <1>1, <1>2, <1>3 DEF PeerTypeOK

LEMMA DestroyedShape ==
    ASSUME PeerTypeOK, NEW b \in Brokers, NEW gone \in SUBSET Attempts
    PROVE  /\ Destroyed(b, gone) \in
                 [Brokers -> [Attempts -> {"none", "open", "destroyed", "closed"}]]
           /\ \A a \in Attempts : Destroyed(b, gone)[b][a] =
                 IF a \in gone /\ sock[b][a] = "open" THEN "destroyed" ELSE sock[b][a]
           /\ \A c \in Brokers : c # b => Destroyed(b, gone)[c] = sock[c]
BY DEF Destroyed, PeerTypeOK

LEMMA RefuseShape ==
    ASSUME PeerTypeOK, NEW b \in Brokers, NEW a \in Attempts, Refuse(b, a)
    PROVE  /\ probe' \in [Brokers -> [Attempts -> {"none", "asked", "answered"}]]
           /\ \A c \in Brokers : {x \in Attempts : probe'[c][x] # "none"} \subseteq settled[c]
           /\ faults' \in 0..MaxFaults /\ calm' \in BOOLEAN
  <1>1. CASE Conflicts(b, a) = {} /\ Fault /\ UNCHANGED probe
    <2>1. faults' \in 0..MaxFaults
      BY <1>1, PeerAssumption DEF PeerTypeOK, Fault, PeerAssumption
    <2>2. calm' \in BOOLEAN BY <1>1 DEF Fault
    <2> QED BY <1>1, <2>1, <2>2 DEF PeerTypeOK
  <1>2. CASE UNCHANGED <<probe, faults, calm>>
    BY <1>2 DEF PeerTypeOK
  <1>3. ASSUME NEW x \in Attempts, x \in settled[b],
               probe' = [probe EXCEPT ![b][x] = "asked"], UNCHANGED <<faults, calm>>
        PROVE  /\ probe' \in [Brokers -> [Attempts -> {"none", "asked", "answered"}]]
               /\ \A c \in Brokers : {y \in Attempts : probe'[c][y] # "none"} \subseteq settled[c]
               /\ faults' \in 0..MaxFaults /\ calm' \in BOOLEAN
    BY <1>3 DEF PeerTypeOK
  <1>4. Blockers(b, a) \subseteq Attempts
    BY DEF Blockers, Conflicts, PeerTypeOK
  <1>5. CASE UNCHANGED <<faults, calm>> /\ \E x \in Blockers(b, a) :
             IF x \in settled[b] /\ probe[b][x] = "none"
             THEN probe' = [probe EXCEPT ![b][x] = "asked"]
             ELSE UNCHANGED probe
    <2>1. PICK x \in Blockers(b, a) :
             IF x \in settled[b] /\ probe[b][x] = "none"
             THEN probe' = [probe EXCEPT ![b][x] = "asked"]
             ELSE UNCHANGED probe
      BY <1>5
    <2>2. x \in Attempts BY <1>4
    <2>3. CASE x \in settled[b] /\ probe[b][x] = "none" BY <1>3, <1>5, <2>1, <2>2, <2>3
    <2>4. CASE ~(x \in settled[b] /\ probe[b][x] = "none")
      <3>1. UNCHANGED <<probe, faults, calm>> BY <1>5, <2>1, <2>4
      <3> QED BY <3>1, <1>2
    <2> QED BY <2>3, <2>4
  <1> QED BY <1>1, <1>5 DEF Refuse

(* A link takes its scopes over: no other link has one of them afterwards. *)
LEMMA RegisterShape ==
    ASSUME PeerInv, NEW b \in Brokers, NEW a \in Attempts,
           a \notin links[b], sock[b][a] = "open", Register(b, a)
    PROVE  /\ links' \in [Brokers -> SUBSET Attempts]
           /\ settled' \in [Brokers -> SUBSET Attempts]
           /\ probe' \in [Brokers -> [Attempts -> {"none", "asked", "answered"}]]
           /\ sock' \in [Brokers -> [Attempts -> {"none", "open", "destroyed", "closed"}]]
           /\ \A c \in Brokers :
                 settled'[c] \subseteq links'[c]
                 /\ {x \in Attempts : probe'[c][x] # "none"} \subseteq settled'[c]
           /\ OneLinkPerScope'
           /\ links'[b] = (links[b] \ Conflicts(b, a)) \cup {a}
           /\ \A c \in Brokers : c # b => links'[c] = links[c] /\ sock'[c] = sock[c]
           /\ \A x \in Attempts : sock'[b][x] =
                 IF x \in Conflicts(b, a) /\ sock[b][x] = "open" THEN "destroyed" ELSE sock[b][x]
           /\ a \notin Conflicts(b, a) /\ Conflicts(b, a) \subseteq links[b]
           /\ faults' = faults /\ calm' = calm
  <1> USE DEF PeerInv
  <1>1. Conflicts(b, a) \in SUBSET Attempts /\ a \notin Conflicts(b, a)
        /\ Conflicts(b, a) \subseteq links[b]
    BY DEF Conflicts, PeerTypeOK
  <1>2. Relink(b, Conflicts(b, a), {a}) /\ sock' = Destroyed(b, Conflicts(b, a))
        /\ faults' = faults /\ calm' = calm
    BY DEF Register
  <1>5. PeerTypeOK /\ {a} \in SUBSET Attempts
    OBVIOUS
  <1>3. links'[b] = (links[b] \ Conflicts(b, a)) \cup {a}
        /\ \A c \in Brokers : c # b => links'[c] = links[c]
    BY <1>2 DEF Relink, PeerTypeOK
  <1>4. OneLinkPerScope'
    <2>1. \A x \in links'[b] : x # a => Carries[b][x] \cap Carries[b][a] = {}
      BY <1>3 DEF Conflicts
    <2> QED BY <2>1, <1>3 DEF OneLinkPerScope
  <1>6. /\ links' \in [Brokers -> SUBSET Attempts]
        /\ settled' \in [Brokers -> SUBSET Attempts]
        /\ probe' \in [Brokers -> [Attempts -> {"none", "asked", "answered"}]]
        /\ \A c \in Brokers :
              settled'[c] \subseteq links'[c]
              /\ {x \in Attempts : probe'[c][x] # "none"} \subseteq settled'[c]
    BY <1>1, <1>2, <1>5, RelinkShape
  <1>7. /\ sock' \in [Brokers -> [Attempts -> {"none", "open", "destroyed", "closed"}]]
        /\ \A x \in Attempts : sock'[b][x] =
              IF x \in Conflicts(b, a) /\ sock[b][x] = "open" THEN "destroyed" ELSE sock[b][x]
        /\ \A c \in Brokers : c # b => sock'[c] = sock[c]
    BY <1>1, <1>2, <1>5, DestroyedShape
  <1> QED BY <1>1, <1>2, <1>3, <1>4, <1>6, <1>7

-----------------------------------------------------------------------------
(* Each step keeps the invariant.                                          *)

LEMMA InitInv == PeerInit => PeerInv
BY PeerAssumption DEF PeerInit, PeerInv, PeerTypeOK, OneLinkPerScope, HandshakeInv, HandshakeOf, PeerAssumption

LEMMA DialInv ==
    ASSUME PeerInv, NEW a \in Attempts, Dial(a)
    PROVE  PeerInv'
  <1> DEFINE b == Dialer[a]
  <1> b \in Brokers BY TwoBrokers
  <1> USE DEF PeerInv
  <1>1. stage[a] = "new" /\ \A c \in Brokers : sock[c][a] = "none" /\ a \notin links[c]
    BY DEF Dial, HandshakeInv, HandshakeOf
  <1>2. CASE /\ stage' = [stage EXCEPT ![a] = "hello"]
             /\ sock' = [c \in Brokers |-> [sock[c] EXCEPT ![a] = "open"]]
             /\ UNCHANGED <<probe, links, settled, cut, faults, calm>>
    <2>1. PeerTypeOK' /\ OneLinkPerScope' BY <1>2 DEF PeerTypeOK, OneLinkPerScope
    <2>2. /\ \A x \in Attempts : stage'[x] = IF x = a THEN "hello" ELSE stage[x]
          /\ \A c \in Brokers, x \in Attempts : x # a => sock'[c][x] = sock[c][x]
      BY <1>2 DEF PeerTypeOK
    <2>3. \A x \in Attempts : Acceptor(x) \in Brokers BY TwoBrokers
    <2>4. HandshakeInv' BY <1>1, <1>2, <2>2, <2>3 DEF HandshakeInv, HandshakeOf
    <2> QED BY <2>1, <2>4
  <1>3. CASE stage' = [stage EXCEPT ![a] = "over"] /\ Refuse(b, a)
             /\ UNCHANGED <<sock, links, settled, cut>>
    <2>4. /\ probe' \in [Brokers -> [Attempts -> {"none", "asked", "answered"}]]
          /\ \A c \in Brokers : {x \in Attempts : probe'[c][x] # "none"} \subseteq settled[c]
          /\ faults' \in 0..MaxFaults /\ calm' \in BOOLEAN
      BY <1>3, RefuseShape
    <2>1. PeerTypeOK' BY <1>3, <2>4 DEF PeerTypeOK
    <2>2. OneLinkPerScope' BY <1>3 DEF OneLinkPerScope
    <2>3. HandshakeInv' BY <1>1, <1>3 DEF HandshakeInv, HandshakeOf, PeerTypeOK, Brokers
    <2> QED BY <2>1, <2>2, <2>3
  <1> QED BY <1>2, <1>3 DEF Dial

LEMMA RegisterInv ==
    ASSUME PeerInv, NEW b \in Brokers, NEW a \in Attempts, NEW next,
           a \notin links[b], sock[b][a] = "open", Register(b, a),
           stage' = [stage EXCEPT ![a] = next], cut' = cut,
           \/ b = Acceptor(a) /\ stage[a] = "hello" /\ next = "accepted"
           \/ b = Dialer[a] /\ stage[a] = "accepted" /\ next = "over"
    PROVE  PeerInv'
  <1> USE DEF PeerInv
  <1>1. /\ links' \in [Brokers -> SUBSET Attempts]
        /\ settled' \in [Brokers -> SUBSET Attempts]
        /\ probe' \in [Brokers -> [Attempts -> {"none", "asked", "answered"}]]
        /\ sock' \in [Brokers -> [Attempts -> {"none", "open", "destroyed", "closed"}]]
        /\ \A c \in Brokers :
              settled'[c] \subseteq links'[c]
              /\ {x \in Attempts : probe'[c][x] # "none"} \subseteq settled'[c]
        /\ faults' = faults /\ calm' = calm
    BY RegisterShape
  <1>2. PeerTypeOK' BY <1>1 DEF PeerTypeOK
  <1>3. OneLinkPerScope' BY RegisterShape
  <1>4. /\ links'[b] = (links[b] \ Conflicts(b, a)) \cup {a}
        /\ \A c \in Brokers : c # b => links'[c] = links[c] /\ sock'[c] = sock[c]
        /\ \A x \in Attempts : sock'[b][x] =
              IF x \in Conflicts(b, a) /\ sock[b][x] = "open" THEN "destroyed" ELSE sock[b][x]
        /\ a \notin Conflicts(b, a) /\ Conflicts(b, a) \subseteq links[b]
    BY RegisterShape
  <1>5. HandshakeInv'
    <2> SUFFICES ASSUME NEW x \in Attempts PROVE HandshakeOf(x)'
      BY DEF HandshakeInv
    <2>1. stage'[x] = IF x = a THEN next ELSE stage[x] BY DEF PeerTypeOK
    <2>2. CASE x # a BY <1>4, <2>1, <2>2, TwoBrokers DEF HandshakeInv, HandshakeOf
    <2>3. CASE x = a /\ b = Acceptor(a) /\ stage[a] = "hello" /\ next = "accepted"
      <3>1. \A c \in Brokers : a \notin links[c] BY <2>3 DEF HandshakeInv, HandshakeOf
      <3> QED BY <1>4, <2>1, <2>3, <3>1, TwoBrokers DEF HandshakeOf
    <2>4. CASE x = a /\ b = Dialer[a] /\ stage[a] = "accepted" /\ next = "over"
      <3>1. a \in links[Acceptor(a)] => sock[Acceptor(a)][a] \in {"open", "destroyed"}
        BY TwoBrokers DEF HandshakeInv, HandshakeOf
      <3>2. sock[Acceptor(a)][a] = "open" => a \in links[Acceptor(a)]
        BY <2>4 DEF HandshakeInv, HandshakeOf
      <3>3. links'[Acceptor(a)] = links[Acceptor(a)] /\ sock'[Acceptor(a)] = sock[Acceptor(a)]
        BY <1>4, <2>4, TwoBrokers
      <3>4. a \in links'[b] /\ sock'[b][a] = "open" BY <1>4
      <3>5. \A c \in Brokers : c = b \/ c = Acceptor(a) BY <2>4, TwoBrokers
      <3> QED BY <2>1, <2>4, <3>1, <3>2, <3>3, <3>4, <3>5 DEF HandshakeOf
    <2> QED BY <2>2, <2>3, <2>4
  <1> QED BY <1>2, <1>3, <1>5

(* One end of some connections is lost, with the links that it carried.    *)
LEMMA DepartInv ==
    ASSUME PeerInv, NEW b \in Brokers, NEW gone \in SUBSET Attempts,
           Relink(b, gone, {}), stage' = stage,
           sock' \in [Brokers -> [Attempts -> {"none", "open", "destroyed", "closed"}]],
           \A x \in gone : sock'[b][x] # "open" /\ (sock[b][x] = "none" => sock'[b][x] = "none"),
           \A x \in Attempts \ gone : sock'[b][x] = sock[b][x],
           \A c \in Brokers : c # b => sock'[c] = sock[c],
           cut' \subseteq Attempts, faults' \in 0..MaxFaults, calm' \in BOOLEAN
    PROVE  PeerInv'
  <1> USE DEF PeerInv
  <1>0. PeerTypeOK /\ {} \in SUBSET Attempts OBVIOUS
  <1>1. /\ links' \in [Brokers -> SUBSET Attempts]
        /\ settled' \in [Brokers -> SUBSET Attempts]
        /\ probe' \in [Brokers -> [Attempts -> {"none", "asked", "answered"}]]
        /\ \A c \in Brokers :
              settled'[c] \subseteq links'[c]
              /\ {a \in Attempts : probe'[c][a] # "none"} \subseteq settled'[c]
    BY <1>0, RelinkShape
  <1>2. links'[b] = links[b] \ gone /\ \A c \in Brokers : c # b => links'[c] = links[c]
    BY DEF Relink, PeerTypeOK
  <1>3. PeerTypeOK' BY <1>1 DEF PeerTypeOK
  <1>4. OneLinkPerScope' BY <1>2 DEF OneLinkPerScope
  <1>5. HandshakeInv'
    <2>1. \A x \in Attempts : Acceptor(x) \in Brokers BY TwoBrokers
    <2>2. \A x \in Attempts : x \in links'[b] <=> x \in links[b] /\ x \notin gone BY <1>2
    <2> SUFFICES ASSUME NEW x \in Attempts PROVE HandshakeOf(x)'
      BY DEF HandshakeInv
    <2>3. HandshakeOf(x) /\ Acceptor(x) \in Brokers BY <2>1 DEF HandshakeInv
    <2>4. \A c \in Brokers : x \in links'[c] => x \in links[c] BY <1>2, <2>2
    <2> QED BY <1>2, <2>2, <2>3, <2>4 DEF HandshakeOf
  <1> QED BY <1>3, <1>4, <1>5

(* One end's socket is destroyed under its link, or before there is one.   *)
LEMMA DestroyInv ==
    ASSUME PeerInv, NEW b \in Brokers, NEW a \in Attempts, sock[b][a] = "open",
           sock' = Destroyed(b, {a}), stage' = stage,
           UNCHANGED <<links, settled, probe, cut>>,
           faults' \in 0..MaxFaults, calm' \in BOOLEAN
    PROVE  PeerInv'
  <1> USE DEF PeerInv
  <1>1. /\ sock' \in [Brokers -> [Attempts -> {"none", "open", "destroyed", "closed"}]]
        /\ \A c \in Brokers, x \in Attempts : sock'[c][x] =
              IF c = b /\ x = a THEN "destroyed" ELSE sock[c][x]
    <2>1. {a} \in SUBSET Attempts /\ PeerTypeOK OBVIOUS
    <2>2. /\ sock' \in [Brokers -> [Attempts -> {"none", "open", "destroyed", "closed"}]]
          /\ \A x \in Attempts : sock'[b][x] =
                IF x \in {a} /\ sock[b][x] = "open" THEN "destroyed" ELSE sock[b][x]
          /\ \A c \in Brokers : c # b => sock'[c] = sock[c]
      BY <2>1, DestroyedShape
    <2> QED BY <2>2
  <1>2. PeerTypeOK' BY <1>1 DEF PeerTypeOK
  <1>3. OneLinkPerScope' BY DEF OneLinkPerScope
  <1>4. HandshakeInv'
    <2>1. \A x \in Attempts : Acceptor(x) \in Brokers BY TwoBrokers
    <2> SUFFICES ASSUME NEW x \in Attempts PROVE HandshakeOf(x)'
      BY DEF HandshakeInv
    <2>2. links' = links /\ HandshakeOf(x) BY DEF HandshakeInv
    <2>3. CASE x # a
      <3>1. \A c \in Brokers : sock'[c][x] = sock[c][x] BY <1>1, <2>3
      <3> QED BY <2>1, <2>2, <3>1 DEF HandshakeOf
    <2>4. CASE x = a
      <3>1. sock'[b][a] = "destroyed" /\ \A c \in Brokers : c # b => sock'[c][a] = sock[c][a]
        BY <1>1
      <3> QED BY <2>1, <2>2, <2>4, <3>1 DEF HandshakeOf
    <2> QED BY <2>3, <2>4
  <1> QED BY <1>2, <1>3, <1>4

(* The end of an attempt that its own end refuses.                         *)
LEMMA HangUpInv ==
    ASSUME PeerInv, NEW b \in Brokers, NEW a \in Attempts, NEW next,
           a \notin links[b], sock[b][a] = "open",
           sock' = Destroyed(b, {a}), stage' = [stage EXCEPT ![a] = next],
           UNCHANGED <<links, settled, cut>>,
           \/ b = Acceptor(a) /\ stage[a] = "hello" /\ next = "refused"
           \/ b = Dialer[a] /\ stage[a] \in {"accepted", "refused"} /\ next = "over",
           probe' \in [Brokers -> [Attempts -> {"none", "asked", "answered"}]],
           \A c \in Brokers : {x \in Attempts : probe'[c][x] # "none"} \subseteq settled[c],
           faults' \in 0..MaxFaults, calm' \in BOOLEAN
    PROVE  PeerInv'
  <1> USE DEF PeerInv
  <1>1. /\ sock' \in [Brokers -> [Attempts -> {"none", "open", "destroyed", "closed"}]]
        /\ \A c \in Brokers, x \in Attempts : sock'[c][x] =
              IF c = b /\ x = a THEN "destroyed" ELSE sock[c][x]
    <2>1. {a} \in SUBSET Attempts /\ PeerTypeOK OBVIOUS
    <2>2. /\ sock' \in [Brokers -> [Attempts -> {"none", "open", "destroyed", "closed"}]]
          /\ \A x \in Attempts : sock'[b][x] =
                IF x \in {a} /\ sock[b][x] = "open" THEN "destroyed" ELSE sock[b][x]
          /\ \A c \in Brokers : c # b => sock'[c] = sock[c]
      BY <2>1 DEF Destroyed, PeerTypeOK
    <2> QED BY <2>2
  <1>2. PeerTypeOK' BY <1>1 DEF PeerTypeOK
  <1>3. OneLinkPerScope' BY DEF OneLinkPerScope
  <1>4. HandshakeInv'
    <2>1. \A x \in Attempts : Acceptor(x) \in Brokers BY TwoBrokers
    <2>2. \A x \in Attempts : stage'[x] = IF x = a THEN next ELSE stage[x] BY DEF PeerTypeOK
    <2>3. links' = links /\ next \in {"refused", "over"} OBVIOUS
    <2> SUFFICES ASSUME NEW x \in Attempts PROVE HandshakeOf(x)'
      BY DEF HandshakeInv
    <2>4. HandshakeOf(x) BY DEF HandshakeInv
    <2>5. CASE x # a
      <3>1. stage'[x] = stage[x] /\ \A c \in Brokers : sock'[c][x] = sock[c][x]
        BY <1>1, <2>2, <2>5
      <3>2. \A c \in Brokers : x \in links'[c] <=> x \in links[c] BY <2>3
      <3> QED BY <2>4, <3>1, <3>2, SameHandshake
    <2>6. CASE x = a
      <3>1. sock'[b][a] = "destroyed" /\ stage'[a] = next
            /\ \A c \in Brokers : c # b => sock'[c][a] = sock[c][a]
        BY <1>1, <2>2
      <3>2. next = "refused" => b = Acceptor(a) /\ \A c \in Brokers : a \notin links[c]
        BY <2>4, <2>6 DEF HandshakeOf
      <3> QED BY <2>1, <2>3, <2>4, <2>6, <3>1, <3>2 DEF HandshakeOf
    <2> QED BY <2>5, <2>6
  <1> QED BY <1>2, <1>3, <1>4

LEMMA RefusedInv ==
    ASSUME PeerInv, NEW b \in Brokers, NEW a \in Attempts, NEW next, Refuse(b, a),
           a \notin links[b], sock[b][a] = "open",
           sock' = Destroyed(b, {a}), stage' = [stage EXCEPT ![a] = next],
           UNCHANGED <<links, settled>>, cut' = cut,
           \/ b = Acceptor(a) /\ stage[a] = "hello" /\ next = "refused"
           \/ b = Dialer[a] /\ stage[a] \in {"accepted", "refused"} /\ next = "over"
    PROVE  PeerInv'
  <1>1. /\ probe' \in [Brokers -> [Attempts -> {"none", "asked", "answered"}]]
        /\ \A c \in Brokers : {x \in Attempts : probe'[c][x] # "none"} \subseteq settled[c]
        /\ faults' \in 0..MaxFaults /\ calm' \in BOOLEAN
    BY RefuseShape DEF PeerInv
  <1> QED BY <1>1, HangUpInv

LEMMA FaultCounts ==
    ASSUME PeerInv, Fault
    PROVE  faults' \in 0..MaxFaults /\ calm' \in BOOLEAN
  <1>1. faults' \in 0..MaxFaults
    BY PeerAssumption DEF PeerInv, PeerTypeOK, Fault, PeerAssumption
  <1>2. calm' \in BOOLEAN BY DEF Fault
  <1> QED BY <1>1, <1>2

LEMMA OnlyProbesInv ==
    ASSUME PeerInv, NEW b \in Brokers, NEW a \in Attempts, probe[b][a] # "none",
           NEW p \in {"none", "answered"}, probe' = [probe EXCEPT ![b][a] = p],
           UNCHANGED <<stage, sock, links, settled, cut, faults, calm>>
    PROVE  PeerInv'
  <1>1. PeerTypeOK' BY DEF PeerInv, PeerTypeOK
  <1> QED BY <1>1 DEF PeerInv, OneLinkPerScope, HandshakeInv, HandshakeOf

LEMMA AcceptInv == ASSUME PeerInv, NEW a \in Attempts, Accept(a) PROVE PeerInv'
  <1> DEFINE b == Acceptor(a)
  <1> b \in Brokers BY TwoBrokers
  <1>0. stage[a] = "hello" /\ sock[b][a] = "open" /\ a \notin links[b] /\ cut' = cut
    BY DEF Accept, PeerInv, HandshakeInv, HandshakeOf
  <1>1. CASE Register(b, a) /\ stage' = [stage EXCEPT ![a] = "accepted"]
    BY <1>0, <1>1, RegisterInv
  <1>2. CASE /\ Refuse(b, a)
             /\ sock' = Destroyed(b, {a})
             /\ stage' = [stage EXCEPT ![a] = "refused"]
             /\ UNCHANGED <<links, settled>>
    BY <1>0, <1>2, RefusedInv
  <1> QED BY <1>1, <1>2 DEF Accept

LEMMA ReceiveAckInv == ASSUME PeerInv, NEW a \in Attempts, ReceiveAck(a) PROVE PeerInv'
  <1> DEFINE b == Dialer[a]
  <1> b \in Brokers BY TwoBrokers
  <1>0. /\ stage[a] \in {"accepted", "refused"} /\ sock[b][a] = "open" /\ cut' = cut
        /\ stage' = [stage EXCEPT ![a] = "over"]
    BY DEF ReceiveAck
  <1>a. a \notin links[b] BY <1>0, TwoBrokers DEF PeerInv, HandshakeInv, HandshakeOf
  <1>1. CASE stage[a] = "accepted" /\ Register(b, a)
    BY <1>0, <1>a, <1>1, RegisterInv
  <1>2. CASE /\ Refuse(b, a)
             /\ sock' = Destroyed(b, {a})
             /\ UNCHANGED <<links, settled>>
    BY <1>0, <1>a, <1>2, RefusedInv
  <1>3. CASE /\ sock' = Destroyed(b, {a})
             /\ UNCHANGED <<links, settled, probe, faults, calm>>
    <2>1. /\ probe' \in [Brokers -> [Attempts -> {"none", "asked", "answered"}]]
          /\ \A c \in Brokers : {x \in Attempts : probe'[c][x] # "none"} \subseteq settled[c]
          /\ faults' \in 0..MaxFaults /\ calm' \in BOOLEAN
      BY <1>3 DEF PeerInv, PeerTypeOK
    <2> QED BY <1>0, <1>a, <1>3, <2>1, HangUpInv
  <1> QED BY <1>0, <1>1, <1>2, <1>3 DEF ReceiveAck

LEMMA AbandonInv ==
    ASSUME PeerInv, NEW b \in Brokers, NEW a \in Attempts, Abandon(b, a) \/ Drop(b, a)
    PROVE  PeerInv'
  <1>1. CASE Abandon(b, a)
    <2>1. faults' \in 0..MaxFaults /\ calm' \in BOOLEAN
      BY <1>1 DEF Abandon, PeerInv, PeerTypeOK
    <2> QED BY <1>1, <2>1, DestroyInv DEF Abandon
  <1>2. CASE Drop(b, a)
    BY <1>2, FaultCounts, DestroyInv DEF Drop
  <1> QED BY <1>1, <1>2

LEMMA CloseInv ==
    ASSUME PeerInv, NEW b \in Brokers, NEW a \in Attempts, Close(b, a)
    PROVE  PeerInv'
  <1>1. /\ sock[b][a] # "none" /\ sock' = [sock EXCEPT ![b][a] = "closed"]
        /\ Relink(b, {a}, {}) /\ UNCHANGED <<stage, cut, faults, calm>>
    BY DEF Close
  <1>2. /\ sock' \in [Brokers -> [Attempts -> {"none", "open", "destroyed", "closed"}]]
        /\ sock'[b][a] = "closed"
        /\ \A x \in Attempts \ {a} : sock'[b][x] = sock[b][x]
        /\ \A c \in Brokers : c # b => sock'[c] = sock[c]
    BY <1>1 DEF PeerInv, PeerTypeOK
  <1>3. cut' \subseteq Attempts /\ faults' \in 0..MaxFaults /\ calm' \in BOOLEAN
    BY <1>1 DEF PeerInv, PeerTypeOK
  <1>4. {a} \in SUBSET Attempts OBVIOUS
  <1> QED BY <1>1, <1>2, <1>3, <1>4, DepartInv

(* A link that this end gives up.                                          *)
LEMMA GiveUpInv ==
    ASSUME PeerInv, NEW b \in Brokers, NEW a \in Attempts,
           Relink(b, {a}, {}), sock' = Destroyed(b, {a}), UNCHANGED <<stage, cut>>,
           faults' \in 0..MaxFaults, calm' \in BOOLEAN
    PROVE  PeerInv'
  <1>1. {a} \in SUBSET Attempts /\ PeerTypeOK BY DEF PeerInv
  <1>2. /\ sock' \in [Brokers -> [Attempts -> {"none", "open", "destroyed", "closed"}]]
        /\ \A x \in Attempts : sock'[b][x] =
              IF x \in {a} /\ sock[b][x] = "open" THEN "destroyed" ELSE sock[b][x]
        /\ \A c \in Brokers : c # b => sock'[c] = sock[c]
    BY <1>1, DestroyedShape
  <1>3. cut' \subseteq Attempts BY <1>1 DEF PeerTypeOK
  <1>4. /\ \A x \in {a} : sock'[b][x] # "open" /\ (sock[b][x] = "none" => sock'[b][x] = "none")
        /\ \A x \in Attempts \ {a} : sock'[b][x] = sock[b][x]
    BY <1>2
  <1> QED BY <1>1, <1>2, <1>3, <1>4, DepartInv

LEMMA ProbeTimeoutInv ==
    ASSUME PeerInv, NEW b \in Brokers, NEW a \in Attempts, ProbeTimeout(b, a)
    PROVE  PeerInv'
  <1>0. faults' \in 0..MaxFaults /\ calm' \in BOOLEAN
    BY DEF ProbeTimeout, PeerInv, PeerTypeOK
  <1>1. CASE /\ probe[b][a] = "answered"
             /\ probe' = [probe EXCEPT ![b][a] = "none"]
             /\ UNCHANGED <<links, settled, sock>>
    BY <1>0, <1>1, OnlyProbesInv DEF ProbeTimeout, PeerInv, PeerTypeOK
  <1>2. CASE Relink(b, {a}, {}) /\ sock' = Destroyed(b, {a})
    BY <1>0, <1>2, GiveUpInv DEF ProbeTimeout
  <1> QED BY <1>1, <1>2 DEF ProbeTimeout

LEMMA CloseLinkInv ==
    ASSUME PeerInv, NEW b \in Brokers, NEW a \in Attempts, CloseLink(b, a)
    PROVE  PeerInv'
BY FaultCounts, GiveUpInv DEF CloseLink

LEMMA RestartInv == ASSUME PeerInv, NEW b \in Brokers, Restart(b) PROVE PeerInv'
  <1>1. /\ sock' \in [Brokers -> [Attempts -> {"none", "open", "destroyed", "closed"}]]
        /\ \A x \in Attempts : sock'[b][x] = IF sock[b][x] = "none" THEN "none" ELSE "closed"
        /\ \A c \in Brokers : c # b => sock'[c] = sock[c]
    BY DEF Restart, PeerInv, PeerTypeOK
  <1>2. cut' \subseteq Attempts /\ faults' \in 0..MaxFaults /\ calm' \in BOOLEAN
    BY FaultCounts DEF Restart, PeerInv, PeerTypeOK
  <1>3. Attempts \in SUBSET Attempts OBVIOUS
  <1> QED BY <1>1, <1>2, <1>3, DepartInv DEF Restart

-----------------------------------------------------------------------------
(* Theorems                                                                *)

LEMMA StepInv == PeerInv /\ [PeerNext]_peerVars => PeerInv'
  <1> SUFFICES ASSUME PeerInv, [PeerNext]_peerVars PROVE PeerInv'
    OBVIOUS
  <1>1. CASE UNCHANGED peerVars
    BY <1>1 DEF peerVars, PeerInv, PeerTypeOK, OneLinkPerScope, HandshakeInv, HandshakeOf
  <1>2. ASSUME NEW a \in Attempts, Dial(a) PROVE PeerInv' BY <1>2, DialInv
  <1>3. ASSUME NEW a \in Attempts, Accept(a) PROVE PeerInv' BY <1>3, AcceptInv
  <1>4. ASSUME NEW a \in Attempts, ReceiveAck(a) PROVE PeerInv' BY <1>4, ReceiveAckInv
  <1>5. ASSUME NEW a \in Attempts, Cut(a) PROVE PeerInv'
    <2>1. PeerTypeOK' BY <1>5, FaultCounts DEF Cut, PeerInv, PeerTypeOK
    <2> QED BY <1>5, <2>1 DEF Cut, PeerInv, OneLinkPerScope, HandshakeInv, HandshakeOf
  <1>6. ASSUME NEW b \in Brokers, NEW a \in Attempts, Abandon(b, a) \/ Drop(b, a) PROVE PeerInv'
    BY <1>6, AbandonInv
  <1>7. ASSUME NEW b \in Brokers, NEW a \in Attempts, Close(b, a) PROVE PeerInv'
    BY <1>7, CloseInv
  <1>8. ASSUME NEW b \in Brokers, NEW a \in Attempts, Settle(b, a) PROVE PeerInv'
    <2>1. PeerTypeOK' BY <1>8 DEF Settle, PeerInv, PeerTypeOK
    <2> QED BY <1>8, <2>1 DEF Settle, PeerInv, OneLinkPerScope, HandshakeInv, HandshakeOf
  <1>9. ASSUME NEW b \in Brokers, NEW a \in Attempts, Hear(b, a) PROVE PeerInv'
    BY <1>9, OnlyProbesInv DEF Hear, PeerInv, PeerTypeOK
  <1>10. ASSUME NEW b \in Brokers, NEW a \in Attempts, ProbeTimeout(b, a) PROVE PeerInv'
    BY <1>10, ProbeTimeoutInv
  <1>11. ASSUME NEW b \in Brokers, NEW a \in Attempts, CloseLink(b, a) PROVE PeerInv'
    BY <1>11, CloseLinkInv
  <1>12. ASSUME NEW b \in Brokers, Restart(b) PROVE PeerInv' BY <1>12, RestartInv
  <1> QED BY <1>1, <1>2, <1>3, <1>4, <1>5, <1>6, <1>7, <1>8, <1>9, <1>10, <1>11, <1>12 DEF PeerNext

LEMMA AlwaysInv == PeerSpec => []PeerInv
BY InitInv, StepInv, PTL DEF PeerSpec

(* The tables of links, settled links and pending questions keep their     *)
(* types, and a question is only ever pending about a settled link.        *)
THEOREM PeerTypeCorrect == PeerSpec => []PeerTypeOK
BY AlwaysInv, PTL DEF PeerInv

(* Any number of attempts by both brokers, in any order with timeouts,     *)
(* faults and restarts: registerLink leaves one link per local scope.      *)
THEOREM ScopesHaveOneLink == PeerSpec => []OneLinkPerScope
BY AlwaysInv, PTL DEF PeerInv

(* The acknowledgement is the only time at which one end has a link that   *)
(* the other end has not.                                                  *)
THEOREM NoLinkIsHalf == PeerSpec => []NoHalfLinks
  <1>1. PeerInv => NoHalfLinks
    <2> SUFFICES ASSUME PeerInv, NEW a \in Attempts, NEW b \in Brokers,
                        a \in links[b], a \notin links[Other(b)],
                        \A c \in Brokers : sock[c][a] = "open"
                 PROVE  b = Acceptor(a) /\ stage[a] = "accepted"
      BY DEF NoHalfLinks
    <2>1. stage[a] # "over" BY TwoBrokers DEF PeerInv, HandshakeInv, HandshakeOf
    <2> QED BY <2>1 DEF PeerInv, HandshakeInv, HandshakeOf
  <1> QED BY <1>1, AlwaysInv, PTL


(* What a step may do to the links of a broker: it loses none, or gains    *)
(* none, or a newcomer takes over links that were all unsettled.           *)
LEMMA LinksMove ==
    ASSUME PeerInv, NEW b \in Brokers, NEW gone \in SUBSET Attempts, Relink(b, gone, {})
    PROVE  \A c \in Brokers : links'[c] \subseteq links[c]
BY DEF PeerInv, PeerTypeOK, Relink

LEMMA NewcomerSparesSettled ==
    ASSUME PeerInv, NEW b \in Brokers, NEW a \in Attempts, Admitted(b, a), Register(b, a)
    PROVE  \A c \in Brokers : settled[c] \subseteq links'[c]
  <1>1. Conflicts(b, a) \cap settled[b] = {}
    BY DEF Admitted, Blockers, Beats
  <1>2. /\ links'[b] = (links[b] \ Conflicts(b, a)) \cup {a}
        /\ \A c \in Brokers : c # b => links'[c] = links[c]
    BY DEF Register, Relink, PeerInv, PeerTypeOK
  <1>3. \A c \in Brokers : settled[c] \subseteq links[c]
    BY DEF PeerInv, PeerTypeOK
  <1> QED BY <1>1, <1>2, <1>3

(* A newcomer never displaces a settled link: whatever removes one leaves  *)
(* its broker with fewer links, for admission of a competitor (at the      *)
(* dial, at the hello and again at the acknowledgement) needs every        *)
(* competing link to be younger than ten seconds.                          *)
THEOREM SettledLinksStay == PeerSpec => SettledLinksAreDefended
  <1> DEFINE Defended == \A b \in Brokers : \A x \in settled[b] \ links'[b] :
                             links'[b] \subseteq links[b]
  <1>1. PeerInv /\ [PeerNext]_peerVars => [Defended]_peerVars
    <2> SUFFICES ASSUME PeerInv, PeerNext PROVE Defended
      OBVIOUS
    <2>a. ASSUME \A c \in Brokers : links'[c] \subseteq links[c] PROVE Defended
      BY <2>a
    <2>b. ASSUME \A c \in Brokers : settled[c] \subseteq links'[c] PROVE Defended
      BY <2>b
    <2>c. ASSUME links' = links PROVE Defended
      BY <2>c
    <2>1. ASSUME NEW a \in Attempts, Dial(a) \/ Cut(a) PROVE Defended
      BY <2>1, <2>c DEF Dial, Cut
    <2>2. ASSUME NEW a \in Attempts, Accept(a) PROVE Defended
      BY <2>2, <2>b, <2>c, NewcomerSparesSettled, TwoBrokers DEF Accept
    <2>3. ASSUME NEW a \in Attempts, ReceiveAck(a) PROVE Defended
      BY <2>3, <2>b, <2>c, NewcomerSparesSettled, TwoBrokers DEF ReceiveAck
    <2>4. ASSUME NEW b \in Brokers, NEW a \in Attempts,
                 Abandon(b, a) \/ Settle(b, a) \/ Hear(b, a) \/ Drop(b, a)
          PROVE  Defended
      BY <2>4, <2>c DEF Abandon, Settle, Hear, Drop
    <2>5. ASSUME NEW b \in Brokers, NEW a \in Attempts,
                 Close(b, a) \/ ProbeTimeout(b, a) \/ CloseLink(b, a)
          PROVE  Defended
      <3>1. CASE Relink(b, {a}, {})
        <4>1. {a} \in SUBSET Attempts OBVIOUS
        <4> QED BY <3>1, <4>1, <2>a, LinksMove
      <3>2. CASE links' = links BY <3>2, <2>c
      <3> QED BY <2>5, <3>1, <3>2 DEF Close, ProbeTimeout, CloseLink
    <2>6. ASSUME NEW b \in Brokers, Restart(b) PROVE Defended
      <3>1. Attempts \in SUBSET Attempts OBVIOUS
      <3> QED BY <2>6, <3>1, <2>a, LinksMove DEF Restart
    <2> QED BY <2>1, <2>2, <2>3, <2>4, <2>5, <2>6 DEF PeerNext
  <1> QED BY <1>1, AlwaysInv, PTL DEF PeerSpec, SettledLinksAreDefended

-----------------------------------------------------------------------------
(* While nothing has failed or settled, the attempts that compete are      *)
(* decided in favour of one broker's: of Low's as soon as it has dialed    *)
(* one of them, of High's until then. An attempt of that broker fails only *)
(* for another one of it that cannot be lost any more.                     *)

Of(d, S) == {x \in S : Dialer[x] = d}

Free(d, S) == d = High => \A a \in Of(Low, S) : stage[a] = "new"

Won(d, S) == Of(d, S) \cap links[d]
Live(d, S) == Won(d, S) \cup {w \in Of(d, S) : stage[w] \in {"hello", "accepted"}}

(* A handshake is not disturbed, a link that its acceptor has is about to  *)
(* be acknowledged or has lost against a link, and one is left.            *)
Attached(d, S) ==
    /\ \A a \in Of(d, S) : stage[a] \in {"hello", "accepted"} \/ a \in links[d] =>
          \A b \in Brokers : sock[b][a] = "open"
    /\ \A a \in Of(d, S) : a \in links[Other(d)] => stage[a] = "accepted" \/ Won(d, S) # {}
    /\ \A a \in Of(d, S) : stage[a] # "new" => Live(d, S) # {}

Still == cut = {} /\ \A b \in Brokers : settled[b] = {}

CalmInv == calm => Still /\ \A d \in Brokers, S \in SUBSET Attempts :
                               Separate(S) /\ Free(d, S) => Attached(d, S)

(* A step that leaves the attempts of d in S alone.                        *)
LEMMA OthersMove ==
    ASSUME NEW d \in Brokers, NEW S \in SUBSET Attempts, PeerInv, Attached(d, S),
           \A x \in Of(d, S) : /\ stage'[x] = stage[x]
                               /\ \A b \in Brokers : /\ sock'[b][x] = sock[b][x]
                                                     /\ x \in links'[b] <=> x \in links[b]
    PROVE  Attached(d, S)'
  <1>1. Of(d, S) \subseteq Attempts /\ Other(d) \in Brokers BY TwoBrokers DEF Of
  <1>2. Won(d, S)' = Won(d, S) BY <1>1 DEF Won, Of
  <1>3. Live(d, S)' = Live(d, S) BY <1>2 DEF Live, Of
  <1> QED BY <1>1, <1>2, <1>3 DEF Attached, Of

(* A newcomer displaces none of them: what it beats is High's, and then it *)
(* is Low's and has been dialed.                                           *)
Spares(d, S, b, a) ==
    /\ \A x \in Of(d, S) \cup {a} : \A c \in Brokers : sock'[c][x] = sock[c][x]
    /\ a \in links'[b]
    /\ \A x \in Of(d, S), c \in Brokers :
          ~(x = a /\ c = b) => (x \in links'[c] <=> x \in links[c])

LEMMA NewcomerSpares ==
    ASSUME NEW d \in Brokers, NEW S \in SUBSET Attempts, PeerInv, Separate(S), Free(d, S),
           NEW b \in Brokers, NEW a \in Attempts, stage[a] # "new",
           a \notin links[b], sock[b][a] = "open", Admitted(b, a), Register(b, a)
    PROVE  Spares(d, S, b, a)
  <1>1. /\ links'[b] = (links[b] \ Conflicts(b, a)) \cup {a}
        /\ \A c \in Brokers : c # b => links'[c] = links[c] /\ sock'[c] = sock[c]
        /\ \A x \in Attempts : sock'[b][x] =
              IF x \in Conflicts(b, a) /\ sock[b][x] = "open" THEN "destroyed" ELSE sock[b][x]
        /\ a \notin Conflicts(b, a)
    BY RegisterShape
  <1>2. ASSUME NEW x \in Of(d, S), x \in Conflicts(b, a) PROVE FALSE
    <2>1. x \in S /\ x \in Attempts /\ Dialer[x] = d BY DEF Of
    <2>2. a \in S BY <1>2, <2>1 DEF Conflicts, Separate
    <2>3. Beats(b, a, x) BY <1>2 DEF Admitted, Blockers
    <2>4. Dialer[a] = Low /\ d = High
      BY <2>1, <2>3 DEF Beats, Preferred, Brokers
    <2> QED BY <2>2, <2>4 DEF Free, Of
  <1>3. \A x \in Of(d, S) \cup {a} : x \in Attempts /\ x \notin Conflicts(b, a)
    BY <1>1, <1>2 DEF Of
  <1>4. \A x \in Of(d, S) \cup {a} : \A c \in Brokers : sock'[c][x] = sock[c][x]
    BY <1>1, <1>3
  <1>5. \A x \in Of(d, S), c \in Brokers :
            ~(x = a /\ c = b) => (x \in links'[c] <=> x \in links[c])
    BY <1>1, <1>3
  <1> QED BY <1>1, <1>4, <1>5 DEF Spares

(* What stands in the way of one of them is another one with a link.       *)
LEMMA RefusedFor ==
    ASSUME NEW d \in Brokers, NEW S \in SUBSET Attempts, PeerInv, Still, Separate(S), Free(d, S),
           NEW b \in Brokers, NEW a \in Of(d, S), Refuse(b, a), calm'
    PROVE  \E x \in Of(d, S) : x \in links[b]
  <1>1. PICK x \in Blockers(b, a) : TRUE
    BY DEF Refuse, Fault
  <1>2. x \in Attempts /\ x \in links[b] /\ Carries[b][x] \cap Carries[b][a] # {} /\ ~Beats(b, a, x)
    BY DEF Blockers, Conflicts, PeerInv, PeerTypeOK
  <1>3. x \in S /\ Dialer[a] = d /\ Dialer[x] \in Brokers
    BY <1>2, PeerAssumption DEF Separate, Of, PeerAssumption
  <1>4. x \notin settled[b] BY DEF Still
  <1>5. CASE d = Low
    <2>1. Dialer[x] = Low BY <1>2, <1>3, <1>4, <1>5 DEF Beats, Preferred
    <2> QED BY <1>2, <1>3, <1>5, <2>1 DEF Of
  <1>6. CASE d = High
    <2>1. stage[x] # "new" BY <1>2 DEF PeerInv, HandshakeInv, HandshakeOf
    <2>2. Dialer[x] # Low BY <1>3, <1>6, <2>1 DEF Free, Of
    <2> QED BY <1>2, <1>3, <1>6, <2>2 DEF Of, Brokers
  <1> QED BY <1>5, <1>6 DEF Brokers

(* One attempt of Of(d, S) moves: what is left to show of it.              *)
LEMMA OneMoves ==
    ASSUME NEW d \in Brokers, NEW S \in SUBSET Attempts, PeerInv, Attached(d, S),
           NEW a \in Of(d, S),
           \A x \in Of(d, S) \ {a} : /\ stage'[x] = stage[x]
                                     /\ \A b \in Brokers : /\ sock'[b][x] = sock[b][x]
                                                           /\ x \in links'[b] <=> x \in links[b],
           stage'[a] \in {"hello", "accepted"} \/ a \in links'[d] =>
              \A b \in Brokers : sock'[b][a] = "open",
           a \in links[d] => a \in links'[d],
           a \in links'[Other(d)] => stage'[a] = "accepted" \/ a \in links'[d] \/ Won(d, S) # {}
                                     \/ (a \in links[Other(d)] /\ stage[a] # "accepted"),
           stage[a] = "accepted" => a \in links'[d] \/ Won(d, S) # {} \/ stage'[a] = "accepted",
           Live(d, S)' # {}
    PROVE  Attached(d, S)'
  <1>1. Of(d, S) \subseteq Attempts /\ Other(d) \in Brokers BY TwoBrokers DEF Of
  <1>2. Won(d, S) \subseteq Won(d, S)' BY <1>1 DEF Won, Of
  <1>3. ASSUME NEW x \in Of(d, S), stage'[x] \in {"hello", "accepted"} \/ x \in links'[d],
               NEW b \in Brokers
        PROVE  sock'[b][x] = "open"
    BY <1>3 DEF Attached
  <1>4. ASSUME NEW x \in Of(d, S), x \in links'[Other(d)]
        PROVE  stage'[x] = "accepted" \/ Won(d, S)' # {}
    <2>1. CASE x = a
      <3>1. a \in links'[d] => Won(d, S)' # {} BY DEF Won, Of
      <3>2. a \in links[Other(d)] /\ stage[a] # "accepted" => Won(d, S) # {} BY DEF Attached
      <3> QED BY <1>2, <1>4, <2>1, <3>1, <3>2
    <2>2. CASE x # a BY <1>1, <1>2, <1>4, <2>2 DEF Attached
    <2> QED BY <2>1, <2>2
  <1> QED BY <1>3, <1>4 DEF Attached, Of

LEMMA DialAttached ==
    ASSUME NEW d \in Brokers, NEW S \in SUBSET Attempts, PeerInv, Still, Separate(S), Free(d, S),
           Attached(d, S), NEW a \in Attempts, Dial(a), calm'
    PROVE  Attached(d, S)'
  <1>1. stage[a] = "new" /\ stage' = [stage EXCEPT ![a] = stage'[a]] /\ links' = links
    BY DEF Dial, PeerInv, PeerTypeOK
  <1>2. \A x \in Attempts \ {a}, b \in Brokers : sock'[b][x] = sock[b][x]
    <2>1. CASE sock' = sock BY <2>1
    <2>2. CASE sock' = [c \in Brokers |-> [sock[c] EXCEPT ![a] = "open"]]
      BY <2>2 DEF PeerInv, PeerTypeOK
    <2> QED BY <2>1, <2>2 DEF Dial
  <1>3. \A x \in Attempts \ {a} : stage'[x] = stage[x]
    BY <1>1 DEF PeerInv, PeerTypeOK
  <1>4. Of(d, S) \subseteq Attempts BY DEF Of
  <1>5. CASE a \notin Of(d, S)
    BY <1>1, <1>2, <1>3, <1>4, <1>5, OthersMove
  <1>6. CASE a \in Of(d, S)
    <2>1. \A b \in Brokers : a \notin links[b]
      BY <1>1 DEF PeerInv, HandshakeInv, HandshakeOf
    <2>2. Dialer[a] = d BY <1>6 DEF Of
    <2>3. CASE /\ stage' = [stage EXCEPT ![a] = "hello"]
               /\ sock' = [c \in Brokers |-> [sock[c] EXCEPT ![a] = "open"]]
      <3>1. stage'[a] = "hello" /\ \A b \in Brokers : sock'[b][a] = "open"
        BY <2>3 DEF PeerInv, PeerTypeOK
      <3>2. a \in Live(d, S)' BY <1>6, <3>1 DEF Live, Of
      <3> QED BY <1>1, <1>2, <1>3, <1>4, <1>6, <2>1, <3>1, <3>2, TwoBrokers, OneMoves
    <2>4. CASE stage' = [stage EXCEPT ![a] = "over"] /\ Refuse(d, a)
      <3>1. stage'[a] = "over" BY <2>4 DEF PeerInv, PeerTypeOK
      <3>2. \E x \in Of(d, S) : x \in links[d] BY <1>6, <2>4, RefusedFor
      <3>3. Live(d, S)' # {} BY <1>1, <3>2 DEF Live, Won, Of
      <3> QED BY <1>1, <1>2, <1>3, <1>4, <1>6, <2>1, <3>1, <3>3, TwoBrokers, OneMoves
    <2> QED BY <2>2, <2>3, <2>4 DEF Dial
  <1> QED BY <1>5, <1>6

LEMMA AcceptAttached ==
    ASSUME NEW d \in Brokers, NEW S \in SUBSET Attempts, PeerInv, Still, Separate(S), Free(d, S),
           Attached(d, S), NEW a \in Attempts, Accept(a), calm'
    PROVE  Attached(d, S)'
  <1> DEFINE b == Acceptor(a)
  <1>0. b \in Brokers /\ Of(d, S) \subseteq Attempts /\ Dialer[a] \in Brokers /\ b = Other(Dialer[a])
    BY TwoBrokers DEF Of, Acceptor
  <1>1. /\ stage[a] = "hello" /\ sock[b][a] = "open"
        /\ \A c \in Brokers : a \notin links[c]
        /\ stage' = [stage EXCEPT ![a] = stage'[a]]
    BY DEF Accept, PeerInv, PeerTypeOK, HandshakeInv, HandshakeOf
  <1>2. \A x \in Attempts \ {a} : stage'[x] = stage[x]
    BY <1>1 DEF PeerInv, PeerTypeOK
  <1>3. CASE Admitted(b, a) /\ Register(b, a) /\ stage' = [stage EXCEPT ![a] = "accepted"]
    <2>1. stage'[a] = "accepted" BY <1>3 DEF PeerInv, PeerTypeOK
    <2>2. /\ \A x \in Of(d, S) \cup {a} : \A c \in Brokers : sock'[c][x] = sock[c][x]
          /\ \A x \in Of(d, S), c \in Brokers :
                ~(x = a /\ c = b) => (x \in links'[c] <=> x \in links[c])
      <3> HIDE DEF b
      <3>1. /\ b \in Brokers /\ stage[a] # "new" /\ a \notin links[b] /\ sock[b][a] = "open"
            /\ Admitted(b, a) /\ Register(b, a)
        BY <1>0, <1>1, <1>3
      <3>2. Spares(d, S, b, a) BY <3>1, NewcomerSpares
      <3> QED BY <3>2 DEF Spares
    <2>3. CASE a \notin Of(d, S)
      BY <1>2, <1>0, <2>2, <2>3, OthersMove
    <2>4. CASE a \in Of(d, S)
      <3>1. \A c \in Brokers : sock'[c][a] = "open"
        BY <1>1, <2>2, <2>4 DEF Attached
      <3>2. a \in Live(d, S)' BY <2>1, <2>4 DEF Live, Of
      <3> QED BY <1>0, <1>1, <1>2, <2>1, <2>2, <2>4, <3>1, <3>2, OneMoves
    <2> QED BY <2>3, <2>4
  <1>4. CASE /\ Refuse(b, a) /\ sock' = Destroyed(b, {a}) /\ links' = links
             /\ stage' = [stage EXCEPT ![a] = "refused"]
    <2>1. stage'[a] = "refused" BY <1>4 DEF PeerInv, PeerTypeOK
    <2>2. \A x \in Attempts \ {a}, c \in Brokers : sock'[c][x] = sock[c][x]
      BY <1>0, <1>4 DEF Destroyed, PeerInv, PeerTypeOK
    <2>3. CASE a \notin Of(d, S)
      BY <1>0, <1>2, <1>4, <2>2, <2>3, OthersMove
    <2>4. CASE a \in Of(d, S)
      <3>1. Dialer[a] = d BY <2>4 DEF Of
      <3>2. PICK x \in Of(d, S) : x \in links[b]
        BY <1>0, <1>4, <2>4, RefusedFor
      <3>3. x # a /\ (stage[x] = "accepted" \/ Won(d, S) # {})
        BY <1>0, <1>1, <3>1, <3>2 DEF Attached
      <3>4. Live(d, S)' # {}
        <4>1. CASE stage[x] = "accepted"
          <5>1. x \in Live(d, S)' BY <1>0, <1>2, <3>2, <3>3, <4>1 DEF Live, Of
          <5> QED BY <5>1
        <4>2. CASE Won(d, S) # {} BY <1>4, <4>2 DEF Live, Won, Of
        <4> QED BY <3>3, <4>1, <4>2
      <3>5. \A y \in Of(d, S) \ {a} :
               /\ stage'[y] = stage[y]
               /\ \A c \in Brokers : sock'[c][y] = sock[c][y] /\ (y \in links'[c] <=> y \in links[c])
        BY <1>0, <1>2, <1>4, <2>2
      <3>6. stage[a] = "hello" /\ \A c \in Brokers : a \notin links'[c] /\ a \notin links[c]
        BY <1>1, <1>4
      <3>7. Other(d) \in Brokers BY TwoBrokers
      <3> HIDE DEF b
      <3> QED BY <2>1, <2>4, <3>4, <3>5, <3>6, <3>7, OneMoves
    <2> QED BY <2>3, <2>4
  <1> QED BY <1>3, <1>4 DEF Accept

LEMMA AckAttached ==
    ASSUME NEW d \in Brokers, NEW S \in SUBSET Attempts, PeerInv, Still, Separate(S), Free(d, S),
           Attached(d, S), NEW a \in Attempts, ReceiveAck(a), calm'
    PROVE  Attached(d, S)'
  <1> DEFINE b == Dialer[a]
  <1>0. b \in Brokers /\ Of(d, S) \subseteq Attempts BY TwoBrokers DEF Of
  <1>1. /\ stage[a] \in {"accepted", "refused"} /\ sock[b][a] = "open" /\ a \notin links[b]
        /\ stage' = [stage EXCEPT ![a] = "over"]
        /\ stage[a] = "refused" => a \notin links[Other(b)]
    BY TwoBrokers DEF ReceiveAck, PeerInv, HandshakeInv, HandshakeOf
  <1>2. stage'[a] = "over" /\ \A x \in Attempts \ {a} : stage'[x] = stage[x]
    BY <1>1 DEF PeerInv, PeerTypeOK
  <1>3. CASE stage[a] = "accepted" /\ Admitted(b, a) /\ Register(b, a)
    <2>2. /\ \A x \in Of(d, S) \cup {a} : \A c \in Brokers : sock'[c][x] = sock[c][x]
          /\ \A x \in Of(d, S), c \in Brokers :
                ~(x = a /\ c = b) => (x \in links'[c] <=> x \in links[c])
          /\ a \in links'[b]
      <3> HIDE DEF b
      <3>1. /\ b \in Brokers /\ stage[a] # "new" /\ a \notin links[b] /\ sock[b][a] = "open"
            /\ Admitted(b, a) /\ Register(b, a)
        BY <1>0, <1>1, <1>3
      <3>2. Spares(d, S, b, a) BY <3>1, NewcomerSpares
      <3> QED BY <3>2 DEF Spares
    <2>3. CASE a \notin Of(d, S)
      BY <1>2, <1>0, <2>2, <2>3, OthersMove
    <2>4. CASE a \in Of(d, S)
      <3>1. b = d BY <2>4 DEF Of
      <3>2. \A c \in Brokers : sock'[c][a] = "open"
        BY <1>3, <2>2, <2>4 DEF Attached
      <3>3. a \in Live(d, S)' BY <2>2, <2>4, <3>1 DEF Live, Won, Of
      <3> QED BY <1>0, <1>1, <1>2, <2>2, <2>4, <3>1, <3>2, <3>3, TwoBrokers, OneMoves
    <2> QED BY <2>3, <2>4
  <1>4. CASE /\ sock' = Destroyed(b, {a}) /\ links' = links
             /\ stage[a] = "accepted" => Refuse(b, a)
    <2>2. \A x \in Attempts \ {a}, c \in Brokers : sock'[c][x] = sock[c][x]
      BY <1>0, <1>4 DEF Destroyed, PeerInv, PeerTypeOK
    <2>3. CASE a \notin Of(d, S)
      BY <1>0, <1>2, <1>4, <2>2, <2>3, OthersMove
    <2>4. CASE a \in Of(d, S)
      <3>1. b = d BY <2>4 DEF Of
      <3>4. \A y \in Of(d, S) \ {a} :
               /\ stage'[y] = stage[y]
               /\ \A c \in Brokers : sock'[c][y] = sock[c][y] /\ (y \in links'[c] <=> y \in links[c])
        BY <1>0, <1>2, <1>4, <2>2
      <3>5. stage'[a] = "over" /\ a \notin links[d] /\ a \notin links'[d]
        BY <1>1, <1>2, <1>4, <3>1
      <3>6. links' = links BY <1>4
      <3>2. CASE stage[a] = "accepted"
        <4>1. Won(d, S) # {}
          <5>1. \E x \in Of(d, S) : x \in links[d]
            BY <1>0, <1>4, <2>4, <3>1, <3>2, RefusedFor
          <5> QED BY <5>1 DEF Won
        <4>2. Live(d, S)' # {} BY <1>4, <4>1 DEF Live, Won, Of
        <4> HIDE DEF b
        <4> QED BY <2>4, <3>4, <3>5, <4>1, <4>2, OneMoves
      <3>3. CASE stage[a] = "refused"
        <4>1. PICK w \in Live(d, S) : TRUE
          BY <2>4, <3>3 DEF Attached
        <4>2. w \in Live(d, S)'
          BY <1>0, <1>1, <1>2, <1>4, <3>1, <3>3 DEF Live, Won, Of
        <4>3. a \notin links'[Other(d)] BY <1>1, <3>1, <3>3, <3>6
        <4> HIDE DEF b
        <4> QED BY <2>4, <3>3, <3>4, <3>5, <4>2, <4>3, OneMoves
      <3> QED BY <1>1, <3>2, <3>3
    <2> QED BY <2>3, <2>4
  <1> QED BY <1>1, <1>3, <1>4 DEF ReceiveAck

LEMMA CloseAttached ==
    ASSUME NEW d \in Brokers, NEW S \in SUBSET Attempts, PeerInv, Still, Separate(S), Free(d, S),
           Attached(d, S), NEW b \in Brokers, NEW a \in Attempts, Close(b, a), calm'
    PROVE  Attached(d, S)'
  <1>0. Of(d, S) \subseteq Attempts /\ Other(b) \in Brokers BY TwoBrokers DEF Of
  <1>1. /\ stage' = stage
        /\ \A x \in Attempts \ {a}, c \in Brokers :
              sock'[c][x] = sock[c][x] /\ (x \in links'[c] <=> x \in links[c])
        /\ \A c \in Brokers : links'[c] \subseteq links[c]
        /\ \A c \in Brokers : c # b => links'[c] = links[c]
    BY DEF Close, Relink, PeerInv, PeerTypeOK
  <1>2. CASE a \notin Of(d, S)
    BY <1>0, <1>1, <1>2, OthersMove
  <1>3. CASE a \in Of(d, S)
    <2>1. ~(\A c \in Brokers : sock[c][a] = "open")
      BY <1>0 DEF Close
    <2>2. stage[a] \notin {"hello", "accepted"} /\ a \notin links[d]
      BY <1>3, <2>1 DEF Attached
    <2>3. a \notin links'[d] BY <1>1, <2>2
    <2>4. stage[a] # "new"
      BY <1>0 DEF Close, PeerInv, HandshakeInv, HandshakeOf
    <2>5. PICK w \in Live(d, S) : TRUE BY <1>3, <2>4 DEF Attached
    <2>6. w # a /\ w \in Live(d, S)'
      BY <1>0, <1>1, <2>2 DEF Live, Won, Of
    <2> QED BY <1>0, <1>1, <1>3, <2>2, <2>3, <2>6, TwoBrokers, OneMoves
  <1> QED BY <1>2, <1>3

LEMMA CalmStep == PeerInv /\ CalmInv /\ [PeerNext]_peerVars => CalmInv'
  <1> SUFFICES ASSUME PeerInv, CalmInv, [PeerNext]_peerVars, calm'
               PROVE  /\ Still'
                      /\ \A d \in Brokers, S \in SUBSET Attempts :
                            Separate(S) /\ Free(d, S)' => Attached(d, S)'
    BY DEF CalmInv, Separate
  <1>1. CASE UNCHANGED peerVars
    BY <1>1 DEF peerVars, CalmInv, Still, Free, Attached, Live, Won, Of
  <1>2. ASSUME PeerNext
        PROVE  /\ calm /\ faults' = faults
               /\ \/ \E a \in Attempts : Dial(a) \/ Accept(a) \/ ReceiveAck(a)
                  \/ \E b \in Brokers, a \in Attempts :
                        Close(b, a) \/ Hear(b, a) \/ ProbeTimeout(b, a)
    <2>1. ASSUME NEW a \in Attempts, Dial(a) \/ Accept(a) \/ ReceiveAck(a)
          PROVE  calm /\ faults' = faults
      BY <2>1 DEF Dial, Accept, ReceiveAck, Register, Refuse, Fault
    <2>2. ASSUME NEW b \in Brokers, NEW a \in Attempts,
                 Close(b, a) \/ Hear(b, a) \/ ProbeTimeout(b, a)
          PROVE  calm /\ faults' = faults
      BY <2>2 DEF Close, Hear, ProbeTimeout
    <2>3. ASSUME NEW b \in Brokers, NEW a \in Attempts,
                 \/ Cut(a) \/ Abandon(b, a) \/ Settle(b, a) \/ CloseLink(b, a)
                 \/ Drop(b, a) \/ Restart(b)
          PROVE  FALSE
      BY <2>3 DEF Cut, Abandon, Settle, CloseLink, Drop, Restart, Fault
    <2>4. ASSUME NEW a \in Attempts, Cut(a) PROVE FALSE
      BY <2>4 DEF Cut, Fault
    <2>5. ASSUME NEW b \in Brokers, Restart(b) PROVE FALSE
      BY <2>5 DEF Restart, Fault
    <2> QED BY <1>2, <2>1, <2>2, <2>3, <2>4, <2>5 DEF PeerNext
  <1>3. ASSUME PeerNext PROVE Still /\ Still'
    <2>1. Still BY <1>2, <1>3 DEF CalmInv
    <2>2. cut' = cut
      BY <1>2, <1>3 DEF Dial, Accept, ReceiveAck, Close, Hear, ProbeTimeout
    <2>3. \A b \in Brokers : settled'[b] \subseteq settled[b]
      <3>1. \A b \in Brokers : \A gone, new : Relink(b, gone, new) =>
                \A c \in Brokers : settled'[c] \subseteq settled[c]
        BY DEF Relink, PeerInv, PeerTypeOK
      <3>2. CASE settled' = settled BY <3>2
      <3>3. ASSUME NEW a \in Attempts, Dial(a) \/ Accept(a) \/ ReceiveAck(a)
            PROVE  settled' = settled \/ \E b \in Brokers : \E gone, new : Relink(b, gone, new)
        BY <3>3, TwoBrokers DEF Dial, Accept, ReceiveAck, Register
      <3>4. ASSUME NEW b \in Brokers, NEW a \in Attempts,
                   Close(b, a) \/ Hear(b, a) \/ ProbeTimeout(b, a)
            PROVE  settled' = settled \/ \E c \in Brokers : \E gone, new : Relink(c, gone, new)
        BY <3>4 DEF Close, Hear, ProbeTimeout
      <3> QED BY <1>2, <1>3, <3>1, <3>2, <3>3, <3>4
    <2> QED BY <2>1, <2>2, <2>3 DEF Still
  <1>4. ASSUME NEW d \in Brokers, NEW S \in SUBSET Attempts, PeerNext, Separate(S), Free(d, S)'
        PROVE  Attached(d, S)'
    <2>1. \A a \in Of(Low, S) : stage[a] # "new" => stage'[a] # "new"
      <3>1. ASSUME NEW a \in Attempts, Dial(a) \/ Accept(a) \/ ReceiveAck(a)
            PROVE  \A x \in Attempts : stage[x] # "new" => stage'[x] # "new"
        BY <3>1 DEF Dial, Accept, ReceiveAck, PeerInv, PeerTypeOK
      <3>2. ASSUME NEW b \in Brokers, NEW a \in Attempts,
                   Close(b, a) \/ Hear(b, a) \/ ProbeTimeout(b, a)
            PROVE  \A x \in Attempts : stage[x] # "new" => stage'[x] # "new"
        BY <3>2 DEF Close, Hear, ProbeTimeout
      <3> QED BY <1>2, <1>4, <3>1, <3>2 DEF Of
    <2>2. Free(d, S) BY <1>4, <2>1 DEF Free, Of
    <2>3. Attached(d, S) /\ Still BY <1>2, <1>3, <1>4, <2>2 DEF CalmInv
    <2>4. ASSUME NEW a \in Attempts, Dial(a) \/ Accept(a) \/ ReceiveAck(a)
          PROVE  Attached(d, S)'
      BY <1>4, <2>2, <2>3, <2>4, DialAttached, AcceptAttached, AckAttached
    <2>5. ASSUME NEW b \in Brokers, NEW a \in Attempts, Close(b, a)
          PROVE  Attached(d, S)'
      BY <1>4, <2>2, <2>3, <2>5, CloseAttached
    <2>6. ASSUME NEW b \in Brokers, NEW a \in Attempts, Hear(b, a) \/ ProbeTimeout(b, a)
          PROVE  FALSE
      <3>1. probe[b][a] # "none" BY <2>6 DEF Hear, ProbeTimeout
      <3> QED BY <2>3, <3>1 DEF Still, PeerInv, PeerTypeOK
    <2> QED BY <1>2, <1>4, <2>4, <2>5, <2>6
  <1> QED BY <1>1, <1>3, <1>4

LEMMA AlwaysCalmInv == PeerSpec => []CalmInv
  <1>1. PeerInit => CalmInv
    <2>1. PeerInit => Still BY DEF PeerInit, Still
    <2>2. ASSUME PeerInit, NEW d \in Brokers, NEW S \in SUBSET Attempts PROVE Attached(d, S)
      <3>1. \A a \in Of(d, S) : stage[a] = "new" /\ \A b \in Brokers : a \notin links[b]
        BY <2>2 DEF PeerInit, Of
      <3>2. Other(d) \in Brokers BY TwoBrokers
      <3> QED BY <3>1, <3>2 DEF Attached
    <2> QED BY <2>1, <2>2 DEF CalmInv
  <1> QED BY <1>1, AlwaysInv, CalmStep, PTL DEF PeerSpec

LEMMA QuietLinksAgree ==
    ASSUME PeerInv, CalmInv, calm, Quiet
    PROVE  links[Low] = links[High]
  <1>1. ASSUME NEW b \in Brokers, NEW a \in links[b]
        PROVE  \A c \in Brokers : a \in links[c]
    <2>1. a \in Attempts /\ Other(b) \in Brokers BY TwoBrokers DEF PeerInv, PeerTypeOK
    <2>2. sock[b][a] = "open"
      BY <1>1, <2>1 DEF PeerInv, HandshakeInv, HandshakeOf, Quiet
    <2>3. \A c \in Brokers : sock[c][a] = "open"
      BY <2>1, <2>2 DEF Quiet, Brokers
    <2>4. stage[a] = "over"
      BY <1>1, <2>1, <2>3, TwoBrokers DEF Quiet, PeerInv, HandshakeInv, HandshakeOf
    <2> QED BY <2>1, <2>3, <2>4 DEF PeerInv, HandshakeInv, HandshakeOf
  <1> QED BY <1>1 DEF Brokers

LEMMA QuietLinksServe ==
    ASSUME PeerInv, CalmInv, calm, Quiet,
           NEW S \in SUBSET Attempts, Separate(S), NEW a \in S, stage[a] # "new"
    PROVE  S \cap links[Low] # {}
  <1>1. PICK d \in Brokers : Free(d, S) /\ \E x \in Of(d, S) : stage[x] # "new"
    <2>1. CASE \E x \in Of(Low, S) : stage[x] # "new"
      BY <2>1, PeerAssumption DEF Free, Brokers, PeerAssumption
    <2>2. CASE ~\E x \in Of(Low, S) : stage[x] # "new"
      <3>1. a \in Of(High, S)
        BY <2>2, PeerAssumption DEF Of, Brokers, PeerAssumption
      <3> QED BY <2>2, <3>1 DEF Free, Brokers
    <2> QED BY <2>1, <2>2
  <1>2. Attached(d, S) BY <1>1 DEF CalmInv
  <1>3. PICK w \in Live(d, S) : TRUE BY <1>1, <1>2 DEF Attached
  <1>4. w \in Of(d, S) /\ w \in Attempts /\ w \in S /\ Dialer[w] = d
    BY <1>3 DEF Live, Won, Of
  <1>5. stage[w] \notin {"hello", "accepted"}
    BY <1>2, <1>4 DEF Attached, Quiet
  <1>6. w \in links[d] BY <1>3, <1>5 DEF Live, Won
  <1> QED BY <1>4, <1>6, QuietLinksAgree DEF Brokers

(* Brokers that dial each other at the same time: whichever dial, hello,   *)
(* acknowledgement and close comes first, acceptInbound, acceptOutbound    *)
(* and registerLink leave a link, the same at both ends, to whatever       *)
(* attempts compete.                                                       *)
THEOREM SomeLinkIsLeft == PeerSpec => []AttachLeavesALink
  <1>1. PeerInv /\ CalmInv => AttachLeavesALink
    BY QuietLinksAgree, QuietLinksServe DEF AttachLeavesALink
  <1> QED BY <1>1, AlwaysInv, AlwaysCalmInv, PTL

(* If what competes with one attempt competes with each other, as when     *)
(* links to a broker carry the same scopes or disjoint ones, each scope    *)
(* that somebody dialed for is carried by a link. Where scopes overlap     *)
(* only partly, an attempt may yield to a link that loses for another      *)
(* scope.                                                                  *)
Compete(a, x) == \E b \in Brokers : Carries[b][a] \cap Carries[b][x] # {}

THEOREM EveryDialIsServed ==
    ASSUME \A a, x, y \in Attempts : Compete(a, x) /\ Compete(x, y) => Compete(a, y)
    PROVE  PeerSpec => [](calm /\ Quiet => \A a \in Attempts : stage[a] # "new" =>
                              \E x \in links[Low] \cap links[High] : Compete(a, x))
  <1>1. PeerInv /\ CalmInv => (calm /\ Quiet => \A a \in Attempts : stage[a] # "new" =>
                                  \E x \in links[Low] \cap links[High] : Compete(a, x))
    <2> SUFFICES ASSUME PeerInv, CalmInv, calm, Quiet, NEW a \in Attempts, stage[a] # "new"
                 PROVE  \E x \in links[Low] \cap links[High] : Compete(a, x)
      OBVIOUS
    <2> DEFINE S == {x \in Attempts : Compete(a, x)}
    <2>1. Separate(S) /\ S \in SUBSET Attempts
      BY DEF Separate, Compete
    <2>2. a \in S
      BY PeerAssumption DEF Compete, PeerAssumption, Brokers
    <2>3. S \cap links[Low] # {} BY <2>1, <2>2, QuietLinksServe
    <2> QED BY <2>3, QuietLinksAgree
  <1> QED BY <1>1, AlwaysInv, AlwaysCalmInv, PTL
================================================================================
