------------------------------- MODULE PeerLinks -------------------------------
(***************************************************************************)
(* The links between two brokers (broker/peer-link.ts: PeerLinkManager,    *)
(* with the peer roles of runtime.ts handleConnection). Either broker may  *)
(* dial; a link carries local scopes, and a broker holds one link per      *)
(* local scope. Two links that compete for a scope within ten seconds are  *)
(* a simultaneous attach and the direction decides, afterwards the link    *)
(* that is there is defended and asked whether anyone is behind it.        *)
(*                                                                         *)
(* An attempt is a link id with its connection; ids are never used again.  *)
(* Each end sees the handshake, the other end's close and silence at its   *)
(* own time. Authority (origins, capabilities, mappings) is prepared and   *)
(* valid, and both brokers offer every feature.                            *)
(***************************************************************************)
EXTENDS Naturals, FiniteSets

CONSTANTS
    Low, High,        \* the brokers, by order of their origin ids
    Attempts,         \* links that somebody tries to make
    Dialer,           \* the broker that dials an attempt
    Carries,          \* per broker and attempt: the local scopes it binds
    MaxFaults         \* bound: lost connections, restarts, errors, full tables

Brokers == {Low, High}

ASSUME PeerAssumption ==
    /\ Low # High
    /\ Dialer \in [Attempts -> Brokers]
    /\ \A b \in Brokers, a \in Attempts : Carries[b][a] # {}
    /\ MaxFaults \in Nat

VARIABLES
    stage,            \* per attempt: its handshake
    sock,             \* per broker and attempt: its end of the connection
    links,            \* per broker: linksById
    settled,          \* per broker: links that are ten seconds old
    probe,            \* per broker and attempt: probing, lastHeardAt
    cut,              \* connections that silently deliver nothing any more
    faults,           \* faults so far
    calm              \* history: no fault, timeout or settling so far

peerVars == <<stage, sock, links, settled, probe, cut, faults, calm>>

PeerTypeOK ==
    /\ stage \in [Attempts -> {"new", "hello", "accepted", "refused", "over"}]
    /\ sock \in [Brokers -> [Attempts -> {"none", "open", "destroyed", "closed"}]]
    /\ links \in [Brokers -> SUBSET Attempts]
    /\ settled \in [Brokers -> SUBSET Attempts]
    /\ probe \in [Brokers -> [Attempts -> {"none", "asked", "answered"}]]
    /\ \A b \in Brokers :
          settled[b] \subseteq links[b] /\ {a \in Attempts : probe[b][a] # "none"} \subseteq settled[b]
    /\ cut \subseteq Attempts
    /\ faults \in 0..MaxFaults
    /\ calm \in BOOLEAN

PeerInit ==
    /\ stage = [a \in Attempts |-> "new"]
    /\ sock = [b \in Brokers |-> [a \in Attempts |-> "none"]]
    /\ links = [b \in Brokers |-> {}]
    /\ settled = links
    /\ probe = [b \in Brokers |-> [a \in Attempts |-> "none"]]
    /\ cut = {} /\ faults = 0 /\ calm = TRUE

Other(b) == IF b = Low THEN High ELSE Low
Acceptor(a) == Other(Dialer[a])

-----------------------------------------------------------------------------
(* Admission *)

(* Both brokers prefer the link that the lower origin dials: outbound      *)
(* there, inbound here (isPreferredDirection).                             *)
Preferred(a) == Dialer[a] = Low

Conflicts(b, a) == {x \in links[b] : Carries[b][x] \cap Carries[b][a] # {}}

(* Mutant: age does not protect a link.                                    *)
BeatsByDirection(b, a, x) == Preferred(a) /\ ~Preferred(x)

(* Mutant: whoever comes later wins.                                       *)
BeatsAsNewcomer(b, a, x) == x \notin settled[b]

(* The newcomer a takes the scopes of x over.                              *)
Beats(b, a, x) == x \notin settled[b] /\ Preferred(a) /\ ~Preferred(x)

Blockers(b, a) == {x \in Conflicts(b, a) : ~Beats(b, a, x)}
Admitted(b, a) == Blockers(b, a) = {}

Fault == faults < MaxFaults /\ faults' = faults + 1 /\ calm' = FALSE

(* A refusal asks the settled link that caused it for a sign of life. One  *)
(* without conflict finds MAX_PEER_LINKS links to other brokers.           *)
Refuse(b, a) ==
    \/ /\ Conflicts(b, a) = {}
       /\ Fault
       /\ UNCHANGED probe
    \/ /\ \E x \in Blockers(b, a) :
             IF x \in settled[b] /\ probe[b][x] = "none"
             THEN probe' = [probe EXCEPT ![b][x] = "asked"]
             ELSE UNCHANGED probe
       /\ UNCHANGED <<faults, calm>>

(* unregisterLink for some links of b, and newcomers that join.            *)
Relink(b, gone, new) ==
    /\ links' = [links EXCEPT ![b] = (@ \ gone) \cup new]
    /\ settled' = [settled EXCEPT ![b] = @ \ gone]
    /\ probe' = [probe EXCEPT ![b] =
                    [a \in Attempts |-> IF a \in gone THEN "none" ELSE @[a]]]

(* The ends of some connections at b are destroyed.                        *)
Destroyed(b, gone) ==
    [sock EXCEPT ![b] = [a \in Attempts |->
        IF a \in gone /\ @[a] = "open" THEN "destroyed" ELSE @[a]]]

(* Mutant: a link that lost its scopes keeps its connection.               *)
RegisterOverOpenSocket(b, a) ==
    /\ Relink(b, Conflicts(b, a), {a})
    /\ UNCHANGED <<sock, faults, calm>>

(* registerLink: whatever is still in conflict has lost.                   *)
Register(b, a) ==
    /\ Relink(b, Conflicts(b, a), {a})
    /\ sock' = Destroyed(b, Conflicts(b, a))
    /\ UNCHANGED <<faults, calm>>

-----------------------------------------------------------------------------
(* The handshake *)

Dial(a) ==
    LET b == Dialer[a]
    IN  /\ stage[a] = "new"
        /\ \/ /\ Admitted(b, a)
              /\ stage' = [stage EXCEPT ![a] = "hello"]
              /\ sock' = [c \in Brokers |-> [sock[c] EXCEPT ![a] = "open"]]
              /\ UNCHANGED <<probe, faults, calm>>
           \/ /\ stage' = [stage EXCEPT ![a] = "over"]
              /\ Refuse(b, a)
              /\ UNCHANGED sock
        /\ UNCHANGED <<links, settled, cut>>

(* acceptInbound, and the acknowledgement that the caller writes.          *)
Accept(a) ==
    LET b == Acceptor(a)
    IN  /\ stage[a] = "hello"
        /\ sock[b][a] = "open" /\ a \notin cut
        /\ \/ /\ Admitted(b, a)
              /\ Register(b, a)
              /\ stage' = [stage EXCEPT ![a] = "accepted"]
           \/ /\ Refuse(b, a)
              /\ sock' = Destroyed(b, {a})
              /\ stage' = [stage EXCEPT ![a] = "refused"]
              /\ UNCHANGED <<links, settled>>
        /\ UNCHANGED cut

(* Mutant: the dialer trusts the admission it had when it dialed.          *)
ReceiveAckWithoutAdmission(a) ==
    LET b == Dialer[a]
    IN  /\ stage[a] = "accepted"
        /\ sock[b][a] = "open" /\ a \notin cut
        /\ links' = [links EXCEPT ![b] = @ \cup {a}]
        /\ stage' = [stage EXCEPT ![a] = "over"]
        /\ UNCHANGED <<sock, settled, probe, cut, faults, calm>>

(* acceptOutbound: the admission is checked again, for the other broker    *)
(* may have been faster.                                                   *)
ReceiveAck(a) ==
    LET b == Dialer[a]
    IN  /\ stage[a] \in {"accepted", "refused"}
        /\ sock[b][a] = "open" /\ a \notin cut
        /\ stage' = [stage EXCEPT ![a] = "over"]
        /\ \/ /\ stage[a] = "accepted" /\ Admitted(b, a)
              /\ Register(b, a)
           \/ /\ stage[a] = "accepted"
              /\ Refuse(b, a)
              /\ sock' = Destroyed(b, {a})
              /\ UNCHANGED <<links, settled>>
           \/ /\ stage[a] = "refused"
              /\ sock' = Destroyed(b, {a})
              /\ UNCHANGED <<links, settled, probe, faults, calm>>
        /\ UNCHANGED cut

(* The handshake times out at one end, or who asked for it gives up.       *)
Abandon(b, a) ==
    /\ sock[b][a] = "open"
    /\ a \notin links[b]
    /\ IF b = Dialer[a] THEN stage[a] # "over" ELSE stage[a] = "hello"
    /\ sock' = Destroyed(b, {a})
    /\ calm' = FALSE
    /\ UNCHANGED <<stage, links, settled, probe, cut, faults>>

-----------------------------------------------------------------------------
(* Established links *)

(* The close event, by this end's destroy or by the other end's.           *)
Close(b, a) ==
    /\ \/ sock[b][a] = "destroyed"
       \/ /\ sock[b][a] = "open" /\ a \notin cut
          /\ sock[Other(b)][a] \in {"destroyed", "closed"}
    /\ sock' = [sock EXCEPT ![b][a] = "closed"]
    /\ Relink(b, {a}, {})
    /\ UNCHANGED <<stage, cut, faults, calm>>

Settle(b, a) ==
    /\ a \in links[b] \ settled[b]
    /\ settled' = [settled EXCEPT ![b] = @ \cup {a}]
    /\ calm' = FALSE
    /\ UNCHANGED <<stage, sock, links, probe, cut, faults>>

(* The other end answers a ping, or sends anything else.                   *)
Hear(b, a) ==
    /\ probe[b][a] = "asked"
    /\ sock[b][a] = "open" /\ a \notin cut
    /\ probe' = [probe EXCEPT ![b][a] = "answered"]
    /\ UNCHANGED <<stage, sock, links, settled, cut, faults, calm>>

(* Mutant: silence is noted and nothing else.                              *)
ProbeTimeoutKeepsLink(b, a) ==
    /\ probe[b][a] # "none"
    /\ probe' = [probe EXCEPT ![b][a] = "none"]
    /\ UNCHANGED <<stage, sock, links, settled, cut, faults, calm>>

(* LIVENESS_PROBE_MS after the question; a slow answer is no answer.       *)
ProbeTimeout(b, a) ==
    /\ \/ /\ probe[b][a] = "answered"
          /\ probe' = [probe EXCEPT ![b][a] = "none"]
          /\ UNCHANGED <<links, settled, sock>>
       \/ /\ probe[b][a] = "asked"
          /\ Relink(b, {a}, {})
          /\ sock' = Destroyed(b, {a})
    /\ UNCHANGED <<stage, cut, faults, calm>>

-----------------------------------------------------------------------------
(* Faults *)

(* closeLink for a controller that has gone.                               *)
CloseLink(b, a) ==
    /\ Fault
    /\ a \in links[b]
    /\ Relink(b, {a}, {})
    /\ sock' = Destroyed(b, {a})
    /\ UNCHANGED <<stage, cut>>

(* An error or a rate limit destroys the socket; its close event follows.  *)
Drop(b, a) ==
    /\ Fault
    /\ sock[b][a] = "open"
    /\ sock' = Destroyed(b, {a})
    /\ UNCHANGED <<stage, links, settled, probe, cut>>

Cut(a) ==
    /\ Fault
    /\ a \notin cut
    /\ \E b \in Brokers : sock[b][a] = "open"
    /\ cut' = cut \cup {a}
    /\ UNCHANGED <<stage, sock, links, settled, probe>>

(* A broker dies and another takes its place.                              *)
Restart(b) ==
    /\ Fault
    /\ Relink(b, Attempts, {})
    /\ sock' = [sock EXCEPT ![b] = [a \in Attempts |->
                   IF @[a] = "none" THEN "none" ELSE "closed"]]
    /\ UNCHANGED <<stage, cut>>

-----------------------------------------------------------------------------
PeerNext ==
    \/ \E a \in Attempts : Dial(a) \/ Accept(a) \/ ReceiveAck(a) \/ Cut(a)
    \/ \E b \in Brokers, a \in Attempts :
          \/ Abandon(b, a) \/ Close(b, a) \/ Settle(b, a) \/ Hear(b, a) \/ ProbeTimeout(b, a)
          \/ CloseLink(b, a) \/ Drop(b, a)
    \/ \E b \in Brokers : Restart(b)

PeerSpec == PeerInit /\ [][PeerNext]_peerVars

(* The timer of a question fires; nobody has to answer, dial or hang up.   *)
PeerFairness == \A b \in Brokers, a \in Attempts : WF_peerVars(ProbeTimeout(b, a))

FairPeerSpec == PeerSpec /\ PeerFairness

-----------------------------------------------------------------------------
(* Properties *)

(* No local scope goes over two links to the other broker, however the     *)
(* handshakes of both directions interleave.                               *)
OneLinkPerScope ==
    \A b \in Brokers : \A x, y \in links[b] :
        x # y => Carries[b][x] \cap Carries[b][y] = {}

(* The ends agree: a link that only one of them holds is still being       *)
(* acknowledged, or its close is on the way, or the connection is dead.    *)
NoHalfLinks ==
    \A a \in Attempts \ cut : \A b \in Brokers :
        /\ a \in links[b] \ links[Other(b)]
        /\ \A c \in Brokers : sock[c][a] = "open"
        => b = Acceptor(a) /\ stage[a] = "accepted"

(* Both brokers have said everything.                                      *)
Quiet == \A a \in Attempts :
    /\ stage[a] \in {"hello", "accepted", "refused"} => sock[Dialer[a]][a] = "closed"
    /\ sock[Low][a] = "open" <=> sock[High][a] = "open"
    /\ \A b \in Brokers : sock[b][a] # "destroyed"

(* Attempts that compete for no scope with any other, at either end.       *)
Separate(S) ==
    \A b \in Brokers, a \in S, x \in Attempts :
        Carries[b][a] \cap Carries[b][x] # {} => x \in S

(* A simultaneous attach never ends with nothing: when both brokers have   *)
(* said everything and nothing failed, they have the same links, one of    *)
(* them among whatever attempts compete, however the dials crossed.        *)
AttachLeavesALink ==
    calm /\ Quiet =>
        /\ links[Low] = links[High]
        /\ \A S \in SUBSET Attempts :
              Separate(S) /\ (\E a \in S : stage[a] # "new") => S \cap links[Low] # {}

(* A settled link gives way to its own silence or end, never to another    *)
(* link.                                                                   *)
SettledLinksAreDefended ==
    [][\A b \in Brokers : \A x \in settled[b] \ links'[b] :
          links'[b] \subseteq links[b]]_peerVars

(* A link with nobody behind it that stands in the way is cleared for the  *)
(* retry.                                                                  *)
SilentLinksClear ==
    \A b \in Brokers : \A a \in Attempts :
        (probe[b][a] = "asked" /\ a \in cut) ~> a \notin links[b]
===============================================================================
