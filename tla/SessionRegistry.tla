--------------------------- MODULE SessionRegistry ---------------------------
(***************************************************************************)
(* The broker's connections and the sessions registered over them          *)
(* (broker/runtime.ts: handleConnection, the register, unregister and      *)
(* presence handlers, rememberDisconnectedSession, dedupeSessionName).     *)
(*                                                                         *)
(* A session is keyed by its scoped stable id and outlives sockets: the    *)
(* newest registration of a key takes it over while the old socket may     *)
(* still talk, fail or close. The broker runs one handler at a time, so a  *)
(* handler is one step; which socket speaks next is open. A frame a client *)
(* sent long ago on a replaced socket is simply that socket speaking late. *)
(*                                                                         *)
(* Mail, extension channels and the federated roster extend this module    *)
(* with what the same handlers do to their state.                          *)
(***************************************************************************)
EXTENDS Naturals, FiniteSets, Sequences

CONSTANTS
    Sockets,          \* connections (an identity is reused after its close)
    Keys,             \* scoped session keys
    KeyId, KeyScope,  \* the stable id and the routing scope of a key
    Profiles,         \* what a client may say of itself when it registers
    MaxSuffix,        \* the largest suffix dedupeSessionName tries
    MaxSessions,      \* MAX_SESSIONS
    MaxUnregistered,  \* MAX_UNREGISTERED_CONNECTIONS
    MaxEpoch,         \* bound: registrations of one key
    None

VARIABLES
    link,             \* per socket: closed, open, ended by us, or destroyed
    bound,            \* per socket: the sessionKey of its closure, or None
    unregistered,     \* unregisteredConnections, oldest first
    sessions,         \* live sessions by key
    disconnected,     \* disconnectedSessions by key
    epochs            \* per key: registrations so far (source of epochs)

registryVars == <<link, bound, unregistered, sessions, disconnected, epochs>>

(* A name is a base with a suffix number; number 1 is the bare name. Ids    *)
(* and names live in one space of tokens: a client may call itself what     *)
(* another client uses as its stable id.                                    *)
Bases == {p.name : p \in Profiles} \ {None}
Tokens == (Bases \cup {KeyId[k] : k \in Keys}) \X (1..MaxSuffix)
IdToken(k) == <<KeyId[k], 1>>

Cwds == {p.cwd : p \in Profiles}
Supervisors == {p.super : p \in Profiles}
Infos == [key : Keys, name : Tokens \cup {None}, alias : BOOLEAN,
          cwd : Cwds, super : Supervisors]
SessionRecords == [socket : Sockets, epoch : Nat, info : Infos]

ASSUME RegistryAssumption ==
    /\ KeyId \in [Keys -> {KeyId[k] : k \in Keys}]
    /\ KeyScope \in [Keys -> {KeyScope[k] : k \in Keys}]
    /\ \A p \in Profiles : {"name", "alias", "cwd", "super"} \subseteq DOMAIN p
    /\ \A p \in Profiles : p.alias \in BOOLEAN
    /\ MaxSuffix \in Nat \ {0}
    /\ MaxSessions \in Nat \ {0}
    /\ MaxUnregistered \in Nat \ {0}
    /\ MaxEpoch \in Nat
    /\ None \notin Sockets \cup Keys
    /\ None \notin Tokens
    /\ None \notin Infos
    /\ None \notin SessionRecords

RegistryTypeOK ==
    /\ link \in [Sockets -> {"closed", "open", "ended", "destroyed"}]
    /\ bound \in [Sockets -> Keys \cup {None}]
    /\ unregistered \in Seq(Sockets)
    /\ sessions \in [Keys -> SessionRecords \cup {None}]
    /\ disconnected \in [Keys -> Infos \cup {None}]
    /\ epochs \in [Keys -> Nat]

RegistryInit ==
    /\ link = [s \in Sockets |-> "closed"]
    /\ bound = [s \in Sockets |-> None]
    /\ unregistered = <<>>
    /\ sessions = [k \in Keys |-> None]
    /\ disconnected = [k \in Keys |-> None]
    /\ epochs = [k \in Keys |-> 0]

Live == {k \in Keys : sessions[k] # None}
Talking(s) == link[s] \in {"open", "ended"}

(* existing?.socket === socket, the check in front of every session change *)
IsCurrent(s) == /\ bound[s] # None
                /\ sessions[bound[s]] # None
                /\ sessions[bound[s]].socket = s

-----------------------------------------------------------------------------
(* Names *)

SameScope(j, k) == KeyScope[j] = KeyScope[k]

(* Mutant: only ids are compared.                                          *)
TakenAsId(token, self) ==
    \E k \in Live \ {self} : SameScope(k, self) /\ token = IdToken(k)

Taken(token, self) ==
    \E k \in Live \ {self} :
        SameScope(k, self) /\ token \in {sessions[k].info.name, IdToken(k)}

(* dedupeSessionName: the bare name, or else the first free suffix.        *)
Deduped(base, self) ==
    CASE base = None -> {None}
      [] base # None /\ ~Taken(<<base, 1>>, self) -> {<<base, 1>>}
      [] OTHER -> {<<base, n>> : n \in
             {m \in 2..MaxSuffix : /\ ~Taken(<<base, m>>, self)
                                   /\ \A i \in 2..(m - 1) : Taken(<<base, i>>, self)}}

Info(k, name, p) ==
    [key |-> k, name |-> name, alias |-> p.alias, cwd |-> p.cwd, super |-> p.super]

(* canSeeSession: subagents see their supervisor and their siblings, a     *)
(* main sees the mains and the subagents it supervises. A supervisor is    *)
(* recognised by its id or by its current name.                            *)
Supervises(boss, child) ==
    child.super # None /\ child.super \in {IdToken(boss.key), boss.name}
CanSee(observer, subject) ==
    \/ KeyId[observer.key] = KeyId[subject.key]
    \/ observer.super # None /\ (Supervises(subject, observer) \/ subject.super = observer.super)
    \/ observer.super = None /\ subject.super # None /\ Supervises(observer, subject)
    \/ observer.super = None /\ subject.super = None

-----------------------------------------------------------------------------
(* Connections *)

Listed(seq, s) == \E i \in 1..Len(seq) : seq[i] = s
(* Mutant: a registered connection stays in the line.                      *)
WithoutNothing(seq, s) == seq

Without(seq, s) ==
    LET i == CHOOSE n \in 1..Len(seq) : seq[n] = s
    IN  IF Listed(seq, s) THEN SubSeq(seq, 1, i - 1) \o SubSeq(seq, i + 1, Len(seq))
                          ELSE seq

(* armRegistrationTimeout: s becomes the newest unregistered connection;   *)
(* above the cap the oldest one is destroyed.                              *)
ArmTimeout(s, links) ==
    LET queue == Append(Without(unregistered, s), s)
    IN  IF Len(queue) > MaxUnregistered
        THEN /\ unregistered' = Tail(queue)
             /\ link' = [links EXCEPT ![Head(queue)] = "destroyed"]
        ELSE /\ unregistered' = queue
             /\ link' = links

Connect(s) ==
    /\ link[s] = "closed"
    /\ ArmTimeout(s, [link EXCEPT ![s] = "open"])
    /\ UNCHANGED <<bound, sessions, disconnected, epochs>>

(* Mutant: the timer passes over a connection it cannot write to.          *)
RegistrationTimeoutIfWritable(s) ==
    /\ link[s] = "open"
    /\ bound[s] = None
    /\ link' = [link EXCEPT ![s] = "destroyed"]
    /\ UNCHANGED <<bound, unregistered, sessions, disconnected, epochs>>

(* The registration timeout of an unregistered connection fires.           *)
RegistrationTimeout(s) ==
    /\ Talking(s)
    /\ bound[s] = None
    /\ link' = [link EXCEPT ![s] = "destroyed"]
    /\ UNCHANGED <<bound, unregistered, sessions, disconnected, epochs>>

(* An I/O error, a rate limit or a handler that throws destroys the socket; *)
(* its close handler runs later.                                           *)
Destroy(s) ==
    /\ Talking(s)
    /\ link' = [link EXCEPT ![s] = "destroyed"]
    /\ UNCHANGED <<bound, unregistered, sessions, disconnected, epochs>>

(* Mutant: the session is remembered but not removed.                      *)
EndSessionKeepsIt(k) ==
    /\ disconnected' = [disconnected EXCEPT ![k] = sessions[k].info]
    /\ UNCHANGED sessions
(* The session of key k ends: remember whom mail may still be queued for.  *)
EndSession(k) ==
    /\ disconnected' = [disconnected EXCEPT ![k] = sessions[k].info]
    /\ sessions' = [sessions EXCEPT ![k] = None]

(* The close event, at the peer's end or after a destroy.                  *)
Close(s) ==
    /\ link[s] # "closed"
    /\ link' = [link EXCEPT ![s] = "closed"]
    /\ bound' = [bound EXCEPT ![s] = None]
    /\ unregistered' = Without(unregistered, s)
    /\ IF IsCurrent(s) THEN EndSession(bound[s])
                       ELSE UNCHANGED <<sessions, disconnected>>
    /\ UNCHANGED epochs

-----------------------------------------------------------------------------
(* Sessions *)

(* Too many registered sessions: an error frame, and the socket goes.      *)
RefuseRegister(s, k) ==
    /\ Talking(s)
    /\ bound[s] = None
    /\ k \notin Live
    /\ Cardinality(Live) >= MaxSessions
    /\ link' = [link EXCEPT ![s] = "destroyed"]
    /\ UNCHANGED <<bound, unregistered, sessions, disconnected, epochs>>

(* register: take the key over from its previous socket, which is ended    *)
(* but not forgotten; answer on the new one (a write on a socket we ended  *)
(* ourselves destroys it).                                                 *)
Register(s, k, p) ==
    /\ Talking(s)
    /\ bound[s] = None
    /\ k \in Live \/ Cardinality(Live) < MaxSessions
    /\ epochs[k] < MaxEpoch
    /\ bound' = [bound EXCEPT ![s] = k]
    /\ unregistered' = Without(unregistered, s)
    /\ link' = [x \in Sockets |->
          CASE x = s /\ link[s] = "ended" -> "destroyed"
            [] k \in Live /\ x = sessions[k].socket /\ link[x] = "open" -> "ended"
            [] OTHER -> link[x]]
    /\ epochs' = [epochs EXCEPT ![k] = @ + 1]
    /\ \E name \in Deduped(p.name, k) :
          sessions' = [sessions EXCEPT ![k] =
              [socket |-> s, epoch |-> epochs[k] + 1, info |-> Info(k, name, p)]]
    /\ disconnected' = [disconnected EXCEPT ![k] = None]

(* unregister: the socket forgets its key even when it lost it, and has to *)
(* register again within the timeout.                                      *)
Unregister(s) ==
    /\ Talking(s)
    /\ bound[s] # None
    /\ bound' = [bound EXCEPT ![s] = None]
    /\ ArmTimeout(s, link)
    /\ IF IsCurrent(s) THEN EndSession(bound[s])
                       ELSE UNCHANGED <<sessions, disconnected>>
    /\ UNCHANGED epochs

(* presence: rename and alias updates of the current socket's session.     *)
Renamed(info, name, p) ==
    [info EXCEPT !.name = IF name = None THEN info.name ELSE name, !.alias = p.alias]
Presence(s, p) ==
    /\ Talking(s)
    /\ IsCurrent(s)
    /\ \E name \in Deduped(p.name, bound[s]) :
          sessions' = [sessions EXCEPT ![bound[s]].info =
                          Renamed(sessions[bound[s]].info, name, p)]
    /\ UNCHANGED <<link, bound, unregistered, disconnected, epochs>>

(* DISCONNECTED_SESSION_RETENTION_MS have passed since the disconnect.      *)
ForgetDisconnected(k) ==
    /\ disconnected[k] # None
    /\ disconnected' = [disconnected EXCEPT ![k] = None]
    /\ UNCHANGED <<link, bound, unregistered, sessions, epochs>>

-----------------------------------------------------------------------------
RegistryNext ==
    \/ \E s \in Sockets :
          \/ Connect(s) \/ RegistrationTimeout(s) \/ Destroy(s) \/ Close(s)
          \/ Unregister(s)
          \/ \E k \in Keys : RefuseRegister(s, k)
          \/ \E k \in Keys, p \in Profiles : Register(s, k, p)
          \/ \E p \in Profiles : Presence(s, p)
    \/ \E k \in Keys : ForgetDisconnected(k)

RegistrySpec == RegistryInit /\ [][RegistryNext]_registryVars

(* Timers fire and a destroyed socket gets its close event; clients are    *)
(* free to stay silent.                                                    *)
RegistryFairness ==
    \A s \in Sockets : /\ WF_registryVars(RegistrationTimeout(s))
                       /\ WF_registryVars(link[s] = "destroyed" /\ Close(s))

FairRegistrySpec == RegistrySpec /\ RegistryFairness

-----------------------------------------------------------------------------
(* Properties *)

(* A live session is served by a connection that is bound to it and not    *)
(* closed, whatever replaced sockets do in the meantime.                   *)
SessionsHoldTheirSocket ==
    \A k \in Live : /\ bound[sessions[k].socket] = k
                    /\ link[sessions[k].socket] # "closed"

(* No two live sessions of a scope have one name, over any sequence of     *)
(* registrations, takeovers and renames.                                   *)
NamesAddressOneSession ==
    \A j, k \in Live :
        SameScope(j, k) /\ sessions[j].info.name = sessions[k].info.name
            => j = k \/ sessions[j].info.name = None

(* A key is never at once live and a mailbox address of the past.          *)
LiveOrRemembered == \A k \in Keys : k \in Live => disconnected[k] = None

(* A registered session's socket is never in line for the eviction of      *)
(* unregistered connections, and the line keeps to its cap.                *)
EvictionSparesSessions ==
    /\ Len(unregistered) <= MaxUnregistered
    /\ \A k \in Live : ~Listed(unregistered, sessions[k].socket)

(* A session ends only when its own socket closes or unregisters; late     *)
(* frames and the close of a replaced socket leave the successor alone.    *)
OnlyItsSocketEndsASession ==
    [][\A k \in Keys : k \in Live /\ sessions'[k] = None =>
          bound'[sessions[k].socket] = None]_registryVars

(* A connection that never registers does not stay: it is closed even if   *)
(* its client keeps quiet.                                                 *)
UnregisteredConnectionsSettle ==
    \A s \in Sockets :
        (link[s] # "closed" /\ bound[s] = None) ~> (link[s] = "closed" \/ bound[s] # None)
=============================================================================
