----------------------------- MODULE ExtensionBus -----------------------------
(***************************************************************************)
(* The extension channels of one broker (broker/runtime.ts: the            *)
(* capabilities in register and extension_capabilities_update,             *)
(* recomputeNamespaceOwners, handleExtensionStateCommit): each scope has   *)
(* at most one owner of a namespace, the longest registered eligible       *)
(* session, fenced by its socket and a fresh epoch; only the owner commits *)
(* the namespace's state.                                                  *)
(*                                                                         *)
(* One namespace is modelled, namespaces share nothing. A client composes  *)
(* a commit from what it was told last (index.ts, commitState) and the     *)
(* request travels while ownership moves. A client that has not read its   *)
(* newest frames composes as it would have earlier. The files behind a     *)
(* commit are StateStore's; here a commit that reaches them may fail.      *)
(* Publishing reads this state and changes none of it.                     *)
(***************************************************************************)
EXTENDS SessionRegistry

CONSTANTS
    MaxOwnerEpochs,   \* bound: ownership changes before capabilities freeze
    MaxRevision       \* bound: committed revisions

VARIABLES
    caps,             \* what the live session says it can do
    order,            \* ownerOrder of a session
    nextOrder,        \* nextOwnerOrder
    owners,           \* namespaceOwners, by scope
    ownerEpochs,      \* ownership epochs used so far
    revision,         \* revision of the namespace's state, by scope
    told,             \* the last extension_owner frame written to a session
    toldRevision,     \* the last extension_state frame written to a session
    inflight          \* per connection: a commit request on its way

busVars == <<caps, order, nextOrder, owners, ownerEpochs, revision,
             told, toldRevision, inflight>>
extensionVars == <<registryVars, busVars>>

Scopes == {KeyScope[k] : k \in Keys}
Capabilities == {"none", "capable", "eligible"}
Owners == [key : Keys, socket : Sockets, epoch : Nat]
OwnerFrames == [key : Keys \cup {None}, epoch : Nat]
Requests == [epoch : Nat, expected : Nat]

ASSUME BusAssumption ==
    /\ MaxOwnerEpochs \in Nat /\ MaxRevision \in Nat
    /\ None \notin Owners /\ None \notin OwnerFrames /\ None \notin Requests

BusTypeOK ==
    /\ caps \in [Keys -> Capabilities]
    /\ order \in [Keys -> Nat] /\ nextOrder \in Nat
    /\ owners \in [Scopes -> Owners \cup {None}]
    /\ ownerEpochs \in Nat
    /\ revision \in [Scopes -> 0..MaxRevision]
    /\ told \in [Keys -> OwnerFrames \cup {None}]
    /\ toldRevision \in [Keys -> 0..MaxRevision]
    /\ inflight \in [Sockets -> Requests \cup {None}]

BusInit ==
    /\ RegistryInit
    /\ caps = [k \in Keys |-> "none"]
    /\ order = [k \in Keys |-> 0] /\ nextOrder = 1
    /\ owners = [sc \in Scopes |-> None]
    /\ ownerEpochs = 0
    /\ revision = [sc \in Scopes |-> 0]
    /\ told = [k \in Keys |-> None]
    /\ toldRevision = [k \in Keys |-> 0]
    /\ inflight = [s \in Sockets |-> None]

-----------------------------------------------------------------------------
(* Election *)

Capable(sc) == {k \in Live : KeyScope[k] = sc /\ caps[k] # "none"}
Eligible(sc) == {k \in Capable(sc) : caps[k] = "eligible"}
(* Registration order decides; clients cannot backdate it.                 *)
Senior(sc) == CHOOSE k \in Eligible(sc) : \A j \in Eligible(sc) : order[k] <= order[j]

(* Mutant: the same session on another connection keeps the old epoch.     *)
ElectedByKey(sc) ==
    LET winner == Senior(sc)'
        now    == owners[sc]
    IN  CASE Eligible(sc)' = {} -> None
          [] Eligible(sc)' # {} /\ now # None /\ now.key = winner -> now
          [] OTHER -> [key |-> winner, socket |-> sessions'[winner].socket,
                       epoch |-> ownerEpochs + 1]

(* The owner of a scope when the handler has changed sessions and caps: a  *)
(* new winner, or the old one on a new socket, gets a fresh epoch.         *)
Elected(sc) ==
    LET winner == Senior(sc)'
        now    == owners[sc]
    IN  CASE Eligible(sc)' = {} -> None
          [] Eligible(sc)' # {} /\ now # None /\ now.key = winner
                /\ now.socket = sessions'[winner].socket -> now
          [] OTHER -> [key |-> winner, socket |-> sessions'[winner].socket,
                       epoch |-> ownerEpochs + 1]

OwnerFrame(owner) ==
    IF owner = None THEN [key |-> None, epoch |-> 0]
                    ELSE [key |-> owner.key, epoch |-> owner.epoch]

(* Mutant: only the winner hears of the change.                            *)
HearsOwnVictory(k, fresh) ==
    \/ k \in fresh
    \/ /\ owners'[KeyScope[k]] \notin {owners[KeyScope[k]], None}
       /\ owners'[KeyScope[k]].key = k

Hears(k, fresh) == k \in fresh \/ owners'[KeyScope[k]] # owners[KeyScope[k]]

(* recomputeNamespaceOwners: a changed owner is told to every capable      *)
(* session. The sessions in "fresh" have just said what they can do and    *)
(* are told owner and state anyway.                                        *)
Recompute(fresh) ==
    /\ owners' = [sc \in Scopes |-> Elected(sc)]
    /\ ownerEpochs' = IF \E sc \in Scopes : owners'[sc] \notin {owners[sc], None}
                      THEN ownerEpochs + 1 ELSE ownerEpochs
    /\ told' = [k \in Keys |-> LET sc == KeyScope[k] IN
          CASE k \notin Capable(sc)' -> None
            [] k \in Capable(sc)' /\ Hears(k, fresh) -> OwnerFrame(owners'[sc])
            [] OTHER -> told[k]]
    /\ toldRevision' = [k \in Keys |-> LET sc == KeyScope[k] IN
          CASE k \notin Capable(sc)' -> 0
            [] k \in Capable(sc)' /\ k \in fresh -> revision[sc]
            [] OTHER -> toldRevision[k]]

-----------------------------------------------------------------------------
(* The handlers that change sessions or their capabilities *)

RegisterCapable(s, k, p, can) ==
    /\ Register(s, k, p)
    /\ caps' = [caps EXCEPT ![k] = can]
    /\ order' = IF k \in Live THEN order ELSE [order EXCEPT ![k] = nextOrder]
    /\ nextOrder' = IF k \in Live THEN nextOrder ELSE nextOrder + 1
    /\ Recompute({k})
    /\ UNCHANGED <<revision, inflight>>

UpdateCapabilities(s, can) ==
    /\ Talking(s)
    /\ IsCurrent(s)
    /\ ownerEpochs < MaxOwnerEpochs
    /\ caps' = [caps EXCEPT ![bound[s]] = can]
    /\ UNCHANGED <<registryVars, order, nextOrder>>
    /\ Recompute({bound[s]})
    /\ UNCHANGED <<revision, inflight>>

(* The session of s ends with the connection, or the connection was        *)
(* replaced before and nothing changes; what s had still to say is lost.   *)
Leave(s) ==
    /\ inflight' = [inflight EXCEPT ![s] = None]
    /\ UNCHANGED <<order, nextOrder, revision>>
    /\ IF IsCurrent(s)
       THEN /\ caps' = [caps EXCEPT ![bound[s]] = "none"]
            /\ Recompute({})
       ELSE UNCHANGED <<caps, owners, ownerEpochs, told, toldRevision>>

CloseBus(s) == Close(s) /\ Leave(s)
UnregisterBus(s) == Unregister(s) /\ Leave(s)

-----------------------------------------------------------------------------
(* State *)

(* The client of s takes itself for the owner and sends a commit over a    *)
(* revision it knows of.                                                   *)
RequestCommit(s, expected) ==
    /\ IsCurrent(s)
    /\ inflight[s] = None
    /\ told[bound[s]] # None
    /\ told[bound[s]].key = bound[s]
    /\ expected <= toldRevision[bound[s]]
    /\ inflight' = [inflight EXCEPT ![s] =
                       [epoch |-> told[bound[s]].epoch, expected |-> expected]]
    /\ UNCHANGED <<registryVars, caps, order, nextOrder, owners, ownerEpochs,
                   revision, told, toldRevision>>

(* Mutant: the epoch of the request is not compared.                       *)
FencedWithoutEpoch(s) ==
    /\ IsCurrent(s)
    /\ caps[bound[s]] # "none"
    /\ LET owner == owners[KeyScope[bound[s]]]
       IN  owner # None /\ owner.key = bound[s] /\ owner.socket = s

(* The request of s comes from the owner as it is now.                     *)
Fenced(s) ==
    /\ IsCurrent(s)
    /\ caps[bound[s]] # "none"
    /\ owners[KeyScope[bound[s]]] = [key |-> bound[s], socket |-> s,
                                     epoch |-> inflight[s].epoch]

(* handleExtensionStateCommit: refused, failed on disk, or committed and   *)
(* told to every capable session of the scope.                             *)
HandleCommit(s) ==
    /\ Talking(s)
    /\ inflight[s] # None
    /\ inflight' = [inflight EXCEPT ![s] = None]
    /\ \/ UNCHANGED <<revision, toldRevision>>
       \/ LET sc == KeyScope[bound[s]] IN
          /\ Fenced(s)
          /\ inflight[s].expected = revision[sc]
          /\ revision[sc] < MaxRevision
          /\ revision' = [revision EXCEPT ![sc] = @ + 1]
          /\ toldRevision' = [k \in Keys |->
                IF k \in Capable(sc) THEN revision[sc] + 1 ELSE toldRevision[k]]
    /\ UNCHANGED <<registryVars, caps, order, nextOrder, owners, ownerEpochs, told>>

-----------------------------------------------------------------------------
BusNext ==
    \/ \E s \in Sockets :
          \/ /\ UNCHANGED busVars
             /\ \/ Connect(s) \/ RegistrationTimeout(s) \/ Destroy(s)
                \/ \E k \in Keys : RefuseRegister(s, k)
                \/ \E p \in Profiles : Presence(s, p)
          \/ CloseBus(s) \/ UnregisterBus(s) \/ HandleCommit(s)
          \/ \E k \in Keys, p \in Profiles, can \in Capabilities : RegisterCapable(s, k, p, can)
          \/ \E can \in Capabilities : UpdateCapabilities(s, can)
          \/ \E expected \in 0..MaxRevision : RequestCommit(s, expected)
    \/ \E k \in Keys : ForgetDisconnected(k) /\ UNCHANGED busVars

BusSpec == BusInit /\ [][BusNext]_extensionVars

-----------------------------------------------------------------------------
(* Properties *)

(* After every handler the owner of a scope is its longest registered      *)
(* eligible session, on the connection that session has now.               *)
OwnerIsSeniorEligible ==
    \A sc \in Scopes :
        IF Eligible(sc) = {} THEN owners[sc] = None
        ELSE /\ owners[sc] # None
             /\ owners[sc].key = Senior(sc)
             /\ owners[sc].socket = sessions[Senior(sc)].socket

(* What a capable session was told last is the owner, the epoch and the    *)
(* revision of now, whoever joined, left, took over or committed since.    *)
CapableSessionsAreUpToDate ==
    \A sc \in Scopes : \A k \in Capable(sc) :
        told[k] = OwnerFrame(owners[sc]) /\ toldRevision[k] = revision[sc]

(* A commit that travelled while ownership moved, even away and back, does *)
(* not count: the state only changes by a request that all capable         *)
(* sessions would agree on now, the owner's, in its epoch, over what all   *)
(* of them have been told.                                                 *)
StaleOwnersNeverCommit ==
    [][\A sc \in Scopes : revision'[sc] # revision[sc] =>
          \E s \in Sockets :
              /\ inflight[s] # None /\ inflight'[s] = None
              /\ \A k \in Capable(sc) :
                    /\ told[k] = [key |-> bound[s], epoch |-> inflight[s].epoch]
                    /\ toldRevision[k] = inflight[s].expected]_extensionVars
===============================================================================
