------------------------------ MODULE Broker_proofs ------------------------------
(***************************************************************************)
(* Theorems about the three modules of the broker's runtime, for any       *)
(* number of connections, sessions and messages.                           *)
(*                                                                         *)
(* SessionRegistry: takeovers and late frames never detach a live session  *)
(* from its connection, and names stay unique. The invariant is inductive  *)
(* because of two additions to the checked ones: an info carries the key   *)
(* it is stored under (InfosKeyed), and no connection waits twice (Once),  *)
(* without which removing one entry of the waiting line would not make the *)
(* connection safe from eviction.                                          *)
(*                                                                         *)
(* ExtensionBus: the bus only does to sessions what SessionRegistry        *)
(* allows, the owner of a namespace is the senior eligible session on its  *)
(* present connection, and no stale request commits. What a capable        *)
(* session was told stays right because a session is only skipped by       *)
(* Recompute when the owner of its scope did not change.                   *)
(*                                                                         *)
(* LocalBroker:                                                            *)
(*  - its steps are registry steps or leave the registry alone;            *)
(*  - types, pending asks with their files, and who is handed what, for    *)
(*    any retention and any failing write;                                 *)
(*  - one message from its first send to its verdict (Good, Moves), where  *)
(*    records are neither forgotten nor lost after the frame: at most one  *)
(*    frame, truthful records, final withdrawals, and MailService;         *)
(*  - replies, where an ask is not staged without its frame.               *)
(***************************************************************************)
EXTENDS LocalBroker, ExtensionBus, FiniteSetTheorems, SequenceTheorems,
        WellFoundedInduction, TLAPS

-----------------------------------------------------------------------------
(* The session registry                                                    *)

Links == {"closed", "open", "ended", "destroyed"}
Once(seq) == \A i, j \in 1..Len(seq) : seq[i] = seq[j] => i = j

(* Once the waiting line has no duplicates, Without really takes s out.    *)
LEMMA WithoutProperties ==
    ASSUME NEW seq \in Seq(Sockets), NEW s \in Sockets, Once(seq)
    PROVE  /\ Without(seq, s) \in Seq(Sockets)
           /\ Once(Without(seq, s))
           /\ ~Listed(Without(seq, s), s)
           /\ \A x \in Sockets : Listed(Without(seq, s), x) => Listed(seq, x)
           /\ Len(Without(seq, s)) <= Len(seq)
<1>1. CASE ~Listed(seq, s)
  BY <1>1 DEF Without
<1>2. CASE Listed(seq, s)
  <2> DEFINE i == CHOOSE n \in 1..Len(seq) : seq[n] = s
             front == SubSeq(seq, 1, i - 1)
             back == SubSeq(seq, i + 1, Len(seq))
             new == Without(seq, s)
  <2>1. i \in 1..Len(seq) /\ seq[i] = s
    BY <1>2 DEF Listed
  <2> HIDE DEF i
  <2>2. new = front \o back
    BY <1>2 DEF Without, i
  <2>3. /\ front \in Seq(Sockets) /\ Len(front) = i - 1
        /\ \A n \in 1..(i - 1) : front[n] = seq[n]
    <3>1. /\ 1 \in Int /\ i - 1 \in Int
          /\ \A n \in 1..(i - 1) : seq[n] \in Sockets
      BY <2>1
    <3>2. /\ front \in Seq(Sockets)
          /\ Len(front) = IF 1 <= i - 1 THEN (i - 1) - 1 + 1 ELSE 0
          /\ \A n \in 1..((i - 1) - 1 + 1) : front[n] = seq[1 + n - 1]
      BY <3>1, SubSeqProperties
    <3> QED BY <2>1, <3>2
  <2>4. /\ back \in Seq(Sockets) /\ Len(back) = Len(seq) - i
        /\ \A n \in 1..(Len(seq) - i) : back[n] = seq[n + i]
    <3>1. /\ i + 1 \in Int /\ Len(seq) \in Int
          /\ \A n \in (i + 1)..Len(seq) : seq[n] \in Sockets
      BY <2>1
    <3>2. /\ back \in Seq(Sockets)
          /\ Len(back) = IF i + 1 <= Len(seq) THEN Len(seq) - (i + 1) + 1 ELSE 0
          /\ \A n \in 1..(Len(seq) - (i + 1) + 1) : back[n] = seq[(i + 1) + n - 1]
      BY <3>1, SubSeqProperties
    <3> QED BY <2>1, <3>2
  <2>5. /\ new \in Seq(Sockets) /\ Len(new) = Len(seq) - 1
        /\ \A n \in 1..(Len(seq) - 1) : new[n] = IF n < i THEN seq[n] ELSE seq[n + 1]
    <3>1. /\ front \o back \in Seq(Sockets)
          /\ Len(front \o back) = Len(front) + Len(back)
          /\ \A n \in 1..(Len(front) + Len(back)) :
                (front \o back)[n] = IF n <= Len(front) THEN front[n] ELSE back[n - Len(front)]
      BY <2>3, <2>4, ConcatProperties
    <3> HIDE DEF front, back, new
    <3> QED BY <2>1, <2>2, <2>3, <2>4, <3>1
  <2> HIDE DEF new
  <2>6. Once(new)
    BY <2>1, <2>5 DEF Once
  <2>7. ~Listed(new, s)
    BY <2>1, <2>5 DEF Once, Listed
  <2>8. \A x \in Sockets : Listed(new, x) => Listed(seq, x)
    BY <2>1, <2>5 DEF Listed
  <2> QED BY <2>5, <2>6, <2>7, <2>8 DEF new
<1> QED BY <1>1, <1>2

-----------------------------------------------------------------------------
InfosKeyed == \A k \in Live : sessions[k].info.key = k

IInv == /\ RegistryTypeOK
        /\ Once(unregistered)
        /\ InfosKeyed
        /\ SessionsHoldTheirSocket
        /\ NamesAddressOneSession
        /\ LiveOrRemembered
        /\ EvictionSparesSessions

(* What dedupeSessionName returns is free in the scope.                    *)
LEMMA DedupedIsFree ==
    ASSUME NEW k \in Keys, NEW p \in Profiles, NEW name \in Deduped(p.name, k)
    PROVE  /\ name \in Tokens \cup {None}
           /\ name = None \/ ~Taken(name, k)
<1> DEFINE base == p.name
<1>0. MaxSuffix \in Nat \ {0}
  BY RegistryAssumption
<1>1. base \in Bases \cup {None}
  BY DEF Bases
<1> HIDE DEF base
<1>2. CASE base = None
  BY <1>2 DEF Deduped, base
<1>3. CASE base # None /\ ~Taken(<<base, 1>>, k)
  <2>1. name = <<base, 1>>
    BY <1>3 DEF Deduped, base
  <2> QED BY <2>1, <1>0, <1>1, <1>3 DEF Tokens
<1>4. CASE base # None /\ Taken(<<base, 1>>, k)
  <2>1. PICK n \in 2..MaxSuffix : name = <<base, n>> /\ ~Taken(<<base, n>>, k)
    BY <1>4 DEF Deduped, base
  <2> QED BY <2>1, <1>0, <1>1, <1>4 DEF Tokens
<1> QED BY <1>2, <1>3, <1>4

(* Arming the timeout of s lists s, and only drops others from the line.   *)
LEMMA ArmTimeoutProperties ==
    ASSUME IInv, NEW s \in Sockets, NEW links \in [Sockets -> Links], ArmTimeout(s, links)
    PROVE  /\ unregistered' \in Seq(Sockets)
           /\ Once(unregistered')
           /\ Len(unregistered') <= MaxUnregistered
           /\ \A x \in Sockets : Listed(unregistered', x) => x = s \/ Listed(unregistered, x)
           /\ link' \in [Sockets -> Links]
           /\ \A x \in Sockets : link'[x] \in {links[x], "destroyed"}
<1> DEFINE rest == Without(unregistered, s)
           queue == Append(rest, s)
<1>0. MaxUnregistered \in Nat \ {0}
  BY RegistryAssumption
<1>1. /\ rest \in Seq(Sockets) /\ Once(rest) /\ ~Listed(rest, s)
      /\ \A x \in Sockets : Listed(rest, x) => Listed(unregistered, x)
      /\ Len(rest) <= MaxUnregistered
  BY <1>0, WithoutProperties DEF IInv, RegistryTypeOK, EvictionSparesSessions
<1> HIDE DEF rest
<1>2. /\ queue \in Seq(Sockets) /\ Len(queue) = Len(rest) + 1
      /\ \A i \in 1..Len(rest) : queue[i] = rest[i]
      /\ queue[Len(rest) + 1] = s /\ queue # <<>>
  BY <1>1, AppendProperties
<1>3. Once(queue)
  BY <1>1, <1>2 DEF Once, Listed
<1>4. \A x \in Sockets : Listed(queue, x) => x = s \/ Listed(unregistered, x)
  BY <1>1, <1>2 DEF Listed
<1>5. CASE Len(queue) > MaxUnregistered
  <2>1. unregistered' = Tail(queue) /\ link' = [links EXCEPT ![Head(queue)] = "destroyed"]
    BY <1>5 DEF ArmTimeout, rest
  <2> HIDE DEF queue
  <2>2. /\ Head(queue) \in Sockets /\ Tail(queue) \in Seq(Sockets)
        /\ Len(Tail(queue)) = Len(queue) - 1
        /\ \A i \in 1..Len(Tail(queue)) : Tail(queue)[i] = queue[i + 1]
    BY <1>2, HeadTailProperties
  <2>3. Once(Tail(queue)) /\ \A x \in Sockets : Listed(Tail(queue), x) => Listed(queue, x)
    BY <1>2, <1>3, <2>2 DEF Once, Listed
  <2> QED BY <1>0, <1>1, <1>2, <1>4, <2>1, <2>2, <2>3 DEF Links
<1>6. CASE ~(Len(queue) > MaxUnregistered)
  <2>1. unregistered' = queue /\ link' = links
    BY <1>6 DEF ArmTimeout, rest
  <2> QED BY <1>0, <1>2, <1>3, <1>4, <1>6, <2>1
<1> QED BY <1>5, <1>6

-----------------------------------------------------------------------------
(* Steps that only touch links keep the invariant as long as they close no *)
(* connection.                                                             *)
LEMMA LinkStepIInv ==
    ASSUME IInv, UNCHANGED <<bound, unregistered, sessions, disconnected, epochs>>,
           NEW s \in Sockets, link' = [link EXCEPT ![s] = "destroyed"]
    PROVE  IInv'
BY DEF IInv, RegistryTypeOK, InfosKeyed, SessionsHoldTheirSocket, NamesAddressOneSession,
       LiveOrRemembered, EvictionSparesSessions, Live, Once, Listed, Taken, SameScope

(* A session's end, by the close or by an unregister of its own socket s.  *)
LEMMA MaybeEnd ==
    ASSUME IInv, NEW s \in Sockets, bound[s] # None,
           IF IsCurrent(s) THEN EndSession(bound[s]) ELSE UNCHANGED <<sessions, disconnected>>
    PROVE  /\ sessions' \in [Keys -> SessionRecords \cup {None}]
           /\ disconnected' \in [Keys -> Infos \cup {None}]
           /\ \A k \in Keys : sessions'[k] \in {sessions[k], None}
           /\ \A k \in Keys : sessions'[k] # None => /\ disconnected'[k] = None
                                                     /\ sessions[k].socket # s
           /\ \A k \in Keys : sessions[k] # None /\ sessions'[k] = None => sessions[k].socket = s
<1>1. bound[s] \in Keys /\ (sessions[bound[s]] # None => sessions[bound[s]].info \in Infos)
  BY DEF IInv, RegistryTypeOK, SessionRecords
<1>2. \A k \in Live : sessions[k].socket = s => bound[s] = k
  BY DEF IInv, SessionsHoldTheirSocket
<1>3. CASE IsCurrent(s)
  BY <1>1, <1>2, <1>3 DEF IInv, RegistryTypeOK, IsCurrent, EndSession, LiveOrRemembered, Live
<1>4. CASE ~IsCurrent(s)
  BY <1>1, <1>2, <1>4 DEF IInv, RegistryTypeOK, IsCurrent, LiveOrRemembered, Live
<1> QED BY <1>3, <1>4

LEMMA ConnectIInv ==
    ASSUME IInv, NEW s \in Sockets, Connect(s)
    PROVE  IInv'
<1> DEFINE links == [link EXCEPT ![s] = "open"]
<1>1. links \in [Sockets -> Links] /\ ArmTimeout(s, links)
  BY DEF Connect, IInv, RegistryTypeOK, Links
<1>2. /\ unregistered' \in Seq(Sockets) /\ Once(unregistered')
      /\ Len(unregistered') <= MaxUnregistered
      /\ \A x \in Sockets : Listed(unregistered', x) => x = s \/ Listed(unregistered, x)
      /\ link' \in [Sockets -> Links]
      /\ \A x \in Sockets : link'[x] \in {links[x], "destroyed"}
  BY <1>1, ArmTimeoutProperties
<1>3. \A k \in Live : sessions[k].socket \in Sockets \ {s}
  BY DEF Connect, IInv, RegistryTypeOK, SessionsHoldTheirSocket, SessionRecords, Live
<1> QED BY <1>2, <1>3 DEF Connect, Links, IInv, RegistryTypeOK, InfosKeyed, SessionsHoldTheirSocket,
       NamesAddressOneSession, LiveOrRemembered, EvictionSparesSessions, Live, SameScope

LEMMA CloseIInv ==
    ASSUME IInv, NEW s \in Sockets, Close(s)
    PROVE  IInv'
<1>1. /\ unregistered' \in Seq(Sockets) /\ Once(unregistered')
      /\ Len(unregistered') <= MaxUnregistered
      /\ \A x \in Sockets : Listed(unregistered', x) => Listed(unregistered, x)
  BY WithoutProperties, RegistryAssumption
     DEF Close, IInv, RegistryTypeOK, EvictionSparesSessions
<1>2. /\ sessions' \in [Keys -> SessionRecords \cup {None}]
      /\ disconnected' \in [Keys -> Infos \cup {None}]
      /\ \A k \in Keys : sessions'[k] \in {sessions[k], None}
      /\ \A k \in Keys : sessions'[k] # None => /\ disconnected'[k] = None
                                                /\ sessions[k].socket # s
  <2>1. CASE bound[s] # None
    BY <2>1, MaybeEnd DEF Close
  <2>2. CASE bound[s] = None
    <3>1. UNCHANGED <<sessions, disconnected>>
      BY <2>2 DEF Close, IsCurrent
    <3>2. \A k \in Live : k # None /\ sessions[k].socket # s
      BY <2>2, RegistryAssumption DEF IInv, SessionsHoldTheirSocket, Live
    <3> QED BY <3>1, <3>2 DEF IInv, RegistryTypeOK, LiveOrRemembered, Live
  <2> QED BY <2>1, <2>2
<1>3. \A k \in Live : sessions[k].socket \in Sockets
  BY DEF IInv, RegistryTypeOK, SessionRecords, Live
<1> QED BY <1>1, <1>2, <1>3 DEF Close, IInv, RegistryTypeOK, InfosKeyed, SessionsHoldTheirSocket,
       NamesAddressOneSession, LiveOrRemembered, EvictionSparesSessions, Live, SameScope

LEMMA UnregisterIInv ==
    ASSUME IInv, NEW s \in Sockets, Unregister(s)
    PROVE  IInv'
<1>1. /\ unregistered' \in Seq(Sockets) /\ Once(unregistered')
      /\ Len(unregistered') <= MaxUnregistered
      /\ \A x \in Sockets : Listed(unregistered', x) => x = s \/ Listed(unregistered, x)
      /\ link' \in [Sockets -> Links]
      /\ \A x \in Sockets : link'[x] \in {link[x], "destroyed"}
  BY ArmTimeoutProperties DEF Unregister, IInv, RegistryTypeOK, Links
<1>2. /\ sessions' \in [Keys -> SessionRecords \cup {None}]
      /\ disconnected' \in [Keys -> Infos \cup {None}]
      /\ \A k \in Keys : sessions'[k] \in {sessions[k], None}
      /\ \A k \in Keys : sessions'[k] # None => /\ disconnected'[k] = None
                                                /\ sessions[k].socket # s
  BY MaybeEnd DEF Unregister
<1>3. \A k \in Live : sessions[k].socket \in Sockets
  BY DEF IInv, RegistryTypeOK, SessionRecords, Live
<1>4. /\ bound' = [bound EXCEPT ![s] = None]
      /\ epochs' = epochs
      /\ Live' \subseteq Live
      /\ \A k \in Live' : sessions'[k] = sessions[k] /\ disconnected'[k] = None
  BY <1>2 DEF Unregister, Live
<1>5. RegistryTypeOK'
  BY <1>1, <1>2, <1>4 DEF IInv, RegistryTypeOK, Links
<1>6. SessionsHoldTheirSocket' /\ EvictionSparesSessions'
  BY <1>1, <1>2, <1>3, <1>4
     DEF IInv, RegistryTypeOK, SessionsHoldTheirSocket, EvictionSparesSessions, Live
<1>7. InfosKeyed' /\ NamesAddressOneSession' /\ LiveOrRemembered'
  BY <1>4 DEF IInv, InfosKeyed, NamesAddressOneSession, LiveOrRemembered, SameScope
<1> QED BY <1>1, <1>5, <1>6, <1>7 DEF IInv

LEMMA RegisterIInv ==
    ASSUME IInv, NEW s \in Sockets, NEW k \in Keys, NEW p \in Profiles, Register(s, k, p)
    PROVE  IInv'
<1>1. PICK name \in Deduped(p.name, k) :
         sessions' = [sessions EXCEPT ![k] =
             [socket |-> s, epoch |-> epochs[k] + 1, info |-> Info(k, name, p)]]
  BY DEF Register
<1> DEFINE info == Info(k, name, p)
<1>2. name \in Tokens \cup {None} /\ (name = None \/ ~Taken(name, k))
  BY DedupedIsFree
<1>3. /\ info \in Infos /\ info.key = k /\ info.name = name
  BY <1>2, RegistryAssumption DEF Info, Infos, Cwds, Supervisors
<1> HIDE DEF info
<1> DEFINE record == [socket |-> s, epoch |-> epochs[k] + 1, info |-> info]
<1>4. /\ record \in SessionRecords /\ record # None
      /\ record.socket = s /\ record.info = info
  <2>1. s \in Sockets /\ epochs[k] + 1 \in Nat /\ info \in Infos
    BY <1>3 DEF IInv, RegistryTypeOK
  <2>2. record \in SessionRecords
    BY <2>1 DEF SessionRecords
  <2> QED BY <2>2, RegistryAssumption
<1> HIDE DEF record
<1>5. sessions' = [sessions EXCEPT ![k] = record]
  BY <1>1 DEF info, record
<1>6. /\ unregistered' \in Seq(Sockets) /\ Once(unregistered')
      /\ Len(unregistered') <= MaxUnregistered
      /\ ~Listed(unregistered', s)
      /\ \A x \in Sockets : Listed(unregistered', x) => Listed(unregistered, x)
  <2>1. unregistered' = Without(unregistered, s)
    BY DEF Register
  <2>2. /\ unregistered \in Seq(Sockets) /\ Once(unregistered)
        /\ Len(unregistered) <= MaxUnregistered /\ MaxUnregistered \in Nat
    BY RegistryAssumption DEF IInv, RegistryTypeOK, EvictionSparesSessions
  <2> QED BY <2>1, <2>2, WithoutProperties
<1>7. /\ link' \in [Sockets -> Links]
      /\ \A x \in Sockets : link'[x] = "closed" => link[x] = "closed"
  BY DEF Register, IInv, RegistryTypeOK, Links
<1>8. link[s] # "closed" /\ bound[s] = None /\ bound' = [bound EXCEPT ![s] = k]
  BY DEF Register, Talking
<1>9. /\ disconnected' = [disconnected EXCEPT ![k] = None]
      /\ epochs' = [epochs EXCEPT ![k] = @ + 1]
  BY DEF Register
<1>10. \A j \in Live : sessions[j].socket \in Sockets \ {s}
  BY <1>8, RegistryAssumption DEF IInv, RegistryTypeOK, SessionsHoldTheirSocket, SessionRecords, Live
<1>11. /\ Live' = Live \cup {k}
       /\ \A j \in Live' : j # k => j \in Live /\ sessions'[j] = sessions[j]
       /\ sessions'[k] = record
  BY <1>4, <1>5 DEF IInv, RegistryTypeOK, Live
<1>12. RegistryTypeOK'
  BY <1>4, <1>5, <1>6, <1>7, <1>8, <1>9 DEF IInv, RegistryTypeOK, Links
<1>13. \A j \in Live' : j # k => sessions'[j].socket \in Sockets \ {s}
  BY <1>10, <1>11
<1>14. SessionsHoldTheirSocket'
  <2> SUFFICES ASSUME NEW j \in Live'
               PROVE  bound'[sessions'[j].socket] = j /\ link'[sessions'[j].socket] # "closed"
    BY DEF SessionsHoldTheirSocket
  <2>1. CASE j = k
    BY <2>1, <1>4, <1>7, <1>8, <1>11 DEF IInv, RegistryTypeOK
  <2>2. CASE j # k
    BY <2>2, <1>7, <1>8, <1>11, <1>13 DEF IInv, RegistryTypeOK, SessionsHoldTheirSocket
  <2> QED BY <2>1, <2>2
<1>15. EvictionSparesSessions'
  BY <1>4, <1>6, <1>11, <1>13 DEF IInv, EvictionSparesSessions
<1>16. NamesAddressOneSession'
  <2>1. \A j \in Live : j # k /\ SameScope(j, k) => name = None \/ sessions[j].info.name # name
    BY <1>2 DEF Taken
  <2> QED BY <2>1, <1>3, <1>4, <1>11 DEF IInv, NamesAddressOneSession, SameScope
<1>17. InfosKeyed' /\ LiveOrRemembered'
  BY <1>3, <1>4, <1>9, <1>11 DEF IInv, RegistryTypeOK, InfosKeyed, LiveOrRemembered
<1> QED BY <1>6, <1>12, <1>14, <1>15, <1>16, <1>17 DEF IInv

LEMMA PresenceIInv ==
    ASSUME IInv, NEW s \in Sockets, NEW p \in Profiles, Presence(s, p)
    PROVE  IInv' /\ Live' = Live
<1>0. PICK me \in Live : me = bound[s]
  BY DEF Presence, IsCurrent, IInv, RegistryTypeOK, Live
<1> DEFINE old == sessions[me]
<1>1. me \in Keys /\ me \in Live /\ old \in SessionRecords
  BY DEF IInv, RegistryTypeOK, Live
<1>2. PICK name \in Deduped(p.name, me) :
         sessions' = [sessions EXCEPT ![me].info = Renamed(old.info, name, p)]
  BY <1>0 DEF Presence
<1>3. name \in Tokens \cup {None} /\ (name = None \/ ~Taken(name, me))
  BY <1>1, DedupedIsFree DEF Live
<1> DEFINE newName == IF name = None THEN old.info.name ELSE name
           info == [old.info EXCEPT !.name = newName, !.alias = p.alias]
           record == [old EXCEPT !.info = info]
<1>4. sessions' = [sessions EXCEPT ![me] = record]
  BY <1>2 DEF Renamed
<1>5. /\ info \in Infos /\ info.key = old.info.key /\ info.name = newName
  BY <1>1, <1>3, RegistryAssumption DEF SessionRecords, Infos
<1> HIDE DEF info
<1>6. /\ record \in SessionRecords /\ record # None
      /\ record.socket = old.socket /\ record.info = info
  BY <1>1, <1>5, RegistryAssumption DEF SessionRecords
<1> HIDE DEF record
<1>7. /\ Live' = Live
      /\ \A j \in Live : j # me => sessions'[j] = sessions[j]
      /\ sessions'[me] = record
  BY <1>1, <1>4, <1>6 DEF IInv, RegistryTypeOK, Live
<1>8. UNCHANGED <<link, bound, unregistered, disconnected, epochs>>
  BY DEF Presence
<1>9. RegistryTypeOK'
  BY <1>4, <1>6, <1>8 DEF IInv, RegistryTypeOK
<1>10. SessionsHoldTheirSocket' /\ EvictionSparesSessions'
  BY <1>1, <1>6, <1>7, <1>8 DEF IInv, SessionsHoldTheirSocket, EvictionSparesSessions, Listed
<1>11. NamesAddressOneSession'
  <2>1. \A j \in Live :
           j # me /\ SameScope(j, me) /\ sessions[j].info.name = newName => newName = None
    <3>1. CASE name = None
      BY <1>1, <3>1 DEF IInv, NamesAddressOneSession, SameScope
    <3>2. CASE name # None
      BY <1>1, <1>3, <3>2 DEF Taken, SameScope
    <3> QED BY <3>1, <3>2
  <2> HIDE DEF newName
  <2> QED BY <2>1, <1>5, <1>6, <1>7 DEF IInv, NamesAddressOneSession, SameScope
<1>12. InfosKeyed' /\ LiveOrRemembered' /\ Once(unregistered')
  BY <1>1, <1>5, <1>6, <1>7, <1>8 DEF IInv, InfosKeyed, LiveOrRemembered, Once
<1> QED BY <1>7, <1>9, <1>10, <1>11, <1>12 DEF IInv

LEMMA InitIInv == RegistryInit => IInv
BY RegistryAssumption, EmptySeq
   DEF RegistryInit, IInv, RegistryTypeOK, Once, InfosKeyed, SessionsHoldTheirSocket,
       NamesAddressOneSession, LiveOrRemembered, EvictionSparesSessions, Live, Listed

LEMMA NextIInv == IInv /\ [RegistryNext]_registryVars => IInv'
<1> SUFFICES ASSUME IInv, [RegistryNext]_registryVars PROVE IInv'
  OBVIOUS
<1>1. ASSUME NEW s \in Sockets, RegistrationTimeout(s) PROVE IInv'
  BY <1>1, LinkStepIInv DEF RegistrationTimeout
<1>2. ASSUME NEW s \in Sockets, Destroy(s) PROVE IInv'
  BY <1>2, LinkStepIInv DEF Destroy
<1>3. ASSUME NEW s \in Sockets, NEW k \in Keys, RefuseRegister(s, k) PROVE IInv'
  BY <1>3, LinkStepIInv DEF RefuseRegister
<1>4. ASSUME NEW k \in Keys, ForgetDisconnected(k) PROVE IInv'
  BY <1>4 DEF ForgetDisconnected, IInv, RegistryTypeOK, Once, InfosKeyed, SessionsHoldTheirSocket,
     NamesAddressOneSession, LiveOrRemembered, EvictionSparesSessions, Live, Listed, SameScope
<1>5. CASE UNCHANGED registryVars
  BY <1>5 DEF registryVars, IInv, RegistryTypeOK, Once, InfosKeyed, SessionsHoldTheirSocket,
     NamesAddressOneSession, LiveOrRemembered, EvictionSparesSessions, Live, Listed, SameScope
<1> QED BY <1>1, <1>2, <1>3, <1>4, <1>5, ConnectIInv, CloseIInv, UnregisterIInv,
           RegisterIInv, PresenceIInv DEF RegistryNext

(* The strengthened invariant holds in every reachable state.              *)
THEOREM InductiveInvariant == RegistrySpec => []IInv
BY InitIInv, NextIInv, PTL DEF RegistrySpec

(* Every variable of the registry keeps its type.                          *)
THEOREM TypeCorrect == RegistrySpec => []RegistryTypeOK
<1>1. IInv => RegistryTypeOK
  BY DEF IInv
<1> QED BY <1>1, InductiveInvariant, PTL

(* handleConnection's closures and the session map agree: a live session   *)
(* always has its own open, ended or dying connection behind it.           *)
THEOREM TakeoversKeepTheSocket == RegistrySpec => []SessionsHoldTheirSocket
<1>1. IInv => SessionsHoldTheirSocket
  BY DEF IInv
<1> QED BY <1>1, InductiveInvariant, PTL

(* dedupeSessionName keeps the names of live sessions unique in a scope    *)
(* over any sequence of registrations, takeovers and renames.              *)
THEOREM NamesStayUnique == RegistrySpec => []NamesAddressOneSession
<1>1. IInv => NamesAddressOneSession
  BY DEF IInv
<1> QED BY <1>1, InductiveInvariant, PTL

(* A session is live or remembered for its mail, never both.               *)
THEOREM LiveIsNotRemembered == RegistrySpec => []LiveOrRemembered
<1>1. IInv => LiveOrRemembered
  BY DEF IInv
<1> QED BY <1>1, InductiveInvariant, PTL

(* armRegistrationTimeout never destroys a registered session's socket.    *)
THEOREM EvictionIsSafe == RegistrySpec => []EvictionSparesSessions
<1>1. IInv => EvictionSparesSessions
  BY DEF IInv
<1> QED BY <1>1, InductiveInvariant, PTL

(* Only the close or the unregister of a session's own socket ends it.     *)
THEOREM LateFramesEndNothing == RegistrySpec => OnlyItsSocketEndsASession
<1> DEFINE Ends(k) == k \in Live /\ sessions'[k] = None
           A == \A k \in Keys : Ends(k) => bound'[sessions[k].socket] = None
<1>1. ASSUME IInv, RegistryNext, NEW k \in Keys, Ends(k) PROVE bound'[sessions[k].socket] = None
  <2> USE <1>1
  <2>1. sessions'[k] # sessions[k] /\ sessions[k] # None
    BY DEF Live
  <2>2. ASSUME NEW s \in Sockets, Close(s) \/ Unregister(s) PROVE bound'[sessions[k].socket] = None
    <3>1. bound[s] # None /\ bound' = [bound EXCEPT ![s] = None]
      BY <2>1, <2>2 DEF Close, Unregister, IsCurrent
    <3>2. sessions[k].socket = s
      BY <2>1, <2>2, <3>1, MaybeEnd DEF Close, Unregister
    <3> QED BY <3>1, <3>2 DEF IInv, RegistryTypeOK
  <2>3. ASSUME NEW s \in Sockets, NEW j \in Keys, NEW p \in Profiles, Register(s, j, p)
        PROVE  FALSE
    <3>1. \A i \in Keys : i # j => sessions'[i] = sessions[i]
      BY <2>3 DEF Register, IInv, RegistryTypeOK
    <3>2. j = k
      BY <2>1, <3>1
    <3>3. PICK name \in Deduped(p.name, k) :
             sessions' = [sessions EXCEPT ![k] =
                 [socket |-> s, epoch |-> epochs[k] + 1, info |-> Info(k, name, p)]]
      BY <2>3, <3>2 DEF Register
    <3>4. name \in Tokens \cup {None}
      BY DedupedIsFree
    <3>5. Info(k, name, p) \in Infos
      BY <3>4, RegistryAssumption DEF Info, Infos, Cwds, Supervisors
    <3>6. [socket |-> s, epoch |-> epochs[k] + 1, info |-> Info(k, name, p)] \in SessionRecords
      BY <3>5 DEF IInv, RegistryTypeOK, SessionRecords
    <3> QED BY <3>3, <3>6, <1>1, RegistryAssumption DEF IInv, RegistryTypeOK
  <2>4. ASSUME NEW s \in Sockets, NEW p \in Profiles, Presence(s, p) PROVE FALSE
    <3>1. Live' = Live
      BY <2>4, PresenceIInv
    <3> QED BY <3>1 DEF Live
  <2> QED BY <2>1, <2>2, <2>3, <2>4 DEF RegistryNext, Connect, RegistrationTimeout, Destroy,
            RefuseRegister, ForgetDisconnected
<1>2. IInv /\ [RegistryNext]_registryVars => [A]_registryVars
  BY <1>1
<1> QED BY <1>2, InductiveInvariant, PTL DEF OnlyItsSocketEndsASession, RegistrySpec

-----------------------------------------------------------------------------
(* The extension bus                                                       *)

(* Every bus step is a registry step or leaves the registry alone.         *)
LEMMA BusStepIsRegistryStep == [BusNext]_extensionVars => [RegistryNext]_registryVars
<1> SUFFICES ASSUME [BusNext]_extensionVars PROVE [RegistryNext]_registryVars
  OBVIOUS
<1>1. ASSUME NEW s \in Sockets,
             \/ Connect(s) \/ RegistrationTimeout(s) \/ Destroy(s)
             \/ \E k \in Keys : RefuseRegister(s, k)
             \/ \E p \in Profiles : Presence(s, p)
      PROVE  RegistryNext
  BY <1>1 DEF RegistryNext
<1>2. ASSUME NEW s \in Sockets, CloseBus(s) \/ UnregisterBus(s) PROVE RegistryNext
  BY <1>2 DEF CloseBus, UnregisterBus, RegistryNext
<1>3. ASSUME NEW s \in Sockets, HandleCommit(s) PROVE UNCHANGED registryVars
  BY <1>3 DEF HandleCommit
<1>4. ASSUME NEW s \in Sockets, NEW k \in Keys, NEW p \in Profiles, NEW can \in Capabilities,
             RegisterCapable(s, k, p, can)
      PROVE  RegistryNext
  BY <1>4 DEF RegisterCapable, RegistryNext
<1>5. ASSUME NEW s \in Sockets, NEW can \in Capabilities, UpdateCapabilities(s, can)
      PROVE  UNCHANGED registryVars
  BY <1>5 DEF UpdateCapabilities
<1>6. ASSUME NEW s \in Sockets, NEW e \in 0..MaxRevision, RequestCommit(s, e)
      PROVE  UNCHANGED registryVars
  BY <1>6 DEF RequestCommit
<1>7. ASSUME NEW k \in Keys, ForgetDisconnected(k) PROVE RegistryNext
  BY <1>7 DEF RegistryNext
<1>8. CASE UNCHANGED extensionVars
  BY <1>8 DEF extensionVars
<1> QED BY <1>1, <1>2, <1>3, <1>4, <1>5, <1>6, <1>7, <1>8 DEF BusNext

(* The broker with its extension channels implements the registry.         *)
THEOREM BusImplementsRegistry == BusSpec => RegistrySpec
<1>1. BusInit => RegistryInit
  BY DEF BusInit
<1> QED BY <1>1, BusStepIsRegistryStep, PTL DEF BusSpec, RegistrySpec

-----------------------------------------------------------------------------
(* The least of a nonempty set by some numbering exists, however many      *)
(* members the set has.                                                    *)
LEMMA LeastExists ==
    ASSUME NEW S, NEW number \in [S -> Nat], S # {}
    PROVE  \E k \in S : \A j \in S : number[k] <= number[j]
<1> DEFINE T == {number[k] : k \in S}
           Less == OpToRel(<, Nat)
<1>1. T \subseteq Nat /\ T # {}
  OBVIOUS
<1>2. \A x, y \in Nat : x < y => <<x, y>> \in Less
  BY DEF OpToRel
<1>3. IsWellFoundedOn(Less, Nat)
  BY NatLessThanWellFounded
<1> HIDE DEF T, Less
<1>4. PICK x \in T : \A y \in T : ~(<<y, x>> \in Less)
  BY <1>1, <1>3, WFMin
<1>5. \A y \in T : x <= y
  <2> SUFFICES ASSUME NEW y \in T PROVE x <= y
    OBVIOUS
  <2>1. x \in Nat /\ y \in Nat
    BY <1>1
  <2>2. ~(y < x)
    BY <1>2, <1>4, <2>1, Zenon
  <2> QED BY <2>1, <2>2
<1> QED BY <1>4, <1>5 DEF T

LEMMA SeniorIsEligible ==
    ASSUME NEW sc, order \in [Keys -> Nat], Eligible(sc) # {}
    PROVE  Senior(sc) \in Eligible(sc)
<1> DEFINE S == Eligible(sc)
           number == [k \in S |-> order[k]]
<1>1. S \subseteq Keys /\ S # {} /\ number \in [S -> Nat]
  BY DEF Eligible, Capable, Live
<1>2. \E k \in S : \A j \in S : number[k] <= number[j]
  BY <1>1, LeastExists
<1>3. \E k \in S : \A j \in S : order[k] <= order[j]
  BY <1>2
<1> QED BY <1>3 DEF Senior

LEMMA SeniorIsEligibleNext ==
    ASSUME NEW sc, (order \in [Keys -> Nat])', Eligible(sc)' # {}
    PROVE  Senior(sc)' \in Eligible(sc)'
<1> DEFINE S == Eligible(sc)'
           number == [k \in S |-> order'[k]]
<1>1. S \subseteq Keys /\ S # {} /\ number \in [S -> Nat]
  BY DEF Eligible, Capable, Live
<1>2. \E k \in S : \A j \in S : number[k] <= number[j]
  BY <1>1, LeastExists
<1>3. \E k \in S : \A j \in S : order'[k] <= order'[j]
  BY <1>2
<1> QED BY <1>3 DEF Senior

-----------------------------------------------------------------------------
BusIInv == /\ IInv
           /\ BusTypeOK
           /\ OwnerIsSeniorEligible
           /\ CapableSessionsAreUpToDate

(* The election of a step, whatever it did to sessions and capabilities.   *)
LEMMA ElectedProperties ==
    ASSUME BusTypeOK, RegistryTypeOK', caps' \in [Keys -> Capabilities],
           order' \in [Keys -> Nat], NEW sc \in Scopes
    PROVE  /\ Elected(sc) \in Owners \cup {None}
           /\ Eligible(sc)' = {} => Elected(sc) = None
           /\ Eligible(sc)' # {} => /\ Elected(sc) # None
                                    /\ Elected(sc).key = Senior(sc)'
                                    /\ Elected(sc).socket = sessions'[Senior(sc)'].socket
                                    /\ Elected(sc).epoch \in Nat
<1>1. CASE Eligible(sc)' = {}
  BY <1>1 DEF Elected
<1>2. CASE Eligible(sc)' # {}
  <2> DEFINE winner == Senior(sc)'
             new == [key |-> winner, socket |-> sessions'[winner].socket, epoch |-> ownerEpochs + 1]
  <2>1. winner \in Eligible(sc)'
    BY <1>2, SeniorIsEligibleNext
  <2>2. winner \in Keys /\ sessions'[winner].socket \in Sockets
    BY <2>1 DEF Eligible, Capable, Live, RegistryTypeOK, SessionRecords
  <2>3. ownerEpochs + 1 \in Nat
    BY DEF BusTypeOK
  <2> HIDE DEF winner
  <2>4. new \in Owners /\ new # None
    BY <2>2, <2>3, BusAssumption DEF Owners
  <2>5. CASE /\ owners[sc] # None /\ owners[sc].key = winner
             /\ owners[sc].socket = sessions'[winner].socket
    <3>1. Elected(sc) = owners[sc]
      BY <1>2, <2>5 DEF Elected, winner
    <3> QED BY <1>2, <2>5, <3>1 DEF BusTypeOK, Owners, winner
  <2>6. CASE ~(/\ owners[sc] # None /\ owners[sc].key = winner
               /\ owners[sc].socket = sessions'[winner].socket)
    <3>1. Elected(sc) = new
      BY <1>2, <2>6 DEF Elected, winner
    <3> QED BY <1>2, <2>4, <3>1 DEF winner, Owners
  <2> QED BY <2>5, <2>6
<1> QED BY <1>1, <1>2

LEMMA OwnerFrameIsAFrame ==
    ASSUME NEW owner \in Owners \cup {None}
    PROVE  OwnerFrame(owner) \in OwnerFrames
BY DEF OwnerFrame, OwnerFrames, Owners

(* Recompute restores what a change of sessions or capabilities broke, as  *)
(* long as whoever became capable is among the fresh sessions.             *)
LEMMA RecomputeRestores ==
    ASSUME BusIInv, NEW fresh, Recompute(fresh), UNCHANGED revision,
           RegistryTypeOK', caps' \in [Keys -> Capabilities], order' \in [Keys -> Nat],
           \A k \in Live' : caps'[k] # "none" => k \in fresh \/ (k \in Live /\ caps[k] # "none")
    PROVE  /\ owners' \in [Scopes -> Owners \cup {None}]
           /\ ownerEpochs' \in Nat
           /\ told' \in [Keys -> OwnerFrames \cup {None}]
           /\ toldRevision' \in [Keys -> 0..MaxRevision]
           /\ OwnerIsSeniorEligible'
           /\ CapableSessionsAreUpToDate'
<1>1. owners' = [sc \in Scopes |-> Elected(sc)]
  BY DEF Recompute
<1>2. BusTypeOK /\ CapableSessionsAreUpToDate
  BY DEF BusIInv
<1>3. \A sc \in Scopes :
         /\ owners'[sc] \in Owners \cup {None}
         /\ Eligible(sc)' = {} => owners'[sc] = None
         /\ Eligible(sc)' # {} => /\ owners'[sc] # None
                                  /\ owners'[sc].key = Senior(sc)'
                                  /\ owners'[sc].socket = sessions'[Senior(sc)'].socket
  BY <1>1, <1>2, ElectedProperties
<1>4. owners' \in [Scopes -> Owners \cup {None}]
  BY <1>1, <1>2, ElectedProperties
<1>5. ownerEpochs' \in Nat
  BY <1>2 DEF Recompute, BusTypeOK
<1>6. \A k \in Keys : KeyScope[k] \in Scopes
  BY DEF Scopes
<1>7. told' \in [Keys -> OwnerFrames \cup {None}]
  <2>1. \A k \in Keys : OwnerFrame(owners'[KeyScope[k]]) \in OwnerFrames
    BY <1>3, <1>6, OwnerFrameIsAFrame
  <2> QED BY <1>2, <2>1 DEF Recompute, BusTypeOK
<1>8. toldRevision' \in [Keys -> 0..MaxRevision]
  BY <1>2, <1>6, BusAssumption DEF Recompute, BusTypeOK
<1>9. OwnerIsSeniorEligible'
  BY <1>3 DEF OwnerIsSeniorEligible
<1>10. CapableSessionsAreUpToDate'
  <2> SUFFICES ASSUME NEW sc \in Scopes, NEW k \in Capable(sc)'
               PROVE  told'[k] = OwnerFrame(owners'[sc]) /\ toldRevision'[k] = revision[sc]
    BY DEF CapableSessionsAreUpToDate, OwnerFrame
  <2>1. k \in Keys /\ KeyScope[k] = sc /\ (k \notin fresh => k \in Capable(sc))
    BY DEF Capable, Live
  <2>2. k \notin fresh => told[k] = OwnerFrame(owners[sc]) /\ toldRevision[k] = revision[sc]
    BY <1>2, <2>1 DEF CapableSessionsAreUpToDate
  <2>3. CASE k \in fresh
    BY <2>1, <2>3 DEF Recompute, Hears
  <2>4. CASE k \notin fresh /\ owners'[sc] # owners[sc]
    BY <2>1, <2>2, <2>4 DEF Recompute, Hears
  <2>5. CASE k \notin fresh /\ owners'[sc] = owners[sc]
    BY <2>1, <2>2, <2>5 DEF Recompute, Hears
  <2> QED BY <2>3, <2>4, <2>5
<1> QED BY <1>4, <1>5, <1>7, <1>8, <1>9, <1>10

(* Steps that keep capabilities, owners and frames, and which connections  *)
(* serve which sessions.                                                   *)
LEMMA SteadyStep ==
    ASSUME BusIInv, Live' = Live, inflight' \in [Sockets -> Requests \cup {None}],
           UNCHANGED <<caps, order, nextOrder, owners, ownerEpochs, revision, told, toldRevision>>,
           \A k \in Live : sessions'[k].socket = sessions[k].socket
    PROVE  BusTypeOK' /\ OwnerIsSeniorEligible' /\ CapableSessionsAreUpToDate'
<1>1. /\ \A sc : Capable(sc)' = Capable(sc) /\ Eligible(sc)' = Eligible(sc)
      /\ \A sc : Senior(sc)' = Senior(sc)
  BY DEF Capable, Eligible, Senior
<1>2. BusTypeOK'
  BY DEF BusIInv, BusTypeOK
<1>3. OwnerIsSeniorEligible'
  <2>1. \A sc : Eligible(sc) # {} => Senior(sc) \in Live
    BY SeniorIsEligible DEF BusIInv, BusTypeOK, Eligible, Capable
  <2> QED BY <1>1, <2>1 DEF BusIInv, OwnerIsSeniorEligible
<1>4. CapableSessionsAreUpToDate'
  BY <1>1 DEF BusIInv, CapableSessionsAreUpToDate, OwnerFrame
<1> QED BY <1>2, <1>3, <1>4

LEMMA RegisterCapableBusIInv ==
    ASSUME BusIInv, NEW s \in Sockets, NEW k \in Keys, NEW p \in Profiles, NEW can \in Capabilities,
           RegisterCapable(s, k, p, can)
    PROVE  BusIInv'
<1>1. Register(s, k, p) /\ Recompute({k}) /\ UNCHANGED <<revision, inflight>>
  BY DEF RegisterCapable
<1>2. IInv'
  BY <1>1, RegisterIInv DEF BusIInv
<1>3. \A j \in Keys : j # k => sessions'[j] = sessions[j]
  BY <1>1 DEF Register, BusIInv, IInv, RegistryTypeOK
<1>4. /\ caps' \in [Keys -> Capabilities] /\ order' \in [Keys -> Nat] /\ nextOrder' \in Nat
      /\ \A j \in Keys : j # k => caps'[j] = caps[j]
  BY DEF RegisterCapable, BusIInv, BusTypeOK
<1>5. \A j \in Live' : caps'[j] # "none" => j \in {k} \/ (j \in Live /\ caps[j] # "none")
  BY <1>3, <1>4 DEF Live
<1>6. RegistryTypeOK'
  BY <1>2 DEF IInv
<1>7. /\ owners' \in [Scopes -> Owners \cup {None}]
      /\ ownerEpochs' \in Nat
      /\ told' \in [Keys -> OwnerFrames \cup {None}]
      /\ toldRevision' \in [Keys -> 0..MaxRevision]
      /\ OwnerIsSeniorEligible'
      /\ CapableSessionsAreUpToDate'
  BY <1>1, <1>4, <1>5, <1>6, RecomputeRestores
<1>8. BusTypeOK'
  BY <1>1, <1>4, <1>7 DEF BusIInv, BusTypeOK
<1> QED BY <1>2, <1>7, <1>8 DEF BusIInv

LEMMA UpdateCapabilitiesBusIInv ==
    ASSUME BusIInv, NEW s \in Sockets, NEW can \in Capabilities, UpdateCapabilities(s, can)
    PROVE  BusIInv'
<1> DEFINE me == bound[s]
<1>1. /\ Recompute({me}) /\ caps' = [caps EXCEPT ![me] = can]
      /\ UNCHANGED registryVars /\ UNCHANGED <<order, nextOrder, revision, inflight>>
  BY DEF UpdateCapabilities
<1>2. IInv'
  BY <1>1, NextIInv DEF BusIInv
<1>3. RegistryTypeOK' /\ Live' = Live
  BY <1>1, <1>2 DEF IInv, registryVars, Live
<1>4. /\ caps' \in [Keys -> Capabilities] /\ order' \in [Keys -> Nat]
      /\ \A j \in Keys : j # me => caps'[j] = caps[j]
  BY <1>1 DEF BusIInv, BusTypeOK
<1>5. \A j \in Live' : caps'[j] # "none" => j \in {me} \/ (j \in Live /\ caps[j] # "none")
  BY <1>3, <1>4 DEF Live
<1>6. /\ owners' \in [Scopes -> Owners \cup {None}]
      /\ ownerEpochs' \in Nat
      /\ told' \in [Keys -> OwnerFrames \cup {None}]
      /\ toldRevision' \in [Keys -> 0..MaxRevision]
      /\ OwnerIsSeniorEligible'
      /\ CapableSessionsAreUpToDate'
  BY <1>1, <1>3, <1>4, <1>5, RecomputeRestores
<1>7. BusTypeOK'
  BY <1>1, <1>4, <1>6 DEF BusIInv, BusTypeOK
<1> QED BY <1>2, <1>6, <1>7 DEF BusIInv

(* A session that leaves was capable and is not any more; one that was     *)
(* replaced before takes nothing along.                                    *)
LEMMA LeaveBusIInv ==
    ASSUME BusIInv, NEW s \in Sockets, CloseBus(s) \/ UnregisterBus(s)
    PROVE  BusIInv'
<1>1. /\ Leave(s)
      /\ inflight' = [inflight EXCEPT ![s] = None]
      /\ UNCHANGED <<order, nextOrder, revision>>
  BY DEF CloseBus, UnregisterBus, Leave
<1>2. IInv'
  BY CloseIInv, UnregisterIInv DEF CloseBus, UnregisterBus, BusIInv
<1>3. inflight' \in [Sockets -> Requests \cup {None}]
  BY <1>1 DEF BusIInv, BusTypeOK
<1>4. IF IsCurrent(s) THEN EndSession(bound[s]) ELSE UNCHANGED <<sessions, disconnected>>
  BY DEF CloseBus, UnregisterBus, Close, Unregister
<1>5. CASE IsCurrent(s)
  <2> DEFINE me == bound[s]
  <2>1. caps' = [caps EXCEPT ![me] = "none"] /\ Recompute({}) /\ sessions' = [sessions EXCEPT ![me] = None]
    BY <1>1, <1>4, <1>5 DEF Leave, EndSession
  <2>2. RegistryTypeOK'
    BY <1>2 DEF IInv
  <2>3. caps' \in [Keys -> Capabilities] /\ order' \in [Keys -> Nat]
    BY <1>1, <2>1 DEF BusIInv, BusTypeOK, Capabilities
  <2>4. \A j \in Live' : caps'[j] # "none" => j \in {} \/ (j \in Live /\ caps[j] # "none")
    BY <2>1 DEF Live, BusIInv, BusTypeOK, IInv, RegistryTypeOK
  <2>5. /\ owners' \in [Scopes -> Owners \cup {None}]
        /\ ownerEpochs' \in Nat
        /\ told' \in [Keys -> OwnerFrames \cup {None}]
        /\ toldRevision' \in [Keys -> 0..MaxRevision]
        /\ OwnerIsSeniorEligible'
        /\ CapableSessionsAreUpToDate'
    BY <1>1, <2>1, <2>2, <2>3, <2>4, RecomputeRestores
  <2>6. BusTypeOK'
    BY <1>1, <1>3, <2>3, <2>5 DEF BusIInv, BusTypeOK
  <2> QED BY <1>2, <2>5, <2>6 DEF BusIInv
<1>6. CASE ~IsCurrent(s)
  <2>1. /\ UNCHANGED <<caps, order, nextOrder, owners, ownerEpochs, revision, told, toldRevision>>
        /\ UNCHANGED sessions
    BY <1>1, <1>4, <1>6 DEF Leave
  <2>2. Live' = Live /\ \A k \in Live : sessions'[k].socket = sessions[k].socket
    BY <2>1 DEF Live
  <2> QED BY <1>2, <1>3, <2>1, <2>2, SteadyStep DEF BusIInv
<1> QED BY <1>5, <1>6

LEMMA RequestCommitBusIInv ==
    ASSUME BusIInv, NEW s \in Sockets, NEW e \in 0..MaxRevision, RequestCommit(s, e)
    PROVE  BusIInv'
<1>1. IInv' /\ Live' = Live /\ UNCHANGED sessions
  BY NextIInv DEF RequestCommit, BusIInv, registryVars, Live
<1>2. bound[s] \in Keys /\ told[bound[s]] \in OwnerFrames
  BY DEF RequestCommit, IsCurrent, BusIInv, BusTypeOK, IInv, RegistryTypeOK
<1>3. [epoch |-> told[bound[s]].epoch, expected |-> e] \in Requests
  BY <1>2, BusAssumption DEF OwnerFrames, Requests
<1>4. inflight' \in [Sockets -> Requests \cup {None}]
  BY <1>3 DEF RequestCommit, BusIInv, BusTypeOK
<1> QED BY <1>1, <1>4, SteadyStep DEF RequestCommit, BusIInv

LEMMA HandleCommitBusIInv ==
    ASSUME BusIInv, NEW s \in Sockets, HandleCommit(s)
    PROVE  BusIInv'
<1>1. IInv' /\ Live' = Live /\ UNCHANGED sessions
  BY NextIInv DEF HandleCommit, BusIInv, registryVars, Live
<1>2. /\ inflight' \in [Sockets -> Requests \cup {None}]
      /\ UNCHANGED <<caps, order, nextOrder, owners, ownerEpochs, told>>
  BY DEF HandleCommit, BusIInv, BusTypeOK
<1>3. CASE UNCHANGED <<revision, toldRevision>>
  BY <1>1, <1>2, <1>3, SteadyStep DEF BusIInv
<1>4. CASE ~UNCHANGED <<revision, toldRevision>>
  <2> DEFINE scope == KeyScope[bound[s]]
  <2>1. /\ bound[s] \in Keys
        /\ revision[scope] < MaxRevision
        /\ revision' = [revision EXCEPT ![scope] = @ + 1]
        /\ toldRevision' = [k \in Keys |->
              IF k \in Capable(scope) THEN revision[scope] + 1 ELSE toldRevision[k]]
    BY <1>4 DEF HandleCommit, Fenced, IsCurrent, BusIInv, IInv, RegistryTypeOK
  <2>2. scope \in Scopes
    BY <2>1 DEF Scopes
  <2> HIDE DEF scope
  <2>3. revision[scope] + 1 \in 0..MaxRevision
    BY <2>1, <2>2, BusAssumption DEF BusIInv, BusTypeOK
  <2>4. BusTypeOK'
    BY <1>2, <2>1, <2>3 DEF BusIInv, BusTypeOK
  <2>5. \A sc : Capable(sc)' = Capable(sc) /\ Eligible(sc)' = Eligible(sc) /\ Senior(sc)' = Senior(sc)
    BY <1>1, <1>2 DEF Capable, Eligible, Senior
  <2>6. OwnerIsSeniorEligible'
    BY <1>1, <1>2, <2>5 DEF BusIInv, OwnerIsSeniorEligible
  <2>7. CapableSessionsAreUpToDate'
    <3> SUFFICES ASSUME NEW sc \in Scopes, NEW k \in Capable(sc)
                 PROVE  told[k] = OwnerFrame(owners[sc]) /\ toldRevision'[k] = revision'[sc]
      BY <1>2, <2>5 DEF CapableSessionsAreUpToDate, OwnerFrame
    <3>1. k \in Keys /\ KeyScope[k] = sc
      BY DEF Capable, Live
    <3>2. told[k] = OwnerFrame(owners[sc]) /\ toldRevision[k] = revision[sc]
      BY DEF BusIInv, CapableSessionsAreUpToDate
    <3>3. k \in Capable(scope) <=> sc = scope
      BY <3>1 DEF Capable
    <3>4. revision \in [Scopes -> 0..MaxRevision]
      BY DEF BusIInv, BusTypeOK
    <3> QED BY <2>1, <2>2, <3>1, <3>2, <3>3, <3>4
  <2> QED BY <1>1, <2>4, <2>6, <2>7 DEF BusIInv
<1> QED BY <1>3, <1>4

LEMMA BusInitIInv == BusInit => BusIInv
<1> SUFFICES ASSUME BusInit PROVE BusIInv
  OBVIOUS
<1>1. IInv /\ Live = {}
  BY InitIInv DEF BusInit, RegistryInit, Live
<1>2. BusTypeOK
  BY BusAssumption DEF BusInit, BusTypeOK, Capabilities
<1>3. \A sc : Capable(sc) = {} /\ Eligible(sc) = {}
  BY <1>1 DEF Capable, Eligible
<1>4. OwnerIsSeniorEligible /\ CapableSessionsAreUpToDate
  BY <1>3 DEF BusInit, OwnerIsSeniorEligible, CapableSessionsAreUpToDate
<1> QED BY <1>1, <1>2, <1>4 DEF BusIInv

LEMMA BusNextIInv == BusIInv /\ [BusNext]_extensionVars => BusIInv'
<1> SUFFICES ASSUME BusIInv, [BusNext]_extensionVars PROVE BusIInv'
  OBVIOUS
<1>1. IInv'
  BY BusStepIsRegistryStep, NextIInv DEF BusIInv
<1>2. ASSUME UNCHANGED busVars, Live' = Live,
             \A k \in Live : sessions'[k].socket = sessions[k].socket
      PROVE  BusIInv'
  <2>1. inflight' \in [Sockets -> Requests \cup {None}]
    BY <1>2 DEF busVars, BusIInv, BusTypeOK
  <2> QED BY <1>1, <1>2, <2>1, SteadyStep DEF busVars, BusIInv
<1>3. ASSUME UNCHANGED busVars, UNCHANGED sessions PROVE BusIInv'
  BY <1>2, <1>3 DEF Live
<1>4. ASSUME NEW s \in Sockets, UNCHANGED busVars,
             \/ Connect(s) \/ RegistrationTimeout(s) \/ Destroy(s)
             \/ \E k \in Keys : RefuseRegister(s, k)
      PROVE  BusIInv'
  BY <1>3, <1>4 DEF Connect, RegistrationTimeout, Destroy, RefuseRegister
<1>5. ASSUME NEW s \in Sockets, NEW p \in Profiles, Presence(s, p), UNCHANGED busVars
      PROVE  BusIInv'
  <2>1. Live' = Live
    BY <1>5, PresenceIInv DEF BusIInv
  <2>2. sessions \in [Keys -> SessionRecords \cup {None}]
    BY DEF BusIInv, IInv, RegistryTypeOK
  <2>3. PICK info : sessions' = [sessions EXCEPT ![bound[s]].info = info]
    BY <1>5 DEF Presence
  <2>4. \A k \in Live : sessions[k] \in SessionRecords
    BY <2>2 DEF Live
  <2>5. \A k \in Live : sessions'[k].socket = sessions[k].socket
    BY <2>2, <2>3, <2>4 DEF SessionRecords, Live
  <2> QED BY <1>2, <1>5, <2>1, <2>5
<1>6. ASSUME NEW k \in Keys, ForgetDisconnected(k), UNCHANGED busVars PROVE BusIInv'
  BY <1>3, <1>6 DEF ForgetDisconnected
<1>7. CASE UNCHANGED extensionVars
  BY <1>3, <1>7 DEF extensionVars, registryVars
<1> QED BY <1>4, <1>5, <1>6, <1>7, RegisterCapableBusIInv, UpdateCapabilitiesBusIInv, LeaveBusIInv,
           RequestCommitBusIInv, HandleCommitBusIInv DEF BusNext

(* The strengthened invariant holds in every reachable state.              *)
THEOREM BusInvariant == BusSpec => []BusIInv
BY BusInitIInv, BusNextIInv, PTL DEF BusSpec

(* Every variable of the bus keeps its type.                               *)
THEOREM BusTypeCorrect == BusSpec => []BusTypeOK
<1>1. BusIInv => BusTypeOK
  BY DEF BusIInv
<1> QED BY <1>1, BusInvariant, PTL

(* recomputeNamespaceOwners: registration order decides who owns, and the  *)
(* owner is fenced to the connection its session has now.                  *)
THEOREM SeniorityDecides == BusSpec => []OwnerIsSeniorEligible
<1>1. BusIInv => OwnerIsSeniorEligible
  BY DEF BusIInv
<1> QED BY <1>1, BusInvariant, PTL

(* Telling only the sessions of a scope whose owner changed is enough for  *)
(* all of them to know owner, epoch and revision.                          *)
THEOREM EveryoneIsTold == BusSpec => []CapableSessionsAreUpToDate
<1>1. BusIInv => CapableSessionsAreUpToDate
  BY DEF BusIInv
<1> QED BY <1>1, BusInvariant, PTL

(* handleExtensionStateCommit: epoch and socket fence what a former owner  *)
(* sent, and the expected revision what the owner sent too late.           *)
THEOREM FencingWorks == BusSpec => StaleOwnersNeverCommit
<1> DEFINE Agreed(sc) == \E s \in Sockets :
              /\ inflight[s] # None /\ inflight'[s] = None
              /\ \A k \in Capable(sc) :
                    /\ told[k] = [key |-> bound[s], epoch |-> inflight[s].epoch]
                    /\ toldRevision[k] = inflight[s].expected
           A == \A sc \in Scopes : revision'[sc] # revision[sc] => Agreed(sc)
<1>1. ASSUME BusIInv, BusNext, NEW sc \in Scopes, revision'[sc] # revision[sc] PROVE Agreed(sc)
  <2>1. PICK s \in Sockets : HandleCommit(s)
    BY <1>1 DEF BusNext, busVars, CloseBus, UnregisterBus, Leave, RegisterCapable,
                UpdateCapabilities, RequestCommit
  <2>2. /\ inflight[s] # None /\ inflight'[s] = None
        /\ Fenced(s) /\ sc = KeyScope[bound[s]]
        /\ inflight[s].expected = revision[sc]
    BY <1>1, <2>1 DEF HandleCommit, BusIInv, BusTypeOK
  <2>3. owners[sc] # None /\ OwnerFrame(owners[sc]) = [key |-> bound[s], epoch |-> inflight[s].epoch]
    <3>1. bound[s] \in Keys /\ inflight[s].epoch \in Nat
      BY <1>1, <2>2 DEF Fenced, IsCurrent, BusIInv, BusTypeOK, IInv, RegistryTypeOK, Requests
    <3>2. owners[sc] \in Owners
      BY <2>2, <3>1 DEF Fenced, Owners
    <3> QED BY <2>2, <3>2, BusAssumption DEF Fenced, OwnerFrame
  <2>4. \A k \in Capable(sc) : told[k] = OwnerFrame(owners[sc]) /\ toldRevision[k] = revision[sc]
    BY <1>1 DEF BusIInv, CapableSessionsAreUpToDate
  <2> QED BY <2>2, <2>3, <2>4
<1>2. BusIInv /\ [BusNext]_extensionVars => [A]_extensionVars
  BY <1>1
<1> QED BY <1>2, BusInvariant, PTL DEF StaleOwnersNeverCommit, BusSpec

-----------------------------------------------------------------------------
(* Mail                                                                    *)

(* Every mail handler either leaves the registry alone, registers, or      *)
(* destroys its own connection.                                            *)
LEMMA StepIsRegistryStep == [BrokerNext]_brokerVars => [RegistryNext]_registryVars
<1> SUFFICES ASSUME [BrokerNext]_brokerVars PROVE [RegistryNext]_registryVars
  OBVIOUS
<1>1. ASSUME NEW s \in Sockets, Talking(s), Throw(s) PROVE RegistryNext
  <2>1. Destroy(s)
    BY <1>1 DEF Throw, Destroy
  <2> QED BY <2>1 DEF RegistryNext
<1>2. ASSUME NEW s \in Sockets, NEW m \in Msgs, NEW k, Talking(s), Deliver(s, m, k)
      PROVE  [RegistryNext]_registryVars
  BY <1>1, <1>2 DEF Deliver, Fail, KeepRegistry
<1>3. ASSUME NEW s \in Sockets, NEW m \in Msgs, NEW k, Talking(s), AcceptMail(s, m, k)
      PROVE  [RegistryNext]_registryVars
  BY <1>1, <1>3 DEF AcceptMail, Fail, KeepRegistry
<1>4. CASE ConnectionStep
  BY <1>4 DEF ConnectionStep, RegistryNext
<1>5. ASSUME NEW s \in Sockets, NEW k \in Keys, NEW p \in Profiles, RegisterAndFlush(s, k, p)
      PROVE  RegistryNext
  BY <1>5 DEF RegisterAndFlush, RegistryNext
<1>6. ASSUME NEW s \in Sockets, NEW m \in Msgs, NEW token \in Tokens, NEW idOnly \in BOOLEAN,
             Send(s, m, token, idOnly)
      PROVE  [RegistryNext]_registryVars
  <2>1. Talking(s)
    BY <1>6 DEF Send, Attempt, Speaks
  <2>2. \/ \E k \in Lookup(LiveInfos(sessions), token, Author(m), idOnly) : Deliver(s, m, k)
        \/ \E k \in Lookup(disconnected, token, Author(m), idOnly) : AcceptMail(s, m, k)
    BY <1>6 DEF Send
  <2> QED BY <2>1, <2>2, <1>2, <1>3
<1>7. ASSUME NEW s \in Sockets, NEW m \in Msgs, NEW k \in Keys, NEW epoch, SendPinned(s, m, k, epoch)
      PROVE  [RegistryNext]_registryVars
  <2>1. Talking(s) /\ (Deliver(s, m, k) \/ KeepRegistry)
    BY <1>7 DEF SendPinned, Attempt, Speaks, Fail
  <2> QED BY <2>1, <1>2 DEF KeepRegistry
<1>8. ASSUME NEW s \in Sockets, NEW m \in Msgs, Withdraw(s, m) PROVE UNCHANGED registryVars
  BY <1>8 DEF Withdraw, KeepRegistry
<1>9. ASSUME ExpireMail \/ \E m \in Msgs : Expire(m) PROVE UNCHANGED registryVars
  BY <1>9 DEF ExpireMail, Expire, KeepRegistry
<1>10. CASE MailStep
  BY <1>10, <1>5, <1>6, <1>7, <1>8, <1>9 DEF MailStep
<1>11. CASE UNCHANGED brokerVars
  BY <1>11 DEF brokerVars
<1> QED BY <1>4, <1>10, <1>11 DEF BrokerNext

(* The broker with its mail implements the registry without it.            *)
THEOREM ImplementsRegistry == BrokerSpec => RegistrySpec
<1>1. BrokerInit => RegistryInit
  BY DEF BrokerInit
<1> QED BY <1>1, StepIsRegistryStep, PTL DEF BrokerSpec, RegistrySpec

(* A live session keeps its own open connection through every send, flush, *)
(* withdrawal and failing write of the broker.                             *)
THEOREM MailKeepsSessionsAttached == BrokerSpec => []SessionsHoldTheirSocket
BY ImplementsRegistry, TakeoversKeepTheSocket, PTL

(* No mail handler gives two live sessions of a scope one name.            *)
THEOREM MailKeepsNamesUnique == BrokerSpec => []NamesAddressOneSession
BY ImplementsRegistry, NamesStayUnique, PTL

-----------------------------------------------------------------------------
(* Pending asks and their files *)

AsksIInv ==
    /\ asks \in [Msgs -> Keys \cup {None}]
    /\ AskFilesMatchEdges

(* An accepted ask is recorded with its file, and what it ends goes from   *)
(* both; a failing write in between leaves both or neither.                *)
LEMMA DeliverKeepsAsks ==
    ASSUME AsksIInv, NEW s, NEW m \in Msgs, NEW k \in Keys, Deliver(s, m, k)
    PROVE  AsksIInv'
<1> USE DEF AsksIInv, AskFilesMatchEdges
<1> DEFINE opened == OpenAsk(m, k)
           files  == askFiles \cup AskFile(m)
<1>1. None \notin Keys
  BY RegistryAssumption
<1>2. /\ opened \in [Msgs -> Keys \cup {None}]
      /\ files = {x \in Msgs : opened[x] # None}
      /\ \A x \in files : Letter[x].asks
  BY <1>1 DEF OpenAsk, AskFile
<1> HIDE DEF opened, files
<1>3. \/ asks' = asks /\ askFiles' = askFiles
      \/ asks' = opened /\ askFiles' = files
      \/ /\ asks' = [x \in Msgs |-> IF x \in Ended(m) THEN None ELSE opened[x]]
         /\ askFiles' = files \ Ended(m)
  BY DEF Deliver, Fail, opened, files
<1> QED BY <1>2, <1>3

(* Mail cannot ask; an accepted answer closes the ask and removes its file. *)
LEMMA AcceptMailKeepsAsks ==
    ASSUME AsksIInv, NEW s, NEW m \in Msgs, NEW k, AcceptMail(s, m, k)
    PROVE  AsksIInv'
<1> USE DEF AsksIInv, AskFilesMatchEdges
<1>1. \/ asks' = asks /\ askFiles' = askFiles
      \/ /\ asks' = [x \in Msgs |-> IF x \in Ended(m) THEN None ELSE asks[x]]
         /\ askFiles' = askFiles \ Ended(m)
  BY DEF AcceptMail, Fail
<1> QED BY <1>1

LEMMA NextKeepsAsks == AsksIInv /\ [BrokerNext]_brokerVars => AsksIInv'
<1> SUFFICES ASSUME AsksIInv, [BrokerNext]_brokerVars PROVE AsksIInv'
  OBVIOUS
<1> DEFINE Same == asks' = asks /\ askFiles' = askFiles
<1>1. ASSUME Same PROVE AsksIInv'
  BY <1>1 DEF AsksIInv, AskFilesMatchEdges
<1>2. ASSUME NEW s \in Sockets, NEW m \in Msgs, NEW token \in Tokens, NEW idOnly \in BOOLEAN,
             Send(s, m, token, idOnly)
      PROVE  AsksIInv'
  <2>1. \/ \E k \in Keys : Deliver(s, m, k)
        \/ \E k : AcceptMail(s, m, k)
    BY <1>2 DEF Send, Lookup
  <2> QED BY <2>1, DeliverKeepsAsks, AcceptMailKeepsAsks
<1>3. ASSUME NEW s \in Sockets, NEW m \in Msgs, NEW k \in Keys, NEW epoch, SendPinned(s, m, k, epoch)
      PROVE  AsksIInv'
  <2>1. Same \/ Deliver(s, m, k)
    BY <1>3 DEF SendPinned, Fail
  <2> QED BY <2>1, <1>1, DeliverKeepsAsks
<1>4. ASSUME NEW s \in Sockets, NEW m \in Msgs, Withdraw(s, m) PROVE AsksIInv'
  BY <1>4 DEF Withdraw, ClearAsk, AsksIInv, AskFilesMatchEdges
<1>5. ASSUME NEW m \in Msgs, Expire(m) PROVE AsksIInv'
  BY <1>5 DEF Expire, AsksIInv, AskFilesMatchEdges
<1>6. ASSUME \/ ConnectionStep \/ ExpireMail \/ UNCHANGED brokerVars
             \/ \E s \in Sockets, k \in Keys, p \in Profiles : RegisterAndFlush(s, k, p)
      PROVE  AsksIInv'
  <2>1. Same
    BY <1>6 DEF ConnectionStep, mailVars, ExpireMail, brokerVars, RegisterAndFlush, Flush
  <2> QED BY <2>1, <1>1
<1> QED BY <1>2, <1>3, <1>4, <1>5, <1>6 DEF BrokerNext, MailStep

(* Every pending ask has its file and every file its ask, whichever write  *)
(* of whichever send fails.                                                *)
THEOREM AsksAreOnDisk == BrokerSpec => []AskFilesMatchEdges
<1>1. BrokerInit => AsksIInv
  BY RegistryAssumption DEF BrokerInit, AsksIInv, AskFilesMatchEdges
<1>2. AsksIInv => AskFilesMatchEdges
  BY DEF AsksIInv
<1> QED BY <1>1, <1>2, NextKeepsAsks, PTL DEF BrokerSpec

-----------------------------------------------------------------------------
(* The mailbox as its handlers change it *)

OneCopy(box) == \A i, j \in 1..Len(box) : box[i].msg = box[j].msg => i = j

(* new is made of the entries of box at the positions S.                   *)
Rest(box, new, S) ==
    /\ new \in Seq(Mail)
    /\ \A n \in 1..Len(new) : \E i \in S : new[n] = box[i]
    /\ \A i \in S : \E n \in 1..Len(new) : new[n] = box[i]
    /\ OneCopy(box) => OneCopy(new)

(* Taking positions by an injection onto S is enough.                      *)
LEMMA RestByPositions ==
    ASSUME NEW box \in Seq(Mail), NEW new \in Seq(Mail), NEW S \in SUBSET (1..Len(box)),
           NEW at \in [1..Len(new) -> S],
           \A n \in 1..Len(new) : new[n] = box[at[n]],
           \A i, j \in 1..Len(new) : at[i] = at[j] => i = j,
           \A i \in S : \E n \in 1..Len(new) : at[n] = i
    PROVE  Rest(box, new, S)
<1>1. OneCopy(box) => OneCopy(new)
  <2> SUFFICES ASSUME OneCopy(box), NEW i \in 1..Len(new), NEW j \in 1..Len(new),
                      new[i].msg = new[j].msg
               PROVE  i = j
    BY DEF OneCopy
  <2>1. at[i] \in 1..Len(box) /\ at[j] \in 1..Len(box)
    OBVIOUS
  <2>2. box[at[i]].msg = box[at[j]].msg
    OBVIOUS
  <2> QED BY <2>1, <2>2 DEF OneCopy
<1>2. \A n \in 1..Len(new) : \E i \in S : new[n] = box[i]
  OBVIOUS
<1>3. ASSUME NEW i \in S PROVE \E n \in 1..Len(new) : new[n] = box[i]
  <2>1. PICK n \in 1..Len(new) : at[n] = i
    OBVIOUS
  <2>2. new[n] = box[i]
    BY <2>1
  <2> QED BY <2>2
<1> QED BY <1>1, <1>2, <1>3 DEF Rest

LEMMA TailRest ==
    ASSUME NEW box \in Seq(Mail), box # <<>>
    PROVE  Rest(box, Tail(box), 2..Len(box))
<1> DEFINE at == [n \in 1..Len(Tail(box)) |-> n + 1]
<1>1. /\ Tail(box) \in Seq(Mail) /\ Len(Tail(box)) = Len(box) - 1
      /\ \A n \in 1..Len(Tail(box)) : Tail(box)[n] = box[n + 1]
  BY HeadTailProperties
<1>2. Len(box) \in Nat
  BY LenProperties
<1>3. at \in [1..Len(Tail(box)) -> 2..Len(box)] /\ 2..Len(box) \in SUBSET (1..Len(box))
  BY <1>1, <1>2
<1>4. \A n \in 1..Len(Tail(box)) : Tail(box)[n] = box[at[n]]
  BY <1>1
<1>5. \A i, j \in 1..Len(Tail(box)) : at[i] = at[j] => i = j
  BY <1>1, <1>2
<1>6. ASSUME NEW i \in 2..Len(box) PROVE \E n \in 1..Len(Tail(box)) : at[n] = i
  <2>1. i - 1 \in 1..Len(Tail(box)) /\ at[i - 1] = i
    BY <1>1, <1>2
  <2> QED BY <2>1
<1> HIDE DEF at
<1> QED BY <1>1, <1>3, <1>4, <1>5, <1>6, RestByPositions

(* Taking one entry out of the middle.                                     *)
LEMMA WithoutRest ==
    ASSUME mailbox \in Seq(Mail), NEW i \in 1..Len(mailbox)
    PROVE  Rest(mailbox, WithoutCopy(i), (1..Len(mailbox)) \ {i})
<1> DEFINE front == SubSeq(mailbox, 1, i - 1)
           back == SubSeq(mailbox, i + 1, Len(mailbox))
           new == WithoutCopy(i)
           at == [n \in 1..Len(new) |-> IF n < i THEN n ELSE n + 1]
<1>0. Len(mailbox) \in Nat /\ \A n \in 1..Len(mailbox) : mailbox[n] \in Mail
  BY LenProperties, ElementOfSeq
<1>1. /\ front \in Seq(Mail) /\ Len(front) = i - 1
      /\ \A n \in 1..(i - 1) : front[n] = mailbox[n]
  <2>1. 1 \in Int /\ i - 1 \in Int /\ \A n \in 1..(i - 1) : mailbox[n] \in Mail
    BY <1>0
  <2>2. /\ front \in Seq(Mail)
        /\ Len(front) = IF 1 <= i - 1 THEN (i - 1) - 1 + 1 ELSE 0
        /\ \A n \in 1..((i - 1) - 1 + 1) : front[n] = mailbox[1 + n - 1]
    BY <2>1, SubSeqProperties
  <2> QED BY <1>0, <2>2
<1>2. /\ back \in Seq(Mail) /\ Len(back) = Len(mailbox) - i
      /\ \A n \in 1..(Len(mailbox) - i) : back[n] = mailbox[n + i]
  <2>1. i + 1 \in Int /\ Len(mailbox) \in Int
        /\ \A n \in (i + 1)..Len(mailbox) : mailbox[n] \in Mail
    BY <1>0
  <2>2. /\ back \in Seq(Mail)
        /\ Len(back) = IF i + 1 <= Len(mailbox) THEN Len(mailbox) - (i + 1) + 1 ELSE 0
        /\ \A n \in 1..(Len(mailbox) - (i + 1) + 1) : back[n] = mailbox[(i + 1) + n - 1]
    BY <2>1, SubSeqProperties
  <2> QED BY <1>0, <2>2
<1>3. /\ new \in Seq(Mail) /\ Len(new) = Len(mailbox) - 1
      /\ \A n \in 1..Len(new) : new[n] = IF n < i THEN mailbox[n] ELSE mailbox[n + 1]
  <2>1. /\ front \o back \in Seq(Mail)
        /\ Len(front \o back) = Len(front) + Len(back)
        /\ \A n \in 1..(Len(front) + Len(back)) :
              (front \o back)[n] = IF n <= Len(front) THEN front[n] ELSE back[n - Len(front)]
    BY <1>1, <1>2, ConcatProperties
  <2>2. new = front \o back
    BY DEF WithoutCopy
  <2> HIDE DEF front, back, new
  <2>3. Len(new) = Len(mailbox) - 1
    <3>1. Len(new) = Len(front) + Len(back)
      BY <2>1, <2>2
    <3>2. Len(mailbox) \in Nat /\ i \in Int /\ Len(front) = i - 1 /\ Len(back) = Len(mailbox) - i
      BY <1>0, <1>1, <1>2
    <3> QED BY <3>1, <3>2
  <2>4. ASSUME NEW n \in 1..Len(new)
        PROVE  new[n] = IF n < i THEN mailbox[n] ELSE mailbox[n + 1]
    <3>1. CASE n < i
      <4>1. n \in 1..(i - 1) /\ n \in 1..(Len(front) + Len(back)) /\ n <= Len(front)
        BY <3>1, <1>0, <1>1, <1>2, <2>3
      <4>2. new[n] = front[n]
        BY <4>1, <2>1, <2>2
      <4>3. front[n] = mailbox[n]
        BY <4>1, <1>1
      <4> QED BY <4>2, <4>3, <3>1
    <3>2. CASE ~(n < i)
      <4>1. /\ n \in 1..(Len(front) + Len(back)) /\ ~(n <= Len(front))
            /\ n - Len(front) \in 1..(Len(mailbox) - i) /\ (n - Len(front)) + i = n + 1
        BY <3>2, <1>0, <1>1, <1>2, <2>3
      <4>2. new[n] = back[n - Len(front)]
        BY <4>1, <2>1, <2>2
      <4>3. back[n - Len(front)] = mailbox[n + 1]
        BY <4>1, <1>2
      <4> QED BY <4>2, <4>3, <3>2
    <3> QED BY <3>1, <3>2
  <2> QED BY <2>1, <2>2, <2>3, <2>4
<1> HIDE DEF front, back, new
<1>4. at \in [1..Len(new) -> (1..Len(mailbox)) \ {i}]
  BY <1>0, <1>3
<1>5. \A n \in 1..Len(new) : new[n] = mailbox[at[n]]
  BY <1>3
<1>6. \A m, n \in 1..Len(new) : at[m] = at[n] => m = n
  BY <1>0, <1>3
<1>7. ASSUME NEW j \in (1..Len(mailbox)) \ {i} PROVE \E n \in 1..Len(new) : at[n] = j
  <2>1. CASE j < i
    <3>1. j \in 1..Len(new) /\ at[j] = j
      BY <2>1, <1>0, <1>3
    <3> QED BY <3>1
  <2>2. CASE j > i
    <3>1. j - 1 \in 1..Len(new) /\ at[j - 1] = j
      BY <2>2, <1>0, <1>3
    <3> QED BY <3>1
  <2> QED BY <2>1, <2>2, <1>0
<1> HIDE DEF at
<1>8. Rest(mailbox, new, (1..Len(mailbox)) \ {i})
  BY <1>3, <1>4, <1>5, <1>6, <1>7, RestByPositions
<1> QED BY <1>8 DEF new

(* An order-preserving choice of as many positions as there are takes all. *)
LEMMA FlushRest ==
    ASSUME mailbox \in Seq(Mail), NEW S \in SUBSET (1..Len(mailbox)), NEW at \in InOrder(S)
    PROVE  Rest(mailbox, [n \in DOMAIN at |-> mailbox[at[n]]], S)
<1> DEFINE c == Cardinality(S)
           new == [n \in DOMAIN at |-> mailbox[at[n]]]
<1>0. Len(mailbox) \in Nat /\ \A n \in 1..Len(mailbox) : mailbox[n] \in Mail
  BY LenProperties, ElementOfSeq
<1>1. IsFiniteSet(1..Len(mailbox))
  BY <1>0, FS_Interval
<1>2. IsFiniteSet(S)
  BY <1>1, FS_Subset
<1>3. c \in Nat
  BY <1>2, FS_CardinalityType
<1>4. at \in [1..c -> S] /\ \A i, j \in 1..c : i < j => at[i] < at[j]
  BY DEF InOrder
<1>5. S \subseteq Nat
  BY <1>0
<1> HIDE DEF c
<1>6. ASSUME NEW i \in 1..c, NEW j \in 1..c, at[i] = at[j] PROVE i = j
  <2>1. at[i] \in Nat /\ at[j] \in Nat
    BY <1>4, <1>5
  <2>2. ~(at[i] < at[j]) /\ ~(at[j] < at[i])
    BY <1>6, <2>1
  <2>3. ~(i < j) /\ ~(j < i)
    BY <1>4, <2>2
  <2> QED BY <1>3, <2>3
<1>7. at \in Injection(1..c, S)
  BY <1>4, <1>6 DEF Injection, IsInjective
<1>8. Cardinality(1..c) = c
  BY <1>3, FS_Interval
<1>9. at \in Surjection(1..c, S)
  BY <1>2, <1>7, <1>8, FS_Injection DEF c
<1>10. \A i \in S : \E n \in 1..c : at[n] = i
  BY <1>9 DEF Surjection
<1>11. new \in Seq(Mail) /\ Len(new) = c
  <2>1. DOMAIN at = 1..c
    BY <1>4
  <2>2. new \in [1..c -> Mail]
    BY <2>1, <1>0, <1>4
  <2> QED BY <2>2, <1>3
<1>12. \A n \in 1..c : new[n] = mailbox[at[n]]
  BY <1>4
<1> HIDE DEF new
<1>13. Rest(mailbox, new, S)
  BY <1>4, <1>6, <1>10, <1>11, <1>12, RestByPositions
<1> QED BY <1>13 DEF new

In(box, m) == \E i \in 1..Len(box) : box[i].msg = m

LEMMA RestIn ==
    ASSUME NEW box \in Seq(Mail), NEW new, NEW D \in SUBSET (1..Len(box)), OneCopy(box),
           Rest(box, new, (1..Len(box)) \ D), NEW m
    PROVE  In(new, m) <=> In(box, m) /\ m \notin {box[i].msg : i \in D}
<1>1. ASSUME In(new, m) PROVE In(box, m) /\ m \notin {box[i].msg : i \in D}
  <2>1. PICK n \in 1..Len(new) : new[n].msg = m
    BY <1>1 DEF In
  <2>2. PICK i \in (1..Len(box)) \ D : new[n] = box[i]
    BY DEF Rest
  <2>3. box[i].msg = m
    BY <2>1, <2>2
  <2>4. ASSUME NEW d \in D PROVE box[d].msg # m
    BY <2>2, <2>3 DEF OneCopy
  <2> QED BY <2>2, <2>3, <2>4 DEF In
<1>2. ASSUME In(box, m), m \notin {box[i].msg : i \in D} PROVE In(new, m)
  <2>1. PICK i \in 1..Len(box) : box[i].msg = m
    BY <1>2 DEF In
  <2>2. i \in (1..Len(box)) \ D
    BY <1>2, <2>1
  <2>3. PICK n \in 1..Len(new) : new[n] = box[i]
    BY <2>2 DEF Rest
  <2> QED BY <2>1, <2>3 DEF In
<1> QED BY <1>1, <1>2

LEMMA AppendBox ==
    ASSUME NEW box \in Seq(Mail), NEW e \in Mail
    PROVE  /\ Append(box, e) \in Seq(Mail)
           /\ \A m : In(Append(box, e), m) <=> In(box, m) \/ m = e.msg
           /\ OneCopy(box) /\ ~In(box, e.msg) => OneCopy(Append(box, e))
<1> DEFINE new == Append(box, e)
<1>1. /\ new \in Seq(Mail) /\ Len(new) = Len(box) + 1 /\ Len(box) \in Nat
      /\ \A i \in 1..Len(box) : new[i] = box[i]
      /\ new[Len(box) + 1] = e
  BY AppendProperties, LenProperties
<1> HIDE DEF new
<1>2. 1..Len(new) = (1..Len(box)) \cup {Len(box) + 1} /\ Len(box) + 1 \notin 1..Len(box)
  BY <1>1
<1>3. ASSUME NEW m PROVE In(new, m) <=> In(box, m) \/ m = e.msg
  BY <1>1, <1>2 DEF In
<1>4. ASSUME OneCopy(box), ~In(box, e.msg) PROVE OneCopy(new)
  <2> SUFFICES ASSUME NEW i \in 1..Len(new), NEW j \in 1..Len(new), new[i].msg = new[j].msg
               PROVE  i = j
    BY DEF OneCopy
  <2>1. CASE i \in 1..Len(box) /\ j \in 1..Len(box)
    BY <2>1, <1>1, <1>4 DEF OneCopy
  <2>2. CASE i \in 1..Len(box) /\ j = Len(box) + 1
    BY <2>2, <1>1, <1>4 DEF In
  <2>3. CASE j \in 1..Len(box) /\ i = Len(box) + 1
    BY <2>3, <1>1, <1>4 DEF In
  <2> QED BY <2>1, <2>2, <2>3, <1>2
<1> QED BY <1>1, <1>3, <1>4 DEF new

(* Taking mail in, at the cap for the oldest.                              *)
LEMMA QueuedBox ==
    ASSUME mailbox \in Seq(Mail), NEW e \in Mail
    PROVE  /\ Queued(e) \in Seq(Mail)
           /\ \A n \in 1..Len(Queued(e)) :
                 Queued(e)[n] = e \/ \E i \in 1..Len(mailbox) : Queued(e)[n] = mailbox[i]
           /\ \A m : In(Queued(e), m) => In(mailbox, m) \/ m = e.msg
           /\ In(Queued(e), e.msg)
           /\ OneCopy(mailbox) =>
                 /\ \A m : In(Queued(e), m) <=> (In(mailbox, m) /\ m \notin EvictedMail) \/ m = e.msg
                 /\ ~In(mailbox, e.msg) => OneCopy(Queued(e))
<1>0. Len(mailbox) \in Nat /\ MaxMailbox \in Nat \ {0}
  BY LenProperties, BrokerAssumption
<1>1. CASE Len(mailbox) >= MaxMailbox
  <2>1. mailbox # <<>> /\ 1 \in 1..Len(mailbox)
    BY <1>0, <1>1, EmptySeq
  <2>2. Head(mailbox) = mailbox[1] /\ EvictedMail = {mailbox[1].msg}
    BY <1>1 DEF EvictedMail
  <2>3. Queued(e) = Append(Tail(mailbox), e)
    BY <2>2 DEF Queued
  <2> DEFINE rest == Tail(mailbox)
  <2>4. Rest(mailbox, rest, (1..Len(mailbox)) \ {1})
    <3>1. (1..Len(mailbox)) \ {1} = 2..Len(mailbox)
      BY <1>0
    <3> QED BY <2>1, <3>1, TailRest
  <2> HIDE DEF rest
  <2>5. rest \in Seq(Mail)
    BY <2>4 DEF Rest
  <2>6. ASSUME NEW m PROVE In(rest, m) => In(mailbox, m)
    BY <2>4 DEF In, Rest
  <2>7. OneCopy(mailbox) =>
            /\ OneCopy(rest)
            /\ \A m : In(rest, m) <=> In(mailbox, m) /\ m \notin EvictedMail
    <3>1. ASSUME OneCopy(mailbox), NEW m
          PROVE  In(rest, m) <=> In(mailbox, m) /\ m \notin {mailbox[i].msg : i \in {1}}
      BY <3>1, <2>1, <2>4, RestIn
    <3> QED BY <3>1, <2>2, <2>4 DEF Rest
  <2>8. /\ Append(rest, e) \in Seq(Mail)
        /\ \A m : In(Append(rest, e), m) <=> In(rest, m) \/ m = e.msg
        /\ OneCopy(rest) /\ ~In(rest, e.msg) => OneCopy(Append(rest, e))
    BY <2>5, AppendBox
  <2>9. Queued(e) = Append(rest, e)
    BY <2>3 DEF rest
  <2>10. ASSUME NEW n \in 1..Len(Queued(e))
         PROVE  Queued(e)[n] = e \/ \E i \in 1..Len(mailbox) : Queued(e)[n] = mailbox[i]
    <3>1. /\ Len(Append(rest, e)) = Len(rest) + 1 /\ Len(rest) \in Nat
          /\ \A i \in 1..Len(rest) : Append(rest, e)[i] = rest[i]
          /\ Append(rest, e)[Len(rest) + 1] = e
      BY <2>5, AppendProperties, LenProperties
    <3>2. n = Len(rest) + 1 \/ n \in 1..Len(rest)
      BY <3>1, <2>9
    <3>3. \A i \in 1..Len(rest) : \E l \in 1..Len(mailbox) : rest[i] = mailbox[l]
      BY <2>4 DEF Rest
    <3> QED BY <3>1, <3>2, <3>3, <2>9
  <2> QED BY <2>6, <2>7, <2>8, <2>9, <2>10
<1>2. CASE ~(Len(mailbox) >= MaxMailbox)
  <2>1. EvictedMail = {} /\ Queued(e) = Append(mailbox, e)
    BY <1>2 DEF EvictedMail, Queued
  <2>2. /\ Append(mailbox, e) \in Seq(Mail)
        /\ \A m : In(Append(mailbox, e), m) <=> In(mailbox, m) \/ m = e.msg
        /\ OneCopy(mailbox) /\ ~In(mailbox, e.msg) => OneCopy(Append(mailbox, e))
    BY AppendBox
  <2>3. /\ Len(Append(mailbox, e)) = Len(mailbox) + 1
        /\ \A i \in 1..Len(mailbox) : Append(mailbox, e)[i] = mailbox[i]
        /\ Append(mailbox, e)[Len(mailbox) + 1] = e
    BY AppendProperties
  <2>4. ASSUME NEW n \in 1..Len(Queued(e))
        PROVE  Queued(e)[n] = e \/ \E i \in 1..Len(mailbox) : Queued(e)[n] = mailbox[i]
    <3>1. n = Len(mailbox) + 1 \/ n \in 1..Len(mailbox)
      BY <1>0, <2>1, <2>3
    <3> QED BY <3>1, <2>1, <2>3
  <2> QED BY <2>1, <2>2, <2>4
<1> QED BY <1>1, <1>2

-----------------------------------------------------------------------------
(* What the steps of the broker do to its mail *)

RememberedKeyed == \A k \in Keys : disconnected[k] # None => disconnected[k].key = k

BaseInv == IInv /\ RememberedKeyed /\ BrokerTypeOK

LEMMA RememberedStaysKeyed ==
    ASSUME IInv, RememberedKeyed, [RegistryNext]_registryVars
    PROVE  RememberedKeyed'
<1>0. /\ disconnected \in [Keys -> Infos \cup {None}]
      /\ sessions \in [Keys -> SessionRecords \cup {None}]
  BY DEF IInv, RegistryTypeOK
<1>1. ASSUME NEW s \in Sockets, IsCurrent(s), bound[s] \in Keys, EndSession(bound[s])
      PROVE  RememberedKeyed'
  <2>1. sessions[bound[s]].info.key = bound[s]
    BY <1>1 DEF IsCurrent, IInv, InfosKeyed, Live
  <2> QED BY <1>0, <1>1, <2>1 DEF EndSession, RememberedKeyed
<1>2. ASSUME disconnected' = disconnected PROVE RememberedKeyed'
  BY <1>2 DEF RememberedKeyed
<1>3. ASSUME NEW k \in Keys, disconnected' = [disconnected EXCEPT ![k] = None]
      PROVE  RememberedKeyed'
  BY <1>0, <1>3 DEF RememberedKeyed
<1>4. ASSUME NEW s \in Sockets, Close(s) \/ Unregister(s) PROVE RememberedKeyed'
  <2>1. bound[s] \in Keys \/ bound[s] = None
    BY DEF IInv, RegistryTypeOK
  <2>2. \/ IsCurrent(s) /\ EndSession(bound[s])
        \/ disconnected' = disconnected
    BY <1>4 DEF Close, Unregister
  <2>3. IsCurrent(s) => bound[s] # None
    BY DEF IsCurrent
  <2> QED BY <2>1, <2>2, <2>3, <1>1, <1>2
<1>5. CASE UNCHANGED registryVars
  BY <1>5, <1>2 DEF registryVars
<1>6. CASE RegistryNext
  <2>1. \/ \E s \in Sockets : Close(s) \/ Unregister(s)
        \/ \E k \in Keys : disconnected' = [disconnected EXCEPT ![k] = None]
        \/ disconnected' = disconnected
    BY <1>6 DEF RegistryNext, Connect, RegistrationTimeout, Destroy, RefuseRegister,
                Register, Presence, ForgetDisconnected
  <2> QED BY <2>1, <1>2, <1>3, <1>4
<1> QED BY <1>5, <1>6

Sees(m, k) == CanSee(sessions[Author(m)].info, sessions[k].info)

(* A send that fails for good only leaves its record.                      *)
Refusing(m, k, code) ==
    /\ records' = [records EXCEPT ![m] = NewRecord(k, "failed", code)]
    /\ mailbox' = mailbox /\ routes' = routes /\ asks' = asks
    /\ handed' = handed /\ withdrawn' = withdrawn

LEMMA FailRefuses ==
    ASSUME NEW s, NEW m, NEW k, NEW code, Fail(s, m, k, code)
    PROVE  Refusing(m, k, code)
BY DEF Fail, Refusing

(* The mail steps, with what the lookup of a target gives their handlers.  *)
Failing(m, k) ==
    /\ Fresh(m, k)
    /\ \E code \in {"E_TARGET_NOT_FOUND", "E_TARGET_REBOUND"} : Refusing(m, k, code)
Delivering(m, k) ==
    /\ Author(m) \in Live /\ k \in Live /\ SameScope(k, Author(m)) /\ Sees(m, k)
    /\ \E s \in Sockets : Deliver(s, m, k)
Queueing(m, k) ==
    /\ Author(m) \in Live /\ disconnected[k] # None /\ SameScope(k, Author(m))
    /\ \E s \in Sockets : AcceptMail(s, m, k)

LEMMA SendCases ==
    ASSUME IInv, NEW s \in Sockets, NEW m \in Msgs, NEW token, NEW idOnly,
           Send(s, m, token, idOnly)
    PROVE  /\ tries' = [tries EXCEPT ![m] = @ + 1]
           /\ \E k \in Keys : Delivering(m, k) \/ Queueing(m, k)
<1>1. Author(m) \in Live
  <2>1. Author(m) \in Keys
    BY BrokerAssumption DEF Author
  <2> QED BY <2>1 DEF Send, Attempt, Speaks, IsCurrent, Live
<1>2. ASSUME NEW k \in Lookup(LiveInfos(sessions), token, Author(m), idOnly)
      PROVE  /\ k \in Live /\ SameScope(k, Author(m))
             /\ Sees(m, k)
  <2>1. k \in Keys /\ LiveInfos(sessions)[k] # None /\ SameScope(k, Author(m))
        /\ CanSee(sessions[Author(m)].info, LiveInfos(sessions)[k])
    BY <1>2 DEF Lookup
  <2>2. k \in Live /\ LiveInfos(sessions)[k] = sessions[k].info
    BY <2>1 DEF LiveInfos, Live
  <2> QED BY <2>1, <2>2 DEF Sees
<1>3. ASSUME NEW k \in Lookup(disconnected, token, Author(m), idOnly)
      PROVE  k \in Keys /\ disconnected[k] # None /\ SameScope(k, Author(m))
  BY <1>3 DEF Lookup
<1>4. \/ \E k \in Lookup(LiveInfos(sessions), token, Author(m), idOnly) : Deliver(s, m, k)
      \/ \E k \in Lookup(disconnected, token, Author(m), idOnly) : AcceptMail(s, m, k)
  BY DEF Send
<1>5. CASE \E k \in Lookup(LiveInfos(sessions), token, Author(m), idOnly) : Deliver(s, m, k)
  <2>1. PICK k \in Lookup(LiveInfos(sessions), token, Author(m), idOnly) : Deliver(s, m, k)
    BY <1>5
  <2>2. k \in Keys /\ Delivering(m, k)
    BY <2>1, <1>1, <1>2 DEF Delivering, Live
  <2> QED BY <2>2 DEF Send, Attempt
<1>6. CASE \E k \in Lookup(disconnected, token, Author(m), idOnly) : AcceptMail(s, m, k)
  <2>1. PICK k \in Lookup(disconnected, token, Author(m), idOnly) : AcceptMail(s, m, k)
    BY <1>6
  <2>2. k \in Keys /\ Queueing(m, k)
    BY <2>1, <1>1, <1>3 DEF Queueing
  <2> QED BY <2>2 DEF Send, Attempt
<1> QED BY <1>4, <1>5, <1>6

LEMMA SendPinnedCases ==
    ASSUME IInv, NEW s \in Sockets, NEW m \in Msgs, NEW k \in Keys, NEW epoch,
           SendPinned(s, m, k, epoch)
    PROVE  /\ tries' = [tries EXCEPT ![m] = @ + 1]
           /\ Delivering(m, k) \/ Failing(m, k)
<1>1. Author(m) \in Live
  <2>1. Author(m) \in Keys
    BY BrokerAssumption DEF Author
  <2> QED BY <2>1 DEF SendPinned, Attempt, Speaks, IsCurrent, Live
<1>2. /\ SameScope(k, Author(m)) /\ Fresh(m, k)
      /\ \/ Fail(s, m, k, "E_TARGET_NOT_FOUND")
         \/ Fail(s, m, k, "E_TARGET_REBOUND")
         \/ k \in Live /\ Sees(m, k) /\ Deliver(s, m, k)
  BY DEF SendPinned, Sees
<1>3. tries' = [tries EXCEPT ![m] = @ + 1]
  BY DEF SendPinned, Attempt
<1> QED BY <1>1, <1>2, <1>3, FailRefuses DEF Delivering, Failing

LEMMA BrokerCases ==
    ASSUME IInv, [BrokerNext]_brokerVars
    PROVE  \/ UNCHANGED mailVars
           \/ \E m \in Msgs, k \in Keys :
                 /\ tries' = [tries EXCEPT ![m] = @ + 1]
                 /\ Delivering(m, k) \/ Queueing(m, k) \/ Failing(m, k)
           \/ \E s \in Sockets, k \in Keys, p \in Profiles : RegisterAndFlush(s, k, p)
           \/ \E s \in Sockets, m \in Msgs : Withdraw(s, m)
           \/ ExpireMail
           \/ \E m \in Msgs : Expire(m)
BY SendCases, SendPinnedCases DEF BrokerNext, ConnectionStep, MailStep, brokerVars

Give(m, k) == handed' = [handed EXCEPT ![m][k] = @ + 1]
Routing(m, k) == routes' = [routes EXCEPT ![m] = k]
Recording(m, k, state) == records' = [records EXCEPT ![m] = NewRecord(k, state, "")]
Answering(m, k) == asks' = [x \in Msgs |-> IF x \in Ended(m) THEN None ELSE OpenAsk(m, k)[x]]
Closed(m) == asks' = [x \in Msgs |-> IF x \in Ended(m) THEN None ELSE asks[x]]
Entry(m, k) == [msg |-> m, from |-> sessions[Author(m)].info, target |-> disconnected[k]]
Taking(m, k) ==
    /\ mailbox' = Queued(Entry(m, k))
    /\ routes' = DropRoutes(EvictedMail)
    /\ handed' = handed

(* The outcomes of a send to a live session.                               *)
LEMMA DeliverCases ==
    ASSUME NEW s, NEW m \in Msgs, NEW k \in Keys, Deliver(s, m, k)
    PROVE  /\ Fresh(m, k) /\ ReplyAllowed(m, k) /\ SupersedeAllowed(m, k)
           /\ mailbox' = mailbox /\ withdrawn' = withdrawn
           /\ \/ Refusing(m, k, "E_MESSAGE_TOO_LARGE")
              \/ /\ Give(m, k) /\ Answering(m, k) /\ Routing(m, k)
                 /\ Recording(m, k, "socket_delivered")
              \/ records' = records /\ routes' = routes /\ asks' = asks /\ handed' = handed
              \/ /\ "stage" \in StoreFailures
                 /\ asks' = OpenAsk(m, k)
                 /\ records' = records /\ routes' = routes /\ handed' = handed
              \/ /\ "commit" \in StoreFailures
                 /\ Give(m, k) /\ asks' = OpenAsk(m, k)
                 /\ records' = records /\ routes' = routes
BY FailRefuses DEF Deliver, Refusing, HandTo, Give, Answering, Routing, Recording

(* The outcomes of a send to a disconnected session: a live one that is    *)
(* its unique substitute gets the message, or the mailbox does.            *)
LEMMA AcceptMailCases ==
    ASSUME BaseInv, NEW s, NEW m \in Msgs, NEW k \in Keys, AcceptMail(s, m, k),
           Author(m) \in Live, disconnected[k] # None, SameScope(k, Author(m))
    PROVE  /\ Fresh(m, k) /\ ReplyAllowed(m, k)
           /\ withdrawn' = withdrawn
           /\ \/ Refusing(m, k, "E_MESSAGE_TOO_LARGE")
              \/ /\ mailbox' = mailbox /\ records' = records /\ routes' = routes
                 /\ asks' = asks /\ handed' = handed
              \/ \E j \in Live :
                    /\ SameScope(j, Author(m)) /\ Sees(m, j)
                    /\ Give(m, j) /\ Routing(m, j)
                    /\ mailbox' = mailbox
                    /\ \/ Recording(m, k, "socket_delivered") /\ Closed(m)
                       \/ "commit" \in StoreFailures /\ records' = records /\ asks' = asks
              \/ /\ Taking(m, k)
                 /\ \/ /\ records' = [FailRecords(EvictedMail, "E_DELIVERY_EVICTED") EXCEPT
                                         ![m] = NewRecord(k, "queued", "")]
                       /\ Closed(m)
                    \/ /\ "commit" \in StoreFailures
                       /\ records' = FailRecords(EvictedMail, "E_DELIVERY_EVICTED")
                       /\ asks' = asks
<1> DEFINE J == Substitute(disconnected[k], Author(m))
           Handing == /\ handed' = [handed EXCEPT ![m] =
                             [x \in Keys |-> handed[m][x] + (IF x \in J THEN 1 ELSE 0)]]
                      /\ routes' = [routes EXCEPT ![m] = CHOOSE x \in J : TRUE]
                      /\ UNCHANGED mailbox
<1>1. /\ Fresh(m, k) /\ ReplyAllowed(m, k)
      /\ withdrawn' = withdrawn
  BY FailRefuses DEF AcceptMail, Refusing
<1>2. ASSUME J # {}, Handing
      PROVE  \E j \in Live :
                /\ SameScope(j, Author(m)) /\ Sees(m, j)
                /\ Give(m, j) /\ Routing(m, j)
                /\ mailbox' = mailbox
  <2>1. PICK j : J = {j} /\ j \in Live /\ SameScope(j, disconnected[k].key) /\ Sees(m, j)
    BY <1>2 DEF Substitute, Sharing, Live, Sees
  <2>2. SameScope(j, Author(m))
    BY <2>1 DEF SameScope, BaseInv, RememberedKeyed
  <2>3. (CHOOSE x \in J : TRUE) = j
    BY <2>1
  <2>4. handed \in [Msgs -> [Keys -> Nat]]
    BY DEF BaseInv, BrokerTypeOK
  <2> HIDE DEF J
  <2>5. Give(m, j)
    <3>1. handed' = [handed EXCEPT ![m] =
                        [x \in Keys |-> handed[m][x] + (IF x = j THEN 1 ELSE 0)]]
      BY <1>2, <2>1
    <3>2. [x \in Keys |-> handed[m][x] + (IF x = j THEN 1 ELSE 0)]
            = [handed[m] EXCEPT ![j] = @ + 1]
      <4>1. handed[m] \in [Keys -> Nat]
        BY <2>4
      <4>2. \A x \in Keys : handed[m][x] \in Nat /\ handed[m][x] + 0 = handed[m][x]
        BY <4>1
      <4> QED BY <4>1, <4>2, <2>1
    <3> QED BY <3>1, <3>2 DEF Give
  <2> QED BY <1>2, <2>1, <2>2, <2>3, <2>5 DEF Routing
<1>3. \/ Refusing(m, k, "E_MESSAGE_TOO_LARGE")
      \/ /\ mailbox' = mailbox /\ records' = records /\ routes' = routes
         /\ asks' = asks /\ handed' = handed
      \/ /\ J # {} /\ Handing
         /\ \/ Recording(m, k, "socket_delivered") /\ Closed(m)
            \/ "commit" \in StoreFailures /\ records' = records /\ asks' = asks
      \/ /\ J = {} /\ Taking(m, k)
         /\ \/ /\ records' = [FailRecords(EvictedMail, "E_DELIVERY_EVICTED") EXCEPT
                                 ![m] = NewRecord(k, "queued", "")]
               /\ Closed(m)
            \/ /\ "commit" \in StoreFailures
               /\ records' = FailRecords(EvictedMail, "E_DELIVERY_EVICTED")
               /\ asks' = asks
  <2>1. CASE J # {}
    BY <2>1, FailRefuses DEF AcceptMail, Closed, Recording
  <2>2. CASE J = {}
    BY <2>2, FailRefuses DEF AcceptMail, Closed, Taking, Entry
  <2> QED BY <2>1, <2>2
<1> HIDE DEF J, Handing
<1> QED BY <1>1, <1>2, <1>3

(* The mail at the positions D goes to the new session k, except for what  *)
(* is too large for a frame.                                               *)
Letters(D) == {mailbox[i].msg : i \in D}
CopiesIn(D, m) == Cardinality({i \in D : mailbox[i].msg = m})
Flushing(k, D, big) ==
    /\ handed' = [m \in Msgs |-> IF m \in Letters(D) \ big
                     THEN [handed[m] EXCEPT ![k] = @ + CopiesIn(D, m)] ELSE handed[m]]
    /\ routes' = [m \in Msgs |-> IF m \in big THEN None
                                 ELSE IF m \in Letters(D) THEN k ELSE routes[m]]
    /\ records' = [m \in Msgs |->
          IF m \in big THEN Updated(records[m], "failed", "E_MESSAGE_TOO_LARGE")
          ELSE IF m \in Letters(D) THEN Updated(records[m], "socket_delivered", "")
          ELSE records[m]]
    /\ UNCHANGED <<asks, askFiles, tries, withdrawn>>

LEMMA CopiesOfDue ==
    ASSUME mailbox \in Seq(Mail), NEW D \in SUBSET (1..Len(mailbox)), NEW m
    PROVE  /\ CopiesIn(D, m) \in Nat
           /\ m \in Letters(D) => CopiesIn(D, m) > 0
           /\ m \in Letters(D) /\ OneCopy(mailbox) => CopiesIn(D, m) = 1
<1> DEFINE C == {i \in D : mailbox[i].msg = m}
<1>0. Len(mailbox) \in Nat
  BY LenProperties
<1>1. IsFiniteSet(C)
  <2>1. IsFiniteSet(1..Len(mailbox))
    BY <1>0, FS_Interval
  <2>2. C \in SUBSET (1..Len(mailbox))
    OBVIOUS
  <2> QED BY <2>1, <2>2, FS_Subset
<1>2. Cardinality(C) \in Nat
  BY <1>1, FS_CardinalityType
<1>3. ASSUME m \in Letters(D) PROVE Cardinality(C) > 0
  <2>1. C # {}
    BY <1>3 DEF Letters
  <2>2. Cardinality(C) # 0
    BY <1>1, <2>1, FS_EmptySet
  <2> QED BY <1>2, <2>2
<1>4. ASSUME m \in Letters(D), OneCopy(mailbox) PROVE Cardinality(C) = 1
  <2>1. PICK i \in D : mailbox[i].msg = m
    BY <1>4 DEF Letters
  <2>2. C = {i}
    BY <1>4, <2>1 DEF OneCopy
  <2> QED BY <2>2, FS_Singleton
<1> QED BY <1>2, <1>3, <1>4 DEF CopiesIn

LEMMA FlushCases ==
    ASSUME BaseInv, NEW s \in Sockets, NEW k \in Keys, NEW p \in Profiles,
           RegisterAndFlush(s, k, p)
    PROVE  \E D \in SUBSET (1..Len(mailbox)) : \E big \in SUBSET Letters(D) :
              /\ Rest(mailbox, mailbox', (1..Len(mailbox)) \ D)
              /\ \A i \in D : /\ SameScope(mailbox[i].target.key, k)
                              /\ CanSee(mailbox[i].from, sessions'[k].info)
              /\ Flushing(k, D, big)
<1> DEFINE info == sessions'[k].info
           D == {i \in 1..Len(mailbox) : ForSession(mailbox[i], info, sessions')}
<1>1. info.key = k
  <2>1. RegistryNext
    BY DEF RegisterAndFlush, RegistryNext
  <2>2. IInv'
    BY <2>1, NextIInv DEF BaseInv
  <2>3. k \in Live'
    <3>1. sessions' \in [Keys -> SessionRecords \cup {None}]
      BY <2>2 DEF IInv, RegistryTypeOK
    <3>2. sessions'[k].socket = s /\ sessions'[k] # None
      <4>1. PICK name \in Deduped(p.name, k) : sessions' = [sessions EXCEPT ![k] =
              [socket |-> s, epoch |-> epochs[k] + 1, info |-> Info(k, name, p)]]
        BY DEF RegisterAndFlush, Register
      <4>2. sessions'[k] = [socket |-> s, epoch |-> epochs[k] + 1, info |-> Info(k, name, p)]
        BY <4>1 DEF BaseInv, IInv, RegistryTypeOK
      <4>3. Info(k, name, p) \in Infos
        <5>1. name \in Tokens \cup {None}
          BY DedupedIsFree
        <5> QED BY <5>1, RegistryAssumption DEF Info, Infos, Cwds, Supervisors
      <4>4. epochs[k] + 1 \in Nat
        BY DEF BaseInv, IInv, RegistryTypeOK
      <4>5. sessions'[k] \in SessionRecords
        BY <4>2, <4>3, <4>4 DEF SessionRecords
      <4> QED BY <4>2, <4>5, RegistryAssumption
    <3> QED BY <3>2 DEF Live
  <2> QED BY <2>2, <2>3 DEF IInv, InfosKeyed
<1> HIDE DEF info
<1>2. /\ \E at \in InOrder((1..Len(mailbox)) \ D) :
            mailbox' = [n \in DOMAIN at |-> mailbox[at[n]]]
      /\ \E big \in SUBSET Letters(D) : Flushing(k, D, big)
  <2>1. PICK big \in SUBSET (Letters(D) \cap Bulky) :
          /\ \E at \in InOrder((1..Len(mailbox)) \ D) :
                mailbox' = [n \in DOMAIN at |-> mailbox[at[n]]]
          /\ handed' = [m \in Msgs |-> IF m \in Letters(D) \ big
                         THEN [handed[m] EXCEPT ![k] = @ + CopiesIn(D, m)] ELSE handed[m]]
          /\ routes' = [m \in Msgs |-> CASE m \in big -> None
                                       [] m \in Letters(D) \ big -> k
                                       [] OTHER -> routes[m]]
          /\ records' = [m \in Msgs |->
              CASE m \in big -> Updated(records[m], "failed", "E_MESSAGE_TOO_LARGE")
                [] m \in Letters(D) \ big -> Updated(records[m], "socket_delivered", "")
                [] OTHER -> records[m]]
          /\ UNCHANGED <<asks, askFiles, tries, withdrawn>>
    BY DEF RegisterAndFlush, Flush, Letters, CopiesIn, info
  <2> HIDE DEF D
  <2>2. Flushing(k, D, big)
    BY <2>1 DEF Flushing
  <2> QED BY <2>1, <2>2
<1>3. mailbox \in Seq(Mail)
  BY DEF BaseInv, BrokerTypeOK
<1>4. Rest(mailbox, mailbox', (1..Len(mailbox)) \ D)
  <2>1. PICK at \in InOrder((1..Len(mailbox)) \ D) :
          mailbox' = [n \in DOMAIN at |-> mailbox[at[n]]]
    BY <1>2
  <2> HIDE DEF D
  <2>2. (1..Len(mailbox)) \ D \in SUBSET (1..Len(mailbox))
    OBVIOUS
  <2> QED BY <1>3, <2>1, <2>2, FlushRest
<1>5. \A i \in D : /\ SameScope(mailbox[i].target.key, k)
                   /\ CanSee(mailbox[i].from, info)
  BY <1>1 DEF ForSession
<1>6. D \in SUBSET (1..Len(mailbox))
  OBVIOUS
<1> HIDE DEF D
<1> QED BY <1>2, <1>4, <1>5, <1>6 DEF info

-----------------------------------------------------------------------------
(* Types *)

States == {"queued", "socket_delivered", "failed"}
RecordCodes ==
    {"", "E_MESSAGE_TOO_LARGE", "E_TARGET_NOT_FOUND", "E_TARGET_REBOUND",
     "E_DELIVERY_EVICTED", "E_DELIVERY_EXPIRED", "E_DELIVERY_CANCELLED"}

(* The states and codes the broker writes are states and codes of records. *)
LEMMA WrittenCodes ==
    /\ "failed" \in States /\ "queued" \in States /\ "socket_delivered" \in States
    /\ "" \in RecordCodes
    /\ "E_MESSAGE_TOO_LARGE" \in RecordCodes
    /\ "E_TARGET_NOT_FOUND" \in RecordCodes
    /\ "E_TARGET_REBOUND" \in RecordCodes
    /\ "E_DELIVERY_EVICTED" \in RecordCodes
    /\ "E_DELIVERY_EXPIRED" \in RecordCodes
    /\ "E_DELIVERY_CANCELLED" \in RecordCodes
BY DEF States, RecordCodes

LEMMA NewRecordIs ==
    ASSUME NEW k \in Keys, NEW state \in States, NEW code \in RecordCodes
    PROVE  /\ NewRecord(k, state, code) \in DeliveryRecords
           /\ NewRecord(k, state, code) # None
           /\ NewRecord(k, state, code).state = state
           /\ NewRecord(k, state, code).code = code
<1>1. NewRecord(k, state, code) \in DeliveryRecords
  BY DEF NewRecord, DeliveryRecords, States, RecordCodes
<1> QED BY <1>1, BrokerAssumption DEF NewRecord

LEMMA UpdatedIs ==
    ASSUME NEW r \in DeliveryRecords \cup {None}, NEW state \in States, NEW code \in RecordCodes
    PROVE  /\ Updated(r, state, code) \in DeliveryRecords \cup {None}
           /\ Updated(r, state, code) = None <=> r = None
           /\ r # None => /\ Updated(r, state, code).state = state
                          /\ Updated(r, state, code).code = code
<1>1. CASE r = None
  BY <1>1 DEF Updated
<1>2. CASE r # None
  <2>1. r \in DeliveryRecords
    BY <1>2
  <2>2. Updated(r, state, code) = [r EXCEPT !.state = state, !.code = code]
    BY <1>2 DEF Updated
  <2>3. Updated(r, state, code) \in DeliveryRecords
    BY <2>1, <2>2 DEF DeliveryRecords, States, RecordCodes
  <2>4. Updated(r, state, code).state = state /\ Updated(r, state, code).code = code
    BY <2>1, <2>2 DEF DeliveryRecords
  <2> QED BY <1>2, <2>3, <2>4, BrokerAssumption
<1> QED BY <1>1, <1>2

LEMMA CancelledIs ==
    ASSUME NEW r \in DeliveryRecords \cup {None},
           NEW how \in {"removed_from_mailbox", "not_delivered", "withdrawal_requested"}
    PROVE  /\ Cancelled(r, how) \in DeliveryRecords \cup {None}
           /\ Cancelled(r, how) = None <=> r = None
           /\ r # None => /\ Cancelled(r, how).state = r.state
                          /\ Cancelled(r, how).code = r.code
<1>1. CASE r = None
  BY <1>1 DEF Cancelled
<1>2. CASE r # None
  <2>1. r \in DeliveryRecords
    BY <1>2
  <2>2. Cancelled(r, how) = [r EXCEPT !.cancelled = how]
    BY <1>2 DEF Cancelled
  <2>3. Cancelled(r, how) \in DeliveryRecords
    BY <2>1, <2>2 DEF DeliveryRecords
  <2>4. Cancelled(r, how).state = r.state /\ Cancelled(r, how).code = r.code
    BY <2>1, <2>2 DEF DeliveryRecords
  <2> QED BY <1>2, <2>3, <2>4, BrokerAssumption
<1> QED BY <1>1, <1>2

AllRecords == [Msgs -> DeliveryRecords \cup {None}]

LEMMA FailRecordsIs ==
    ASSUME records \in AllRecords, NEW ms,
           NEW code \in {"E_DELIVERY_EVICTED", "E_DELIVERY_EXPIRED"}
    PROVE  /\ FailRecords(ms, code) \in AllRecords
           /\ \A x \in Msgs : FailRecords(ms, code)[x] =
                 IF x \in ms THEN Updated(records[x], "failed", code) ELSE records[x]
<1>0. "failed" \in States /\ code \in RecordCodes
  BY DEF States, RecordCodes
<1>1. \A x \in Msgs : Updated(records[x], "failed", code) \in DeliveryRecords \cup {None}
  BY <1>0, UpdatedIs DEF AllRecords
<1> QED BY <1>1 DEF FailRecords, AllRecords

LEMMA EntryIsMail ==
    ASSUME BaseInv, NEW m \in Msgs, NEW k \in Keys, Author(m) \in Live, disconnected[k] # None
    PROVE  Entry(m, k) \in Mail
<1>1. Author(m) \in Keys /\ sessions[Author(m)] \in SessionRecords
  BY DEF Live, BaseInv, IInv, RegistryTypeOK
<1>2. disconnected[k] \in Infos
  BY DEF BaseInv, IInv, RegistryTypeOK
<1>3. sessions[Author(m)].info \in Infos
  BY <1>1 DEF SessionRecords
<1> QED BY <1>2, <1>3 DEF Entry, Mail

(* The tables that the theorems below speak of.                            *)
BoxTypeOK ==
    /\ mailbox \in Seq(Mail)
    /\ records \in AllRecords
    /\ routes \in [Msgs -> Keys \cup {None}]
    /\ handed \in [Msgs -> [Keys -> Nat]]
    /\ withdrawn \subseteq Msgs

LEMMA GiveTypes ==
    ASSUME BoxTypeOK, NEW m \in Msgs, NEW k \in Keys, Give(m, k)
    PROVE  /\ handed' \in [Msgs -> [Keys -> Nat]]
           /\ \A x \in Msgs, j \in Keys :
                 handed'[x][j] = IF x = m /\ j = k THEN handed[x][j] + 1 ELSE handed[x][j]
<1>1. \A x \in Msgs : handed[x] \in [Keys -> Nat]
  BY DEF BoxTypeOK
<1>2. [handed[m] EXCEPT ![k] = @ + 1] \in [Keys -> Nat]
  BY <1>1
<1>3. handed' = [handed EXCEPT ![m] = [handed[m] EXCEPT ![k] = @ + 1]]
  BY DEF Give
<1>4. handed' \in [Msgs -> [Keys -> Nat]]
  BY <1>2, <1>3 DEF BoxTypeOK
<1>5. \A x \in Msgs : handed'[x] = IF x = m THEN [handed[m] EXCEPT ![k] = @ + 1] ELSE handed[x]
  BY <1>3 DEF BoxTypeOK
<1> QED BY <1>1, <1>4, <1>5

LEMMA DeliveringTypes ==
    ASSUME BaseInv, BoxTypeOK, NEW m \in Msgs, NEW k \in Keys, Delivering(m, k)
    PROVE  BoxTypeOK'
<1>1. PICK s \in Sockets : Deliver(s, m, k)
  BY DEF Delivering
<1>2. /\ NewRecord(k, "failed", "E_MESSAGE_TOO_LARGE") \in DeliveryRecords
      /\ NewRecord(k, "socket_delivered", "") \in DeliveryRecords
  BY NewRecordIs, WrittenCodes
<1>3. mailbox' = mailbox /\ withdrawn' = withdrawn
  BY <1>1, DeliverCases
<1>4. \/ Give(m, k)
      \/ handed' = handed
  BY <1>1, DeliverCases DEF Refusing
<1>5. routes' = routes \/ Routing(m, k)
  BY <1>1, DeliverCases DEF Refusing
<1>6. \/ records' = records
      \/ Refusing(m, k, "E_MESSAGE_TOO_LARGE")
      \/ Recording(m, k, "socket_delivered")
  BY <1>1, DeliverCases DEF Refusing
<1>7. records' \in AllRecords
  BY <1>2, <1>6 DEF BoxTypeOK, AllRecords, Refusing, Recording
<1>8. handed' \in [Msgs -> [Keys -> Nat]]
  BY <1>4, GiveTypes DEF BoxTypeOK
<1>9. routes' \in [Msgs -> Keys \cup {None}]
  BY <1>5 DEF BoxTypeOK, Routing
<1> QED BY <1>3, <1>7, <1>8, <1>9 DEF BoxTypeOK

LEMMA QueueingTypes ==
    ASSUME BaseInv, BoxTypeOK, NEW m \in Msgs, NEW k \in Keys, Queueing(m, k)
    PROVE  BoxTypeOK'
<1>1. PICK s \in Sockets : AcceptMail(s, m, k)
  BY DEF Queueing
<1>2. /\ NewRecord(k, "failed", "E_MESSAGE_TOO_LARGE") \in DeliveryRecords
      /\ NewRecord(k, "socket_delivered", "") \in DeliveryRecords
      /\ NewRecord(k, "queued", "") \in DeliveryRecords
  BY NewRecordIs, WrittenCodes
<1>3. Entry(m, k) \in Mail
  BY EntryIsMail DEF Queueing
<1>4. FailRecords(EvictedMail, "E_DELIVERY_EVICTED") \in AllRecords
  BY FailRecordsIs DEF BoxTypeOK
<1>5. /\ withdrawn' = withdrawn
      /\ \/ mailbox' = mailbox
         \/ mailbox' = Queued(Entry(m, k))
      /\ \/ handed' = handed
         \/ \E j \in Live : Give(m, j)
      /\ \/ routes' = routes
         \/ \E j \in Live : Routing(m, j)
         \/ routes' = DropRoutes(EvictedMail)
      /\ \/ records' = records
         \/ Refusing(m, k, "E_MESSAGE_TOO_LARGE")
         \/ Recording(m, k, "socket_delivered")
         \/ records' = FailRecords(EvictedMail, "E_DELIVERY_EVICTED")
         \/ records' = [FailRecords(EvictedMail, "E_DELIVERY_EVICTED") EXCEPT
                           ![m] = NewRecord(k, "queued", "")]
  BY <1>1, AcceptMailCases DEF Queueing, Refusing, Taking
<1>6. mailbox' \in Seq(Mail)
  BY <1>3, <1>5, QueuedBox DEF BoxTypeOK
<1>7. handed' \in [Msgs -> [Keys -> Nat]]
  BY <1>5, GiveTypes DEF BoxTypeOK, Live
<1>8. routes' \in [Msgs -> Keys \cup {None}]
  <2>1. DropRoutes(EvictedMail) \in [Msgs -> Keys \cup {None}]
    BY DEF DropRoutes, BoxTypeOK
  <2>2. \A j \in Live : [routes EXCEPT ![m] = j] \in [Msgs -> Keys \cup {None}]
    BY DEF Live, BoxTypeOK
  <2> QED BY <1>5, <2>1, <2>2 DEF BoxTypeOK, Routing
<1>9. records' \in AllRecords
  <2> DEFINE F == FailRecords(EvictedMail, "E_DELIVERY_EVICTED")
  <2>1. F \in AllRecords
    BY <1>4
  <2> HIDE DEF F
  <2>2. \/ records' = records
        \/ records' = [records EXCEPT ![m] = NewRecord(k, "failed", "E_MESSAGE_TOO_LARGE")]
        \/ records' = [records EXCEPT ![m] = NewRecord(k, "socket_delivered", "")]
        \/ records' = F
        \/ records' = [F EXCEPT ![m] = NewRecord(k, "queued", "")]
    BY <1>5 DEF F, Refusing, Recording
  <2> QED BY <1>2, <2>1, <2>2 DEF BoxTypeOK, AllRecords
<1> QED BY <1>5, <1>6, <1>7, <1>8, <1>9 DEF BoxTypeOK

LEMMA FlushTypes ==
    ASSUME BaseInv, BoxTypeOK, NEW k \in Keys, NEW D \in SUBSET (1..Len(mailbox)), NEW big,
           Rest(mailbox, mailbox', (1..Len(mailbox)) \ D), Flushing(k, D, big)
    PROVE  /\ BoxTypeOK'
           /\ \A m \in Msgs, j \in Keys : handed'[m][j] =
                 IF j = k /\ m \in Letters(D) \ big THEN handed[m][j] + CopiesIn(D, m)
                 ELSE handed[m][j]
<1>1. mailbox' \in Seq(Mail)
  BY DEF Rest
<1>2. /\ handed' \in [Msgs -> [Keys -> Nat]]
      /\ \A m \in Msgs, j \in Keys : handed'[m][j] =
            IF j = k /\ m \in Letters(D) \ big THEN handed[m][j] + CopiesIn(D, m)
            ELSE handed[m][j]
  <2>1. \A m \in Msgs : handed[m] \in [Keys -> Nat] /\ CopiesIn(D, m) \in Nat
    BY CopiesOfDue DEF BoxTypeOK
  <2>2. ASSUME NEW m \in Msgs
        PROVE  /\ handed'[m] \in [Keys -> Nat]
               /\ \A j \in Keys : handed'[m][j] =
                     IF j = k /\ m \in Letters(D) \ big THEN handed[m][j] + CopiesIn(D, m)
                     ELSE handed[m][j]
    <3> DEFINE h == handed[m]
               n == CopiesIn(D, m)
    <3>1. handed'[m] = IF m \in Letters(D) \ big THEN [h EXCEPT ![k] = @ + n] ELSE h
      BY DEF Flushing
    <3>2. h \in [Keys -> Nat] /\ n \in Nat
      BY <2>1
    <3> HIDE DEF h, n
    <3>3. [h EXCEPT ![k] = @ + n] \in [Keys -> Nat]
      BY <3>2
    <3>4. \A j \in Keys : [h EXCEPT ![k] = @ + n][j] = IF j = k THEN h[j] + n ELSE h[j]
      BY <3>2
    <3>5. handed'[m] \in [Keys -> Nat]
      BY <3>1, <3>2, <3>3
    <3>6. ASSUME NEW j \in Keys
          PROVE  handed'[m][j] = IF j = k /\ m \in Letters(D) \ big THEN h[j] + n ELSE h[j]
      BY <3>1, <3>4
    <3> QED BY <3>5, <3>6 DEF h, n
  <2> DEFINE G(m) == IF m \in Letters(D) \ big
                     THEN [handed[m] EXCEPT ![k] = @ + CopiesIn(D, m)] ELSE handed[m]
  <2>3. handed' = [m \in Msgs |-> G(m)]
    BY DEF Flushing
  <2> HIDE DEF G
  <2>4. \A m \in Msgs : G(m) = handed'[m]
    BY <2>3
  <2>5. \A m \in Msgs : G(m) \in [Keys -> Nat]
    BY <2>2, <2>4
  <2>6. handed' \in [Msgs -> [Keys -> Nat]]
    BY <2>3, <2>5
  <2> QED BY <2>2, <2>6
<1>3. routes' \in [Msgs -> Keys \cup {None}]
  BY DEF Flushing, BoxTypeOK
<1>4. records' \in AllRecords
  <2>1. \A m \in Msgs :
            /\ Updated(records[m], "failed", "E_MESSAGE_TOO_LARGE") \in DeliveryRecords \cup {None}
            /\ Updated(records[m], "socket_delivered", "") \in DeliveryRecords \cup {None}
    BY UpdatedIs, WrittenCodes DEF BoxTypeOK, AllRecords
  <2> QED BY <2>1 DEF Flushing, BoxTypeOK, AllRecords
<1>5. withdrawn' = withdrawn
  BY DEF Flushing
<1> QED BY <1>1, <1>2, <1>3, <1>4, <1>5 DEF BoxTypeOK

(* A withdrawal takes one entry out, or none.                              *)
LEMMA WithdrawCases ==
    ASSUME BoxTypeOK, NEW s, NEW m \in Msgs, Withdraw(s, m)
    PROVE  /\ routes' = routes /\ handed' = handed /\ tries' = tries
           /\ ClearAsk(m)
           /\ \/ \E i \in 1..Len(mailbox) :
                    /\ mailbox[i].msg = m
                    /\ Rest(mailbox, mailbox', (1..Len(mailbox)) \ {i})
                    /\ records' = [records EXCEPT ![m] =
                          Cancelled(Updated(@, "failed", "E_DELIVERY_CANCELLED"), "removed_from_mailbox")]
                    /\ withdrawn' = withdrawn \union {m}
              \/ /\ mailbox' = mailbox /\ withdrawn' = withdrawn
                 /\ \/ records' = records
                    \/ \E how \in {"not_delivered", "withdrawal_requested"} :
                          records' = [records EXCEPT ![m] = Cancelled(@, how)]
<1>1. CASE InMail(m) /\ mailbox' = WithoutCopy(FirstCopy(m))
  <2> DEFINE T == {i \in 1..Len(mailbox) : mailbox[i].msg = m}
             Less == OpToRel(<, Nat)
             Earliest(i) == /\ mailbox[i].msg = m
                            /\ \A j \in 1..(i - 1) : mailbox[j].msg # m
  <2>0. mailbox \in Seq(Mail) /\ Len(mailbox) \in Nat
    BY LenProperties DEF BoxTypeOK
  <2>1. T \subseteq Nat /\ T # {}
    BY <1>1, <2>0 DEF InMail
  <2>2. IsWellFoundedOn(Less, Nat)
    BY NatLessThanWellFounded
  <2> HIDE DEF T
  <2>3. PICK i \in T : \A y \in T : <<y, i>> \notin Less
    BY <2>1, <2>2, WFMin
  <2>4. \A y \in T : ~(y < i)
    BY <2>1, <2>3 DEF OpToRel
  <2>5. i \in 1..Len(mailbox) /\ Earliest(i)
    BY <2>0, <2>4 DEF T
  <2>6. /\ FirstCopy(m) \in 1..Len(mailbox)
        /\ mailbox[FirstCopy(m)].msg = m
    <3>1. FirstCopy(m) = CHOOSE n \in 1..Len(mailbox) : Earliest(n)
      BY DEF FirstCopy
    <3>2. Earliest(FirstCopy(m)) /\ FirstCopy(m) \in 1..Len(mailbox)
      BY <2>5, <3>1
    <3> QED BY <3>2
  <2>7. Rest(mailbox, mailbox', (1..Len(mailbox)) \ {FirstCopy(m)})
    BY <1>1, <2>0, <2>6, WithoutRest
  <2> QED BY <1>1, <2>6, <2>7 DEF Withdraw
<1>2. CASE ~(InMail(m) /\ mailbox' = WithoutCopy(FirstCopy(m)))
  BY <1>2 DEF Withdraw
<1> QED BY <1>1, <1>2

LEMMA WithdrawTypes ==
    ASSUME BoxTypeOK, NEW s, NEW m \in Msgs, Withdraw(s, m)
    PROVE  BoxTypeOK'
<1>1. /\ routes' = routes /\ handed' = handed
      /\ mailbox' = mailbox \/ mailbox' \in Seq(Mail)
      /\ withdrawn' \in {withdrawn, withdrawn \union {m}}
      /\ \/ records' = records
         \/ records' = [records EXCEPT ![m] =
               Cancelled(Updated(@, "failed", "E_DELIVERY_CANCELLED"), "removed_from_mailbox")]
         \/ \E how \in {"not_delivered", "withdrawal_requested"} :
               records' = [records EXCEPT ![m] = Cancelled(@, how)]
  BY WithdrawCases DEF Rest
<1>2. records[m] \in DeliveryRecords \cup {None}
  BY DEF BoxTypeOK, AllRecords
<1>3. "failed" \in States /\ "E_DELIVERY_CANCELLED" \in RecordCodes
  BY DEF States, RecordCodes
<1>4. Cancelled(Updated(records[m], "failed", "E_DELIVERY_CANCELLED"), "removed_from_mailbox")
        \in DeliveryRecords \cup {None}
  BY <1>2, <1>3, UpdatedIs, CancelledIs
<1>5. \A how \in {"not_delivered", "withdrawal_requested"} :
          Cancelled(records[m], how) \in DeliveryRecords \cup {None}
  BY <1>2, CancelledIs
<1>6. records' \in AllRecords
  BY <1>1, <1>4, <1>5 DEF BoxTypeOK, AllRecords
<1> QED BY <1>1, <1>6 DEF BoxTypeOK

LEMMA ExpiryTypes ==
    ASSUME BoxTypeOK, ExpireMail \/ \E m \in Msgs : Expire(m)
    PROVE  BoxTypeOK'
<1>1. CASE ExpireMail
  <2>1. /\ mailbox # <<>> /\ mailbox' = Tail(mailbox)
        /\ routes' = DropRoutes({Head(mailbox).msg})
        /\ records' = FailRecords({Head(mailbox).msg}, "E_DELIVERY_EXPIRED")
        /\ handed' = handed /\ withdrawn' = withdrawn
    BY <1>1 DEF ExpireMail
  <2>2. mailbox' \in Seq(Mail)
    BY <2>1, TailRest DEF BoxTypeOK, Rest
  <2>3. routes' \in [Msgs -> Keys \cup {None}]
    BY <2>1 DEF DropRoutes, BoxTypeOK
  <2>4. records' \in AllRecords
    BY <2>1, FailRecordsIs DEF BoxTypeOK
  <2> QED BY <2>1, <2>2, <2>3, <2>4 DEF BoxTypeOK
<1>2. CASE \E m \in Msgs : Expire(m)
  BY <1>2 DEF Expire, BoxTypeOK, AllRecords
<1> QED BY <1>1, <1>2

LEMMA NextTypes ==
    ASSUME BaseInv, BoxTypeOK, [BrokerNext]_brokerVars
    PROVE  BoxTypeOK' /\ tries' \in [Msgs -> Nat]
<1>0. tries \in [Msgs -> Nat]
  BY DEF BaseInv, BrokerTypeOK
<1>1. CASE UNCHANGED mailVars
  BY <1>0, <1>1 DEF mailVars, BoxTypeOK
<1>2. ASSUME NEW m \in Msgs, NEW k \in Keys, tries' = [tries EXCEPT ![m] = @ + 1],
             Delivering(m, k) \/ Queueing(m, k) \/ Failing(m, k)
      PROVE  BoxTypeOK' /\ tries' \in [Msgs -> Nat]
  <2>1. tries' \in [Msgs -> Nat]
    BY <1>0, <1>2
  <2>2. CASE Failing(m, k)
    <3>1. PICK code \in {"E_TARGET_NOT_FOUND", "E_TARGET_REBOUND"} : Refusing(m, k, code)
      BY <2>2 DEF Failing
    <3>2. NewRecord(k, "failed", code) \in DeliveryRecords
      BY NewRecordIs, WrittenCodes
    <3> QED BY <2>1, <3>1, <3>2 DEF Refusing, BoxTypeOK, AllRecords
  <2> QED BY <1>2, <2>1, <2>2, DeliveringTypes, QueueingTypes
<1>3. ASSUME NEW s \in Sockets, NEW k \in Keys, NEW p \in Profiles, RegisterAndFlush(s, k, p)
      PROVE  BoxTypeOK' /\ tries' \in [Msgs -> Nat]
  <2>0. PICK D \in SUBSET (1..Len(mailbox)) : \E big \in SUBSET Letters(D) :
            /\ Rest(mailbox, mailbox', (1..Len(mailbox)) \ D)
            /\ Flushing(k, D, big)
    BY <1>3, FlushCases
  <2>1. PICK big \in SUBSET Letters(D) :
            /\ Rest(mailbox, mailbox', (1..Len(mailbox)) \ D)
            /\ Flushing(k, D, big)
    BY <2>0
  <2>2. BoxTypeOK'
    BY <2>1, FlushTypes
  <2> QED BY <1>0, <2>1, <2>2 DEF Flushing
<1>4. ASSUME NEW s \in Sockets, NEW m \in Msgs, Withdraw(s, m)
      PROVE  BoxTypeOK' /\ tries' \in [Msgs -> Nat]
  BY <1>0, <1>4, WithdrawTypes, WithdrawCases
<1>5. CASE ExpireMail \/ \E m \in Msgs : Expire(m)
  <2>1. tries' = tries
    BY <1>5 DEF ExpireMail, Expire
  <2> QED BY <1>0, <1>5, <2>1, ExpiryTypes
<1> QED BY <1>1, <1>2, <1>3, <1>4, <1>5, BrokerCases DEF BaseInv

LEMMA BaseInvIs ==
    BaseInv <=> /\ IInv /\ RememberedKeyed /\ BoxTypeOK
                /\ tries \in [Msgs -> Nat]
                /\ asks \in [Msgs -> Keys \cup {None}]
                /\ askFiles \subseteq Msgs
BY DEF BaseInv, BrokerTypeOK, IInv, BoxTypeOK, AllRecords

LEMMA NextKeepsBase ==
    ASSUME BaseInv, AsksIInv, [BrokerNext]_brokerVars
    PROVE  BaseInv' /\ AsksIInv'
<1>1. [RegistryNext]_registryVars
  BY StepIsRegistryStep
<1>2. IInv /\ RememberedKeyed /\ BoxTypeOK
  BY BaseInvIs
<1>3. IInv' /\ RememberedKeyed'
  BY <1>1, <1>2, NextIInv, RememberedStaysKeyed
<1>4. BoxTypeOK' /\ tries' \in [Msgs -> Nat]
  BY <1>2, NextTypes
<1>5. AsksIInv'
  BY NextKeepsAsks
<1>6. asks' \in [Msgs -> Keys \cup {None}] /\ askFiles' \subseteq Msgs
  BY <1>5 DEF AsksIInv, AskFilesMatchEdges
<1>7. BaseInv'
  BY <1>3, <1>4, <1>6 DEF BaseInv, BrokerTypeOK, IInv, BoxTypeOK, AllRecords
<1> QED BY <1>5, <1>7

LEMMA InitBase == BrokerInit => BaseInv /\ AsksIInv
<1> SUFFICES ASSUME BrokerInit PROVE BaseInv /\ AsksIInv
  OBVIOUS
<1>1. IInv
  BY InitIInv DEF BrokerInit
<1>2. RememberedKeyed
  BY DEF BrokerInit, RegistryInit, RememberedKeyed
<1>3. BoxTypeOK
  BY EmptySeq DEF BrokerInit, BoxTypeOK, AllRecords
<1>4. AsksIInv
  BY RegistryAssumption DEF BrokerInit, AsksIInv, AskFilesMatchEdges
<1>5. tries \in [Msgs -> Nat] /\ asks \in [Msgs -> Keys \cup {None}] /\ askFiles \subseteq Msgs
  BY DEF BrokerInit
<1> QED BY <1>1, <1>2, <1>3, <1>4, <1>5, BaseInvIs

THEOREM BaseHolds == BrokerSpec => [](BaseInv /\ AsksIInv)
BY InitBase, NextKeepsBase, PTL DEF BrokerSpec

(* Every table of the broker keeps its type, whatever is retried, taken    *)
(* over, withdrawn, evicted or fails to be written.                        *)
THEOREM BrokerTypesHold == BrokerSpec => []BrokerTypeOK
<1>1. BaseInv => BrokerTypeOK
  BY DEF BaseInv
<1> QED BY <1>1, BaseHolds, PTL

-----------------------------------------------------------------------------
(* Who is handed what *)

ScopeInv == \A i \in 1..Len(mailbox) : SameScope(mailbox[i].target.key, Author(mailbox[i].msg))

(* Mail only enters the mailbox from a send within a scope.                *)
LEMMA NextKeepsScope ==
    ASSUME BaseInv, ScopeInv, [BrokerNext]_brokerVars
    PROVE  ScopeInv'
<1>0. IInv /\ RememberedKeyed /\ BoxTypeOK
  BY BaseInvIs
<1>1. ASSUME \A n \in 1..Len(mailbox') : \E i \in 1..Len(mailbox) : mailbox'[n] = mailbox[i]
      PROVE  ScopeInv'
  BY <1>1 DEF ScopeInv, Author
<1>2. ASSUME mailbox' = mailbox PROVE ScopeInv'
  BY <1>2 DEF ScopeInv, Author
<1>3. ASSUME NEW S \in SUBSET (1..Len(mailbox)), Rest(mailbox, mailbox', S)
      PROVE  ScopeInv'
  BY <1>1, <1>3 DEF Rest
<1>4. ASSUME NEW m \in Msgs, NEW k \in Keys, Queueing(m, k)
      PROVE  ScopeInv'
  <2>1. PICK s \in Sockets : AcceptMail(s, m, k)
    BY <1>4 DEF Queueing
  <2>2. mailbox' = mailbox \/ mailbox' = Queued(Entry(m, k))
    BY <1>4, <2>1, AcceptMailCases DEF Queueing, Refusing, Taking
  <2>3. CASE mailbox' = Queued(Entry(m, k))
    <3>1. Entry(m, k) \in Mail
      BY <1>4, EntryIsMail DEF Queueing
    <3>2. SameScope(Entry(m, k).target.key, Author(Entry(m, k).msg))
      BY <1>0, <1>4 DEF Entry, RememberedKeyed, Queueing, SameScope
    <3>3. \A n \in 1..Len(mailbox') :
            mailbox'[n] = Entry(m, k) \/ \E i \in 1..Len(mailbox) : mailbox'[n] = mailbox[i]
      BY <1>0, <2>3, <3>1, QueuedBox DEF BoxTypeOK
    <3> QED BY <3>2, <3>3 DEF ScopeInv, Author
  <2> QED BY <1>2, <2>2, <2>3
<1>5. ASSUME NEW m \in Msgs, NEW k \in Keys, Delivering(m, k) \/ Failing(m, k)
      PROVE  mailbox' = mailbox
  BY <1>5, DeliverCases DEF Delivering, Failing, Refusing
<1>6. ASSUME NEW s \in Sockets, NEW k \in Keys, NEW p \in Profiles, RegisterAndFlush(s, k, p)
      PROVE  ScopeInv'
  <2>1. PICK D \in SUBSET (1..Len(mailbox)) : Rest(mailbox, mailbox', (1..Len(mailbox)) \ D)
    BY <1>6, FlushCases
  <2> QED BY <1>3, <2>1
<1>7. ASSUME NEW s \in Sockets, NEW m \in Msgs, Withdraw(s, m)
      PROVE  ScopeInv'
  <2>1. \/ mailbox' = mailbox
        \/ \E i \in 1..Len(mailbox) : Rest(mailbox, mailbox', (1..Len(mailbox)) \ {i})
    BY <1>0, <1>7, WithdrawCases
  <2> QED BY <1>2, <1>3, <2>1
<1>8. CASE ExpireMail
  <2>1. Rest(mailbox, mailbox', 2..Len(mailbox)) /\ 2..Len(mailbox) \in SUBSET (1..Len(mailbox))
    <3>1. Len(mailbox) \in Nat
      BY <1>0, LenProperties DEF BoxTypeOK
    <3> QED BY <1>0, <1>8, <3>1, TailRest DEF ExpireMail, BoxTypeOK
  <2> QED BY <1>3, <2>1
<1>9. CASE UNCHANGED mailVars \/ \E m \in Msgs : Expire(m)
  BY <1>2, <1>9 DEF mailVars, Expire
<1> QED BY <1>0, <1>2, <1>4, <1>5, <1>6, <1>7, <1>8, <1>9, BrokerCases

(* A step that writes a frame of m to k found k visible, or its mail.      *)
LEMMA HandedToVisible ==
    ASSUME BaseInv, ScopeInv, [BrokerNext]_brokerVars, NEW m \in Msgs, NEW k \in Keys,
           NewlyHanded(m, k)
    PROVE  /\ SameScope(k, Author(m))
           /\ \/ /\ Author(m) \in Live
                 /\ CanSee(sessions[Author(m)].info, sessions'[k].info)
              \/ \E i \in 1..Len(mailbox) : /\ mailbox[i].msg = m
                                            /\ CanSee(mailbox[i].from, sessions'[k].info)
<1>0. IInv /\ RememberedKeyed /\ BoxTypeOK
  BY BaseInvIs
<1>1. handed'[m][k] # handed[m][k]
  <2>1. handed[m][k] \in Nat
    BY <1>0 DEF BoxTypeOK
  <2> QED BY <2>1 DEF NewlyHanded
<1>2. handed' # handed
  BY <1>1
<1>3. ASSUME NEW x \in Msgs, NEW j \in Keys, Give(x, j) PROVE x = m /\ j = k
  BY <1>0, <1>1, <1>3, GiveTypes
<1>4. ASSUME NEW x \in Msgs, NEW j \in Keys, Delivering(x, j)
      PROVE  /\ SameScope(k, Author(m)) /\ Author(m) \in Live
             /\ CanSee(sessions[Author(m)].info, sessions'[k].info)
  <2>1. PICK s \in Sockets : Deliver(s, x, j)
    BY <1>4 DEF Delivering
  <2>2. Give(x, j)
    BY <1>2, <2>1, DeliverCases DEF Refusing
  <2>3. sessions' = sessions
    BY <2>1 DEF Deliver, Fail, Throw, KeepRegistry, registryVars
  <2> QED BY <1>3, <1>4, <2>2, <2>3 DEF Delivering, Sees
<1>5. ASSUME NEW x \in Msgs, NEW j \in Keys, Queueing(x, j)
      PROVE  /\ SameScope(k, Author(m)) /\ Author(m) \in Live
             /\ CanSee(sessions[Author(m)].info, sessions'[k].info)
  <2>1. PICK s \in Sockets : AcceptMail(s, x, j)
    BY <1>5 DEF Queueing
  <2>2. PICK l \in Live : SameScope(l, Author(x)) /\ Sees(x, l) /\ Give(x, l)
    BY <1>2, <1>5, <2>1, AcceptMailCases DEF Refusing, Taking, Queueing
  <2>3. sessions' = sessions
    BY <2>1 DEF AcceptMail, Fail, Throw, KeepRegistry, registryVars
  <2>4. x = m /\ l = k
    BY <1>3, <2>2 DEF Live
  <2> QED BY <1>5, <2>2, <2>3, <2>4 DEF Queueing, Sees
<1>6. ASSUME NEW s \in Sockets, NEW j \in Keys, NEW p \in Profiles, RegisterAndFlush(s, j, p)
      PROVE  /\ SameScope(k, Author(m))
             /\ \E i \in 1..Len(mailbox) : /\ mailbox[i].msg = m
                                           /\ CanSee(mailbox[i].from, sessions'[k].info)
  <2>1. PICK D \in SUBSET (1..Len(mailbox)) : \E big \in SUBSET Letters(D) :
              /\ Rest(mailbox, mailbox', (1..Len(mailbox)) \ D)
              /\ \A i \in D : /\ SameScope(mailbox[i].target.key, j)
                              /\ CanSee(mailbox[i].from, sessions'[j].info)
              /\ Flushing(j, D, big)
    BY <1>6, FlushCases
  <2>2. PICK big \in SUBSET Letters(D) : Flushing(j, D, big)
    BY <2>1
  <2>3. j = k /\ m \in Letters(D)
    <3>1. handed'[m][k] = IF k = j /\ m \in Letters(D) \ big THEN handed[m][k] + CopiesIn(D, m)
                          ELSE handed[m][k]
      <4>1. Rest(mailbox, mailbox', (1..Len(mailbox)) \ D)
        BY <2>1
      <4> QED BY <1>0, <4>1, <2>2, FlushTypes
    <3> QED BY <1>1, <3>1
  <2>4. PICK i \in D : mailbox[i].msg = m
    BY <2>3 DEF Letters
  <2>5. SameScope(mailbox[i].target.key, k) /\ CanSee(mailbox[i].from, sessions'[k].info)
    BY <2>1, <2>3
  <2>6. SameScope(k, Author(m))
    BY <2>4, <2>5 DEF ScopeInv, SameScope
  <2> QED BY <2>4, <2>5, <2>6
<1>7. ASSUME NEW s \in Sockets, NEW x \in Msgs, Withdraw(s, x) PROVE FALSE
  BY <1>0, <1>2, <1>7, WithdrawCases
<1>8. ASSUME \/ UNCHANGED mailVars \/ ExpireMail
             \/ \E x \in Msgs : Expire(x) \/ \E j \in Keys : Failing(x, j)
      PROVE  FALSE
  BY <1>2, <1>8 DEF mailVars, ExpireMail, Expire, Failing, Refusing
<1> QED BY <1>0, <1>4, <1>5, <1>6, <1>7, <1>8, BrokerCases

(* A message only reaches sessions its author may see, over every send,    *)
(* substitution, flush, retry and rename, whatever the stores do.          *)
THEOREM MailReachesTheVisible == BrokerSpec => HandedOnlyToVisible
<1>1. BrokerInit => BaseInv /\ ScopeInv
  <2>1. BrokerInit => ScopeInv
    BY DEF BrokerInit, ScopeInv
  <2> QED BY <2>1, InitBase
<1>2. BaseInv /\ ScopeInv /\ [BrokerNext]_brokerVars => ScopeInv'
  BY NextKeepsScope
<1>3. BaseInv /\ ScopeInv /\ [BrokerNext]_brokerVars =>
        [\A m \in Msgs, k \in Keys : NewlyHanded(m, k) =>
          /\ SameScope(k, Author(m))
          /\ \/ /\ Author(m) \in Live
                /\ CanSee(sessions[Author(m)].info, sessions'[k].info)
             \/ \E i \in 1..Len(mailbox) : /\ mailbox[i].msg = m
                                           /\ CanSee(mailbox[i].from, sessions'[k].info)
        ]_brokerVars
  BY HandedToVisible
<1> QED BY <1>1, <1>2, <1>3, BaseHolds, PTL DEF BrokerSpec, HandedOnlyToVisible

-----------------------------------------------------------------------------
(* One message from its first send to its verdict *)

Rebound == "E_TARGET_REBOUND"

(* The record of m tells where m is.                                       *)
Good(m) ==
    /\ In(mailbox, m) <=> records[m] # None /\ records[m].state = "queued"
    /\ (\E k \in Keys : handed[m][k] > 0) <=>
            records[m] # None /\ records[m].state = "socket_delivered"
    /\ \A j, k \in Keys : handed[m][j] > 0 /\ handed[m][k] > 0 => j = k /\ handed[m][k] = 1
    /\ records[m] # None /\ records[m].code = Rebound => records[m].state = "failed"
    /\ m \in withdrawn =>
            records[m] # None /\ records[m].state = "failed" /\ records[m].code # Rebound

MailInv == OneCopy(mailbox) /\ \A m \in Msgs : Good(m)

OpenMail(m) == records[m] # None => records[m].code = Rebound
Pending(m) == records[m] # None => records[m].state = "queued" \/ records[m].code = Rebound

Untouched(m) ==
    /\ handed'[m] = handed[m]
    /\ In(mailbox', m) <=> In(mailbox, m)
    /\ m \in withdrawn' <=> m \in withdrawn
    /\ records'[m] = None <=> records[m] = None
    /\ records[m] # None => /\ records'[m].state = records[m].state
                            /\ records'[m].code = records[m].code
Arrives(m) ==
    /\ Pending(m)
    /\ \E k \in Keys : \A j \in Keys : handed'[m][j] = IF j = k THEN 1 ELSE 0
    /\ ~In(mailbox', m) /\ m \notin withdrawn'
    /\ records'[m] # None /\ records'[m].state = "socket_delivered" /\ records'[m].code = ""
Refused(m) ==
    /\ Pending(m)
    /\ handed'[m] = handed[m]
    /\ ~In(mailbox', m)
    /\ records'[m] # None /\ records'[m].state = "failed"
    /\ records'[m].code = Rebound => OpenMail(m) /\ m \notin withdrawn'
Kept(m) ==
    /\ OpenMail(m)
    /\ handed'[m] = handed[m]
    /\ In(mailbox', m) /\ m \notin withdrawn'
    /\ records'[m] # None /\ records'[m].state = "queued" /\ records'[m].code = ""

(* Either nothing enters the mailbox, or only one message does, at the cap *)
(* for the oldest.                                                         *)
Moves ==
    \/ \A m \in Msgs : Untouched(m) \/ Arrives(m) \/ Refused(m)
    \/ \E m \in Msgs : /\ Kept(m)
                       /\ \A x \in Msgs \ {m} : Untouched(x)
    \/ \E m, old \in Msgs : /\ m # old /\ Kept(m)
                            /\ Refused(old) /\ records[old] # None
                            /\ records[old].state = "queued"
                            /\ records'[old].code # Rebound
                            /\ \A x \in Msgs \ {m, old} : Untouched(x)

LEMMA PendingUnheard ==
    ASSUME BoxTypeOK, NEW m \in Msgs, Good(m), Pending(m)
    PROVE  \A k \in Keys : handed[m][k] = 0
<1>1. ~\E k \in Keys : handed[m][k] > 0
  BY DEF Good, Pending, Rebound
<1>2. handed[m] \in [Keys -> Nat]
  BY DEF BoxTypeOK
<1> QED BY <1>1, <1>2

LEMMA MovesKeepGood ==
    ASSUME BoxTypeOK, NEW m \in Msgs, Good(m),
           Untouched(m) \/ Arrives(m) \/ Refused(m) \/ Kept(m)
    PROVE  Good(m)'
<1>1. CASE Untouched(m)
  BY <1>1 DEF Untouched, Good, In
<1>2. CASE Arrives(m)
  <2>1. PICK k \in Keys : \A j \in Keys : handed'[m][j] = IF j = k THEN 1 ELSE 0
    BY <1>2 DEF Arrives
  <2>2. /\ \E l \in Keys : handed'[m][l] > 0
        /\ \A j, l \in Keys : handed'[m][j] > 0 /\ handed'[m][l] > 0 => j = l /\ handed'[m][l] = 1
    BY <2>1
  <2>3. /\ ~In(mailbox', m) /\ m \notin withdrawn' /\ records'[m] # None
        /\ records'[m].state = "socket_delivered" /\ records'[m].code = ""
    BY <1>2 DEF Arrives
  <2> QED BY <2>2, <2>3 DEF Good, In, Rebound
<1>3. CASE Refused(m)
  <2>1. \A k \in Keys : handed'[m][k] = 0
    BY <1>3, PendingUnheard DEF Refused
  <2>2. m \in withdrawn' => records'[m].code # Rebound
    BY <1>3 DEF Refused
  <2> QED BY <1>3, <2>1, <2>2 DEF Refused, Good, In
<1>4. CASE Kept(m)
  <2>1. \A k \in Keys : handed'[m][k] = 0
    BY <1>4, PendingUnheard DEF Kept, Pending, OpenMail
  <2>2. /\ In(mailbox', m) /\ m \notin withdrawn' /\ records'[m] # None
        /\ records'[m].state = "queued" /\ records'[m].code = ""
    BY <1>4 DEF Kept
  <2>3. /\ ~\E k \in Keys : handed'[m][k] > 0
        /\ \A j, k \in Keys : handed'[m][j] > 0 /\ handed'[m][k] > 0 => j = k /\ handed'[m][k] = 1
    BY <2>1
  <2> QED BY <2>2, <2>3 DEF Good, In, Rebound
<1> QED BY <1>1, <1>2, <1>3, <1>4

LEMMA FreshIsOpen ==
    ASSUME NEW m \in Msgs, NEW k, Good(m), Fresh(m, k)
    PROVE  OpenMail(m) /\ Pending(m) /\ ~In(mailbox, m) /\ m \notin withdrawn
BY DEF Fresh, OpenMail, Pending, Good, Rebound

(* A message that changes nothing of the mail of the others.               *)
LEMMA OthersUntouched ==
    ASSUME BoxTypeOK, NEW m \in Msgs, NEW x \in Msgs, x # m,
           In(mailbox', x) <=> In(mailbox, x),
           x \in withdrawn' <=> x \in withdrawn,
           handed'[x] = handed[x], records'[x] = records[x]
    PROVE  Untouched(x)
BY DEF Untouched

LEMMA GivesOne ==
    ASSUME BoxTypeOK, NEW m \in Msgs, Good(m), Pending(m), NEW k \in Keys, Give(m, k)
    PROVE  /\ \A j \in Keys : handed'[m][j] = IF j = k THEN 1 ELSE 0
           /\ \A x \in Msgs \ {m} : handed'[x] = handed[x]
<1>1. \A j \in Keys : handed[m][j] = 0
  BY PendingUnheard
<1>2. \A x \in Msgs, j \in Keys :
          handed'[x][j] = IF x = m /\ j = k THEN handed[x][j] + 1 ELSE handed[x][j]
  BY GiveTypes
<1>3. \A x \in Msgs \ {m} : handed'[x] = handed[x]
  BY DEF Give, BoxTypeOK
<1> QED BY <1>1, <1>2, <1>3

(* m is handed over and nothing else happens.                              *)
LEMMA HandingMoves ==
    ASSUME BoxTypeOK, MailInv, NEW m \in Msgs, NEW k \in Keys, NEW j \in Keys,
           Fresh(m, k), Give(m, j), Recording(m, k, "socket_delivered"),
           mailbox' = mailbox, withdrawn' = withdrawn
    PROVE  \A x \in Msgs : Untouched(x) \/ Arrives(x)
<1>1. Good(m)
  BY DEF MailInv
<1>2. OpenMail(m) /\ Pending(m) /\ ~In(mailbox, m) /\ m \notin withdrawn
  BY <1>1, FreshIsOpen
<1>3. /\ \A l \in Keys : handed'[m][l] = IF l = j THEN 1 ELSE 0
      /\ \A x \in Msgs \ {m} : handed'[x] = handed[x]
  BY <1>1, <1>2, GivesOne
<1>4. /\ records'[m] # None /\ records'[m].state = "socket_delivered" /\ records'[m].code = ""
      /\ \A x \in Msgs \ {m} : records'[x] = records[x]
  <2>0. NewRecord(k, "socket_delivered", "") \in DeliveryRecords
    BY NewRecordIs, WrittenCodes
  <2>1. /\ NewRecord(k, "socket_delivered", "") # None
        /\ NewRecord(k, "socket_delivered", "").state = "socket_delivered"
        /\ NewRecord(k, "socket_delivered", "").code = ""
    BY <2>0, BrokerAssumption DEF NewRecord
  <2> QED BY <2>1 DEF Recording, BoxTypeOK, AllRecords
<1>5. Arrives(m)
  BY <1>2, <1>3, <1>4 DEF Arrives
<1>6. \A x \in Msgs \ {m} : Untouched(x)
  BY <1>3, <1>4 DEF Untouched
<1> QED BY <1>5, <1>6

LEMMA RefusingMoves ==
    ASSUME BoxTypeOK, MailInv, NEW m \in Msgs, NEW k \in Keys, Fresh(m, k),
           NEW code \in {"E_MESSAGE_TOO_LARGE", "E_TARGET_NOT_FOUND", "E_TARGET_REBOUND"},
           Refusing(m, k, code)
    PROVE  \A x \in Msgs : Untouched(x) \/ Refused(x)
<1>1. Good(m)
  BY DEF MailInv
<1>2. OpenMail(m) /\ Pending(m) /\ ~In(mailbox, m) /\ m \notin withdrawn
  BY <1>1, FreshIsOpen
<1>3. mailbox' = mailbox /\ withdrawn' = withdrawn /\ handed' = handed
  BY DEF Refusing
<1>4. /\ records'[m] # None /\ records'[m].state = "failed" /\ records'[m].code = code
      /\ \A x \in Msgs \ {m} : records'[x] = records[x]
  <2>0. "failed" \in States /\ code \in RecordCodes
    BY DEF States, RecordCodes
  <2>1. /\ NewRecord(k, "failed", code) # None
        /\ NewRecord(k, "failed", code).state = "failed"
        /\ NewRecord(k, "failed", code).code = code
    BY <2>0, NewRecordIs
  <2> QED BY <2>1 DEF Refusing, BoxTypeOK, AllRecords
<1>5. Refused(m)
  BY <1>2, <1>3, <1>4 DEF Refused
<1>6. \A x \in Msgs \ {m} : Untouched(x)
  BY <1>3, <1>4 DEF Untouched
<1> QED BY <1>5, <1>6

LEMMA EvictedIsOldest ==
    ASSUME mailbox \in Seq(Mail), EvictedMail # {}
    PROVE  /\ mailbox # <<>> /\ 1 \in 1..Len(mailbox) /\ mailbox[1] \in Mail
           /\ EvictedMail = {mailbox[1].msg}
<1>1. Len(mailbox) >= MaxMailbox /\ EvictedMail = {Head(mailbox).msg}
  BY DEF EvictedMail
<1>2. Len(mailbox) \in Nat /\ MaxMailbox \in Nat \ {0}
  BY LenProperties, BrokerAssumption
<1>3. mailbox # <<>> /\ 1 \in 1..Len(mailbox)
  BY <1>1, <1>2, EmptySeq
<1>4. Head(mailbox) = mailbox[1]
  BY <1>3
<1> QED BY <1>1, <1>3, <1>4, ElementOfSeq

(* m is kept for k; at the cap the oldest mail is refused.                 *)
LEMMA TakingMoves ==
    ASSUME BaseInv, BoxTypeOK, MailInv, NEW m \in Msgs, NEW k \in Keys, Fresh(m, k),
           Author(m) \in Live, disconnected[k] # None, Taking(m, k),
           records' = [FailRecords(EvictedMail, "E_DELIVERY_EVICTED") EXCEPT
                          ![m] = NewRecord(k, "queued", "")],
           withdrawn' = withdrawn
    PROVE  Moves /\ OneCopy(mailbox')
<1>1. Good(m) /\ OneCopy(mailbox)
  BY DEF MailInv
<1>2. OpenMail(m) /\ Pending(m) /\ ~In(mailbox, m) /\ m \notin withdrawn
  BY <1>1, FreshIsOpen
<1> DEFINE e == Entry(m, k)
<1>3. e \in Mail /\ e.msg = m
  BY EntryIsMail DEF Entry
<1> HIDE DEF e
<1>4. mailbox' = Queued(e) /\ handed' = handed
  BY DEF Taking, e
<1>5. /\ \A x : In(mailbox', x) <=> (In(mailbox, x) /\ x \notin EvictedMail) \/ x = m
      /\ OneCopy(mailbox')
  BY <1>1, <1>2, <1>3, <1>4, QueuedBox DEF BoxTypeOK
<1>6. /\ records'[m] = NewRecord(k, "queued", "")
      /\ \A x \in Msgs \ {m} : records'[x] =
            IF x \in EvictedMail THEN Updated(records[x], "failed", "E_DELIVERY_EVICTED")
            ELSE records[x]
  <2> DEFINE F == FailRecords(EvictedMail, "E_DELIVERY_EVICTED")
  <2>1. /\ F \in AllRecords
        /\ \A x \in Msgs : F[x] =
              IF x \in EvictedMail THEN Updated(records[x], "failed", "E_DELIVERY_EVICTED")
              ELSE records[x]
    BY FailRecordsIs DEF BoxTypeOK
  <2>2. records' = [F EXCEPT ![m] = NewRecord(k, "queued", "")]
    OBVIOUS
  <2> HIDE DEF F
  <2> QED BY <2>1, <2>2 DEF AllRecords
<1>7. Kept(m)
  <2>1. NewRecord(k, "queued", "") \in DeliveryRecords
    BY NewRecordIs, WrittenCodes
  <2>2. /\ NewRecord(k, "queued", "") # None
        /\ NewRecord(k, "queued", "").state = "queued"
        /\ NewRecord(k, "queued", "").code = ""
    BY <2>1, BrokerAssumption DEF NewRecord
  <2> QED BY <2>2, <1>2, <1>4, <1>5, <1>6 DEF Kept
<1>8. \A x \in Msgs \ ({m} \cup EvictedMail) : Untouched(x)
  BY <1>4, <1>5, <1>6 DEF Untouched
<1>9. CASE EvictedMail = {}
  BY <1>5, <1>7, <1>8, <1>9 DEF Moves
<1>10. CASE EvictedMail # {}
  <2>1. PICK old \in Msgs : EvictedMail = {old} /\ In(mailbox, old)
    <3>1. /\ mailbox # <<>> /\ 1 \in 1..Len(mailbox) /\ mailbox[1] \in Mail
          /\ EvictedMail = {mailbox[1].msg}
      BY <1>10, EvictedIsOldest DEF BoxTypeOK
    <3> QED BY <3>1 DEF In, Mail
  <2>2. old # m /\ Good(old)
    BY <1>2, <2>1 DEF MailInv
  <2>3. records[old] # None /\ records[old].state = "queued"
    BY <2>1, <2>2 DEF Good
  <2>4. records[old] \in DeliveryRecords \cup {None}
    BY DEF BoxTypeOK, AllRecords
  <2>5. /\ records'[old] # None /\ records'[old].state = "failed"
        /\ records'[old].code = "E_DELIVERY_EVICTED"
    <3>1. records'[old] = Updated(records[old], "failed", "E_DELIVERY_EVICTED")
      BY <1>6, <2>1, <2>2
    <3>2. "failed" \in States /\ "E_DELIVERY_EVICTED" \in RecordCodes
      BY DEF States, RecordCodes
    <3> DEFINE r == records[old]
               u == Updated(r, "failed", "E_DELIVERY_EVICTED")
    <3>3. r \in DeliveryRecords \cup {None}
      BY <2>4
    <3> HIDE DEF r
    <3>4. /\ u = None <=> r = None
          /\ r # None => u.state = "failed" /\ u.code = "E_DELIVERY_EVICTED"
      BY <3>2, <3>3, UpdatedIs
    <3> HIDE DEF u
    <3> QED BY <2>3, <3>1, <3>4 DEF r, u
  <2>6. Refused(old)
    <3>1. ~In(mailbox', old)
      BY <1>5, <2>1, <2>2
    <3> QED BY <1>4, <2>3, <2>5, <3>1 DEF Refused, Pending, Rebound
  <2>7. \A x \in Msgs \ {m, old} : Untouched(x)
    BY <1>8, <2>1
  <2>8. records'[old].code # Rebound
    BY <2>5 DEF Rebound
  <2> QED BY <1>5, <1>7, <2>2, <2>3, <2>6, <2>7, <2>8 DEF Moves
<1> QED BY <1>9, <1>10

(* The mail at D reaches the new session or is too large for it.           *)
LEMMA FlushMoves ==
    ASSUME BoxTypeOK, MailInv, BaseInv, NEW k \in Keys,
           NEW D \in SUBSET (1..Len(mailbox)), NEW big \in SUBSET Letters(D),
           Rest(mailbox, mailbox', (1..Len(mailbox)) \ D), Flushing(k, D, big)
    PROVE  Moves /\ OneCopy(mailbox')
<1>1. mailbox \in Seq(Mail) /\ OneCopy(mailbox) /\ OneCopy(mailbox')
  BY DEF BoxTypeOK, MailInv, Rest
<1>2. \A x : In(mailbox', x) <=> In(mailbox, x) /\ x \notin Letters(D)
  BY <1>1, RestIn DEF Letters
<1>3. /\ \A x \in Msgs, j \in Keys : handed'[x][j] =
            IF j = k /\ x \in Letters(D) \ big THEN handed[x][j] + CopiesIn(D, x)
            ELSE handed[x][j]
      /\ \A x \in Msgs : x \notin Letters(D) \ big => handed'[x] = handed[x]
  BY FlushTypes DEF Flushing
<1>4. \A x \in Msgs : records'[x] =
          IF x \in big THEN Updated(records[x], "failed", "E_MESSAGE_TOO_LARGE")
          ELSE IF x \in Letters(D) THEN Updated(records[x], "socket_delivered", "")
          ELSE records[x]
  BY DEF Flushing
<1>5. withdrawn' = withdrawn
  BY DEF Flushing
<1>6. ASSUME NEW x \in Msgs, x \notin Letters(D) PROVE Untouched(x)
  BY <1>2, <1>3, <1>4, <1>5, <1>6 DEF Untouched
<1>7. ASSUME NEW x \in Msgs, x \in Letters(D)
      PROVE  /\ Good(x) /\ Pending(x) /\ x \notin withdrawn'
             /\ records[x] # None /\ records[x] \in DeliveryRecords \cup {None}
             /\ ~In(mailbox', x)
  <2>1. PICK i \in D : mailbox[i].msg = x
    BY <1>7 DEF Letters
  <2>2. In(mailbox, x)
    BY <2>1 DEF In
  <2>3. Good(x)
    BY DEF MailInv
  <2>4. records[x] # None /\ records[x].state = "queued"
    BY <2>2, <2>3 DEF Good
  <2> QED BY <1>2, <1>5, <1>7, <2>3, <2>4 DEF Pending, Good, BoxTypeOK, AllRecords
<1>8. ASSUME NEW x \in Msgs, x \in big PROVE Refused(x)
  <2>1. x \in Letters(D)
    BY <1>8
  <2>2. "failed" \in States /\ "E_MESSAGE_TOO_LARGE" \in RecordCodes
    BY DEF States, RecordCodes
  <2>3. records'[x] = Updated(records[x], "failed", "E_MESSAGE_TOO_LARGE")
    BY <1>4, <1>8
  <2>4. /\ records'[x] # None /\ records'[x].state = "failed"
        /\ records'[x].code = "E_MESSAGE_TOO_LARGE"
    BY <1>7, <2>1, <2>2, <2>3, UpdatedIs
  <2>5. handed'[x] = handed[x]
    BY <1>3, <1>8
  <2> QED BY <1>7, <2>1, <2>4, <2>5 DEF Refused, Rebound
<1>9. ASSUME NEW x \in Msgs, x \in Letters(D) \ big PROVE Arrives(x)
  <2>1. \A j \in Keys : handed[x][j] = 0
    BY <1>7, <1>9, PendingUnheard
  <2>2. CopiesIn(D, x) = 1
    BY <1>1, <1>9, CopiesOfDue
  <2>3. \A j \in Keys : handed'[x][j] = IF j = k THEN 1 ELSE 0
    BY <1>3, <1>9, <2>1, <2>2
  <2>4. "socket_delivered" \in States /\ "" \in RecordCodes
    BY DEF States, RecordCodes
  <2>5. records'[x] = Updated(records[x], "socket_delivered", "")
    BY <1>4, <1>9
  <2>6. /\ records'[x] # None /\ records'[x].state = "socket_delivered"
        /\ records'[x].code = ""
    <3> DEFINE r == records[x]
               u == Updated(r, "socket_delivered", "")
    <3>1. r \in DeliveryRecords \cup {None} /\ r # None
      BY <1>7, <1>9
    <3> HIDE DEF r
    <3>2. /\ u = None <=> r = None
          /\ r # None => u.state = "socket_delivered" /\ u.code = ""
      BY <2>4, <3>1, UpdatedIs
    <3>3. records'[x] = u
      BY <2>5 DEF r
    <3> HIDE DEF u
    <3> QED BY <3>1, <3>2, <3>3
  <2> QED BY <1>7, <1>9, <2>3, <2>6 DEF Arrives
<1> QED BY <1>1, <1>6, <1>8, <1>9 DEF Moves

(* One entry x at position i is given up with a code.                      *)
LEMMA DroppingMoves ==
    ASSUME BoxTypeOK, MailInv, NEW m \in Msgs, NEW i \in 1..Len(mailbox), mailbox[i].msg = m,
           Rest(mailbox, mailbox', (1..Len(mailbox)) \ {i}), handed' = handed,
           records'[m] # None, records'[m].state = "failed", records'[m].code # Rebound,
           \A x \in Msgs \ {m} : records'[x] = records[x],
           withdrawn' \in {withdrawn, withdrawn \union {m}}
    PROVE  Moves /\ OneCopy(mailbox')
<1>1. mailbox \in Seq(Mail) /\ OneCopy(mailbox) /\ OneCopy(mailbox')
  BY DEF BoxTypeOK, MailInv, Rest
<1>2. \A x : In(mailbox', x) <=> In(mailbox, x) /\ x # m
  <2>1. \A x : In(mailbox', x) <=> In(mailbox, x) /\ x \notin {mailbox[j].msg : j \in {i}}
    BY <1>1, RestIn
  <2> QED BY <2>1
<1>3. In(mailbox, m) /\ Good(m)
  BY DEF In, MailInv
<1>4. Pending(m)
  BY <1>3 DEF Good, Pending
<1>5. Refused(m)
  BY <1>2, <1>4 DEF Refused
<1>6. \A x \in Msgs \ {m} : Untouched(x)
  BY <1>2 DEF Untouched
<1> QED BY <1>1, <1>5, <1>6 DEF Moves

LEMMA StillMoves ==
    ASSUME MailInv, mailbox' = mailbox, handed' = handed, withdrawn' = withdrawn,
           records' = records
    PROVE  Moves /\ OneCopy(mailbox')
BY DEF Moves, Untouched, MailInv

(* What the handlers do, seen from one message at a time.                  *)
LEMMA BrokerMoves ==
    ASSUME "records" \notin Forgets, "commit" \notin StoreFailures,
           BaseInv, MailInv, [BrokerNext]_brokerVars
    PROVE  Moves /\ OneCopy(mailbox')
<1>0. IInv /\ BoxTypeOK /\ OneCopy(mailbox)
  BY BaseInvIs DEF MailInv
<1>1. ASSUME NEW m \in Msgs, NEW k \in Keys, Fresh(m, k),
             NEW code \in {"E_MESSAGE_TOO_LARGE", "E_TARGET_NOT_FOUND", "E_TARGET_REBOUND"},
             Refusing(m, k, code)
      PROVE  Moves /\ OneCopy(mailbox')
  <2>1. \A x \in Msgs : Untouched(x) \/ Refused(x)
    BY <1>0, <1>1, RefusingMoves
  <2>2. mailbox' = mailbox
    BY <1>1 DEF Refusing
  <2> QED BY <1>0, <2>1, <2>2 DEF Moves
<1>2. ASSUME NEW m \in Msgs, NEW k \in Keys, NEW j \in Keys, Fresh(m, k), Give(m, j),
             Recording(m, k, "socket_delivered"), mailbox' = mailbox, withdrawn' = withdrawn
      PROVE  Moves /\ OneCopy(mailbox')
  <2>1. \A x \in Msgs : Untouched(x) \/ Arrives(x)
    BY <1>0, <1>2, HandingMoves
  <2> QED BY <1>0, <1>2, <2>1 DEF Moves
<1>3. ASSUME NEW m \in Msgs, NEW k \in Keys, Delivering(m, k)
      PROVE  Moves /\ OneCopy(mailbox')
  <2>1. PICK s \in Sockets : Deliver(s, m, k)
    BY <1>3 DEF Delivering
  <2>2. /\ Fresh(m, k) /\ mailbox' = mailbox /\ withdrawn' = withdrawn
        /\ \/ Refusing(m, k, "E_MESSAGE_TOO_LARGE")
           \/ Give(m, k) /\ Recording(m, k, "socket_delivered")
           \/ records' = records /\ handed' = handed
    BY <2>1, DeliverCases
  <2> QED BY <1>1, <1>2, <2>2, StillMoves
<1>4. ASSUME NEW m \in Msgs, NEW k \in Keys, Queueing(m, k)
      PROVE  Moves /\ OneCopy(mailbox')
  <2>1. PICK s \in Sockets : AcceptMail(s, m, k)
    BY <1>4 DEF Queueing
  <2>2. Author(m) \in Live /\ disconnected[k] # None /\ SameScope(k, Author(m))
    BY <1>4 DEF Queueing
  <2>3. /\ Fresh(m, k) /\ withdrawn' = withdrawn
        /\ \/ Refusing(m, k, "E_MESSAGE_TOO_LARGE")
           \/ mailbox' = mailbox /\ records' = records /\ handed' = handed
           \/ \E j \in Live : /\ Give(m, j) /\ mailbox' = mailbox
                              /\ Recording(m, k, "socket_delivered")
           \/ /\ Taking(m, k)
              /\ records' = [FailRecords(EvictedMail, "E_DELIVERY_EVICTED") EXCEPT
                                ![m] = NewRecord(k, "queued", "")]
    BY <2>1, <2>2, AcceptMailCases
  <2>4. CASE \E j \in Live : /\ Give(m, j) /\ mailbox' = mailbox
                             /\ Recording(m, k, "socket_delivered")
    BY <1>2, <2>3, <2>4 DEF Live
  <2>5. CASE /\ Taking(m, k)
             /\ records' = [FailRecords(EvictedMail, "E_DELIVERY_EVICTED") EXCEPT
                               ![m] = NewRecord(k, "queued", "")]
    BY <1>0, <2>2, <2>3, <2>5, TakingMoves
  <2> QED BY <1>1, <2>3, <2>4, <2>5, StillMoves
<1>5. ASSUME NEW m \in Msgs, NEW k \in Keys, Failing(m, k)
      PROVE  Moves /\ OneCopy(mailbox')
  BY <1>1, <1>5 DEF Failing
<1>6. ASSUME NEW s \in Sockets, NEW k \in Keys, NEW p \in Profiles, RegisterAndFlush(s, k, p)
      PROVE  Moves /\ OneCopy(mailbox')
  <2>1. PICK D \in SUBSET (1..Len(mailbox)) : \E big \in SUBSET Letters(D) :
              /\ Rest(mailbox, mailbox', (1..Len(mailbox)) \ D)
              /\ Flushing(k, D, big)
    BY <1>6, FlushCases
  <2>2. PICK big \in SUBSET Letters(D) :
              /\ Rest(mailbox, mailbox', (1..Len(mailbox)) \ D)
              /\ Flushing(k, D, big)
    BY <2>1
  <2> QED BY <1>0, <2>2, FlushMoves
<1>7. ASSUME NEW s \in Sockets, NEW m \in Msgs, Withdraw(s, m)
      PROVE  Moves /\ OneCopy(mailbox')
  <2> DEFINE C == records[m]
             F == Updated(C, "failed", "E_DELIVERY_CANCELLED")
  <2>1. C \in DeliveryRecords \cup {None}
    BY <1>0 DEF BoxTypeOK, AllRecords
  <2>2. CASE \E i \in 1..Len(mailbox) :
                /\ mailbox[i].msg = m
                /\ Rest(mailbox, mailbox', (1..Len(mailbox)) \ {i})
                /\ records' = [records EXCEPT ![m] = Cancelled(F, "removed_from_mailbox")]
                /\ withdrawn' = withdrawn \union {m}
    <3>1. PICK i \in 1..Len(mailbox) :
                /\ mailbox[i].msg = m
                /\ Rest(mailbox, mailbox', (1..Len(mailbox)) \ {i})
                /\ records' = [records EXCEPT ![m] = Cancelled(F, "removed_from_mailbox")]
                /\ withdrawn' = withdrawn \union {m}
      BY <2>2
    <3>2. C # None
      <4>1. In(mailbox, m) /\ Good(m)
        BY <3>1 DEF In, MailInv
      <4> QED BY <4>1 DEF Good
    <3>3. "failed" \in States /\ "E_DELIVERY_CANCELLED" \in RecordCodes
      BY DEF States, RecordCodes
    <3>4. /\ records'[m] = Cancelled(F, "removed_from_mailbox")
          /\ \A x \in Msgs \ {m} : records'[x] = records[x]
      BY <1>0, <3>1 DEF BoxTypeOK, AllRecords
    <3> HIDE DEF C
    <3>5. /\ F \in DeliveryRecords \cup {None} /\ F # None
          /\ F.state = "failed" /\ F.code = "E_DELIVERY_CANCELLED"
      BY <2>1, <3>2, <3>3, UpdatedIs
    <3> HIDE DEF F
    <3>6. /\ Cancelled(F, "removed_from_mailbox") # None
          /\ Cancelled(F, "removed_from_mailbox").state = "failed"
          /\ Cancelled(F, "removed_from_mailbox").code = "E_DELIVERY_CANCELLED"
      BY <3>5, CancelledIs
    <3>7. /\ records'[m] # None /\ records'[m].state = "failed"
          /\ records'[m].code # Rebound
      BY <3>4, <3>6 DEF Rebound
    <3>8. handed' = handed
      BY <1>0, <1>7, WithdrawCases
    <3> QED BY <1>0, <3>1, <3>4, <3>7, <3>8, DroppingMoves
  <2>3. CASE /\ mailbox' = mailbox /\ withdrawn' = withdrawn
             /\ \/ records' = records
                \/ \E how \in {"not_delivered", "withdrawal_requested"} :
                      records' = [records EXCEPT ![m] = Cancelled(@, how)]
    <3>1. handed' = handed
      BY <1>0, <1>7, WithdrawCases
    <3>2. CASE records' = records
      BY <2>3, <3>1, <3>2, StillMoves
    <3>3. CASE \E how \in {"not_delivered", "withdrawal_requested"} :
                  records' = [records EXCEPT ![m] = Cancelled(@, how)]
      <4>1. PICK how \in {"not_delivered", "withdrawal_requested"} :
                records' = [records EXCEPT ![m] = Cancelled(C, how)]
        BY <3>3
      <4>2. /\ records'[m] = Cancelled(C, how)
            /\ \A x \in Msgs \ {m} : records'[x] = records[x]
        BY <1>0, <4>1 DEF BoxTypeOK, AllRecords
      <4> HIDE DEF C
      <4>3. /\ Cancelled(C, how) = None <=> C = None
            /\ C # None => /\ Cancelled(C, how).state = C.state
                           /\ Cancelled(C, how).code = C.code
        BY <2>1, CancelledIs
      <4>4. /\ records'[m] = None <=> records[m] = None
            /\ records[m] # None => /\ records'[m].state = records[m].state
                                    /\ records'[m].code = records[m].code
        BY <4>2, <4>3 DEF C
      <4>5. \A x \in Msgs : Untouched(x)
        BY <2>3, <3>1, <4>2, <4>4 DEF Untouched
      <4> QED BY <1>0, <2>3, <4>5 DEF Moves
    <3> QED BY <2>3, <3>2, <3>3
  <2> QED BY <1>0, <1>7, <2>2, <2>3, WithdrawCases
<1>8. CASE ExpireMail
  <2>1. /\ mailbox # <<>> /\ mailbox' = Tail(mailbox) /\ handed' = handed
        /\ withdrawn' = withdrawn
        /\ records' = FailRecords({Head(mailbox).msg}, "E_DELIVERY_EXPIRED")
    BY <1>8 DEF ExpireMail
  <2> DEFINE m == Head(mailbox).msg
  <2>2. 1 \in 1..Len(mailbox) /\ mailbox[1].msg = m /\ m \in Msgs
    <3>1. mailbox \in Seq(Mail)
      BY <1>0 DEF BoxTypeOK
    <3>2. 1 \in 1..Len(mailbox) /\ Head(mailbox) = mailbox[1]
      BY <2>1, <3>1, EmptySeq
    <3>3. mailbox[1] \in Mail
      BY <3>1, <3>2, ElementOfSeq
    <3> QED BY <3>2, <3>3 DEF Mail
  <2>3. Rest(mailbox, mailbox', (1..Len(mailbox)) \ {1})
    <3>1. mailbox \in Seq(Mail)
      BY <1>0 DEF BoxTypeOK
    <3>2. (1..Len(mailbox)) \ {1} = 2..Len(mailbox)
      BY <3>1, LenProperties
    <3> QED BY <2>1, <3>1, <3>2, TailRest
  <2> HIDE DEF m
  <2>4. \A x \in Msgs : records'[x] =
            IF x = m THEN Updated(records[x], "failed", "E_DELIVERY_EXPIRED") ELSE records[x]
    BY <1>0, <2>1, FailRecordsIs DEF BoxTypeOK, m
  <2>5. records[m] \in DeliveryRecords \cup {None} /\ records[m] # None
    <3>1. In(mailbox, m) /\ Good(m)
      BY <2>2 DEF In, MailInv
    <3> QED BY <1>0, <2>2, <3>1 DEF Good, BoxTypeOK, AllRecords
  <2>6. /\ records'[m] # None /\ records'[m].state = "failed" /\ records'[m].code # Rebound
    <3> DEFINE r == records[m]
               u == Updated(r, "failed", "E_DELIVERY_EXPIRED")
    <3>1. r \in DeliveryRecords \cup {None} /\ r # None
      BY <2>5
    <3> HIDE DEF r
    <3>2. "failed" \in States /\ "E_DELIVERY_EXPIRED" \in RecordCodes
      BY DEF States, RecordCodes
    <3>3. u # None /\ u.state = "failed" /\ u.code = "E_DELIVERY_EXPIRED"
      BY <3>1, <3>2, UpdatedIs
    <3>4. records'[m] = u
      BY <2>2, <2>4 DEF r
    <3> HIDE DEF u
    <3> QED BY <3>3, <3>4 DEF Rebound
  <2>7. \A x \in Msgs \ {m} : records'[x] = records[x]
    BY <2>4
  <2> QED BY <1>0, <2>1, <2>2, <2>3, <2>6, <2>7, DroppingMoves
<1>9. CASE UNCHANGED mailVars \/ \E m \in Msgs : Expire(m)
  <2>1. mailbox' = mailbox /\ handed' = handed /\ withdrawn' = withdrawn /\ records' = records
    BY <1>9 DEF mailVars, Expire
  <2> QED BY <2>1, StillMoves
<1> QED BY <1>0, <1>3, <1>4, <1>5, <1>6, <1>7, <1>8, <1>9, BrokerCases

LEMMA NextKeepsMail ==
    ASSUME "records" \notin Forgets, "commit" \notin StoreFailures,
           BaseInv, MailInv, [BrokerNext]_brokerVars
    PROVE  MailInv'
<1>1. Moves /\ OneCopy(mailbox') /\ BoxTypeOK
  BY BrokerMoves, BaseInvIs
<1>2. ASSUME NEW m \in Msgs PROVE Good(m)'
  <2>1. Untouched(m) \/ Arrives(m) \/ Refused(m) \/ Kept(m)
    BY <1>1 DEF Moves
  <2>2. Good(m)
    BY DEF MailInv
  <2> QED BY <1>1, <2>1, <2>2, MovesKeepGood
<1>3. OneCopy(mailbox)'
  BY <1>1 DEF OneCopy
<1> QED BY <1>2, <1>3 DEF MailInv

LEMMA InitMail == BrokerInit => MailInv
<1> SUFFICES ASSUME BrokerInit PROVE MailInv
  OBVIOUS
<1>1. mailbox = <<>> /\ Len(mailbox) = 0 /\ withdrawn = {}
      /\ \A m \in Msgs : records[m] = None /\ \A k \in Keys : handed[m][k] = 0
  BY DEF BrokerInit
<1>2. 1..Len(mailbox) = {}
  BY <1>1
<1> QED BY <1>1, <1>2 DEF MailInv, OneCopy, Good, In

LEMMA MailHolds ==
    ASSUME "records" \notin Forgets, "commit" \notin StoreFailures
    PROVE  BrokerSpec => [](MailInv /\ BaseInv)
<1>1. BrokerInit => MailInv
  BY InitMail
<1>2. BaseInv /\ MailInv /\ [BrokerNext]_brokerVars => MailInv'
  BY NextKeepsMail
<1> QED BY <1>1, <1>2, BaseHolds, PTL DEF BrokerSpec

(* While records are kept and written, a message is written to one session *)
(* and once, over any retries, takeovers, substitutions and flushes.       *)
THEOREM MailArrivesOnce ==
    ASSUME "records" \notin Forgets, "commit" \notin StoreFailures
    PROVE  BrokerSpec => []AtMostOnce
<1>1. MailInv => AtMostOnce
  BY DEF MailInv, Good, AtMostOnce
<1> QED BY <1>1, MailHolds, PTL

(* Under the same conditions the records tell the authors what the mailbox *)
(* holds, through evictions, flushes, withdrawals and expiry.              *)
THEOREM RecordsTellTheMailbox ==
    ASSUME "records" \notin Forgets, "commit" \notin StoreFailures
    PROVE  BrokerSpec => []RecordsMatchMailbox
<1>1. MailInv => RecordsMatchMailbox
  BY DEF MailInv, OneCopy, Good, In, InMail, RecordsMatchMailbox
<1> QED BY <1>1, MailHolds, PTL

(* And mail that was taken back from the mailbox is never written to a     *)
(* session, nor queued again by a retry.                                   *)
THEOREM WithdrawnMailNeverArrives ==
    ASSUME "records" \notin Forgets, "commit" \notin StoreFailures
    PROVE  BrokerSpec => []RemovedMailNeverArrives
<1>1. ASSUME MailInv, BaseInv PROVE RemovedMailNeverArrives
  <2>1. ASSUME NEW m \in withdrawn PROVE ~Accepted(m)
    <3>1. m \in Msgs
      BY <1>1 DEF BaseInv, BrokerTypeOK
    <3>2. Good(m)
      BY <1>1, <3>1 DEF MailInv
    <3> QED BY <2>1, <3>2 DEF Good, In, InMail, Accepted
  <2> QED BY <2>1 DEF RemovedMailNeverArrives
<1> QED BY <1>1, MailHolds, PTL

-----------------------------------------------------------------------------
(* The broker implements MailService *)

FateOf(r) ==
    IF r = None THEN "open"
    ELSE IF r.state = "socket_delivered" THEN "handed"
    ELSE IF r.state = "queued" THEN "queued"
    ELSE IF r.code = Rebound THEN "open" ELSE "refused"

Remembered == {m \in Msgs : records[m] # None}

LEMMA FateByRecord ==
    MailInv /\ BoxTypeOK =>
        /\ Fate \in [Msgs -> {"open", "queued", "handed", "refused"}]
        /\ \A m \in Msgs : Fate[m] = FateOf(records[m])
<1> SUFFICES ASSUME MailInv, BoxTypeOK
             PROVE  /\ Fate \in [Msgs -> {"open", "queued", "handed", "refused"}]
                    /\ \A m \in Msgs : Fate[m] = FateOf(records[m])
  OBVIOUS
<1>1. ASSUME NEW m \in Msgs PROVE Fate[m] = FateOf(records[m])
  <2> DEFINE H == \E k \in Keys : handed[m][k] > 0
             R == /\ records[m] # None /\ records[m].state = "failed"
                  /\ records[m].code # "E_TARGET_REBOUND"
  <2>1. Fate[m] = CASE H -> "handed" [] InMail(m) -> "queued" [] R -> "refused"
                    [] OTHER -> "open"
    BY DEF Fate
  <2>2. Good(m)
    BY DEF MailInv
  <2>3. records[m] = None \/ records[m] \in DeliveryRecords
    BY DEF BoxTypeOK, AllRecords
  <2>4. /\ H <=> records[m] # None /\ records[m].state = "socket_delivered"
        /\ InMail(m) <=> records[m] # None /\ records[m].state = "queued"
    BY <2>2 DEF Good, In, InMail
  <2>5. records[m] # None /\ records[m].code = Rebound => records[m].state = "failed"
    BY <2>2 DEF Good
  <2>6. records[m] # None => records[m].state \in {"queued", "socket_delivered", "failed"}
    BY <2>3 DEF DeliveryRecords
  <2> HIDE DEF H
  <2>7. CASE H
    <3>1. ~InMail(m) /\ ~R
      BY <2>4, <2>7
    <3>2. Fate[m] = "handed"
      BY <2>1, <2>7, <3>1
    <3> QED BY <2>4, <2>7, <3>2 DEF FateOf
  <2>8. CASE ~H /\ InMail(m)
    <3>1. ~R
      BY <2>4, <2>8
    <3>2. Fate[m] = "queued"
      BY <2>1, <2>8, <3>1
    <3> QED BY <2>4, <2>8, <3>2 DEF FateOf
  <2>9. CASE ~H /\ ~InMail(m) /\ R
    <3>1. Fate[m] = "refused"
      BY <2>1, <2>9
    <3> QED BY <2>9, <3>1 DEF FateOf, Rebound
  <2>10. CASE ~H /\ ~InMail(m) /\ ~R
    <3>1. Fate[m] = "open"
      BY <2>1, <2>10
    <3> QED BY <2>4, <2>6, <2>10, <3>1 DEF FateOf, Rebound
  <2> QED BY <2>7, <2>8, <2>9, <2>10
<1>2. \A m \in Msgs : FateOf(records[m]) \in {"open", "queued", "handed", "refused"}
  BY DEF FateOf
<1>3. Fate = [m \in Msgs |-> Fate[m]]
  BY DEF Fate
<1> QED BY <1>1, <1>2, <1>3

LEMMA FateOfMoves ==
    ASSUME NEW m \in Msgs
    PROVE  /\ Untouched(m) => FateOf(records'[m]) = FateOf(records[m])
           /\ Arrives(m) => FateOf(records'[m]) = "handed"
           /\ Refused(m) => \/ FateOf(records'[m]) = "refused"
                            \/ FateOf(records'[m]) = "open" /\ OpenMail(m)
           /\ Kept(m) => FateOf(records'[m]) = "queued" /\ OpenMail(m)
           /\ (Arrives(m) \/ Refused(m) \/ Kept(m)) => Pending(m) /\ records'[m] # None
<1>1. Untouched(m) => FateOf(records'[m]) = FateOf(records[m])
  BY DEF Untouched, FateOf
<1>2. Arrives(m) => FateOf(records'[m]) = "handed"
  BY DEF Arrives, FateOf
<1>3. Refused(m) => \/ FateOf(records'[m]) = "refused"
                    \/ FateOf(records'[m]) = "open" /\ OpenMail(m)
  BY DEF Refused, FateOf
<1>4. Kept(m) => FateOf(records'[m]) = "queued" /\ OpenMail(m)
  BY DEF Kept, FateOf
<1>5. (Arrives(m) \/ Refused(m) \/ Kept(m)) => Pending(m) /\ records'[m] # None
  BY DEF Arrives, Refused, Kept, Pending, OpenMail
<1> QED BY <1>1, <1>2, <1>3, <1>4, <1>5

LEMMA PendingFate ==
    ASSUME NEW m \in Msgs, Good(m)
    PROVE  /\ Pending(m) => FateOf(records[m]) \in {"open", "queued"}
           /\ OpenMail(m) => FateOf(records[m]) = "open"
BY DEF Pending, OpenMail, FateOf, Good, Rebound

LEMMA MovesAreService ==
    ASSUME MailInv, BoxTypeOK, MailInv', BoxTypeOK', Moves
    PROVE  Service!Next
<1>1. /\ Fate \in [Msgs -> {"open", "queued", "handed", "refused"}]
      /\ \A m \in Msgs : Fate[m] = FateOf(records[m])
  BY FateByRecord
<1>2. (MailInv /\ BoxTypeOK =>
        /\ Fate \in [Msgs -> {"open", "queued", "handed", "refused"}]
        /\ \A m \in Msgs : Fate[m] = FateOf(records[m]))'
  BY FateByRecord, PTL
<1>3. /\ Fate' \in [Msgs -> {"open", "queued", "handed", "refused"}]
      /\ \A m \in Msgs : Fate'[m] = FateOf(records'[m])
  BY <1>2
<1>4. \A m \in Msgs : Good(m)
  BY DEF MailInv
<1>5. ASSUME NEW m \in Msgs, Untouched(m)
      PROVE  Fate'[m] = Fate[m] /\ (records'[m] = None <=> records[m] = None)
  <2>1. FateOf(records'[m]) = FateOf(records[m])
    BY <1>5, FateOfMoves
  <2> QED BY <1>1, <1>3, <1>5, <2>1 DEF Untouched
<1>6. ASSUME NEW m \in Msgs, Kept(m)
      PROVE  Fate[m] = "open" /\ Fate'[m] = "queued" /\ records'[m] # None
  BY <1>1, <1>3, <1>4, <1>6, FateOfMoves, PendingFate
<1>7. ASSUME NEW m \in Msgs, Arrives(m) \/ Refused(m)
      PROVE  /\ \/ Fate'[m] = Fate[m]
                \/ Fate[m] \in {"open", "queued"} /\ Fate'[m] \in {"handed", "refused"}
             /\ records'[m] # None
  <2>1. Fate[m] \in {"open", "queued"} /\ records'[m] # None
    BY <1>1, <1>4, <1>7, FateOfMoves, PendingFate
  <2>2. CASE Arrives(m)
    BY <1>3, <2>1, <2>2, FateOfMoves
  <2>3. CASE Refused(m)
    <3>1. \/ FateOf(records'[m]) = "refused"
          \/ FateOf(records'[m]) = "open" /\ OpenMail(m)
      BY <2>3, FateOfMoves
    <3>2. OpenMail(m) => Fate[m] = "open"
      BY <1>1, <1>4, PendingFate
    <3> QED BY <1>3, <2>1, <3>1, <3>2
  <2> QED BY <1>7, <2>2, <2>3
<1>8. CASE \A m \in Msgs : Untouched(m) \/ Arrives(m) \/ Refused(m)
  <2>1. \A m \in Msgs : /\ \/ Fate'[m] = Fate[m]
                           \/ /\ Fate[m] \in {"open", "queued"}
                              /\ Fate'[m] \in {"handed", "refused"}
                        /\ records[m] # None => records'[m] # None
                        /\ records'[m] = None => Fate'[m] = Fate[m]
    BY <1>5, <1>7, <1>8
  <2>2. Remembered \subseteq Remembered' /\ Remembered' \in SUBSET Msgs
    BY <2>1 DEF Remembered
  <2>3. \A m \in Msgs : Fate'[m] # Fate[m] => m \in Remembered'
    BY <2>1 DEF Remembered
  <2>4. \A m \in Msgs : \/ Fate'[m] = Fate[m]
                         \/ /\ Fate[m] \in {"open", "queued"}
                            /\ Fate'[m] \in {"handed", IF m \in Remembered' THEN "refused" ELSE "open"}
    BY <2>1, <2>3
  <2>5. Service!Settle
    BY <1>3, <2>2, <2>4 DEF Service!Settle, Service!Refusal, Remembered
  <2> QED BY <2>5 DEF Service!Next
<1>9. CASE \E m \in Msgs : /\ Kept(m)
                           /\ \A x \in Msgs \ {m} : Untouched(x)
  <2>1. PICK m \in Msgs : /\ Kept(m)
                          /\ \A x \in Msgs \ {m} : Untouched(x)
    BY <1>9
  <2>2. Fate[m] = "open" /\ Fate' = [Fate EXCEPT ![m] = "queued"]
    <3>1. Fate[m] = "open" /\ Fate'[m] = "queued"
      BY <1>6, <2>1
    <3>2. \A x \in Msgs \ {m} : Fate'[x] = Fate[x]
      BY <1>5, <2>1
    <3> QED BY <1>1, <1>3, <3>1, <3>2
  <2>3. Remembered' = Remembered \cup {m}
    BY <1>5, <1>6, <2>1 DEF Remembered
  <2>4. Service!Queue(m)
    BY <2>2, <2>3 DEF Service!Queue, Remembered
  <2> QED BY <2>4 DEF Service!Next
<1>10. CASE \E m, old \in Msgs : /\ m # old /\ Kept(m)
                                 /\ Refused(old) /\ records[old] # None
                                 /\ records[old].state = "queued"
                                 /\ records'[old].code # Rebound
                                 /\ \A x \in Msgs \ {m, old} : Untouched(x)
  <2>1. PICK m \in Msgs, old \in Msgs :
            /\ m # old /\ Kept(m)
            /\ Refused(old) /\ records[old] # None
            /\ records[old].state = "queued"
            /\ records'[old].code # Rebound
            /\ \A x \in Msgs \ {m, old} : Untouched(x)
    BY <1>10
  <2>2. Fate[m] = "open" /\ Fate'[m] = "queued" /\ records'[m] # None
    BY <1>6, <2>1
  <2>3. Fate[old] = "queued" /\ Fate'[old] = "refused" /\ records'[old] # None
    BY <1>1, <1>3, <2>1 DEF FateOf, Refused
  <2>4. \A x \in Msgs \ {m, old} : Fate'[x] = Fate[x]
    BY <1>5, <2>1
  <2>5. Fate' = [Fate EXCEPT ![m] = "queued", ![old] = "refused"]
    BY <1>1, <1>3, <2>1, <2>2, <2>3, <2>4
  <2>6. Remembered' = Remembered \cup {m}
    BY <1>5, <2>1, <2>2, <2>3 DEF Remembered
  <2>7. old \in Remembered'
    BY <2>3 DEF Remembered
  <2>8. Service!Replace(m, old)
    BY <2>1, <2>2, <2>3, <2>5, <2>6, <2>7 DEF Service!Replace, Service!Refusal, Remembered
  <2> QED BY <2>8 DEF Service!Next
<1> QED BY <1>8, <1>9, <1>10 DEF Moves

(* The broker keeps what MailService promises an author: a verdict stands  *)
(* over retries, takeovers, withdrawals, evictions, flushes and expiry.    *)
THEOREM BrokerImplementsMailService ==
    ASSUME "records" \notin Forgets, "commit" \notin StoreFailures
    PROVE  BrokerSpec => MailServiceRefined
<1>1. BrokerInit => Service!Init
  <2> SUFFICES ASSUME BrokerInit PROVE Service!Init
    OBVIOUS
  <2>1. MailInv /\ BoxTypeOK
    BY InitMail, InitBase, BaseInvIs
  <2>2. \A m \in Msgs : records[m] = None
    BY DEF BrokerInit
  <2>3. Fate = [m \in Msgs |-> "open"]
    BY <2>1, <2>2, FateByRecord DEF FateOf
  <2> QED BY <2>2, <2>3 DEF Service!Init
<1>2. ASSUME BaseInv, BaseInv', MailInv, MailInv', [BrokerNext]_brokerVars
      PROVE  [Service!Next]_(Service!vars)
  <2>1. BoxTypeOK /\ BoxTypeOK'
    BY <1>2 DEF BaseInv, BrokerTypeOK, BoxTypeOK, AllRecords
  <2>2. Moves
    BY <1>2, BrokerMoves
  <2> QED BY <1>2, <2>1, <2>2, MovesAreService
<1> QED BY <1>1, <1>2, MailHolds, PTL DEF BrokerSpec, MailServiceRefined, Service!Spec

-----------------------------------------------------------------------------
(* Replies and the asks they answer *)

Heard(m, k) == handed[m][k] > 0
AskStep ==
    \A x \in Msgs : \/ asks'[x] = None
                    \/ asks'[x] = asks[x]
                    \/ OpenMail(x) /\ asks'[x] \in Keys /\ handed'[x][asks'[x]] > 0
RouteStep ==
    \A x \in Msgs : \/ routes'[x] = None
                    \/ routes'[x] = routes[x]
                    \/ routes'[x] \in Keys /\ handed'[x][routes'[x]] > 0
AcceptStep ==
    \A x \in Msgs : In(mailbox', x) \/ (\E k \in Keys : handed'[x][k] > 0) =>
                        Accepted(x) \/ \E k \in Keys : ReplyAllowed(x, k)
GrowStep == \A x \in Msgs, k \in Keys : handed[x][k] > 0 => handed'[x][k] > 0
Says == AskStep /\ RouteStep /\ AcceptStep /\ GrowStep

LEMMA SilentSays ==
    ASSUME BaseInv, handed' = handed, \A x \in Msgs : In(mailbox', x) => In(mailbox, x),
           \A x \in Msgs : routes'[x] = None \/ routes'[x] = routes[x],
           \A x \in Msgs : asks'[x] = None \/ asks'[x] = asks[x]
    PROVE  Says
BY DEF Says, AskStep, RouteStep, AcceptStep, GrowStep, Accepted, In, InMail

(* One frame of m is written to k.                                         *)
LEMMA GivingSays ==
    ASSUME BaseInv, NEW m \in Msgs, NEW k \in Keys, NEW t \in Keys, Give(m, k),
           mailbox' = mailbox, ReplyAllowed(m, t),
           \A x \in Msgs : \/ routes'[x] = routes[x]
                           \/ x = m /\ routes'[x] = k,
           \A x \in Msgs : \/ asks'[x] = None \/ asks'[x] = asks[x]
                           \/ x = m /\ asks'[x] = k /\ OpenMail(m)
    PROVE  Says
<1>0. BoxTypeOK
  BY BaseInvIs
<1>1. \A x \in Msgs, j \in Keys :
          handed'[x][j] = IF x = m /\ j = k THEN handed[x][j] + 1 ELSE handed[x][j]
  BY <1>0, GiveTypes
<1>2. \A x \in Msgs, j \in Keys : handed[x][j] \in Nat
  BY <1>0 DEF BoxTypeOK
<1>3. handed'[m][k] > 0
  BY <1>1, <1>2
<1>4. GrowStep
  BY <1>1, <1>2 DEF GrowStep
<1>5. AskStep
  BY <1>3 DEF AskStep
<1>6. RouteStep
  BY <1>3 DEF RouteStep
<1>7. AcceptStep
  <2>1. ASSUME NEW x \in Msgs \ {m} PROVE \A j \in Keys : handed'[x][j] = handed[x][j]
    BY <1>1
  <2>2. ASSUME NEW x \in Msgs \ {m}, In(mailbox', x) \/ \E j \in Keys : handed'[x][j] > 0
        PROVE  Accepted(x)
    BY <2>1, <2>2 DEF Accepted, In, InMail
  <2> QED BY <2>2 DEF AcceptStep
<1> QED BY <1>4, <1>5, <1>6, <1>7 DEF Says

LEMMA FreshOpens == ASSUME NEW m \in Msgs, NEW k, Fresh(m, k) PROVE OpenMail(m)
BY DEF Fresh, OpenMail, Rebound

LEMMA DeliveringSays ==
    ASSUME "stage" \notin StoreFailures, BaseInv, NEW m \in Msgs, NEW k \in Keys,
           Delivering(m, k)
    PROVE  Says
<1>1. PICK s \in Sockets : Deliver(s, m, k)
  BY DEF Delivering
<1>2. /\ Fresh(m, k) /\ ReplyAllowed(m, k) /\ mailbox' = mailbox
      /\ \/ Refusing(m, k, "E_MESSAGE_TOO_LARGE")
         \/ Give(m, k) /\ Answering(m, k) /\ Routing(m, k)
         \/ routes' = routes /\ asks' = asks /\ handed' = handed
         \/ Give(m, k) /\ asks' = OpenAsk(m, k) /\ routes' = routes
  BY <1>1, DeliverCases
<1>3. asks \in [Msgs -> Keys \cup {None}] /\ routes \in [Msgs -> Keys \cup {None}]
  BY DEF BaseInv, BrokerTypeOK
<1>4. OpenMail(m)
  BY <1>2, FreshOpens
<1>5. \A x \in Msgs : OpenAsk(m, k)[x] = asks[x] \/ (x = m /\ OpenAsk(m, k)[x] = k)
  BY <1>3 DEF OpenAsk
<1>6. CASE handed' = handed /\ routes' = routes /\ asks' = asks
  BY <1>2, <1>6, SilentSays
<1>7. CASE Give(m, k) /\ Answering(m, k) /\ Routing(m, k)
  <2>1. \A x \in Msgs : routes'[x] = routes[x] \/ (x = m /\ routes'[x] = k)
    BY <1>3, <1>7 DEF Routing
  <2>2. \A x \in Msgs : \/ asks'[x] = None \/ asks'[x] = asks[x]
                        \/ x = m /\ asks'[x] = k /\ OpenMail(m)
    BY <1>4, <1>5, <1>7 DEF Answering
  <2> QED BY <1>2, <1>7, <2>1, <2>2, GivingSays
<1>8. CASE Give(m, k) /\ asks' = OpenAsk(m, k) /\ routes' = routes
  BY <1>2, <1>4, <1>5, <1>8, GivingSays
<1> QED BY <1>2, <1>6, <1>7, <1>8 DEF Refusing

LEMMA QueueingSays ==
    ASSUME BaseInv, NEW m \in Msgs, NEW k \in Keys, Queueing(m, k)
    PROVE  Says
<1>1. PICK s \in Sockets : AcceptMail(s, m, k)
  BY DEF Queueing
<1>2. Author(m) \in Live /\ disconnected[k] # None /\ SameScope(k, Author(m))
  BY DEF Queueing
<1>3. /\ Fresh(m, k) /\ ReplyAllowed(m, k)
      /\ \/ Refusing(m, k, "E_MESSAGE_TOO_LARGE")
         \/ mailbox' = mailbox /\ routes' = routes /\ asks' = asks /\ handed' = handed
         \/ \E j \in Live : /\ Give(m, j) /\ Routing(m, j) /\ mailbox' = mailbox
                            /\ Closed(m) \/ asks' = asks
         \/ Taking(m, k) /\ (Closed(m) \/ asks' = asks)
  BY <1>1, <1>2, AcceptMailCases
<1>4. asks \in [Msgs -> Keys \cup {None}] /\ routes \in [Msgs -> Keys \cup {None}]
  BY DEF BaseInv, BrokerTypeOK
<1>5. ASSUME Closed(m) \/ asks' = asks
      PROVE  \A x \in Msgs : asks'[x] = None \/ asks'[x] = asks[x]
  BY <1>5 DEF Closed
<1>6. CASE mailbox' = mailbox /\ routes' = routes /\ asks' = asks /\ handed' = handed
  BY <1>6, SilentSays
<1>7. CASE \E j \in Live : /\ Give(m, j) /\ Routing(m, j) /\ mailbox' = mailbox
                           /\ Closed(m) \/ asks' = asks
  <2>1. PICK j \in Live : /\ Give(m, j) /\ Routing(m, j) /\ mailbox' = mailbox
                          /\ Closed(m) \/ asks' = asks
    BY <1>7
  <2>2. \A x \in Msgs : routes'[x] = routes[x] \/ (x = m /\ routes'[x] = j)
    BY <1>4, <2>1 DEF Routing
  <2>3. j \in Keys
    BY DEF Live
  <2> QED BY <1>3, <1>5, <2>1, <2>2, <2>3, GivingSays
<1>8. CASE Taking(m, k) /\ (Closed(m) \/ asks' = asks)
  <2>1. Entry(m, k) \in Mail /\ Entry(m, k).msg = m
    BY <1>2, EntryIsMail DEF Entry
  <2>2. mailbox \in Seq(Mail)
    BY DEF BaseInv, BrokerTypeOK
  <2>3. \A x : In(mailbox', x) => In(mailbox, x) \/ x = m
    BY <1>8, <2>1, <2>2, QueuedBox DEF Taking
  <2>4. handed' = handed /\ \A x \in Msgs : routes'[x] = None \/ routes'[x] = routes[x]
    BY <1>8 DEF Taking, DropRoutes
  <2>5. AcceptStep
    BY <1>3, <2>3, <2>4 DEF AcceptStep, Accepted, In, InMail
  <2>6. AskStep
    BY <1>5, <1>8 DEF AskStep
  <2>7. RouteStep /\ GrowStep
    BY <2>4 DEF RouteStep, GrowStep
  <2> QED BY <2>5, <2>6, <2>7 DEF Says
<1> QED BY <1>3, <1>6, <1>7, <1>8 DEF Refusing

LEMMA FlushSays ==
    ASSUME BaseInv, NEW k \in Keys, NEW D \in SUBSET (1..Len(mailbox)), NEW big,
           Rest(mailbox, mailbox', (1..Len(mailbox)) \ D), Flushing(k, D, big)
    PROVE  Says
<1>0. BoxTypeOK /\ mailbox \in Seq(Mail)
  BY BaseInvIs DEF BoxTypeOK
<1>1. \A x \in Msgs, j \in Keys : handed'[x][j] =
          IF j = k /\ x \in Letters(D) \ big THEN handed[x][j] + CopiesIn(D, x)
          ELSE handed[x][j]
  BY <1>0, FlushTypes
<1>2. \A x \in Msgs : CopiesIn(D, x) \in Nat /\ (x \in Letters(D) => CopiesIn(D, x) > 0)
  BY <1>0, CopiesOfDue
<1>3. \A x \in Msgs, j \in Keys : handed[x][j] \in Nat
  BY <1>0 DEF BoxTypeOK
<1>4. GrowStep
  <2>1. ASSUME NEW x \in Msgs, NEW j \in Keys, handed[x][j] > 0 PROVE handed'[x][j] > 0
    BY <1>1, <1>2, <1>3, <2>1
  <2> QED BY <2>1 DEF GrowStep
<1>5. AskStep
  BY DEF AskStep, Flushing
<1>6. RouteStep
  <2>1. ASSUME NEW x \in Msgs, x \notin big, x \in Letters(D)
        PROVE  routes'[x] = k /\ handed'[x][k] > 0
    <3>1. routes'[x] = k
      BY <2>1 DEF Flushing
    <3>2. handed'[x][k] = handed[x][k] + CopiesIn(D, x)
      BY <1>1, <2>1
    <3>3. handed[x][k] \in Nat /\ CopiesIn(D, x) \in Nat /\ CopiesIn(D, x) > 0
      BY <1>2, <1>3, <2>1
    <3> QED BY <3>1, <3>2, <3>3
  <2>2. ASSUME NEW x \in Msgs, x \in big \/ x \notin Letters(D)
        PROVE  routes'[x] = None \/ routes'[x] = routes[x]
    BY <2>2 DEF Flushing
  <2> QED BY <2>1, <2>2 DEF RouteStep
<1>7. AcceptStep
  <2>1. \A x : In(mailbox', x) => In(mailbox, x)
    BY DEF Rest, In
  <2>2. \A x \in Letters(D) : In(mailbox, x)
    BY DEF Letters, In
  <2>3. ASSUME NEW x \in Msgs, x \notin Letters(D), NEW j \in Keys, handed'[x][j] > 0
        PROVE  handed[x][j] > 0
    BY <1>1, <2>3
  <2>4. \A x \in Msgs : In(mailbox, x) => Accepted(x)
    BY DEF In, InMail, Accepted
  <2>5. \A x \in Msgs, j \in Keys : handed[x][j] > 0 => Accepted(x)
    BY DEF Accepted
  <2> QED BY <2>1, <2>2, <2>3, <2>4, <2>5 DEF AcceptStep
<1> QED BY <1>4, <1>5, <1>6, <1>7 DEF Says

LEMMA BrokerSays ==
    ASSUME "stage" \notin StoreFailures, BaseInv, [BrokerNext]_brokerVars
    PROVE  Says
<1>0. IInv /\ BoxTypeOK
  BY BaseInvIs
<1>1. ASSUME NEW s \in Sockets, NEW k \in Keys, NEW p \in Profiles, RegisterAndFlush(s, k, p)
      PROVE  Says
  <2>1. PICK D \in SUBSET (1..Len(mailbox)) : \E big \in SUBSET Letters(D) :
              /\ Rest(mailbox, mailbox', (1..Len(mailbox)) \ D)
              /\ Flushing(k, D, big)
    BY <1>1, FlushCases
  <2> QED BY <2>1, FlushSays
<1>2. ASSUME NEW s \in Sockets, NEW m \in Msgs, Withdraw(s, m) PROVE Says
  <2>1. handed' = handed /\ routes' = routes /\ ClearAsk(m)
    BY <1>0, <1>2, WithdrawCases
  <2>2. \A x \in Msgs : asks'[x] = None \/ asks'[x] = asks[x]
    BY <2>1 DEF ClearAsk, BaseInv, BrokerTypeOK
  <2>3. \A x \in Msgs : In(mailbox', x) => In(mailbox, x)
    <3>1. \/ mailbox' = mailbox
          \/ \E i \in 1..Len(mailbox) : Rest(mailbox, mailbox', (1..Len(mailbox)) \ {i})
      BY <1>0, <1>2, WithdrawCases
    <3> QED BY <3>1 DEF Rest, In
  <2> QED BY <2>1, <2>2, <2>3, SilentSays
<1>3. CASE ExpireMail
  <2>1. /\ mailbox # <<>> /\ mailbox' = Tail(mailbox) /\ handed' = handed /\ asks' = asks
        /\ \A x \in Msgs : routes'[x] = None \/ routes'[x] = routes[x]
    BY <1>3 DEF ExpireMail, DropRoutes
  <2>2. Rest(mailbox, mailbox', 2..Len(mailbox)) /\ 2..Len(mailbox) \subseteq 1..Len(mailbox)
    <3>1. mailbox \in Seq(Mail) /\ Len(mailbox) \in Nat
      BY <1>0, LenProperties DEF BoxTypeOK
    <3> QED BY <2>1, <3>1, TailRest
  <2>3. \A x \in Msgs : In(mailbox', x) => In(mailbox, x)
    BY <2>2 DEF Rest, In
  <2> QED BY <2>1, <2>3, SilentSays
<1>4. ASSUME NEW m \in Msgs, Expire(m) PROVE Says
  <2>1. /\ mailbox' = mailbox /\ handed' = handed
        /\ \A x \in Msgs : routes'[x] = None \/ routes'[x] = routes[x]
        /\ \A x \in Msgs : asks'[x] = None \/ asks'[x] = asks[x]
    BY <1>4 DEF Expire, BaseInv, BrokerTypeOK
  <2> QED BY <2>1, SilentSays
<1>5. CASE UNCHANGED mailVars
  BY <1>5, SilentSays DEF mailVars
<1>6. ASSUME NEW m \in Msgs, NEW k \in Keys, Failing(m, k) PROVE Says
  <2>1. mailbox' = mailbox /\ handed' = handed /\ routes' = routes /\ asks' = asks
    BY <1>6 DEF Failing, Refusing
  <2> QED BY <2>1, SilentSays
<1> QED BY <1>0, <1>1, <1>2, <1>3, <1>4, <1>5, <1>6, DeliveringSays, QueueingSays, BrokerCases

RoutesHeard ==
    /\ \A m \in Msgs : routes[m] # None => Heard(m, routes[m])
    /\ \A m \in Msgs : asks[m] # None => Heard(m, asks[m])

LEMMA NextKeepsReplies ==
    ASSUME "stage" \notin StoreFailures, BaseInv, RoutesHeard, RepliesAnswerWhatArrived,
           [BrokerNext]_brokerVars
    PROVE  RoutesHeard' /\ RepliesAnswerWhatArrived'
<1>0. Says /\ routes \in [Msgs -> Keys \cup {None}] /\ asks \in [Msgs -> Keys \cup {None}]
  BY BrokerSays DEF BaseInv, BrokerTypeOK
<1>1. ASSUME NEW m \in Msgs, routes'[m] # None PROVE handed'[m][routes'[m]] > 0
  BY <1>0, <1>1 DEF Says, RouteStep, GrowStep, RoutesHeard, Heard
<1>2. ASSUME NEW m \in Msgs, asks'[m] # None PROVE handed'[m][asks'[m]] > 0
  BY <1>0, <1>2 DEF Says, AskStep, GrowStep, RoutesHeard, Heard
<1>3. ASSUME NEW m \in Msgs, Accepted(m)', Letter[m].replyTo # None
      PROVE  handed'[Letter[m].replyTo][Author(m)] > 0
  <2> DEFINE r == Letter[m].replyTo
  <2>1. r \in Msgs /\ Author(m) \in Keys /\ Author(m) # None
    BY <1>3, BrokerAssumption, RegistryAssumption DEF Author
  <2>2. Accepted(m) \/ \E k \in Keys : ReplyAllowed(m, k)
    BY <1>0, <1>3 DEF Says, AcceptStep, Accepted, In, InMail
  <2>3. CASE Accepted(m)
    BY <1>0, <1>3, <2>1, <2>3 DEF RepliesAnswerWhatArrived, Says, GrowStep
  <2>4. CASE \E k \in Keys : ReplyAllowed(m, k)
    <3>1. routes[r] = Author(m) \/ asks[r] = Author(m)
      BY <1>3, <2>4 DEF ReplyAllowed
    <3>2. handed[r][Author(m)] > 0
      BY <2>1, <3>1 DEF RoutesHeard, Heard
    <3> QED BY <1>0, <2>1, <3>2 DEF Says, GrowStep
  <2> QED BY <2>2, <2>3, <2>4
<1>4. RoutesHeard'
  BY <1>1, <1>2 DEF RoutesHeard, Heard
<1>5. RepliesAnswerWhatArrived'
  BY <1>3 DEF RepliesAnswerWhatArrived, Author
<1> QED BY <1>4, <1>5

LEMMA RepliesHold ==
    ASSUME "stage" \notin StoreFailures
    PROVE  BrokerSpec => [](RoutesHeard /\ RepliesAnswerWhatArrived)
<1>1. BrokerInit => RoutesHeard /\ RepliesAnswerWhatArrived
  <2> SUFFICES ASSUME BrokerInit PROVE RoutesHeard /\ RepliesAnswerWhatArrived
    OBVIOUS
  <2>1. RoutesHeard
    BY DEF BrokerInit, RoutesHeard
  <2>2. \A m \in Msgs : ~Accepted(m)
    <3>1. Len(mailbox) = 0 /\ 1..0 = {}
      BY DEF BrokerInit
    <3>2. \A m \in Msgs, k \in Keys : handed[m][k] = 0
      BY DEF BrokerInit
    <3> QED BY <3>1, <3>2 DEF Accepted, InMail
  <2> QED BY <2>1, <2>2 DEF RepliesAnswerWhatArrived
<1>2. BaseInv /\ RoutesHeard /\ RepliesAnswerWhatArrived /\ [BrokerNext]_brokerVars
        => RoutesHeard' /\ RepliesAnswerWhatArrived'
  BY NextKeepsReplies
<1> QED BY <1>1, <1>2, BaseHolds, PTL DEF BrokerSpec

(* Only a session that was handed a message can have a reply to it         *)
(* accepted, whatever is retried, forgotten or withdrawn; an ask staged    *)
(* without its frame (a failure between the two) is the excluded case.     *)
THEOREM RepliesFollowDelivery ==
    ASSUME "stage" \notin StoreFailures
    PROVE  BrokerSpec => []RepliesAnswerWhatArrived
BY RepliesHold, PTL

-----------------------------------------------------------------------------
(* Answered asks *)

Settled(m) == records[m] # None /\ records[m].state # "failed"
Closes(m) ==
    /\ records'[m] # None /\ records'[m].state # "failed"
    => Settled(m) \/ \A x \in Ended(m) : asks'[x] = None

LEMMA SendingCloses ==
    ASSUME BaseInv, NEW m \in Msgs, NEW k \in Keys, NEW r \in DeliveryRecords,
           records' = [records EXCEPT ![m] = r], Answering(m, k) \/ Closed(m)
    PROVE  \A x \in Msgs : Closes(x)
<1>1. \A x \in Msgs \ {m} : records'[x] = records[x]
  BY DEF BaseInv, BrokerTypeOK
<1>2. \A x \in Ended(m) : asks'[x] = None
  <2>1. Ended(m) \subseteq Msgs
    BY BrokerAssumption DEF Ended
  <2> QED BY <2>1 DEF Answering, Closed
<1> QED BY <1>1, <1>2 DEF Closes, Settled

LEMMA KeepingCloses ==
    ASSUME NEW m \in Msgs, records'[m] # None /\ records'[m].state # "failed" => Settled(m)
    PROVE  Closes(m)
BY DEF Closes

LEMMA RefusingCloses ==
    ASSUME BaseInv, NEW m \in Msgs, NEW k \in Keys, NEW code \in RecordCodes,
           Refusing(m, k, code)
    PROVE  \A x \in Msgs : Closes(x)
<1>1. NewRecord(k, "failed", code).state = "failed"
  BY DEF NewRecord
<1>2. records'[m].state = "failed" /\ \A x \in Msgs \ {m} : records'[x] = records[x]
  BY <1>1 DEF Refusing, BaseInv, BrokerTypeOK
<1> QED BY <1>2 DEF Closes, Settled

(* A message whose record comes to say that it arrived or is kept ends     *)
(* what it answers in the same step.                                       *)
LEMMA BrokerCloses ==
    ASSUME "records" \notin Forgets, "commit" \notin StoreFailures,
           BaseInv, MailInv, [BrokerNext]_brokerVars
    PROVE  \A x \in Msgs : Closes(x)
<1>0. IInv /\ BoxTypeOK
  BY BaseInvIs
<1>1. ASSUME \A x \in Msgs : records'[x] = records[x] PROVE \A x \in Msgs : Closes(x)
  BY <1>1 DEF Closes, Settled
<1>2. "E_MESSAGE_TOO_LARGE" \in RecordCodes /\ "E_TARGET_NOT_FOUND" \in RecordCodes
      /\ "E_TARGET_REBOUND" \in RecordCodes
  BY DEF RecordCodes
<1>3. ASSUME NEW m \in Msgs, NEW k \in Keys, Delivering(m, k)
      PROVE  \A x \in Msgs : Closes(x)
  <2>1. PICK s \in Sockets : Deliver(s, m, k)
    BY <1>3 DEF Delivering
  <2>2. \/ Refusing(m, k, "E_MESSAGE_TOO_LARGE")
        \/ Answering(m, k) /\ Recording(m, k, "socket_delivered")
        \/ records' = records
    BY <2>1, DeliverCases
  <2>3. NewRecord(k, "socket_delivered", "") \in DeliveryRecords
    BY NewRecordIs, WrittenCodes
  <2>4. CASE Answering(m, k) /\ Recording(m, k, "socket_delivered")
    BY <2>3, <2>4, SendingCloses DEF Recording
  <2>5. CASE Refusing(m, k, "E_MESSAGE_TOO_LARGE")
    BY <1>2, <2>5, RefusingCloses
  <2> QED BY <1>1, <2>2, <2>4, <2>5
<1>4. ASSUME NEW m \in Msgs, NEW k \in Keys, Queueing(m, k)
      PROVE  \A x \in Msgs : Closes(x)
  <2> DEFINE F == FailRecords(EvictedMail, "E_DELIVERY_EVICTED")
  <2>1. PICK s \in Sockets : AcceptMail(s, m, k)
    BY <1>4 DEF Queueing
  <2>2. \/ Refusing(m, k, "E_MESSAGE_TOO_LARGE")
        \/ records' = records
        \/ Closed(m) /\ Recording(m, k, "socket_delivered")
        \/ Closed(m) /\ records' = [F EXCEPT ![m] = NewRecord(k, "queued", "")]
    BY <1>4, <2>1, AcceptMailCases DEF Queueing
  <2>3. /\ NewRecord(k, "socket_delivered", "") \in DeliveryRecords
        /\ NewRecord(k, "queued", "") \in DeliveryRecords
    BY NewRecordIs, WrittenCodes
  <2>4. CASE Refusing(m, k, "E_MESSAGE_TOO_LARGE")
    BY <1>2, <2>4, RefusingCloses
  <2>5. CASE Closed(m) /\ Recording(m, k, "socket_delivered")
    BY <2>3, <2>5, SendingCloses DEF Recording
  <2>6. CASE Closed(m) /\ records' = [F EXCEPT ![m] = NewRecord(k, "queued", "")]
    <3>1. /\ F \in AllRecords
          /\ \A x \in Msgs : F[x] =
                IF x \in EvictedMail THEN Updated(records[x], "failed", "E_DELIVERY_EVICTED")
                ELSE records[x]
      BY <1>0, FailRecordsIs DEF BoxTypeOK
    <3> HIDE DEF F
    <3>2. \A x \in Msgs \ {m} : records'[x] = F[x]
      BY <2>6, <3>1 DEF AllRecords
    <3>3. ASSUME NEW x \in Msgs \ {m} PROVE Closes(x)
      <4>1. CASE x \in EvictedMail
        <5>1. "failed" \in States /\ "E_DELIVERY_EVICTED" \in RecordCodes
          BY DEF States, RecordCodes
        <5>2. records'[x] = Updated(records[x], "failed", "E_DELIVERY_EVICTED")
          BY <3>1, <3>2, <4>1
        <5>3. records'[x] # None => records'[x].state = "failed"
          <6> DEFINE r == records[x]
                     u == Updated(r, "failed", "E_DELIVERY_EVICTED")
          <6>1. r \in DeliveryRecords \cup {None}
            BY <1>0 DEF BoxTypeOK, AllRecords
          <6> HIDE DEF r
          <6>2. (u = None <=> r = None) /\ (r # None => u.state = "failed")
            BY <5>1, <6>1, UpdatedIs
          <6>3. records'[x] = u
            BY <5>2 DEF r
          <6> HIDE DEF u
          <6> QED BY <6>2, <6>3
        <5> QED BY <5>3, KeepingCloses
      <4>2. CASE x \notin EvictedMail
        BY <3>1, <3>2, <4>2 DEF Closes, Settled
      <4> QED BY <4>1, <4>2
    <3>4. Closes(m)
      <4>1. Ended(m) \subseteq Msgs
        BY BrokerAssumption DEF Ended
      <4>2. \A x \in Ended(m) : asks'[x] = None
        BY <2>6, <4>1 DEF Closed
      <4> QED BY <4>2 DEF Closes
    <3> QED BY <3>3, <3>4
  <2> QED BY <1>1, <2>2, <2>4, <2>5, <2>6
<1>5. ASSUME NEW m \in Msgs, NEW k \in Keys, Failing(m, k)
      PROVE  \A x \in Msgs : Closes(x)
  BY <1>2, <1>5, RefusingCloses DEF Failing
<1>6. ASSUME NEW s \in Sockets, NEW k \in Keys, NEW p \in Profiles, RegisterAndFlush(s, k, p),
             NEW x \in Msgs, records'[x] # None, records'[x].state # "failed"
      PROVE  Settled(x)
  <2>1. PICK D \in SUBSET (1..Len(mailbox)) : \E big \in SUBSET Letters(D) :
              Flushing(k, D, big)
    BY <1>6, FlushCases
  <2>2. PICK big \in SUBSET Letters(D) : Flushing(k, D, big)
    BY <2>1
  <2>3. CASE x \in Letters(D)
    <3>1. In(mailbox, x) /\ Good(x)
      BY <2>3 DEF Letters, In, MailInv
    <3> QED BY <3>1 DEF Good, Settled
  <2>4. CASE x \notin Letters(D)
    BY <1>6, <2>2, <2>4 DEF Flushing, Settled
  <2> QED BY <2>3, <2>4
<1>7. ASSUME NEW x \in Msgs, Untouched(x) \/ Refused(x) PROVE Closes(x)
  BY <1>7 DEF Untouched, Refused, Closes, Settled
<1>8. ASSUME NEW s \in Sockets, NEW m \in Msgs, Withdraw(s, m) PROVE \A x \in Msgs : Closes(x)
  <2>1. Moves /\ handed' = handed
    BY <1>0, <1>8, BrokerMoves, WithdrawCases
  <2>2. \A x \in Msgs : ~Arrives(x)
    <3>1. ASSUME NEW x \in Msgs, Arrives(x) PROVE FALSE
      <4>1. Good(x) /\ Pending(x)
        BY <3>1 DEF MailInv, Arrives
      <4>2. \A j \in Keys : handed[x][j] = 0
        BY <1>0, <4>1, PendingUnheard
      <4>3. PICK j \in Keys : handed'[x][j] = 1
        BY <3>1 DEF Arrives
      <4> QED BY <2>1, <4>2, <4>3
    <3> QED BY <3>1
  <2>3. \A x \in Msgs : ~Kept(x)
    <3>1. \A x : In(mailbox', x) => In(mailbox, x)
      <4>1. \/ mailbox' = mailbox
            \/ \E i \in 1..Len(mailbox) : Rest(mailbox, mailbox', (1..Len(mailbox)) \ {i})
        BY <1>0, <1>8, WithdrawCases
      <4> QED BY <4>1 DEF Rest, In
    <3>2. \A x \in Msgs : OpenMail(x) => ~In(mailbox, x)
      BY DEF MailInv, Good, OpenMail, Rebound
    <3> QED BY <3>1, <3>2 DEF Kept
  <2> QED BY <1>7, <2>1, <2>2, <2>3 DEF Moves
<1>9. CASE ExpireMail
  <2>1. records' = FailRecords({Head(mailbox).msg}, "E_DELIVERY_EXPIRED")
    BY <1>9 DEF ExpireMail
  <2>2. ASSUME NEW x \in Msgs PROVE Closes(x)
    <3> DEFINE r == records[x]
               u == Updated(r, "failed", "E_DELIVERY_EXPIRED")
    <3>1. records'[x] = u \/ records'[x] = r
      BY <1>0, <2>1, FailRecordsIs DEF BoxTypeOK
    <3>2. r \in DeliveryRecords \cup {None}
      BY <1>0 DEF BoxTypeOK, AllRecords
    <3>3. "failed" \in States /\ "E_DELIVERY_EXPIRED" \in RecordCodes
      BY DEF States, RecordCodes
    <3> HIDE DEF r
    <3>4. (u = None <=> r = None) /\ (r # None => u.state = "failed")
      BY <3>2, <3>3, UpdatedIs
    <3> HIDE DEF u
    <3>5. records'[x] # None /\ records'[x].state # "failed" => r # None /\ r.state # "failed"
      BY <3>1, <3>4
    <3> QED BY <3>5 DEF r, Closes, Settled
  <2> QED BY <2>2
<1>10. ASSUME UNCHANGED mailVars \/ \E m \in Msgs : Expire(m)
       PROVE  \A x \in Msgs : records'[x] = records[x]
  BY <1>10 DEF mailVars, Expire
<1> QED BY <1>0, <1>1, <1>3, <1>4, <1>5, <1>6, <1>8, <1>9, <1>10, KeepingCloses, BrokerCases

LEMMA NextKeepsClosed ==
    ASSUME "records" \notin Forgets, {"stage", "commit"} \cap StoreFailures = {},
           BaseInv, MailInv, RepliesAnswerWhatArrived, AnsweredAsksStayClosed,
           [BrokerNext]_brokerVars
    PROVE  AnsweredAsksStayClosed'
<1>1. ASSUME NEW m \in Msgs, records'[m] # None, records'[m].state # "failed",
             Letter[m].completes, Letter[m].replyTo # None
      PROVE  asks'[Letter[m].replyTo] = None
  <2> DEFINE r == Letter[m].replyTo
  <2>1. r \in Msgs /\ Author(m) \in Keys
    BY <1>1, BrokerAssumption DEF Author
  <2>2. Settled(m) \/ \A x \in Ended(m) : asks'[x] = None
    BY <1>1, BrokerCloses DEF Closes
  <2>3. r \in Ended(m)
    BY <1>1 DEF Ended
  <2>4. CASE Settled(m)
    <3>1. asks[r] = None
      BY <1>1, <2>4 DEF Settled, AnsweredAsksStayClosed
    <3>2. Good(m) /\ Good(r)
      BY <2>1 DEF MailInv
    <3>3. records[m] # None /\ records[m].state \in {"queued", "socket_delivered"}
      BY <2>4 DEF Settled, BaseInv, BrokerTypeOK, DeliveryRecords
    <3>4. Accepted(m)
      BY <3>2, <3>3 DEF Good, Accepted, In, InMail
    <3>5. handed[r][Author(m)] > 0
      BY <1>1, <3>4 DEF RepliesAnswerWhatArrived
    <3>6. ~OpenMail(r)
      BY <2>1, <3>2, <3>5 DEF Good, OpenMail, Rebound
    <3>7. AskStep
      BY BrokerSays DEF Says
    <3> QED BY <2>1, <3>1, <3>6, <3>7 DEF AskStep
  <2> QED BY <2>2, <2>3, <2>4
<1> QED BY <1>1 DEF AnsweredAsksStayClosed

(* An ask whose final answer was accepted is not pending again while       *)
(* records are kept and written and an ask comes with its frame.           *)
THEOREM AnsweredAsksAreClosed ==
    ASSUME "records" \notin Forgets, {"stage", "commit"} \cap StoreFailures = {}
    PROVE  BrokerSpec => []AnsweredAsksStayClosed
<1>1. BrokerInit => AnsweredAsksStayClosed
  BY DEF BrokerInit, AnsweredAsksStayClosed
<1>2. /\ BaseInv /\ MailInv /\ RepliesAnswerWhatArrived /\ AnsweredAsksStayClosed
      /\ [BrokerNext]_brokerVars
      => AnsweredAsksStayClosed'
  BY NextKeepsClosed
<1>3. "commit" \notin StoreFailures /\ "stage" \notin StoreFailures
  OBVIOUS
<1>4. BrokerSpec => [](MailInv /\ BaseInv)
  BY <1>3, MailHolds
<1>5. BrokerSpec => [](RoutesHeard /\ RepliesAnswerWhatArrived)
  BY <1>3, RepliesHold
<1> QED BY <1>1, <1>2, <1>4, <1>5, PTL DEF BrokerSpec

==================================================================================
