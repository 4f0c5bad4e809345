----------------------------- MODULE LocalBroker -----------------------------
(***************************************************************************)
(* Mail and asks between the sessions of one broker (broker/runtime.ts):   *)
(* the send, cancel_message and cancel_ask handlers, the mailbox of        *)
(* disconnected sessions with its flush on registration, the delivery      *)
(* records that make a retry harmless, the routes replies follow, and the  *)
(* pending asks with their files.                                          *)
(*                                                                         *)
(* A message is a constant with its author and relations; its content      *)
(* never changes, so of a delivery fingerprint only the target is left.    *)
(* Routes and asks are keyed by message id, their "from" is the author.    *)
(* A rejection that only answers the author changes nothing here.          *)
(***************************************************************************)
EXTENDS SessionRegistry

CONSTANTS
    Msgs,
    Letter,           \* per message: from, replyTo, asks, completes, ...
    Bulky,            \* messages whose frame may exceed MAX_FRAME_BYTES
    IdPrefixOf,       \* per token: the keys whose id it is a prefix of
    MaxMailbox,       \* MAX_MAILBOX_MESSAGES
    Forgets,          \* the tables whose retention may run out
    StoreFailures,    \* the points at which a file write may fail
    MaxTries          \* bound: accepted sends of one message

(* deliveryRecords: what the author was told last, and of a withdrawal.    *)
DeliveryRecords ==
    [target : Keys,
     state : {"queued", "socket_delivered", "failed"},
     code : {"", "E_MESSAGE_TOO_LARGE", "E_TARGET_NOT_FOUND", "E_TARGET_REBOUND",
             "E_DELIVERY_EVICTED", "E_DELIVERY_EXPIRED", "E_DELIVERY_CANCELLED"},
     cancelled : {None, "removed_from_mailbox", "not_delivered", "withdrawal_requested"}]

ASSUME BrokerAssumption ==
    /\ \A m \in Msgs : /\ Letter[m].from \in Keys
                       /\ {Letter[m].replyTo, Letter[m].supersedes} \subseteq Msgs \cup {None}
                       /\ {Letter[m].asks, Letter[m].completes, Letter[m].broadcast} \subseteq BOOLEAN
    /\ Bulky \subseteq Msgs
    /\ IdPrefixOf \in [Tokens -> SUBSET Keys]
    /\ MaxMailbox \in Nat \ {0}
    /\ Forgets \subseteq {"mail", "records", "routes", "asks"}
    /\ StoreFailures \subseteq {"ask", "stage", "commit"}
    /\ MaxTries \in Nat
    /\ None \notin Msgs
    /\ None \notin DeliveryRecords

VARIABLES
    mailbox,          \* mailboxMessages: message, sender and target snapshot
    records,          \* deliveryRecords of (author, message)
    routes,           \* messageReceiptRoutes: who received the message
    asks,             \* askEdges: who owes the answer
    askFiles,         \* the pending-ask records on disk
    tries,            \* sends of a message that were not replayed
    handed,           \* history: frames of a message written to a session
    withdrawn         \* history: messages taken back from the mailbox

mailVars == <<mailbox, records, routes, asks, askFiles, tries, handed, withdrawn>>
brokerVars == <<registryVars, mailVars>>

BrokerInit ==
    /\ RegistryInit
    /\ mailbox = <<>>
    /\ records = [m \in Msgs |-> None]
    /\ routes = [m \in Msgs |-> None]
    /\ asks = [m \in Msgs |-> None]
    /\ askFiles = {}
    /\ tries = [m \in Msgs |-> 0]
    /\ handed = [m \in Msgs |-> [k \in Keys |-> 0]]
    /\ withdrawn = {}

Mail == [msg : Msgs, from : Infos, target : Infos]

BrokerTypeOK ==
    /\ RegistryTypeOK
    /\ mailbox \in Seq(Mail)
    /\ records \in [Msgs -> DeliveryRecords \cup {None}]
    /\ routes \in [Msgs -> Keys \cup {None}]
    /\ asks \in [Msgs -> Keys \cup {None}]
    /\ askFiles \subseteq Msgs
    /\ tries \in [Msgs -> Nat]
    /\ handed \in [Msgs -> [Keys -> Nat]]
    /\ withdrawn \subseteq Msgs

Author(m) == Letter[m].from
InMail(m) == \E i \in 1..Len(mailbox) : mailbox[i].msg = m

-----------------------------------------------------------------------------
(* Whom a name or an id means *)

LiveInfos(ss) == [k \in Keys |-> IF ss[k] = None THEN None ELSE ss[k].info]

(* findSessions and findDisconnectedSessions: an id wins over a name, a     *)
(* name over an id prefix; what the requester may not see is not there.    *)
Lookup(infos, token, me, idOnly) ==
    LET there  == {k \in Keys : infos[k] # None /\ SameScope(k, me)}
        seen   == {k \in there : CanSee(sessions[me].info, infos[k])}
        byId   == {k \in there : IdToken(k) = token}
        byName == {k \in seen : infos[k].name = token}
    IN  CASE byId # {} -> byId \cap seen
          [] byId = {} /\ idOnly -> {}
          [] byId = {} /\ ~idOnly /\ byName # {} -> byName
          [] OTHER -> seen \cap IdPrefixOf[token]

(* findLiveSessionsSharingMailboxIdentity: an explicit name and directory. *)
Sharing(ss, info) ==
    {k \in Keys : /\ ss[k] # None
                  /\ SameScope(k, info.key)
                  /\ info.name # None /\ ~info.alias /\ ~ss[k].info.alias
                  /\ ss[k].info.name = info.name
                  /\ ss[k].info.cwd = info.cwd}

(* findUniqueLiveSessionForDisconnectedSession, as a set of at most one.   *)
Substitute(info, me) ==
    LET seen == {k \in Sharing(sessions, info) \ {me} :
                    CanSee(sessions[me].info, sessions[k].info)}
    IN  {k \in seen : seen = {k}}

-----------------------------------------------------------------------------
(* Records and admission *)

NewRecord(k, state, code) ==
    [target |-> k, state |-> state, code |-> code, cancelled |-> None]

(* Mutant: the record keeps what the author was told first.                *)
NotUpdated(r, state, code) == r

(* updateDeliveryRecord                                                    *)
Updated(r, state, code) ==
    IF r = None THEN None ELSE [r EXCEPT !.state = state, !.code = code]

(* Mutant: a record only concerns the target it was made for.              *)
FreshPerTarget(m, k) ==
    records[m] # None => records[m].target # k \/ records[m].code = "E_TARGET_REBOUND"
(* Mutant: every failure may be retried.                                   *)
FreshAfterFailure(m, k) == records[m] # None => records[m].state = "failed"

(* replayOrReject lets a send of m to k through: no record, or only the    *)
(* retryable failure of an endpoint that was replaced.                     *)
Fresh(m, k) ==
    records[m] # None => records[m].target = k /\ records[m].code = "E_TARGET_REBOUND"

(* Mutant: whoever knows a message of k may answer it.                     *)
ReplyToAuthor(m, k) == Letter[m].replyTo # None => Author(Letter[m].replyTo) = k

(* The thread m answers came to its author from k.                         *)
ReplyAllowed(m, k) ==
    LET r == Letter[m].replyTo
    IN  r # None => /\ Author(r) = k
                    /\ (IF routes[r] # None THEN routes[r] ELSE asks[r]) = Author(m)

(* m may replace what its author sent to k before.                         *)
SupersedeAllowed(m, k) ==
    LET old == Letter[m].supersedes
    IN  old # None => Author(old) = Author(m) /\ routes[old] = k

(* Mutant: an answer leaves the ask to its timeout.                        *)
EndedBySupersede(m) == {Letter[m].supersedes} \ {None}

(* The asks that end when m is accepted.                                   *)
Ended(m) == ({Letter[m].supersedes} \cup
             (IF Letter[m].completes THEN {Letter[m].replyTo} ELSE {})) \ {None}

Speaks(s, m) ==
    /\ Talking(s)
    /\ IsCurrent(s)
    /\ bound[s] = Author(m)

Attempt(s, m) ==
    /\ Speaks(s, m)
    /\ tries[m] < MaxTries
    /\ tries' = [tries EXCEPT ![m] = @ + 1]

HandTo(m, k) == handed' = [handed EXCEPT ![m][k] = @ + 1]

KeepRegistry == UNCHANGED registryVars
(* A handler that throws takes its own connection down.                    *)
Throw(s) ==
    /\ link' = [link EXCEPT ![s] = "destroyed"]
    /\ UNCHANGED <<bound, unregistered, sessions, disconnected, epochs>>

(* The record of a send that failed for good before anything happened.     *)
Fail(s, m, k, code) ==
    /\ records' = [records EXCEPT ![m] = NewRecord(k, "failed", code)]
    /\ KeepRegistry
    /\ UNCHANGED <<mailbox, routes, asks, askFiles, handed, withdrawn>>

-----------------------------------------------------------------------------
(* send to one live session *)

OpenAsk(m, k) == IF Letter[m].asks THEN [asks EXCEPT ![m] = k] ELSE asks
AskFile(m) == IF Letter[m].asks THEN {m} ELSE {}

Deliver(s, m, k) ==
    /\ Fresh(m, k)
    /\ SupersedeAllowed(m, k)
    /\ ReplyAllowed(m, k)
    /\ \/ m \in Bulky /\ Fail(s, m, k, "E_MESSAGE_TOO_LARGE")
       \/ /\ KeepRegistry
          /\ HandTo(m, k)
          /\ asks' = [x \in Msgs |-> IF x \in Ended(m) THEN None ELSE OpenAsk(m, k)[x]]
          /\ askFiles' = (askFiles \cup AskFile(m)) \ Ended(m)
          /\ routes' = [routes EXCEPT ![m] = k]
          /\ records' = [records EXCEPT ![m] = NewRecord(k, "socket_delivered", "")]
          /\ UNCHANGED <<mailbox, withdrawn>>
       \/ /\ "ask" \in StoreFailures /\ Letter[m].asks
          /\ Throw(s)
          /\ UNCHANGED <<mailbox, records, routes, asks, askFiles, handed, withdrawn>>
       \/ /\ "stage" \in StoreFailures /\ ~Letter[m].broadcast
          /\ Throw(s)
          /\ asks' = OpenAsk(m, k)
          /\ askFiles' = askFiles \cup AskFile(m)
          /\ UNCHANGED <<mailbox, records, routes, handed, withdrawn>>
       \/ /\ "commit" \in StoreFailures /\ ~Letter[m].broadcast
          /\ Throw(s)
          /\ HandTo(m, k)
          /\ asks' = OpenAsk(m, k)
          /\ askFiles' = askFiles \cup AskFile(m)
          /\ UNCHANGED <<mailbox, records, routes, withdrawn>>

-----------------------------------------------------------------------------
(* send to one disconnected session *)

(* queueMailboxMessage: at the cap the oldest mail is given up.            *)
EvictedMail == IF Len(mailbox) >= MaxMailbox THEN {Head(mailbox).msg} ELSE {}
Queued(entry) == Append(IF EvictedMail = {} THEN mailbox ELSE Tail(mailbox), entry)
DropRoutes(ms) == [x \in Msgs |-> IF x \in ms THEN None ELSE routes[x]]
(* Mutant: an evicted message is forgotten with its record.                *)
FailRecordsForgotten(ms, code) == [x \in Msgs |-> IF x \in ms THEN None ELSE records[x]]

FailRecords(ms, code) ==
    [x \in Msgs |-> IF x \in ms THEN Updated(records[x], "failed", code) ELSE records[x]]

AcceptMail(s, m, k) ==
    LET j     == Substitute(disconnected[k], Author(m))
        entry == [msg |-> m, from |-> sessions[Author(m)].info, target |-> disconnected[k]]
        Place == IF j # {}
                 THEN /\ handed' = [handed EXCEPT ![m] =
                             [x \in Keys |-> handed[m][x] + (IF x \in j THEN 1 ELSE 0)]]
                      /\ routes' = [routes EXCEPT ![m] = CHOOSE x \in j : TRUE]
                      /\ UNCHANGED mailbox
                 ELSE /\ mailbox' = Queued(entry)
                      /\ routes' = DropRoutes(EvictedMail)
                      /\ UNCHANGED handed
        out   == IF j # {} THEN records ELSE FailRecords(EvictedMail, "E_DELIVERY_EVICTED")
    IN
    /\ ~Letter[m].broadcast
    /\ Fresh(m, k)
    /\ Letter[m].supersedes = None
    /\ ReplyAllowed(m, k)
    /\ ~Letter[m].asks
    /\ \/ m \in Bulky /\ Fail(s, m, k, "E_MESSAGE_TOO_LARGE")
       \/ /\ KeepRegistry
          /\ Place
          /\ asks' = [x \in Msgs |-> IF x \in Ended(m) THEN None ELSE asks[x]]
          /\ askFiles' = askFiles \ Ended(m)
          /\ records' = [out EXCEPT ![m] =
                NewRecord(k, IF j # {} THEN "socket_delivered" ELSE "queued", "")]
          /\ UNCHANGED withdrawn
       \/ /\ "stage" \in StoreFailures
          /\ Throw(s)
          /\ UNCHANGED <<mailbox, records, routes, asks, askFiles, handed, withdrawn>>
       \/ /\ "commit" \in StoreFailures
          /\ Throw(s)
          /\ Place
          /\ records' = out
          /\ UNCHANGED <<asks, askFiles, withdrawn>>

-----------------------------------------------------------------------------
(* send *)

(* To a name, an id or a prefix; idOnly is the targetMode "identity".      *)
Send(s, m, token, idOnly) ==
    LET live == Lookup(LiveInfos(sessions), token, Author(m), idOnly)
        past == Lookup(disconnected, token, Author(m), idOnly)
    IN  /\ Attempt(s, m)
        /\ \/ \E k \in live : live = {k} /\ Deliver(s, m, k)
           \/ \E k \in past : live = {} /\ past = {k} /\ AcceptMail(s, m, k)

(* To the endpoint of k with the epoch the author saw.                     *)
SendPinned(s, m, k, epoch) ==
    LET there == k \in Live /\ CanSee(sessions[Author(m)].info, sessions[k].info)
    IN  /\ Attempt(s, m)
        /\ SameScope(k, Author(m))
        /\ Fresh(m, k)
        /\ \/ ~there /\ Fail(s, m, k, "E_TARGET_NOT_FOUND")
           \/ there /\ sessions[k].epoch # epoch /\ Fail(s, m, k, "E_TARGET_REBOUND")
           \/ there /\ sessions[k].epoch = epoch /\ Deliver(s, m, k)

-----------------------------------------------------------------------------
(* The mailbox on registration and in time *)

(* flushMailboxForSession: the new session k gets the mail for its id, and *)
(* as the only live one of its explicit name and directory that mail too.  *)
Inherits(entry, info, ss) ==
    /\ Cardinality(Sharing(ss, info)) = 1
    /\ ~(/\ SameScope(entry.from.key, info.key)
         /\ entry.from.name = info.name
         /\ entry.from.cwd = info.cwd)
    /\ entry.target.name = info.name
    /\ entry.target.cwd = info.cwd
(* Mutant: the snapshot of a mail's author does not limit who gets it.     *)
ForSessionUnseen(entry, info, ss) ==
    /\ SameScope(entry.target.key, info.key)
    /\ entry.target.key = info.key \/ Inherits(entry, info, ss)

ForSession(entry, info, ss) ==
    /\ SameScope(entry.target.key, info.key)
    /\ entry.target.key = info.key \/ Inherits(entry, info, ss)
    /\ CanSee(entry.from, info)

(* The positions S in their order.                                         *)
InOrder(S) ==
    {at \in [1..Cardinality(S) -> S] : \A i, j \in DOMAIN at : i < j => at[i] < at[j]}

Flush(k, info, ss) ==
    LET due   == {i \in 1..Len(mailbox) : ForSession(mailbox[i], info, ss)}
        Copies(m) == Cardinality({i \in due : mailbox[i].msg = m})
        dueMsgs == {mailbox[i].msg : i \in due}
    IN  \E big \in SUBSET (dueMsgs \cap Bulky) :
        /\ \E at \in InOrder((1..Len(mailbox)) \ due) :
              mailbox' = [n \in DOMAIN at |-> mailbox[at[n]]]
        /\ handed' = [m \in Msgs |-> IF m \in dueMsgs \ big
                         THEN [handed[m] EXCEPT ![k] = @ + Copies(m)] ELSE handed[m]]
        /\ routes' = [m \in Msgs |-> CASE m \in big -> None
                                       [] m \in dueMsgs \ big -> k
                                       [] OTHER -> routes[m]]
        /\ records' = [m \in Msgs |->
              CASE m \in big -> Updated(records[m], "failed", "E_MESSAGE_TOO_LARGE")
                [] m \in dueMsgs \ big -> Updated(records[m], "socket_delivered", "")
                [] OTHER -> records[m]]
        /\ UNCHANGED <<asks, askFiles, tries, withdrawn>>

RegisterAndFlush(s, k, p) ==
    /\ Register(s, k, p)
    /\ Flush(k, sessions'[k].info, sessions')

(* pruneMailboxMessages, from the sweep or any handler that looks: the     *)
(* oldest mail is a day old.                                               *)
ExpireMail ==
    /\ "mail" \in Forgets
    /\ mailbox # <<>>
    /\ mailbox' = Tail(mailbox)
    /\ routes' = DropRoutes({Head(mailbox).msg})
    /\ records' = FailRecords({Head(mailbox).msg}, "E_DELIVERY_EXPIRED")
    /\ KeepRegistry
    /\ UNCHANGED <<asks, askFiles, tries, handed, withdrawn>>

(* The retention of a record, a route or an ask runs out (or, for records  *)
(* and routes, newer ones displace it).                                    *)
Expire(m) ==
    /\ KeepRegistry
    /\ UNCHANGED <<mailbox, tries, handed, withdrawn>>
    /\ \/ /\ "records" \in Forgets /\ records[m] # None
          /\ records' = [records EXCEPT ![m] = None]
          /\ UNCHANGED <<routes, asks, askFiles>>
       \/ /\ "routes" \in Forgets /\ routes[m] # None
          /\ routes' = [routes EXCEPT ![m] = None]
          /\ UNCHANGED <<records, asks, askFiles>>
       \/ /\ "asks" \in Forgets /\ (asks[m] # None \/ m \in askFiles)
          /\ asks' = [asks EXCEPT ![m] = None]
          /\ askFiles' = askFiles \ {m}
          /\ UNCHANGED <<records, routes>>

-----------------------------------------------------------------------------
(* cancel_message and cancel_ask: withdrawMessage *)

(* Mutant: the edge goes, the file stays.                                  *)
ClearAskOnly(m) == asks' = [asks EXCEPT ![m] = None] /\ UNCHANGED askFiles

ClearAsk(m) ==
    /\ asks' = [asks EXCEPT ![m] = None]
    /\ askFiles' = IF asks[m] # None THEN askFiles \ {m} ELSE askFiles

FirstCopy(m) == CHOOSE i \in 1..Len(mailbox) :
                    /\ mailbox[i].msg = m
                    /\ \A j \in 1..(i - 1) : mailbox[j].msg # m
WithoutCopy(i) == SubSeq(mailbox, 1, i - 1) \o SubSeq(mailbox, i + 1, Len(mailbox))

Cancelled(r, how) == IF r = None THEN None ELSE [r EXCEPT !.cancelled = how]

Withdraw(s, m) ==
    /\ Speaks(s, m)
    /\ records[m] # None => records[m].cancelled = None
    /\ KeepRegistry
    /\ ClearAsk(m)
    /\ \/ /\ InMail(m)
          /\ mailbox' = WithoutCopy(FirstCopy(m))
          /\ records' = [records EXCEPT ![m] =
                Cancelled(Updated(@, "failed", "E_DELIVERY_CANCELLED"), "removed_from_mailbox")]
          /\ withdrawn' = withdrawn \union {m}
       \/ /\ ~InMail(m)
          /\ records[m] # None /\ records[m].state = "failed" /\ routes[m] = None
          /\ records' = [records EXCEPT ![m] = Cancelled(@, "not_delivered")]
          /\ UNCHANGED <<mailbox, withdrawn>>
       \/ /\ ~InMail(m) /\ routes[m] \in Live
          /\ records' = [records EXCEPT ![m] = Cancelled(@, "withdrawal_requested")]
          /\ UNCHANGED <<mailbox, withdrawn>>
       \/ /\ ~InMail(m) /\ routes[m] \notin Live
          /\ ~(records[m] # None /\ records[m].state = "failed" /\ routes[m] = None)
          /\ UNCHANGED <<mailbox, records, withdrawn>>
    /\ UNCHANGED <<routes, tries, handed>>

-----------------------------------------------------------------------------
ConnectionStep ==
    /\ UNCHANGED mailVars
    /\ \/ \E s \in Sockets :
             \/ Connect(s) \/ RegistrationTimeout(s) \/ Destroy(s) \/ Close(s)
             \/ Unregister(s)
             \/ \E k \in Keys : RefuseRegister(s, k)
             \/ \E p \in Profiles : Presence(s, p)
       \/ \E k \in Keys : ForgetDisconnected(k)

MailStep ==
    \/ \E s \in Sockets, k \in Keys, p \in Profiles : RegisterAndFlush(s, k, p)
    \/ \E s \in Sockets, m \in Msgs :
          \/ \E token \in Tokens, idOnly \in BOOLEAN : Send(s, m, token, idOnly)
          \/ \E k \in Keys : \E epoch \in 1..epochs[k] : SendPinned(s, m, k, epoch)
          \/ Withdraw(s, m)
    \/ ExpireMail
    \/ \E m \in Msgs : Expire(m)

BrokerNext == ConnectionStep \/ MailStep

BrokerSpec == BrokerInit /\ [][BrokerNext]_brokerVars

-----------------------------------------------------------------------------
(* Properties *)

NewlyHanded(m, k) == handed'[m][k] > handed[m][k]
Accepted(m) == InMail(m) \/ \E k \in Keys : handed[m][k] > 0

(* A message only reaches a session of its author's scope that the author  *)
(* may see: now for a live author, by the accepted snapshot for mail.      *)
HandedOnlyToVisible ==
    [][\A m \in Msgs, k \in Keys : NewlyHanded(m, k) =>
          /\ SameScope(k, Author(m))
          /\ \/ /\ Author(m) \in Live
                /\ CanSee(sessions[Author(m)].info, sessions'[k].info)
             \/ \E i \in 1..Len(mailbox) : /\ mailbox[i].msg = m
                                           /\ CanSee(mailbox[i].from, sessions'[k].info)
      ]_brokerVars

(* While its record is kept, a message is written to a session at most     *)
(* once, over retries by any address, takeovers and mailbox flushes.       *)
AtMostOnce ==
    \A m \in Msgs, j, k \in Keys :
        handed[m][j] > 0 /\ handed[m][k] > 0 => j = k /\ handed[m][k] = 1

(* The author's record says "queued" of exactly the mail that is queued,   *)
(* and of one copy of it.                                                  *)
RecordsMatchMailbox ==
    /\ \A m \in Msgs : InMail(m) <=> records[m] # None /\ records[m].state = "queued"
    /\ \A i, j \in 1..Len(mailbox) : mailbox[i].msg = mailbox[j].msg => i = j

(* A reply is only accepted from someone who was handed what it answers.   *)
RepliesAnswerWhatArrived ==
    \A m \in Msgs : LET r == Letter[m].replyTo IN
        Accepted(m) /\ r # None => handed[r][Author(m)] > 0

(* Every pending ask on the books has its file and every file its ask, at  *)
(* whatever write a send fails.                                            *)
AskFilesMatchEdges ==
    /\ askFiles = {m \in Msgs : asks[m] # None}
    /\ \A m \in askFiles : Letter[m].asks

(* An ask whose final answer was accepted and recorded is not pending, and *)
(* no retry of it makes it pending again.                                  *)
AnsweredAsksStayClosed ==
    \A m \in Msgs : LET r == Letter[m].replyTo IN
        /\ records[m] # None /\ records[m].state # "failed"
        /\ Letter[m].completes /\ r # None
        => asks[r] = None

(* Mail whose removal from the mailbox was confirmed never arrives.        *)
RemovedMailNeverArrives ==
    \A m \in withdrawn : ~Accepted(m)

(* Verdicts are final: the broker implements MailService.                  *)
Fate == [m \in Msgs |->
    CASE \E k \in Keys : handed[m][k] > 0 -> "handed"
      [] InMail(m) -> "queued"
      [] records[m] # None /\ records[m].state = "failed"
            /\ records[m].code # "E_TARGET_REBOUND" -> "refused"
      [] OTHER -> "open"]
Service == INSTANCE MailService WITH
    fate <- Fate, remembered <- {m \in Msgs : records[m] # None}
MailServiceRefined == Service!Spec
=============================================================================
