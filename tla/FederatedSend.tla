---------------------------- MODULE FederatedSend ----------------------------
(***************************************************************************)
(* A routed send from a session of one broker (the origin) to a session of *)
(* another (the destination), in one direction: the origin's pending table,*)
(* delivery records and dispatch journal, the link with its requests and   *)
(* results, the destination's dedup table and dispatch journal.            *)
(*                                                                         *)
(* A caller's instruction has a scalar id. Preflight turns it into a       *)
(* handle of the author's present incarnation (its life) for one endpoint  *)
(* of the destination, and the journal binds the two. Peers that know      *)
(* conversations take handles, other peers take scalars. Every handler is  *)
(* one step; a broker may die in it while it appends to its journal.       *)
(*                                                                         *)
(* The origin's journal appears as what a reader of it finds (barred and   *)
(* bound); DispatchJournal models the file. Its capacity, the limits of    *)
(* the tables and the replies within a conversation are left out.          *)
(***************************************************************************)
EXTENDS Naturals, Sequences

CONSTANTS
    Scalars, Handles, \* ids: of callers, and authored ones
    ScalarOf,         \* [Handles -> Scalars]: the nonce of a handle
    LifeOf,           \* [Handles -> Nat]: the author incarnation in it
    MaxSends,         \* bound: attempts, each with a transport id (sendId)
    MaxLives,         \* bound: incarnations of the author
    MaxTargets,       \* bound: incarnations of the target session
    MaxFaults,        \* bound: failing appends, requests a peer repeats
    None

Ids == Scalars \cup Handles
Sends == 1..MaxSends
Operation(m) == IF m \in Handles THEN ScalarOf[m] ELSE m

ASSUME SendAssumption ==
    /\ Scalars \cap Handles = {} /\ None \notin Ids
    /\ ScalarOf \in [Handles -> Scalars]
    /\ LifeOf \in [Handles -> Nat]
    /\ \A g, h \in Handles :
          ScalarOf[g] = ScalarOf[h] /\ LifeOf[g] = LifeOf[h] => g = h
    /\ MaxSends \in Nat /\ MaxLives \in Nat
    /\ MaxTargets \in Nat \ {0} /\ MaxFaults \in Nat

Frames == [msg : Ids, pin : 0..MaxTargets]
NoFrame == [msg |-> None, pin |-> 0]
Codes == {"ok", "duplicate", "refused", "rebound"}
Answers == [send : Sends, code : Codes]

VARIABLES
    \* the origin
    life,             \* the author's incarnation
    olink,            \* the origin has the link
    imported,         \* the target's incarnation in its roster; 0: no row
    speaks,           \* the row's federation.conversation
    prepared,         \* [Handles -> incarnation it was prepared for, or 0]
    record,           \* deliveryRecords, by id
    inFlight,         \* federationInFlightMessageIds
    pending,          \* federationPendingSends
    journal,          \* "open", "closed" (admission only) or "failed"
    torn,             \* the journal's file ends in an incomplete append
    barred,           \* ids whose disposition is "unknown"
    bound,            \* handles associated with their scalar
    \* the link
    requests, results,
    \* the destination
    dlink,            \* the destination has the link
    target, present,  \* the target's incarnation; whether it is connected
    seen,             \* federationSendDedup of the link
    accepted,         \* ids that its own dispatch journal bars
    admits,           \* its journal takes new ids
    \* history
    frame,            \* [Sends -> the request written for an attempt]
    verdict,          \* [Sends -> what the origin made of it]
    reached,          \* [Sends -> the incarnation it was written to, or 0]
    faults

originVars == <<life, olink, imported, speaks, prepared, record, inFlight, pending>>
ledgerVars == <<journal, torn, barred, bound>>
destVars == <<dlink, target, present, seen, accepted, admits>>
sendVars == <<originVars, ledgerVars, requests, results, destVars,
              frame, verdict, reached, faults>>

SendTypeOK ==
    /\ life \in Nat /\ olink \in BOOLEAN
    /\ imported \in 0..MaxTargets /\ speaks \in BOOLEAN
    /\ prepared \in [Handles -> 0..MaxTargets]
    /\ record \in [Ids -> {"none", "unknown", "failed", "rebound", "delivered"}]
    /\ inFlight \subseteq Ids /\ pending \subseteq Sends
    /\ journal \in {"open", "closed", "failed"} /\ torn \in BOOLEAN
    /\ barred \subseteq Ids /\ bound \subseteq Handles
    /\ requests \in Seq(Sends) /\ results \in Seq(Answers)
    /\ dlink \in BOOLEAN /\ target \in 1..MaxTargets /\ present \in BOOLEAN
    /\ seen \subseteq Sends /\ accepted \subseteq Ids /\ admits \in BOOLEAN
    /\ frame \in [Sends -> Frames \cup {NoFrame}]
    /\ verdict \in [Sends -> {"none", "open", "delivered", "failed", "unknown"}]
    /\ reached \in [Sends -> 0..MaxTargets]
    /\ faults \in Nat

SendInit ==
    /\ life = 1 /\ olink = FALSE /\ imported = 0 /\ speaks = TRUE
    /\ prepared = [h \in Handles |-> 0]
    /\ record = [m \in Ids |-> "none"]
    /\ inFlight = {} /\ pending = {}
    /\ journal = "open" /\ torn = FALSE /\ barred = {} /\ bound = {}
    /\ requests = <<>> /\ results = <<>>
    /\ dlink = FALSE /\ target = 1 /\ present = TRUE
    /\ seen = {} /\ accepted = {} /\ admits = TRUE
    /\ frame = [n \in Sends |-> NoFrame]
    /\ verdict = [n \in Sends |-> "none"]
    /\ reached = [n \in Sends |-> 0]
    /\ faults = 0

-----------------------------------------------------------------------------
(* The origin's journal *)

(* Mutant: only the id that was sent is barred.                            *)
KeysOfOneId(m) == {m}

(* dispatchKeys: an id, and the scalar it is associated with.              *)
Keys(m) == {m} \cup {ScalarOf[h] : h \in {m} \cap bound}
Group(m) == IF m \in bound THEN ScalarOf[m] ELSE m
HasDispatched(m) == Keys(m) \cap barred # {}

(* One synced append that leaves b barred and d associated.                *)
Appended(b, d) ==
    /\ barred' = b /\ bound' = d
    /\ UNCHANGED <<journal, torn, faults>>

(* What the file may hold of an append that did not return.                *)
Remains(b, d) ==
    \/ torn' = TRUE /\ UNCHANGED <<barred, bound>>
    \/ torn' = FALSE /\ \/ UNCHANGED <<barred, bound>>
                        \/ barred' = b /\ bound' = d

AppendFails(b, d) ==
    /\ faults < MaxFaults /\ faults' = faults + 1
    /\ journal' = "failed"
    /\ Remains(b, d)

(* The origin dies and starts again: its tables are empty, the link is     *)
(* gone, the journal is read. What was prepared before is out of reach,    *)
(* since its author does not come back.                                    *)
StartAgain(refused) ==
    /\ life < MaxLives /\ life' = life + 1
    /\ journal' = IF torn' THEN "closed" ELSE "open"
    /\ olink' = FALSE /\ imported' = 0 /\ results' = <<>>
    /\ pending' = {} /\ inFlight' = {}
    /\ record' = [m \in Ids |-> "none"]
    /\ verdict' = [n \in Sends |-> IF n \in refused THEN "failed"
                                   ELSE IF n \in pending THEN "unknown" ELSE verdict[n]]
    /\ UNCHANGED <<speaks, prepared, requests, destVars, frame, reached, faults>>

DieIn(b, d) == Remains(b, d) /\ StartAgain({})
Die == UNCHANGED <<torn, barred, bound>> /\ StartAgain({})

(* The author's session registers anew and gets another endpoint epoch.    *)
Reincarnate ==
    /\ life < MaxLives /\ life' = life + 1
    /\ UNCHANGED <<olink, imported, speaks, prepared, record, inFlight, pending,
                   ledgerVars, requests, results, destVars, frame, verdict,
                   reached, faults>>

-----------------------------------------------------------------------------
(* Preflight: a scalar becomes a handle for the endpoint in the roster.    *)

Convertible(s) ==
    /\ record[s] \notin {"unknown", "delivered"}
    /\ journal # "failed" /\ ~HasDispatched(s)

Prepare(h) ==
    /\ LifeOf[h] = life
    /\ olink /\ imported # 0 /\ speaks
    /\ Convertible(ScalarOf[h])
    /\ prepared[h] \in {0, imported}
    /\ prepared' = [prepared EXCEPT ![h] = imported]
    /\ IF h \in bound \/ journal = "closed"
       THEN UNCHANGED <<ledgerVars, faults>>
       ELSE \/ Appended(barred, bound \cup {h})
            \/ AppendFails(barred, bound \cup {h})
    /\ UNCHANGED <<life, olink, imported, speaks, record, inFlight, pending,
                   requests, results, destVars, frame, verdict, reached>>

DieInPrepare(h) ==
    /\ LifeOf[h] = life
    /\ olink /\ imported # 0 /\ speaks
    /\ Convertible(ScalarOf[h]) /\ journal = "open"
    /\ DieIn(barred, bound \cup {h})

-----------------------------------------------------------------------------
(* A local session sends *)

(* A caller has its scalars and the handles that preflight gave it; this   *)
(* one is neither in flight nor answered from a retained verdict.          *)
Fresh(m) ==
    /\ m \in Handles => prepared[m] # 0
    /\ m \notin inFlight
    /\ \/ record[m] = "rebound"
       \/ record[m] = "none" /\ journal # "failed" /\ ~HasDispatched(m)

Routable(m) ==
    /\ imported # 0
    /\ IF m \in Handles
       THEN speaks /\ LifeOf[m] = life /\ prepared[m] = imported /\ m \in bound
       ELSE ~speaks

Partners(m) == {p \in Ids \ {m} : record[p] # "none" /\ Group(p) = Group(m)}
Admissible(m) ==
    Fresh(m) /\ Routable(m) /\ \A p \in Partners(m) : record[p] # "delivered"

Reject(m) ==
    /\ Fresh(m)
    /\ ~Admissible(m) \/ journal # "open" \/ HasDispatched(m)
    /\ record' = [record EXCEPT ![m] =
            IF Admissible(m) /\ journal = "open" THEN "unknown" ELSE "failed"]
    /\ UNCHANGED <<life, olink, imported, speaks, prepared, inFlight, pending,
                   ledgerVars, requests, results, destVars, frame, verdict,
                   reached, faults>>

(* The client pinned an incarnation that the roster no longer shows.       *)
RejectStale(m) ==
    /\ Fresh(m) /\ imported > 1
    /\ record' = [record EXCEPT ![m] = "rebound"]
    /\ UNCHANGED <<life, olink, imported, speaks, prepared, inFlight, pending,
                   ledgerVars, requests, results, destVars, frame, verdict,
                   reached, faults>>

(* The barrier is on disk before the frame is written.                     *)
Dispatch(m, n, pin) ==
    /\ Admissible(m) /\ journal = "open" /\ ~HasDispatched(m)
    /\ frame[n] = NoFrame /\ \A k \in 1..(n - 1) : frame[k] # NoFrame
    /\ Appended(barred \cup Keys(m), bound)
    /\ pending' = pending \cup {n}
    /\ record' = [p \in Ids |-> IF p = m THEN "unknown"
                                ELSE IF p \in Partners(m) THEN "none" ELSE record[p]]
    /\ inFlight' = inFlight \cup {m}
    /\ frame' = [frame EXCEPT ![n] = [msg |-> m, pin |-> pin]]
    /\ verdict' = [verdict EXCEPT ![n] = "open"]
    /\ requests' = IF dlink THEN Append(requests, n) ELSE requests
    /\ UNCHANGED <<life, olink, imported, speaks, prepared, results, destVars, reached>>

DispatchFails(m) ==
    /\ Admissible(m) /\ journal = "open" /\ ~HasDispatched(m)
    /\ AppendFails(barred \cup Keys(m), bound)
    /\ record' = [record EXCEPT ![m] = "failed"]
    /\ UNCHANGED <<life, olink, imported, speaks, prepared, inFlight, pending,
                   requests, results, destVars, frame, verdict, reached>>

DieInDispatch(m) ==
    /\ Admissible(m) /\ journal = "open" /\ ~HasDispatched(m)
    /\ DieIn(barred \cup Keys(m), bound)

(* A conversation is always pinned, other text only when the client asks.  *)
Pins(m) == IF m \in Handles THEN {imported} ELSE {0, imported}

-----------------------------------------------------------------------------
(* The destination *)

Answer(n, code) ==
    results' = IF olink THEN Append(results, [send |-> n, code |-> code]) ELSE results

(* Mutant: the endpoint a request is pinned to is not compared.            *)
RefusalOfUnpinned(n) ==
    IF n \in seen THEN "duplicate"
    ELSE IF ~present \/ ~admits THEN "refused"
    ELSE IF frame[n].msg \in accepted THEN "duplicate" ELSE "none"

(* The guards of handleFederationPeerSend before its journal, in order.    *)
Refusal(n) ==
    IF n \in seen THEN "duplicate"
    ELSE IF ~present THEN "refused"
    ELSE IF frame[n].pin \notin {0, target} THEN "rebound"
    ELSE IF ~admits THEN "refused"
    ELSE IF frame[n].msg \in accepted THEN "duplicate" ELSE "none"

Requested(n) == dlink /\ requests # <<>> /\ n = Head(requests)
Taken(n) ==
    /\ requests' = Tail(requests) /\ seen' = seen \cup {n}
    /\ UNCHANGED <<originVars, ledgerVars, dlink, target, present, frame, verdict>>

Refuse(n) ==
    /\ Requested(n) /\ Refusal(n) # "none"
    /\ Taken(n) /\ Answer(n, Refusal(n))
    /\ UNCHANGED <<accepted, admits, reached, faults>>

(* Journal first, then the receiver, then the result.                      *)
Accept(n) ==
    /\ Requested(n) /\ Refusal(n) = "none"
    /\ Taken(n) /\ Answer(n, "ok")
    /\ accepted' = accepted \cup {frame[n].msg}
    /\ reached' = [reached EXCEPT ![n] = target]
    /\ UNCHANGED <<admits, faults>>

AcceptFails(n) ==
    /\ Requested(n) /\ Refusal(n) = "none"
    /\ faults < MaxFaults /\ faults' = faults + 1
    /\ Taken(n) /\ Answer(n, "refused")
    /\ accepted' \in {accepted, accepted \cup {frame[n].msg}}
    /\ admits' = FALSE
    /\ UNCHANGED reached

(* A peer that writes a request of this link once more.                    *)
Repeat(n) ==
    /\ dlink /\ n \in seen
    /\ faults < MaxFaults /\ faults' = faults + 1
    /\ requests' = Append(requests, n)
    /\ UNCHANGED <<originVars, ledgerVars, results, destVars, frame, verdict, reached>>

LoseLinkAtDestination ==
    /\ dlink' = FALSE /\ seen' = {} /\ requests' = <<>>
    /\ UNCHANGED <<originVars, ledgerVars, results, target, frame, verdict, reached, faults>>

DestinationLosesLink ==
    /\ dlink
    /\ LoseLinkAtDestination
    /\ UNCHANGED <<present, accepted, admits>>

(* The destination dies, perhaps with a request journalled but not handed  *)
(* on, perhaps in the middle of that append. A journal that failed may     *)
(* load again.                                                             *)
DestinationDies ==
    /\ present' = FALSE
    /\ LoseLinkAtDestination
    /\ \/ admits' \in {admits, TRUE} /\ UNCHANGED accepted
       \/ /\ dlink /\ requests # <<>> /\ Refusal(Head(requests)) = "none"
          /\ \/ accepted' = accepted \cup {frame[Head(requests)].msg} /\ UNCHANGED admits
             \/ admits' = FALSE /\ UNCHANGED accepted

TargetLeaves ==
    /\ present /\ present' = FALSE
    /\ UNCHANGED <<originVars, ledgerVars, requests, results, dlink, target, seen,
                   accepted, admits, frame, verdict, reached, faults>>

TargetRegisters ==
    /\ target < MaxTargets /\ target' = target + 1 /\ present' = TRUE
    /\ UNCHANGED <<originVars, ledgerVars, requests, results, dlink, seen,
                   accepted, admits, frame, verdict, reached, faults>>

-----------------------------------------------------------------------------
(* The origin learns what became of its sends *)

(* A verdict ends the attempts D: nothing of them stays in flight.         *)
Conclude(D, v, kept) ==
    /\ pending' = pending \ D
    /\ inFlight' = inFlight \ {frame[n].msg : n \in D}
    /\ record' = [m \in Ids |-> IF \E n \in D : frame[n].msg = m THEN kept ELSE record[m]]
    /\ verdict' = [n \in Sends |-> IF n \in D THEN v ELSE verdict[n]]

Resulted(r) == olink /\ results # <<>> /\ r = Head(results)

(* A result for nothing pending came too late.                             *)
IgnoreResult(r) ==
    /\ Resulted(r) /\ r.send \notin pending
    /\ results' = Tail(results)
    /\ UNCHANGED <<originVars, ledgerVars, requests, destVars, frame, verdict, reached, faults>>

Delivered(r) ==
    /\ Resulted(r) /\ r.send \in pending /\ r.code \in {"ok", "duplicate"}
    /\ results' = Tail(results)
    /\ IF r.code = "ok" THEN Conclude({r.send}, "delivered", "delivered")
                        ELSE Conclude({r.send}, "unknown", "unknown")
    /\ UNCHANGED <<life, olink, imported, speaks, prepared, ledgerVars, requests,
                   destVars, frame, reached, faults>>

NotDelivered(r) ==
    Resulted(r) /\ r.send \in pending /\ r.code \in {"refused", "rebound"}
Settles(m) == journal = "open" /\ Keys(m) \subseteq barred

(* The journal is cleared before the author hears of the failure, so that  *)
(* it may try again.                                                       *)
Settle(r) ==
    /\ NotDelivered(r) /\ Settles(frame[r.send].msg)
    /\ results' = Tail(results)
    /\ Appended(barred \ Keys(frame[r.send].msg), bound)
    /\ Conclude({r.send}, "failed", IF r.code = "rebound" THEN "rebound" ELSE "failed")
    /\ UNCHANGED <<life, olink, imported, speaks, prepared, requests, destVars,
                   frame, reached>>

SettleFails(r) ==
    /\ NotDelivered(r)
    /\ results' = Tail(results)
    /\ IF Settles(frame[r.send].msg)
       THEN AppendFails(barred \ Keys(frame[r.send].msg), bound)
       ELSE UNCHANGED <<ledgerVars, faults>>
    /\ Conclude({r.send}, "failed", "failed")
    /\ UNCHANGED <<life, olink, imported, speaks, prepared, requests, destVars,
                   frame, reached>>

DieInSettle(r) ==
    /\ NotDelivered(r) /\ Settles(frame[r.send].msg)
    /\ Remains(barred \ Keys(frame[r.send].msg), bound)
    /\ StartAgain({r.send})

(* The sweep finds a pending send past its deadline.                       *)
Expire(n) ==
    /\ n \in pending
    /\ Conclude({n}, "unknown", "unknown")
    /\ UNCHANGED <<life, olink, imported, speaks, prepared, ledgerVars, requests,
                   results, destVars, frame, reached, faults>>

OriginLosesLink ==
    /\ olink /\ olink' = FALSE
    /\ imported' = 0 /\ results' = <<>>
    /\ Conclude(pending, "unknown", "unknown")
    /\ UNCHANGED <<life, speaks, prepared, ledgerVars, requests, destVars, frame,
                   reached, faults>>

(* PeerLinks: a new link replaces what the destination still holds.        *)
Relink ==
    /\ ~olink /\ olink' = TRUE /\ dlink' = TRUE
    /\ imported' = (IF present THEN target ELSE 0) /\ speaks' \in BOOLEAN
    /\ requests' = <<>> /\ results' = <<>> /\ seen' = {}
    /\ UNCHANGED <<life, prepared, record, inFlight, pending, ledgerVars, target,
                   present, accepted, admits, frame, verdict, reached, faults>>

RosterUpdate ==
    /\ olink /\ dlink
    /\ imported' = (IF present THEN target ELSE 0) /\ imported' # imported
    /\ UNCHANGED <<life, olink, speaks, prepared, record, inFlight, pending, ledgerVars,
                   requests, results, destVars, frame, verdict, reached, faults>>

(* Records expire by age, which is longer than any attempt.                *)
ForgetRecord(m) ==
    /\ record[m] # "none" /\ m \notin inFlight
    /\ record' = [record EXCEPT ![m] = "none"]
    /\ UNCHANGED <<life, olink, imported, speaks, prepared, inFlight, pending,
                   ledgerVars, requests, results, destVars, frame, verdict,
                   reached, faults>>

-----------------------------------------------------------------------------
SendNext ==
    \/ Die \/ Reincarnate \/ OriginLosesLink \/ Relink \/ RosterUpdate
    \/ DestinationLosesLink \/ DestinationDies \/ TargetLeaves \/ TargetRegisters
    \/ \E h \in Handles : Prepare(h) \/ DieInPrepare(h)
    \/ \E m \in Ids :
          \/ Reject(m) \/ RejectStale(m) \/ DispatchFails(m) \/ DieInDispatch(m)
          \/ ForgetRecord(m)
          \/ \E n \in Sends, pin \in Pins(m) : Dispatch(m, n, pin)
    \/ \E n \in Sends : Refuse(n) \/ Accept(n) \/ AcceptFails(n) \/ Repeat(n) \/ Expire(n)
    \/ \E n \in Sends, code \in Codes :
          LET r == [send |-> n, code |-> code] IN
          \/ IgnoreResult(r) \/ Delivered(r) \/ Settle(r) \/ SettleFails(r) \/ DieInSettle(r)

SendSpec == SendInit /\ [][SendNext]_sendVars

-----------------------------------------------------------------------------
(* Properties *)

(* A message id is blocked for retries exactly while an attempt of it is   *)
(* pending: no way out of the pending table forgets the other.             *)
InFlightIsPending == inFlight = {frame[n].msg : n \in pending}

(* A conversation handle only ever reaches the incarnation of the receiver *)
(* that it was prepared for, whatever rosters, links and brokers did.      *)
HandlesKeepTheirEndpoint ==
    \A n \in Sends :
        reached[n] # 0 /\ frame[n].msg \in Handles =>
            reached[n] = prepared[frame[n].msg]

(* An operation, by whatever id and after whatever crash, is dispatched    *)
(* again only when all earlier attempts failed for certain; a delivery     *)
(* that is confirmed happened and one that is denied never does.           *)
Promise == INSTANCE PeerDispatch WITH
    Operations <- Scalars,
    operation  <- [n \in Sends |-> IF frame[n] = NoFrame THEN None
                                   ELSE Operation(frame[n].msg)],
    verdict    <- verdict,
    written    <- {n \in Sends : reached[n] # 0}
PeerDispatchRefined == Promise!Spec
===============================================================================
