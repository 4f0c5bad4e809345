----------------------------- MODULE ParleyClient -----------------------------
(***************************************************************************)
(* The sending side of ParleyClient: one message whose call and retries    *)
(* travel over a connection that may fail, fall silent and be replaced,    *)
(* with its pending tables, its timers, its liveness probe and its one     *)
(* re-resolution. The broker is what these see of it: who is connected     *)
(* under which name and endpoint epoch, and the message's delivery record. *)
(*                                                                         *)
(* Abstracted: other kinds of request, which share the pattern of list;    *)
(* federated targets; identifier prefixes; the mailbox, whose acceptance   *)
(* counts as arrival. A connection that fell silent carries nothing more,  *)
(* and its broker may be gone with its records.                            *)
(***************************************************************************)
EXTENDS Naturals, Sequences

CONSTANTS
    Targets,          \* sessions the message may be meant for
    Kinds,            \* ways to address: "name", "identity", "reply", "snapshot"
    Retries,          \* bound: <<way of a call, way of its retry>>
    MaxCalls,         \* bound: calls with the message, the first and its retries
    MaxMoves,         \* bound: arrivals, departures and renames of targets
    MaxFaults,        \* bound: connections that fail or fall silent
    None

ASSUME ClientAssumption ==
    /\ Targets # {}
    /\ None \notin Targets \union {"failed", "delivered", "E_TARGET_REBOUND",
                                   "E_TARGET_NOT_FOUND", "E_MESSAGE_ID_REUSE"}
    /\ Kinds \subseteq {"name", "identity", "reply", "snapshot"}
    /\ Retries \subseteq Kinds \X Kinds
    /\ MaxCalls \in Nat \ {0} /\ MaxMoves \in Nat /\ MaxFaults \in Nat

VARIABLES
    \* the client
    link,             \* "down", "open", "mute" (half-open), "destroyed"
    call,             \* [1..MaxCalls -> a call of send or sendToSession]
    sending,          \* pendingSends: the call that waits for the message id, 0: none
    probe,            \* livenessInFlight and its list request
    \* the connection
    up, down,         \* frames on their way, in order
    stray,            \* frames of a closed connection that may still be read
    \* the broker
    live, epoch,      \* sessions connected, and their endpoint epochs
    named,            \* the session that has the name in use
    record,           \* delivery record of the message, or None
    \* history
    arrived,          \* what was accepted: [call, target, epoch]
    moves, faults

clientVars == <<link, call, sending, probe>>
wireVars == <<up, down, stray>>
rosterVars == <<live, epoch, named, moves>>
brokerVars == <<rosterVars, record, arrived>>
vars == <<clientVars, wireVars, brokerVars, faults>>

Calls == 1..MaxCalls
Connected == link \in {"open", "mute"}
Fault == faults < MaxFaults /\ faults' = faults + 1
Move == moves < MaxMoves /\ moves' = moves + 1

(* What a send is pinned to. Epoch 0: any; no target: whoever has the name *)
Pin(t, e) == [target |-> t, epoch |-> e]
ByName == Pin(None, 0)

Idle == [stage |-> "idle", kind |-> "name", id |-> "retained", pin |-> ByName,
         attempt |-> 0, aborted |-> FALSE, verdict |-> None]

Init ==
    /\ link = "open" /\ call = [c \in Calls |-> Idle] /\ sending = 0
    /\ probe = "idle" /\ up = <<>> /\ down = <<>> /\ stray = <<>>
    /\ live = Targets /\ epoch = [t \in Targets |-> 1]
    /\ named = (CHOOSE t \in Targets : TRUE) /\ record = None
    /\ arrived = {} /\ moves = 0 /\ faults = 0

-----------------------------------------------------------------------------
(* Calls *)

(* A frame on a connection that fell silent is lost.                       *)
Written(frame) == IF link = "open" THEN Append(up, frame) ELSE up

Settled(k, verdict) == [k EXCEPT !.stage = "done", !.verdict = verdict]

(* failedBeforeSend: nothing of this call was written, which says nothing  *)
(* of an earlier call with the same id.                                    *)
FailedBeforeSend(k) == Settled(k, IF k.id = "fresh" THEN "failed" ELSE "unknown")

End(c, k) ==
    /\ call' = [call EXCEPT ![c] = k] /\ UNCHANGED <<sending, up>>

(* sendOnce *)
SendOnce(c, k, pin) ==
    IF k.aborted THEN End(c, FailedBeforeSend(k))
    ELSE IF sending # 0 THEN End(c, Settled(k, "unknown"))
    ELSE /\ call' = [call EXCEPT ![c] =
                       [k EXCEPT !.stage = "sent", !.attempt = @ + 1]]
         /\ sending' = c
         /\ up' = Written([type |-> "send", call |-> c, pin |-> pin])

(* resolveTarget, up to its listSessions.                                  *)
List(c, k) ==
    IF Connected
    THEN /\ call' = [call EXCEPT ![c] = [k EXCEPT !.stage = "listing"]]
         /\ up' = Written([type |-> "list", call |-> c])
         /\ UNCHANGED sending
    ELSE End(c, FailedBeforeSend(k))

(* send and sendToSession. The caller learns a fresh id with the result,   *)
(* so a retry follows it; an id it chose itself it may use at any time.    *)
Start(c, kind, pin, id) ==
    LET k == [Idle EXCEPT !.kind = kind, !.pin = pin, !.id = id] IN
    /\ call[c].stage = "idle"
    /\ c > 1 => /\ id = "retained" /\ call[c - 1].stage # "idle"
                /\ <<call[c - 1].kind, kind>> \in Retries
    /\ \A d \in Calls : call[d].id = "fresh" => call[d].stage = "done"
    /\ IF ~Connected THEN End(c, FailedBeforeSend(k))
       ELSE IF kind \in {"snapshot", "reply"} THEN SendOnce(c, k, pin)
       ELSE List(c, k)
    /\ UNCHANGED <<link, probe, down, stray, brokerVars, faults>>

Abort(c) ==
    /\ call[c].stage \in {"listing", "sent"} /\ ~call[c].aborted
    /\ call' = [call EXCEPT ![c].aborted = TRUE]
    /\ UNCHANGED <<link, sending, probe, wireVars, brokerVars, faults>>

ListTimesOut(c) ==
    /\ call[c].stage = "listing"
    /\ End(c, FailedBeforeSend(call[c]))
    /\ UNCHANGED <<link, probe, down, stray, brokerVars, faults>>

(* Mutant: no answer in time counts as not sent.                           *)
SendTimesOutFailed(c) ==
    /\ sending = c
    /\ sending' = 0 /\ call' = [call EXCEPT ![c] = Settled(@, "failed")]
    /\ UNCHANGED <<link, probe, wireVars, brokerVars, faults>>

SendTimesOut(c) ==
    /\ sending = c
    /\ sending' = 0 /\ call' = [call EXCEPT ![c] = Settled(@, "unknown")]
    /\ UNCHANGED <<link, probe, wireVars, brokerVars, faults>>

-----------------------------------------------------------------------------
(* Frames from the broker *)

Received(type) == link = "open" /\ down # <<>> /\ Head(down).type = type

(* The roster row that a name or an exact identity resolves to.            *)
Resolved(k, roster) ==
    {t \in DOMAIN roster :
        t = IF k.pin.target = None THEN Head(down).named ELSE k.pin.target}

(* What follows a roster: the first attempt, or the only one after a       *)
(* rebound.                                                                *)
HandleSessions ==
    /\ Received("sessions") /\ down' = Tail(down)
    /\ LET c == Head(down).call
           k == call[c]
           roster == Head(down).roster
           found == Resolved(k, roster) IN
       IF k.stage # "listing" THEN UNCHANGED <<call, sending, up>>
       ELSE IF k.aborted THEN End(c, FailedBeforeSend(k))
       ELSE \/ \E t \in found : SendOnce(c, k, Pin(t, roster[t]))
            \/ found = {} /\ k.attempt = 0 /\ SendOnce(c, k, k.pin)
            \/ found = {} /\ k.attempt = 1 /\ End(c, Settled(k, "failed"))
    /\ UNCHANGED <<link, probe, stray, brokerVars, faults>>

(* Mutant: snapshots are resolved again, too.                              *)
AgainAlways(k, code) ==
    code = "E_TARGET_REBOUND" /\ k.attempt = 1 /\ ~k.aborted

(* A call that resolved its target itself may resolve it once more.        *)
Again(k, code) ==
    /\ code = "E_TARGET_REBOUND" /\ k.attempt = 1 /\ ~k.aborted
    /\ k.kind \in {"name", "identity"}

(* takePendingDelivery: an answer settles the send that waits for its      *)
(* message id, whichever attempt it answers.                               *)
HandleAnswer ==
    /\ Received("answer") /\ down' = Tail(down)
    /\ LET code == Head(down).code
           k == call[sending] IN
       IF sending = 0 THEN UNCHANGED <<call, sending, up>>
       ELSE /\ sending' = 0
            /\ IF Again(k, code)
               THEN /\ call' = [call EXCEPT ![sending].stage = "listing"]
                    /\ up' = Written([type |-> "list", call |-> sending])
               ELSE /\ call' = [call EXCEPT ![sending] =
                              Settled(k, IF code = None THEN "delivered" ELSE "failed")]
                    /\ UNCHANGED up
    /\ UNCHANGED <<link, probe, stray, brokerVars, faults>>

-----------------------------------------------------------------------------
(* The connection *)

(* runLivenessProbe *)
Probe ==
    /\ Connected /\ probe = "idle"
    /\ probe' = "asked" /\ up' = Written([type |-> "probe"])
    /\ UNCHANGED <<link, call, sending, down, stray, brokerVars, faults>>

(* Mutant: the probe stays in flight after its answer.                     *)
ProbeAnsweredForGood ==
    /\ Received("alive") /\ down' = Tail(down)
    /\ probe' = "answered"
    /\ UNCHANGED <<link, call, sending, up, stray, brokerVars, faults>>

ProbeAnswered ==
    /\ Received("alive") /\ down' = Tail(down)
    /\ probe' = "idle"
    /\ UNCHANGED <<link, call, sending, up, stray, brokerVars, faults>>

(* socket.destroy: nothing more is read here, what was written may be read *)
(* there.                                                                  *)
Destroy ==
    /\ link' = "destroyed" /\ stray' = up /\ up' = <<>> /\ down' = <<>>

ProbeTimesOut ==
    /\ Connected /\ probe = "asked"
    /\ probe' = "idle" /\ Destroy
    /\ IF link = "open" THEN Fault ELSE UNCHANGED faults
    /\ UNCHANGED <<call, sending, brokerVars>>

(* A socket error, or a protocol error.                                    *)
SocketFails ==
    /\ Connected /\ Fault /\ Destroy
    /\ UNCHANGED <<call, sending, probe, brokerVars>>

(* The other end is cut off or gone, and no close event comes.             *)
FallSilent ==
    /\ link = "open" /\ Fault
    /\ link' = "mute" /\ up' = <<>> /\ down' = <<>>
    /\ record' \in {record, None}
    /\ UNCHANGED <<call, sending, probe, stray, rosterVars, arrived>>

(* failPending *)
FailPending ==
    call' = [c \in Calls |->
        IF call[c].stage = "listing" THEN FailedBeforeSend(call[c])
        ELSE IF call[c].stage = "sent" THEN Settled(call[c], "unknown")
        ELSE call[c]]

OnClose ==
    /\ link = "destroyed" /\ link' = "down"
    /\ FailPending /\ sending' = 0 /\ probe' = "idle"
    /\ UNCHANGED <<wireVars, brokerVars, faults>>

(* A new client registers; the broker is done with the old connection.     *)
Reconnect ==
    /\ link = "down" /\ link' = "open" /\ stray' = <<>>
    /\ UNCHANGED <<call, sending, probe, up, down, brokerVars, faults>>

-----------------------------------------------------------------------------
(* The broker *)

Roster == [t \in live |-> epoch[t]]

(* The answer to a send, with the record and arrivals it leaves.           *)
Answered(code, rec, acc) ==
    /\ record' = rec /\ arrived' = acc
    /\ down' = IF link = "open"
               THEN Append(down, [type |-> "answer", code |-> code]) ELSE down

Replayed == record # None /\ ~(record.code = "E_TARGET_REBOUND")

HandleSend(frame) ==
    LET p == frame.pin
        t == IF p.target = None THEN named ELSE p.target
        failed(code) == Answered(code, [target |-> t, code |-> code], arrived)
        accepted(e) == Answered(None, [target |-> t, code |-> None],
            arrived \union {[call |-> frame.call, target |-> t, epoch |-> e]}) IN
    IF record # None /\ record.target # t
    THEN Answered("E_MESSAGE_ID_REUSE", record, arrived)
    ELSE IF Replayed THEN Answered(record.code, record, arrived)
    ELSE IF p.epoch = 0 THEN accepted(IF t \in live THEN epoch[t] ELSE 0)
    ELSE IF t \notin live THEN failed("E_TARGET_NOT_FOUND")
    ELSE IF epoch[t] # p.epoch THEN failed("E_TARGET_REBOUND")
    ELSE accepted(p.epoch)

HandleFrame ==
    /\ link = "open" /\ up # <<>> /\ up' = Tail(up)
    /\ LET frame == Head(up) IN
       \/ /\ frame.type = "list"
          /\ down' = Append(down, [type |-> "sessions", call |-> frame.call,
                                   roster |-> Roster, named |-> named])
          /\ UNCHANGED <<record, arrived>>
       \/ /\ frame.type = "probe" /\ down' = Append(down, [type |-> "alive"])
          /\ UNCHANGED <<record, arrived>>
       \/ frame.type = "send" /\ HandleSend(frame)
    /\ UNCHANGED <<clientVars, stray, rosterVars, faults>>

(* The broker reads what was written before it sees the close.             *)
HandleStray ==
    /\ link # "open" /\ stray # <<>> /\ stray' = Tail(stray)
    /\ IF Head(stray).type = "send" THEN HandleSend(Head(stray))
       ELSE UNCHANGED <<down, record, arrived>>
    /\ UNCHANGED <<clientVars, up, rosterVars, faults>>

(* register, also as a takeover                                            *)
TargetRegisters(t) ==
    /\ Move
    /\ epoch' = [epoch EXCEPT ![t] = @ + 1] /\ live' = live \union {t}
    /\ UNCHANGED <<clientVars, wireVars, named, record, arrived, faults>>

TargetLeaves(t) ==
    /\ t \in live /\ Move /\ live' = live \ {t}
    /\ UNCHANGED <<clientVars, wireVars, epoch, named, record, arrived, faults>>

(* presence: the name goes to another session.                             *)
NameMoves(t) ==
    /\ named # t /\ Move /\ named' = t
    /\ UNCHANGED <<clientVars, wireVars, live, epoch, record, arrived, faults>>

-----------------------------------------------------------------------------
Pins(kind) ==
    IF kind = "snapshot" THEN {Pin(t, epoch[t]) : t \in live}
    ELSE IF kind = "identity" THEN {Pin(t, 0) : t \in Targets}
    ELSE {ByName}

StartSome(c) ==
    \E kind \in Kinds, id \in {"fresh", "retained"} :
        \E pin \in Pins(kind) : Start(c, kind, pin, id)

ClientNext ==
    \/ \E c \in Calls :
          StartSome(c) \/ Abort(c) \/ ListTimesOut(c) \/ SendTimesOut(c)
    \/ HandleSessions \/ HandleAnswer
    \/ Probe \/ ProbeAnswered \/ ProbeTimesOut
    \/ SocketFails \/ FallSilent \/ OnClose \/ Reconnect
    \/ HandleFrame \/ HandleStray
    \/ \E t \in Targets : TargetRegisters(t) \/ TargetLeaves(t) \/ NameMoves(t)

ClientSpec == Init /\ [][ClientNext]_vars

(* The heartbeat's interval and the list's timer fire, whatever the        *)
(* connection does; frames and calls may take any time.                    *)
ClientFairness == WF_vars(Probe) /\ WF_vars(ProbeTimesOut)
FairClientSpec == ClientSpec /\ ClientFairness

-----------------------------------------------------------------------------
(* Properties *)

(* A call that ends as failed with a known outcome, and was the first with *)
(* its id, never reaches anybody, whatever answers, timers, closes and     *)
(* cancellations met: failedBeforeSend against what was already written.   *)
(* A later call with the id may be settled by a late answer to the first.  *)
KnownFailureIsTrue ==
    \A c \in Calls : call[c].id = "fresh" /\ call[c].verdict = "failed" =>
        \A a \in arrived : a.call # c

(* A call that ends as delivered is of a message that arrived: an answer   *)
(* that settles the call of its message id, late as it may be, after       *)
(* timeouts, retries and a broker that forgot its records, tells of an     *)
(* arrival. The first call with its id is told of its own.                 *)
KnownDeliveryIsTrue ==
    \A c \in Calls : call[c].verdict = "delivered" =>
        \E a \in arrived : call[c].id = "fresh" => a.call = c

(* What a call tells its caller for certain is so.                         *)
KnownOutcomesAreTrue == KnownFailureIsTrue /\ KnownDeliveryIsTrue

(* A call pinned to a roster snapshot reaches that endpoint or nobody, and *)
(* an exact identity never another session: no re-resolution, rename or    *)
(* takeover while the call is under way redirects it.                      *)
PinnedCallsStayExact ==
    \A a \in arrived :
        LET k == call[a.call] IN
        /\ k.kind = "snapshot" => a.target = k.pin.target /\ a.epoch = k.pin.epoch
        /\ k.kind = "identity" => a.target = k.pin.target

(* A half-open connection does not stay: the heartbeat notices, whatever   *)
(* was pending when the other end fell silent.                             *)
HalfOpenIsNoticed == link = "mute" ~> link # "mute"
=============================================================================
