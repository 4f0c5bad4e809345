------------------------- MODULE ParleyClient_proofs -------------------------
(***************************************************************************)
(* What the sending side of the client promises, for any number of calls,  *)
(* targets, registrations and failing connections: types; pinned calls     *)
(* stay exact; a failure reported as known is true of a fresh id; what is   *)
(* reported as delivered has arrived.                                      *)
(***************************************************************************)
EXTENDS ParleyClient, TLAPS

ClientKinds == {"name", "identity", "reply", "snapshot"}
AnyPin == [target : Targets \union {None}, epoch : Nat]
AnyCall ==
    [stage : {"idle", "listing", "sent", "done"}, kind : ClientKinds,
     id : {"fresh", "retained"}, pin : AnyPin, attempt : Nat,
     aborted : BOOLEAN, verdict : {None, "delivered", "failed", "unknown"}]
UpFrame ==
    [type : {"list"}, call : Calls] \union [type : {"probe"}]
        \union [type : {"send"}, call : Calls, pin : AnyPin]
Rosters == UNION {[l -> Nat \ {0}] : l \in SUBSET Targets}
DownFrame ==
    [type : {"sessions"}, call : Calls, roster : Rosters, named : Targets]
        \union [type : {"alive"}]
        \union [type : {"answer"},
                code : {None, "E_TARGET_NOT_FOUND", "E_TARGET_REBOUND",
                        "E_MESSAGE_ID_REUSE"}]
AnyRecord ==
    [target : Targets, code : {None, "E_TARGET_NOT_FOUND", "E_TARGET_REBOUND"}]

(* Tables, frames and records keep their types.                            *)
ClientTypeOK ==
    /\ link \in {"down", "open", "mute", "destroyed"}
    /\ call \in [Calls -> AnyCall] /\ sending \in 0..MaxCalls
    /\ up \in Seq(UpFrame) /\ stray \in Seq(UpFrame) /\ down \in Seq(DownFrame)
    /\ live \subseteq Targets /\ epoch \in [Targets -> Nat \ {0}]
    /\ named \in Targets /\ record \in AnyRecord \union {None}
    /\ arrived \subseteq [call : Calls, target : Targets, epoch : Nat]

(* Nothing of one kind in a sequence of frames, or at most one.            *)
No(s, type) == \A i \in 1..Len(s) : s[i].type # type
AtMostOne(s, type) ==
    \A i, j \in 1..Len(s) : s[i].type = type /\ s[j].type = type => i = j

(* A connection carries frames while it is open, and a closed one is read  *)
(* to its end before the next one opens.                                   *)
Channels ==
    /\ link # "open" => up = <<>> /\ down = <<>>
    /\ link = "open" => stray = <<>>

(* Calls: what is waited for, and how each kind of call is pinned.         *)
Well(k) ==
    /\ k.stage # "done" => k.verdict = None
    /\ k.stage = "listing" => k.kind \in {"name", "identity"}
    /\ k.kind \in {"identity", "snapshot"} => k.pin.target \in Targets
    /\ k.kind = "snapshot" => k.pin.epoch # 0

CallsFit ==
    /\ sending # 0 => call[sending].stage = "sent"
    /\ \A c \in Calls :
          /\ call[c].stage = "sent" => sending = c
          /\ call[c].stage # "idle" => Well(call[c])
          /\ call[c].stage = "idle" => call[c].id = "retained" /\ call[c].verdict = None

(* A frame is pinned as its call demands.                                  *)
Fits(c, pin) ==
    /\ call[c].stage # "idle"
    /\ call[c].kind = "snapshot" => pin = call[c].pin
    /\ call[c].kind = "identity" => pin.target = call[c].pin.target

FramesFit(s) ==
    \A i \in 1..Len(s) : s[i].type = "send" => Fits(s[i].call, s[i].pin)

ArrivalsFit == \A a \in arrived : call[a.call].stage # "idle"

(* The first call, if its id is fresh: nobody else uses the id until it is *)
(* done, so that at most one frame or answer is on its way.                *)
Fresh == call[1].id = "fresh"
Alone ==
    /\ \A c \in Calls : call[c].id = "fresh" => c = 1
    /\ call[1].stage = "idle" => \A c \in Calls : call[c].stage = "idle"
    /\ Fresh /\ call[1].stage # "done" =>
          \A c \in Calls : c # 1 => call[c].stage = "idle"

(* Before its send: nothing of the message is on its way or has arrived.   *)
Silent == No(up, "send") /\ No(stray, "send") /\ No(down, "answer") /\ arrived = {}

(* While it waits: one frame or one answer, and no refusal of what arrived.*)
Accepting(s) == \A i \in 1..Len(s) : s[i].type = "answer" => s[i].code = None
Busy ==
    /\ AtMostOne(up, "send") /\ AtMostOne(down, "answer")
    /\ No(up, "send") \/ No(down, "answer")
    /\ arrived # {} => No(up, "send") /\ Accepting(down)

(* After a failure: nothing of this call is on its way or has arrived.     *)
Nothing(s) == \A i \in 1..Len(s) : s[i].type = "send" => s[i].call # 1
Clean == Nothing(up) /\ Nothing(stray) /\ \A a \in arrived : a.call # 1

FirstCall ==
    /\ call[1].stage = "idle" \/ (Fresh /\ call[1].stage = "listing") => Silent
    /\ Fresh /\ call[1].stage = "sent" => Busy
    /\ Fresh /\ call[1].verdict = "failed" => Clean

PinInv ==
    /\ ClientTypeOK /\ CallsFit /\ FramesFit(up) /\ FramesFit(stray) /\ ArrivalsFit
    /\ PinnedCallsStayExact

FreshInv == PinInv /\ Channels /\ Alone /\ FirstCall

-----------------------------------------------------------------------------
(* Sequences of frames *)

LEMMA Pushed ==
    ASSUME NEW S, NEW s \in Seq(S), NEW x \in S
    PROVE  /\ Append(s, x) \in Seq(S)
           /\ Len(s) \in Nat
           /\ Len(Append(s, x)) = Len(s) + 1
           /\ \A i \in 1..Len(s) : Append(s, x)[i] = s[i]
           /\ Append(s, x)[Len(s) + 1] = x
  OBVIOUS

LEMMA Popped ==
    ASSUME NEW S, NEW s \in Seq(S), s # <<>>
    PROVE  /\ Head(s) \in S /\ Head(s) = s[1]
           /\ Tail(s) \in Seq(S)
           /\ Len(s) \in Nat /\ Len(s) >= 1 /\ Len(Tail(s)) = Len(s) - 1
           /\ \A i \in 1..Len(Tail(s)) : Tail(s)[i] = s[i + 1]
  OBVIOUS

(* What is written is what was there, and possibly the frame.              *)
LEMMA WrittenFrames ==
    ASSUME ClientTypeOK, NEW f \in UpFrame
    PROVE  /\ Written(f) \in Seq(UpFrame)
           /\ \A i \in 1..Len(Written(f)) :
                 \/ i \in 1..Len(up) /\ Written(f)[i] = up[i]
                 \/ i = Len(up) + 1 /\ Written(f)[i] = f
           /\ link # "open" => Written(f) = up
  <1>1. up \in Seq(UpFrame) BY DEF ClientTypeOK
  <1>2. CASE link = "open"
    <2>1. Written(f) = Append(up, f) BY <1>2 DEF Written
    <2>2. Append(up, f) \in Seq(UpFrame) BY <1>1
    <2>3. ASSUME NEW i \in 1..Len(Append(up, f))
          PROVE  \/ i \in 1..Len(up) /\ Append(up, f)[i] = up[i]
                 \/ i = Len(up) + 1 /\ Append(up, f)[i] = f
      BY <1>1
    <2> QED BY <2>1, <2>2, <2>3, <1>2
  <1>3. CASE link # "open"
    <2>1. Written(f) = up BY <1>3 DEF Written
    <2> QED BY <2>1, <1>1, <1>3
  <1> QED BY <1>2, <1>3

LEMMA RosterPins ==
    ASSUME NEW r \in Rosters, NEW t \in DOMAIN r
    PROVE  t \in Targets /\ r[t] \in Nat \ {0} /\ Pin(t, r[t]) \in AnyPin
  BY DEF Rosters, Pin, AnyPin

-----------------------------------------------------------------------------
(* Types *)

LEMMA SettledType ==
    ASSUME NEW k \in AnyCall, NEW v \in {"delivered", "failed", "unknown"}
    PROVE  Settled(k, v) \in AnyCall
  BY DEF Settled, AnyCall

LEMMA FailedType ==
    ASSUME NEW k \in AnyCall PROVE FailedBeforeSend(k) \in AnyCall
  BY SettledType DEF FailedBeforeSend

LEMMA SentType ==
    ASSUME NEW k \in AnyCall, NEW n \in Nat
    PROVE  [k EXCEPT !.stage = "sent", !.attempt = n] \in AnyCall
  BY DEF AnyCall

LEMMA SendOnceType ==
    ASSUME ClientTypeOK, NEW c \in Calls, NEW k \in AnyCall, NEW pin \in AnyPin,
           SendOnce(c, k, pin)
    PROVE  call' \in [Calls -> AnyCall] /\ sending' \in 0..MaxCalls
               /\ up' \in Seq(UpFrame)
  <1> DEFINE f == [type |-> "send", call |-> c, pin |-> pin]
             k2 == [k EXCEPT !.stage = "sent", !.attempt = @ + 1]
  <1>1. f \in UpFrame BY DEF UpFrame
  <1>2. k2 \in AnyCall
    <2>1. k.attempt + 1 \in Nat BY DEF AnyCall
    <2> QED BY <2>1, SentType
  <1>3. c \in 0..MaxCalls BY ClientAssumption DEF Calls
  <1>4. CASE k.aborted
    BY <1>4, FailedType DEF SendOnce, End, ClientTypeOK
  <1>5. CASE ~k.aborted /\ sending # 0
    BY <1>5, SettledType DEF SendOnce, End, ClientTypeOK
  <1>6. CASE ~k.aborted /\ ~(sending # 0)
    <2>1. call' = [call EXCEPT ![c] = k2] /\ sending' = c /\ up' = Written(f)
      BY <1>6 DEF SendOnce
    <2> QED BY <2>1, <1>1, <1>2, <1>3, WrittenFrames DEF ClientTypeOK
  <1> QED BY <1>4, <1>5, <1>6

LEMMA ListType ==
    ASSUME ClientTypeOK, NEW c \in Calls, NEW k \in AnyCall, List(c, k)
    PROVE  call' \in [Calls -> AnyCall] /\ sending' \in 0..MaxCalls
               /\ up' \in Seq(UpFrame)
  <1> DEFINE f == [type |-> "list", call |-> c]
  <1>1. f \in UpFrame BY DEF UpFrame
  <1>2. [k EXCEPT !.stage = "listing"] \in AnyCall BY DEF AnyCall
  <1> QED BY <1>1, <1>2, WrittenFrames, FailedType DEF List, End, ClientTypeOK

-----------------------------------------------------------------------------
(* Types, action by action *)

LEMMA CallTypes ==
    ASSUME ClientTypeOK, NEW c \in Calls,
           \/ StartSome(c) \/ Abort(c) \/ ListTimesOut(c) \/ SendTimesOut(c)
    PROVE  ClientTypeOK'
  <1>1. call[c] \in AnyCall BY DEF ClientTypeOK
  <1>2. ASSUME NEW kind \in Kinds, NEW id \in {"fresh", "retained"},
               NEW pin \in Pins(kind), Start(c, kind, pin, id)
        PROVE  ClientTypeOK'
    <2> DEFINE k == [Idle EXCEPT !.kind = kind, !.pin = pin, !.id = id]
    <2>1. pin \in AnyPin
      BY DEF Pins, Pin, ByName, AnyPin, ClientTypeOK
    <2>2. k \in AnyCall
      BY <2>1, ClientAssumption DEF Idle, AnyCall, ClientKinds
    <2>3. \/ End(c, FailedBeforeSend(k)) \/ SendOnce(c, k, pin) \/ List(c, k)
      BY <1>2 DEF Start
    <2>4. call' \in [Calls -> AnyCall] /\ sending' \in 0..MaxCalls
             /\ up' \in Seq(UpFrame)
      <3> HIDE DEF k
      <3>1. CASE End(c, FailedBeforeSend(k))
        BY <3>1, <2>2, FailedType DEF End, ClientTypeOK
      <3> QED BY <2>1, <2>2, <2>3, <3>1, SendOnceType, ListType
    <2> QED BY <1>2, <2>4 DEF Start, ClientTypeOK, brokerVars, rosterVars
  <1>3. CASE Abort(c)
    BY <1>3, <1>1 DEF Abort, ClientTypeOK, AnyCall, wireVars, brokerVars, rosterVars
  <1>4. CASE ListTimesOut(c)
    BY <1>4, <1>1, FailedType DEF ListTimesOut, End, ClientTypeOK, brokerVars, rosterVars
  <1>5. CASE SendTimesOut(c)
    <2>1. Settled(call[c], "unknown") \in AnyCall BY <1>1, SettledType
    <2>2. call' = [call EXCEPT ![c] = Settled(call[c], "unknown")] /\ sending' = 0
      BY <1>5 DEF SendTimesOut, ClientTypeOK
    <2> QED
      BY <1>5, <2>1, <2>2, ClientAssumption
      DEF SendTimesOut, ClientTypeOK, wireVars, brokerVars, rosterVars
  <1> QED BY <1>2, <1>3, <1>4, <1>5 DEF StartSome

LEMMA SessionsTypes ==
    ASSUME ClientTypeOK, HandleSessions PROVE ClientTypeOK'
  <1> DEFINE c == Head(down).call
             k == call[c]
             r == Head(down).roster
  <1>1. down \in Seq(DownFrame) /\ down # <<>> /\ Head(down).type = "sessions"
    BY DEF HandleSessions, Received, ClientTypeOK
  <1>2. Head(down) \in DownFrame /\ Tail(down) \in Seq(DownFrame)
    BY <1>1, Popped
  <1>3. c \in Calls /\ r \in Rosters BY <1>1, <1>2 DEF DownFrame
  <1>4. k \in AnyCall BY <1>3 DEF ClientTypeOK
  <1>5. k.pin \in AnyPin BY <1>4 DEF AnyCall
  <1>6. \/ UNCHANGED <<call, sending, up>>
        \/ End(c, FailedBeforeSend(k))
        \/ \E t \in DOMAIN r : SendOnce(c, k, Pin(t, r[t]))
        \/ SendOnce(c, k, k.pin)
        \/ End(c, Settled(k, "failed"))
    BY DEF HandleSessions, Resolved
  <1>7. down' = Tail(down) /\ UNCHANGED <<link, probe, stray, brokerVars, faults>>
    BY DEF HandleSessions
  <1> HIDE DEF c, k, r
  <1>8. call' \in [Calls -> AnyCall] /\ sending' \in 0..MaxCalls
           /\ up' \in Seq(UpFrame)
    <2>1. CASE UNCHANGED <<call, sending, up>> BY <2>1 DEF ClientTypeOK
    <2>2. CASE End(c, FailedBeforeSend(k))
      BY <2>2, <1>3, <1>4, FailedType DEF End, ClientTypeOK
    <2>3. CASE End(c, Settled(k, "failed"))
      BY <2>3, <1>3, <1>4, SettledType DEF End, ClientTypeOK
    <2>4. ASSUME NEW t \in DOMAIN r, SendOnce(c, k, Pin(t, r[t]))
          PROVE  call' \in [Calls -> AnyCall] /\ sending' \in 0..MaxCalls
                     /\ up' \in Seq(UpFrame)
      BY <2>4, <1>3, <1>4, RosterPins, SendOnceType
    <2>5. CASE SendOnce(c, k, k.pin)
      BY <2>5, <1>3, <1>4, <1>5, SendOnceType
    <2> QED BY <1>6, <2>1, <2>2, <2>3, <2>4, <2>5
  <1> QED BY <1>2, <1>7, <1>8 DEF ClientTypeOK, brokerVars, rosterVars

LEMMA AnswerTypes ==
    ASSUME ClientTypeOK, HandleAnswer PROVE ClientTypeOK'
  <1> DEFINE code == Head(down).code
             f == [type |-> "list", call |-> sending]
  <1>1. Tail(down) \in Seq(DownFrame)
    BY Popped DEF HandleAnswer, Received, ClientTypeOK
  <1>2. down' = Tail(down) /\ UNCHANGED <<link, probe, stray, brokerVars, faults>>
    BY DEF HandleAnswer
  <1>3. call' \in [Calls -> AnyCall] /\ sending' \in 0..MaxCalls
           /\ up' \in Seq(UpFrame)
    <2>1. CASE sending = 0 BY <2>1 DEF HandleAnswer, ClientTypeOK
    <2>2. CASE sending # 0
      <3>1. sending \in Calls BY <2>2, ClientAssumption DEF ClientTypeOK, Calls
      <3>2. call[sending] \in AnyCall BY <3>1 DEF ClientTypeOK
      <3>3. f \in UpFrame BY <3>1 DEF UpFrame
      <3>4. sending' = 0 /\ 0 \in 0..MaxCalls
        BY <2>2, ClientAssumption DEF HandleAnswer
      <3>5. CASE Again(call[sending], code)
        <4>1. call' = [call EXCEPT ![sending].stage = "listing"] /\ up' = Written(f)
          BY <2>2, <3>5 DEF HandleAnswer
        <4>2. call' \in [Calls -> AnyCall]
          BY <4>1, <3>1, <3>2 DEF ClientTypeOK, AnyCall
        <4> QED BY <4>1, <4>2, <3>3, <3>4, WrittenFrames
      <3>6. CASE ~Again(call[sending], code)
        <4> DEFINE v == IF code = None THEN "delivered" ELSE "failed"
        <4>1. call' = [call EXCEPT ![sending] = Settled(@, v)] /\ up' = up
          BY <2>2, <3>6 DEF HandleAnswer, ClientTypeOK
        <4>2. Settled(call[sending], v) \in AnyCall BY <3>2, SettledType
        <4> QED BY <4>1, <4>2, <3>1, <3>4 DEF ClientTypeOK
      <3> QED BY <3>5, <3>6
    <2> QED BY <2>1, <2>2
  <1> QED BY <1>1, <1>2, <1>3 DEF ClientTypeOK, brokerVars, rosterVars

LEMMA ConnectionTypes ==
    ASSUME ClientTypeOK,
           \/ Probe \/ ProbeAnswered \/ ProbeTimesOut
           \/ SocketFails \/ FallSilent \/ OnClose \/ Reconnect
    PROVE  ClientTypeOK'
  <1> USE DEF brokerVars, rosterVars, wireVars
  <1>1. CASE Probe
    <2>1. [type |-> "probe"] \in UpFrame BY DEF UpFrame
    <2> QED BY <1>1, <2>1, WrittenFrames DEF Probe, ClientTypeOK
  <1>2. CASE ProbeAnswered
    BY <1>2, Popped DEF ProbeAnswered, Received, ClientTypeOK
  <1>3. CASE ProbeTimesOut
    BY <1>3 DEF ProbeTimesOut, Destroy, ClientTypeOK
  <1>4. CASE SocketFails
    BY <1>4 DEF SocketFails, Destroy, ClientTypeOK
  <1>5. CASE FallSilent
    BY <1>5 DEF FallSilent, ClientTypeOK
  <1>6. CASE OnClose
    <2>1. \A c \in Calls : call[c] \in AnyCall BY DEF ClientTypeOK
    <2>2. call' \in [Calls -> AnyCall]
      BY <1>6, <2>1, FailedType, SettledType DEF OnClose, FailPending
    <2> QED BY <1>6, <2>2, ClientAssumption DEF OnClose, ClientTypeOK
  <1>7. CASE Reconnect
    BY <1>7 DEF Reconnect, ClientTypeOK
  <1> QED BY <1>1, <1>2, <1>3, <1>4, <1>5, <1>6, <1>7

LEMMA SendTypes ==
    ASSUME ClientTypeOK, NEW f \in UpFrame, f.type = "send", HandleSend(f),
           UNCHANGED <<clientVars, rosterVars>>, up' \in Seq(UpFrame),
           stray' \in Seq(UpFrame)
    PROVE  ClientTypeOK'
  <1> DEFINE p == f.pin
             t == IF p.target = None THEN named ELSE p.target
             arrival(e) == [call |-> f.call, target |-> t, epoch |-> e]
  <1>1. f.call \in Calls /\ p \in AnyPin BY DEF UpFrame
  <1>2. t \in Targets BY <1>1 DEF AnyPin, ClientTypeOK
  <1>3. p.epoch \in Nat BY <1>1 DEF AnyPin
  <1>4. ASSUME NEW code \in {None, "E_TARGET_NOT_FOUND", "E_TARGET_REBOUND",
                              "E_MESSAGE_ID_REUSE"},
               NEW rec \in AnyRecord \union {None},
               NEW acc \in SUBSET [call : Calls, target : Targets, epoch : Nat],
               Answered(code, rec, acc)
        PROVE  ClientTypeOK'
    <2>1. [type |-> "answer", code |-> code] \in DownFrame BY DEF DownFrame
    <2>2. down' \in Seq(DownFrame)
      BY <1>4, <2>1, Pushed DEF Answered, ClientTypeOK
    <2> QED BY <1>4, <2>2 DEF Answered, ClientTypeOK, clientVars, rosterVars
  <1>5. ASSUME NEW code \in {None, "E_TARGET_NOT_FOUND", "E_TARGET_REBOUND"}
        PROVE  [target |-> t, code |-> code] \in AnyRecord
    BY <1>2 DEF AnyRecord
  <1>6. ASSUME NEW e \in Nat
        PROVE  arrived \union {arrival(e)}
                   \in SUBSET [call : Calls, target : Targets, epoch : Nat]
    BY <1>1, <1>2 DEF ClientTypeOK
  <1>7. IF t \in live THEN epoch[t] \in Nat ELSE 0 \in Nat
    BY <1>2 DEF ClientTypeOK
  <1>8. arrived \in SUBSET [call : Calls, target : Targets, epoch : Nat]
           /\ record \in AnyRecord \union {None}
    BY DEF ClientTypeOK
  <1>9. \/ Answered("E_MESSAGE_ID_REUSE", record, arrived)
        \/ record \in AnyRecord /\ Answered(record.code, record, arrived)
        \/ Answered(None, [target |-> t, code |-> None],
              arrived \union {arrival(IF t \in live THEN epoch[t] ELSE 0)})
        \/ Answered("E_TARGET_NOT_FOUND",
              [target |-> t, code |-> "E_TARGET_NOT_FOUND"], arrived)
        \/ Answered("E_TARGET_REBOUND",
              [target |-> t, code |-> "E_TARGET_REBOUND"], arrived)
        \/ Answered(None, [target |-> t, code |-> None],
              arrived \union {arrival(p.epoch)})
    BY <1>8 DEF HandleSend, Replayed
  <1> HIDE DEF p, t, arrival
  <1>10. CASE record \in AnyRecord /\ Answered(record.code, record, arrived)
    BY <1>10, <1>4, <1>8 DEF AnyRecord
  <1>11. CASE Answered("E_MESSAGE_ID_REUSE", record, arrived)
    BY <1>11, <1>4, <1>8
  <1>12. CASE Answered(None, [target |-> t, code |-> None],
              arrived \union {arrival(IF t \in live THEN epoch[t] ELSE 0)})
    BY <1>12, <1>4, <1>5, <1>6, <1>7
  <1>13. CASE Answered("E_TARGET_NOT_FOUND",
              [target |-> t, code |-> "E_TARGET_NOT_FOUND"], arrived)
    BY <1>13, <1>4, <1>5, <1>8
  <1>14. CASE Answered("E_TARGET_REBOUND",
              [target |-> t, code |-> "E_TARGET_REBOUND"], arrived)
    BY <1>14, <1>4, <1>5, <1>8
  <1>15. CASE Answered(None, [target |-> t, code |-> None],
              arrived \union {arrival(p.epoch)})
    BY <1>15, <1>3, <1>4, <1>5, <1>6
  <1> QED BY <1>9, <1>10, <1>11, <1>12, <1>13, <1>14, <1>15

LEMMA FrameTypes ==
    ASSUME ClientTypeOK, HandleFrame PROVE ClientTypeOK'
  <1> DEFINE f == Head(up)
             row == [type |-> "sessions", call |-> f.call, roster |-> Roster,
                     named |-> named]
  <1>1. f \in UpFrame /\ Tail(up) \in Seq(UpFrame)
    BY Popped DEF HandleFrame, ClientTypeOK
  <1>2. up' = Tail(up) /\ UNCHANGED <<clientVars, stray, rosterVars, faults>>
    BY DEF HandleFrame
  <1>3. stray' \in Seq(UpFrame) BY <1>2 DEF ClientTypeOK
  <1>4. CASE f.type = "list" /\ down' = Append(down, row)
               /\ UNCHANGED <<record, arrived>>
    <2>1. Roster \in Rosters BY DEF Roster, Rosters, ClientTypeOK
    <2>2. row \in DownFrame
      BY <1>1, <1>4, <2>1 DEF UpFrame, DownFrame, ClientTypeOK
    <2>3. down' \in Seq(DownFrame) BY <1>4, <2>2, Pushed DEF ClientTypeOK
    <2> QED BY <1>1, <1>2, <1>4, <2>3 DEF ClientTypeOK, clientVars, rosterVars
  <1>5. CASE down' = Append(down, [type |-> "alive"]) /\ UNCHANGED <<record, arrived>>
    <2>1. [type |-> "alive"] \in DownFrame BY DEF DownFrame
    <2>2. down' \in Seq(DownFrame) BY <1>5, <2>1, Pushed DEF ClientTypeOK
    <2> QED BY <1>1, <1>2, <1>5, <2>2 DEF ClientTypeOK, clientVars, rosterVars
  <1>6. CASE f.type = "send" /\ HandleSend(f)
    BY <1>1, <1>2, <1>3, <1>6, SendTypes
  <1> QED BY <1>4, <1>5, <1>6 DEF HandleFrame

LEMMA StrayTypes ==
    ASSUME ClientTypeOK, HandleStray PROVE ClientTypeOK'
  <1> DEFINE f == Head(stray)
  <1>1. f \in UpFrame /\ Tail(stray) \in Seq(UpFrame)
    BY Popped DEF HandleStray, ClientTypeOK
  <1>2. stray' = Tail(stray) /\ UNCHANGED <<clientVars, up, rosterVars, faults>>
    BY DEF HandleStray
  <1>3. CASE f.type = "send" /\ HandleSend(f)
    <2>1. up' \in Seq(UpFrame) BY <1>2 DEF ClientTypeOK
    <2> QED BY <1>1, <1>2, <1>3, <2>1, SendTypes
  <1>4. CASE UNCHANGED <<down, record, arrived>>
    BY <1>1, <1>2, <1>4 DEF ClientTypeOK, clientVars, rosterVars
  <1> QED BY <1>3, <1>4 DEF HandleStray

LEMMA RosterTypes ==
    ASSUME ClientTypeOK, NEW t \in Targets,
           TargetRegisters(t) \/ TargetLeaves(t) \/ NameMoves(t)
    PROVE  ClientTypeOK'
  <1> USE DEF clientVars, wireVars
  <1>1. CASE TargetRegisters(t)
    <2>1. epoch[t] + 1 \in Nat \ {0} BY DEF ClientTypeOK
    <2>2. epoch' \in [Targets -> Nat \ {0}]
      BY <1>1, <2>1 DEF TargetRegisters, ClientTypeOK
    <2> QED BY <1>1, <2>2 DEF TargetRegisters, ClientTypeOK
  <1>2. CASE TargetLeaves(t) BY <1>2 DEF TargetLeaves, ClientTypeOK
  <1>3. CASE NameMoves(t) BY <1>3 DEF NameMoves, ClientTypeOK
  <1> QED BY <1>1, <1>2, <1>3

LEMMA TypeInit == Init => ClientTypeOK
  <1> SUFFICES ASSUME Init PROVE ClientTypeOK OBVIOUS
  <1>1. Idle \in AnyCall BY DEF Idle, AnyCall, ClientKinds, AnyPin, Pin, ByName
  <1>2. (CHOOSE t \in Targets : TRUE) \in Targets BY ClientAssumption
  <1> QED BY <1>1, <1>2, ClientAssumption DEF Init, ClientTypeOK

LEMMA TypeStep == ClientTypeOK /\ [ClientNext]_vars => ClientTypeOK'
  <1> SUFFICES ASSUME ClientTypeOK, [ClientNext]_vars PROVE ClientTypeOK' OBVIOUS
  <1>1. CASE UNCHANGED vars
    BY <1>1 DEF vars, clientVars, wireVars, brokerVars, rosterVars, ClientTypeOK
  <1>2. CASE ClientNext
    BY <1>2, CallTypes, SessionsTypes, AnswerTypes, ConnectionTypes, FrameTypes,
       StrayTypes, RosterTypes DEF ClientNext
  <1> QED BY <1>1, <1>2

(* Types, for any number of calls, targets and faults.                     *)
THEOREM ClientTypesHold == ClientSpec => []ClientTypeOK
  BY TypeInit, TypeStep, PTL DEF ClientSpec

-----------------------------------------------------------------------------
(* Pins *)

(* A call that was started keeps how it addresses.                         *)
Steady ==
    \A c \in Calls : call[c].stage # "idle" =>
        /\ call'[c].stage # "idle"
        /\ call'[c].kind = call[c].kind /\ call'[c].pin = call[c].pin

(* sending, when the call c becomes k.                                     *)
Waits(c, k) ==
    \/ k.stage = "sent" /\ sending = 0 /\ sending' = c
    \/ k.stage # "sent" /\ sending' = (IF sending = c THEN 0 ELSE sending)
    \/ k.stage = "sent" /\ sending = c /\ sending' = c

LEMMA CallChange ==
    ASSUME ClientTypeOK, CallsFit, NEW c \in Calls, NEW k \in AnyCall,
           call' = [call EXCEPT ![c] = k], k.stage # "idle", Well(k), Waits(c, k),
           call[c].stage = "idle" \/ (k.kind = call[c].kind /\ k.pin = call[c].pin)
    PROVE  CallsFit' /\ Steady
  <1>1. call \in [Calls -> AnyCall] BY DEF ClientTypeOK
  <1>2. call'[c] = k /\ \A d \in Calls : d # c => call'[d] = call[d] BY <1>1
  <1>3. Steady BY <1>2 DEF Steady
  <1>4. ASSUME NEW d \in Calls
        PROVE  /\ call'[d].stage # "idle" => Well(call'[d])
               /\ call'[d].stage = "idle" =>
                     call'[d].id = "retained" /\ call'[d].verdict = None
    BY <1>2 DEF CallsFit
  <1>5. ASSUME NEW d \in Calls, call'[d].stage = "sent" PROVE sending' = d
    <2>1. d # 0 BY DEF Calls
    <2>2. CASE d = c BY <2>2, <1>2, <1>5 DEF Waits
    <2>3. CASE d # c
      <3>1. sending = d BY <1>2, <1>5, <2>3 DEF CallsFit
      <3> QED BY <3>1, <2>1, <2>3 DEF Waits
    <2> QED BY <2>2, <2>3
  <1>6. ASSUME sending' # 0 PROVE call'[sending'].stage = "sent"
    <2>1. sending \in Calls \/ sending = 0
      BY ClientAssumption DEF ClientTypeOK, Calls
    <2>2. CASE sending' = c
      <3>1. c # 0 BY DEF Calls
      <3>2. k.stage = "sent" BY <2>2, <3>1 DEF Waits
      <3> QED BY <1>2, <2>2, <3>2
    <2>3. CASE sending' # c BY <1>2, <1>6, <2>1, <2>3 DEF Waits, CallsFit
    <2> QED BY <2>2, <2>3
  <1>7. CallsFit' BY <1>4, <1>5, <1>6 DEF CallsFit, Well
  <1> QED BY <1>3, <1>7

(* Frames that fit go on fitting, whichever of them remain.                *)
StillFits(c, pin) ==
    /\ call'[c].stage # "idle"
    /\ call'[c].kind = "snapshot" => pin = call'[c].pin
    /\ call'[c].kind = "identity" => pin.target = call'[c].pin.target
FramesStillFit(s) ==
    \A i \in 1..Len(s) : s[i].type = "send" => StillFits(s[i].call, s[i].pin)

LEMMA FramesKept ==
    ASSUME Steady, NEW s \in Seq(UpFrame), FramesFit(s)
    PROVE  FramesStillFit(s)
  <1> SUFFICES ASSUME NEW i \in 1..Len(s), s[i].type = "send"
               PROVE  StillFits(s[i].call, s[i].pin)
    BY DEF FramesStillFit
  <1>1. s[i] \in UpFrame OBVIOUS
  <1>2. s[i].call \in Calls BY <1>1 DEF UpFrame
  <1>3. Fits(s[i].call, s[i].pin) BY DEF FramesFit
  <1> QED BY <1>2, <1>3 DEF Fits, StillFits, Steady

(* Read the other way: what fits, when the step is done.                   *)
LEMMA FitAfter ==
    /\ FramesStillFit(up') => FramesFit(up)'
    /\ FramesStillFit(stray') => FramesFit(stray)'
  BY DEF FramesStillFit, StillFits, FramesFit, Fits

LEMMA ArrivalsKept ==
    ASSUME ClientTypeOK, Steady, ArrivalsFit, PinnedCallsStayExact, arrived' = arrived
    PROVE  ArrivalsFit' /\ PinnedCallsStayExact'
  <1>1. \A a \in arrived : a.call \in Calls BY DEF ClientTypeOK
  <1> QED BY <1>1 DEF Steady, ArrivalsFit, PinnedCallsStayExact

LEMMA RestFits ==
    ASSUME NEW s \in Seq(UpFrame), FramesStillFit(s)
    PROVE  /\ FramesStillFit(<<>>)
           /\ s # <<>> => FramesStillFit(Tail(s))
  <1>1. FramesStillFit(<<>>) BY DEF FramesStillFit
  <1>2. ASSUME s # <<>> PROVE FramesStillFit(Tail(s))
    <2>1. ASSUME NEW i \in 1..Len(Tail(s))
          PROVE  i + 1 \in 1..Len(s) /\ Tail(s)[i] = s[i + 1]
      BY <1>2, Popped
    <2> QED BY <2>1 DEF FramesStillFit
  <1> QED BY <1>1, <1>2

LEMMA WrittenFits ==
    ASSUME ClientTypeOK, FramesStillFit(up), NEW f \in UpFrame,
           f.type = "send" => StillFits(f.call, f.pin), up' = Written(f)
    PROVE  FramesFit(up)'
  <1>1. ASSUME NEW i \in 1..Len(up')
        PROVE  \/ i \in 1..Len(up) /\ up'[i] = up[i]
               \/ up'[i] = f
    BY WrittenFrames
  <1>2. FramesStillFit(up') BY <1>1 DEF FramesStillFit
  <1> QED BY <1>2, FitAfter

LEMMA SettledWell ==
    ASSUME NEW k \in AnyCall, Well(k), NEW v \in {"delivered", "failed", "unknown"}
    PROVE  /\ Well(Settled(k, v)) /\ Settled(k, v).stage = "done"
           /\ Settled(k, v).kind = k.kind /\ Settled(k, v).pin = k.pin
           /\ Settled(k, v).id = k.id /\ Settled(k, v).verdict = v
  BY DEF Settled, AnyCall, Well

LEMMA FailedWell ==
    ASSUME NEW k \in AnyCall, Well(k)
    PROVE  LET f == FailedBeforeSend(k) IN
           /\ Well(f) /\ f.stage = "done" /\ f.kind = k.kind /\ f.pin = k.pin
           /\ f.id = k.id /\ f.verdict = (IF k.id = "fresh" THEN "failed" ELSE "unknown")
  BY SettledWell DEF FailedBeforeSend

(* A call that is not waiting for an answer ends.                          *)
LEMMA EndPins ==
    ASSUME ClientTypeOK, CallsFit, FramesFit(up), NEW c \in Calls, NEW k \in AnyCall,
           End(c, k), k.stage = "done", Well(k), call[c].stage # "sent",
           call[c].stage = "idle" \/ (k.kind = call[c].kind /\ k.pin = call[c].pin)
    PROVE  CallsFit' /\ Steady /\ FramesFit(up)'
  <1>1. call' = [call EXCEPT ![c] = k] /\ sending' = sending /\ up' = up BY DEF End
  <1>2. sending # c
    <2>1. c # 0 BY DEF Calls
    <2> QED BY <2>1 DEF CallsFit
  <1>3. Waits(c, k) BY <1>1, <1>2 DEF Waits
  <1>4. CallsFit' /\ Steady BY <1>1, <1>3, CallChange
  <1>5. FramesStillFit(up) BY <1>4, FramesKept DEF ClientTypeOK
  <1> QED BY <1>1, <1>4, <1>5, FitAfter

LEMMA SendOncePins ==
    ASSUME ClientTypeOK, CallsFit, FramesFit(up), NEW c \in Calls, NEW k \in AnyCall,
           NEW pin \in AnyPin, SendOnce(c, k, pin), Well(k), k.verdict = None,
           call[c].stage # "sent", call[c].stage = "idle" \/ k = call[c],
           k.kind = "snapshot" => pin = k.pin,
           k.kind = "identity" => pin.target = k.pin.target
    PROVE  CallsFit' /\ Steady /\ FramesFit(up)'
  <1>1. CASE k.aborted
    <2>1. End(c, FailedBeforeSend(k)) BY <1>1 DEF SendOnce
    <2>2. FailedBeforeSend(k) \in AnyCall /\ Well(FailedBeforeSend(k)) BY FailedType, FailedWell
    <2> QED BY <2>1, <2>2, FailedType, FailedWell, EndPins
  <1>2. CASE ~k.aborted /\ sending # 0
    <2>1. End(c, Settled(k, "unknown")) BY <1>2 DEF SendOnce
    <2>2. Settled(k, "unknown") \in AnyCall BY SettledType
    <2> QED BY <2>1, <2>2, SettledWell, EndPins
  <1>3. CASE ~k.aborted /\ sending = 0
    <2> DEFINE k2 == [k EXCEPT !.stage = "sent", !.attempt = @ + 1]
               f == [type |-> "send", call |-> c, pin |-> pin]
    <2>1. call' = [call EXCEPT ![c] = k2] /\ sending' = c /\ up' = Written(f)
      BY <1>3 DEF SendOnce
    <2>2. k2 \in AnyCall
      <3>1. k.attempt + 1 \in Nat BY DEF AnyCall
      <3> QED BY <3>1, SentType
    <2>3. /\ k2.stage = "sent" /\ k2.kind = k.kind /\ k2.pin = k.pin
          /\ k2.verdict = None
      BY DEF AnyCall
    <2> HIDE DEF k2
    <2>4. Well(k2) /\ Waits(c, k2) BY <2>1, <2>3, <1>3 DEF Well, Waits
    <2>5. CallsFit' /\ Steady BY <2>1, <2>2, <2>3, <2>4, CallChange
    <2>6. call'[c] = k2 BY <2>1 DEF ClientTypeOK
    <2>7. StillFits(c, pin) BY <2>3, <2>6 DEF StillFits
    <2>8. f \in UpFrame /\ f.call = c /\ f.pin = pin BY DEF UpFrame
    <2>9. FramesStillFit(up) BY <2>5, FramesKept DEF ClientTypeOK
    <2> QED BY <2>1, <2>5, <2>7, <2>8, <2>9, WrittenFits
  <1> QED BY <1>1, <1>2, <1>3

(* A call turns to the list, when it starts or after a rebound.            *)
LEMMA ListingPins ==
    ASSUME ClientTypeOK, CallsFit, FramesFit(up), NEW c \in Calls, NEW k \in AnyCall,
           call' = [call EXCEPT ![c] = k], k.stage = "listing", Well(k),
           call[c].stage = "idle" \/ (k.kind = call[c].kind /\ k.pin = call[c].pin),
           up' = Written([type |-> "list", call |-> c]), Waits(c, k)
    PROVE  CallsFit' /\ Steady /\ FramesFit(up)'
  <1>1. CallsFit' /\ Steady BY CallChange
  <1>2. FramesStillFit(up) BY <1>1, FramesKept DEF ClientTypeOK
  <1>3. [type |-> "list", call |-> c] \in UpFrame BY DEF UpFrame
  <1> QED BY <1>1, <1>2, <1>3, WrittenFits

(* Pins do not change where no call does, whatever is sent or read.        *)
LEMMA SamePins ==
    ASSUME ClientTypeOK, CallsFit, UNCHANGED <<call, sending>>
    PROVE  CallsFit' /\ Steady
  BY DEF CallsFit, Steady, Well

(* What remains of a step that accepts nothing.                            *)
LEMMA PinRest ==
    ASSUME PinInv, ClientTypeOK', CallsFit' /\ Steady, FramesFit(up)',
           stray' \in {stray, up, <<>>} \/ (stray # <<>> /\ stray' = Tail(stray)),
           arrived' = arrived
    PROVE  PinInv'
  <1>1. ArrivalsFit' /\ PinnedCallsStayExact' BY ArrivalsKept DEF PinInv
  <1>2. FramesStillFit(up) /\ FramesStillFit(stray)
    BY FramesKept DEF PinInv, ClientTypeOK
  <1>3. FramesStillFit(<<>>) /\ (stray # <<>> => FramesStillFit(Tail(stray)))
    BY <1>2, RestFits DEF PinInv, ClientTypeOK
  <1>4. FramesFit(stray)'
    <2>1. FramesStillFit(stray') BY <1>2, <1>3
    <2> QED BY <2>1, FitAfter
  <1> QED BY <1>1, <1>4 DEF PinInv

LEMMA StartPins ==
    ASSUME PinInv, NEW c \in Calls, NEW kind \in Kinds,
           NEW id \in {"fresh", "retained"}, NEW pin \in Pins(kind),
           Start(c, kind, pin, id)
    PROVE  PinInv'
  <1> DEFINE k == [Idle EXCEPT !.kind = kind, !.pin = pin, !.id = id]
  <1>1. pin \in AnyPin
    BY DEF Pins, Pin, ByName, AnyPin, PinInv, ClientTypeOK
  <1>2. k \in AnyCall /\ k.kind = kind /\ k.pin = pin /\ k.verdict = None
           /\ k.stage = "idle"
    BY <1>1, ClientAssumption DEF Idle, AnyCall, ClientKinds
  <1>3. /\ kind \in {"identity", "snapshot"} => pin.target \in Targets
        /\ kind = "snapshot" => pin.epoch # 0
    BY DEF Pins, Pin, PinInv, ClientTypeOK
  <1>4. Well(k) BY <1>2, <1>3 DEF Well
  <1>5. call[c].stage = "idle" /\ stray' = stray /\ arrived' = arrived
    BY DEF Start, brokerVars
  <1>6. \/ End(c, FailedBeforeSend(k))
        \/ SendOnce(c, k, pin)
        \/ kind \in {"name", "identity"} /\ List(c, k)
    BY ClientAssumption DEF Start
  <1> HIDE DEF k
  <1>7. CASE End(c, FailedBeforeSend(k))
    <2>1. CallsFit' /\ Steady /\ FramesFit(up)'
      BY <1>7, <1>2, <1>4, <1>5, FailedType, FailedWell, EndPins DEF PinInv
    <2> QED BY <2>1, <1>5, CallTypes, PinRest DEF PinInv, StartSome
  <1>8. CASE SendOnce(c, k, pin)
    <2>1. CallsFit' /\ Steady /\ FramesFit(up)'
      BY <1>8, <1>1, <1>2, <1>4, <1>5, SendOncePins DEF PinInv
    <2> QED BY <2>1, <1>5, CallTypes, PinRest DEF PinInv, StartSome
  <1>9. CASE kind \in {"name", "identity"} /\ List(c, k)
    <2>1. CASE Connected
      <3> DEFINE k2 == [k EXCEPT !.stage = "listing"]
      <3>1. /\ call' = [call EXCEPT ![c] = k2] /\ sending' = sending
            /\ up' = Written([type |-> "list", call |-> c])
        BY <1>9, <2>1 DEF List
      <3>2. /\ k2 \in AnyCall /\ k2.stage = "listing" /\ k2.kind = kind
            /\ k2.pin = pin /\ k2.verdict = None
        BY <1>2 DEF AnyCall
      <3> HIDE DEF k2
      <3>3. Well(k2) BY <3>2, <1>3, <1>9 DEF Well
      <3>4. sending # c
        <4>1. c # 0 BY DEF Calls
        <4> QED BY <4>1, <1>5 DEF CallsFit, PinInv
      <3>5. Waits(c, k2) BY <3>1, <3>2, <3>4 DEF Waits
      <3>6. CallsFit' /\ Steady /\ FramesFit(up)'
        BY <3>1, <3>2, <3>3, <3>5, <1>5, ListingPins DEF PinInv
      <3> QED BY <3>6, <1>5, CallTypes, PinRest DEF PinInv, StartSome
    <2>2. CASE ~Connected
      BY <2>2, <1>9, <1>7 DEF List
    <2> QED BY <2>1, <2>2
  <1> QED BY <1>6, <1>7, <1>8, <1>9

LEMMA CallPins ==
    ASSUME PinInv, NEW c \in Calls, Abort(c) \/ ListTimesOut(c) \/ SendTimesOut(c)
    PROVE  PinInv'
  <1>1. call[c] \in AnyCall BY DEF PinInv, ClientTypeOK
  <1>2. ClientTypeOK' BY CallTypes DEF PinInv
  <1>3. CASE Abort(c)
    <2> DEFINE k == [call[c] EXCEPT !.aborted = TRUE]
    <2>1. call' = [call EXCEPT ![c] = k] /\ UNCHANGED <<sending, up, stray, arrived>>
      BY <1>3 DEF Abort, wireVars, brokerVars
    <2>2. /\ k \in AnyCall /\ k.stage = call[c].stage /\ k.kind = call[c].kind
          /\ k.pin = call[c].pin /\ k.verdict = call[c].verdict
      BY <1>1 DEF AnyCall
    <2>3. call[c].stage \in {"listing", "sent"} BY <1>3 DEF Abort
    <2> HIDE DEF k
    <2>4. Well(k) BY <2>2, <2>3 DEF Well, PinInv, CallsFit
    <2>5. Waits(c, k)
      <3>1. c # 0 BY DEF Calls
      <3> QED BY <3>1, <2>1, <2>2, <2>3 DEF PinInv, CallsFit, Waits
    <2>6. CallsFit' /\ Steady BY <2>1, <2>2, <2>3, <2>4, <2>5, CallChange DEF PinInv
    <2>7. FramesFit(up)'
      BY <2>1, <2>6, FramesKept, FitAfter DEF PinInv, ClientTypeOK
    <2> QED BY <1>2, <2>1, <2>6, <2>7, PinRest
  <1>4. CASE ListTimesOut(c)
    <2>1. /\ call[c].stage = "listing" /\ End(c, FailedBeforeSend(call[c]))
          /\ stray' = stray /\ arrived' = arrived
      BY <1>4 DEF ListTimesOut, brokerVars
    <2>2. Well(call[c]) BY <2>1 DEF PinInv, CallsFit
    <2>3. CallsFit' /\ Steady /\ FramesFit(up)'
      BY <1>1, <2>1, <2>2, FailedType, FailedWell, EndPins DEF PinInv
    <2> QED BY <1>2, <2>1, <2>3, PinRest
  <1>5. CASE SendTimesOut(c)
    <2> DEFINE k == Settled(call[c], "unknown")
    <2>1. /\ call' = [call EXCEPT ![c] = k] /\ sending = c /\ sending' = 0
          /\ UNCHANGED <<up, stray, arrived>>
      BY <1>5 DEF SendTimesOut, PinInv, ClientTypeOK, wireVars, brokerVars
    <2>2. call[c].stage = "sent"
      <3>1. c # 0 BY DEF Calls
      <3> QED BY <2>1, <3>1 DEF PinInv, CallsFit
    <2>3. Well(call[c]) BY <2>2 DEF PinInv, CallsFit
    <2>4. /\ k \in AnyCall /\ k.stage = "done" /\ k.kind = call[c].kind
          /\ k.pin = call[c].pin /\ Well(k)
      BY <1>1, <2>3, SettledType, SettledWell
    <2> HIDE DEF k
    <2>5. Waits(c, k) BY <2>1, <2>4 DEF Waits
    <2>6. CallsFit' /\ Steady BY <2>1, <2>4, <2>5, CallChange DEF PinInv
    <2>7. FramesFit(up)'
      BY <2>1, <2>6, FramesKept, FitAfter DEF PinInv, ClientTypeOK
    <2> QED BY <1>2, <2>1, <2>6, <2>7, PinRest
  <1> QED BY <1>3, <1>4, <1>5

LEMMA SessionsPins ==
    ASSUME PinInv, HandleSessions PROVE PinInv'
  <1> DEFINE c == Head(down).call
             k == call[c]
             r == Head(down).roster
  <1>1. Head(down) \in DownFrame /\ Head(down).type = "sessions"
    BY Popped DEF HandleSessions, Received, PinInv, ClientTypeOK
  <1>2. c \in Calls /\ r \in Rosters BY <1>1 DEF DownFrame
  <1>3. k \in AnyCall BY <1>2 DEF PinInv, ClientTypeOK
  <1>4. k.pin \in AnyPin BY <1>3 DEF AnyCall
  <1>5. \/ UNCHANGED <<call, sending, up>>
        \/ k.stage = "listing" /\ End(c, FailedBeforeSend(k))
        \/ k.stage = "listing" /\ \E t \in Resolved(k, r) : SendOnce(c, k, Pin(t, r[t]))
        \/ k.stage = "listing" /\ SendOnce(c, k, k.pin)
        \/ k.stage = "listing" /\ End(c, Settled(k, "failed"))
    BY DEF HandleSessions
  <1>6. stray' = stray /\ arrived' = arrived BY DEF HandleSessions, brokerVars
  <1>7. ClientTypeOK' BY SessionsTypes DEF PinInv
  <1>8. k.stage = "listing" => Well(k) /\ k.verdict = None
           /\ k.kind \in {"name", "identity"}
           /\ (k.kind = "identity" => k.pin.target \in Targets)
    BY <1>2 DEF PinInv, CallsFit, Well
  <1>9. ASSUME NEW t \in Resolved(k, r)
        PROVE  /\ t \in DOMAIN r
               /\ k.pin.target \in Targets => t = k.pin.target
    BY ClientAssumption DEF Resolved
  <1> SUFFICES CallsFit' /\ Steady /\ FramesFit(up)' BY <1>6, <1>7, PinRest
  <1>10. call[c] = k /\ CallsFit /\ FramesFit(up) /\ ClientTypeOK BY DEF PinInv
  <1> HIDE DEF c, k, r
  <1>11. CASE UNCHANGED <<call, sending, up>>
    <2>1. CallsFit' /\ Steady BY <1>10, <1>11, SamePins
    <2> QED BY <2>1, <1>10, <1>11, FramesKept, FitAfter DEF ClientTypeOK
  <1>12. CASE k.stage = "listing" /\ End(c, FailedBeforeSend(k))
    BY <1>12, <1>2, <1>3, <1>8, <1>10, FailedType, FailedWell, EndPins
  <1>13. CASE k.stage = "listing" /\ End(c, Settled(k, "failed"))
    BY <1>13, <1>2, <1>3, <1>8, <1>10, SettledType, SettledWell, EndPins
  <1>14. ASSUME k.stage = "listing", NEW t \in Resolved(k, r),
                SendOnce(c, k, Pin(t, r[t]))
         PROVE  CallsFit' /\ Steady /\ FramesFit(up)'
    <2>1. Pin(t, r[t]) \in AnyPin /\ Pin(t, r[t]).target = t
      BY <1>2, <1>9, RosterPins DEF Pin
    <2> QED BY <1>14, <2>1, <1>2, <1>3, <1>8, <1>9, <1>10, SendOncePins
  <1>15. CASE k.stage = "listing" /\ SendOnce(c, k, k.pin)
    BY <1>15, <1>2, <1>3, <1>4, <1>8, <1>10, SendOncePins
  <1> QED BY <1>5, <1>11, <1>12, <1>13, <1>14, <1>15

LEMMA AnswerPins ==
    ASSUME PinInv, HandleAnswer PROVE PinInv'
  <1> DEFINE code == Head(down).code
             k == call[sending]
  <1>1. stray' = stray /\ arrived' = arrived BY DEF HandleAnswer, brokerVars
  <1>2. ClientTypeOK' BY AnswerTypes DEF PinInv
  <1>3. ClientTypeOK /\ CallsFit /\ FramesFit(up) BY DEF PinInv
  <1> SUFFICES CallsFit' /\ Steady /\ FramesFit(up)' BY <1>1, <1>2, PinRest
  <1>4. CASE sending = 0
    <2>1. UNCHANGED <<call, sending, up>> BY <1>4 DEF HandleAnswer
    <2>2. CallsFit' /\ Steady BY <1>3, <2>1, SamePins
    <2> QED BY <2>1, <2>2, <1>3, FramesKept, FitAfter DEF ClientTypeOK
  <1>5. CASE sending # 0
    <2>1. sending \in Calls BY <1>3, <1>5, ClientAssumption DEF ClientTypeOK, Calls
    <2>2. k \in AnyCall /\ k.stage = "sent" BY <1>3, <1>5, <2>1 DEF ClientTypeOK, CallsFit
    <2>3. Well(k) BY <1>3, <2>1, <2>2 DEF CallsFit
    <2>4. sending' = 0 BY <1>5 DEF HandleAnswer
    <2>5. CASE Again(k, code)
      <3> DEFINE k2 == [k EXCEPT !.stage = "listing"]
      <3>1. /\ call' = [call EXCEPT ![sending] = k2]
            /\ up' = Written([type |-> "list", call |-> sending])
        BY <1>5, <2>5, <1>3 DEF HandleAnswer, ClientTypeOK
      <3>2. /\ k2 \in AnyCall /\ k2.stage = "listing" /\ k2.kind = k.kind
            /\ k2.pin = k.pin /\ k2.verdict = k.verdict
        BY <2>2 DEF AnyCall
      <3>3. k.kind \in {"name", "identity"} BY <2>5 DEF Again
      <3> HIDE DEF k2
      <3>4. Well(k2) BY <2>2, <2>3, <3>2, <3>3 DEF Well
      <3>5. Waits(sending, k2) BY <2>4, <3>2 DEF Waits
      <3> QED BY <1>3, <2>1, <3>1, <3>2, <3>4, <3>5, ListingPins
    <2>6. CASE ~Again(k, code)
      <3> DEFINE v == IF code = None THEN "delivered" ELSE "failed"
                 k2 == Settled(k, v)
      <3>1. call' = [call EXCEPT ![sending] = k2] /\ up' = up
        BY <1>5, <2>6, <1>3 DEF HandleAnswer, ClientTypeOK
      <3>2. /\ k2 \in AnyCall /\ k2.stage = "done" /\ k2.kind = k.kind
            /\ k2.pin = k.pin /\ Well(k2)
        BY <2>2, <2>3, SettledType, SettledWell
      <3> HIDE DEF k2
      <3>3. Waits(sending, k2) BY <2>4, <3>2 DEF Waits
      <3>4. CallsFit' /\ Steady BY <1>3, <2>1, <3>1, <3>2, <3>3, CallChange
      <3> QED BY <3>1, <3>4, <1>3, FramesKept, FitAfter DEF ClientTypeOK
    <2> QED BY <2>5, <2>6
  <1> QED BY <1>4, <1>5

LEMMA ClosePins ==
    ASSUME PinInv, OnClose PROVE PinInv'
  <1>1. ClientTypeOK' BY ConnectionTypes DEF PinInv
  <1>2. ClientTypeOK /\ CallsFit /\ FramesFit(up) BY DEF PinInv
  <1>3. UNCHANGED <<up, stray, arrived>> BY DEF OnClose, wireVars, brokerVars
  <1>4. sending' = 0 BY DEF OnClose
  <1>5. ASSUME NEW c \in Calls
        PROVE  /\ call'[c].stage \notin {"sent", "listing"}
               /\ (call[c].stage = "idle" \/ call[c].stage = "done") => call'[c] = call[c]
               /\ call[c].stage # "idle" =>
                     /\ call'[c].stage # "idle" /\ Well(call'[c])
                     /\ call'[c].kind = call[c].kind /\ call'[c].pin = call[c].pin
    <2>1. call[c] \in AnyCall /\ (call[c].stage # "idle" => Well(call[c]))
      BY <1>2 DEF ClientTypeOK, CallsFit
    <2>2. call'[c] = IF call[c].stage = "listing" THEN FailedBeforeSend(call[c])
                     ELSE IF call[c].stage = "sent" THEN Settled(call[c], "unknown")
                     ELSE call[c]
      BY DEF OnClose, FailPending
    <2>3. CASE call[c].stage = "listing" BY <2>1, <2>2, <2>3, FailedWell
    <2>4. CASE call[c].stage = "sent" BY <2>1, <2>2, <2>4, SettledWell
    <2>5. CASE call[c].stage \notin {"listing", "sent"} BY <2>1, <2>2, <2>5
    <2> QED BY <2>3, <2>4, <2>5
  <1>6. Steady BY <1>5 DEF Steady
  <1>7. CallsFit'
    <2>1. ASSUME NEW c \in Calls
          PROVE  /\ call'[c].stage # "sent"
                 /\ call'[c].stage # "idle" => Well(call'[c])
                 /\ call'[c].stage = "idle" =>
                       call'[c].id = "retained" /\ call'[c].verdict = None
      BY <1>2, <1>5 DEF CallsFit
    <2> QED BY <2>1, <1>4 DEF CallsFit, Well
  <1>8. FramesFit(up)' BY <1>2, <1>3, <1>6, FramesKept, FitAfter DEF ClientTypeOK
  <1> QED BY <1>1, <1>3, <1>6, <1>7, <1>8, PinRest

LEMMA ConnectionPins ==
    ASSUME PinInv,
           \/ Probe \/ ProbeAnswered \/ ProbeTimesOut
           \/ SocketFails \/ FallSilent \/ OnClose \/ Reconnect
    PROVE  PinInv'
  <1>1. ClientTypeOK' BY ConnectionTypes DEF PinInv
  <1>2. ClientTypeOK /\ CallsFit /\ FramesFit(up) BY DEF PinInv
  <1>3. CASE OnClose BY <1>3, ClosePins
  <1>4. CASE ~OnClose
    <2>1. UNCHANGED <<call, sending>> /\ arrived' = arrived
      BY <1>4 DEF Probe, ProbeAnswered, ProbeTimesOut, SocketFails, FallSilent,
         Reconnect, brokerVars
    <2>2. CallsFit' /\ Steady BY <1>2, <2>1, SamePins
    <2>3. FramesStillFit(up) /\ FramesStillFit(<<>>)
      BY <1>2, <2>2, FramesKept, RestFits DEF ClientTypeOK
    <2>4. \/ up' = Written([type |-> "probe"]) \/ up' = up \/ up' = <<>>
      BY <1>4 DEF Probe, ProbeAnswered, ProbeTimesOut, SocketFails, FallSilent,
         Reconnect, Destroy
    <2>5. [type |-> "probe"] \in UpFrame BY DEF UpFrame
    <2>6. FramesFit(up)'
      <3>1. CASE up' = Written([type |-> "probe"])
        BY <3>1, <1>2, <2>3, <2>5, WrittenFits
      <3>2. CASE up' \in {up, <<>>} BY <3>2, <2>3, FitAfter
      <3> QED BY <2>4, <3>1, <3>2
    <2>7. stray' \in {stray, up, <<>>}
      BY <1>4 DEF Probe, ProbeAnswered, ProbeTimesOut, SocketFails, FallSilent,
         Reconnect, Destroy
    <2> QED BY <1>1, <2>1, <2>2, <2>6, <2>7, PinRest
  <1> QED BY <1>3, <1>4

(* What the broker accepts fits the call that sent it.                     *)
LEMMA SendPins ==
    ASSUME PinInv, NEW f \in UpFrame, f.type = "send", Fits(f.call, f.pin),
           HandleSend(f), call' = call
    PROVE  ArrivalsFit' /\ PinnedCallsStayExact'
  <1> DEFINE p == f.pin
             k == call[f.call]
             t == IF p.target = None THEN named ELSE p.target
             arrival(e) == [call |-> f.call, target |-> t, epoch |-> e]
  <1>1. f.call \in Calls /\ p \in AnyPin BY DEF UpFrame
  <1>2. /\ k.kind \in {"snapshot", "identity"} => p.target \in Targets /\ p.target = k.pin.target
        /\ k.kind = "snapshot" => p.epoch # 0 /\ p.epoch = k.pin.epoch
        /\ k.stage # "idle"
    BY <1>1 DEF Fits, PinInv, CallsFit, Well
  <1>3. k.kind \in {"snapshot", "identity"} => t = k.pin.target
    BY <1>2, ClientAssumption
  <1>4. \/ arrived' = arrived
        \/ arrived' = arrived \union {arrival(p.epoch)}
        \/ p.epoch = 0 /\ arrived' = arrived
                \union {arrival(IF t \in live THEN epoch[t] ELSE 0)}
    BY DEF HandleSend, Answered
  <1>5. ASSUME NEW e, arrived' = arrived \union {arrival(e)},
               k.kind = "snapshot" => e = k.pin.epoch
        PROVE  ArrivalsFit' /\ PinnedCallsStayExact'
    <2>1. ASSUME NEW a \in arrived'
          PROVE  /\ call'[a.call].stage # "idle"
                 /\ call'[a.call].kind = "snapshot" =>
                       /\ a.target = call'[a.call].pin.target
                       /\ a.epoch = call'[a.call].pin.epoch
                 /\ call'[a.call].kind = "identity" =>
                       a.target = call'[a.call].pin.target
      <3>1. CASE a \in arrived
        BY <3>1 DEF PinInv, ArrivalsFit, PinnedCallsStayExact
      <3>2. CASE a = arrival(e) BY <3>2, <1>2, <1>3, <1>5
      <3> QED BY <1>5, <3>1, <3>2
    <2> QED BY <2>1 DEF ArrivalsFit, PinnedCallsStayExact
  <1>6. CASE arrived' = arrived
    BY <1>6 DEF PinInv, ArrivalsFit, PinnedCallsStayExact
  <1>7. CASE arrived' = arrived \union {arrival(p.epoch)}
    BY <1>7, <1>2, <1>5
  <1>8. CASE p.epoch = 0 /\ arrived' = arrived
                \union {arrival(IF t \in live THEN epoch[t] ELSE 0)}
    BY <1>8, <1>2, <1>5
  <1> QED BY <1>4, <1>6, <1>7, <1>8

LEMMA BrokerPins ==
    ASSUME PinInv, HandleFrame \/ HandleStray PROVE PinInv'
  <1>1. ClientTypeOK' BY FrameTypes, StrayTypes DEF PinInv
  <1>2. ClientTypeOK /\ CallsFit /\ FramesFit(up) /\ FramesFit(stray) BY DEF PinInv
  <1>3. UNCHANGED <<call, sending>> BY DEF HandleFrame, HandleStray, clientVars
  <1>4. CallsFit' /\ Steady BY <1>2, <1>3, SamePins
  <1>5. FramesStillFit(up) /\ FramesStillFit(stray)
    BY <1>2, <1>4, FramesKept DEF ClientTypeOK
  <1>6. /\ up # <<>> => FramesStillFit(Tail(up))
        /\ stray # <<>> => FramesStillFit(Tail(stray))
    BY <1>2, <1>5, RestFits DEF ClientTypeOK
  <1>7. FramesFit(up)' /\ FramesFit(stray)'
    BY <1>5, <1>6, FitAfter DEF HandleFrame, HandleStray
  <1>8. ArrivalsFit' /\ PinnedCallsStayExact'
    <2>1. CASE arrived' = arrived
      BY <2>1, <1>4, ArrivalsKept DEF PinInv
    <2>2. CASE arrived' # arrived /\ HandleFrame
      <3>1. /\ Head(up) \in UpFrame /\ up # <<>> /\ Head(up) = up[1]
            /\ 1 \in 1..Len(up)
        BY <1>2, <2>2, Popped DEF HandleFrame, ClientTypeOK
      <3>2. Head(up).type = "send" /\ HandleSend(Head(up)) BY <2>2 DEF HandleFrame
      <3>3. Fits(Head(up).call, Head(up).pin) BY <1>2, <3>1, <3>2 DEF FramesFit
      <3> QED BY <1>3, <3>1, <3>2, <3>3, SendPins
    <2>3. CASE arrived' # arrived /\ HandleStray
      <3>1. /\ Head(stray) \in UpFrame /\ stray # <<>> /\ Head(stray) = stray[1]
            /\ 1 \in 1..Len(stray)
        BY <1>2, <2>3, Popped DEF HandleStray, ClientTypeOK
      <3>2. Head(stray).type = "send" /\ HandleSend(Head(stray)) BY <2>3 DEF HandleStray
      <3>3. Fits(Head(stray).call, Head(stray).pin) BY <1>2, <3>1, <3>2 DEF FramesFit
      <3> QED BY <1>3, <3>1, <3>2, <3>3, SendPins
    <2> QED BY <2>1, <2>2, <2>3
  <1> QED BY <1>1, <1>4, <1>7, <1>8 DEF PinInv

LEMMA MovePins ==
    ASSUME PinInv, NEW t \in Targets,
           TargetRegisters(t) \/ TargetLeaves(t) \/ NameMoves(t)
    PROVE  PinInv'
  <1>1. ClientTypeOK' BY RosterTypes DEF PinInv
  <1>2. UNCHANGED <<call, sending, up, stray, arrived>>
    BY DEF TargetRegisters, TargetLeaves, NameMoves, clientVars, wireVars
  <1>3. CallsFit' /\ Steady BY <1>2, SamePins DEF PinInv
  <1>4. FramesFit(up)' BY <1>2, <1>3, FramesKept, FitAfter DEF PinInv, ClientTypeOK
  <1> QED BY <1>1, <1>2, <1>3, <1>4, PinRest

LEMMA PinInit == Init => PinInv
  <1> SUFFICES ASSUME Init PROVE PinInv OBVIOUS
  <1>1. ClientTypeOK BY TypeInit
  <1>2. \A c \in Calls : call[c] = Idle BY DEF Init
  <1>3. CallsFit BY <1>2 DEF Init, CallsFit, Idle
  <1>4. FramesFit(up) /\ FramesFit(stray) BY DEF Init, FramesFit
  <1> QED BY <1>1, <1>3, <1>4 DEF PinInv, Init, ArrivalsFit, PinnedCallsStayExact

LEMMA PinStep == PinInv /\ [ClientNext]_vars => PinInv'
  <1> SUFFICES ASSUME PinInv, [ClientNext]_vars PROVE PinInv' OBVIOUS
  <1>1. CASE UNCHANGED vars
    <2>1. UNCHANGED <<call, sending, up, stray, arrived>>
      BY <1>1 DEF vars, clientVars, wireVars, brokerVars
    <2>2. CallsFit' /\ Steady BY <2>1, SamePins DEF PinInv
    <2>3. FramesFit(up)' BY <2>1, <2>2, FramesKept, FitAfter DEF PinInv, ClientTypeOK
    <2> QED BY <2>1, <2>2, <2>3, TypeStep, PinRest DEF PinInv
  <1>2. CASE ClientNext
    BY <1>2, StartPins, CallPins, SessionsPins, AnswerPins, ConnectionPins,
       BrokerPins, MovePins DEF ClientNext, StartSome
  <1> QED BY <1>1, <1>2

(* Pinned calls stay exact: every frame is pinned as its call demands, and *)
(* what the broker accepts is what a frame is pinned to.                   *)
THEOREM PinnedCalls == ClientSpec => []PinnedCallsStayExact
  <1>1. PinInv => PinnedCallsStayExact BY DEF PinInv
  <1> QED BY <1>1, PinInit, PinStep, PTL DEF ClientSpec

-----------------------------------------------------------------------------
(* What is on the way *)

LEMMA OneIsACall == 1 \in Calls
  BY ClientAssumption DEF Calls

LEMMA NoneAtAll ==
    /\ No(<<>>, "send") /\ No(<<>>, "answer") /\ Nothing(<<>>) /\ Accepting(<<>>)
    /\ AtMostOne(<<>>, "send") /\ AtMostOne(<<>>, "answer")
  BY DEF No, Nothing, Accepting, AtMostOne

LEMMA NoImplies ==
    ASSUME NEW s
    PROVE  /\ No(s, "send") => Nothing(s) /\ AtMostOne(s, "send")
           /\ No(s, "answer") => Accepting(s) /\ AtMostOne(s, "answer")
  BY DEF No, Nothing, Accepting, AtMostOne

(* When the first frame has been read.                                     *)
LEMMA Rest ==
    ASSUME NEW S, NEW s \in Seq(S), s # <<>>, NEW type
    PROVE  /\ No(s, type) => No(Tail(s), type)
           /\ AtMostOne(s, type) => AtMostOne(Tail(s), type)
           /\ AtMostOne(s, type) /\ Head(s).type = type => No(Tail(s), type)
           /\ Nothing(s) => Nothing(Tail(s))
           /\ Accepting(s) => Accepting(Tail(s))
           /\ No(s, type) => Head(s).type # type
           /\ Nothing(s) /\ Head(s).type = "send" => Head(s).call # 1
           /\ Accepting(s) /\ Head(s).type = "answer" => Head(s).code = None
  <1>1. /\ Len(s) \in Nat /\ Len(s) >= 1 /\ Len(Tail(s)) = Len(s) - 1 /\ Head(s) = s[1]
        /\ \A i \in 1..Len(Tail(s)) : Tail(s)[i] = s[i + 1]
    BY Popped
  <1>2. /\ 1 \in 1..Len(s)
        /\ \A i \in 1..Len(Tail(s)) : i + 1 \in 1..Len(s) /\ i + 1 # 1
        /\ \A i, j \in 1..Len(Tail(s)) : i + 1 = j + 1 => i = j
    BY <1>1
  <1>3. No(s, type) => No(Tail(s), type) /\ Head(s).type # type
    BY <1>1, <1>2 DEF No
  <1>4. AtMostOne(s, type) => AtMostOne(Tail(s), type)
    <2> SUFFICES ASSUME AtMostOne(s, type), NEW i \in 1..Len(Tail(s)),
                        NEW j \in 1..Len(Tail(s)),
                        Tail(s)[i].type = type, Tail(s)[j].type = type
                 PROVE  i = j
      BY DEF AtMostOne
    <2>1. s[i + 1].type = type /\ s[j + 1].type = type BY <1>1
    <2>2. i + 1 = j + 1 BY <1>2, <2>1 DEF AtMostOne
    <2> QED BY <1>2, <2>2
  <1>5. AtMostOne(s, type) /\ Head(s).type = type => No(Tail(s), type)
    <2> SUFFICES ASSUME AtMostOne(s, type), s[1].type = type,
                        NEW i \in 1..Len(Tail(s)), Tail(s)[i].type = type
                 PROVE  FALSE
      BY <1>1 DEF No
    <2>1. s[i + 1].type = type BY <1>1
    <2> QED BY <1>2, <2>1 DEF AtMostOne
  <1>6. /\ Nothing(s) => Nothing(Tail(s))
        /\ Nothing(s) /\ Head(s).type = "send" => Head(s).call # 1
    BY <1>1, <1>2 DEF Nothing
  <1>7. /\ Accepting(s) => Accepting(Tail(s))
        /\ Accepting(s) /\ Head(s).type = "answer" => Head(s).code = None
    BY <1>1, <1>2 DEF Accepting
  <1> QED BY <1>3, <1>4, <1>5, <1>6, <1>7

(* When a frame has been added.                                            *)
LEMMA Added ==
    ASSUME NEW s, NEW t, NEW n \in Nat, n = Len(s), NEW f, NEW type,
           \A i \in 1..Len(t) : (i \in 1..n /\ t[i] = s[i]) \/ (i = n + 1 /\ t[i] = f)
    PROVE  /\ No(s, type) /\ f.type # type => No(t, type)
           /\ AtMostOne(s, type) /\ f.type # type => AtMostOne(t, type)
           /\ No(s, type) => AtMostOne(t, type)
           /\ Nothing(s) /\ (f.type = "send" => f.call # 1) => Nothing(t)
           /\ Accepting(s) /\ (f.type = "answer" => f.code = None) => Accepting(t)
  <1>1. No(s, type) /\ f.type # type => No(t, type) BY DEF No
  <1>2. AtMostOne(s, type) /\ f.type # type => AtMostOne(t, type)
    <2> SUFFICES ASSUME AtMostOne(s, type), f.type # type, NEW i \in 1..Len(t),
                        NEW j \in 1..Len(t), t[i].type = type, t[j].type = type
                 PROVE  i = j
      BY DEF AtMostOne
    <2>1. i \in 1..n /\ j \in 1..n /\ s[i].type = type /\ s[j].type = type OBVIOUS
    <2> QED BY <2>1 DEF AtMostOne
  <1>3. No(s, type) => AtMostOne(t, type)
    <2> SUFFICES ASSUME No(s, type), NEW i \in 1..Len(t),
                        NEW j \in 1..Len(t), t[i].type = type, t[j].type = type
                 PROVE  i = j
      BY DEF AtMostOne
    <2>1. i = n + 1 /\ j = n + 1 BY DEF No
    <2> QED BY <2>1
  <1>4. Nothing(s) /\ (f.type = "send" => f.call # 1) => Nothing(t) BY DEF Nothing
  <1>5. Accepting(s) /\ (f.type = "answer" => f.code = None) => Accepting(t)
    BY DEF Accepting
  <1> QED BY <1>1, <1>2, <1>3, <1>4, <1>5

LEMMA AddedUp ==
    ASSUME ClientTypeOK, NEW f \in UpFrame
    PROVE  /\ No(up, "send") /\ f.type # "send" => No(Written(f), "send")
           /\ AtMostOne(up, "send") /\ f.type # "send" => AtMostOne(Written(f), "send")
           /\ No(up, "send") => AtMostOne(Written(f), "send")
           /\ Nothing(up) /\ (f.type = "send" => f.call # 1) => Nothing(Written(f))
  <1>1. Len(up) \in Nat BY DEF ClientTypeOK
  <1>2. \A i \in 1..Len(Written(f)) :
            \/ i \in 1..Len(up) /\ Written(f)[i] = up[i]
            \/ i = Len(up) + 1 /\ Written(f)[i] = f
    BY WrittenFrames
  <1> HIDE DEF Written
  <1> QED BY <1>1, <1>2, Added

LEMMA AddedDown ==
    ASSUME ClientTypeOK, NEW f \in DownFrame
    PROVE  LET t == Append(down, f) IN
           /\ No(down, "answer") /\ f.type # "answer" => No(t, "answer")
           /\ AtMostOne(down, "answer") /\ f.type # "answer" => AtMostOne(t, "answer")
           /\ No(down, "answer") => AtMostOne(t, "answer")
           /\ Accepting(down) /\ (f.type = "answer" => f.code = None) => Accepting(t)
  <1> DEFINE t == Append(down, f)
  <1>1. down \in Seq(DownFrame) /\ Len(down) \in Nat BY DEF ClientTypeOK
  <1>2. ASSUME NEW i \in 1..Len(t)
        PROVE  \/ i \in 1..Len(down) /\ t[i] = down[i]
               \/ i = Len(down) + 1 /\ t[i] = f
    BY <1>1, Pushed
  <1> HIDE DEF t
  <1>3. /\ No(down, "answer") /\ f.type # "answer" => No(t, "answer")
        /\ AtMostOne(down, "answer") /\ f.type # "answer" => AtMostOne(t, "answer")
        /\ No(down, "answer") => AtMostOne(t, "answer")
        /\ Accepting(down) /\ (f.type = "answer" => f.code = None) => Accepting(t)
    BY <1>1, <1>2, Added
  <1> QED BY <1>3 DEF t

-----------------------------------------------------------------------------
(* Steps that change no call *)

LEMMA SameCalls ==
    ASSUME FreshInv, PinInv', call' = call, Channels',
           Silent => Silent', Busy => Busy', Clean => Clean'
    PROVE  FreshInv'
  <1>1. Alone' BY DEF FreshInv, Alone, Fresh
  <1>2. FirstCall' BY DEF FreshInv, FirstCall, Fresh
  <1> QED BY <1>1, <1>2 DEF FreshInv

(* The answer to a send, and what it leaves.                               *)
LEMMA SendOutcome ==
    ASSUME ClientTypeOK, NEW f \in UpFrame, f.type = "send", HandleSend(f)
    PROVE  \E code \in {None, "E_TARGET_NOT_FOUND", "E_TARGET_REBOUND",
                        "E_MESSAGE_ID_REUSE"} :
               /\ link = "open" =>
                     down' = Append(down, [type |-> "answer", code |-> code])
               /\ link # "open" => down' = down
               /\ \/ arrived' = arrived
                  \/ code = None /\ \E a : a.call = f.call
                                      /\ arrived' = arrived \union {a}
  <1> DEFINE Codes == {None, "E_TARGET_NOT_FOUND", "E_TARGET_REBOUND",
                       "E_MESSAGE_ID_REUSE"}
             p == f.pin
             t == IF p.target = None THEN named ELSE p.target
             arrival(e) == [call |-> f.call, target |-> t, epoch |-> e]
  <1>1. record # None => record.code \in Codes BY DEF ClientTypeOK, AnyRecord
  <1>2. \/ \E code \in Codes : \E rec : Answered(code, rec, arrived)
        \/ \E rec, e : Answered(None, rec, arrived \union {arrival(e)})
    BY <1>1 DEF HandleSend, Replayed
  <1>3. CASE \E code \in Codes : \E rec : Answered(code, rec, arrived)
    BY <1>3 DEF Answered
  <1>4. CASE \E rec, e : Answered(None, rec, arrived \union {arrival(e)})
    <2>1. PICK rec, e : Answered(None, rec, arrived \union {arrival(e)}) BY <1>4
    <2>2. arrival(e).call = f.call OBVIOUS
    <2> QED BY <2>1, <2>2 DEF Answered
  <1> QED BY <1>2, <1>3, <1>4

LEMMA FrameFirst ==
    ASSUME FreshInv, HandleFrame PROVE FreshInv'
  <1> DEFINE f == Head(up)
  <1>1. ClientTypeOK /\ Channels /\ PinInv' BY BrokerPins DEF FreshInv, PinInv
  <1>2. up \in Seq(UpFrame) /\ up # <<>> /\ up' = Tail(up) /\ link = "open"
           /\ link' = link /\ stray' = stray /\ stray = <<>> /\ call' = call
    BY <1>1 DEF HandleFrame, clientVars, ClientTypeOK, Channels
  <1>3. f \in UpFrame BY <1>2, Popped
  <1>4. Channels' BY <1>2 DEF Channels
  <1>5. /\ No(up, "send") => No(up', "send") /\ f.type # "send"
        /\ AtMostOne(up, "send") => AtMostOne(up', "send")
        /\ AtMostOne(up, "send") /\ f.type = "send" => No(up', "send")
        /\ Nothing(up) => Nothing(up') /\ (f.type = "send" => f.call # 1)
    BY <1>2, Rest
  <1>6. CASE f.type # "send" /\ arrived' = arrived
              /\ \E g \in DownFrame : g.type # "answer" /\ down' = Append(down, g)
    <2>1. /\ No(down, "answer") => No(down', "answer")
          /\ AtMostOne(down, "answer") => AtMostOne(down', "answer")
          /\ Accepting(down) => Accepting(down')
      BY <1>1, <1>6, AddedDown
    <2>2. Silent => Silent' BY <1>2, <1>5, <1>6, <2>1 DEF Silent, No
    <2>3. Busy => Busy' BY <1>5, <1>6, <2>1 DEF Busy, AtMostOne, No, Accepting
    <2>4. Clean => Clean' BY <1>2, <1>5, <1>6 DEF Clean, Nothing
    <2> QED BY <1>1, <1>2, <1>4, <2>2, <2>3, <2>4, SameCalls
  <1>7. CASE f.type = "send" /\ HandleSend(f)
    <2>1. PICK code \in {None, "E_TARGET_NOT_FOUND", "E_TARGET_REBOUND",
                         "E_MESSAGE_ID_REUSE"} :
              /\ down' = Append(down, [type |-> "answer", code |-> code])
              /\ \/ arrived' = arrived
                 \/ code = None /\ \E a : a.call = f.call
                                     /\ arrived' = arrived \union {a}
      BY <1>1, <1>2, <1>3, <1>7, SendOutcome
    <2>2. [type |-> "answer", code |-> code] \in DownFrame BY DEF DownFrame
    <2>3. /\ No(down, "answer") => AtMostOne(down', "answer")
          /\ Accepting(down) /\ code = None => Accepting(down')
      BY <1>1, <2>1, <2>2, AddedDown
    <2>4. Silent => Silent' BY <1>5, <1>7 DEF Silent
    <2>5. Busy => Busy'
      <3> SUFFICES ASSUME Busy PROVE Busy' OBVIOUS
      <3>1. ~No(up, "send") BY <1>5, <1>7
      <3>2. No(down, "answer") /\ arrived = {} BY <3>1 DEF Busy
      <3>3. No(up', "send") /\ AtMostOne(up', "send") BY <1>5, <1>7 DEF Busy
      <3>4. AtMostOne(down', "answer") BY <2>3, <3>2
      <3>5. arrived' # {} => Accepting(down') BY <2>1, <2>3, <3>2, NoImplies
      <3> QED BY <3>3, <3>4, <3>5 DEF Busy, AtMostOne, No, Accepting
    <2>6. Clean => Clean'
      <3> SUFFICES ASSUME Clean PROVE Clean' OBVIOUS
      <3>1. Nothing(up') /\ f.call # 1 BY <1>5, <1>7 DEF Clean
      <3>2. \A a \in arrived' : a.call # 1 BY <2>1, <3>1 DEF Clean
      <3> QED BY <1>2, <3>1, <3>2 DEF Clean, Nothing
    <2> QED BY <1>1, <1>2, <1>4, <2>4, <2>5, <2>6, SameCalls
  <1>8. ASSUME f.type = "list",
               down' = Append(down, [type |-> "sessions", call |-> f.call,
                                     roster |-> Roster, named |-> named])
        PROVE  \E g \in DownFrame : g.type # "answer" /\ down' = Append(down, g)
    <2> DEFINE g == [type |-> "sessions", call |-> f.call,
                     roster |-> Roster, named |-> named]
    <2>1. Roster \in Rosters BY <1>1 DEF Roster, Rosters, ClientTypeOK
    <2>2. g \in DownFrame
      BY <1>1, <1>3, <1>8, <2>1 DEF UpFrame, DownFrame, ClientTypeOK
    <2>3. g.type # "answer" OBVIOUS
    <2> QED BY <1>8, <2>2, <2>3
  <1>9. [type |-> "alive"] \in DownFrame BY DEF DownFrame
  <1> QED BY <1>6, <1>7, <1>8, <1>9 DEF HandleFrame

LEMMA StrayFirst ==
    ASSUME FreshInv, HandleStray PROVE FreshInv'
  <1> DEFINE f == Head(stray)
  <1>1. ClientTypeOK /\ Channels /\ PinInv' BY BrokerPins DEF FreshInv, PinInv
  <1>2. stray \in Seq(UpFrame) /\ stray # <<>> /\ stray' = Tail(stray) /\ link # "open"
           /\ link' = link /\ up' = up /\ up = <<>> /\ down = <<>> /\ call' = call
    BY <1>1 DEF HandleStray, clientVars, ClientTypeOK, Channels
  <1>3. f \in UpFrame BY <1>2, Popped
  <1>4. /\ No(stray, "send") => No(stray', "send") /\ f.type # "send"
        /\ Nothing(stray) => Nothing(stray') /\ (f.type = "send" => f.call # 1)
    BY <1>2, Rest
  <1>5. /\ down' = down
        /\ f.type # "send" => arrived' = arrived
        /\ arrived' = arrived \/ \E a : a.call = f.call /\ arrived' = arrived \union {a}
    BY <1>1, <1>2, <1>3, SendOutcome DEF HandleStray
  <1>6. Channels' BY <1>2, <1>5 DEF Channels
  <1>7. Silent => Silent' BY <1>2, <1>4, <1>5 DEF Silent, No
  <1>8. Busy'
    <2>1. up' = <<>> /\ down' = <<>> BY <1>2, <1>5
    <2> QED BY <2>1 DEF Busy, AtMostOne, No, Accepting
  <1>9. Clean => Clean'
    <2> SUFFICES ASSUME Clean PROVE Clean' OBVIOUS
    <2>1. Nothing(stray') /\ (f.type = "send" => f.call # 1) BY <1>4 DEF Clean
    <2>2. \A a \in arrived' : a.call # 1 BY <1>5, <2>1 DEF Clean
    <2> QED BY <1>2, <2>1, <2>2 DEF Clean, Nothing
  <1> QED BY <1>1, <1>2, <1>6, <1>7, <1>8, <1>9, SameCalls

LEMMA ConnectionFirst ==
    ASSUME FreshInv,
           \/ Probe \/ ProbeAnswered \/ ProbeTimesOut
           \/ SocketFails \/ FallSilent \/ Reconnect
    PROVE  FreshInv'
  <1>1. ClientTypeOK /\ Channels /\ PinInv' BY ConnectionPins DEF FreshInv, PinInv
  <1>2. call' = call /\ arrived' = arrived
    BY DEF Probe, ProbeAnswered, ProbeTimesOut, SocketFails, FallSilent,
       Reconnect, brokerVars
  <1>3. CASE Probe
    <2> DEFINE f == [type |-> "probe"]
    <2>1. f \in UpFrame /\ f.type # "send" BY DEF UpFrame
    <2>2. up' = Written(f) /\ UNCHANGED <<link, down, stray>> BY <1>3 DEF Probe
    <2>3. /\ No(up, "send") => No(up', "send")
          /\ AtMostOne(up, "send") => AtMostOne(up', "send")
          /\ Nothing(up) => Nothing(up')
      BY <1>1, <2>1, <2>2, AddedUp
    <2>4. Channels' BY <1>1, <2>2 DEF Channels, Written
    <2>5. Silent => Silent' BY <1>2, <2>2, <2>3 DEF Silent, No
    <2>6. Busy => Busy' BY <1>2, <2>2, <2>3 DEF Busy, AtMostOne, No, Accepting
    <2>7. Clean => Clean' BY <1>2, <2>2, <2>3 DEF Clean, Nothing
    <2> QED BY <1>1, <1>2, <2>4, <2>5, <2>6, <2>7, SameCalls
  <1>4. CASE ProbeAnswered
    <2>1. down # <<>> /\ down' = Tail(down) /\ UNCHANGED <<link, up, stray>>
             /\ link = "open" /\ down \in Seq(DownFrame)
      BY <1>1, <1>4 DEF ProbeAnswered, Received, ClientTypeOK
    <2>2. /\ No(down, "answer") => No(down', "answer")
          /\ AtMostOne(down, "answer") => AtMostOne(down', "answer")
          /\ Accepting(down) => Accepting(down')
      BY <2>1, Rest
    <2>3. Channels' BY <1>1, <2>1 DEF Channels
    <2>4. Silent => Silent' BY <1>2, <2>1, <2>2 DEF Silent, No
    <2>5. Busy => Busy' BY <1>2, <2>1, <2>2 DEF Busy, AtMostOne, No, Accepting
    <2>6. Clean => Clean' BY <1>2, <2>1 DEF Clean, Nothing
    <2> QED BY <1>1, <1>2, <2>3, <2>4, <2>5, <2>6, SameCalls
  <1>5. CASE ProbeTimesOut \/ SocketFails \/ FallSilent
    <2>1. link' # "open" /\ up' = <<>> /\ down' = <<>> /\ stray' \in {stray, up}
      BY <1>5 DEF ProbeTimesOut, SocketFails, FallSilent, Destroy
    <2>2. Channels' BY <2>1 DEF Channels
    <2>3. Silent => Silent' BY <1>2, <2>1 DEF Silent, No
    <2>4. Busy' BY <2>1 DEF Busy, AtMostOne, No, Accepting
    <2>5. Clean => Clean' BY <1>2, <2>1 DEF Clean, Nothing
    <2> QED BY <1>1, <1>2, <2>2, <2>3, <2>4, <2>5, SameCalls
  <1>6. CASE Reconnect
    <2>1. link # "open" /\ stray' = <<>> /\ UNCHANGED <<up, down>>
      BY <1>6 DEF Reconnect
    <2>2. up = <<>> /\ down = <<>> BY <1>1, <2>1 DEF Channels
    <2>3. Channels' BY <2>1, <2>2 DEF Channels
    <2>4. Silent => Silent' BY <1>2, <2>1 DEF Silent, No
    <2>5. Busy' BY <2>1, <2>2 DEF Busy, AtMostOne, No, Accepting
    <2>6. Clean => Clean' BY <1>2, <2>1 DEF Clean, Nothing
    <2> QED BY <1>1, <1>2, <2>3, <2>4, <2>5, <2>6, SameCalls
  <1> QED BY <1>3, <1>4, <1>5, <1>6

LEMMA MoveFirst ==
    ASSUME FreshInv, NEW t \in Targets,
           TargetRegisters(t) \/ TargetLeaves(t) \/ NameMoves(t)
    PROVE  FreshInv'
  <1>1. UNCHANGED <<link, call, up, down, stray, arrived>>
    BY DEF TargetRegisters, TargetLeaves, NameMoves, clientVars, wireVars
  <1>2. PinInv' BY MovePins DEF FreshInv
  <1>3. Channels' BY <1>1 DEF FreshInv, Channels
  <1>4. Silent => Silent' BY <1>1 DEF Silent, No
  <1>5. Busy => Busy' BY <1>1 DEF Busy, AtMostOne, No, Accepting
  <1>6. Clean => Clean' BY <1>1 DEF Clean, Nothing
  <1> QED BY <1>1, <1>2, <1>3, <1>4, <1>5, <1>6, SameCalls

-----------------------------------------------------------------------------
(* Steps that change a call *)

LEMMA SilentIsClean == Silent => Clean /\ Busy
  BY NoImplies DEF Silent, Clean, Busy

(* A later call does what it does when the first one is done.              *)
LEMMA LaterCall ==
    ASSUME FreshInv, PinInv', Channels', NEW c \in Calls, c # 1, NEW k,
           call' = [call EXCEPT ![c] = k], k.id = "retained",
           call[1].stage # "idle", Fresh => call[1].stage = "done",
           \/ up' = up
           \/ \E f \in UpFrame : up' = Written(f) /\ (f.type = "send" => f.call # 1),
           stray' = stray, arrived' = arrived
    PROVE  FreshInv'
  <1>1. ClientTypeOK /\ call \in [Calls -> AnyCall]
    BY DEF FreshInv, PinInv, ClientTypeOK
  <1>2. call'[1] = call[1] /\ call'[c] = k
           /\ \A d \in Calls : d # c => call'[d] = call[d]
    BY <1>1, OneIsACall
  <1>3. Alone' BY <1>2, OneIsACall DEF FreshInv, Alone, Fresh
  <1>4. Clean => Clean'
    <2>1. Nothing(up) => Nothing(up') BY <1>1, AddedUp
    <2> QED BY <2>1 DEF Clean, Nothing
  <1>5. FirstCall' BY <1>2, <1>4 DEF FreshInv, FirstCall, Fresh
  <1> QED BY <1>3, <1>5 DEF FreshInv

LEMMA FirstChanged ==
    ASSUME FreshInv, PinInv', Channels', NEW k,
           call' = [call EXCEPT ![1] = k], k.stage # "idle",
           k.id = "fresh" /\ k.stage # "done" =>
               \A c \in Calls : c # 1 => call[c].stage = "idle",
           k.id = "fresh" /\ k.stage = "listing" => Silent',
           k.id = "fresh" /\ k.stage = "sent" => Busy',
           k.id = "fresh" /\ k.verdict = "failed" => Clean'
    PROVE  FreshInv'
  <1>1. call \in [Calls -> AnyCall] BY DEF FreshInv, PinInv, ClientTypeOK
  <1>2. call'[1] = k /\ \A d \in Calls : d # 1 => call'[d] = call[d]
    BY <1>1, OneIsACall
  <1>3. Alone' BY <1>2, OneIsACall DEF FreshInv, Alone, Fresh
  <1>4. FirstCall' BY <1>2 DEF FirstCall, Fresh
  <1> QED BY <1>3, <1>4 DEF FreshInv

LEMMA SendOnceFirst ==
    ASSUME FreshInv, PinInv', NEW c \in Calls, NEW k \in AnyCall, NEW pin \in AnyPin,
           SendOnce(c, k, pin), k.verdict = None,
           c # 1 => k.id = "retained" /\ call[1].stage # "idle"
                    /\ (Fresh => call[1].stage = "done"),
           c = 1 /\ k.id = "fresh" =>
               Silent /\ \A d \in Calls : d # 1 => call[d].stage = "idle",
           link' = link, link = "open" \/ down' = down,
           down' = down \/ (down # <<>> /\ down' = Tail(down)),
           stray' = stray, arrived' = arrived
    PROVE  FreshInv'
  <1> DEFINE f == [type |-> "send", call |-> c, pin |-> pin]
             k2 == [k EXCEPT !.stage = "sent", !.attempt = @ + 1]
  <1>1. ClientTypeOK /\ Channels BY DEF FreshInv, PinInv
  <1>2. f \in UpFrame /\ f.call = c BY DEF UpFrame
  <1>3. up' = up \/ up' = Written(f) BY DEF SendOnce, End
  <1>4. Channels' BY <1>1, <1>3 DEF Channels, Written
  <1>5. k2.stage = "sent" /\ k2.id = k.id /\ k2.verdict = None BY DEF AnyCall
  <1>6. \/ End(c, FailedBeforeSend(k)) \/ End(c, Settled(k, "unknown"))
        \/ call' = [call EXCEPT ![c] = k2] /\ up' = Written(f)
    BY DEF SendOnce
  <1>7. /\ FailedBeforeSend(k).stage = "done" /\ FailedBeforeSend(k).id = k.id
        /\ Settled(k, "unknown").stage = "done" /\ Settled(k, "unknown").id = k.id
        /\ Settled(k, "unknown").verdict = "unknown"
    BY DEF FailedBeforeSend, Settled, AnyCall
  <1> HIDE DEF k2, f
  <1>8. PICK k3 : call' = [call EXCEPT ![c] = k3] /\ k3.id = k.id
                   /\ \/ k3.stage = "done" /\ up' = up
                      \/ k3.stage = "sent" /\ up' = Written(f) /\ k3.verdict = None
    BY <1>5, <1>6, <1>7 DEF End
  <1>9. CASE c # 1
    BY <1>2, <1>4, <1>8, <1>9, LaterCall
  <1>10. CASE c = 1
    <2>1. ASSUME k.id = "fresh"
          PROVE  No(down', "answer") /\ No(up, "send") /\ No(stray, "send") /\ arrived = {}
      <3>1. Silent BY <1>10, <2>1
      <3>2. down \in Seq(DownFrame) BY <1>1 DEF ClientTypeOK
      <3>3. down # <<>> => No(Tail(down), "answer") BY <3>1, <3>2, Rest DEF Silent
      <3> QED BY <3>1, <3>3 DEF Silent
    <2>2. k.id = "fresh" /\ k3.stage = "sent" => Busy'
      <3> SUFFICES ASSUME k.id = "fresh", k3.stage = "sent" PROVE Busy' OBVIOUS
      <3>1. up' = Written(f) BY <1>8
      <3>2. AtMostOne(up', "send") BY <1>1, <1>2, <2>1, <3>1, AddedUp
      <3>3. AtMostOne(down', "answer") BY <2>1, NoImplies
      <3> QED BY <2>1, <3>2, <3>3 DEF Busy, AtMostOne, No, Accepting
    <2>3. k.id = "fresh" /\ k3.verdict = "failed" => Clean'
      <3> SUFFICES ASSUME k.id = "fresh", k3.verdict = "failed" PROVE Clean' OBVIOUS
      <3>1. up' = up BY <1>8, ClientAssumption
      <3>2. Nothing(up) /\ Nothing(stray) BY <2>1, NoImplies
      <3> QED BY <2>1, <3>1, <3>2 DEF Clean, Nothing
    <2> QED BY <1>4, <1>8, <1>10, <2>2, <2>3, FirstChanged
  <1> QED BY <1>9, <1>10

LEMMA Later ==
    ASSUME FreshInv, NEW c \in Calls, c # 1, call[c].stage # "idle"
    PROVE  /\ call[c].id = "retained" /\ call[1].stage # "idle"
           /\ Fresh => call[1].stage = "done"
  <1>1. call[c] \in AnyCall BY DEF FreshInv, PinInv, ClientTypeOK
  <1>2. call[c].id = "retained" BY <1>1 DEF FreshInv, Alone, AnyCall
  <1> QED BY <1>2 DEF FreshInv, Alone

LEMMA StartFirst ==
    ASSUME FreshInv, NEW c \in Calls, NEW kind \in Kinds,
           NEW id \in {"fresh", "retained"}, NEW pin \in Pins(kind),
           Start(c, kind, pin, id)
    PROVE  FreshInv'
  <1> DEFINE k == [Idle EXCEPT !.kind = kind, !.pin = pin, !.id = id]
             f == [type |-> "list", call |-> c]
  <1>1. ClientTypeOK /\ Channels /\ PinInv' BY StartPins DEF FreshInv, PinInv
  <1>2. pin \in AnyPin BY <1>1 DEF Pins, Pin, ByName, AnyPin, ClientTypeOK
  <1>3. k \in AnyCall /\ k.verdict = None /\ k.stage = "idle" /\ k.id = id
    BY <1>2, ClientAssumption DEF Idle, AnyCall, ClientKinds
  <1>4. call[c].stage = "idle" /\ UNCHANGED <<link, down, stray, arrived>>
    BY DEF Start, brokerVars
  <1>5. c # 1 => id = "retained" /\ call[1].stage # "idle"
                 /\ (Fresh => call[1].stage = "done")
    <2> SUFFICES ASSUME c # 1
                 PROVE  id = "retained" /\ call[1].stage # "idle"
                            /\ (Fresh => call[1].stage = "done")
      OBVIOUS
    <2>1. c > 1 /\ c - 1 \in Calls BY ClientAssumption DEF Calls
    <2>2. id = "retained" /\ call[c - 1].stage # "idle" BY <2>1 DEF Start
    <2>3. Fresh => call[1].stage = "done" BY OneIsACall DEF Start, Fresh
    <2> QED BY <2>1, <2>2, <2>3 DEF FreshInv, Alone
  <1>6. c = 1 => Silent /\ \A d \in Calls : d # 1 => call[d].stage = "idle"
    BY <1>4 DEF FreshInv, Alone, FirstCall
  <1>7. End(c, FailedBeforeSend(k)) \/ SendOnce(c, k, pin) \/ List(c, k)
    BY DEF Start
  <1>8. /\ FailedBeforeSend(k).stage = "done" /\ FailedBeforeSend(k).id = k.id
        /\ [k EXCEPT !.stage = "listing"].stage = "listing"
        /\ [k EXCEPT !.stage = "listing"].id = k.id
        /\ [k EXCEPT !.stage = "listing"].verdict = None
    BY <1>3 DEF FailedBeforeSend, Settled, AnyCall
  <1> HIDE DEF k
  <1>9. CASE SendOnce(c, k, pin)
    BY <1>1, <1>2, <1>3, <1>4, <1>5, <1>6, <1>9, SendOnceFirst
  <1>10. CASE End(c, FailedBeforeSend(k)) \/ List(c, k)
    <2>1. f \in UpFrame /\ f.type # "send" BY DEF UpFrame
    <2>2. PICK k2 : call' = [call EXCEPT ![c] = k2] /\ k2.id = id
                     /\ \/ k2.stage = "done" /\ up' = up
                        \/ k2.stage = "listing" /\ up' = Written(f) /\ k2.verdict = None
      BY <1>3, <1>8, <1>10 DEF End, List
    <2>3. Channels' BY <1>1, <1>4, <2>2 DEF Channels, Written
    <2>4. CASE c # 1
      BY <1>1, <1>4, <1>5, <2>1, <2>2, <2>3, <2>4, LaterCall
    <2>5. CASE c = 1
      <3>1. Silent' /\ Clean'
        <4>1. Silent BY <1>6, <2>5
        <4>2. No(up', "send") BY <1>1, <2>1, <2>2, <4>1, AddedUp DEF Silent
        <4>3. Nothing(up') /\ Nothing(stray) BY <4>1, <4>2, NoImplies DEF Silent
        <4> QED BY <1>4, <4>1, <4>2, <4>3 DEF Silent, Clean, No, Nothing
      <3> QED BY <1>1, <1>6, <2>2, <2>3, <2>5, <3>1, FirstChanged
    <2> QED BY <2>4, <2>5
  <1> QED BY <1>7, <1>9, <1>10

LEMMA CallFirst ==
    ASSUME FreshInv, NEW c \in Calls, Abort(c) \/ ListTimesOut(c) \/ SendTimesOut(c)
    PROVE  FreshInv'
  <1>1. ClientTypeOK /\ Channels /\ PinInv' /\ call[c] \in AnyCall
    BY CallPins DEF FreshInv, PinInv, ClientTypeOK
  <1>2. UNCHANGED <<link, up, down, stray, arrived>>
    BY DEF Abort, ListTimesOut, SendTimesOut, End, wireVars, brokerVars
  <1>3. Channels' BY <1>1, <1>2 DEF Channels
  <1>4. call[c].stage \in {"listing", "sent"}
    <2>1. c # 0 BY DEF Calls
    <2> QED BY <2>1 DEF Abort, ListTimesOut, SendTimesOut, FreshInv, PinInv, CallsFit
  <1>5. call[c].verdict = None BY <1>4 DEF FreshInv, PinInv, CallsFit, Well
  <1>6. /\ [call[c] EXCEPT !.aborted = TRUE].stage = call[c].stage
        /\ [call[c] EXCEPT !.aborted = TRUE].id = call[c].id
        /\ [call[c] EXCEPT !.aborted = TRUE].verdict = call[c].verdict
        /\ FailedBeforeSend(call[c]).stage = "done"
        /\ FailedBeforeSend(call[c]).id = call[c].id
        /\ Settled(call[c], "unknown").stage = "done"
        /\ Settled(call[c], "unknown").id = call[c].id
        /\ Settled(call[c], "unknown").verdict = "unknown"
    BY <1>1 DEF FailedBeforeSend, Settled, AnyCall
  <1>7. PICK k : call' = [call EXCEPT ![c] = k] /\ k.id = call[c].id
                  /\ \/ k.stage = call[c].stage /\ k.verdict = None
                     \/ k.stage = "done" /\ call[c].stage = "listing"
                     \/ k.stage = "done" /\ k.verdict = "unknown"
    <2>1. CASE Abort(c) BY <1>5, <1>6, <2>1 DEF Abort
    <2>2. CASE ListTimesOut(c) BY <1>6, <2>2 DEF ListTimesOut, End
    <2>3. CASE SendTimesOut(c)
      <3>1. call' = [call EXCEPT ![c] = Settled(call[c], "unknown")]
        BY <1>1, <2>3 DEF SendTimesOut, ClientTypeOK
      <3> QED BY <1>6, <3>1
    <2> QED BY <2>1, <2>2, <2>3
  <1>8. CASE c # 1
    <2>1. call[c].id = "retained" /\ call[1].stage # "idle"
             /\ (Fresh => call[1].stage = "done")
      BY <1>4, <1>8, Later
    <2> QED BY <1>1, <1>2, <1>3, <1>7, <1>8, <2>1, LaterCall
  <1>9. CASE c = 1
    <2>1. /\ Silent => Silent' /\ Clean'
          /\ Busy => Busy'
      <3>1. Silent => Clean BY SilentIsClean
      <3> QED BY <1>2, <3>1 DEF Silent, Clean, Busy, No, Nothing, AtMostOne, Accepting
    <2>2. k.id = "fresh" /\ k.stage # "done" =>
              \A d \in Calls : d # 1 => call[d].stage = "idle"
      BY <1>4, <1>7, <1>9 DEF FreshInv, Alone, Fresh
    <2>3. /\ k.id = "fresh" /\ k.stage = "listing" => Silent'
          /\ k.id = "fresh" /\ k.stage = "sent" => Busy'
          /\ k.id = "fresh" /\ k.verdict = "failed" => Clean'
      BY <1>4, <1>7, <1>9, <2>1, ClientAssumption DEF FreshInv, FirstCall, Fresh
    <2>4. k.stage # "idle" BY <1>4, <1>7
    <2> QED BY <1>1, <1>3, <1>7, <1>9, <2>2, <2>3, <2>4, FirstChanged
  <1> QED BY <1>8, <1>9

LEMMA SessionsFirst ==
    ASSUME FreshInv, HandleSessions PROVE FreshInv'
  <1> DEFINE c == Head(down).call
             k == call[c]
             r == Head(down).roster
  <1>1. ClientTypeOK /\ Channels /\ PinInv' BY SessionsPins DEF FreshInv, PinInv
  <1>2. /\ down \in Seq(DownFrame) /\ down # <<>> /\ down' = Tail(down)
        /\ link = "open" /\ UNCHANGED <<link, stray, arrived>>
        /\ Head(down).type = "sessions"
    BY <1>1 DEF HandleSessions, Received, ClientTypeOK, brokerVars
  <1>3. Head(down) \in DownFrame BY <1>2, Popped
  <1>4. c \in Calls /\ r \in Rosters BY <1>2, <1>3 DEF DownFrame
  <1>5. k \in AnyCall BY <1>1, <1>4 DEF ClientTypeOK
  <1>6. k.pin \in AnyPin BY <1>5 DEF AnyCall
  <1>7. \/ UNCHANGED <<call, sending, up>>
        \/ k.stage = "listing" /\ End(c, FailedBeforeSend(k))
        \/ k.stage = "listing" /\ \E t \in Resolved(k, r) : SendOnce(c, k, Pin(t, r[t]))
        \/ k.stage = "listing" /\ SendOnce(c, k, k.pin)
        \/ k.stage = "listing" /\ End(c, Settled(k, "failed"))
    BY DEF HandleSessions
  <1>8. /\ No(down, "answer") => No(down', "answer")
        /\ AtMostOne(down, "answer") => AtMostOne(down', "answer")
        /\ Accepting(down) => Accepting(down')
    BY <1>2, Rest
  <1>9. k.stage = "listing" => k.verdict = None
    BY <1>4 DEF FreshInv, PinInv, CallsFit, Well
  <1>10. /\ FailedBeforeSend(k).stage = "done" /\ FailedBeforeSend(k).id = k.id
         /\ Settled(k, "failed").stage = "done" /\ Settled(k, "failed").id = k.id
    BY <1>5 DEF FailedBeforeSend, Settled, AnyCall
  <1>11. c # 1 /\ k.stage = "listing" =>
             k.id = "retained" /\ call[1].stage # "idle" /\ (Fresh => call[1].stage = "done")
    BY <1>4, Later
  <1>12. c = 1 /\ k.stage = "listing" /\ k.id = "fresh" =>
             Silent /\ \A d \in Calls : d # 1 => call[d].stage = "idle"
    BY DEF FreshInv, Alone, FirstCall, Fresh
  <1>13. \A t \in Resolved(k, r) : t \in DOMAIN r BY DEF Resolved
  <1> HIDE DEF c, r
  <1>14. CASE UNCHANGED <<call, sending, up>>
    <2>1. Channels' BY <1>1, <1>2, <1>14 DEF Channels
    <2>2. Silent => Silent' BY <1>2, <1>8, <1>14 DEF Silent, No
    <2>3. Busy => Busy' BY <1>2, <1>8, <1>14 DEF Busy, AtMostOne, No, Accepting
    <2>4. Clean => Clean' BY <1>2, <1>14 DEF Clean, Nothing
    <2> QED BY <1>1, <1>14, <2>1, <2>2, <2>3, <2>4, SameCalls
  <1>15. ASSUME k.stage = "listing", NEW pin \in AnyPin, SendOnce(c, k, pin)
         PROVE  FreshInv'
    BY <1>1, <1>2, <1>4, <1>5, <1>9, <1>11, <1>12, <1>15, SendOnceFirst
  <1>16. ASSUME k.stage = "listing", NEW k2, End(c, k2), k2.stage = "done", k2.id = k.id
         PROVE  FreshInv'
    <2>1. call' = [call EXCEPT ![c] = k2] /\ up' = up BY <1>16 DEF End
    <2>2. Channels' BY <1>1, <1>2, <2>1 DEF Channels
    <2>3. CASE c # 1
      BY <1>1, <1>2, <1>4, <1>11, <1>16, <2>1, <2>2, <2>3, LaterCall
    <2>4. CASE c = 1
      <3>1. k2.id = "fresh" => Clean'
        <4> SUFFICES ASSUME k2.id = "fresh" PROVE Clean' OBVIOUS
        <4>1. Clean BY <1>12, <1>16, <2>4, SilentIsClean
        <4> QED BY <1>2, <2>1, <4>1 DEF Clean, Nothing
      <3> QED BY <1>1, <1>16, <2>1, <2>2, <2>4, <3>1, FirstChanged
    <2> QED BY <2>3, <2>4
  <1>17. CASE k.stage = "listing" /\ \E t \in Resolved(k, r) : SendOnce(c, k, Pin(t, r[t]))
    BY <1>4, <1>13, <1>15, <1>17, RosterPins
  <1>18. CASE k.stage = "listing" /\ SendOnce(c, k, k.pin)
    BY <1>6, <1>15, <1>18
  <1>19. CASE k.stage = "listing"
               /\ (End(c, FailedBeforeSend(k)) \/ End(c, Settled(k, "failed")))
    BY <1>10, <1>16, <1>19
  <1> QED BY <1>7, <1>14, <1>17, <1>18, <1>19

LEMMA AnswerFirst ==
    ASSUME FreshInv, HandleAnswer PROVE FreshInv'
  <1> DEFINE code == Head(down).code
             k == call[sending]
             f == [type |-> "list", call |-> sending]
  <1>1. ClientTypeOK /\ Channels /\ PinInv' BY AnswerPins DEF FreshInv, PinInv
  <1>2. /\ down \in Seq(DownFrame) /\ down # <<>> /\ down' = Tail(down)
        /\ link = "open" /\ UNCHANGED <<link, stray, arrived>> /\ stray = <<>>
        /\ Head(down).type = "answer"
    BY <1>1 DEF HandleAnswer, Received, ClientTypeOK, Channels, brokerVars
  <1>3. /\ No(down, "answer") => No(down', "answer")
        /\ AtMostOne(down, "answer") => AtMostOne(down', "answer") /\ No(down', "answer")
        /\ Accepting(down) => Accepting(down') /\ code = None
        /\ ~No(down, "answer")
    BY <1>2, Rest
  <1>4. CASE sending = 0
    <2>1. UNCHANGED <<call, up>> BY <1>4 DEF HandleAnswer
    <2>2. Channels' BY <1>1, <1>2, <2>1 DEF Channels
    <2>3. Silent => Silent' BY <1>2, <1>3, <2>1 DEF Silent, No
    <2>4. Busy => Busy' BY <1>2, <1>3, <2>1 DEF Busy, AtMostOne, No, Accepting
    <2>5. Clean => Clean' BY <1>2, <2>1 DEF Clean, Nothing
    <2> QED BY <1>1, <2>1, <2>2, <2>3, <2>4, <2>5, SameCalls
  <1>5. CASE sending # 0
    <2>1. sending \in Calls /\ k \in AnyCall /\ k.stage = "sent" /\ k.verdict = None
      <3>1. sending \in Calls BY <1>1, <1>5, ClientAssumption DEF ClientTypeOK, Calls
      <3>2. k.stage = "sent" BY <1>5 DEF FreshInv, PinInv, CallsFit
      <3>3. k.verdict = None BY <3>1, <3>2 DEF FreshInv, PinInv, CallsFit, Well
      <3> QED BY <1>1, <3>1, <3>2, <3>3 DEF ClientTypeOK
    <2>2. f \in UpFrame /\ f.type # "send" BY <2>1 DEF UpFrame
    <2>3. PICK k2 :
             /\ call' = [call EXCEPT ![sending] = k2] /\ k2.id = k.id
             /\ \/ /\ code = "E_TARGET_REBOUND" /\ up' = Written(f)
                   /\ k2.stage = "listing" /\ k2.verdict = None
                \/ /\ up' = up /\ k2.stage = "done"
                   /\ code = None => k2.verdict # "failed"
      <3>1. CASE Again(k, code)
        <4> DEFINE k2 == [k EXCEPT !.stage = "listing"]
        <4>1. call' = [call EXCEPT ![sending] = k2] /\ up' = Written(f)
          BY <1>1, <1>5, <3>1 DEF HandleAnswer, ClientTypeOK
        <4>2. k2.stage = "listing" /\ k2.id = k.id /\ k2.verdict = None
          BY <2>1 DEF AnyCall
        <4>3. code = "E_TARGET_REBOUND" BY <3>1 DEF Again
        <4> HIDE DEF k2
        <4> QED BY <4>1, <4>2, <4>3
      <3>2. CASE ~Again(k, code)
        <4> DEFINE v == IF code = None THEN "delivered" ELSE "failed"
                   k2 == Settled(k, v)
        <4>1. call' = [call EXCEPT ![sending] = k2] /\ up' = up
          BY <1>1, <1>5, <3>2 DEF HandleAnswer, ClientTypeOK
        <4>2. k2.stage = "done" /\ k2.id = k.id /\ k2.verdict = v
          BY <2>1 DEF Settled, AnyCall
        <4>3. code = None => v # "failed" OBVIOUS
        <4> HIDE DEF k2, v
        <4> QED BY <4>1, <4>2, <4>3
      <3> QED BY <3>1, <3>2
    <2>4. Channels' BY <1>1, <1>2, <2>3 DEF Channels
    <2>5. CASE sending # 1
      <3>1. k.id = "retained" /\ call[1].stage # "idle"
               /\ (Fresh => call[1].stage = "done")
        BY <2>1, <2>5, Later
      <3> QED BY <1>1, <1>2, <2>1, <2>2, <2>3, <2>4, <2>5, <3>1, LaterCall
    <2>6. CASE sending = 1
      <3>1. k2.id = "fresh" /\ k2.stage # "done" =>
                \A d \in Calls : d # 1 => call[d].stage = "idle"
        BY <2>1, <2>3, <2>6 DEF FreshInv, Alone, Fresh
      <3>2. k2.id = "fresh" /\ code # None =>
                /\ No(down', "answer") /\ No(up', "send")
                /\ No(stray', "send") /\ Nothing(up') /\ arrived' = {}
        <4> SUFFICES ASSUME k2.id = "fresh", code # None
                     PROVE  /\ No(down', "answer") /\ No(up', "send")
                            /\ No(stray', "send") /\ Nothing(up') /\ arrived' = {}
          OBVIOUS
        <4>1. Busy BY <2>1, <2>3, <2>6 DEF FreshInv, FirstCall, Fresh
        <4>2. No(up, "send") /\ No(down', "answer") BY <1>3, <4>1 DEF Busy
        <4>3. arrived = {} BY <1>3, <4>1 DEF Busy
        <4>4. No(up', "send")
          BY <1>1, <2>2, <2>3, <4>2, AddedUp
        <4>5. No(stray', "send") BY <1>2, NoneAtAll
        <4>6. Nothing(up') BY <4>4, NoImplies
        <4> QED BY <1>2, <4>2, <4>3, <4>4, <4>5, <4>6
      <3>3. k2.id = "fresh" /\ k2.stage = "listing" => Silent'
        <4> SUFFICES ASSUME k2.id = "fresh", k2.stage = "listing" PROVE Silent' OBVIOUS
        <4>1. code # None BY <2>3, ClientAssumption
        <4> QED BY <3>2, <4>1 DEF Silent, No
      <3>4. k2.id = "fresh" /\ k2.verdict = "failed" => Clean'
        <4> SUFFICES ASSUME k2.id = "fresh", k2.verdict = "failed" PROVE Clean' OBVIOUS
        <4>1. code # None BY <2>3, ClientAssumption
        <4>2. Nothing(stray') BY <1>2, NoneAtAll
        <4> QED BY <3>2, <4>1, <4>2 DEF Clean, Nothing
      <3> QED BY <1>1, <2>3, <2>4, <2>6, <3>1, <3>3, <3>4, FirstChanged
    <2> QED BY <2>5, <2>6
  <1> QED BY <1>4, <1>5

LEMMA CloseFirst ==
    ASSUME FreshInv, OnClose PROVE FreshInv'
  <1>1. ClientTypeOK /\ Channels /\ PinInv' BY ClosePins DEF FreshInv, PinInv
  <1>2. UNCHANGED <<up, down, stray, arrived>> /\ link = "destroyed" /\ link' = "down"
    BY DEF OnClose, wireVars, brokerVars
  <1>3. Channels' BY <1>1, <1>2 DEF Channels
  <1>4. ASSUME NEW c \in Calls
        PROVE  /\ call'[c].id = call[c].id
               /\ call'[c].stage = "idle" <=> call[c].stage = "idle"
               /\ call'[c].stage \in {"idle", "done"}
               /\ call'[c].verdict = "failed" =>
                     call[c].stage = "listing" \/ call[c].verdict = "failed"
    <2>1. call[c] \in AnyCall BY <1>1 DEF ClientTypeOK
    <2>2. call'[c] = IF call[c].stage = "listing" THEN FailedBeforeSend(call[c])
                     ELSE IF call[c].stage = "sent" THEN Settled(call[c], "unknown")
                     ELSE call[c]
      BY DEF OnClose, FailPending
    <2>3. /\ FailedBeforeSend(call[c]).stage = "done"
          /\ FailedBeforeSend(call[c]).id = call[c].id
          /\ Settled(call[c], "unknown").stage = "done"
          /\ Settled(call[c], "unknown").id = call[c].id
          /\ Settled(call[c], "unknown").verdict = "unknown"
      BY <2>1 DEF FailedBeforeSend, Settled, AnyCall
    <2>4. call[c].stage \in {"idle", "listing", "sent", "done"} BY <2>1 DEF AnyCall
    <2> QED BY <2>2, <2>3, <2>4
  <1>5. Alone' BY <1>4, OneIsACall DEF FreshInv, Alone, Fresh
  <1>6. /\ Silent => Silent' /\ Clean'
        /\ Clean => Clean'
    <2>1. Silent => Clean BY SilentIsClean
    <2> QED BY <1>2, <2>1 DEF Silent, Clean, No, Nothing
  <1>7. FirstCall' BY <1>4, <1>6, OneIsACall DEF FreshInv, FirstCall, Fresh
  <1> QED BY <1>1, <1>3, <1>5, <1>7 DEF FreshInv

LEMMA FreshInit == Init => FreshInv
  <1> SUFFICES ASSUME Init PROVE FreshInv OBVIOUS
  <1>1. PinInv BY PinInit
  <1>2. \A c \in Calls : call[c] = Idle BY DEF Init
  <1>3. Alone BY <1>2, OneIsACall DEF Alone, Fresh, Idle
  <1>4. Channels BY DEF Init, Channels
  <1>5. Silent BY DEF Init, Silent, No
  <1>6. FirstCall BY <1>2, <1>5, OneIsACall DEF FirstCall, Fresh, Idle
  <1> QED BY <1>1, <1>3, <1>4, <1>6 DEF FreshInv

LEMMA FreshStep == FreshInv /\ [ClientNext]_vars => FreshInv'
  <1> SUFFICES ASSUME FreshInv, [ClientNext]_vars PROVE FreshInv' OBVIOUS
  <1>1. CASE UNCHANGED vars
    <2>1. UNCHANGED <<link, call, up, down, stray, arrived>>
      BY <1>1 DEF vars, clientVars, wireVars, brokerVars
    <2>2. PinInv' BY PinStep DEF FreshInv
    <2>3. Channels' BY <2>1 DEF FreshInv, Channels
    <2>4. Silent => Silent' BY <2>1 DEF Silent, No
    <2>5. Busy => Busy' BY <2>1 DEF Busy, AtMostOne, No, Accepting
    <2>6. Clean => Clean' BY <2>1 DEF Clean, Nothing
    <2> QED BY <2>1, <2>2, <2>3, <2>4, <2>5, <2>6, SameCalls
  <1>2. CASE ClientNext
    BY <1>2, StartFirst, CallFirst, SessionsFirst, AnswerFirst, ConnectionFirst,
       CloseFirst, FrameFirst, StrayFirst, MoveFirst DEF ClientNext, StartSome
  <1> QED BY <1>1, <1>2

(* A known failure is true: a fresh id is one call's alone until that call *)
(* is done, which reports a failure only when nothing of it was written,   *)
(* or when its only frame was answered with a refusal.                     *)
THEOREM KnownFailures == ClientSpec => []KnownFailureIsTrue
  <1>1. FreshInv => KnownFailureIsTrue
    BY OneIsACall DEF FreshInv, Alone, FirstCall, Fresh, Clean, KnownFailureIsTrue
  <1> QED BY <1>1, FreshInit, FreshStep, PTL DEF ClientSpec

-----------------------------------------------------------------------------
(* Deliveries *)

(* The broker has an acceptance on record, or tells of one, only after an  *)
(* arrival.                                                                *)
RecordIsTrue == record # None /\ record.code = None => arrived # {}
AnswersAreTrue(s) ==
    \A i \in 1..Len(s) : s[i].type = "answer" /\ s[i].code = None => arrived # {}

DeliveryInv ==
    /\ FreshInv /\ RecordIsTrue /\ AnswersAreTrue(down)
    /\ KnownDeliveryIsTrue

(* A step that tells no caller of a delivery.                              *)
TellsNothing ==
    \A c \in Calls : call'[c].verdict = "delivered" =>
        call[c].verdict = "delivered" /\ call'[c].id = call[c].id

LEMMA DeliveriesKept ==
    ASSUME KnownDeliveryIsTrue, TellsNothing, arrived \subseteq arrived'
    PROVE  KnownDeliveryIsTrue'
  BY DEF KnownDeliveryIsTrue, TellsNothing

LEMMA EndTellsNothing ==
    ASSUME ClientTypeOK, NEW c \in Calls, NEW k, k.verdict # "delivered",
           call' = [call EXCEPT ![c] = k]
    PROVE  TellsNothing
  BY DEF ClientTypeOK, TellsNothing

LEMMA FailedTellsNothing ==
    ASSUME NEW k \in AnyCall
    PROVE  /\ FailedBeforeSend(k).verdict # "delivered"
           /\ Settled(k, "unknown").verdict # "delivered"
           /\ Settled(k, "failed").verdict # "delivered"
  BY DEF FailedBeforeSend, Settled, AnyCall

LEMMA SendOnceTellsNothing ==
    ASSUME ClientTypeOK, NEW c \in Calls, NEW k \in AnyCall, NEW pin,
           k.verdict # "delivered", SendOnce(c, k, pin)
    PROVE  TellsNothing
  <1>1. [k EXCEPT !.stage = "sent", !.attempt = @ + 1].verdict # "delivered"
    BY DEF AnyCall
  <1> QED BY <1>1, FailedTellsNothing, EndTellsNothing DEF SendOnce, End

LEMMA ListTellsNothing ==
    ASSUME ClientTypeOK, NEW c \in Calls, NEW k \in AnyCall,
           k.verdict # "delivered", List(c, k)
    PROVE  TellsNothing
  <1>1. [k EXCEPT !.stage = "listing"].verdict # "delivered"
    BY DEF AnyCall
  <1> QED BY <1>1, FailedTellsNothing, EndTellsNothing DEF List, End

(* Steps of a caller, and of the timers and closes that end its calls.     *)
LEMMA CallsTellNothing ==
    ASSUME ClientTypeOK, NEW c \in Calls,
           \/ StartSome(c) \/ Abort(c) \/ ListTimesOut(c) \/ SendTimesOut(c)
    PROVE  TellsNothing /\ UNCHANGED <<down, record, arrived>>
  <1>1. call[c] \in AnyCall BY DEF ClientTypeOK
  <1>2. ASSUME NEW kind \in Kinds, NEW id \in {"fresh", "retained"},
               NEW pin \in Pins(kind), Start(c, kind, pin, id)
        PROVE  TellsNothing /\ UNCHANGED <<down, record, arrived>>
    <2> DEFINE k == [Idle EXCEPT !.kind = kind, !.pin = pin, !.id = id]
    <2>1. pin \in AnyPin
      BY DEF Pins, Pin, ByName, AnyPin, ClientTypeOK
    <2>2. k \in AnyCall
      BY <2>1, ClientAssumption DEF Idle, AnyCall, ClientKinds
    <2>3. k.verdict # "delivered"
      BY ClientAssumption DEF Idle
    <2>4. \/ End(c, FailedBeforeSend(k)) \/ SendOnce(c, k, pin) \/ List(c, k)
      BY <1>2 DEF Start
    <2>5. UNCHANGED <<down, record, arrived>>
      BY <1>2 DEF Start, brokerVars
    <2> HIDE DEF k
    <2>6. CASE End(c, FailedBeforeSend(k))
      BY <2>2, <2>5, <2>6, FailedTellsNothing, EndTellsNothing DEF End
    <2> QED BY <2>2, <2>3, <2>4, <2>5, <2>6, SendOnceTellsNothing, ListTellsNothing
  <1>3. CASE Abort(c)
    <2>1. call' = [call EXCEPT ![c].aborted = TRUE] /\ UNCHANGED <<down, record, arrived>>
      BY <1>3 DEF Abort, wireVars, brokerVars
    <2> QED BY <1>1, <2>1 DEF TellsNothing, ClientTypeOK, AnyCall
  <1>4. CASE ListTimesOut(c)
    <2>1. UNCHANGED <<down, record, arrived>>
      BY <1>4 DEF ListTimesOut, brokerVars
    <2> QED BY <1>1, <1>4, <2>1, FailedTellsNothing, EndTellsNothing DEF ListTimesOut, End
  <1>5. CASE SendTimesOut(c)
    <2>1. call' = [call EXCEPT ![c] = Settled(call[c], "unknown")]
          /\ UNCHANGED <<down, record, arrived>>
      BY <1>5 DEF SendTimesOut, ClientTypeOK, wireVars, brokerVars
    <2> QED BY <1>1, <2>1, FailedTellsNothing, EndTellsNothing
  <1> QED BY <1>2, <1>3, <1>4, <1>5 DEF StartSome

LEMMA CloseTellsNothing ==
    ASSUME ClientTypeOK, OnClose
    PROVE  TellsNothing /\ UNCHANGED <<down, record, arrived>>
  <1>1. UNCHANGED <<down, record, arrived>>
    BY DEF OnClose, wireVars, brokerVars
  <1>2. ASSUME NEW c \in Calls, call'[c].verdict = "delivered"
        PROVE  call'[c] = call[c]
    <2>1. call[c] \in AnyCall
      BY DEF ClientTypeOK
    <2>2. call'[c] = IF call[c].stage = "listing" THEN FailedBeforeSend(call[c])
                     ELSE IF call[c].stage = "sent" THEN Settled(call[c], "unknown")
                     ELSE call[c]
      BY DEF OnClose, FailPending
    <2> QED BY <1>2, <2>1, <2>2, FailedTellsNothing
  <1> QED BY <1>1, <1>2 DEF TellsNothing

LEMMA SessionsTellNothing ==
    ASSUME PinInv, HandleSessions
    PROVE  TellsNothing /\ down # <<>> /\ down' = Tail(down) /\ UNCHANGED <<record, arrived>>
  <1> DEFINE c == Head(down).call
             k == call[c]
             r == Head(down).roster
  <1>1. Head(down) \in DownFrame /\ Head(down).type = "sessions"
    BY Popped DEF HandleSessions, Received, PinInv, ClientTypeOK
  <1>2. c \in Calls
    BY <1>1 DEF DownFrame
  <1>3. k \in AnyCall /\ ClientTypeOK
    BY <1>2 DEF PinInv, ClientTypeOK
  <1>4. k.stage = "listing" => k.verdict # "delivered"
    BY <1>2, ClientAssumption DEF PinInv, CallsFit, Well
  <1>5. \/ UNCHANGED <<call, sending, up>>
        \/ End(c, FailedBeforeSend(k))
        \/ k.stage = "listing" /\ \E t \in DOMAIN r : SendOnce(c, k, Pin(t, r[t]))
        \/ k.stage = "listing" /\ SendOnce(c, k, k.pin)
        \/ End(c, Settled(k, "failed"))
    BY DEF HandleSessions, Resolved
  <1>6. down # <<>> /\ down' = Tail(down) /\ UNCHANGED <<record, arrived>>
    BY DEF HandleSessions, Received, brokerVars
  <1> HIDE DEF c, k, r
  <1>7. CASE UNCHANGED <<call, sending, up>>
    BY <1>6, <1>7 DEF TellsNothing
  <1>8. CASE End(c, FailedBeforeSend(k)) \/ End(c, Settled(k, "failed"))
    BY <1>2, <1>3, <1>6, <1>8, FailedTellsNothing, EndTellsNothing DEF End
  <1>9. CASE k.stage = "listing" /\ \E t \in DOMAIN r : SendOnce(c, k, Pin(t, r[t]))
    BY <1>2, <1>3, <1>4, <1>6, <1>9, SendOnceTellsNothing
  <1>10. CASE k.stage = "listing" /\ SendOnce(c, k, k.pin)
    BY <1>2, <1>3, <1>4, <1>6, <1>10, SendOnceTellsNothing
  <1> QED BY <1>5, <1>7, <1>8, <1>9, <1>10

(* Answers on their way stay true, and so does what is added.              *)
LEMMA AnswersKept ==
    ASSUME ClientTypeOK, AnswersAreTrue(down), arrived \subseteq arrived',
           \/ down' = down \/ down' = <<>>
           \/ down # <<>> /\ down' = Tail(down)
           \/ \E f \in DownFrame : /\ down' = Append(down, f)
                                   /\ f.type = "answer" /\ f.code = None => arrived' # {}
    PROVE  AnswersAreTrue(down)'
  <1>1. down \in Seq(DownFrame) /\ Len(down) \in Nat
    BY DEF ClientTypeOK
  <1>2. CASE down' = down \/ down' = <<>>
    BY <1>2 DEF AnswersAreTrue
  <1>3. CASE down # <<>> /\ down' = Tail(down)
    <2>1. \A i \in 1..Len(down') : i + 1 \in 1..Len(down) /\ down'[i] = down[i + 1]
      BY <1>1, <1>3, Popped
    <2> QED BY <2>1 DEF AnswersAreTrue
  <1>4. ASSUME NEW f \in DownFrame, down' = Append(down, f),
               f.type = "answer" /\ f.code = None => arrived' # {}
        PROVE  AnswersAreTrue(down)'
    <2>1. \A i \in 1..Len(down') : \/ i \in 1..Len(down) /\ down'[i] = down[i]
                                   \/ down'[i] = f
      BY <1>1, <1>4, Pushed
    <2> QED BY <1>4, <2>1 DEF AnswersAreTrue
  <1> QED BY <1>2, <1>3, <1>4

(* An answer settles the call of its message id: what it tells has arrived,*)
(* and for the first call with the id, nobody else can have sent it.       *)
LEMMA AnswerDelivers ==
    ASSUME DeliveryInv, HandleAnswer
    PROVE  KnownDeliveryIsTrue'
  <1> DEFINE code == Head(down).code
             k == call[sending]
  <1>1. ClientTypeOK /\ CallsFit /\ ArrivalsFit /\ Alone /\ KnownDeliveryIsTrue
    BY DEF DeliveryInv, FreshInv, PinInv
  <1>2. arrived' = arrived
    BY DEF HandleAnswer, brokerVars
  <1>3. CASE sending = 0
    <2>1. call' = call
      BY <1>3 DEF HandleAnswer
    <2> QED BY <1>1, <1>2, <2>1 DEF KnownDeliveryIsTrue
  <1>4. CASE sending # 0
    <2>1. sending \in Calls
      BY <1>1, <1>4, ClientAssumption DEF ClientTypeOK, Calls
    <2>2. k \in AnyCall /\ k.stage = "sent" /\ k.verdict = None
      BY <1>1, <1>4, <2>1 DEF ClientTypeOK, CallsFit, Well
    <2>3. CASE Again(k, code)
      <3> DEFINE k2 == [k EXCEPT !.stage = "listing"]
      <3>1. call' = [call EXCEPT ![sending] = k2]
        BY <1>1, <1>4, <2>3 DEF HandleAnswer, ClientTypeOK
      <3>2. k2.verdict # "delivered"
        BY <2>2, ClientAssumption DEF AnyCall
      <3> HIDE DEF k2
      <3> QED BY <1>1, <1>2, <2>1, <3>1, <3>2, EndTellsNothing, DeliveriesKept
    <2>4. CASE ~Again(k, code) /\ code # None
      <3>1. call' = [call EXCEPT ![sending] = Settled(k, "failed")]
        BY <1>1, <1>4, <2>4 DEF HandleAnswer, ClientTypeOK
      <3>2. Settled(k, "failed").verdict # "delivered"
        BY <2>2, FailedTellsNothing
      <3> QED BY <1>1, <1>2, <2>1, <3>1, <3>2, EndTellsNothing, DeliveriesKept
    <2>5. CASE ~Again(k, code) /\ code = None
      <3>1. call' = [call EXCEPT ![sending] = Settled(k, "delivered")]
        BY <1>1, <1>4, <2>5 DEF HandleAnswer, ClientTypeOK
      <3>2. call'[sending].id = k.id /\ \A c \in Calls : c # sending => call'[c] = call[c]
        BY <1>1, <2>1, <2>2, <3>1 DEF Settled, AnyCall, ClientTypeOK
      <3>3. arrived # {}
        <4>1. down # <<>> /\ Head(down) = down[1] /\ 1 \in 1..Len(down)
          BY <1>1, Popped DEF HandleAnswer, Received, ClientTypeOK
        <4>2. Head(down).type = "answer"
          BY DEF HandleAnswer, Received
        <4> QED BY <2>5, <4>1, <4>2 DEF DeliveryInv, AnswersAreTrue
      <3>4. k.id = "fresh" => \A a \in arrived : a.call = sending
        <4> SUFFICES ASSUME k.id = "fresh", NEW a \in arrived PROVE a.call = sending
          OBVIOUS
        <4>1. sending = 1 /\ Fresh /\ call[1].stage # "done"
          BY <1>1, <2>1, <2>2 DEF Alone, Fresh
        <4>2. a.call \in Calls /\ call[a.call].stage # "idle"
          BY <1>1 DEF ArrivalsFit, ClientTypeOK
        <4> QED BY <1>1, <4>1, <4>2 DEF Alone
      <3> HIDE DEF k
      <3>5. ASSUME NEW c \in Calls, call'[c].verdict = "delivered"
            PROVE  \E a \in arrived : call'[c].id = "fresh" => a.call = c
        <4>1. CASE c = sending
          BY <3>2, <3>3, <3>4, <4>1
        <4>2. CASE c # sending
          BY <1>1, <3>2, <3>5, <4>2 DEF KnownDeliveryIsTrue
        <4> QED BY <4>1, <4>2
      <3> QED BY <1>2, <3>5 DEF KnownDeliveryIsTrue
    <2> QED BY <2>3, <2>4, <2>5
  <1> QED BY <1>3, <1>4

(* What the broker does with a send.                                       *)
SendIsTrue ==
    /\ arrived \subseteq arrived' /\ RecordIsTrue'
    /\ \/ down' = down
       \/ \E f \in DownFrame : /\ down' = Append(down, f)
                               /\ f.type = "answer" /\ f.code = None => arrived' # {}

LEMMA BrokerSends ==
    ASSUME ClientTypeOK, RecordIsTrue, NEW f \in UpFrame, f.type = "send", HandleSend(f)
    PROVE  SendIsTrue
  <1> DEFINE Codes == {None, "E_TARGET_NOT_FOUND", "E_TARGET_REBOUND",
                       "E_MESSAGE_ID_REUSE"}
             p == f.pin
             t == IF p.target = None THEN named ELSE p.target
             arrival(e) == [call |-> f.call, target |-> t, epoch |-> e]
  <1>1. ASSUME NEW code \in Codes, NEW rec, NEW acc, Answered(code, rec, acc),
               arrived \subseteq acc, code = None => acc # {},
               rec # None /\ rec.code = None => acc # {}
        PROVE  SendIsTrue
    <2> DEFINE g == [type |-> "answer", code |-> code]
    <2>1. g \in DownFrame /\ g.code = code
      BY DEF DownFrame
    <2>2. record' = rec /\ arrived' = acc /\ (down' = Append(down, g) \/ down' = down)
      BY <1>1 DEF Answered
    <2> HIDE DEF g
    <2> QED BY <1>1, <2>1, <2>2 DEF SendIsTrue, RecordIsTrue
  <1>2. \/ Answered("E_MESSAGE_ID_REUSE", record, arrived)
        \/ record # None /\ Answered(record.code, record, arrived)
        \/ \E e : Answered(None, [target |-> t, code |-> None], arrived \union {arrival(e)})
        \/ Answered("E_TARGET_NOT_FOUND", [target |-> t, code |-> "E_TARGET_NOT_FOUND"], arrived)
        \/ Answered("E_TARGET_REBOUND", [target |-> t, code |-> "E_TARGET_REBOUND"], arrived)
    BY DEF HandleSend, Replayed
  <1> HIDE DEF t, arrival
  <1>3. CASE Answered("E_MESSAGE_ID_REUSE", record, arrived)
    BY <1>1, <1>3, ClientAssumption DEF RecordIsTrue
  <1>4. CASE record # None /\ Answered(record.code, record, arrived)
    <2>1. record.code \in Codes
      BY <1>4 DEF ClientTypeOK, AnyRecord
    <2> QED BY <1>1, <1>4, <2>1 DEF RecordIsTrue
  <1>5. ASSUME NEW e,
               Answered(None, [target |-> t, code |-> None], arrived \union {arrival(e)})
        PROVE  SendIsTrue
    <2>1. arrived \subseteq arrived \union {arrival(e)} /\ arrived \union {arrival(e)} # {}
      OBVIOUS
    <2> QED BY <1>1, <1>5, <2>1
  <1>6. CASE Answered("E_TARGET_NOT_FOUND", [target |-> t, code |-> "E_TARGET_NOT_FOUND"], arrived)
    BY <1>1, <1>6, ClientAssumption
  <1>7. CASE Answered("E_TARGET_REBOUND", [target |-> t, code |-> "E_TARGET_REBOUND"], arrived)
    BY <1>1, <1>7, ClientAssumption
  <1> QED BY <1>2, <1>3, <1>4, <1>5, <1>6, <1>7

(* Steps of the broker.                                                    *)
LEMMA BrokerDelivers ==
    ASSUME ClientTypeOK, RecordIsTrue, HandleFrame \/ HandleStray
    PROVE  SendIsTrue /\ call' = call
  <1>1. call' = call
    BY DEF HandleFrame, HandleStray, clientVars
  <1>2. /\ HandleFrame => Head(up) \in UpFrame
        /\ HandleStray => Head(stray) \in UpFrame
    BY Popped DEF HandleFrame, HandleStray, ClientTypeOK
  <1>3. CASE \E f \in UpFrame : f.type = "send" /\ HandleSend(f)
    BY <1>1, <1>3, BrokerSends
  <1>4. CASE UNCHANGED <<down, record, arrived>>
    BY <1>1, <1>4 DEF SendIsTrue, RecordIsTrue
  <1>5. ASSUME NEW f \in DownFrame, f.type # "answer", down' = Append(down, f),
               UNCHANGED <<record, arrived>>
        PROVE  SendIsTrue
    BY <1>5 DEF SendIsTrue, RecordIsTrue
  <1>6. CASE HandleFrame /\ Head(up).type = "list"
             /\ down' = Append(down, [type |-> "sessions", call |-> Head(up).call,
                                      roster |-> Roster, named |-> named])
             /\ UNCHANGED <<record, arrived>>
    <2> DEFINE row == [type |-> "sessions", call |-> Head(up).call,
                       roster |-> Roster, named |-> named]
    <2>1. Roster \in Rosters
      BY DEF Roster, Rosters, ClientTypeOK
    <2>2. row \in DownFrame /\ row.type # "answer"
      BY <1>2, <1>6, <2>1 DEF UpFrame, DownFrame, ClientTypeOK
    <2> HIDE DEF row
    <2>3. down' = Append(down, row) /\ UNCHANGED <<record, arrived>>
      BY <1>6 DEF row
    <2> QED BY <1>1, <1>5, <2>2, <2>3
  <1>7. CASE down' = Append(down, [type |-> "alive"]) /\ UNCHANGED <<record, arrived>>
    <2>1. [type |-> "alive"] \in DownFrame /\ [type |-> "alive"].type # "answer"
      BY DEF DownFrame
    <2> QED BY <1>1, <1>5, <1>7, <2>1
  <1> QED BY <1>2, <1>3, <1>4, <1>6, <1>7 DEF HandleFrame, HandleStray

LEMMA DeliveryInit == Init => DeliveryInv
  <1> SUFFICES ASSUME Init PROVE DeliveryInv OBVIOUS
  <1>1. \A c \in Calls : call[c].verdict # "delivered"
    BY ClientAssumption DEF Init, Idle
  <1> QED BY <1>1, FreshInit DEF Init, DeliveryInv, RecordIsTrue, AnswersAreTrue, KnownDeliveryIsTrue

LEMMA DeliveryStep == DeliveryInv /\ [ClientNext]_vars => DeliveryInv'
  <1> SUFFICES ASSUME DeliveryInv, [ClientNext]_vars PROVE DeliveryInv' OBVIOUS
  <1>1. FreshInv'
    BY FreshStep DEF DeliveryInv
  <1>2. /\ FreshInv /\ PinInv /\ ClientTypeOK /\ RecordIsTrue
        /\ AnswersAreTrue(down) /\ KnownDeliveryIsTrue
    BY DEF DeliveryInv, FreshInv, PinInv
  <1>3. ASSUME TellsNothing \/ KnownDeliveryIsTrue', arrived' = arrived,
               record' \in {record, None},
               \/ down' = down \/ down' = <<>>
               \/ down # <<>> /\ down' = Tail(down)
        PROVE  DeliveryInv'
    <2>1. KnownDeliveryIsTrue'
      BY <1>2, <1>3, DeliveriesKept
    <2>2. RecordIsTrue'
      BY <1>2, <1>3 DEF RecordIsTrue
    <2>3. AnswersAreTrue(down)'
      BY <1>2, <1>3, AnswersKept
    <2> QED BY <1>1, <2>1, <2>2, <2>3 DEF DeliveryInv
  <1>4. ASSUME NEW c \in Calls,
               StartSome(c) \/ Abort(c) \/ ListTimesOut(c) \/ SendTimesOut(c)
        PROVE  DeliveryInv'
    BY <1>2, <1>3, <1>4, CallsTellNothing
  <1>5. CASE HandleSessions
    BY <1>2, <1>3, <1>5, SessionsTellNothing
  <1>6. CASE HandleAnswer
    <2>1. /\ down # <<>> /\ down' = Tail(down) /\ arrived' = arrived /\ record' = record
      BY <1>6 DEF HandleAnswer, Received, brokerVars
    <2> QED BY <1>3, <1>6, <2>1, AnswerDelivers
  <1>7. CASE OnClose
    BY <1>2, <1>3, <1>7, CloseTellsNothing
  <1>8. CASE Probe \/ ProbeAnswered \/ ProbeTimesOut \/ SocketFails \/ FallSilent \/ Reconnect
    <2>1. call' = call /\ arrived' = arrived /\ record' \in {record, None}
      BY <1>8 DEF Probe, ProbeAnswered, ProbeTimesOut, SocketFails, FallSilent,
         Reconnect, brokerVars
    <2>2. \/ down' = down \/ down' = <<>>
          \/ down # <<>> /\ down' = Tail(down)
      BY <1>8 DEF Probe, ProbeAnswered, ProbeTimesOut, SocketFails, FallSilent,
         Reconnect, Destroy, Received
    <2>3. TellsNothing
      BY <2>1 DEF TellsNothing
    <2> QED BY <1>3, <2>1, <2>2, <2>3
  <1>9. CASE HandleFrame \/ HandleStray
    <2>1. SendIsTrue /\ call' = call
      BY <1>2, <1>9, BrokerDelivers
    <2>2. KnownDeliveryIsTrue'
      BY <1>2, <2>1, DeliveriesKept DEF SendIsTrue, TellsNothing
    <2>3. AnswersAreTrue(down)'
      BY <1>2, <2>1, AnswersKept DEF SendIsTrue
    <2> QED BY <1>1, <2>1, <2>2, <2>3 DEF DeliveryInv, SendIsTrue
  <1>10. CASE UNCHANGED <<call, down, record, arrived>>
    BY <1>3, <1>10 DEF TellsNothing
  <1>11. ASSUME NEW t \in Targets, TargetRegisters(t) \/ TargetLeaves(t) \/ NameMoves(t)
         PROVE  UNCHANGED <<call, down, record, arrived>>
    BY <1>11 DEF TargetRegisters, TargetLeaves, NameMoves, clientVars, wireVars
  <1>12. CASE UNCHANGED vars
    BY <1>10, <1>12 DEF vars, clientVars, wireVars, brokerVars
  <1> QED BY <1>4, <1>5, <1>6, <1>7, <1>8, <1>9, <1>10, <1>11, <1>12 DEF ClientNext

(* A call is told of a delivery only when the message has arrived, and the *)
(* first call with its id only when its own has: an answer is of a record, *)
(* a record of an acceptance, and nobody else has sent while a first call  *)
(* waits. With KnownFailures: what a call tells for certain is so.         *)
THEOREM KnownOutcomes == ClientSpec => []KnownOutcomesAreTrue
  <1>1. DeliveryInv => KnownDeliveryIsTrue
    BY DEF DeliveryInv
  <1>2. ClientSpec => []KnownDeliveryIsTrue
    BY <1>1, DeliveryInit, DeliveryStep, PTL DEF ClientSpec
  <1> QED BY <1>2, KnownFailures, PTL DEF KnownOutcomesAreTrue
=============================================================================
