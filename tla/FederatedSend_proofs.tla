------------------------ MODULE FederatedSend_proofs ------------------------
(***************************************************************************)
(* Proofs about FederatedSend, for any number of instructions, handles,    *)
(* attempts, incarnations and faults: type correctness, the endpoint that  *)
(* a handle reaches, and that a routed send keeps PeerDispatch's promise.  *)
(***************************************************************************)
EXTENDS FederatedSend, TLAPS

Elems(q) == {q[i] : i \in 1..Len(q)}

LEMMA TailElems ==
    ASSUME NEW S, NEW q \in Seq(S), q # <<>>
    PROVE  /\ Tail(q) \in Seq(S) /\ Head(q) \in S
           /\ Head(q) \in Elems(q) /\ Elems(Tail(q)) \subseteq Elems(q)
BY DEF Elems

LEMMA AppendElems ==
    ASSUME NEW S, NEW q \in Seq(S), NEW e \in S
    PROVE  Append(q, e) \in Seq(S) /\ Elems(Append(q, e)) = Elems(q) \cup {e}
<1>1. Append(q, e) \in Seq(S) /\ Len(Append(q, e)) = Len(q) + 1
  OBVIOUS
<1>2. \A i \in 1..Len(q) : Append(q, e)[i] = q[i]
  OBVIOUS
<1>3. Append(q, e)[Len(q) + 1] = e
  OBVIOUS
<1> QED BY <1>1, <1>2, <1>3 DEF Elems

LEMMA ElemsIn == ASSUME NEW S, NEW q \in Seq(S) PROVE Elems(q) \subseteq S
BY DEF Elems

LEMMA EmptyElems == ASSUME NEW S PROVE <<>> \in Seq(S) /\ Elems(<<>>) = {}
BY DEF Elems

-----------------------------------------------------------------------------
(* Types *)

OriginTypes ==
    /\ life \in Nat /\ olink \in BOOLEAN
    /\ imported \in 0..MaxTargets /\ speaks \in BOOLEAN
    /\ prepared \in [Handles -> 0..MaxTargets]
    /\ record \in [Ids -> {"none", "unknown", "failed", "rebound", "delivered"}]
    /\ inFlight \subseteq Ids /\ pending \subseteq Sends

LedgerTypes ==
    /\ journal \in {"open", "closed", "failed"} /\ torn \in BOOLEAN
    /\ barred \subseteq Ids /\ bound \subseteq Handles /\ faults \in Nat

LinkTypes ==
    requests \in Seq(Sends) /\ results \in Seq(Answers)

DestTypes ==
    /\ dlink \in BOOLEAN /\ target \in 1..MaxTargets /\ present \in BOOLEAN
    /\ seen \subseteq Sends /\ accepted \subseteq Ids /\ admits \in BOOLEAN

HistoryTypes ==
    /\ frame \in [Sends -> Frames \cup {NoFrame}]
    /\ verdict \in [Sends -> {"none", "open", "delivered", "failed", "unknown"}]
    /\ reached \in [Sends -> 0..MaxTargets]

PartsOK == OriginTypes /\ LedgerTypes /\ LinkTypes /\ DestTypes /\ HistoryTypes

LEMMA TypesInParts == SendTypeOK <=> PartsOK
BY DEF SendTypeOK, PartsOK, OriginTypes, LedgerTypes, LinkTypes, DestTypes, HistoryTypes

LEMMA NextTypesInParts == SendTypeOK' <=> PartsOK'
BY DEF SendTypeOK, PartsOK, OriginTypes, LedgerTypes, LinkTypes, DestTypes, HistoryTypes

LEMMA KeysAreIds == SendTypeOK => \A m \in Ids : Keys(m) \subseteq Ids
BY SendAssumption DEF SendTypeOK, Keys, SendAssumption, Ids

LEMMA RemainsTypes ==
    ASSUME LedgerTypes, NEW b \in SUBSET Ids, NEW d \in SUBSET Handles,
           Remains(b, d) \/ UNCHANGED <<torn, barred, bound>>
    PROVE  torn' \in BOOLEAN /\ barred' \subseteq Ids /\ bound' \subseteq Handles
<1>1. torn' \in BOOLEAN
  BY Zenon DEF LedgerTypes, Remains
<1> QED BY <1>1 DEF LedgerTypes, Remains

LEMMA ResultsNamed == SendTypeOK => \A r \in Elems(results) : r \in Answers /\ r.send \in Sends
<1> SUFFICES ASSUME SendTypeOK PROVE Elems(results) \subseteq Answers
  BY DEF Answers
<1> QED BY ElemsIn DEF SendTypeOK

LEMMA AppendedTypes ==
    ASSUME LedgerTypes, NEW b \in SUBSET Ids, NEW d \in SUBSET Handles,
           Appended(b, d) \/ AppendFails(b, d)
    PROVE  LedgerTypes'
<1>1. CASE Appended(b, d)
  BY <1>1, Zenon DEF LedgerTypes, Appended
<1>2. CASE AppendFails(b, d)
  <2>1. torn' \in BOOLEAN /\ barred' \subseteq Ids /\ bound' \subseteq Handles
    BY <1>2, RemainsTypes DEF AppendFails
  <2>2. faults' \in Nat
    BY <1>2 DEF AppendFails, LedgerTypes
  <2>3. journal' \in {"open", "closed", "failed"}
    BY <1>2 DEF AppendFails
  <2> QED BY <2>1, <2>2, <2>3 DEF LedgerTypes
<1> QED BY <1>1, <1>2

LEMMA StartAgainTypes ==
    ASSUME SendTypeOK, NEW b \in SUBSET Ids, NEW d \in SUBSET Handles, NEW F,
           Remains(b, d) \/ UNCHANGED <<torn, barred, bound>>, StartAgain(F)
    PROVE  SendTypeOK'
<1> USE TypesInParts DEF PartsOK
<1>1. OriginTypes'
  <2>1. life' \in Nat /\ imported' \in 0..MaxTargets
    BY SendAssumption DEF OriginTypes, StartAgain, SendAssumption
  <2>2. olink' \in BOOLEAN /\ speaks' \in BOOLEAN
    BY Zenon DEF OriginTypes, StartAgain
  <2> QED BY <2>1, <2>2 DEF OriginTypes, StartAgain
<1>2. LedgerTypes'
  BY RemainsTypes DEF LedgerTypes, StartAgain
<1>3. LinkTypes'
  BY DEF LinkTypes, StartAgain
<1>4. DestTypes'
  BY Zenon DEF DestTypes, StartAgain, destVars
<1>5. HistoryTypes'
  BY DEF HistoryTypes, StartAgain
<1> QED BY <1>1, <1>2, <1>3, <1>4, <1>5, NextTypesInParts

LEMMA ConcludeTypes ==
    ASSUME SendTypeOK, NEW D, NEW v \in {"delivered", "failed", "unknown"},
           NEW kept \in {"unknown", "failed", "rebound", "delivered"},
           Conclude(D, v, kept)
    PROVE  /\ record' \in [Ids -> {"none", "unknown", "failed", "rebound", "delivered"}]
           /\ inFlight' \subseteq Ids /\ pending' \subseteq Sends
           /\ verdict' \in [Sends -> {"none", "open", "delivered", "failed", "unknown"}]
<1>1. record' \in [Ids -> {"none", "unknown", "failed", "rebound", "delivered"}]
  BY DEF Conclude, SendTypeOK
<1>2. inFlight' \subseteq Ids /\ pending' \subseteq Sends
  BY Zenon DEF Conclude, SendTypeOK
<1>3. verdict' \in [Sends -> {"none", "open", "delivered", "failed", "unknown"}]
  BY DEF Conclude, SendTypeOK
<1> QED BY <1>1, <1>2, <1>3

LEMMA AnswerTypes ==
    ASSUME LinkTypes, NEW n \in Sends, NEW code \in Codes, Answer(n, code)
    PROVE  /\ results' \in Seq(Answers)
           /\ Elems(results') \subseteq Elems(results) \cup {[send |-> n, code |-> code]}
<1> DEFINE r == [send |-> n, code |-> code]
<1>1. r \in Answers
  BY DEF Answers
<1>2. results' = results \/ results' = Append(results, r)
  BY DEF Answer
<1>3. results \in Seq(Answers)
  BY DEF LinkTypes
<1> HIDE DEF r
<1>4. CASE results' = results
  BY <1>3, <1>4
<1>5. CASE results' = Append(results, r)
  <2>1. /\ Append(results, r) \in Seq(Answers)
        /\ Elems(Append(results, r)) = Elems(results) \cup {r}
    BY <1>1, <1>3, AppendElems
  <2> QED BY <1>5, <2>1, Zenon DEF r
<1> QED BY <1>2, <1>4, <1>5 DEF r

-----------------------------------------------------------------------------
(* The inductive invariant *)

(* An attempt that may have been written, or may yet be.                   *)
Outstanding(n) == verdict[n] \in {"open", "unknown", "delivered"}

(* An attempt that is not written and never will be.                       *)
Unwritten(n) == reached[n] = 0 /\ (n \in Elems(requests) => n \in seen)

(* Ids that are unused have left no trace.                                 *)
Unused(n) ==
    /\ verdict[n] = "none" /\ reached[n] = 0 /\ n \notin seen
    /\ n \notin Elems(requests) /\ \A r \in Elems(results) : r.send # n

Framed == \A n \in Sends :
    /\ frame[n] = NoFrame => Unused(n)
    /\ verdict[n] = "none" => frame[n] = NoFrame

OpenIsPending == \A n \in Sends : verdict[n] = "open" <=> n \in pending

(* The journal bars what is outstanding, under both of its ids.            *)
Barred(n) ==
    /\ frame[n].msg \in barred /\ Operation(frame[n].msg) \in barred
    /\ frame[n].msg \in Handles => frame[n].msg \in bound
Barriers == \A n \in Sends : Outstanding(n) => Barred(n)

OnePerOperation == \A n, k \in Sends :
    Outstanding(n) /\ Outstanding(k) /\ Operation(frame[n].msg) = Operation(frame[k].msg)
        => n = k

Pinned == \A n \in Sends : frame[n].msg \in Handles =>
    frame[n].pin # 0 /\ frame[n].pin = prepared[frame[n].msg]

(* What is left of an attempt on the link agrees with its verdict.         *)
WrittenOnce == \A n \in Sends :
    /\ reached[n] # 0 /\ n \in Elems(requests) => n \in seen
    /\ verdict[n] = "failed" => Unwritten(n)
    /\ verdict[n] = "delivered" => reached[n] # 0

AnswersTrue == \A r \in Elems(results) :
    /\ r.code = "ok" => reached[r.send] # 0
    /\ r.code \in {"refused", "rebound"} => Unwritten(r.send)

IInv ==
    /\ SendTypeOK /\ Framed /\ OpenIsPending /\ Barriers /\ OnePerOperation
    /\ Pinned /\ WrittenOnce /\ AnswersTrue
    /\ InFlightIsPending /\ HandlesKeepTheirEndpoint

LEMMA InitInv == SendInit => IInv
<1> SUFFICES ASSUME SendInit PROVE IInv
  OBVIOUS
<1>1. SendTypeOK
  <2>1. /\ life \in Nat /\ imported \in 0..MaxTargets /\ target \in 1..MaxTargets /\ faults \in Nat
        /\ prepared \in [Handles -> 0..MaxTargets] /\ reached \in [Sends -> 0..MaxTargets]
    BY SendAssumption DEF SendInit, SendAssumption
  <2>2. /\ olink \in BOOLEAN /\ speaks \in BOOLEAN /\ torn \in BOOLEAN
        /\ dlink \in BOOLEAN /\ present \in BOOLEAN /\ admits \in BOOLEAN
    BY Zenon DEF SendInit
  <2>3. requests \in Seq(Sends) /\ results \in Seq(Answers)
    BY DEF SendInit
  <2>4. /\ record \in [Ids -> {"none", "unknown", "failed", "rebound", "delivered"}]
        /\ frame \in [Sends -> Frames \cup {NoFrame}]
        /\ verdict \in [Sends -> {"none", "open", "delivered", "failed", "unknown"}]
    BY DEF SendInit
  <2> QED BY <2>1, <2>2, <2>3, <2>4 DEF SendInit, SendTypeOK
<1>2. Elems(requests) = {} /\ Elems(results) = {}
  BY EmptyElems DEF SendInit
<1>3. \A n \in Sends : frame[n].msg \notin Handles
  BY SendAssumption DEF SendInit, NoFrame, SendAssumption, Ids
<1>4. Framed /\ OpenIsPending /\ Barriers /\ OnePerOperation /\ WrittenOnce /\ AnswersTrue
  BY <1>2 DEF SendInit, Framed, Unused, OpenIsPending, Barriers, OnePerOperation,
     WrittenOnce, AnswersTrue, Outstanding
<1>5. Pinned /\ HandlesKeepTheirEndpoint
  BY <1>3 DEF Pinned, HandlesKeepTheirEndpoint
<1>6. InFlightIsPending
  BY DEF SendInit, InFlightIsPending
<1> QED BY <1>1, <1>4, <1>5, <1>6 DEF IInv

-----------------------------------------------------------------------------
(* Steps that conclude nothing and write nothing *)

Untouched == UNCHANGED <<frame, verdict, reached, pending, inFlight>>

(* The ledger and what was prepared only grow.                             *)
Grows ==
    /\ barred \subseteq barred' /\ bound \subseteq bound'
    /\ \A h \in Handles : prepared[h] # 0 => prepared'[h] = prepared[h]

(* The link moves on: nothing is requested again that was not seen.        *)
LinkMoves ==
    \/ Elems(requests') = {} /\ seen' = {}
    \/ /\ Elems(requests') \subseteq Elems(requests) \cup seen
       /\ seen \subseteq seen' /\ seen' \subseteq seen \cup Elems(requests)

AnswerHolds(r) ==
    /\ r.send \in Sends /\ frame[r.send] # NoFrame
    /\ r.code = "ok" => reached[r.send] # 0
    /\ r.code \in {"refused", "rebound"} => Unwritten(r.send)

Quiet ==
    /\ Untouched /\ Grows /\ LinkMoves
    /\ \A r \in Elems(results') : r \in Elems(results) \/ AnswerHolds(r)'

LEMMA QuietInv == ASSUME IInv, SendTypeOK', Quiet PROVE IInv'
<1> USE DEF Quiet
<1>1. \A n \in Sends : Unwritten(n) => Unwritten(n)'
  BY DEF Unwritten, Untouched, LinkMoves
<1>2. \A n \in Sends : frame[n] = NoFrame => n \notin Elems(requests) \cup seen
  BY DEF IInv, Framed, Unused
<1>3. Framed'
  BY <1>2 DEF IInv, Framed, Unused, Untouched, LinkMoves, AnswerHolds
<1>4. OpenIsPending'
  BY DEF IInv, OpenIsPending, Untouched
<1>5. Barriers' /\ OnePerOperation'
  BY DEF IInv, Barriers, Barred, OnePerOperation, Outstanding, Untouched, Grows
<1>6. Pinned'
  BY DEF IInv, Pinned, Untouched, Grows
<1>7. WrittenOnce'
  BY <1>1 DEF IInv, WrittenOnce, Untouched, LinkMoves
<1>8. AnswersTrue'
  <2> SUFFICES ASSUME NEW r \in Elems(results')
               PROVE  /\ r.code = "ok" => reached'[r.send] # 0
                      /\ r.code \in {"refused", "rebound"} => Unwritten(r.send)'
    BY DEF AnswersTrue
  <2>1. CASE r \in Elems(results)
    <3>1. r.send \in Sends
      BY <2>1, ResultsNamed DEF IInv
    <3> QED BY <1>1, <2>1, <3>1 DEF IInv, AnswersTrue, Untouched
  <2>2. CASE AnswerHolds(r)'
    BY <2>2 DEF AnswerHolds
  <2> QED BY <2>1, <2>2
<1>9. InFlightIsPending'
  BY DEF IInv, InFlightIsPending, Untouched
<1>10. HandlesKeepTheirEndpoint'
  <2> SUFFICES ASSUME NEW n \in Sends, reached[n] # 0, frame[n].msg \in Handles
               PROVE  reached[n] = prepared'[frame[n].msg]
    BY DEF HandlesKeepTheirEndpoint, Untouched
  <2>1. reached[n] = prepared[frame[n].msg]
    BY DEF IInv, HandlesKeepTheirEndpoint
  <2> QED BY <2>1 DEF Grows
<1> QED BY <1>3, <1>4, <1>5, <1>6, <1>7, <1>8, <1>9, <1>10 DEF IInv

-----------------------------------------------------------------------------
(* Steps that conclude attempts                                            *)

(* The attempts F failed, D end as v, the ledger may forget what F barred. *)
Concluded(F, D, v) ==
    /\ F \subseteq pending /\ D \subseteq pending
    /\ v \in {"unknown", "delivered"}
    /\ verdict' = [n \in Sends |-> IF n \in F THEN "failed"
                                   ELSE IF n \in D THEN v ELSE verdict[n]]
    /\ pending' = pending \ (F \cup D)
    /\ inFlight' = inFlight \ {frame[n].msg : n \in F \cup D}
    /\ bound \subseteq bound'
    /\ \A m \in barred \ barred' :
          \E n \in F : frame[n].msg \in Ids /\ m \in {frame[n].msg, Operation(frame[n].msg)}
    /\ \A n \in F : Unwritten(n)
    /\ v = "delivered" => F = {} /\ \E n \in D : D = {n} /\ reached[n] # 0
    /\ UNCHANGED <<frame, reached, prepared, requests, seen>>
    /\ Elems(results') \subseteq Elems(results)

LEMMA FramesOfUsed ==
    ASSUME IInv
    PROVE  \A n \in Sends : verdict[n] # "none" => frame[n] \in Frames /\ frame[n].msg \in Ids
BY DEF IInv, SendTypeOK, Framed, Unused, Frames

LEMMA ConcludedInv ==
    ASSUME IInv, SendTypeOK', NEW F, NEW D, NEW v, Concluded(F, D, v)
    PROVE  IInv'
<1>1. F \subseteq Sends /\ D \subseteq Sends
  BY DEF IInv, SendTypeOK, Concluded
<1>2. \A n \in Sends : verdict'[n] = IF n \in F THEN "failed"
                                     ELSE IF n \in D THEN v ELSE verdict[n]
  BY DEF Concluded
<1>3. \A n \in F \cup D : verdict[n] = "open"
  BY <1>1 DEF Concluded, IInv, OpenIsPending
<1>4. \A n \in Sends : Unwritten(n) => Unwritten(n)'
  BY DEF Unwritten, Concluded
<1>5. Framed'
  BY <1>1, <1>2, <1>3 DEF IInv, Framed, Unused, Concluded
<1>6. OpenIsPending'
  BY <1>1, <1>2 DEF IInv, OpenIsPending, Concluded
<1>7. \A n \in Sends : Outstanding(n)' => Outstanding(n) /\ n \notin F
  BY <1>1, <1>2, <1>3 DEF Outstanding
<1>8. OnePerOperation'
  BY <1>7 DEF IInv, OnePerOperation, Concluded
<1>9. Barriers'
  <2> SUFFICES ASSUME NEW n \in Sends, Outstanding(n)' PROVE Barred(n)'
    BY DEF Barriers
  <2>1. Outstanding(n) /\ n \notin F /\ Barred(n)
    BY <1>7 DEF IInv, Barriers
  <2>2. \A k \in F : Outstanding(k) /\ k # n
    BY <1>3, <2>1 DEF Outstanding
  <2>3. \A k \in F : Operation(frame[k].msg) # Operation(frame[n].msg)
    BY <1>1, <2>1, <2>2 DEF IInv, OnePerOperation
  <2>4. frame[n].msg \in Ids /\ \A k \in F : frame[k].msg \in Ids
    BY <1>1, <1>3, <2>1, FramesOfUsed DEF Outstanding
  <2>5. \A k \in F : frame[n].msg # frame[k].msg
    BY <2>3
  <2>6. \A m \in Ids : Operation(Operation(m)) = Operation(m)
    BY SendAssumption DEF SendAssumption, Operation, Ids
  <2>7. frame[n].msg \in barred' /\ Operation(frame[n].msg) \in barred'
    BY <2>1, <2>3, <2>4, <2>5, <2>6 DEF Concluded, Barred
  <2> QED BY <2>1, <2>7 DEF Barred, Concluded
<1>10. Pinned' /\ HandlesKeepTheirEndpoint'
  BY DEF IInv, Pinned, HandlesKeepTheirEndpoint, Concluded
<1>11. WrittenOnce'
  <2>1. \A n \in Sends : verdict'[n] = "failed" => Unwritten(n)'
    BY <1>2, <1>4 DEF IInv, WrittenOnce, Concluded
  <2>2. \A n \in Sends : verdict'[n] = "delivered" => reached'[n] # 0
    BY <1>2 DEF IInv, WrittenOnce, Concluded
  <2> QED BY <2>1, <2>2 DEF IInv, WrittenOnce, Concluded
<1>12. AnswersTrue'
  <2>1. \A r \in Elems(results') : r \in Elems(results) /\ r.send \in Sends
    BY ResultsNamed DEF Concluded, IInv
  <2> QED BY <1>4, <2>1 DEF IInv, AnswersTrue, Concluded
<1>13. InFlightIsPending'
  <2>1. \A n, k \in Sends : Outstanding(n) /\ Outstanding(k) /\ frame[n].msg = frame[k].msg => n = k
    BY DEF IInv, OnePerOperation
  <2>2. \A n \in pending : n \in Sends /\ Outstanding(n)
    BY DEF IInv, SendTypeOK, OpenIsPending, Outstanding
  <2>3. F \cup D \subseteq pending /\ inFlight = {frame[n].msg : n \in pending}
    BY DEF Concluded, IInv, InFlightIsPending
  <2>4. {frame[n].msg : n \in pending} \ {frame[n].msg : n \in F \cup D}
           = {frame[n].msg : n \in pending \ (F \cup D)}
    BY <2>1, <2>2, <2>3
  <2> QED BY <2>3, <2>4 DEF InFlightIsPending, Concluded
<1> QED BY <1>5, <1>6, <1>8, <1>9, <1>10, <1>11, <1>12, <1>13 DEF IInv

-----------------------------------------------------------------------------
(* Dispatch and Accept                                                     *)

LEMMA DispatchInv ==
    ASSUME IInv, SendTypeOK', NEW m \in Ids, NEW n \in Sends, NEW pin \in Pins(m),
           Dispatch(m, n, pin)
    PROVE  IInv'
<1>1. /\ frame[n] = NoFrame /\ Unused(n)
      /\ \A k \in Sends : frame'[k] = IF k = n THEN [msg |-> m, pin |-> pin] ELSE frame[k]
      /\ \A k \in Sends : verdict'[k] = IF k = n THEN "open" ELSE verdict[k]
  BY DEF Dispatch, IInv, Framed, SendTypeOK
<1>2. /\ UNCHANGED <<reached, seen, results, prepared, bound>>
      /\ barred' = barred \cup Keys(m)
      /\ pending' = pending \cup {n} /\ inFlight' = inFlight \cup {m}
      /\ Elems(requests') \subseteq Elems(requests) \cup {n}
  <2>1. requests \in Seq(Sends)
    BY DEF IInv, SendTypeOK
  <2>2. Elems(requests') \subseteq Elems(requests) \cup {n}
    BY <2>1, AppendElems DEF Dispatch
  <2> QED BY <2>2 DEF Dispatch, Appended, destVars
<1>3. /\ m \in Handles => m \in bound /\ pin = prepared[m] /\ pin # 0
      /\ m \in Keys(m) /\ Operation(m) \in Keys(m)
  BY DEF Dispatch, Admissible, Routable, Pins, Keys, Operation
<1>4. Keys(m) \cap barred = {}
  BY DEF Dispatch, HasDispatched
<1>5. m # None /\ [msg |-> m, pin |-> pin] # NoFrame
  BY SendAssumption DEF NoFrame, SendAssumption
<1>6. \A k \in Sends : Unwritten(k) /\ k # n => Unwritten(k)'
  BY <1>2 DEF Unwritten
<1>7. Framed'
  BY <1>1, <1>2, <1>5 DEF IInv, Framed, Unused
<1>8. OpenIsPending'
  BY <1>1, <1>2 DEF IInv, OpenIsPending
<1>9. \A k \in Sends : Outstanding(k)' <=> Outstanding(k) \/ k = n
  BY <1>1 DEF Outstanding
<1>10. Barriers'
  <2> SUFFICES ASSUME NEW k \in Sends, Outstanding(k)' PROVE Barred(k)'
    BY DEF Barriers
  <2>1. CASE k = n
    BY <1>1, <1>2, <1>3, <2>1 DEF Barred
  <2>2. CASE k # n
    BY <1>1, <1>2, <1>9, <2>2 DEF Barred, IInv, Barriers
  <2> QED BY <2>1, <2>2
<1>11. OnePerOperation'
  <2>1. \A k \in Sends : Outstanding(k) => Operation(frame[k].msg) # Operation(m)
    BY <1>3, <1>4 DEF IInv, Barriers, Barred
  <2>2. \A k \in Sends : Outstanding(k) => k # n
    BY <1>1 DEF Outstanding, Unused
  <2> QED BY <1>1, <1>9, <2>1, <2>2 DEF IInv, OnePerOperation
<1>12. Pinned' /\ HandlesKeepTheirEndpoint'
  BY <1>1, <1>2, <1>3 DEF IInv, Pinned, HandlesKeepTheirEndpoint, Unused
<1>13. WrittenOnce'
  BY <1>1, <1>2, <1>6 DEF IInv, WrittenOnce, Unused
<1>14. AnswersTrue'
  <2>1. \A r \in Elems(results) : r.send \in Sends /\ r.send # n
    BY <1>1, ResultsNamed DEF IInv, Unused
  <2> QED BY <1>2, <1>6, <2>1 DEF IInv, AnswersTrue
<1>15. InFlightIsPending'
  <2>1. n \notin pending
    BY <1>1 DEF Unused, IInv, OpenIsPending
  <2>2. \A k \in pending : k \in Sends /\ k # n /\ frame'[k] = frame[k]
    BY <1>1, <2>1 DEF IInv, SendTypeOK
  <2>3. {frame'[k].msg : k \in pending \cup {n}} = {frame[k].msg : k \in pending} \cup {m}
    BY <1>1, <2>2
  <2> QED BY <1>2, <2>3 DEF IInv, InFlightIsPending
<1> QED BY <1>7, <1>8, <1>10, <1>11, <1>12, <1>13, <1>14, <1>15 DEF IInv

LEMMA TakenShape ==
    ASSUME IInv, NEW n \in Sends, Requested(n), Taken(n)
    PROVE  /\ n \in Elems(requests) /\ frame[n] # NoFrame
           /\ Elems(requests') \subseteq Elems(requests)
           /\ seen' = seen \cup {n}
           /\ UNCHANGED <<frame, verdict, pending, inFlight, barred, bound, prepared>>
<1>1. requests \in Seq(Sends) /\ requests # <<>> /\ n = Head(requests)
  BY DEF Requested, IInv, SendTypeOK
<1>2. n \in Elems(requests) /\ Elems(Tail(requests)) \subseteq Elems(requests)
  BY <1>1, TailElems
<1> QED BY <1>2 DEF Taken, IInv, Framed, Unused, originVars, ledgerVars

LEMMA AcceptInv ==
    ASSUME IInv, SendTypeOK', NEW n \in Sends, Accept(n)
    PROVE  IInv'
<1>1. /\ n \in Elems(requests) /\ frame[n] # NoFrame
      /\ Elems(requests') \subseteq Elems(requests)
      /\ seen' = seen \cup {n}
      /\ UNCHANGED <<frame, verdict, pending, inFlight, barred, bound, prepared>>
  BY TakenShape DEF Accept
<1>2. n \notin seen /\ frame[n].pin \in {0, target}
  BY DEF Accept, Refusal
<1>3. \A k \in Sends : reached'[k] = IF k = n THEN target ELSE reached[k]
  BY DEF Accept, IInv, SendTypeOK
<1>4. target # 0
  BY SendAssumption DEF IInv, SendTypeOK, SendAssumption
<1>5. Elems(results') \subseteq Elems(results) \cup {[send |-> n, code |-> "ok"]}
  BY AnswerTypes, "ok" \in Codes, TypesInParts DEF Accept, IInv, PartsOK, Codes
<1>6. ~Unwritten(n) /\ verdict[n] # "failed" /\ reached[n] = 0
  BY <1>1, <1>2 DEF Unwritten, IInv, WrittenOnce
<1>7. \A k \in Sends : Unwritten(k) => Unwritten(k)' /\ k # n
  BY <1>1, <1>3, <1>6 DEF Unwritten
<1>8. Framed'
  BY <1>1, <1>3, <1>5 DEF IInv, Framed, Unused
<1>9. OpenIsPending' /\ Barriers' /\ OnePerOperation' /\ Pinned' /\ InFlightIsPending'
  BY <1>1 DEF IInv, OpenIsPending, Barriers, Barred, OnePerOperation, Outstanding, Pinned,
     InFlightIsPending
<1>10. WrittenOnce'
  BY <1>1, <1>3, <1>4, <1>7 DEF IInv, WrittenOnce
<1>11. AnswersTrue'
  <2> SUFFICES ASSUME NEW r \in Elems(results')
               PROVE  /\ r.code = "ok" => reached'[r.send] # 0
                      /\ r.code \in {"refused", "rebound"} => Unwritten(r.send)'
    BY DEF AnswersTrue
  <2>1. CASE r \in Elems(results)
    BY <1>3, <1>4, <1>7, <2>1, ResultsNamed DEF IInv, AnswersTrue
  <2>2. CASE r = [send |-> n, code |-> "ok"]
    BY <1>3, <1>4, <2>2
  <2> QED BY <1>5, <2>1, <2>2
<1>12. HandlesKeepTheirEndpoint'
  BY <1>1, <1>2, <1>3 DEF IInv, HandlesKeepTheirEndpoint, Pinned
<1> QED BY <1>8, <1>9, <1>10, <1>11, <1>12 DEF IInv

-----------------------------------------------------------------------------
(* Each action is one of these steps                                       *)

LEMMA ReincarnateStep == ASSUME IInv, Reincarnate PROVE SendTypeOK' /\ Quiet
<1> USE DEF IInv, Reincarnate, ledgerVars, destVars
<1>1. OriginTypes'
  BY TypesInParts DEF PartsOK, OriginTypes
<1>2. LedgerTypes' /\ LinkTypes' /\ DestTypes' /\ HistoryTypes'
  BY TypesInParts DEF PartsOK, LedgerTypes, LinkTypes, DestTypes, HistoryTypes
<1>3. Quiet
  BY DEF Quiet, Untouched, Grows, LinkMoves
<1> QED BY <1>1, <1>2, <1>3, NextTypesInParts DEF PartsOK

LEMMA PrepareStep ==
    ASSUME IInv, NEW h \in Handles, Prepare(h)
    PROVE  SendTypeOK' /\ Quiet
<1> USE TypesInParts DEF IInv, PartsOK
<1>1. OriginTypes'
  BY DEF OriginTypes, Prepare
<1>2. LedgerTypes' /\ barred \subseteq barred' /\ bound \subseteq bound'
  <2>1. CASE UNCHANGED <<ledgerVars, faults>>
    BY <2>1 DEF LedgerTypes, ledgerVars
  <2>2. CASE Appended(barred, bound \cup {h}) \/ AppendFails(barred, bound \cup {h})
    <3>1. LedgerTypes'
      BY <2>2, AppendedTypes DEF LedgerTypes
    <3> QED BY <2>2, <3>1 DEF Appended, AppendFails, Remains
  <2> QED BY <2>1, <2>2 DEF Prepare
<1>3. LinkTypes' /\ DestTypes' /\ HistoryTypes'
  BY DEF LinkTypes, DestTypes, HistoryTypes, Prepare, destVars
<1>4. \A g \in Handles : prepared[g] # 0 => prepared'[g] = prepared[g]
  BY DEF OriginTypes, Prepare
<1>5. Quiet
  BY <1>2, <1>4 DEF Quiet, Untouched, Grows, LinkMoves, Prepare, destVars
<1> QED BY <1>1, <1>2, <1>3, <1>5, NextTypesInParts

LEMMA RecordStep ==
    ASSUME IInv, NEW m \in Ids, Reject(m) \/ RejectStale(m) \/ ForgetRecord(m)
    PROVE  SendTypeOK' /\ Quiet
<1> USE TypesInParts DEF IInv, PartsOK, Reject, RejectStale, ForgetRecord
<1>1. record' \in [Ids -> {"none", "unknown", "failed", "rebound", "delivered"}]
  BY DEF OriginTypes
<1>2. UNCHANGED <<life, olink, imported, speaks, prepared, inFlight, pending,
                  ledgerVars, requests, results, destVars, frame, verdict, reached, faults>>
  OBVIOUS
<1> HIDE DEF Reject, RejectStale, ForgetRecord
<1>3. OriginTypes' /\ LedgerTypes' /\ LinkTypes' /\ DestTypes' /\ HistoryTypes'
  BY <1>1, <1>2 DEF OriginTypes, LedgerTypes, LinkTypes, DestTypes, HistoryTypes,
     ledgerVars, destVars
<1>4. Quiet
  BY <1>2 DEF Quiet, Untouched, Grows, LinkMoves, ledgerVars, destVars
<1> QED BY <1>3, <1>4, NextTypesInParts

LEMMA DispatchFailsStep ==
    ASSUME IInv, NEW m \in Ids, DispatchFails(m)
    PROVE  SendTypeOK' /\ Quiet
<1> USE TypesInParts DEF IInv, PartsOK
<1>1. OriginTypes'
  BY DEF OriginTypes, DispatchFails
<1>2. LedgerTypes'
  <2>1. barred \cup Keys(m) \subseteq Ids /\ bound \subseteq Handles
    BY KeysAreIds DEF LedgerTypes
  <2> QED BY <2>1, AppendedTypes DEF DispatchFails
<1>3. LinkTypes' /\ DestTypes' /\ HistoryTypes'
  BY DEF LinkTypes, DestTypes, HistoryTypes, DispatchFails, destVars
<1>4. barred \subseteq barred' /\ bound \subseteq bound'
  BY DEF DispatchFails, AppendFails, Remains
<1>5. Quiet
  BY <1>4 DEF Quiet, Untouched, Grows, LinkMoves, DispatchFails, destVars
<1> QED BY <1>1, <1>2, <1>3, <1>5, NextTypesInParts

LEMMA TakenTypes ==
    ASSUME IInv, NEW n \in Sends, NEW code \in Codes, Requested(n), Taken(n), Answer(n, code)
    PROVE  /\ OriginTypes' /\ LinkTypes'
           /\ seen' \subseteq Sends /\ dlink' \in BOOLEAN
           /\ target' \in 1..MaxTargets /\ present' \in BOOLEAN
<1> USE TypesInParts DEF IInv, PartsOK
<1>1. OriginTypes'
  BY DEF Taken, OriginTypes, originVars
<1>2. LinkTypes'
  <2>1. requests \in Seq(Sends) /\ requests # <<>>
    BY DEF LinkTypes, Requested
  <2>2. requests' \in Seq(Sends)
    BY <2>1, TailElems DEF Taken
  <2> QED BY <2>2, AnswerTypes DEF LinkTypes
<1>3. target' \in 1..MaxTargets /\ seen' \subseteq Sends
  BY DEF Taken, DestTypes
<1>4. dlink' \in BOOLEAN /\ present' \in BOOLEAN
  BY Zenon DEF Taken, DestTypes
<1> QED BY <1>1, <1>2, <1>3, <1>4

(* A request that is answered without being written to the receiver.       *)
LEMMA RefusedStep ==
    ASSUME IInv, NEW n \in Sends, NEW code \in {"duplicate", "refused", "rebound"},
           Requested(n), Taken(n), Answer(n, code), UNCHANGED reached,
           code # "duplicate" => n \notin seen
    PROVE  Quiet
<1>1. /\ n \in Elems(requests) /\ frame[n] # NoFrame
      /\ Elems(requests') \subseteq Elems(requests)
      /\ seen' = seen \cup {n}
      /\ UNCHANGED <<frame, verdict, pending, inFlight, barred, bound, prepared>>
  BY TakenShape
<1>2. Elems(results') \subseteq Elems(results) \cup {[send |-> n, code |-> code]}
  BY AnswerTypes, TypesInParts DEF IInv, PartsOK, Codes
<1>3. code # "duplicate" => reached[n] = 0
  BY <1>1 DEF IInv, WrittenOnce
<1>4. AnswerHolds([send |-> n, code |-> code])'
  BY <1>1, <1>3 DEF AnswerHolds, Unwritten
<1> QED BY <1>1, <1>2, <1>4 DEF Quiet, Untouched, Grows, LinkMoves

LEMMA RefuseStep ==
    ASSUME IInv, NEW n \in Sends, Refuse(n)
    PROVE  SendTypeOK' /\ Quiet
<1>1. /\ Refusal(n) \in {"duplicate", "refused", "rebound"}
      /\ Refusal(n) # "duplicate" => n \notin seen
  BY DEF Refuse, Refusal
<1>2. Refusal(n) \in Codes
  BY <1>1 DEF Codes
<1>3. LedgerTypes' /\ HistoryTypes' /\ accepted' \subseteq Ids
  BY TypesInParts DEF Refuse, Taken, IInv, PartsOK, LedgerTypes, HistoryTypes, DestTypes, ledgerVars
<1>4. admits' \in BOOLEAN
  BY TypesInParts, Zenon DEF Refuse, IInv, PartsOK, DestTypes
<1>5. SendTypeOK'
  BY <1>2, <1>3, <1>4, TakenTypes, NextTypesInParts DEF Refuse, PartsOK, DestTypes
<1>6. Quiet
  BY <1>1, RefusedStep DEF Refuse
<1> QED BY <1>5, <1>6

LEMMA AcceptFailsStep ==
    ASSUME IInv, NEW n \in Sends, AcceptFails(n)
    PROVE  SendTypeOK' /\ Quiet
<1>1. "refused" \in Codes /\ n \notin seen
  BY DEF Codes, AcceptFails, Refusal
<1>2. frame[n].msg \in Ids
  <2>1. frame[n] # NoFrame
    BY TakenShape DEF AcceptFails
  <2> QED BY <2>1 DEF IInv, SendTypeOK, Frames
<1>3. accepted' \subseteq Ids
  BY <1>2 DEF AcceptFails, IInv, SendTypeOK
<1>4. faults' \in Nat
  BY DEF AcceptFails, IInv, SendTypeOK
<1>5. admits' \in BOOLEAN /\ torn' \in BOOLEAN
  BY Zenon DEF AcceptFails, Taken, IInv, SendTypeOK, ledgerVars
<1>6. LedgerTypes' /\ HistoryTypes'
  BY <1>4, <1>5, TypesInParts
     DEF AcceptFails, Taken, IInv, PartsOK, LedgerTypes, HistoryTypes, ledgerVars
<1>7. SendTypeOK'
  BY <1>1, <1>3, <1>5, <1>6, TakenTypes, NextTypesInParts DEF AcceptFails, PartsOK, DestTypes
<1>8. Quiet
  BY <1>1, RefusedStep DEF AcceptFails
<1> QED BY <1>7, <1>8

LEMMA AcceptTypes == ASSUME IInv, NEW n \in Sends, Accept(n) PROVE SendTypeOK'
<1>1. "ok" \in Codes
  BY DEF Codes
<1>2. frame[n].msg \in Ids
  <2>1. frame[n] # NoFrame
    BY TakenShape DEF Accept
  <2> QED BY <2>1 DEF IInv, SendTypeOK, Frames
<1>3. accepted' \subseteq Ids
  BY <1>2 DEF Accept, IInv, SendTypeOK
<1>4. reached' \in [Sends -> 0..MaxTargets]
  BY SendAssumption DEF Accept, IInv, SendTypeOK, SendAssumption
<1>5. LedgerTypes' /\ HistoryTypes'
  BY <1>4, TypesInParts DEF Accept, Taken, IInv, PartsOK, LedgerTypes, HistoryTypes, ledgerVars
<1>6. admits' \in BOOLEAN
  BY Zenon DEF Accept, IInv, SendTypeOK
<1> QED BY <1>1, <1>3, <1>5, <1>6, TakenTypes, NextTypesInParts DEF Accept, PartsOK, DestTypes

LEMMA RepeatStep == ASSUME IInv, NEW n \in Sends, Repeat(n) PROVE SendTypeOK' /\ Quiet
<1> USE TypesInParts DEF IInv, PartsOK
<1>1. requests' \in Seq(Sends) /\ Elems(requests') = Elems(requests) \cup {n}
  BY AppendElems DEF Repeat, LinkTypes
<1>2. OriginTypes' /\ DestTypes' /\ HistoryTypes' /\ LinkTypes'
  BY <1>1 DEF Repeat, OriginTypes, DestTypes, HistoryTypes, LinkTypes, originVars, destVars
<1>3. faults' \in Nat
  BY DEF Repeat, LedgerTypes
<1>4. LedgerTypes'
  BY <1>3, Zenon DEF Repeat, LedgerTypes, ledgerVars
<1>5. Quiet
  BY <1>1 DEF Repeat, Quiet, Untouched, Grows, LinkMoves, originVars, ledgerVars, destVars
<1> QED BY <1>2, <1>4, <1>5, NextTypesInParts

(* Losing and renewing the link, the receiver's coming and going.          *)
LEMMA LinkStep ==
    ASSUME IInv, DestinationLosesLink \/ DestinationDies \/ Relink
    PROVE  SendTypeOK' /\ Quiet
<1> USE TypesInParts DEF IInv, PartsOK
<1>1. requests' = <<>> /\ seen' = {} /\ (results' = results \/ results' = <<>>)
  BY DEF DestinationLosesLink, DestinationDies, LoseLinkAtDestination, Relink
<1>2. Elems(requests') = {} /\ Elems(results') \subseteq Elems(results)
  BY <1>1, EmptyElems
<1>3. LinkTypes' /\ seen' \subseteq Sends
  BY <1>1, EmptyElems DEF LinkTypes
<1>4. UNCHANGED <<life, prepared, record, inFlight, pending, ledgerVars, target,
                  frame, verdict, reached, faults>>
  BY DEF DestinationLosesLink, DestinationDies, LoseLinkAtDestination, Relink,
         originVars, ledgerVars
<1>5. LedgerTypes' /\ HistoryTypes'
  BY <1>4 DEF LedgerTypes, HistoryTypes, ledgerVars
<1>6. /\ olink' \in BOOLEAN /\ speaks' \in BOOLEAN
      /\ dlink' \in BOOLEAN /\ present' \in BOOLEAN /\ admits' \in BOOLEAN
  <2>1. CASE DestinationLosesLink
    BY <2>1, Zenon DEF DestinationLosesLink, LoseLinkAtDestination, OriginTypes, DestTypes, originVars
  <2>2. CASE DestinationDies
    BY <2>2, Zenon DEF DestinationDies, LoseLinkAtDestination, OriginTypes, DestTypes, originVars
  <2>3. CASE Relink
    BY <2>3, Zenon DEF Relink, OriginTypes, DestTypes
  <2> QED BY <2>1, <2>2, <2>3
<1>7. imported' \in 0..MaxTargets
  <2>1. CASE DestinationLosesLink \/ DestinationDies
    BY <2>1 DEF DestinationLosesLink, DestinationDies, LoseLinkAtDestination, OriginTypes, originVars
  <2>2. CASE Relink
    <3>1. imported' \in {target, 0}
      BY <2>2 DEF Relink
    <3> QED BY <3>1, SendAssumption DEF DestTypes, SendAssumption
  <2> QED BY <2>1, <2>2
<1>8. accepted' \subseteq Ids
  <2>1. CASE DestinationLosesLink \/ Relink
    BY <2>1 DEF DestinationLosesLink, Relink, DestTypes
  <2>2. CASE DestinationDies /\ requests # <<>>
    <3>1. Head(requests) \in Sends /\ Head(requests) \in Elems(requests)
      BY <2>2, TailElems DEF LinkTypes
    <3>2. frame[Head(requests)] \in Frames
      BY <3>1 DEF Framed, Unused, HistoryTypes
    <3> QED BY <2>2, <3>2 DEF DestinationDies, DestTypes, Frames
  <2>3. CASE DestinationDies /\ requests = <<>>
    BY <2>3 DEF DestinationDies, DestTypes
  <2> QED BY <2>1, <2>2, <2>3
<1>9. OriginTypes' /\ DestTypes'
  BY <1>3, <1>4, <1>6, <1>7, <1>8 DEF OriginTypes, DestTypes
<1>10. Quiet
  BY <1>1, <1>2, <1>4 DEF Quiet, Untouched, Grows, LinkMoves, ledgerVars
<1> QED BY <1>3, <1>5, <1>9, <1>10, NextTypesInParts

LEMMA RosterStep ==
    ASSUME IInv, TargetLeaves \/ TargetRegisters \/ RosterUpdate
    PROVE  SendTypeOK' /\ Quiet
<1> USE TypesInParts DEF IInv, PartsOK
<1>1. UNCHANGED <<life, olink, speaks, prepared, record, inFlight, pending, ledgerVars,
                  requests, results, dlink, seen, accepted, admits, frame, verdict,
                  reached, faults>>
  BY DEF TargetLeaves, TargetRegisters, RosterUpdate, originVars, destVars
<1>2. imported' \in 0..MaxTargets
  <2>1. imported' \in {imported, target, 0}
    BY DEF TargetLeaves, TargetRegisters, RosterUpdate, originVars
  <2> QED BY <2>1, SendAssumption DEF OriginTypes, DestTypes, SendAssumption
<1>3. target' \in 1..MaxTargets
  BY SendAssumption DEF TargetLeaves, TargetRegisters, RosterUpdate, DestTypes, destVars, SendAssumption
<1>4. present' \in BOOLEAN
  BY Zenon DEF TargetLeaves, TargetRegisters, RosterUpdate, DestTypes, destVars
<1>5. OriginTypes' /\ LedgerTypes' /\ LinkTypes' /\ DestTypes' /\ HistoryTypes'
  BY <1>1, <1>2, <1>3, <1>4
     DEF OriginTypes, LedgerTypes, LinkTypes, DestTypes, HistoryTypes, ledgerVars
<1>6. Quiet
  BY <1>1 DEF Quiet, Untouched, Grows, LinkMoves, ledgerVars
<1> QED BY <1>5, <1>6, NextTypesInParts

LEMMA ResultTaken ==
    ASSUME SendTypeOK, NEW r, Resulted(r), results' = Tail(results)
    PROVE  /\ r \in Elems(results) /\ r.send \in Sends
           /\ results' \in Seq(Answers) /\ Elems(results') \subseteq Elems(results)
<1>1. results \in Seq(Answers) /\ results # <<>> /\ r = Head(results)
  BY DEF Resulted, SendTypeOK
<1>2. /\ r \in Elems(results) /\ results' \in Seq(Answers)
      /\ Elems(results') \subseteq Elems(results)
  BY <1>1, TailElems
<1> QED BY <1>2, ResultsNamed

LEMMA IgnoreResultStep == ASSUME IInv, NEW r, IgnoreResult(r) PROVE SendTypeOK' /\ Quiet
<1> USE TypesInParts DEF IInv, PartsOK
<1>1. results' \in Seq(Answers) /\ Elems(results') \subseteq Elems(results)
  BY ResultTaken DEF IgnoreResult
<1>2. UNCHANGED <<originVars, ledgerVars, requests, destVars, frame, verdict, reached, faults>>
  BY DEF IgnoreResult
<1>3. OriginTypes' /\ LedgerTypes' /\ LinkTypes' /\ DestTypes' /\ HistoryTypes'
  BY <1>1, <1>2 DEF OriginTypes, LedgerTypes, LinkTypes, DestTypes, HistoryTypes,
     originVars, ledgerVars, destVars
<1>4. Quiet
  BY <1>1, <1>2 DEF Quiet, Untouched, Grows, LinkMoves, originVars, ledgerVars, destVars
<1> QED BY <1>3, <1>4, NextTypesInParts

-----------------------------------------------------------------------------
(* The steps that conclude attempts                                        *)

ConcludesSome == \E F, D, v : Concluded(F, D, v)

LEMMA DieStep ==
    ASSUME IInv, NEW b, NEW d, NEW F,
           \/ Remains(b, d) /\ b \in SUBSET Ids /\ d \in SUBSET Handles /\ bound \subseteq d
           \/ UNCHANGED <<torn, barred, bound>>,
           StartAgain(F), F \subseteq pending, \A n \in F : Unwritten(n),
           \A m \in barred \ b :
              \E n \in F : frame[n].msg \in Ids /\ m \in {frame[n].msg, Operation(frame[n].msg)}
    PROVE  SendTypeOK' /\ Concluded(F, pending, "unknown")
<1>1. SendTypeOK'
  <2>1. CASE UNCHANGED <<torn, barred, bound>>
    BY <2>1, StartAgainTypes, {} \in SUBSET Ids, {} \in SUBSET Handles DEF IInv
  <2>2. CASE Remains(b, d) /\ b \in SUBSET Ids /\ d \in SUBSET Handles
    BY <2>2, StartAgainTypes DEF IInv
  <2> QED BY <2>1, <2>2
<1>2. bound \subseteq bound' /\ (barred' = barred \/ barred' = b)
  BY DEF Remains
<1>3. pending' = pending \ (F \cup pending)
  BY DEF StartAgain
<1>4. inFlight' = inFlight \ {frame[n].msg : n \in F \cup pending}
  BY DEF StartAgain, IInv, InFlightIsPending
<1>5. Elems(results') \subseteq Elems(results)
  BY EmptyElems DEF StartAgain
<1>6. verdict' = [n \in Sends |-> IF n \in F THEN "failed"
                                 ELSE IF n \in pending THEN "unknown" ELSE verdict[n]]
  BY DEF StartAgain
<1>7. UNCHANGED <<frame, reached, prepared, requests, seen>>
  BY DEF StartAgain, destVars
<1> QED BY <1>1, <1>2, <1>3, <1>4, <1>5, <1>6, <1>7 DEF Concluded

(* A result that confirms delivery, or leaves it in doubt.                 *)
LEMMA DeliveredStep == ASSUME IInv, NEW r, Delivered(r) PROVE SendTypeOK' /\ ConcludesSome
<1> USE TypesInParts DEF IInv, PartsOK
<1>1. /\ r \in Elems(results) /\ r.send \in Sends
      /\ results' \in Seq(Answers) /\ Elems(results') \subseteq Elems(results)
  BY ResultTaken DEF Delivered
<1>2. PICK v \in {"delivered", "unknown"} :
          Conclude({r.send}, v, v) /\ (v = "delivered" => r.code = "ok")
  BY DEF Delivered
<1>3. UNCHANGED <<life, olink, imported, speaks, prepared, ledgerVars, requests,
                  destVars, frame, reached, faults>>
  BY DEF Delivered
<1>4. /\ record' \in [Ids -> {"none", "unknown", "failed", "rebound", "delivered"}]
      /\ inFlight' \subseteq Ids /\ pending' \subseteq Sends
      /\ verdict' \in [Sends -> {"none", "open", "delivered", "failed", "unknown"}]
  BY <1>2, ConcludeTypes
<1>5. OriginTypes' /\ LedgerTypes' /\ LinkTypes' /\ DestTypes' /\ HistoryTypes'
  BY <1>1, <1>3, <1>4 DEF OriginTypes, LedgerTypes, LinkTypes, DestTypes, HistoryTypes,
     ledgerVars, destVars
<1>6. v = "delivered" => reached[r.send] # 0
  BY <1>1, <1>2 DEF AnswersTrue
<1>7. Concluded({}, {r.send}, v)
  BY <1>1, <1>2, <1>3, <1>6 DEF Concluded, Conclude, Delivered, ledgerVars, destVars
<1> QED BY <1>5, <1>7, NextTypesInParts DEF ConcludesSome

(* What a refusal says of the attempt it answers.                          *)
LEMMA RefusedAttempt ==
    ASSUME IInv, NEW r, NotDelivered(r)
    PROVE  /\ r.send \in pending /\ r.send \in Sends /\ Unwritten(r.send)
           /\ frame[r.send].msg \in Ids
<1>1. r \in Elems(results) /\ r.send \in Sends
  <2>1. results \in Seq(Answers) /\ results # <<>> /\ r = Head(results)
    BY DEF NotDelivered, Resulted, IInv, SendTypeOK
  <2> QED BY <2>1, TailElems, ResultsNamed DEF IInv
<1>2. verdict[r.send] # "none"
  BY <1>1 DEF NotDelivered, IInv, OpenIsPending
<1> QED BY <1>1, <1>2, FramesOfUsed DEF NotDelivered, IInv, AnswersTrue

LEMMA SettledStep ==
    ASSUME IInv, NEW r, Settle(r) \/ SettleFails(r)
    PROVE  SendTypeOK' /\ ConcludesSome
<1> USE TypesInParts DEF IInv, PartsOK
<1> DEFINE m == frame[r.send].msg
<1>1. /\ r.send \in pending /\ r.send \in Sends /\ Unwritten(r.send) /\ m \in Ids
  BY RefusedAttempt DEF Settle, SettleFails
<1>2. results' \in Seq(Answers) /\ Elems(results') \subseteq Elems(results)
  BY ResultTaken DEF Settle, SettleFails, NotDelivered
<1>3. PICK kept \in {"rebound", "failed"} : Conclude({r.send}, "failed", kept)
  BY DEF Settle, SettleFails
<1>4. UNCHANGED <<life, olink, imported, speaks, prepared, requests, destVars, frame, reached>>
  BY DEF Settle, SettleFails
<1>5. LedgerTypes'
  <2>1. CASE UNCHANGED <<ledgerVars, faults>>
    BY <2>1 DEF LedgerTypes, ledgerVars
  <2>2. CASE Appended(barred \ Keys(m), bound) \/ AppendFails(barred \ Keys(m), bound)
    <3>1. barred \ Keys(m) \in SUBSET Ids /\ bound \in SUBSET Handles
      BY DEF LedgerTypes
    <3> QED BY <2>2, <3>1, AppendedTypes
  <2> QED BY <2>1, <2>2 DEF Settle, SettleFails
<1>6. bound' = bound /\ barred \ barred' \subseteq Keys(m)
  BY DEF Settle, SettleFails, Appended, AppendFails, Remains, ledgerVars
<1>7. Keys(m) \subseteq {m, Operation(m)}
  BY DEF Keys, Operation, LedgerTypes
<1>8. /\ record' \in [Ids -> {"none", "unknown", "failed", "rebound", "delivered"}]
      /\ inFlight' \subseteq Ids /\ pending' \subseteq Sends
      /\ verdict' \in [Sends -> {"none", "open", "delivered", "failed", "unknown"}]
  BY <1>3, ConcludeTypes
<1>9. OriginTypes' /\ LinkTypes' /\ DestTypes' /\ HistoryTypes'
  BY <1>2, <1>4, <1>8 DEF OriginTypes, LinkTypes, DestTypes, HistoryTypes, destVars
<1>10. \A x \in barred \ barred' :
          \E n \in {r.send} : frame[n].msg \in Ids /\ x \in {frame[n].msg, Operation(frame[n].msg)}
  BY <1>1, <1>6, <1>7
<1>11. verdict' = [n \in Sends |-> IF n \in {r.send} THEN "failed"
                                  ELSE IF n \in {} THEN "unknown" ELSE verdict[n]]
  BY <1>3 DEF Conclude
<1>12. Concluded({r.send}, {}, "unknown")
  BY <1>1, <1>2, <1>3, <1>4, <1>6, <1>10, <1>11 DEF Concluded, Conclude, destVars
<1> QED BY <1>5, <1>9, <1>12, NextTypesInParts DEF ConcludesSome

LEMMA DeathStep ==
    ASSUME IInv,
           \/ Die
           \/ \E h \in Handles : DieInPrepare(h)
           \/ \E m \in Ids : DieInDispatch(m)
    PROVE  SendTypeOK' /\ ConcludesSome
<1>1. CASE Die
  BY <1>1, DieStep DEF Die, ConcludesSome
<1>2. ASSUME NEW h \in Handles, DieInPrepare(h) PROVE SendTypeOK' /\ ConcludesSome
  <2> DEFINE d == bound \cup {h}
  <2>1. Remains(barred, d) /\ StartAgain({})
    BY <1>2 DEF DieInPrepare, DieIn
  <2>2. barred \in SUBSET Ids /\ d \in SUBSET Handles /\ bound \subseteq d
    BY DEF IInv, SendTypeOK
  <2> HIDE DEF d
  <2>3. SendTypeOK' /\ Concluded({}, pending, "unknown")
    BY <2>1, <2>2, DieStep
  <2> QED BY <2>3 DEF ConcludesSome
<1>3. ASSUME NEW m \in Ids, DieInDispatch(m) PROVE SendTypeOK' /\ ConcludesSome
  <2> DEFINE b == barred \cup Keys(m)
  <2>1. Remains(b, bound) /\ StartAgain({})
    BY <1>3 DEF DieInDispatch, DieIn
  <2>2. b \in SUBSET Ids /\ bound \in SUBSET Handles /\ barred \ b = {}
    BY KeysAreIds DEF IInv, SendTypeOK
  <2> HIDE DEF b
  <2>3. SendTypeOK' /\ Concluded({}, pending, "unknown")
    BY <2>1, <2>2, DieStep
  <2> QED BY <2>3 DEF ConcludesSome
<1> QED BY <1>1, <1>2, <1>3

LEMMA DieInSettleStep ==
    ASSUME IInv, NEW r, DieInSettle(r)
    PROVE  SendTypeOK' /\ ConcludesSome
<1> DEFINE m == frame[r.send].msg
           b == barred \ Keys(m)
           F == {r.send}
<1>1. r.send \in pending /\ Unwritten(r.send) /\ m \in Ids
  BY RefusedAttempt DEF DieInSettle
<1>2. Keys(m) \subseteq {m, Operation(m)}
  BY DEF Keys, Operation, IInv, SendTypeOK
<1>3. Remains(b, bound) /\ StartAgain(F)
  BY DEF DieInSettle
<1>4. b \in SUBSET Ids /\ bound \in SUBSET Handles
  BY DEF IInv, SendTypeOK
<1>5. \A x \in barred \ b :
          \E n \in F : frame[n].msg \in Ids /\ x \in {frame[n].msg, Operation(frame[n].msg)}
  BY <1>1, <1>2
<1>6. F \subseteq pending /\ \A n \in F : Unwritten(n)
  BY <1>1
<1> HIDE DEF b, F
<1>7. SendTypeOK' /\ Concluded(F, pending, "unknown")
  BY <1>3, <1>4, <1>5, <1>6, DieStep
<1> QED BY <1>7 DEF ConcludesSome

LEMMA TimedOutStep ==
    ASSUME IInv, OriginLosesLink \/ \E n \in Sends : Expire(n)
    PROVE  SendTypeOK' /\ ConcludesSome
<1> USE TypesInParts DEF IInv, PartsOK
<1>1. PICK D \in SUBSET pending :
         /\ Conclude(D, "unknown", "unknown")
         /\ results' = results \/ results' = <<>>
         /\ UNCHANGED <<life, speaks, prepared, ledgerVars, requests, destVars, frame,
                        reached, faults>>
         /\ imported' \in {imported, 0}
  BY DEF OriginLosesLink, Expire
<1>2. olink' \in BOOLEAN
  BY Zenon DEF OriginLosesLink, Expire, OriginTypes
<1>3. imported' \in 0..MaxTargets
  BY <1>1, SendAssumption DEF OriginTypes, SendAssumption
<1>4. results' \in Seq(Answers) /\ Elems(results') \subseteq Elems(results)
  BY <1>1, EmptyElems DEF LinkTypes
<1>5. /\ record' \in [Ids -> {"none", "unknown", "failed", "rebound", "delivered"}]
      /\ inFlight' \subseteq Ids /\ pending' \subseteq Sends
      /\ verdict' \in [Sends -> {"none", "open", "delivered", "failed", "unknown"}]
  BY <1>1, ConcludeTypes
<1>6. OriginTypes' /\ LedgerTypes' /\ LinkTypes' /\ DestTypes' /\ HistoryTypes'
  BY <1>1, <1>2, <1>3, <1>4, <1>5 DEF OriginTypes, LedgerTypes, LinkTypes, DestTypes, HistoryTypes,
     ledgerVars, destVars
<1>7. Concluded({}, D, "unknown")
  BY <1>1, <1>4 DEF Concluded, Conclude, ledgerVars, destVars
<1> QED BY <1>6, <1>7, NextTypesInParts DEF ConcludesSome

LEMMA DispatchTypes ==
    ASSUME IInv, NEW m \in Ids, NEW n \in Sends, NEW pin \in Pins(m), Dispatch(m, n, pin)
    PROVE  SendTypeOK'
<1> USE TypesInParts DEF IInv, PartsOK
<1>1. pin \in 0..MaxTargets
  <2>1. pin = 0 \/ pin = imported
    BY DEF Pins
  <2> QED BY <2>1, SendAssumption DEF OriginTypes, SendAssumption
<1>2. [msg |-> m, pin |-> pin] \in Frames
  BY <1>1 DEF Frames
<1>3. HistoryTypes'
  BY <1>2 DEF Dispatch, HistoryTypes
<1>4. OriginTypes'
  BY DEF Dispatch, OriginTypes
<1>5. LedgerTypes'
  <2>1. barred \cup Keys(m) \in SUBSET Ids /\ bound \in SUBSET Handles
    BY KeysAreIds DEF LedgerTypes
  <2> QED BY <2>1, AppendedTypes DEF Dispatch
<1>6. LinkTypes'
  <2>1. requests \in Seq(Sends)
    BY DEF LinkTypes
  <2> QED BY <2>1, AppendElems DEF Dispatch, LinkTypes
<1>7. DestTypes'
  BY Zenon DEF Dispatch, DestTypes, destVars
<1> QED BY <1>3, <1>4, <1>5, <1>6, <1>7, NextTypesInParts

(* An attempt starts, an attempt is written.                               *)
Dispatches == \E m \in Ids, n \in Sends : \E pin \in Pins(m) : Dispatch(m, n, pin)
Accepts == \E n \in Sends : Accept(n)

LEMMA StepKinds ==
    ASSUME IInv, SendNext
    PROVE  SendTypeOK' /\ (Quiet \/ ConcludesSome \/ Dispatches \/ Accepts)
<1>1. CASE Die \/ \E h \in Handles : DieInPrepare(h)
  BY <1>1, DeathStep
<1>2. CASE Reincarnate
  BY <1>2, ReincarnateStep
<1>3. CASE OriginLosesLink \/ \E n \in Sends : Expire(n)
  BY <1>3, TimedOutStep
<1>4. CASE Relink \/ DestinationLosesLink \/ DestinationDies
  BY <1>4, LinkStep
<1>5. CASE RosterUpdate \/ TargetLeaves \/ TargetRegisters
  BY <1>5, RosterStep
<1>6. CASE \E h \in Handles : Prepare(h)
  BY <1>6, PrepareStep
<1>7. ASSUME NEW m \in Ids,
             \/ Reject(m) \/ RejectStale(m) \/ ForgetRecord(m)
             \/ DispatchFails(m) \/ DieInDispatch(m)
      PROVE  SendTypeOK' /\ (Quiet \/ ConcludesSome)
  <2>1. CASE Reject(m) \/ RejectStale(m) \/ ForgetRecord(m)
    BY <2>1, RecordStep
  <2>2. CASE DispatchFails(m)
    BY <2>2, DispatchFailsStep
  <2>3. CASE DieInDispatch(m)
    BY <2>3, DeathStep
  <2> QED BY <1>7, <2>1, <2>2, <2>3
<1>8. ASSUME NEW m \in Ids, NEW n \in Sends, NEW pin \in Pins(m), Dispatch(m, n, pin)
      PROVE  SendTypeOK' /\ Dispatches
  BY <1>8, DispatchTypes DEF Dispatches
<1>9. ASSUME NEW n \in Sends, Refuse(n) \/ AcceptFails(n) \/ Repeat(n)
      PROVE  SendTypeOK' /\ Quiet
  BY <1>9, RefuseStep, AcceptFailsStep, RepeatStep
<1>10. ASSUME NEW n \in Sends, Accept(n) PROVE SendTypeOK' /\ Accepts
  BY <1>10, AcceptTypes DEF Accepts
<1>11. ASSUME NEW r, IgnoreResult(r) \/ Delivered(r) \/ Settle(r) \/ SettleFails(r) \/ DieInSettle(r)
       PROVE  SendTypeOK' /\ (Quiet \/ ConcludesSome)
  BY <1>11, IgnoreResultStep, DeliveredStep, SettledStep, DieInSettleStep
<1> QED BY <1>1, <1>2, <1>3, <1>4, <1>5, <1>6, <1>7, <1>8, <1>9, <1>10, <1>11 DEF SendNext

LEMMA StepInv == IInv /\ [SendNext]_sendVars => IInv'
<1> SUFFICES ASSUME IInv, [SendNext]_sendVars PROVE IInv'
  OBVIOUS
<1>1. CASE SendNext
  <2>1. SendTypeOK' /\ (Quiet \/ ConcludesSome \/ Dispatches \/ Accepts)
    BY <1>1, StepKinds
  <2>2. CASE Quiet
    BY <2>1, <2>2, QuietInv
  <2>3. CASE ConcludesSome
    BY <2>1, <2>3, ConcludedInv DEF ConcludesSome
  <2>4. CASE Dispatches
    BY <2>1, <2>4, DispatchInv DEF Dispatches
  <2>5. CASE Accepts
    BY <2>1, <2>5, AcceptInv DEF Accepts
  <2> QED BY <2>1, <2>2, <2>3, <2>4, <2>5
<1>2. CASE UNCHANGED sendVars
  <2>1. Quiet
    BY <1>2 DEF Quiet, Untouched, Grows, LinkMoves, sendVars, originVars, ledgerVars, destVars
  <2>2. SendTypeOK'
    BY <1>2 DEF sendVars, originVars, ledgerVars, destVars, IInv, SendTypeOK
  <2> QED BY <2>1, <2>2, QuietInv
<1> QED BY <1>1, <1>2

LEMMA AlwaysInv == SendSpec => []IInv
<1> QED BY InitInv, StepInv, PTL DEF SendSpec

-----------------------------------------------------------------------------
(* Theorems *)

(* Every variable keeps its type, whatever fails.                          *)
THEOREM SendTypesHold == SendSpec => []SendTypeOK
<1>1. IInv => SendTypeOK
  BY DEF IInv
<1> QED BY <1>1, AlwaysInv, PTL

(* Ids are blocked for retries exactly while an attempt is pending.        *)
THEOREM InFlight == SendSpec => []InFlightIsPending
<1>1. IInv => InFlightIsPending
  BY DEF IInv
<1> QED BY <1>1, AlwaysInv, PTL

(* A handle reaches no incarnation but the one it was prepared for.        *)
THEOREM HandlesStay == SendSpec => []HandlesKeepTheirEndpoint
<1>1. IInv => HandlesKeepTheirEndpoint
  BY DEF IInv
<1> QED BY <1>1, AlwaysInv, PTL

-----------------------------------------------------------------------------
(* Refinement of PeerDispatch *)

LEMMA PromiseInit == SendInit => Promise!Init
BY DEF SendInit, Promise!Init

LEMMA QuietIsStutter == ASSUME Quiet PROVE UNCHANGED Promise!vars
BY DEF Quiet, Untouched, Promise!vars

LEMMA ConcludedIsClose ==
    ASSUME IInv, NEW F, NEW D, NEW v, Concluded(F, D, v)
    PROVE  Promise!Next
<1>1. F \in SUBSET Sends /\ D \in SUBSET Sends
  BY DEF IInv, SendTypeOK, Concluded
<1>2. \A n \in F \cup D : verdict[n] = "open"
  BY <1>1 DEF Concluded, IInv, OpenIsPending
<1>3. UNCHANGED <<frame, reached>>
  BY DEF Concluded
<1>4. CASE v = "unknown"
  <2>1. \A n \in F : reached[n] = 0
    BY DEF Concluded, Unwritten
  <2>2. Promise!Close(F, D)
    BY <1>1, <1>2, <1>3, <1>4, <2>1 DEF Promise!Close, Concluded
  <2> QED BY <1>1, <2>2 DEF Promise!Next
<1>5. CASE v = "delivered"
  <2>1. PICK n \in D : F = {} /\ D = {n} /\ reached[n] # 0
    BY <1>5 DEF Concluded
  <2>2. n \in Sends /\ verdict[n] = "open"
    BY <1>1, <1>2
  <2>3. verdict' = [verdict EXCEPT ![n] = "delivered"]
    BY <1>5, <2>1 DEF Concluded, IInv, SendTypeOK
  <2>4. Promise!Deliver(n)
    BY <1>3, <2>1, <2>2, <2>3 DEF Promise!Deliver
  <2> QED BY <2>2, <2>4 DEF Promise!Next
<1> QED BY <1>4, <1>5 DEF Concluded

LEMMA DispatchIsDispatch ==
    ASSUME IInv, NEW m \in Ids, NEW n \in Sends, NEW pin \in Pins(m), Dispatch(m, n, pin)
    PROVE  Promise!Next
<1> DEFINE o == Operation(m)
           op == [k \in Sends |-> IF frame[k] = NoFrame THEN None ELSE Operation(frame[k].msg)]
<1>1. o \in Scalars
  BY SendAssumption DEF Operation, Ids, SendAssumption
<1>2. None \notin Ids /\ [msg |-> m, pin |-> pin] # NoFrame /\ o # None
  BY <1>1, SendAssumption DEF NoFrame, SendAssumption, Ids
<1>3. /\ frame[n] = NoFrame
      /\ frame' = [frame EXCEPT ![n] = [msg |-> m, pin |-> pin]]
      /\ verdict' = [verdict EXCEPT ![n] = "open"]
      /\ UNCHANGED reached
  BY DEF Dispatch
<1>4. op[n] = None
  BY <1>3
<1>5. \A k \in Sends : op[k] = o => verdict[k] = "failed"
  <2> SUFFICES ASSUME NEW k \in Sends, frame[k] # NoFrame, Operation(frame[k].msg) = o
               PROVE  verdict[k] = "failed"
    BY <1>2
  <2>1. verdict[k] # "none"
    BY DEF IInv, Framed, Unused, SendTypeOK
  <2>2. o \in Keys(m) /\ Keys(m) \cap barred = {}
    BY DEF Dispatch, HasDispatched, Admissible, Routable, Keys, Operation
  <2>3. ~Outstanding(k)
    BY <2>2 DEF IInv, Barriers, Barred
  <2> QED BY <2>1, <2>3 DEF Outstanding, IInv, SendTypeOK
<1>6. [k \in Sends |-> IF frame'[k] = NoFrame THEN None ELSE Operation(frame'[k].msg)]
         = [op EXCEPT ![n] = o]
  BY <1>2, <1>3 DEF IInv, SendTypeOK
<1>7. Promise!Dispatch(n, o)
  BY <1>3, <1>4, <1>5, <1>6 DEF Promise!Dispatch
<1> QED BY <1>1, <1>7 DEF Promise!Next

LEMMA AcceptIsWrite == ASSUME IInv, NEW n \in Sends, Accept(n) PROVE Promise!Next
<1>1. /\ n \in Elems(requests) /\ frame[n] # NoFrame
      /\ UNCHANGED <<frame, verdict>>
  BY TakenShape DEF Accept
<1>2. n \notin seen
  BY DEF Accept, Refusal
<1>3. reached[n] = 0 /\ verdict[n] # "failed"
  BY <1>1, <1>2 DEF IInv, WrittenOnce, Unwritten
<1>4. verdict[n] \in {"open", "unknown"}
  BY <1>1, <1>3 DEF IInv, WrittenOnce, Framed, SendTypeOK
<1>5. target # 0
  BY SendAssumption DEF IInv, SendTypeOK, SendAssumption
<1>6. \A k \in Sends : reached'[k] = IF k = n THEN target ELSE reached[k]
  BY DEF Accept, IInv, SendTypeOK
<1>7. {k \in Sends : reached'[k] # 0} = {k \in Sends : reached[k] # 0} \cup {n}
  BY <1>5, <1>6
<1>8. Promise!Write(n)
  BY <1>1, <1>3, <1>4, <1>7 DEF Promise!Write
<1> QED BY <1>8 DEF Promise!Next

LEMMA PromiseStep == IInv /\ [SendNext]_sendVars => [Promise!Next]_Promise!vars
<1> SUFFICES ASSUME IInv, [SendNext]_sendVars PROVE [Promise!Next]_Promise!vars
  OBVIOUS
<1>1. CASE SendNext
  <2>1. Quiet \/ ConcludesSome \/ Dispatches \/ Accepts
    BY <1>1, StepKinds
  <2>2. CASE Quiet
    BY <2>2, QuietIsStutter
  <2>3. CASE ConcludesSome
    BY <2>3, ConcludedIsClose DEF ConcludesSome
  <2>4. CASE Dispatches
    BY <2>4, DispatchIsDispatch DEF Dispatches
  <2>5. CASE Accepts
    BY <2>5, AcceptIsWrite DEF Accepts
  <2> QED BY <2>1, <2>2, <2>3, <2>4, <2>5
<1>2. CASE UNCHANGED sendVars
  BY <1>2 DEF sendVars, Promise!vars
<1> QED BY <1>1, <1>2

(* However brokers die, links break and appends fail: an operation is not  *)
(* dispatched again while an earlier attempt may have reached or may yet   *)
(* reach its receiver, and verdicts tell the truth.                        *)
THEOREM PromiseKept == SendSpec => PeerDispatchRefined
<1> QED BY PromiseInit, PromiseStep, AlwaysInv, PTL DEF SendSpec, PeerDispatchRefined, Promise!Spec
=============================================================================
