----------------------- MODULE CollaborationState_proofs -----------------------
(***************************************************************************)
(* Proofs about CollaborationState, for any number of compactions,         *)
(* contacts and faults: types, the watermark, the baselines, and that a    *)
(* compaction counts once.                                                 *)
(*                                                                         *)
(* The checked invariants speak of the version that the next start loads   *)
(* and the one in memory. They are inductive when said of every version    *)
(* there is (Known), the other file too, which a damage may make the one   *)
(* that is loaded; and with what keeps both files in line with the memory  *)
(* (FilesKeep).                                                            *)
(***************************************************************************)
EXTENDS CollaborationState, FiniteSetTheorems, TLAPS

CollaborationTypeOK ==
    /\ up \in BOOLEAN /\ loaded \in BOOLEAN /\ memory \in States
    /\ committed \in BOOLEAN /\ dirty \in BOOLEAN /\ pending \subseteq Tokens
    /\ primary \in States \cup {None} /\ backup \in States \cup {None}
    /\ unreported \in Seq(Events) /\ awaiting \in Events \cup {None}
    /\ awaiting # None => unreported # <<>>
    /\ dirty => loaded
    /\ reports \in Seq(Events)
    /\ held \subseteq Tokens /\ plan \in [Tokens -> Plans \cup {None}]
    /\ met \in Nat \cup {None} /\ recorded \in [Events -> SUBSET Nat]
    /\ confirmed \subseteq Tokens /\ damaged \in BOOLEAN /\ faults \in Nat

(* Tokens are planned before they travel.                                  *)
TokensPlanned == \A t \in pending \cup held : plan[t] # None

(* Every version of the state that is anywhere.                            *)
Saved == {primary, backup} \ {None}
Known == Saved \cup (IF loaded THEN {memory} ELSE {})

-----------------------------------------------------------------------------
(* Contents                                                                *)

LEMMA EmptyStateType == EmptyState \in States
BY DEF EmptyState, States

LEMMA LaterType ==
    ASSUME NEW m \in Nat \cup {None}, NEW g \in Nat
    PROVE  /\ Later(m, g) \in Nat /\ Later(m, g) # None /\ g <= Later(m, g)
           /\ m # None => m <= Later(m, g)
           /\ Later(m, g) = g \/ Later(m, g) = m
BY NoneIsNothing DEF Later

LEMMA StagedProperties ==
    ASSUME NEW s \in States, NEW t \in Tokens, NEW g \in Nat
    PROVE  /\ WithStaged(s, t, g) \in States
           /\ WithStaged(s, t, g).staged[t] = g /\ g # None
           /\ \A u \in Tokens \ {t} : WithStaged(s, t, g).staged[u] = s.staged[u]
           /\ WithStaged(s, t, g).generation = s.generation
           /\ WithStaged(s, t, g).recent = s.recent
           /\ WithStaged(s, t, g).mark = s.mark
           /\ WithStaged(s, t, g).accepted = s.accepted
BY NoneIsNothing DEF WithStaged, States

LEMMA AcceptedProperties ==
    ASSUME NEW s \in States, NEW t \in Tokens, s.staged[t] # None
    PROVE  /\ WithAccepted(s, t) \in States
           /\ WithAccepted(s, t).staged[t] = None
           /\ \A u \in Tokens \ {t} : WithAccepted(s, t).staged[u] = s.staged[u]
           /\ WithAccepted(s, t).generation = s.generation
           /\ WithAccepted(s, t).recent = s.recent
           /\ WithAccepted(s, t).mark = Later(s.mark, s.staged[t])
           /\ WithAccepted(s, t).accepted = s.accepted \cup {t}
           /\ s.staged[t] \in Nat /\ s.mark \in Nat \cup {None}
<1>1. s.staged[t] \in Nat /\ s.mark \in Nat \cup {None}
  BY DEF States
<1>2. Later(s.mark, s.staged[t]) \in Nat
  BY <1>1, LaterType
<1> QED BY <1>1, <1>2 DEF WithAccepted, States

(* The first element makes room for one more than n.                       *)
WithLast(q, x, n) ==
    LET all == Append(q, x) IN SubSeq(all, IF Len(all) > n THEN 2 ELSE 1, Len(all))

LEMMA WithLastProperties ==
    ASSUME NEW S, NEW q \in Seq(S), NEW x \in S, NEW n \in Nat \ {0}
    PROVE  LET r == WithLast(q, x, n) IN
           /\ r \in Seq(S) /\ r # <<>> /\ r[Len(r)] = x
           /\ \A i \in 1..Len(r) : r[i] = x \/ \E j \in 1..Len(q) : r[i] = q[j]
<1> DEFINE all == Append(q, x)
           from == IF Len(all) > n THEN 2 ELSE 1
           r == WithLast(q, x, n)
<1>1. all \in Seq(S) /\ Len(all) = Len(q) + 1 /\ Len(q) \in Nat
  OBVIOUS
<1>2. all[Len(q) + 1] = x
  OBVIOUS
<1>3. \A i \in 1..Len(q) : all[i] = q[i]
  OBVIOUS
<1>4. from \in {1, 2} /\ from <= Len(all)
  BY <1>1
<1>0. r = SubSeq(all, from, Len(all))
  BY DEF WithLast
<1> HIDE DEF all, from, r
<1>5. r \in Seq(S) /\ Len(r) = Len(all) - from + 1
  BY <1>0, <1>1, <1>4
<1>6. \A i \in 1..Len(r) : r[i] = all[from + i - 1]
  BY <1>0, <1>1, <1>4, <1>5
<1>7. Len(r) \in Nat \ {0} /\ r # <<>>
  <2>1. Len(r) \in Nat \ {0}
    BY <1>1, <1>4, <1>5
  <2> QED BY <2>1
<1>8. r[Len(r)] = x
  <2>1. from + Len(r) - 1 = Len(q) + 1 /\ Len(r) \in 1..Len(r)
    BY <1>1, <1>4, <1>5, <1>7
  <2> QED BY <1>2, <1>6, <2>1
<1>9. \A i \in 1..Len(r) : r[i] = x \/ \E j \in 1..Len(q) : r[i] = q[j]
  <2> TAKE i \in 1..Len(r)
  <2>1. r[i] = all[from + i - 1] /\ from + i - 1 \in 1..Len(q) + 1
    BY <1>1, <1>4, <1>5, <1>6
  <2> QED BY <2>1, <1>1, <1>2, <1>3
<1> QED BY <1>5, <1>7, <1>8, <1>9 DEF r

LEMMA CompactionProperties ==
    ASSUME NEW s \in States, NEW e \in Events
    PROVE  /\ WithCompaction(s, e) \in States
           /\ WithCompaction(s, e).generation = s.generation + 1
           /\ WithCompaction(s, e).mark = s.mark
           /\ WithCompaction(s, e).staged = s.staged
           /\ WithCompaction(s, e).accepted = s.accepted
           /\ LET r == WithCompaction(s, e).recent
                  new == [event |-> e, generation |-> s.generation + 1] IN
              /\ r # <<>> /\ r[Len(r)] = new
              /\ \A i \in 1..Len(r) : r[i] = new \/ \E j \in 1..Len(s.recent) : r[i] = s.recent[j]
<1> DEFINE S == [event : Events, generation : Nat]
           new == [event |-> e, generation |-> s.generation + 1]
           r == WithLast(s.recent, new, RecentEvents)
<1>1. s.recent \in Seq(S) /\ s.generation \in Nat
  BY DEF States
<1>2. s.generation + 1 \in Nat
  BY <1>1
<1>3. new \in S
  BY <1>2
<1>4. RecentEvents \in Nat \ {0}
  BY CollaborationAssumption
<1> HIDE DEF S, new
<1>5. /\ r \in Seq(S) /\ r # <<>> /\ r[Len(r)] = new
      /\ \A i \in 1..Len(r) : r[i] = new \/ \E j \in 1..Len(s.recent) : r[i] = s.recent[j]
  BY <1>1, <1>3, <1>4, WithLastProperties
<1>6. WithCompaction(s, e) = [s EXCEPT !.generation = @ + 1, !.recent = r]
  BY DEF WithCompaction, WithLast, new
<1> HIDE DEF r
<1>7. [s EXCEPT !.generation = @ + 1, !.recent = r] \in States
  BY <1>2, <1>5 DEF States, S
<1>8. /\ WithCompaction(s, e).recent = r /\ WithCompaction(s, e).generation = s.generation + 1
      /\ WithCompaction(s, e).mark = s.mark
      /\ WithCompaction(s, e).staged = s.staged
      /\ WithCompaction(s, e).accepted = s.accepted
  BY <1>6 DEF States
<1> QED BY <1>5, <1>6, <1>7, <1>8 DEF new

-----------------------------------------------------------------------------
(* Files                                                                   *)

(* A write leaves each file as it was, or with what the memory or the new  *)
(* state says.                                                             *)
LEMMA WritesShape ==
    ASSUME NEW new, NEW i \in 1..Len(Writes(new)), Files(Writes(new)[i])
    PROVE  /\ primary' \in {primary, memory, new}
           /\ backup' \in {backup, memory, new}
           /\ i >= 3 => primary' \in {memory, new} /\ backup' \in {memory, new}
<1>1. CASE committed
  <2>1. Len(Writes(new)) = 3
    BY <1>1 DEF Writes
  <2>2. i \in {1, 2, 3}
    BY <2>1
  <2> QED BY <1>1, <2>2 DEF Writes, Files
<1>2. CASE ~committed
  <2>1. Len(Writes(new)) = 5
    BY <1>2 DEF Writes
  <2>2. i \in {1, 2, 3, 4, 5}
    BY <2>1
  <2> QED BY <1>2, <2>2 DEF Writes, Files
<1> QED BY <1>1, <1>2

LEMMA LastWrite ==
    ASSUME NEW new PROVE Len(Writes(new)) \in {3, 5}
                         /\ Writes(new)[Len(Writes(new))] = <<new, new>>
BY DEF Writes

(* What the handlers leave of memory and files, at whichever write they    *)
(* end; "new" is what they were writing.                                   *)
Rewrites(new) ==
    primary' \in {primary, memory, new} /\ backup' \in {backup, memory, new}

Saves(new) ==
    /\ primary' = new /\ backup' = new /\ memory' = new
    /\ committed' = TRUE /\ dirty' = FALSE /\ UNCHANGED <<up, loaded>>

Stops(new) ==
    /\ Rewrites(new)
    /\ UNCHANGED <<up, loaded, memory, dirty>>
    /\ \/ UNCHANGED committed
       \/ committed' = TRUE /\ primary' \in {memory, new} /\ backup' \in {memory, new}

LEMMA PersistShape == ASSUME NEW new, Persist(new) PROVE Saves(new)
BY LastWrite DEF Persist, Files, Saves

LEMMA PersistFailsShape ==
    ASSUME NEW new, PersistFails(new), committed \in BOOLEAN
    PROVE  Stops(new) /\ faults' = faults + 1
<1>1. PICK i \in 1..(Len(Writes(new)) - 1) :
             Files(Writes(new)[i]) /\ committed' = (committed \/ i >= 3)
  BY DEF PersistFails
<1>2. i \in 1..Len(Writes(new)) /\ i \in Nat
  BY LastWrite
<1> QED BY <1>1, <1>2, WritesShape DEF PersistFails, Stops, Rewrites, Fault

LEMMA PersistDiesShape ==
    ASSUME NEW new, PersistDies(new)
    PROVE  Rewrites(new) /\ Down /\ faults' = faults + 1
BY WritesShape DEF PersistDies, Rewrites, Fault

-----------------------------------------------------------------------------
(* Types                                                                   *)

LEMMA PlanType ==
    ASSUME CollaborationTypeOK, NEW t \in Tokens, NEW side \in {"sender", "receiver"},
           Plan(t, side)
    PROVE  /\ plan' \in [Tokens -> Plans \cup {None}]
           /\ plan'[t] = [generation |-> memory.generation, baseline |-> First, side |-> side]
           /\ plan'[t] # None
           /\ \A u \in Tokens \ {t} : plan'[u] = plan[u]
           /\ memory.generation \in Nat
<1> DEFINE new == [generation |-> memory.generation, baseline |-> First, side |-> side]
<1>1. memory.generation \in Nat
  BY DEF CollaborationTypeOK, States
<1>2. First \in BOOLEAN
  BY DEF First
<1>3. new \in Plans
  BY <1>1, <1>2 DEF Plans
<1>4. new # None
  BY <1>3, NoneIsNothing
<1>5. plan \in [Tokens -> Plans \cup {None}] /\ plan' = [plan EXCEPT ![t] = new]
  BY DEF CollaborationTypeOK, Plan
<1> HIDE DEF new
<1> QED BY <1>1, <1>3, <1>4, <1>5 DEF new

LEMMA DownType ==
    ASSUME CollaborationTypeOK, Down
    PROVE  /\ up' \in BOOLEAN /\ loaded' \in BOOLEAN /\ memory' \in States
           /\ committed' \in BOOLEAN /\ dirty' \in BOOLEAN /\ pending' \subseteq Tokens
           /\ unreported' \in Seq(Events) /\ awaiting' \in Events \cup {None}
           /\ awaiting' # None => unreported' # <<>>
           /\ dirty' => loaded'
           /\ reports' \in Seq(Events) /\ held' \subseteq Tokens
           /\ recorded' \in [Events -> SUBSET Nat] /\ confirmed' \subseteq Tokens
           /\ damaged' \in BOOLEAN
           /\ held' \subseteq held
<1>1. reports' \in Seq(Events)
  BY DEF Down
<1>2. held' \subseteq Tokens /\ held' \subseteq held
  BY DEF Down, CollaborationTypeOK
<1>3. memory' \in States
  BY EmptyStateType DEF Down
<1> QED BY <1>1, <1>2, <1>3 DEF Down, CollaborationTypeOK

LEMMA RewritesType ==
    ASSUME CollaborationTypeOK, NEW new \in States, Rewrites(new)
    PROVE  primary' \in States \cup {None} /\ backup' \in States \cup {None}
BY DEF Rewrites, CollaborationTypeOK

LEMMA SavesType ==
    ASSUME CollaborationTypeOK, NEW new \in States, Saves(new)
    PROVE  /\ up' \in BOOLEAN /\ loaded' \in BOOLEAN /\ memory' \in States
           /\ committed' \in BOOLEAN /\ dirty' \in BOOLEAN /\ (dirty' => loaded')
           /\ primary' \in States \cup {None} /\ backup' \in States \cup {None}
BY DEF Saves, CollaborationTypeOK

LEMMA StopsType ==
    ASSUME CollaborationTypeOK, NEW new \in States, Stops(new)
    PROVE  /\ up' \in BOOLEAN /\ loaded' \in BOOLEAN /\ memory' \in States
           /\ committed' \in BOOLEAN /\ dirty' \in BOOLEAN /\ (dirty' => loaded')
           /\ primary' \in States \cup {None} /\ backup' \in States \cup {None}
BY RewritesType DEF Stops, CollaborationTypeOK

(* What a send stages, and what the broker accepts by itself.              *)
LEMMA FirstStage ==
    ASSUME CollaborationTypeOK, NEW t \in Tokens
    PROVE  LET staged == WithStaged(memory, t, memory.generation) IN
           /\ memory.generation \in Nat
           /\ staged \in States /\ staged.staged[t] = memory.generation
           /\ staged.staged[t] # None
           /\ WithAccepted(staged, t) \in States
<1>1. memory \in States /\ memory.generation \in Nat
  BY DEF CollaborationTypeOK, States
<1> QED BY <1>1, StagedProperties, AcceptedProperties

(* The peer's side of an answer that arrives or gets lost.                 *)
ToldTypes ==
    /\ awaiting' \in Events \cup {None} /\ unreported' \in Seq(Events)
    /\ awaiting' # None => unreported' # <<>>
    /\ recorded' \in [Events -> SUBSET Nat] /\ faults' \in Nat

LEMMA ToldType ==
    ASSUME CollaborationTypeOK, NEW e \in Events, NEW g \in Nat,
           \/ Told(e, g) /\ UNCHANGED faults
           \/ Untold /\ Fault
    PROVE  ToldTypes
<1>1. CASE Told(e, g) /\ UNCHANGED faults /\ awaiting = e
  <2>1. unreported # <<>> /\ unreported \in Seq(Events)
    BY <1>1, NoneIsNothing DEF CollaborationTypeOK
  <2>2. Tail(unreported) \in Seq(Events)
    BY <2>1
  <2>3. awaiting' = None /\ unreported' = Tail(unreported) /\ faults' = faults
        /\ recorded' = [recorded EXCEPT ![e] = @ \cup {g}]
    BY <1>1 DEF Told
  <2>4. recorded' \in [Events -> SUBSET Nat]
    BY <2>3 DEF CollaborationTypeOK
  <2>5. faults' \in Nat
    BY <2>3 DEF CollaborationTypeOK
  <2> QED BY <2>2, <2>3, <2>4, <2>5 DEF ToldTypes
<1>2. CASE Told(e, g) /\ UNCHANGED faults /\ awaiting # e
  BY <1>2 DEF Told, CollaborationTypeOK, ToldTypes
<1>3. CASE Untold /\ Fault
  BY <1>3 DEF Untold, Fault, CollaborationTypeOK, ToldTypes
<1> QED BY <1>1, <1>2, <1>3

LEMMA CompactionTypes ==
    ASSUME CollaborationTypeOK, NEW e \in Events,
           \/ Compact(e) \/ DieInRecordCompaction(e) \/ RecordCompaction(e)
           \/ RepeatCompaction(e) \/ RecordCompactionFails(e)
    PROVE  CollaborationTypeOK'
<1>1. memory \in States /\ memory.generation \in Nat /\ WithCompaction(memory, e) \in States
  BY CompactionProperties DEF CollaborationTypeOK, States
<1>2. CASE Compact(e)
  BY <1>2 DEF Compact, CollaborationTypeOK, brokerVars, fileVars, observerVars
<1>3. CASE DieInRecordCompaction(e)
  BY <1>1, <1>3, PersistDiesShape, RewritesType, DownType DEF DieInRecordCompaction, CollaborationTypeOK
<1>4. CASE RecordCompaction(e)
  <2>1. Saves(WithCompaction(memory, e))
    BY <1>4, PersistShape DEF RecordCompaction
  <2>2. reports # <<>> /\ reports' = Tail(reports) /\ reports' \in Seq(Events)
    BY <1>4 DEF RecordCompaction, Requested, CollaborationTypeOK
  <2>3. ToldTypes
    BY <1>1, <1>4, ToldType DEF RecordCompaction
  <2> QED BY <1>1, <1>4, <2>1, <2>2, <2>3, SavesType DEF RecordCompaction, CollaborationTypeOK, observerVars, ToldTypes
<1>5. CASE RepeatCompaction(e)
  <2>1. GenerationOf(memory, e) \in Nat
    <3> DEFINE i == CHOOSE i \in DOMAIN memory.recent : memory.recent[i].event = e
    <3>1. i \in DOMAIN memory.recent
      BY <1>5 DEF RepeatCompaction, Counted
    <3> DEFINE S == [event : Events, generation : Nat]
    <3>2. memory.recent \in Seq(S)
      BY <1>1 DEF States
    <3> HIDE DEF i, S
    <3>4. \A j \in DOMAIN memory.recent : memory.recent[j] \in S
      BY <3>2
    <3>3. memory.recent[i].generation \in Nat
      <4>1. memory.recent[i] \in S
        BY <3>1, <3>4
      <4> QED BY <4>1 DEF S
    <3> QED BY <3>3 DEF GenerationOf, i
  <2>2. reports # <<>> /\ reports' = Tail(reports) /\ reports' \in Seq(Events)
    BY <1>5 DEF RepeatCompaction, Requested, CollaborationTypeOK
  <2>3. ToldTypes
    BY <2>1, <1>5, ToldType DEF RepeatCompaction
  <2> QED BY <1>5, <2>2, <2>3 DEF RepeatCompaction, CollaborationTypeOK, brokerVars, fileVars,
            observerVars, ToldTypes
<1>6. CASE RecordCompactionFails(e)
  <2>1. Stops(WithCompaction(memory, e)) /\ faults' = faults + 1
    BY <1>6, PersistFailsShape DEF RecordCompactionFails, CollaborationTypeOK
  <2>2. reports # <<>> /\ reports' = Tail(reports) /\ reports' \in Seq(Events)
    BY <1>6 DEF RecordCompactionFails, Requested, CollaborationTypeOK
  <2> QED BY <1>1, <1>6, <2>1, <2>2, StopsType DEF RecordCompactionFails, CollaborationTypeOK, observerVars
<1> QED BY <1>2, <1>3, <1>4, <1>5, <1>6

LEMMA SendTypes ==
    ASSUME CollaborationTypeOK, TokensPlanned, NEW t \in Tokens,
           \/ SendToObserver(t) \/ SendToObserverFails(t) \/ SendFromObserver(t)
           \/ SendFromObserverFails(t) \/ DieInSend(t) \/ ReplaySend(t) \/ ForgetToken(t)
    PROVE  CollaborationTypeOK'
<1> DEFINE staged == WithStaged(memory, t, memory.generation)
           accepted == WithAccepted(staged, t)
<1>1. memory.generation \in Nat /\ staged \in States /\ accepted \in States
  BY FirstStage
<1> HIDE DEF staged, accepted
<1>2. Later(met, memory.generation) \in Nat
  BY <1>1, LaterType DEF CollaborationTypeOK
<1>3. ASSUME Reaches(t) PROVE held' \subseteq Tokens /\ met' \in Nat \cup {None}
  BY <1>2, <1>3 DEF Reaches, CollaborationTypeOK
<1>4. CASE SendToObserver(t)
  <2>1. \/ Saves(staged)
        \/ UNCHANGED <<up, loaded, memory, committed, dirty, fileVars>>
    BY <1>4, PersistShape DEF SendToObserver, staged
  <2>2. plan' \in [Tokens -> Plans \cup {None}]
    BY <1>4, PlanType DEF SendToObserver
  <2> QED BY <1>1, <1>3, <1>4, <2>1, <2>2, SavesType
        DEF SendToObserver, CollaborationTypeOK, fileVars, peerVars
<1>5. CASE SendToObserverFails(t)
  <2>1. Stops(staged) /\ faults' = faults + 1
    BY <1>5, PersistFailsShape DEF SendToObserverFails, CollaborationTypeOK, staged
  <2>2. plan' \in [Tokens -> Plans \cup {None}]
    BY <1>5, PlanType DEF SendToObserverFails
  <2> QED BY <1>1, <1>5, <2>1, <2>2, StopsType DEF SendToObserverFails, CollaborationTypeOK
<1>6. CASE SendFromObserver(t)
  <2>1. plan' \in [Tokens -> Plans \cup {None}]
    BY <1>6, PlanType DEF SendFromObserver
  <2>2. CASE First
    <3>1. Saves(accepted)
      BY <1>6, <2>2, PersistShape DEF SendFromObserver, staged, accepted
    <3> QED BY <1>1, <1>2, <1>6, <2>1, <2>2, <3>1, SavesType
          DEF SendFromObserver, CollaborationTypeOK, peerVars
  <2>3. CASE ~First
    BY <1>3, <1>6, <2>1, <2>3 DEF SendFromObserver, CollaborationTypeOK, peerVars, fileVars
  <2> QED BY <2>2, <2>3
<1>7. CASE SendFromObserverFails(t)
  <2>1. plan' \in [Tokens -> Plans \cup {None}] /\ held' \subseteq Tokens
    BY <1>7, PlanType DEF SendFromObserverFails, Drops, CollaborationTypeOK
  <2>2. CASE PersistFails(staged) /\ UNCHANGED met
    <3>1. Stops(staged) /\ faults' = faults + 1
      BY <2>2, PersistFailsShape DEF CollaborationTypeOK
    <3>2. UNCHANGED <<pending, peerVars, confirmed, damaged>>
      BY <1>7 DEF SendFromObserverFails
    <3> QED BY <1>1, <2>1, <2>2, <3>1, <3>2, StopsType DEF CollaborationTypeOK, peerVars
  <2>3. CASE /\ Fault /\ primary' = staged /\ backup' \in {staged, accepted}
             /\ memory' = staged /\ committed' = TRUE /\ dirty' = FALSE
             /\ met' = Later(met, memory.generation) /\ UNCHANGED <<up, loaded>>
    <3>1. UNCHANGED <<pending, peerVars, confirmed, damaged>>
      BY <1>7 DEF SendFromObserverFails
    <3>2. /\ memory' \in States /\ primary' \in States \cup {None}
          /\ backup' \in States \cup {None} /\ met' \in Nat \cup {None}
      BY <1>1, <1>2, <2>3
    <3>3. committed' \in BOOLEAN /\ dirty' \in BOOLEAN /\ ~dirty'
      BY <2>3
    <3>4. faults' \in Nat
      BY <2>3 DEF CollaborationTypeOK, Fault
    <3> QED BY <2>1, <2>3, <3>1, <3>2, <3>3, <3>4 DEF CollaborationTypeOK, peerVars
  <2> QED BY <1>7, <2>2, <2>3 DEF SendFromObserverFails, staged, accepted
<1>8. CASE DieInSend(t)
  <2>1. plan' \in [Tokens -> Plans \cup {None}]
    BY <1>8, PlanType DEF DieInSend
  <2>2. CASE PersistDies(staged) /\ UNCHANGED met
    <3>1. Rewrites(staged) /\ Down /\ faults' = faults + 1
      BY <2>2, PersistDiesShape
    <3> QED BY <1>1, <2>1, <2>2, <3>1, RewritesType, DownType DEF CollaborationTypeOK
  <2>3. CASE /\ Fault /\ Down /\ met' = Later(met, memory.generation)
             /\ \E w \in {<<staged, staged>>, <<staged, accepted>>, <<accepted, accepted>>} : Files(w)
    <3>1. primary' \in States /\ backup' \in States
      BY <1>1, <2>3 DEF Files
    <3> QED BY <1>2, <2>1, <2>3, <3>1, DownType DEF CollaborationTypeOK, Fault
  <2> QED BY <1>8, <2>2, <2>3 DEF DieInSend, staged, accepted
<1>9. CASE ReplaySend(t)
  <2>1. plan[t] \in Plans
    BY <1>9 DEF ReplaySend, CollaborationTypeOK, TokensPlanned
  <2>2. Later(met, plan[t].generation) \in Nat
    BY <2>1, LaterType DEF CollaborationTypeOK, Plans
  <2> QED BY <1>9, <2>2 DEF ReplaySend, CollaborationTypeOK, brokerVars, fileVars, peerVars
<1>10. CASE ForgetToken(t)
  BY <1>10 DEF ForgetToken, CollaborationTypeOK, fileVars, peerVars, observerVars
<1> QED BY <1>4, <1>5, <1>6, <1>7, <1>8, <1>9, <1>10

LEMMA SeenTypes ==
    ASSUME CollaborationTypeOK, TokensPlanned, NEW t \in Tokens,
           \/ AcceptBaseline(t) \/ RepeatAcceptance(t) \/ AcceptBaselineFails(t)
           \/ DieInAcceptBaseline(t) \/ UnknownToken(t) \/ RecordAcceptedContact(t)
    PROVE  CollaborationTypeOK'
<1>1. memory \in States
  BY DEF CollaborationTypeOK
<1>2. memory.staged[t] # None => WithAccepted(memory, t) \in States
  BY <1>1, AcceptedProperties
<1>3. ASSUME Answered(t)
      PROVE  held' \subseteq Tokens /\ confirmed' \subseteq Tokens /\ faults' \in Nat
  BY <1>3 DEF Answered, Fault, CollaborationTypeOK
<1>4. CASE AcceptBaseline(t)
  <2>1. Saves(WithAccepted(memory, t)) /\ WithAccepted(memory, t) \in States
    BY <1>2, <1>4, PersistShape DEF AcceptBaseline
  <2> QED BY <1>3, <1>4, <2>1, SavesType DEF AcceptBaseline, CollaborationTypeOK, peerVars
<1>5. CASE RepeatAcceptance(t)
  BY <1>3, <1>5 DEF RepeatAcceptance, CollaborationTypeOK, peerVars, fileVars
<1>6. CASE AcceptBaselineFails(t)
  <2>1. /\ Stops(WithAccepted(memory, t)) /\ WithAccepted(memory, t) \in States
        /\ faults' = faults + 1
    BY <1>2, <1>6, PersistFailsShape DEF AcceptBaselineFails, CollaborationTypeOK
  <2> QED BY <1>6, <2>1, StopsType
        DEF AcceptBaselineFails, CollaborationTypeOK, peerVars, observerVars
<1>7. CASE DieInAcceptBaseline(t)
  <2>1. /\ Rewrites(WithAccepted(memory, t)) /\ WithAccepted(memory, t) \in States
        /\ Down /\ faults' = faults + 1
    BY <1>2, <1>7, PersistDiesShape DEF DieInAcceptBaseline
  <2> QED BY <1>7, <2>1, RewritesType, DownType DEF DieInAcceptBaseline, CollaborationTypeOK
<1>8. CASE UnknownToken(t)
  BY <1>8 DEF UnknownToken, CollaborationTypeOK, brokerVars, fileVars, peerVars
<1>9. CASE RecordAcceptedContact(t)
  <2>1. plan[t] \in Plans
    BY <1>9 DEF RecordAcceptedContact, Volatile, CollaborationTypeOK, TokensPlanned
  <2>2. plan[t].generation \in Nat /\ memory.mark \in Nat \cup {None}
    BY <1>1, <2>1 DEF Plans, States
  <2>3. Later(memory.mark, plan[t].generation) \in Nat
    BY <2>2, LaterType
  <2>4. memory' \in States
    BY <1>1, <1>9, <2>3 DEF RecordAcceptedContact, States
  <2> QED BY <1>9, <2>4 DEF RecordAcceptedContact, CollaborationTypeOK, peerVars, fileVars, Seen, Ready
<1> QED BY <1>4, <1>5, <1>6, <1>7, <1>8, <1>9

LEMMA OtherTypes ==
    ASSUME CollaborationTypeOK,
           \/ Load \/ Flush \/ Evict \/ Die \/ DieInFlush \/ Close \/ Start \/ Reconnect
           \/ Damage \/ Report \/ ReportTimesOut
    PROVE  CollaborationTypeOK'
<1>1. memory \in States /\ EmptyState \in States
  BY EmptyStateType DEF CollaborationTypeOK
<1>2. CASE Load
  BY <1>1, <1>2 DEF Load, CollaborationTypeOK, peerVars, observerVars
<1>3. CASE Flush
  <2>1. \/ Saves(memory) /\ faults' = faults
        \/ Stops(memory) /\ faults' = faults + 1
    BY <1>3, PersistShape, PersistFailsShape DEF Flush, CollaborationTypeOK
  <2> QED BY <1>1, <1>3, <2>1, SavesType, StopsType
        DEF Flush, CollaborationTypeOK, peerVars, observerVars
<1>4. CASE Evict
  <2>1. primary' \in {primary, memory} /\ backup' \in {backup, memory}
    BY <1>4, LastWrite DEF Evict, Files, fileVars
  <2> QED BY <1>1, <1>4, <2>1 DEF Evict, CollaborationTypeOK, peerVars, observerVars
<1>5. CASE Die
  BY <1>5, DownType DEF Die, CollaborationTypeOK, fileVars, Fault
<1>6. CASE DieInFlush
  BY <1>1, <1>6, PersistDiesShape, RewritesType, DownType DEF DieInFlush, CollaborationTypeOK
<1>7. CASE Close
  <2>1. Rewrites(memory)
    BY <1>7, WritesShape DEF Close, Rewrites, fileVars
  <2> QED BY <1>1, <1>7, <2>1, RewritesType, DownType DEF Close, CollaborationTypeOK, Fault
<1>8. CASE Start
  BY <1>8 DEF Start, CollaborationTypeOK, fileVars, peerVars, observerVars
<1>9. CASE Reconnect
  BY <1>9 DEF Reconnect, Drops, CollaborationTypeOK, brokerVars, fileVars, peerVars
<1>10. CASE Damage
  BY <1>10 DEF Damage, CollaborationTypeOK, brokerVars, peerVars, observerVars
<1>11. CASE Report
  <2>1. Head(unreported) \in Events
    BY <1>11 DEF Report, CollaborationTypeOK
  <2> QED BY <1>11, <2>1 DEF Report, CollaborationTypeOK, brokerVars, fileVars, observerVars
<1>12. CASE ReportTimesOut
  BY <1>12 DEF ReportTimesOut, Fault, CollaborationTypeOK, brokerVars, fileVars, observerVars
<1> QED BY <1>2, <1>3, <1>4, <1>5, <1>6, <1>7, <1>8, <1>9, <1>10, <1>11, <1>12

(* Whatever moves tokens moves planned ones.                               *)
LEMMA PlannedStep ==
    ASSUME CollaborationTypeOK, TokensPlanned, [Next]_vars
    PROVE  TokensPlanned'
<1>1. ASSUME UNCHANGED plan, held' \subseteq held \cup pending, pending' \subseteq pending
      PROVE  TokensPlanned'
  BY <1>1 DEF TokensPlanned
<1>2. ASSUME NEW t \in Tokens, NEW side \in {"sender", "receiver"}, Plan(t, side),
             held' \subseteq held \cup {t}, pending' \subseteq pending \cup {t}
      PROVE  TokensPlanned'
  <2>1. plan'[t] # None /\ \A u \in Tokens \ {t} : plan'[u] = plan[u]
    BY <1>2, PlanType
  <2>2. held \subseteq Tokens /\ pending \subseteq Tokens
    BY DEF CollaborationTypeOK
  <2> QED BY <1>2, <2>1, <2>2 DEF TokensPlanned
<1>3. CASE UNCHANGED vars
  BY <1>1, <1>3 DEF vars, brokerVars, observerVars
<1>4. CASE Load \/ Flush \/ Evict \/ Start \/ Reconnect \/ Damage \/ Report \/ ReportTimesOut
  BY <1>1, <1>4 DEF Load, Flush, Persist, PersistFails, Evict, Start, Reconnect, Drops, Damage,
       Report, ReportTimesOut, brokerVars, observerVars
<1>5. CASE Die \/ DieInFlush \/ Close
  BY <1>1, <1>5 DEF Die, DieInFlush, Close, PersistDies, Down
<1>6. ASSUME NEW e \in Events,
             \/ Compact(e) \/ DieInRecordCompaction(e) \/ RecordCompaction(e)
             \/ RepeatCompaction(e) \/ RecordCompactionFails(e)
      PROVE  TokensPlanned'
  BY <1>1, <1>6 DEF Compact, DieInRecordCompaction, RecordCompaction, RepeatCompaction,
       RecordCompactionFails, PersistDies, Down, brokerVars, observerVars
<1>7. ASSUME NEW t \in Tokens,
             SendToObserver(t) \/ SendToObserverFails(t) \/ SendFromObserver(t)
      PROVE  TokensPlanned'
  BY <1>2, <1>7 DEF SendToObserver, SendToObserverFails, SendFromObserver, Reaches
<1>8. ASSUME NEW t \in Tokens, SendFromObserverFails(t) \/ DieInSend(t)
      PROVE  TokensPlanned'
  <2>1. held' \subseteq held /\ pending' \subseteq pending
    BY <1>8 DEF SendFromObserverFails, DieInSend, PersistDies, Down, Drops
  <2>2. Plan(t, "sender")
    BY <1>8 DEF SendFromObserverFails, DieInSend
  <2> QED BY <1>2, <2>1, <2>2
<1>9. ASSUME NEW t \in Tokens, ReplaySend(t) \/ ForgetToken(t) PROVE TokensPlanned'
  BY <1>1, <1>9 DEF ReplaySend, ForgetToken, brokerVars, observerVars
<1>10. ASSUME NEW t \in Tokens,
              \/ AcceptBaseline(t) \/ RepeatAcceptance(t) \/ AcceptBaselineFails(t)
              \/ DieInAcceptBaseline(t) \/ UnknownToken(t) \/ RecordAcceptedContact(t)
       PROVE  TokensPlanned'
  BY <1>1, <1>10 DEF AcceptBaseline, RepeatAcceptance, AcceptBaselineFails, DieInAcceptBaseline,
       UnknownToken, RecordAcceptedContact, Answered, PersistDies, Down, brokerVars, observerVars
<1> QED BY <1>3, <1>4, <1>5, <1>6, <1>7, <1>8, <1>9, <1>10 DEF Next, HandleReport

LEMMA TypesStep ==
    ASSUME CollaborationTypeOK, TokensPlanned, [Next]_vars
    PROVE  CollaborationTypeOK'
<1>1. CASE UNCHANGED vars
  BY <1>1 DEF vars, brokerVars, fileVars, peerVars, observerVars, CollaborationTypeOK
<1> QED BY <1>1, OtherTypes, CompactionTypes, SendTypes, SeenTypes DEF Next, HandleReport

(* Memory and files keep their types, the peer awaits an answer only to a  *)
(* report that it still has, what is unsaved is in memory, and tokens that *)
(* travel are planned.                                                     *)
THEOREM CollaborationTypes == Spec => [](CollaborationTypeOK /\ TokensPlanned)
<1>1. Init => CollaborationTypeOK /\ TokensPlanned
  <2> SUFFICES ASSUME Init PROVE CollaborationTypeOK /\ TokensPlanned
    OBVIOUS
  <2>1. memory \in States
    BY EmptyStateType DEF Init
  <2>2. plan \in [Tokens -> Plans \cup {None}] /\ recorded \in [Events -> SUBSET Nat]
    BY DEF Init
  <2>3. unreported \in Seq(Events) /\ reports \in Seq(Events)
    BY DEF Init
  <2> QED BY <2>1, <2>2, <2>3 DEF Init, CollaborationTypeOK, TokensPlanned
<1>2. CollaborationTypeOK /\ TokensPlanned /\ [Next]_vars => (CollaborationTypeOK /\ TokensPlanned)'
  BY TypesStep, PlannedStep
<1> QED BY <1>1, <1>2, PTL DEF Spec

-----------------------------------------------------------------------------
(* Versions                                                                *)

(* A version that says nothing that did not happen: no more contact than   *)
(* "m", plans "pl" for what is staged, and what is accepted in the mark.   *)
Sound(v, pl, m) ==
    /\ v.mark # None => m # None /\ v.mark <= m
    /\ \A t \in Tokens : v.staged[t] # None => pl[t] # None /\ v.staged[t] = pl[t].generation
    /\ \A t \in v.accepted : pl[t] # None /\ v.mark # None /\ pl[t].generation <= v.mark

AtLeast(n, m) == m # None => n # None /\ m <= n
Extended(pl, old) == \A t \in Tokens : old[t] # None => pl[t] = old[t]

TokenPlans == [Tokens -> Plans \cup {None}]
Marks == Nat \cup {None}

LEMMA SoundGrows ==
    ASSUME NEW v \in States, NEW pl \in TokenPlans, NEW pl2 \in TokenPlans,
           NEW m \in Marks, NEW m2 \in Marks,
           Sound(v, pl, m), AtLeast(m2, m), Extended(pl2, pl)
    PROVE  Sound(v, pl2, m2)
<1>1. v.accepted \subseteq Tokens /\ v.mark \in Nat \cup {None}
  BY DEF States
<1>2. v.mark # None => m2 # None /\ v.mark <= m2
  BY <1>1, NoneIsNothing DEF Sound, AtLeast, Marks
<1> QED BY <1>1, <1>2 DEF Sound, Extended

LEMMA SoundStaged ==
    ASSUME NEW v \in States, NEW t \in Tokens, NEW pl \in TokenPlans, NEW pl2 \in TokenPlans,
           NEW m \in Marks, NEW m2 \in Marks,
           Sound(v, pl, m), AtLeast(m2, m), Extended(pl2, pl),
           pl[t] = None, pl2[t] # None, pl2[t].generation = v.generation
    PROVE  Sound(WithStaged(v, t, v.generation), pl2, m2)
<1>1. v.generation \in Nat
  BY DEF States
<1>2. Sound(v, pl2, m2)
  BY SoundGrows
<1> QED BY <1>1, <1>2, StagedProperties DEF Sound

LEMMA SoundAccepted ==
    ASSUME NEW v \in States, NEW t \in Tokens, NEW pl \in TokenPlans, NEW m \in Marks,
           Sound(v, pl, m), v.staged[t] # None, m # None, pl[t].generation <= m
    PROVE  Sound(WithAccepted(v, t), pl, m)
<1> DEFINE w == WithAccepted(v, t)
<1>1. /\ w.staged[t] = None /\ \A u \in Tokens \ {t} : w.staged[u] = v.staged[u]
      /\ w.mark = Later(v.mark, v.staged[t]) /\ w.accepted = v.accepted \cup {t}
      /\ v.staged[t] \in Nat /\ v.mark \in Nat \cup {None}
  BY AcceptedProperties
<1>2. pl[t] # None /\ v.staged[t] = pl[t].generation
  BY DEF Sound
<1> HIDE DEF w
<1>3. /\ w.mark \in Nat /\ w.mark # None /\ v.staged[t] <= w.mark
      /\ v.mark # None => v.mark <= w.mark
      /\ w.mark = v.staged[t] \/ w.mark = v.mark
  <2> DEFINE old == v.mark
             g == v.staged[t]
  <2>1. old \in Nat \cup {None} /\ g \in Nat /\ w.mark = Later(old, g)
    BY <1>1
  <2> HIDE DEF old, g
  <2>2. /\ w.mark \in Nat /\ w.mark # None /\ g <= w.mark
        /\ old # None => old <= w.mark
        /\ w.mark = g \/ w.mark = old
    <3> DEFINE late == Later(old, g)
    <3>1. /\ late \in Nat /\ late # None /\ g <= late
          /\ old # None => old <= late
          /\ late = g \/ late = old
      BY <2>1, LaterType
    <3>2. w.mark = late
      BY <2>1
    <3> HIDE DEF late
    <3> QED BY <3>1, <3>2
  <2> QED BY <2>2 DEF old, g
<1>4. w.mark <= m
  <2>1. v.mark # None => m # None /\ v.mark <= m
    BY DEF Sound
  <2> QED BY <1>2, <1>3, <2>1
<1>5. \A u \in v.accepted : u \in Tokens /\ pl[u] \in Plans
  BY DEF Sound, States, TokenPlans
<1>6. \A u \in w.accepted : pl[u] # None /\ w.mark # None /\ pl[u].generation <= w.mark
  <2> TAKE u \in w.accepted
  <2>1. CASE u = t
    BY <2>1, <1>2, <1>3
  <2>2. CASE u \in v.accepted
    <3>1. pl[u] # None /\ v.mark # None /\ pl[u].generation <= v.mark
      BY <2>2 DEF Sound
    <3>2. pl[u].generation \in Nat /\ v.mark \in Nat
      BY <1>1, <1>5, <2>2, <3>1 DEF Plans
    <3> QED BY <1>3, <3>1, <3>2
  <2> QED BY <1>1, <2>1, <2>2
<1>7. Sound(w, pl, m)
  BY <1>1, <1>3, <1>4, <1>6 DEF Sound
<1> QED BY <1>7 DEF w

(* What is known after a handler that wrote "new".                         *)
LEMMA KnownAfter ==
    ASSUME NEW new, new # None, loaded = TRUE, memory # None
    PROVE  /\ Saves(new) => Known' \subseteq {new}
           /\ Stops(new) => Known' \subseteq Known \cup {new}
           /\ Rewrites(new) /\ Down => Known' \subseteq Known \cup {new}
           /\ memory \in Known
BY DEF Saves, Stops, Rewrites, Down, Known, Saved

LEMMA KnownSame ==
    ASSUME UNCHANGED <<memory, loaded, primary, backup>>
    PROVE  Known' = Known
BY DEF Known, Saved

LEMMA KnownAreStates == ASSUME CollaborationTypeOK PROVE Known \subseteq States /\ memory # None
BY NoneIsNothing DEF CollaborationTypeOK, Known, Saved

(* Contacts only move forward, and a plan stays.                           *)
LEMMA ContactsMoveForward ==
    ASSUME CollaborationTypeOK, TokensPlanned, [Next]_vars
    PROVE  AtLeast(met', met) /\ Extended(plan', plan)
<1>1. \A g \in Nat : AtLeast(Later(met, g), met)
  BY LaterType DEF AtLeast, CollaborationTypeOK
<1>2. ASSUME UNCHANGED <<plan, met>> PROVE AtLeast(met', met) /\ Extended(plan', plan)
  BY <1>2 DEF AtLeast, Extended, CollaborationTypeOK
<1>3. ASSUME NEW t \in Tokens, NEW side \in {"sender", "receiver"}, Plan(t, side), Unused(t),
             met' = met \/ met' = Later(met, memory.generation)
      PROVE  AtLeast(met', met) /\ Extended(plan', plan)
  <2>1. memory.generation \in Nat /\ \A u \in Tokens \ {t} : plan'[u] = plan[u]
    BY <1>3, PlanType
  <2>2. AtLeast(met', met)
    BY <1>1, <1>3, <2>1 DEF AtLeast, CollaborationTypeOK
  <2> QED BY <1>3, <2>1, <2>2 DEF Extended, Unused
<1>4. CASE UNCHANGED vars
  BY <1>2, <1>4 DEF vars, observerVars
<1>5. CASE Load \/ Flush \/ Evict \/ Start \/ Reconnect \/ Damage \/ Report \/ ReportTimesOut
  BY <1>2, <1>5 DEF Load, Flush, Evict, Start, Reconnect, Damage, Report, ReportTimesOut, observerVars
<1>6. CASE Die \/ DieInFlush \/ Close
  BY <1>2, <1>6 DEF Die, DieInFlush, Close
<1>7. ASSUME NEW e \in Events,
             \/ Compact(e) \/ DieInRecordCompaction(e) \/ RecordCompaction(e)
             \/ RepeatCompaction(e) \/ RecordCompactionFails(e)
      PROVE  AtLeast(met', met) /\ Extended(plan', plan)
  BY <1>2, <1>7 DEF Compact, DieInRecordCompaction, RecordCompaction, RepeatCompaction,
       RecordCompactionFails, observerVars
<1>8. ASSUME NEW t \in Tokens, SendToObserver(t) \/ SendToObserverFails(t)
      PROVE  AtLeast(met', met) /\ Extended(plan', plan)
  BY <1>3, <1>8 DEF SendToObserver, SendToObserverFails, Reaches
<1>9. ASSUME NEW t \in Tokens, SendFromObserver(t) \/ SendFromObserverFails(t) \/ DieInSend(t)
      PROVE  AtLeast(met', met) /\ Extended(plan', plan)
  <2>1. Plan(t, "sender") /\ Unused(t)
    BY <1>9 DEF SendFromObserver, SendFromObserverFails, DieInSend
  <2>2. met' = met \/ met' = Later(met, memory.generation)
    BY <1>9 DEF SendFromObserver, SendFromObserverFails, DieInSend, Reaches
  <2> QED BY <1>3, <2>1, <2>2
<1>10. ASSUME NEW t \in Tokens, ReplaySend(t) PROVE AtLeast(met', met) /\ Extended(plan', plan)
  <2>1. plan[t] \in Plans
    BY <1>10 DEF ReplaySend, CollaborationTypeOK, TokensPlanned
  <2> QED BY <1>1, <1>10, <2>1 DEF ReplaySend, Plans, Extended
<1>11. ASSUME NEW t \in Tokens,
              \/ ForgetToken(t) \/ AcceptBaseline(t) \/ RepeatAcceptance(t)
              \/ AcceptBaselineFails(t) \/ DieInAcceptBaseline(t) \/ UnknownToken(t)
              \/ RecordAcceptedContact(t)
       PROVE  AtLeast(met', met) /\ Extended(plan', plan)
  BY <1>2, <1>11 DEF ForgetToken, AcceptBaseline, RepeatAcceptance, AcceptBaselineFails,
       DieInAcceptBaseline, UnknownToken, RecordAcceptedContact, observerVars
<1> QED BY <1>4, <1>5, <1>6, <1>7, <1>8, <1>9, <1>10, <1>11 DEF Next, HandleReport

(* Moved by a contact that is not a first one.                             *)
WithMark(s, g) == [s EXCEPT !.mark = Later(@, g)]
Staged(t) == WithStaged(memory, t, memory.generation)

(* The ways in which a step brings a version that was not there.           *)
LoadsNothing == loaded = FALSE /\ Saved = {} /\ Known' \subseteq {EmptyState}
                /\ UNCHANGED <<plan, met, held, confirmed, peerVars>>
Counts(e) == /\ Requested(e) /\ ~Counted(memory, e) /\ Known' \subseteq Known \cup {WithCompaction(memory, e)}
             /\ UNCHANGED <<plan, met, confirmed>> /\ held' \subseteq held
Stages(t) ==
    /\ Ready /\ Unused(t) /\ plan'[t] # None /\ plan'[t].generation = memory.generation
    /\ \/ Known' \subseteq Known \cup {Staged(t)}
       \/ /\ Known' \subseteq Known \cup {Staged(t), WithAccepted(Staged(t), t)}
          /\ met' = Later(met, memory.generation)
Accepts(t) == /\ Seen(t) /\ memory.staged[t] # None /\ UNCHANGED <<plan, met>>
              /\ Known' \subseteq Known \cup {WithAccepted(memory, t)}
Moves(t) == /\ Seen(t) /\ Volatile(t) /\ UNCHANGED <<plan, met, confirmed>> /\ held' \subseteq held
            /\ Known' \subseteq Known \cup {WithMark(memory, plan[t].generation)}

NewVersion ==
    \/ LoadsNothing
    \/ \E e \in Events : Counts(e)
    \/ \E t \in Tokens : Stages(t) \/ Accepts(t) \/ Moves(t)

LEMMA OldVersions ==
    ASSUME CollaborationTypeOK,
           \/ Load \/ Flush \/ Evict \/ Die \/ DieInFlush \/ Close \/ Start \/ Reconnect \/ Damage
           \/ Report \/ ReportTimesOut
           \/ \E e \in Events : Compact(e) \/ RepeatCompaction(e)
           \/ \E t \in Tokens : ReplaySend(t) \/ ForgetToken(t) \/ RepeatAcceptance(t)
                                \/ UnknownToken(t)
           \/ UNCHANGED vars
    PROVE  Known' \subseteq Known \/ LoadsNothing
<1>0. /\ memory # None /\ loaded \in BOOLEAN /\ memory \in {memory}
      /\ loaded = TRUE => memory \in Known
  BY KnownAreStates DEF CollaborationTypeOK, Known
<1>1. CASE Load
  <2>1. CASE primary # None
    BY <1>1, <2>1 DEF Load, Known, Saved
  <2>2. CASE primary = None /\ backup # None
    BY <1>1, <2>2 DEF Load, Known, Saved
  <2>3. CASE primary = None /\ backup = None
    <3>1. memory' = EmptyState /\ primary' = None /\ backup' = None /\ loaded = FALSE
      BY <1>0, <1>1, <2>3 DEF Load
    <3>2. Saved = {} /\ Saved' = {}
      BY <2>3, <3>1 DEF Saved
    <3> QED BY <1>1, <3>1, <3>2 DEF Load, LoadsNothing, Known, observerVars
  <2> QED BY <2>1, <2>2, <2>3
<1>2. CASE Flush
  <2>1. Saves(memory) \/ Stops(memory)
    BY <1>2, PersistShape, PersistFailsShape DEF Flush, CollaborationTypeOK
  <2>2. loaded = TRUE
    BY <1>0, <1>2 DEF Flush, Ready
  <2> QED BY <1>0, <2>1, <2>2, KnownAfter
<1>3. CASE Evict
  <2>1. primary' \in {primary, memory} /\ backup' \in {backup, memory} /\ loaded' = FALSE
    BY <1>3, LastWrite DEF Evict, Files, fileVars
  <2>2. loaded = TRUE
    BY <1>0, <1>3 DEF Evict, Ready
  <2> QED BY <1>0, <2>1, <2>2 DEF Known, Saved
<1>4. CASE Die
  BY <1>4 DEF Die, Down, Known, Saved, fileVars
<1>5. CASE DieInFlush
  <2>1. Rewrites(memory) /\ Down
    BY <1>5, PersistDiesShape DEF DieInFlush
  <2>2. loaded = TRUE
    BY <1>0, <1>5 DEF DieInFlush, Ready
  <2> QED BY <1>0, <2>1, <2>2, KnownAfter
<1>6. CASE Start \/ Reconnect \/ Report \/ ReportTimesOut \/ UNCHANGED vars
  <2>1. UNCHANGED <<memory, loaded, primary, backup>>
    BY <1>6 DEF Start, Reconnect, Report, ReportTimesOut, vars, brokerVars, fileVars
  <2> QED BY <2>1, KnownSame
<1>7. ASSUME NEW e \in Events, Compact(e) \/ RepeatCompaction(e) PROVE Known' \subseteq Known
  <2>1. UNCHANGED <<memory, loaded, primary, backup>>
    BY <1>7 DEF Compact, RepeatCompaction, brokerVars, fileVars
  <2> QED BY <2>1, KnownSame
<1>8. ASSUME NEW t \in Tokens,
             ReplaySend(t) \/ ForgetToken(t) \/ RepeatAcceptance(t) \/ UnknownToken(t)
      PROVE  Known' \subseteq Known
  <2>1. UNCHANGED <<memory, loaded, primary, backup>>
    BY <1>8 DEF ReplaySend, ForgetToken, RepeatAcceptance, UnknownToken, brokerVars, fileVars
  <2> QED BY <2>1, KnownSame
<1>9. CASE Damage
  BY <1>9 DEF Damage, Known, Saved, brokerVars
<1>10. CASE Close
  <2>1. Down /\ (dirty => Rewrites(memory)) /\ (~dirty => UNCHANGED fileVars)
    BY <1>10, WritesShape DEF Close, Rewrites
  <2>2. CASE dirty
    <3>1. loaded = TRUE
      BY <1>0, <2>2 DEF CollaborationTypeOK
    <3> QED BY <1>0, <2>1, <2>2, <3>1, KnownAfter
  <2>3. CASE ~dirty
    BY <2>1, <2>3 DEF Down, Known, Saved, fileVars
  <2> QED BY <2>2, <2>3
<1> QED BY <1>1, <1>2, <1>3, <1>4, <1>5, <1>6, <1>7, <1>8, <1>9, <1>10

LEMMA NewVersions ==
    ASSUME CollaborationTypeOK, TokensPlanned, [Next]_vars
    PROVE  Known' \subseteq Known \/ NewVersion
<1>0. /\ memory # None /\ memory \in States /\ loaded \in BOOLEAN /\ committed \in BOOLEAN
      /\ memory.generation \in Nat
      /\ loaded = TRUE => memory \in Known
  BY KnownAreStates DEF CollaborationTypeOK, Known, States
<1>1. ASSUME NEW e \in Events,
             RecordCompaction(e) \/ RecordCompactionFails(e) \/ DieInRecordCompaction(e)
      PROVE  Counts(e)
  <2> DEFINE new == WithCompaction(memory, e)
  <2>1. new \in States /\ new # None
    BY <1>0, CompactionProperties, NoneIsNothing
  <2>2. Requested(e) /\ ~Counted(memory, e) /\ loaded = TRUE
    BY <1>0, <1>1 DEF RecordCompaction, RecordCompactionFails, DieInRecordCompaction, Requested, Ready
  <2>3. Saves(new) \/ Stops(new) \/ (Rewrites(new) /\ Down)
    BY <1>0, <1>1, PersistShape, PersistFailsShape, PersistDiesShape
       DEF RecordCompaction, RecordCompactionFails, DieInRecordCompaction
  <2>4. UNCHANGED <<plan, met, confirmed>> /\ held' \subseteq held
    BY <1>1 DEF RecordCompaction, RecordCompactionFails, DieInRecordCompaction, PersistDies, Down,
         observerVars
  <2> HIDE DEF new
  <2>5. Known' \subseteq Known \cup {new}
    BY <1>0, <2>1, <2>2, <2>3, KnownAfter
  <2> QED BY <2>2, <2>4, <2>5 DEF Counts, new
<1>2. ASSUME NEW t \in Tokens, NEW side \in {"sender", "receiver"},
             Ready, Unused(t), Plan(t, side)
      PROVE  /\ Stages(t) <=> \/ Known' \subseteq Known \cup {Staged(t)}
                              \/ /\ Known' \subseteq Known \cup {Staged(t), WithAccepted(Staged(t), t)}
                                 /\ met' = Later(met, memory.generation)
             /\ Staged(t) \in States /\ Staged(t) # None
             /\ WithAccepted(Staged(t), t) \in States /\ WithAccepted(Staged(t), t) # None
             /\ loaded = TRUE
  <2>1. plan'[t] # None /\ plan'[t].generation = memory.generation
    BY <1>2, PlanType
  <2> QED BY <1>0, <1>2, <2>1, FirstStage, NoneIsNothing DEF Stages, Staged, Ready
<1>3. ASSUME NEW t \in Tokens, SendToObserver(t) PROVE Stages(t)
  <2>1. Ready /\ Unused(t) /\ Plan(t, "receiver")
    BY <1>3 DEF SendToObserver
  <2>2. Saves(Staged(t)) \/ UNCHANGED <<memory, loaded, primary, backup>>
    BY <1>3, PersistShape DEF SendToObserver, Staged, fileVars
  <2>3. Known' \subseteq Known \cup {Staged(t)}
    BY <1>0, <1>2, <2>1, <2>2, KnownAfter, KnownSame
  <2> QED BY <1>2, <2>1, <2>3
<1>4. ASSUME NEW t \in Tokens, SendToObserverFails(t) PROVE Stages(t)
  <2>1. Ready /\ Unused(t) /\ Plan(t, "receiver")
    BY <1>4 DEF SendToObserverFails
  <2>2. Stops(Staged(t))
    BY <1>0, <1>4, PersistFailsShape DEF SendToObserverFails, Staged
  <2>3. Known' \subseteq Known \cup {Staged(t)}
    BY <1>0, <1>2, <2>1, <2>2, KnownAfter
  <2> QED BY <1>2, <2>1, <2>3
<1>5. ASSUME NEW t \in Tokens, SendFromObserver(t) PROVE Stages(t)
  <2>1. Ready /\ Unused(t) /\ Plan(t, "sender")
    BY <1>5 DEF SendFromObserver
  <2>2. CASE First
    <3>1. Saves(WithAccepted(Staged(t), t)) /\ met' = Later(met, memory.generation)
      BY <1>5, <2>2, PersistShape DEF SendFromObserver, Staged
    <3>2. Known' \subseteq Known \cup {Staged(t), WithAccepted(Staged(t), t)}
      BY <1>0, <1>2, <2>1, <3>1, KnownAfter
    <3> QED BY <1>2, <2>1, <3>1, <3>2
  <2>3. CASE ~First
    <3>1. UNCHANGED <<memory, loaded, primary, backup>>
      BY <1>5, <2>3 DEF SendFromObserver, fileVars
    <3> QED BY <1>2, <2>1, <3>1, KnownSame
  <2> QED BY <2>2, <2>3
<1>6. ASSUME NEW t \in Tokens, SendFromObserverFails(t) PROVE Stages(t)
  <2>1. Ready /\ Unused(t) /\ Plan(t, "sender")
    BY <1>6 DEF SendFromObserverFails
  <2>2. CASE PersistFails(Staged(t))
    <3>1. Stops(Staged(t))
      BY <1>0, <2>2, PersistFailsShape
    <3>2. Known' \subseteq Known \cup {Staged(t)}
      BY <1>0, <1>2, <2>1, <3>1, KnownAfter
    <3> QED BY <1>2, <2>1, <3>2
  <2>3. CASE /\ primary' = Staged(t) /\ backup' \in {Staged(t), WithAccepted(Staged(t), t)}
             /\ memory' = Staged(t) /\ met' = Later(met, memory.generation)
    <3>1. Known' \subseteq Known \cup {Staged(t), WithAccepted(Staged(t), t)}
      BY <2>3 DEF Known, Saved
    <3> QED BY <1>2, <2>1, <2>3, <3>1
  <2> QED BY <1>6, <2>2, <2>3 DEF SendFromObserverFails, Staged
<1>7. ASSUME NEW t \in Tokens, DieInSend(t) PROVE Stages(t)
  <2>1. Ready /\ Unused(t) /\ Plan(t, "sender")
    BY <1>7 DEF DieInSend
  <2>2. CASE PersistDies(Staged(t))
    <3>1. Rewrites(Staged(t)) /\ Down
      BY <2>2, PersistDiesShape
    <3>2. Known' \subseteq Known \cup {Staged(t)}
      BY <1>0, <1>2, <2>1, <3>1, KnownAfter
    <3> QED BY <1>2, <2>1, <3>2
  <2>3. CASE /\ Down /\ met' = Later(met, memory.generation)
             /\ \E w \in {<<Staged(t), Staged(t)>>, <<Staged(t), WithAccepted(Staged(t), t)>>,
                          <<WithAccepted(Staged(t), t), WithAccepted(Staged(t), t)>>} : Files(w)
    <3>1. Known' \subseteq Known \cup {Staged(t), WithAccepted(Staged(t), t)}
      BY <2>3 DEF Known, Saved, Files, Down
    <3> QED BY <1>2, <2>1, <2>3, <3>1
  <2> QED BY <1>7, <2>2, <2>3 DEF DieInSend, Staged
<1>8. ASSUME NEW t \in Tokens,
             AcceptBaseline(t) \/ AcceptBaselineFails(t) \/ DieInAcceptBaseline(t)
      PROVE  Accepts(t)
  <2> DEFINE new == WithAccepted(memory, t)
  <2>1. Seen(t) /\ memory.staged[t] # None /\ UNCHANGED <<plan, met>> /\ loaded = TRUE
    BY <1>0, <1>8 DEF AcceptBaseline, AcceptBaselineFails, DieInAcceptBaseline, Seen, Ready, observerVars
  <2>2. new \in States /\ new # None
    BY <1>0, <2>1, AcceptedProperties, NoneIsNothing
  <2>3. Saves(new) \/ Stops(new) \/ (Rewrites(new) /\ Down)
    BY <1>0, <1>8, PersistShape, PersistFailsShape, PersistDiesShape
       DEF AcceptBaseline, AcceptBaselineFails, DieInAcceptBaseline
  <2> HIDE DEF new
  <2>4. Known' \subseteq Known \cup {new}
    BY <1>0, <2>1, <2>2, <2>3, KnownAfter
  <2> QED BY <2>1, <2>4 DEF Accepts, new
<1>9. ASSUME NEW t \in Tokens, RecordAcceptedContact(t) PROVE Moves(t)
  <2>1. memory' = WithMark(memory, plan[t].generation) /\ UNCHANGED <<loaded, primary, backup>>
    BY <1>9 DEF RecordAcceptedContact, WithMark, fileVars
  <2>2. Known' \subseteq Known \cup {WithMark(memory, plan[t].generation)}
    BY <2>1 DEF Known, Saved
  <2> QED BY <1>9, <2>2 DEF RecordAcceptedContact, Moves
<1> QED BY <1>1, <1>3, <1>4, <1>5, <1>6, <1>7, <1>8, <1>9, OldVersions DEF Next, HandleReport, NewVersion

-----------------------------------------------------------------------------
(* The watermark                                                           *)

(* A token that is held has reached the observer.                          *)
HeldReached == \A t \in held : met # None /\ plan[t].generation <= met
WatermarkInv == HeldReached /\ \A v \in Known : Sound(v, plan, met)

LEMMA HeldReachedStep ==
    ASSUME CollaborationTypeOK, TokensPlanned, HeldReached, [Next]_vars
    PROVE  HeldReached'
<1>0. AtLeast(met', met) /\ Extended(plan', plan)
  BY ContactsMoveForward
<1>1. met \in Marks /\ met' \in Marks /\ plan' \in TokenPlans /\ plan \in TokenPlans
  BY TypesStep DEF CollaborationTypeOK, Marks, TokenPlans
<1>2. \A t \in held : met' # None /\ plan'[t].generation <= met'
  <2> TAKE t \in held
  <2>1. /\ t \in Tokens /\ plan'[t] = plan[t] /\ plan[t] \in Plans
        /\ met # None /\ plan[t].generation <= met
    BY <1>0 DEF HeldReached, TokensPlanned, Extended, CollaborationTypeOK
  <2> QED BY <1>0, <1>1, <2>1 DEF AtLeast, Marks, Plans
<1>3. ASSUME held' \subseteq held PROVE HeldReached'
  BY <1>2, <1>3 DEF HeldReached
<1>4. ASSUME NEW t \in Tokens, SendToObserver(t) \/ SendFromObserver(t) PROVE HeldReached'
  <2>1. PICK side \in {"sender", "receiver"} : Plan(t, side)
    BY <1>4 DEF SendToObserver, SendFromObserver
  <2>2. Reaches(t) \/ held' = held
    BY <1>4 DEF SendToObserver, SendFromObserver
  <2>3. plan'[t].generation = memory.generation /\ memory.generation \in Nat
    BY <2>1, PlanType
  <2>4. Later(met, memory.generation) # None /\ memory.generation <= Later(met, memory.generation)
    BY <2>3, LaterType DEF CollaborationTypeOK
  <2> QED BY <1>2, <1>3, <2>2, <2>3, <2>4 DEF Reaches, HeldReached
<1>5. ASSUME NEW t \in Tokens, ReplaySend(t) PROVE HeldReached'
  <2>1. plan[t] \in Plans /\ plan' = plan
    BY <1>5 DEF ReplaySend, CollaborationTypeOK, TokensPlanned
  <2>2. Later(met, plan[t].generation) # None /\ plan[t].generation <= Later(met, plan[t].generation)
    BY <2>1, LaterType DEF CollaborationTypeOK, Plans
  <2> QED BY <1>2, <1>5, <2>1, <2>2 DEF ReplaySend, HeldReached
<1>6. CASE UNCHANGED vars
  BY <1>3, <1>6 DEF vars, observerVars
<1>7. CASE \/ Load \/ Flush \/ Evict \/ Die \/ DieInFlush \/ Close \/ Start \/ Reconnect
           \/ Damage \/ Report \/ ReportTimesOut
  BY <1>3, <1>7 DEF Load, Flush, Evict, Die, DieInFlush, Close, Start, Reconnect, Drops, Damage,
       Report, ReportTimesOut, PersistDies, Down, observerVars
<1>8. ASSUME NEW e \in Events,
             \/ Compact(e) \/ DieInRecordCompaction(e) \/ RecordCompaction(e)
             \/ RepeatCompaction(e) \/ RecordCompactionFails(e)
      PROVE  HeldReached'
  BY <1>3, <1>8 DEF Compact, DieInRecordCompaction, RecordCompaction, RepeatCompaction,
       RecordCompactionFails, PersistDies, Down, observerVars
<1>9. ASSUME NEW t \in Tokens,
             \/ SendToObserverFails(t) \/ SendFromObserverFails(t) \/ DieInSend(t) \/ ForgetToken(t)
             \/ AcceptBaseline(t) \/ RepeatAcceptance(t) \/ AcceptBaselineFails(t)
             \/ DieInAcceptBaseline(t) \/ UnknownToken(t) \/ RecordAcceptedContact(t)
      PROVE  HeldReached'
  BY <1>3, <1>9 DEF SendToObserverFails, SendFromObserverFails, Drops, DieInSend, ForgetToken,
       AcceptBaseline, RepeatAcceptance, AcceptBaselineFails, DieInAcceptBaseline, UnknownToken,
       RecordAcceptedContact, Answered, PersistDies, Down, observerVars
<1> QED BY <1>4, <1>5, <1>6, <1>7, <1>8, <1>9 DEF Next, HandleReport

LEMMA SoundStep ==
    ASSUME CollaborationTypeOK, TokensPlanned, WatermarkInv, [Next]_vars,
           NEW v \in Known'
    PROVE  Sound(v, plan', met')
<1>0. /\ AtLeast(met', met) /\ Extended(plan', plan) /\ Known \subseteq States
      /\ met \in Marks /\ met' \in Marks /\ plan' \in TokenPlans /\ plan \in TokenPlans
      /\ memory \in States
  BY ContactsMoveForward, TypesStep, KnownAreStates DEF CollaborationTypeOK, Marks, TokenPlans
<1>1. ASSUME v \in Known PROVE Sound(v, plan', met')
  BY <1>0, <1>1, SoundGrows DEF WatermarkInv
<1>2. ASSUME Ready PROVE memory \in Known /\ Sound(memory, plan, met) /\ Sound(memory, plan', met')
  <2>1. memory \in Known
    BY <1>2, KnownAreStates DEF Ready, Known
  <2> QED BY <1>0, <2>1, SoundGrows DEF WatermarkInv
<1>3. CASE LoadsNothing /\ v \notin Known
  <2>1. v = EmptyState
    BY <1>3 DEF LoadsNothing
  <2>2. Sound(EmptyState, plan', met')
    BY DEF Sound, EmptyState
  <2> QED BY <2>1, <2>2
<1>4. ASSUME NEW e \in Events, Counts(e), v \notin Known PROVE Sound(v, plan', met')
  <2>1. v = WithCompaction(memory, e) /\ Ready
    BY <1>4 DEF Counts, Requested
  <2>2. v.mark = memory.mark /\ v.staged = memory.staged /\ v.accepted = memory.accepted
    BY <1>0, <2>1, CompactionProperties
  <2> QED BY <1>2, <2>1, <2>2 DEF Sound
<1>5. ASSUME NEW t \in Tokens, Stages(t), v \notin Known PROVE Sound(v, plan', met')
  <2>1. /\ Ready /\ plan[t] = None /\ plan'[t] # None
        /\ plan'[t].generation = memory.generation
    BY <1>5 DEF Stages, Unused
  <2>2. Sound(Staged(t), plan', met')
    BY <1>0, <1>2, <2>1, SoundStaged DEF Staged
  <2>3. CASE v = Staged(t)
    BY <2>2, <2>3
  <2>4. CASE v = WithAccepted(Staged(t), t) /\ met' = Later(met, memory.generation)
    <3>1. /\ memory.generation \in Nat /\ Staged(t) \in States /\ Staged(t).staged[t] # None
      BY FirstStage DEF Staged
    <3>2. met' # None /\ plan'[t].generation <= met'
      BY <2>1, <2>4, <3>1, <1>0, LaterType DEF Marks
    <3> QED BY <1>0, <2>2, <2>4, <3>1, <3>2, SoundAccepted
  <2> QED BY <1>5, <2>3, <2>4 DEF Stages
<1>6. ASSUME NEW t \in Tokens, Accepts(t), v \notin Known PROVE Sound(v, plan', met')
  <2>1. v = WithAccepted(memory, t) /\ Ready /\ t \in held /\ memory.staged[t] # None
        /\ plan' = plan /\ met' = met
    BY <1>6 DEF Accepts, Seen
  <2>2. met # None /\ plan[t].generation <= met
    BY <2>1 DEF WatermarkInv, HeldReached
  <2> QED BY <1>0, <1>2, <2>1, <2>2, SoundAccepted
<1>7. ASSUME NEW t \in Tokens, Moves(t), v \notin Known PROVE Sound(v, plan', met')
  <2>1. /\ v = WithMark(memory, plan[t].generation) /\ Ready /\ t \in held
        /\ plan' = plan /\ met' = met
    BY <1>7 DEF Moves, Seen
  <2>2. /\ met # None /\ plan[t].generation <= met /\ plan[t] \in Plans
    BY <2>1 DEF WatermarkInv, HeldReached, TokensPlanned, CollaborationTypeOK
  <2>3. /\ plan[t].generation \in Nat /\ memory.mark \in Nat \cup {None} /\ met \in Nat
        /\ \A u \in memory.accepted : u \in Tokens
    BY <1>0, <2>2 DEF Plans, States, Marks
  <2>4. v.mark = Later(memory.mark, plan[t].generation) /\ v.staged = memory.staged
        /\ v.accepted = memory.accepted
    BY <1>0, <2>1 DEF WithMark, States
  <2>5. /\ v.mark \in Nat /\ v.mark # None /\ (memory.mark # None => memory.mark <= v.mark)
        /\ v.mark = plan[t].generation \/ v.mark = memory.mark
    BY <2>3, <2>4, LaterType
  <2>6. v.mark <= met
    BY <1>2, <2>1, <2>2, <2>5 DEF Sound
  <2>7. ASSUME NEW u \in memory.accepted PROVE plan[u] # None /\ plan[u].generation <= v.mark
    <3>1. plan[u] # None /\ memory.mark # None /\ plan[u].generation <= memory.mark
      BY <1>2, <2>1, <2>7 DEF Sound
    <3>2. plan[u].generation \in Nat /\ memory.mark \in Nat
      BY <1>0, <2>3, <2>7, <3>1 DEF TokenPlans, Plans
    <3> QED BY <2>5, <3>1, <3>2
  <2> QED BY <1>2, <2>1, <2>2, <2>4, <2>5, <2>6, <2>7 DEF Sound
<1> QED BY <1>1, <1>3, <1>4, <1>5, <1>6, <1>7, NewVersions DEF NewVersion

(* The watermark says no more than that a contact reached the observer:    *)
(* whatever handler fails or dies halfway, no version of the state has a   *)
(* mark beyond what the observer saw.                                      *)
THEOREM WatermarkFollows == Spec => []MarkFollowsContact
<1>1. Init => WatermarkInv
  BY DEF Init, WatermarkInv, HeldReached, Known, Saved
<1>2. CollaborationTypeOK /\ TokensPlanned /\ WatermarkInv /\ [Next]_vars => WatermarkInv'
  BY HeldReachedStep, SoundStep DEF WatermarkInv
<1>3. CollaborationTypeOK /\ WatermarkInv => MarkFollowsContact
  <2> SUFFICES ASSUME CollaborationTypeOK, WatermarkInv, NEW s \in Versions, s.mark # None
               PROVE  met # None /\ s.mark <= met
    BY DEF MarkFollowsContact
  <2>1. s \in Known \/ s = EmptyState
    BY DEF Versions, Durable, Known, Saved
  <2>2. s # EmptyState
    BY DEF EmptyState
  <2> QED BY <2>1, <2>2 DEF WatermarkInv, Sound
<1> QED BY <1>1, <1>2, <1>3, CollaborationTypes, PTL DEF Spec

-----------------------------------------------------------------------------
(* Memory and files                                                        *)

(* Nothing durable of "m" is missing in "f".                               *)
Extends(f, m) ==
    /\ m.generation <= f.generation
    /\ m.accepted \subseteq f.accepted
    /\ \A t \in Tokens : m.staged[t] # None => f.staged[t] # None \/ t \in f.accepted

Blank(m) == m.generation = 0 /\ m.accepted = {} /\ \A t \in Tokens : m.staged[t] = None

(* A scope that was saved can be loaded, even after one more damage.       *)
Kept == Saved # {} /\ (~damaged => primary # None /\ backup # None)

FilesKeep ==
    loaded => /\ \A f \in Saved : Extends(f, memory)
              /\ ~committed => Blank(memory)
              /\ committed => Kept

LEMMA ExtendsProperties ==
    /\ \A m \in States : Extends(m, m)
    /\ \A m \in States, e \in Events : Extends(WithCompaction(m, e), m)
    /\ \A m \in States, t \in Tokens, g \in Nat : Extends(WithStaged(m, t, g), m)
    /\ \A m \in States, t \in Tokens, g \in Nat :
          /\ Extends(WithAccepted(WithStaged(m, t, g), t), m)
          /\ Extends(WithAccepted(WithStaged(m, t, g), t), WithStaged(m, t, g))
    /\ \A m \in States, t \in Tokens : m.staged[t] # None => Extends(WithAccepted(m, t), m)
    /\ \A m \in States, g \in Nat : Extends(WithMark(m, g), m) /\ (Blank(m) => Blank(WithMark(m, g)))
    /\ \A m \in States, g \in Nat : \A f : Extends(f, m) => Extends(f, WithMark(m, g))
<1>1. \A m \in States : m.generation \in Nat
  BY DEF States
<1>2. \A m \in States : Extends(m, m)
  BY <1>1 DEF Extends
<1>3. ASSUME NEW m \in States, NEW e \in Events PROVE Extends(WithCompaction(m, e), m)
  <2> DEFINE s == WithCompaction(m, e)
  <2>1. s.generation = m.generation + 1 /\ s.staged = m.staged /\ s.accepted = m.accepted
    BY CompactionProperties
  <2> HIDE DEF s
  <2>2. Extends(s, m)
    BY <1>1, <2>1 DEF Extends
  <2> QED BY <2>2 DEF s
<1>4. ASSUME NEW m \in States, NEW t \in Tokens, NEW g \in Nat
      PROVE  Extends(WithStaged(m, t, g), m)
  <2> DEFINE s == WithStaged(m, t, g)
  <2>1. /\ s.staged[t] # None /\ s.generation = m.generation
        /\ s.accepted = m.accepted /\ \A u \in Tokens \ {t} : s.staged[u] = m.staged[u]
    BY StagedProperties
  <2> HIDE DEF s
  <2>2. Extends(s, m)
    BY <1>1, <2>1 DEF Extends
  <2> QED BY <2>2 DEF s
<1>5. ASSUME NEW m \in States, NEW t \in Tokens, m.staged[t] # None
      PROVE  Extends(WithAccepted(m, t), m)
  <2> DEFINE s == WithAccepted(m, t)
  <2>1. /\ s.generation = m.generation /\ s.accepted = m.accepted \cup {t}
        /\ \A u \in Tokens \ {t} : s.staged[u] = m.staged[u]
    BY <1>5, AcceptedProperties
  <2> HIDE DEF s
  <2>2. Extends(s, m)
    BY <1>1, <2>1 DEF Extends
  <2> QED BY <2>2 DEF s
<1>6. ASSUME NEW m \in States, NEW t \in Tokens, NEW g \in Nat
      PROVE  /\ Extends(WithAccepted(WithStaged(m, t, g), t), m)
             /\ Extends(WithAccepted(WithStaged(m, t, g), t), WithStaged(m, t, g))
  <2> DEFINE s == WithStaged(m, t, g)
  <2>1. /\ s \in States /\ s.staged[t] # None /\ s.generation = m.generation
        /\ s.accepted = m.accepted /\ \A u \in Tokens \ {t} : s.staged[u] = m.staged[u]
    BY StagedProperties
  <2> HIDE DEF s
  <2>2. /\ WithAccepted(s, t).generation = s.generation
        /\ WithAccepted(s, t).accepted = s.accepted \cup {t}
        /\ \A u \in Tokens \ {t} : WithAccepted(s, t).staged[u] = s.staged[u]
    BY <2>1, AcceptedProperties
  <2>3. Extends(WithAccepted(s, t), m) /\ Extends(WithAccepted(s, t), s)
    BY <1>1, <2>1, <2>2 DEF Extends
  <2> QED BY <2>3 DEF s
<1>7. ASSUME NEW m \in States, NEW g \in Nat
      PROVE  /\ WithMark(m, g).generation = m.generation /\ WithMark(m, g).staged = m.staged
             /\ WithMark(m, g).accepted = m.accepted
  BY DEF WithMark, States
<1>8. \A m \in States, g \in Nat : Extends(WithMark(m, g), m) /\ (Blank(m) => Blank(WithMark(m, g)))
  BY <1>1, <1>7 DEF Extends, Blank
<1>9. \A m \in States, g \in Nat : \A f : Extends(f, m) => Extends(f, WithMark(m, g))
  BY <1>7 DEF Extends
<1> QED BY <1>2, <1>3, <1>4, <1>5, <1>6, <1>8, <1>9

LEMMA KeptStep ==
    ASSUME CollaborationTypeOK, Kept, [Next]_vars
    PROVE  Kept'
<1>0. memory # None /\ memory \in States /\ damaged \in BOOLEAN
  BY KnownAreStates DEF CollaborationTypeOK
<1>1. ASSUME primary # None => primary' # None, backup # None => backup' # None,
             damaged' = damaged
      PROVE  Kept'
  BY <1>1 DEF Kept, Saved
<1>2. ASSUME NEW new \in States, Rewrites(new) \/ Saves(new) \/ Stops(new), damaged' = damaged
      PROVE  Kept'
  <2>1. new # None
    BY NoneIsNothing
  <2> QED BY <1>0, <1>1, <1>2, <2>1 DEF Rewrites, Saves, Stops
<1>3. CASE \/ Start \/ Reconnect \/ Report \/ ReportTimesOut \/ Die \/ UNCHANGED vars
  <2>1. UNCHANGED <<primary, backup, damaged>>
    BY <1>3 DEF Start, Reconnect, Report, ReportTimesOut, Die, Down, vars, fileVars
  <2> QED BY <1>1, <2>1
<1>4. ASSUME NEW e \in Events, Compact(e) \/ RepeatCompaction(e) PROVE Kept'
  <2>1. UNCHANGED <<primary, backup, damaged>>
    BY <1>4 DEF Compact, RepeatCompaction, fileVars
  <2> QED BY <1>1, <2>1
<1>5. ASSUME NEW t \in Tokens,
             \/ ReplaySend(t) \/ ForgetToken(t) \/ RepeatAcceptance(t) \/ UnknownToken(t)
             \/ RecordAcceptedContact(t)
      PROVE  Kept'
  <2>1. UNCHANGED <<primary, backup, damaged>>
    BY <1>5 DEF ReplaySend, ForgetToken, RepeatAcceptance, UnknownToken, RecordAcceptedContact, fileVars
  <2> QED BY <1>1, <2>1
<1>6. CASE Load
  BY <1>6 DEF Load, Kept, Saved
<1>7. CASE Damage
  BY <1>7 DEF Damage, Kept, Saved
<1>8. CASE Flush \/ DieInFlush
  <2>1. Saves(memory) \/ Stops(memory) \/ Rewrites(memory)
    BY <1>8, PersistShape, PersistFailsShape, PersistDiesShape DEF Flush, DieInFlush, CollaborationTypeOK
  <2> QED BY <1>0, <1>2, <1>8, <2>1 DEF Flush, DieInFlush, PersistDies, Down
<1>9. CASE Evict
  BY <1>0, <1>1, <1>9, LastWrite DEF Evict, Files, fileVars
<1>10. CASE Close
  <2>1. Rewrites(memory) /\ damaged' = damaged
    BY <1>10, WritesShape DEF Close, Rewrites, Down, fileVars
  <2> QED BY <1>0, <1>2, <2>1
<1>11. ASSUME NEW e \in Events,
              RecordCompaction(e) \/ RecordCompactionFails(e) \/ DieInRecordCompaction(e)
       PROVE  Kept'
  <2> DEFINE new == WithCompaction(memory, e)
  <2>1. new \in States
    BY <1>0, CompactionProperties
  <2>2. Saves(new) \/ Stops(new) \/ Rewrites(new)
    BY <1>11, PersistShape, PersistFailsShape, PersistDiesShape
       DEF RecordCompaction, RecordCompactionFails, DieInRecordCompaction, CollaborationTypeOK
  <2>3. damaged' = damaged
    BY <1>11 DEF RecordCompaction, RecordCompactionFails, DieInRecordCompaction, PersistDies, Down
  <2> QED BY <1>2, <2>1, <2>2, <2>3
<1>12. ASSUME NEW t \in Tokens,
              \/ SendToObserver(t) \/ SendToObserverFails(t) \/ SendFromObserver(t)
              \/ SendFromObserverFails(t) \/ DieInSend(t)
       PROVE  Kept'
  <2> DEFINE new == WithAccepted(Staged(t), t)
  <2>1. Staged(t) \in States /\ new \in States /\ Staged(t) # None /\ new # None
    BY FirstStage, NoneIsNothing DEF Staged
  <2>2. damaged' = damaged
    BY <1>12 DEF SendToObserver, SendToObserverFails, SendFromObserver, SendFromObserverFails,
         DieInSend, PersistDies, Down
  <2>3. CASE SendToObserver(t) \/ SendToObserverFails(t)
    <3>1. Saves(Staged(t)) \/ Stops(Staged(t)) \/ UNCHANGED fileVars
      BY <2>3, PersistShape, PersistFailsShape
         DEF SendToObserver, SendToObserverFails, CollaborationTypeOK, Staged
    <3> QED BY <1>1, <1>2, <2>1, <2>2, <3>1 DEF fileVars
  <2>4. CASE SendFromObserver(t)
    <3>1. Saves(new) \/ UNCHANGED fileVars
      BY <2>4, PersistShape DEF SendFromObserver, Staged
    <3> QED BY <1>1, <1>2, <2>1, <2>2, <3>1 DEF fileVars
  <2>5. CASE SendFromObserverFails(t)
    <3>1. Stops(Staged(t)) \/ (primary' \in {Staged(t), new} /\ backup' \in {Staged(t), new})
      BY <2>5, PersistFailsShape DEF SendFromObserverFails, CollaborationTypeOK, Staged
    <3> QED BY <1>1, <1>2, <2>1, <2>2, <3>1
  <2>6. CASE DieInSend(t)
    <3>1. Rewrites(Staged(t)) \/ (primary' \in {Staged(t), new} /\ backup' \in {Staged(t), new})
      BY <2>6, PersistDiesShape DEF DieInSend, Staged, Files
    <3> QED BY <1>1, <1>2, <2>1, <2>2, <3>1
  <2> QED BY <1>12, <2>3, <2>4, <2>5, <2>6
<1>13. ASSUME NEW t \in Tokens,
              AcceptBaseline(t) \/ AcceptBaselineFails(t) \/ DieInAcceptBaseline(t)
       PROVE  Kept'
  <2> DEFINE new == WithAccepted(memory, t)
  <2>1. new \in States
    BY <1>0, <1>13, AcceptedProperties DEF AcceptBaseline, AcceptBaselineFails, DieInAcceptBaseline
  <2>2. Saves(new) \/ Stops(new) \/ Rewrites(new)
    BY <1>13, PersistShape, PersistFailsShape, PersistDiesShape
       DEF AcceptBaseline, AcceptBaselineFails, DieInAcceptBaseline, CollaborationTypeOK
  <2>3. damaged' = damaged
    BY <1>13 DEF AcceptBaseline, AcceptBaselineFails, DieInAcceptBaseline, PersistDies, Down
  <2> QED BY <1>2, <2>1, <2>2, <2>3
<1> QED BY <1>3, <1>4, <1>5, <1>6, <1>7, <1>8, <1>9, <1>10, <1>11, <1>12, <1>13 DEF Next, HandleReport

LEMMA FilesKeepStep ==
    ASSUME CollaborationTypeOK, TokensPlanned, FilesKeep, [Next]_vars
    PROVE  FilesKeep'
<1>0. /\ memory # None /\ memory \in States /\ damaged \in BOOLEAN /\ loaded \in BOOLEAN
      /\ committed \in BOOLEAN
  BY KnownAreStates DEF CollaborationTypeOK
<1>1. ASSUME loaded' = FALSE PROVE FilesKeep'
  BY <1>1 DEF FilesKeep
<1>2. ASSUME NEW new \in States, Saves(new) PROVE FilesKeep'
  <2>1. new # None /\ Extends(new, new)
    BY NoneIsNothing, ExtendsProperties
  <2>2. Saved' = {new} /\ primary' # None /\ backup' # None
    BY <1>2, <2>1 DEF Saves, Saved
  <2>3. Kept'
    BY <2>2 DEF Kept
  <2> QED BY <1>2, <2>1, <2>2, <2>3 DEF FilesKeep, Saves
<1>3. ASSUME NEW new \in States, Stops(new), loaded, Extends(new, memory)
      PROVE  FilesKeep'
  <2>1. new # None /\ Extends(memory, memory)
    BY <1>0, NoneIsNothing, ExtendsProperties
  <2>2. Saved' \subseteq Saved \cup {memory, new}
    BY <1>3 DEF Stops, Rewrites, Saved
  <2>3. \A f \in Saved' : Extends(f, memory')
    BY <1>3, <2>1, <2>2 DEF FilesKeep, Stops
  <2>4. committed' => Kept'
    <3>1. CASE committed' = committed
      BY <1>3, <3>1, KeptStep DEF FilesKeep
    <3>2. CASE primary' \in {memory, new} /\ backup' \in {memory, new}
      BY <1>0, <2>1, <3>2 DEF Kept, Saved
    <3> QED BY <1>3, <3>1, <3>2 DEF Stops
  <2>5. ~committed' => Blank(memory')
    BY <1>3 DEF Stops, FilesKeep
  <2> QED BY <2>3, <2>4, <2>5 DEF FilesKeep
<1>4. ASSUME UNCHANGED <<memory, loaded, committed>>, Saved' \subseteq Saved
      PROVE  FilesKeep'
  BY <1>4, KeptStep DEF FilesKeep
<1>5. ASSUME UNCHANGED <<memory, loaded, committed, primary, backup>> PROVE FilesKeep'
  BY <1>4, <1>5 DEF Saved
<1>6. CASE Start \/ Reconnect \/ Report \/ ReportTimesOut \/ UNCHANGED vars
  <2>1. UNCHANGED <<memory, loaded, committed, primary, backup>>
    BY <1>6 DEF Start, Reconnect, Report, ReportTimesOut, vars, brokerVars, fileVars
  <2> QED BY <1>5, <2>1
<1>7. ASSUME NEW e \in Events, Compact(e) \/ RepeatCompaction(e) PROVE FilesKeep'
  <2>1. UNCHANGED <<memory, loaded, committed, primary, backup>>
    BY <1>7 DEF Compact, RepeatCompaction, brokerVars, fileVars
  <2> QED BY <1>5, <2>1
<1>8. ASSUME NEW t \in Tokens,
             ReplaySend(t) \/ ForgetToken(t) \/ RepeatAcceptance(t) \/ UnknownToken(t)
      PROVE  FilesKeep'
  <2>1. UNCHANGED <<memory, loaded, committed, primary, backup>>
    BY <1>8 DEF ReplaySend, ForgetToken, RepeatAcceptance, UnknownToken, brokerVars, fileVars
  <2> QED BY <1>5, <2>1
<1>9. CASE Die \/ DieInFlush \/ Close \/ Evict
  BY <1>1, <1>9 DEF Die, DieInFlush, PersistDies, Close, Evict, Down
<1>10. CASE Load
  <2>1. CASE primary # None
    <3>1. memory' = primary /\ primary' = primary /\ backup' = primary
      BY <1>10, <2>1 DEF Load
    <3>2. Saved' = {primary} /\ Kept'
      BY <2>1, <3>1 DEF Saved, Kept
    <3>3. committed' /\ primary \in States
      BY <1>10, <2>1 DEF Load, CollaborationTypeOK
    <3>4. Extends(primary, primary)
      BY <3>3, ExtendsProperties
    <3>5. \A f \in Saved' : Extends(f, memory')
      BY <3>1, <3>2, <3>4
    <3> QED BY <3>2, <3>3, <3>5 DEF FilesKeep
  <2>2. CASE primary = None /\ backup # None
    <3>1. memory' = backup /\ primary' = backup /\ backup' = backup
      BY <1>10, <2>2 DEF Load
    <3>2. Saved' = {backup} /\ Kept'
      BY <2>2, <3>1 DEF Saved, Kept
    <3>3. committed' /\ backup \in States
      BY <1>10, <2>2 DEF Load, CollaborationTypeOK
    <3>4. Extends(backup, backup)
      BY <3>3, ExtendsProperties
    <3>5. \A f \in Saved' : Extends(f, memory')
      BY <3>1, <3>2, <3>4
    <3> QED BY <3>2, <3>3, <3>5 DEF FilesKeep
  <2>3. CASE primary = None /\ backup = None
    <3>1. memory' = EmptyState /\ Saved' = {} /\ ~committed'
      BY <1>10, <2>3 DEF Load, Saved
    <3>2. Blank(EmptyState)
      BY DEF Blank, EmptyState
    <3> QED BY <3>1, <3>2 DEF FilesKeep
  <2> QED BY <2>1, <2>2, <2>3
<1>11. CASE Flush
  <2>1. Saves(memory) \/ Stops(memory)
    BY <1>11, PersistShape, PersistFailsShape DEF Flush, CollaborationTypeOK
  <2>2. loaded /\ Extends(memory, memory)
    BY <1>0, <1>11, ExtendsProperties DEF Flush, Ready
  <2> QED BY <1>0, <1>2, <1>3, <2>1, <2>2
<1>12. CASE Damage
  BY <1>4, <1>12 DEF Damage, Saved, brokerVars
<1>13. ASSUME NEW e \in Events,
              RecordCompaction(e) \/ RecordCompactionFails(e) \/ DieInRecordCompaction(e)
       PROVE  FilesKeep'
  <2> DEFINE new == WithCompaction(memory, e)
  <2>1. new \in States /\ Extends(new, memory)
    BY <1>0, CompactionProperties, ExtendsProperties
  <2>2. Saves(new) \/ Stops(new) \/ loaded' = FALSE
    BY <1>0, <1>13, PersistShape, PersistFailsShape
       DEF RecordCompaction, RecordCompactionFails, DieInRecordCompaction, PersistDies, Down
  <2>3. loaded
    BY <1>13 DEF RecordCompaction, RecordCompactionFails, DieInRecordCompaction, Requested, Ready
  <2> QED BY <1>1, <1>2, <1>3, <2>1, <2>2, <2>3
<1>14. ASSUME NEW t \in Tokens,
              \/ SendToObserver(t) \/ SendToObserverFails(t) \/ SendFromObserver(t)
              \/ SendFromObserverFails(t) \/ DieInSend(t)
       PROVE  FilesKeep'
  <2> DEFINE new == WithAccepted(Staged(t), t)
  <2>1. /\ Staged(t) \in States /\ new \in States /\ Staged(t) # None /\ new # None
        /\ Extends(Staged(t), memory) /\ Extends(new, memory)
        /\ Extends(new, Staged(t)) /\ Extends(Staged(t), Staged(t))
    BY <1>0, FirstStage, NoneIsNothing, ExtendsProperties DEF Staged
  <2>2. loaded
    BY <1>14 DEF SendToObserver, SendToObserverFails, SendFromObserver, SendFromObserverFails,
         DieInSend, Ready
  <2> HIDE DEF new
  <2>3. CASE SendToObserver(t) \/ SendToObserverFails(t)
    <3>1. \/ Saves(Staged(t)) \/ Stops(Staged(t))
          \/ UNCHANGED <<memory, loaded, committed, primary, backup>>
      BY <1>0, <2>3, PersistShape, PersistFailsShape
         DEF SendToObserver, SendToObserverFails, Staged, fileVars
    <3> QED BY <1>2, <1>3, <1>5, <2>1, <2>2, <3>1
  <2>4. CASE SendFromObserver(t)
    <3>1. Saves(new) \/ UNCHANGED <<memory, loaded, committed, primary, backup>>
      BY <2>4, PersistShape DEF SendFromObserver, Staged, new, fileVars
    <3> QED BY <1>2, <1>5, <2>1, <3>1
  <2>5. CASE SendFromObserverFails(t)
    <3>1. CASE PersistFails(Staged(t))
      <4>1. Stops(Staged(t))
        BY <1>0, <3>1, PersistFailsShape
      <4> QED BY <1>3, <2>1, <2>2, <4>1
    <3>2. CASE /\ primary' = Staged(t) /\ backup' \in {Staged(t), new}
               /\ memory' = Staged(t) /\ committed' = TRUE
      <4>1. Saved' \subseteq {Staged(t), new} /\ Kept'
        BY <2>1, <3>2 DEF Saved, Kept
      <4> QED BY <2>1, <3>2, <4>1 DEF FilesKeep
    <3> QED BY <2>5, <3>1, <3>2 DEF SendFromObserverFails, Staged, new
  <2>6. CASE DieInSend(t)
    BY <1>1, <2>6 DEF DieInSend, PersistDies, Down
  <2> QED BY <1>14, <2>3, <2>4, <2>5, <2>6
<1>15. ASSUME NEW t \in Tokens,
              AcceptBaseline(t) \/ AcceptBaselineFails(t) \/ DieInAcceptBaseline(t)
       PROVE  FilesKeep'
  <2> DEFINE new == WithAccepted(memory, t)
  <2>1. new \in States /\ Extends(new, memory) /\ loaded
    BY <1>0, <1>15, AcceptedProperties, ExtendsProperties
       DEF AcceptBaseline, AcceptBaselineFails, DieInAcceptBaseline, Seen, Ready
  <2>2. Saves(new) \/ Stops(new) \/ loaded' = FALSE
    BY <1>0, <1>15, PersistShape, PersistFailsShape
       DEF AcceptBaseline, AcceptBaselineFails, DieInAcceptBaseline, PersistDies, Down
  <2> QED BY <1>1, <1>2, <1>3, <2>1, <2>2
<1>16. ASSUME NEW t \in Tokens, RecordAcceptedContact(t) PROVE FilesKeep'
  <2>1. /\ memory' = WithMark(memory, plan[t].generation) /\ UNCHANGED <<loaded, committed>>
        /\ Saved' = Saved
    BY <1>16 DEF RecordAcceptedContact, WithMark, fileVars, Saved
  <2>2. plan[t] \in Plans /\ plan[t].generation \in Nat
    BY <1>16 DEF RecordAcceptedContact, Volatile, CollaborationTypeOK, TokensPlanned, Plans
  <2>3. committed => Kept \/ ~loaded
    BY DEF FilesKeep
  <2> QED BY <1>0, <2>1, <2>2, <2>3, KeptStep, ExtendsProperties DEF FilesKeep
<1> QED BY <1>6, <1>7, <1>8, <1>9, <1>10, <1>11, <1>12, <1>13, <1>14, <1>15, <1>16 DEF Next, HandleReport

LEMMA NewVersionExtends ==
    ASSUME CollaborationTypeOK, TokensPlanned, [Next]_vars, NEW v \in Known' \ Known
    PROVE  LoadsNothing \/ (memory \in Known /\ Extends(v, memory))
<1>1. memory \in States /\ memory # None /\ memory.generation \in Nat
  BY KnownAreStates DEF CollaborationTypeOK, States
<1>2. ASSUME Ready PROVE memory \in Known
  BY <1>1, <1>2 DEF Ready, Known
<1>3. ASSUME NEW e \in Events, Counts(e) PROVE memory \in Known /\ Extends(v, memory)
  BY <1>1, <1>2, <1>3, ExtendsProperties DEF Counts, Requested
<1>4. ASSUME NEW t \in Tokens, Stages(t) PROVE memory \in Known /\ Extends(v, memory)
  <2>1. v = Staged(t) \/ v = WithAccepted(Staged(t), t)
    BY <1>4 DEF Stages
  <2> QED BY <1>1, <1>2, <1>4, <2>1, ExtendsProperties DEF Stages, Staged
<1>5. ASSUME NEW t \in Tokens, Accepts(t) PROVE memory \in Known /\ Extends(v, memory)
  BY <1>1, <1>2, <1>5, ExtendsProperties DEF Accepts, Seen
<1>6. ASSUME NEW t \in Tokens, Moves(t) PROVE memory \in Known /\ Extends(v, memory)
  <2>1. plan[t].generation \in Nat
    BY <1>6 DEF Moves, Volatile, CollaborationTypeOK, TokensPlanned, Plans
  <2> QED BY <1>1, <1>2, <1>6, <2>1, ExtendsProperties DEF Moves, Seen
<1> QED BY <1>3, <1>4, <1>5, <1>6, NewVersions DEF NewVersion

-----------------------------------------------------------------------------
(* Baselines                                                               *)

BaselinesHeld == {t \in held : plan[t].baseline}

(* Knows what the observer was told and what it still tries.               *)
Remembers(v, told, tried) ==
    told \subseteq v.accepted /\ \A t \in tried : v.staged[t] # None \/ t \in v.accepted

BaselineInv ==
    /\ \A v \in Known : Remembers(v, confirmed, BaselinesHeld)
    /\ confirmed \cup BaselinesHeld # {} => Kept
    /\ \A t \in pending : plan[t].side = "sender" => ~plan[t].baseline

LEMMA RemembersMore ==
    ASSUME NEW f, NEW m, NEW told, NEW tried \in SUBSET Tokens,
           Extends(f, m), Remembers(m, told, tried)
    PROVE  Remembers(f, told, tried)
BY DEF Extends, Remembers

(* A step after which the observer was told, and tries, nothing new.       *)
LEMMA NothingGained ==
    ASSUME CollaborationTypeOK, TokensPlanned, BaselineInv, [Next]_vars,
           confirmed' \subseteq confirmed, BaselinesHeld' \subseteq BaselinesHeld
    PROVE  /\ \A v \in Known' : Remembers(v, confirmed', BaselinesHeld')
           /\ confirmed' \cup BaselinesHeld' # {} => Kept'
<1>0. BaselinesHeld \in SUBSET Tokens
  BY DEF BaselinesHeld, CollaborationTypeOK
<1>1. confirmed' \cup BaselinesHeld' # {} => Kept /\ Kept'
  BY KeptStep DEF BaselineInv
<1>2. \A v : Remembers(v, confirmed, BaselinesHeld) => Remembers(v, confirmed', BaselinesHeld')
  BY DEF Remembers
<1>3. ASSUME NEW v \in Known' PROVE Remembers(v, confirmed', BaselinesHeld')
  <2>1. CASE v \in Known
    BY <1>2, <2>1 DEF BaselineInv
  <2>2. CASE LoadsNothing
    <3>1. confirmed' = {} /\ BaselinesHeld' = {}
      BY <1>1, <2>2 DEF LoadsNothing, Kept
    <3> QED BY <3>1 DEF Remembers
  <2>3. CASE memory \in Known /\ Extends(v, memory)
    BY <1>0, <1>2, <2>3, RemembersMore DEF BaselineInv
  <2> QED BY <2>1, <2>2, <2>3, NewVersionExtends
<1> QED BY <1>1, <1>3

(* A handler that saved before it told.                                    *)
LEMMA SavedFirst ==
    ASSUME CollaborationTypeOK, BaselineInv, NEW t \in Tokens, NEW new \in States, Saves(new), Ready,
           Extends(new, memory), new.staged[t] # None \/ t \in new.accepted,
           confirmed' \subseteq confirmed \cup (IF t \in new.accepted THEN {t} ELSE {}),
           BaselinesHeld' \subseteq BaselinesHeld \cup {t}
    PROVE  /\ \A v \in Known' : Remembers(v, confirmed', BaselinesHeld')
           /\ Kept'
<1>0. BaselinesHeld \in SUBSET Tokens /\ memory \in Known /\ new # None /\ loaded = TRUE
  BY KnownAreStates, NoneIsNothing DEF BaselinesHeld, CollaborationTypeOK, Ready, Known
<1>1. Known' = {new} /\ Kept'
  BY <1>0 DEF Saves, Known, Saved, Kept
<1>2. Remembers(new, confirmed, BaselinesHeld)
  BY <1>0, RemembersMore DEF BaselineInv
<1>3. Remembers(new, confirmed', BaselinesHeld')
  BY <1>2 DEF Remembers
<1> QED BY <1>1, <1>3

LEMMA BaselineStep ==
    ASSUME CollaborationTypeOK, TokensPlanned, FilesKeep, BaselineInv, [Next]_vars
    PROVE  BaselineInv'
<1>0. /\ memory # None /\ memory \in States /\ Extended(plan', plan)
      /\ held \subseteq Tokens /\ pending \subseteq Tokens
      /\ \A u \in held \cup pending : plan'[u] = plan[u]
  BY KnownAreStates, ContactsMoveForward DEF CollaborationTypeOK, Extended, TokensPlanned
<1> DEFINE P == \A u \in pending' : plan'[u].side = "sender" => ~plan'[u].baseline
<1>1. ASSUME pending' \subseteq pending PROVE P
  BY <1>0, <1>1 DEF BaselineInv
<1>2. ASSUME held' \subseteq held PROVE BaselinesHeld' \subseteq BaselinesHeld
  BY <1>0, <1>2 DEF BaselinesHeld
<1>3. ASSUME P, confirmed' \subseteq confirmed, BaselinesHeld' \subseteq BaselinesHeld
      PROVE  BaselineInv'
  BY <1>3, NothingGained DEF BaselineInv
<1>4. ASSUME held' \subseteq held, pending' \subseteq pending, confirmed' \subseteq confirmed
      PROVE  BaselineInv'
  BY <1>1, <1>2, <1>3, <1>4
<1> HIDE DEF P
<1>5. CASE UNCHANGED vars
  BY <1>4, <1>5 DEF vars, brokerVars, observerVars
<1>6. CASE \/ Load \/ Flush \/ Evict \/ Start \/ Reconnect \/ Damage \/ Report \/ ReportTimesOut
  BY <1>4, <1>6 DEF Load, Flush, Evict, Start, Reconnect, Drops, Damage, Report, ReportTimesOut,
       brokerVars, observerVars
<1>7. CASE Die \/ DieInFlush \/ Close
  BY <1>4, <1>7 DEF Die, DieInFlush, PersistDies, Close, Down
<1>8. ASSUME NEW e \in Events,
             \/ Compact(e) \/ DieInRecordCompaction(e) \/ RecordCompaction(e)
             \/ RepeatCompaction(e) \/ RecordCompactionFails(e)
      PROVE  BaselineInv'
  BY <1>4, <1>8 DEF Compact, DieInRecordCompaction, RecordCompaction, RepeatCompaction,
       RecordCompactionFails, PersistDies, Down, brokerVars, observerVars
<1>9. ASSUME NEW t \in Tokens,
             \/ SendToObserverFails(t) \/ SendFromObserverFails(t) \/ DieInSend(t) \/ ForgetToken(t)
             \/ AcceptBaselineFails(t) \/ DieInAcceptBaseline(t) \/ UnknownToken(t)
             \/ RecordAcceptedContact(t)
      PROVE  BaselineInv'
  <2>1. held' \subseteq held /\ pending' \subseteq pending /\ confirmed' \subseteq confirmed
    BY <1>9 DEF SendToObserverFails, SendFromObserverFails, Drops, DieInSend, ForgetToken,
         AcceptBaselineFails, DieInAcceptBaseline, UnknownToken, RecordAcceptedContact,
         PersistDies, Down, brokerVars, observerVars
  <2> QED BY <1>4, <2>1
<1>10. ASSUME NEW t \in Tokens, NEW side \in {"sender", "receiver"}, Plan(t, side)
       PROVE  /\ pending' \subseteq pending \cup {t} /\ (side = "sender" => ~First) => P
              /\ held' \subseteq held \cup {t} => BaselinesHeld' \subseteq BaselinesHeld \cup {t}
              /\ held' \subseteq held \cup {t} /\ ~First => BaselinesHeld' \subseteq BaselinesHeld
  <2>1. plan'[t].side = side /\ plan'[t].baseline = First
    BY <1>10, PlanType
  <2> QED BY <1>0, <2>1 DEF P, BaselinesHeld, BaselineInv
<1>11. ASSUME NEW t \in Tokens, SendToObserver(t) PROVE BaselineInv'
  <2>1. P /\ BaselinesHeld' \subseteq BaselinesHeld \cup {t}
        /\ (~First => BaselinesHeld' \subseteq BaselinesHeld) /\ confirmed' = confirmed
    BY <1>10, <1>11 DEF SendToObserver, Reaches
  <2>2. CASE First
    <3>1. Saves(Staged(t)) /\ Ready
      BY <1>11, <2>2, PersistShape DEF SendToObserver, Staged
    <3>2. Staged(t) \in States /\ Extends(Staged(t), memory) /\ Staged(t).staged[t] # None
      BY <1>0, FirstStage, ExtendsProperties DEF Staged
    <3> QED BY <2>1, <3>1, <3>2, SavedFirst DEF BaselineInv, P
  <2> QED BY <1>3, <2>1, <2>2
<1>12. ASSUME NEW t \in Tokens, SendFromObserver(t) PROVE BaselineInv'
  <2>1. CASE First
    <3> DEFINE new == WithAccepted(Staged(t), t)
    <3>1. Saves(new) /\ Ready
      BY <1>12, <2>1, PersistShape DEF SendFromObserver, Staged
    <3>2. Staged(t) \in States /\ Staged(t).staged[t] # None
      BY FirstStage DEF Staged
    <3>3. new \in States /\ Extends(new, memory) /\ t \in new.accepted
      BY <1>0, <3>2, FirstStage, AcceptedProperties, ExtendsProperties DEF Staged
    <3>4. held' \subseteq held /\ pending' \subseteq pending /\ confirmed' \subseteq confirmed \cup {t}
      BY <1>12, <2>1 DEF SendFromObserver
    <3>5. P /\ BaselinesHeld' \subseteq BaselinesHeld
      BY <1>1, <1>2, <3>4
    <3> HIDE DEF new
    <3> QED BY <3>1, <3>3, <3>4, <3>5, SavedFirst DEF BaselineInv, P
  <2>2. CASE ~First
    <3>1. P /\ BaselinesHeld' \subseteq BaselinesHeld /\ confirmed' = confirmed
      BY <1>10, <1>12, <2>2 DEF SendFromObserver, Reaches
    <3> QED BY <1>3, <3>1
  <2> QED BY <2>1, <2>2
<1>13. ASSUME NEW t \in Tokens, ReplaySend(t) PROVE BaselineInv'
  <2>1. ~plan[t].baseline /\ t \in pending
    BY <1>13 DEF ReplaySend, BaselineInv
  <2>2. UNCHANGED <<pending, plan, confirmed>> /\ held' = held \cup {t}
    BY <1>13 DEF ReplaySend, brokerVars
  <2>3. BaselinesHeld' \subseteq BaselinesHeld
    BY <2>1, <2>2 DEF BaselinesHeld
  <2> QED BY <1>1, <1>3, <2>2, <2>3
<1>14. ASSUME NEW t \in Tokens, Answered(t)
       PROVE  held' \subseteq held /\ confirmed' \subseteq confirmed \cup {t}
  BY <1>14 DEF Answered
<1>15. ASSUME NEW t \in Tokens, AcceptBaseline(t) PROVE BaselineInv'
  <2> DEFINE new == WithAccepted(memory, t)
  <2>1. /\ memory.staged[t] # None /\ Saves(new) /\ Ready /\ Answered(t)
        /\ pending' \subseteq pending
    BY <1>15, PersistShape DEF AcceptBaseline, Seen
  <2>2. new \in States /\ Extends(new, memory) /\ t \in new.accepted
    BY <1>0, <2>1, AcceptedProperties, ExtendsProperties
  <2>3. P /\ BaselinesHeld' \subseteq BaselinesHeld /\ confirmed' \subseteq confirmed \cup {t}
    BY <1>1, <1>2, <1>14, <2>1
  <2> HIDE DEF new
  <2> QED BY <2>1, <2>2, <2>3, SavedFirst DEF BaselineInv, P
<1>16. ASSUME NEW t \in Tokens, RepeatAcceptance(t) PROVE BaselineInv'
  <2>1. /\ t \in memory.accepted /\ Ready /\ Answered(t) /\ pending' \subseteq pending
        /\ UNCHANGED <<memory, loaded, primary, backup, damaged>>
    BY <1>16 DEF RepeatAcceptance, Seen, fileVars
  <2>2. P /\ BaselinesHeld' \subseteq BaselinesHeld /\ confirmed' \subseteq confirmed \cup {t}
    BY <1>1, <1>2, <1>14, <2>1
  <2>3. Kept' /\ Known' = Known
    BY <2>1, KnownSame DEF FilesKeep, Ready, Blank, Kept, Saved
  <2>4. \A v \in Known : Extends(v, memory)
    BY <1>0, <2>1, ExtendsProperties DEF FilesKeep, Ready, Known
  <2>5. \A v \in Known : t \in v.accepted
    BY <2>1, <2>4 DEF Extends
  <2>6. \A v \in Known : Remembers(v, confirmed', BaselinesHeld')
    BY <2>2, <2>5 DEF Remembers, BaselineInv
  <2> QED BY <2>2, <2>3, <2>6 DEF BaselineInv, P
<1> QED BY <1>5, <1>6, <1>7, <1>8, <1>9, <1>11, <1>12, <1>13, <1>15, <1>16 DEF Next, HandleReport

(* A first contact is neither forgotten nor given up: what the observer    *)
(* was told is in the mark of every version, and what it still tries is    *)
(* known to every version, whatever handler fails or dies halfway and      *)
(* whichever file is spoiled.                                              *)
THEOREM BaselinesAreKept == Spec => []BaselinesSurvive
<1>1. Init => FilesKeep /\ BaselineInv /\ WatermarkInv
  BY DEF Init, FilesKeep, BaselineInv, WatermarkInv, HeldReached, BaselinesHeld, Known, Saved
<1>2. CollaborationTypeOK /\ TokensPlanned /\ WatermarkInv /\ FilesKeep /\ BaselineInv /\ [Next]_vars
         => (WatermarkInv /\ FilesKeep /\ BaselineInv)'
  BY HeldReachedStep, SoundStep, FilesKeepStep, BaselineStep DEF WatermarkInv
<1>3. CollaborationTypeOK /\ WatermarkInv /\ BaselineInv => BaselinesSurvive
  <2> SUFFICES ASSUME CollaborationTypeOK, WatermarkInv, BaselineInv, NEW s \in Versions
               PROVE  /\ \A t \in confirmed : s.mark # None /\ s.mark >= plan[t].generation
                      /\ \A t \in held : Baseline(t) => s.staged[t] # None \/ t \in s.accepted
    BY DEF BaselinesSurvive
  <2>1. ASSUME confirmed \cup BaselinesHeld # {} PROVE s \in Known
    BY <2>1 DEF BaselineInv, Kept, Versions, Durable, Known, Saved
  <2>2. ASSUME NEW t \in confirmed PROVE s.mark # None /\ s.mark >= plan[t].generation
    <3>1. s \in Known /\ t \in s.accepted /\ s \in States /\ t \in Tokens
      BY <2>1, <2>2, KnownAreStates DEF BaselineInv, Remembers, States
    <3>2. plan[t] # None /\ s.mark # None /\ plan[t].generation <= s.mark
      BY <3>1 DEF WatermarkInv, Sound
    <3>3. plan[t].generation \in Nat /\ s.mark \in Nat
      BY <3>1, <3>2 DEF CollaborationTypeOK, Plans, States
    <3> QED BY <3>2, <3>3
  <2>3. ASSUME NEW t \in held, Baseline(t) PROVE s.staged[t] # None \/ t \in s.accepted
    BY <2>1, <2>3 DEF Baseline, BaselinesHeld, BaselineInv, Remembers
  <2> QED BY <2>2, <2>3
<1> QED BY <1>1, <1>2, <1>3, CollaborationTypes, PTL DEF Spec

-----------------------------------------------------------------------------
(* Numbers                                                                 *)

KnownToPeer == {e \in Events : recorded[e] # {}}
Done == Cardinality(KnownToPeer)

(* The compaction the peer reports: the oldest of which it was not told.   *)
FirstOf(q) == IF q = <<>> THEN {} ELSE {Head(q)}
Current == FirstOf(unreported)

Last(q) == q[Len(q)]

(* A version counts what the peer was told, "n" compactions with the       *)
(* numbers "rec", and at most the one that it reports.                     *)
Numbered(v, n, rec, current) ==
    /\ v.generation \in {n, n + 1}
    /\ v.generation = n + 1 => v.recent # <<>> /\ Last(v.recent).event \in current
    /\ v.generation = n /\ n > 0 => v.recent # <<>> /\ n \in rec[Last(v.recent).event]
    /\ \A i \in 1..Len(v.recent) :
          /\ v.recent[i].generation <= v.generation
          /\ \/ v.recent[i].generation \in rec[v.recent[i].event]
             \/ v.recent[i].event \in current /\ v.recent[i].generation = n + 1

NumbersTold(n, rec) ==
    /\ \A e \in Events : \A g \in rec[e] : g \in 1..n
    /\ \A d, e \in Events : \A g \in rec[d], h \in rec[e] : g = h <=> d = e

Untaken(q, rec) ==
    /\ \A i \in 1..Len(q) : rec[q[i]] = {}
    /\ \A i, j \in 1..Len(q) : q[i] = q[j] => i = j

(* Old reports on their way are of the compaction counted last, and        *)
(* nothing else comes after the first one of the current compaction.       *)
InOrder(q, n, rec, current) ==
    /\ \A i \in 1..Len(q) : q[i] \in current \/ n \in rec[q[i]]
    /\ \A i, j \in 1..Len(q) : i < j /\ q[i] \in current => q[j] = q[i]

AllOf(q, current) == \A i \in 1..Len(q) : q[i] \in current

PeerInv ==
    /\ IsFiniteSet(KnownToPeer)
    /\ NumbersTold(Done, recorded)
    /\ Untaken(unreported, recorded)
    /\ awaiting # None => awaiting \in Current
    /\ InOrder(reports, Done, recorded, Current)
    /\ KnownToPeer # {} => Kept

NumberInv ==
    \A v \in Known : /\ Numbered(v, Done, recorded, Current)
                     /\ v.generation = Done + 1 => AllOf(reports, Current)

LEMMA FirstOfProperties ==
    ASSUME NEW S, NEW q \in Seq(S), q # <<>>
    PROVE  /\ FirstOf(q) = {q[1]} /\ Head(q) = q[1] /\ 1 \in 1..Len(q) /\ q[1] \in S
           /\ Tail(q) \in Seq(S) /\ Len(Tail(q)) = Len(q) - 1 /\ Len(q) \in Nat
           /\ \A i \in 1..Len(Tail(q)) : Tail(q)[i] = q[i + 1] /\ i + 1 \in 1..Len(q)
BY DEF FirstOf

LEMMA AppendProperties ==
    ASSUME NEW S, NEW q \in Seq(S), NEW x \in S
    PROVE  /\ Append(q, x) \in Seq(S) /\ Len(Append(q, x)) = Len(q) + 1 /\ Len(q) \in Nat
           /\ \A i \in 1..Len(q) : Append(q, x)[i] = q[i]
           /\ Append(q, x)[Len(q) + 1] = x
OBVIOUS

LEMMA DoneType ==
    ASSUME CollaborationTypeOK, IsFiniteSet(KnownToPeer)
    PROVE  Done \in Nat /\ (Done > 0 <=> KnownToPeer # {})
BY FS_CardinalityType, FS_EmptySet DEF Done

(* A request that is not counted yet is of the current compaction, and the *)
(* next one to count.                                                      *)
LEMMA NotCountedYet ==
    ASSUME CollaborationTypeOK, PeerInv, NumberInv, NEW e \in Events,
           Requested(e), ~Counted(memory, e)
    PROVE  /\ e \in Current /\ memory.generation = Done
           /\ AllOf(reports, {e})
<1>1. memory \in Known /\ memory \in States
  BY KnownAreStates DEF Requested, Ready, Known, CollaborationTypeOK
<1>2. Done \in Nat /\ memory.generation \in Nat
  BY <1>1, DoneType DEF PeerInv, States
<1>3. reports[1] = e /\ 1 \in 1..Len(reports) /\ Len(reports) \in Nat
  BY FirstOfProperties DEF Requested, CollaborationTypeOK
<1>4. e \in Current \/ Done \in recorded[e]
  BY <1>3 DEF PeerInv, InOrder
<1>5. ASSUME memory.recent # <<>> PROVE Last(memory.recent).event # e
  <2> DEFINE S == [event : Events, generation : Nat]
  <2>1. memory.recent \in Seq(S)
    BY <1>1 DEF States
  <2> HIDE DEF S
  <2>2. Len(memory.recent) \in DOMAIN memory.recent
    BY <1>5, <2>1
  <2> QED BY <2>2 DEF Counted, Last
<1>6. memory.generation = Done
  <2> SUFFICES ASSUME memory.generation = Done + 1 PROVE FALSE
    BY <1>1 DEF NumberInv, Numbered
  <2>1. e \in Current
    BY <1>1, <1>3 DEF NumberInv, AllOf
  <2>2. memory.recent # <<>> /\ Last(memory.recent).event \in Current
    BY <1>1 DEF NumberInv, Numbered
  <2> QED BY <1>5, <2>1, <2>2 DEF Current, FirstOf
<1>7. e \in Current
  <2> SUFFICES ASSUME Done \in recorded[e] PROVE FALSE
    BY <1>4
  <2>1. Done > 0
    BY <1>2 DEF PeerInv, NumbersTold
  <2>2. memory.recent # <<>> /\ Done \in recorded[Last(memory.recent).event]
    BY <1>1, <1>6, <2>1 DEF NumberInv, Numbered
  <2>3. Last(memory.recent).event \in Events
    <3> DEFINE S == [event : Events, generation : Nat]
    <3>1. memory.recent \in Seq(S)
      BY <1>1 DEF States
    <3> HIDE DEF S
    <3>2. memory.recent[Len(memory.recent)] \in S
      BY <2>2, <3>1
    <3> QED BY <3>2 DEF S, Last
  <2> QED BY <1>5, <2>2, <2>3 DEF PeerInv, NumbersTold
<1>8. AllOf(reports, {e})
  <2> SUFFICES ASSUME NEW i \in 1..Len(reports) PROVE reports[i] = e
    BY DEF AllOf
  <2>1. 1 < i \/ i = 1
    OBVIOUS
  <2> QED BY <1>3, <1>7, <2>1 DEF PeerInv, InOrder
<1> QED BY <1>6, <1>7, <1>8

LEMMA NumberedNext ==
    ASSUME NEW s \in States, NEW e \in Events, NEW n \in Nat, NEW rec, NEW current,
           Numbered(s, n, rec, current), s.generation = n, e \in current
    PROVE  /\ WithCompaction(s, e) \in States
           /\ WithCompaction(s, e).generation = n + 1
           /\ Numbered(WithCompaction(s, e), n, rec, current)
<1> DEFINE w == WithCompaction(s, e)
           new == [event |-> e, generation |-> n + 1]
<1>1. /\ w \in States /\ w.generation = n + 1 /\ w.recent # <<>> /\ Last(w.recent) = new
      /\ \A i \in 1..Len(w.recent) : w.recent[i] = new \/ \E j \in 1..Len(s.recent) : w.recent[i] = s.recent[j]
  BY CompactionProperties DEF Last
<1>2. new.event = e /\ new.generation = n + 1
  OBVIOUS
<1> HIDE DEF w, new
<1>3. \A j \in 1..Len(s.recent) : s.recent[j].generation \in Nat
  <2> DEFINE S == [event : Events, generation : Nat]
  <2>1. s.recent \in Seq(S)
    BY DEF States
  <2> HIDE DEF S
  <2>2. \A j \in 1..Len(s.recent) : s.recent[j] \in S
    BY <2>1
  <2> QED BY <2>2 DEF S
<1>4. ASSUME NEW i \in 1..Len(w.recent)
      PROVE  /\ w.recent[i].generation <= w.generation
             /\ \/ w.recent[i].generation \in rec[w.recent[i].event]
                \/ w.recent[i].event \in current /\ w.recent[i].generation = n + 1
  <2>1. CASE w.recent[i] = new
    BY <1>1, <1>2, <2>1
  <2>2. ASSUME NEW j \in 1..Len(s.recent), w.recent[i] = s.recent[j]
        PROVE  /\ w.recent[i].generation <= w.generation
               /\ \/ w.recent[i].generation \in rec[w.recent[i].event]
                  \/ w.recent[i].event \in current /\ w.recent[i].generation = n + 1
    BY <1>1, <1>3, <2>2 DEF Numbered
  <2> QED BY <1>1, <2>1, <2>2
<1>5. n # n + 1
  OBVIOUS
<1>6. Numbered(w, n, rec, current)
  BY <1>1, <1>2, <1>4, <1>5 DEF Numbered
<1> QED BY <1>1, <1>6 DEF w

(* Only these are read of a version.                                       *)
LEMMA NumberedAlike ==
    ASSUME NEW s, NEW w, NEW n, NEW rec, NEW current, NEW current2,
           Numbered(s, n, rec, current), w.generation = s.generation, w.recent = s.recent,
           current \subseteq current2
    PROVE  Numbered(w, n, rec, current2)
BY DEF Numbered

(* What a step that does not count brings.                                 *)
LEMMA AlikeVersions ==
    ASSUME CollaborationTypeOK, TokensPlanned, [Next]_vars, NEW v \in Known' \ Known
    PROVE  \/ LoadsNothing /\ v = EmptyState
           \/ \E e \in Events : Counts(e) /\ v = WithCompaction(memory, e)
           \/ memory \in Known /\ v.generation = memory.generation /\ v.recent = memory.recent
<1>1. memory \in States /\ memory # None /\ memory.generation \in Nat
  BY KnownAreStates DEF CollaborationTypeOK, States
<1>2. ASSUME Ready PROVE memory \in Known
  BY <1>1, <1>2 DEF Ready, Known
<1>4. ASSUME NEW t \in Tokens, Stages(t)
      PROVE  memory \in Known /\ v.generation = memory.generation /\ v.recent = memory.recent
  <2>1. v = Staged(t) \/ v = WithAccepted(Staged(t), t)
    BY <1>4 DEF Stages
  <2> DEFINE s == Staged(t)
  <2>2. s \in States /\ s.staged[t] # None /\ s.generation = memory.generation /\ s.recent = memory.recent
    BY <1>1, StagedProperties DEF Staged
  <2> HIDE DEF s
  <2>3. WithAccepted(s, t).generation = s.generation /\ WithAccepted(s, t).recent = s.recent
    BY <2>2, AcceptedProperties
  <2> QED BY <1>2, <1>4, <2>1, <2>2, <2>3 DEF Stages, s
<1>5. ASSUME NEW t \in Tokens, Accepts(t)
      PROVE  memory \in Known /\ v.generation = memory.generation /\ v.recent = memory.recent
  <2>1. v = WithAccepted(memory, t) /\ memory.staged[t] # None
    BY <1>5 DEF Accepts
  <2>2. WithAccepted(memory, t).generation = memory.generation /\ WithAccepted(memory, t).recent = memory.recent
    BY <1>1, <2>1, AcceptedProperties
  <2> QED BY <1>2, <1>5, <2>1, <2>2 DEF Accepts, Seen
<1>6. ASSUME NEW t \in Tokens, Moves(t)
      PROVE  memory \in Known /\ v.generation = memory.generation /\ v.recent = memory.recent
  <2>1. v = WithMark(memory, plan[t].generation)
    BY <1>6 DEF Moves
  <2>2. v.generation = memory.generation /\ v.recent = memory.recent
    BY <1>1, <2>1 DEF WithMark, States
  <2> QED BY <1>2, <1>6, <2>2 DEF Moves, Seen
<1>7. ASSUME NEW e \in Events, Counts(e) PROVE v = WithCompaction(memory, e)
  BY <1>7 DEF Counts
<1>8. LoadsNothing => v = EmptyState
  BY DEF LoadsNothing
<1>9. LoadsNothing \/ (\E e \in Events : Counts(e)) \/ \E t \in Tokens : Stages(t) \/ Accepts(t) \/ Moves(t)
  BY NewVersions DEF NewVersion
<1> QED BY <1>4, <1>5, <1>6, <1>7, <1>8, <1>9

(* What a step may do to the peer and its reports: tell it a number, or    *)
(* less.                                                                   *)
Tells(e) ==
    /\ RecordCompaction(e) \/ RepeatCompaction(e)
    /\ awaiting = e /\ awaiting' = None
    /\ unreported' = Tail(unreported) /\ reports' = Tail(reports)
    /\ recorded' = [recorded EXCEPT ![e] =
                       @ \cup {IF Counted(memory, e) THEN GenerationOf(memory, e)
                                                     ELSE memory.generation + 1}]

Quiet ==
    /\ UNCHANGED recorded
    /\ awaiting' # None => awaiting' = awaiting \/ (unreported # <<>> /\ awaiting' = Head(unreported))
    /\ \/ /\ UNCHANGED unreported
          /\ \/ reports' \in {reports, <<>>}
             \/ reports # <<>> /\ reports' = Tail(reports)
             \/ unreported # <<>> /\ reports' = Append(reports, Head(unreported))
       \/ \E e \in Events :
             /\ recorded[e] = {} /\ \A i \in DOMAIN unreported : unreported[i] # e
             /\ unreported' = Append(unreported, e) /\ UNCHANGED <<reports, awaiting>>

LEMMA PeerSteps ==
    ASSUME CollaborationTypeOK, [Next]_vars
    PROVE  Quiet \/ \E e \in Events : Tells(e)
<1>1. ASSUME UNCHANGED <<unreported, recorded>>, awaiting' \in {awaiting, None},
             reports' \in {reports, <<>>}
      PROVE  Quiet
  BY <1>1 DEF Quiet
<1>2. ASSUME Down PROVE Quiet
  BY <1>1, <1>2 DEF Down
<1>3. ASSUME UNCHANGED peerVars PROVE Quiet
  BY <1>1, <1>3 DEF peerVars
<1>4. CASE Load \/ Flush \/ Evict \/ Start \/ Reconnect \/ Damage \/ UNCHANGED vars
  <2>1. UNCHANGED peerVars
    BY <1>4 DEF Load, Flush, Evict, Start, Reconnect, Damage, vars
  <2> QED BY <1>3, <2>1
<1>5. CASE Die \/ DieInFlush \/ Close
  BY <1>2, <1>5 DEF Die, DieInFlush, PersistDies, Close
<1>6. CASE Report
  BY <1>6 DEF Report, Quiet
<1>7. CASE ReportTimesOut
  BY <1>7 DEF ReportTimesOut, Quiet
<1>8. ASSUME NEW e \in Events, Compact(e) PROVE Quiet
  BY <1>8 DEF Compact, Quiet
<1>9. ASSUME NEW e \in Events, DieInRecordCompaction(e) PROVE Quiet
  BY <1>2, <1>9 DEF DieInRecordCompaction, PersistDies
<1>10. ASSUME NEW e \in Events, RecordCompactionFails(e) PROVE Quiet
  <2>1. UNCHANGED <<unreported, recorded>> /\ awaiting' \in {awaiting, None}
        /\ reports # <<>> /\ reports' = Tail(reports)
    BY <1>10 DEF RecordCompactionFails, Requested
  <2> QED BY <2>1 DEF Quiet
<1>11. ASSUME NEW e \in Events, NEW g, reports # <<>>, reports' = Tail(reports),
              UNCHANGED <<unreported, recorded, awaiting>>
       PROVE  Quiet
  BY <1>11 DEF Quiet
<1>12. ASSUME NEW e \in Events, RecordCompaction(e) PROVE Quiet \/ Tells(e)
  <2>1. reports # <<>> /\ reports' = Tail(reports) /\ ~Counted(memory, e)
    BY <1>12 DEF RecordCompaction, Requested
  <2>2. Told(e, memory.generation + 1) \/ Untold
    BY <1>12 DEF RecordCompaction
  <2>3. CASE awaiting = e /\ Told(e, memory.generation + 1)
    BY <1>12, <2>1, <2>3 DEF Told, Tells
  <2>4. CASE UNCHANGED <<unreported, recorded, awaiting>>
    BY <1>11, <2>1, <2>4
  <2> QED BY <2>2, <2>3, <2>4 DEF Told, Untold
<1>13. ASSUME NEW e \in Events, RepeatCompaction(e) PROVE Quiet \/ Tells(e)
  <2>1. reports # <<>> /\ reports' = Tail(reports) /\ Counted(memory, e)
    BY <1>13 DEF RepeatCompaction, Requested
  <2>2. Told(e, GenerationOf(memory, e)) \/ Untold
    BY <1>13 DEF RepeatCompaction
  <2>3. CASE awaiting = e /\ Told(e, GenerationOf(memory, e))
    BY <1>13, <2>1, <2>3 DEF Told, Tells
  <2>4. CASE UNCHANGED <<unreported, recorded, awaiting>>
    BY <1>11, <2>1, <2>4
  <2> QED BY <2>2, <2>3, <2>4 DEF Told, Untold
<1>14. ASSUME NEW t \in Tokens,
              \/ SendToObserver(t) \/ SendFromObserver(t) \/ SendFromObserverFails(t)
              \/ ReplaySend(t) \/ ForgetToken(t) \/ AcceptBaseline(t) \/ RepeatAcceptance(t)
              \/ AcceptBaselineFails(t) \/ UnknownToken(t) \/ RecordAcceptedContact(t)
       PROVE  Quiet
  <2>1. UNCHANGED peerVars
    BY <1>14 DEF SendToObserver, SendFromObserver, SendFromObserverFails, ReplaySend, ForgetToken,
         AcceptBaseline, RepeatAcceptance, AcceptBaselineFails, UnknownToken, RecordAcceptedContact
  <2> QED BY <1>3, <2>1
<1>15. ASSUME NEW t \in Tokens, SendToObserverFails(t) PROVE Quiet
  BY <1>1, <1>15 DEF SendToObserverFails
<1>16. ASSUME NEW t \in Tokens, DieInSend(t) \/ DieInAcceptBaseline(t) PROVE Quiet
  BY <1>2, <1>16 DEF DieInSend, DieInAcceptBaseline, PersistDies
<1> QED BY <1>4, <1>5, <1>6, <1>7, <1>8, <1>9, <1>10, <1>12, <1>13, <1>14, <1>15, <1>16 DEF Next, HandleReport

LEMMA QuietOrder ==
    ASSUME CollaborationTypeOK, PeerInv, Quiet
    PROVE  /\ Current \subseteq Current'
           /\ awaiting' # None => awaiting' \in Current'
           /\ Untaken(unreported', recorded)
           /\ InOrder(reports', Done, recorded, Current')
           /\ Current # {} /\ AllOf(reports, Current) => AllOf(reports', Current')
<1>0. /\ unreported \in Seq(Events) /\ reports \in Seq(Events)
      /\ InOrder(reports, Done, recorded, Current) /\ Untaken(unreported, recorded)
      /\ awaiting # None => awaiting \in Current
  BY DEF CollaborationTypeOK, PeerInv
<1>1. CASE UNCHANGED unreported
  <2>1. Current' = Current
    BY <1>1 DEF Current
  <2>2. unreported # <<>> => Current = {Head(unreported)}
    BY DEF Current, FirstOf
  <2>3. CASE reports' \in {reports, <<>>}
    BY <1>0, <1>1, <2>1, <2>2, <2>3 DEF Quiet, InOrder, AllOf
  <2>4. CASE reports # <<>> /\ reports' = Tail(reports)
    <3>1. \A i \in 1..Len(reports') : i \in Nat /\ reports'[i] = reports[i + 1] /\ i + 1 \in 1..Len(reports)
      BY <1>0, <2>4, FirstOfProperties
    <3>2. \A i, j \in 1..Len(reports') : i < j => i + 1 < j + 1
      BY <3>1
    <3>3. InOrder(reports', Done, recorded, Current)
      BY <1>0, <3>1, <3>2 DEF InOrder
    <3>4. AllOf(reports, Current) => AllOf(reports', Current)
      BY <3>1 DEF AllOf
    <3> QED BY <1>0, <1>1, <2>1, <2>2, <3>3, <3>4 DEF Quiet
  <2>5. CASE unreported # <<>> /\ reports' = Append(reports, Head(unreported))
    <3> DEFINE h == Head(unreported)
    <3>1. h \in Events /\ Current = {h}
      BY <1>0, <2>2, <2>5, FirstOfProperties
    <3>2. /\ Len(reports') = Len(reports) + 1 /\ Len(reports) \in Nat
          /\ \A i \in 1..Len(reports) : reports'[i] = reports[i]
          /\ reports'[Len(reports) + 1] = h
      BY <1>0, <2>5, <3>1, AppendProperties
    <3> HIDE DEF h
    <3>3. \A i \in 1..Len(reports') : i \in 1..Len(reports) \/ i = Len(reports) + 1
      BY <3>2
    <3>4. \A i, j \in 1..Len(reports') : i < j => i \in 1..Len(reports)
      BY <3>2
    <3>5. \A i \in 1..Len(reports') : reports'[i] \in Current \/ Done \in recorded[reports'[i]]
      BY <1>0, <3>1, <3>2, <3>3 DEF InOrder
    <3>6. ASSUME NEW i \in 1..Len(reports'), NEW j \in 1..Len(reports'), i < j, reports'[i] \in Current
          PROVE  reports'[j] = reports'[i]
      <4>1. i \in 1..Len(reports) /\ reports'[i] = reports[i] /\ reports[i] = h
        BY <3>1, <3>2, <3>4, <3>6
      <4>2. CASE j \in 1..Len(reports)
        BY <1>0, <3>2, <3>6, <4>1, <4>2 DEF InOrder
      <4>3. CASE j = Len(reports) + 1
        BY <3>2, <4>1, <4>3
      <4> QED BY <3>3, <4>2, <4>3
    <3>7. InOrder(reports', Done, recorded, Current)
      BY <3>5, <3>6 DEF InOrder
    <3>8. AllOf(reports, Current) => AllOf(reports', Current)
      BY <3>1, <3>2, <3>3 DEF AllOf
    <3> QED BY <1>0, <1>1, <2>1, <2>2, <3>7, <3>8 DEF Quiet
  <2> QED BY <1>1, <2>3, <2>4, <2>5, <1>0, FirstOfProperties DEF Quiet
<1>2. ASSUME NEW e \in Events, recorded[e] = {}, \A i \in DOMAIN unreported : unreported[i] # e,
             unreported' = Append(unreported, e), UNCHANGED <<reports, awaiting>>
      PROVE  /\ Current \subseteq Current'
             /\ awaiting' # None => awaiting' \in Current'
             /\ Untaken(unreported', recorded)
             /\ InOrder(reports', Done, recorded, Current')
             /\ Current # {} /\ AllOf(reports, Current) => AllOf(reports', Current')
  <2>1. /\ Len(unreported') = Len(unreported) + 1 /\ Len(unreported) \in Nat
        /\ \A i \in 1..Len(unreported) : unreported'[i] = unreported[i]
        /\ unreported'[Len(unreported) + 1] = e /\ unreported' \in Seq(Events)
        /\ DOMAIN unreported = 1..Len(unreported)
    BY <1>0, <1>2, AppendProperties
  <2>2. \A i \in 1..Len(unreported') : i \in 1..Len(unreported) \/ i = Len(unreported) + 1
    BY <2>1
  <2>3. Untaken(unreported', recorded)
    <3>1. \A i \in 1..Len(unreported') : recorded[unreported'[i]] = {}
      BY <1>0, <1>2, <2>1, <2>2 DEF Untaken
    <3>2. ASSUME NEW i \in 1..Len(unreported'), NEW j \in 1..Len(unreported'),
                 unreported'[i] = unreported'[j]
          PROVE  i = j
      BY <1>0, <1>2, <2>1, <2>2, <3>2 DEF Untaken
    <3> QED BY <3>1, <3>2 DEF Untaken
  <2>4. unreported' # <<>>
    BY <2>1
  <2>5. CASE unreported # <<>>
    <3>1. Current = {unreported[1]} /\ 1 \in 1..Len(unreported) /\ Current' = {unreported'[1]}
      BY <1>0, <2>1, <2>4, <2>5, FirstOfProperties DEF Current
    <3>2. Current' = Current
      BY <2>1, <3>1
    <3> QED BY <1>0, <1>2, <2>3, <3>2
  <2>6. CASE unreported = <<>>
    <3>1. Current = {} /\ Current' = {e}
      BY <2>1, <2>4, <2>6, FirstOfProperties DEF Current, FirstOf
    <3>2. \A i \in 1..Len(reports) : Done \in recorded[reports[i]]
      BY <1>0, <3>1 DEF InOrder
    <3>3. \A i \in 1..Len(reports) : reports[i] # e
      BY <1>2, <3>2
    <3>4. InOrder(reports', Done, recorded, Current')
      BY <1>2, <3>1, <3>2, <3>3 DEF InOrder
    <3> QED BY <1>0, <1>2, <2>3, <3>1, <3>4
  <2> QED BY <2>5, <2>6
<1> QED BY <1>1, <1>2 DEF Quiet

LEMMA QuietStep ==
    ASSUME CollaborationTypeOK, TokensPlanned, PeerInv, NumberInv, [Next]_vars, Quiet
    PROVE  PeerInv' /\ NumberInv'
<1>0. /\ Current \subseteq Current'
      /\ awaiting' # None => awaiting' \in Current'
      /\ Untaken(unreported', recorded)
      /\ InOrder(reports', Done, recorded, Current')
      /\ Current # {} /\ AllOf(reports, Current) => AllOf(reports', Current')
  BY QuietOrder
<1>1. recorded' = recorded /\ KnownToPeer' = KnownToPeer /\ Done' = Done
  BY DEF Quiet, KnownToPeer, Done
<1>2. Done \in Nat /\ (Done > 0 <=> KnownToPeer # {})
  BY DoneType DEF PeerInv
<1>3. PeerInv'
  BY <1>0, <1>1, KeptStep DEF PeerInv
<1>4. ASSUME NEW v, Numbered(v, Done, recorded, Current), v.generation = Done + 1 => AllOf(reports, Current)
      PROVE  /\ Numbered(v, Done, recorded, Current')
             /\ v.generation = Done + 1 => AllOf(reports', Current')
  BY <1>0, <1>4, NumberedAlike DEF Numbered
<1>5. ASSUME NEW v \in Known'
      PROVE  /\ Numbered(v, Done, recorded, Current')
             /\ v.generation = Done + 1 => AllOf(reports', Current')
  <2>1. CASE v \in Known
    BY <1>4, <2>1 DEF NumberInv
  <2>2. CASE LoadsNothing /\ v = EmptyState
    <3>1. Done = 0
      BY <1>2, <2>2 DEF LoadsNothing, PeerInv, Kept
    <3>2. v.generation = 0 /\ v.recent = <<>>
      BY <2>2 DEF EmptyState
    <3> QED BY <3>1, <3>2 DEF Numbered
  <2>3. ASSUME NEW e \in Events, Counts(e), v = WithCompaction(memory, e)
        PROVE  /\ Numbered(v, Done, recorded, Current')
               /\ v.generation = Done + 1 => AllOf(reports', Current')
    <3>1. Requested(e) /\ ~Counted(memory, e)
      BY <2>3 DEF Counts
    <3>2. e \in Current /\ memory.generation = Done /\ AllOf(reports, {e})
      BY <3>1, NotCountedYet
    <3>3. memory \in Known /\ memory \in States
      BY <3>1, KnownAreStates DEF Requested, Ready, Known, CollaborationTypeOK
    <3>4. Numbered(v, Done, recorded, Current)
      BY <1>2, <2>3, <3>2, <3>3, NumberedNext DEF NumberInv
    <3>5. AllOf(reports, Current)
      BY <3>2 DEF AllOf
    <3> QED BY <1>4, <3>4, <3>5
  <2>4. CASE memory \in Known /\ v.generation = memory.generation /\ v.recent = memory.recent
    <3>1. Numbered(v, Done, recorded, Current)
      BY <2>4, NumberedAlike DEF NumberInv
    <3>2. v.generation = Done + 1 => AllOf(reports, Current)
      BY <2>4 DEF NumberInv
    <3> QED BY <1>4, <3>1, <3>2
  <2> QED BY <2>1, <2>2, <2>3, <2>4, AlikeVersions
<1> QED BY <1>1, <1>3, <1>5 DEF NumberInv

(* What the peer is told is the number after those it was told, and every  *)
(* version has it by then.                                                 *)
LEMMA NumberTold ==
    ASSUME CollaborationTypeOK, FilesKeep, PeerInv, NumberInv, [Next]_vars,
           NEW e \in Events, Tells(e)
    PROVE  /\ recorded' = [recorded EXCEPT ![e] = @ \cup {Done + 1}]
           /\ Current = {e} /\ AllOf(reports, {e}) /\ Kept'
           /\ \A v \in Known' : v.generation = Done + 1 /\ Numbered(v, Done, recorded, Current)
<1>0. memory \in Known /\ memory \in States /\ loaded = TRUE /\ memory # None /\ Requested(e)
  BY KnownAreStates DEF Tells, RecordCompaction, RepeatCompaction, Requested, Ready, Known, CollaborationTypeOK
<1>1. Done \in Nat /\ memory.generation \in Nat
  BY <1>0, DoneType DEF PeerInv, States
<1>2. Current = {e} /\ unreported # <<>>
  <2>1. awaiting = e /\ e # None
    BY NoneIsNothing DEF Tells
  <2> QED BY <2>1 DEF PeerInv, Current, FirstOf
<1>3. recorded[e] = {}
  <2>1. unreported[1] = e /\ 1 \in 1..Len(unreported)
    BY <1>2, FirstOfProperties DEF Current, CollaborationTypeOK
  <2> QED BY <2>1 DEF PeerInv, Untaken
<1>4. CASE RecordCompaction(e)
  <2> DEFINE new == WithCompaction(memory, e)
  <2>1. ~Counted(memory, e) /\ Saves(new)
    BY <1>4, PersistShape DEF RecordCompaction
  <2>2. memory.generation = Done /\ AllOf(reports, {e})
    BY <1>0, <2>1, NotCountedYet
  <2>3. new \in States /\ new.generation = Done + 1 /\ Numbered(new, Done, recorded, Current)
    BY <1>0, <1>1, <1>2, <2>2, NumberedNext DEF NumberInv
  <2>4. new # None
    BY <2>3, NoneIsNothing
  <2> HIDE DEF new
  <2>5. Known' = {new} /\ Kept'
    BY <2>1, <2>4 DEF Saves, Known, Saved, Kept
  <2> QED BY <1>2, <2>1, <2>2, <2>3, <2>5 DEF Tells
<1>5. CASE RepeatCompaction(e)
  <2>1. Counted(memory, e) /\ UNCHANGED <<memory, loaded, primary, backup>>
    BY <1>5 DEF RepeatCompaction, brokerVars, fileVars
  <2>2. PICK i \in DOMAIN memory.recent :
           memory.recent[i].event = e /\ GenerationOf(memory, e) = memory.recent[i].generation
    BY <2>1 DEF Counted, GenerationOf
  <2>3. i \in 1..Len(memory.recent)
    <3> DEFINE S == [event : Events, generation : Nat]
    <3>1. memory.recent \in Seq(S)
      BY <1>0 DEF States
    <3> HIDE DEF S
    <3> QED BY <2>2, <3>1
  <2>4. memory.recent[i].generation = Done + 1 /\ memory.recent[i].generation <= memory.generation
    BY <1>0, <1>3, <2>2, <2>3 DEF NumberInv, Numbered
  <2>5. memory.generation = Done + 1
    BY <1>0, <1>1, <2>4 DEF NumberInv, Numbered
  <2>6. AllOf(reports, {e})
    BY <1>0, <1>2, <2>5 DEF NumberInv
  <2>7. Known' = Known
    BY <2>1, KnownSame
  <2>8. ASSUME NEW v \in Known PROVE v.generation = Done + 1 /\ Numbered(v, Done, recorded, Current)
    <3>1. Numbered(v, Done, recorded, Current)
      BY DEF NumberInv
    <3>2. memory.generation <= v.generation
      BY <1>0, <1>1 DEF FilesKeep, Known, Extends
    <3> QED BY <1>1, <2>5, <3>1, <3>2 DEF Numbered
  <2>9. Kept
    BY <1>0, <1>1, <2>5 DEF FilesKeep, Blank
  <2>10. Kept'
    BY <2>9, KeptStep
  <2> QED BY <1>2, <2>1, <2>2, <2>4, <2>6, <2>7, <2>8, <2>10 DEF Tells
<1> QED BY <1>4, <1>5 DEF Tells

LEMMA TellStep ==
    ASSUME CollaborationTypeOK, TokensPlanned, FilesKeep, PeerInv, NumberInv, [Next]_vars,
           NEW e \in Events, Tells(e)
    PROVE  PeerInv' /\ NumberInv'
<1> DEFINE n == Done
<1>0. n \in Nat /\ IsFiniteSet(KnownToPeer)
  BY DoneType DEF PeerInv
<1>1. /\ recorded' = [recorded EXCEPT ![e] = @ \cup {n + 1}]
      /\ Current = {e} /\ AllOf(reports, {e}) /\ Kept'
      /\ \A v \in Known' : v.generation = n + 1 /\ Numbered(v, n, recorded, {e})
  BY NumberTold
<1>2. /\ awaiting' = None
      /\ unreported' = Tail(unreported) /\ reports' = Tail(reports)
      /\ unreported # <<>> /\ reports # <<>> /\ unreported \in Seq(Events) /\ reports \in Seq(Events)
  BY <1>1 DEF Tells, RecordCompaction, RepeatCompaction, Requested, Current, FirstOf, CollaborationTypeOK
<1>3. /\ \A i \in 1..Len(unreported') : unreported'[i] = unreported[i + 1] /\ i + 1 \in 1..Len(unreported)
                                        /\ i + 1 # 1 /\ i \in Nat
      /\ unreported[1] = e /\ 1 \in 1..Len(unreported)
  <2>1. Current = {unreported[1]} /\ 1 \in 1..Len(unreported)
    BY <1>2, FirstOfProperties DEF Current
  <2>2. \A i \in 1..Len(unreported') : unreported'[i] = unreported[i + 1] /\ i + 1 \in 1..Len(unreported)
    BY <1>2, FirstOfProperties
  <2>3. \A i \in 1..Len(unreported') : i \in Nat /\ i + 1 # 1
    OBVIOUS
  <2> QED BY <1>1, <2>1, <2>2, <2>3
<1>4. \A i \in 1..Len(reports') : reports'[i] = e
  <2>1. \A i \in 1..Len(reports') : reports'[i] = reports[i + 1] /\ i + 1 \in 1..Len(reports)
    BY <1>2, FirstOfProperties
  <2> QED BY <1>1, <2>1 DEF AllOf
<1>5. recorded[e] = {} /\ Untaken(unreported, recorded)
  BY <1>3 DEF PeerInv, Untaken
<1>6. recorded'[e] = {n + 1} /\ \A d \in Events \ {e} : recorded'[d] = recorded[d]
  BY <1>1, <1>5 DEF CollaborationTypeOK
<1>7. IsFiniteSet(KnownToPeer') /\ Done' = n + 1
  <2>1. KnownToPeer' = KnownToPeer \cup {e} /\ e \notin KnownToPeer
    BY <1>5, <1>6 DEF KnownToPeer
  <2> QED BY <1>0, <2>1, FS_AddElement DEF Done
<1>8. NumbersTold(n + 1, recorded')
  <2>1. \A d \in Events : \A g \in recorded[d] : g \in 1..n
    BY DEF PeerInv, NumbersTold
  <2>2. \A d \in Events : \A g \in recorded'[d] : (d = e /\ g = n + 1) \/ (d # e /\ g \in recorded[d] /\ g \in 1..n)
    BY <1>6, <2>1
  <2>3. \A d \in Events : \A g \in recorded'[d] : g \in 1..n + 1
    BY <1>0, <2>2
  <2>4. ASSUME NEW c \in Events, NEW d \in Events, NEW g \in recorded'[c], NEW h \in recorded'[d]
        PROVE  g = h <=> c = d
    <3>0. n \in Nat /\ n + 1 \notin 1..n
      BY <1>0
    <3>1. CASE c = e \/ d = e
      <4>1. (c = e => g = n + 1) /\ (c # e => g \in 1..n)
        BY <2>2
      <4>2. (d = e => h = n + 1) /\ (d # e => h \in 1..n)
        BY <2>2
      <4> QED BY <3>0, <3>1, <4>1, <4>2
    <3>2. CASE c # e /\ d # e
      BY <1>6, <3>2 DEF PeerInv, NumbersTold
    <3> QED BY <3>1, <3>2
  <2> QED BY <2>3, <2>4 DEF NumbersTold
<1>9. Untaken(unreported', recorded')
  <2>0. \A i, j \in 1..Len(unreported) : unreported[i] = unreported[j] => i = j
    BY <1>5 DEF Untaken
  <2>1. \A i \in 1..Len(unreported') : unreported'[i] # e /\ unreported'[i] \in Events
    <3> TAKE i \in 1..Len(unreported')
    <3>1. unreported'[i] = unreported[i + 1] /\ i + 1 \in 1..Len(unreported) /\ i + 1 # 1
      BY <1>3
    <3>2. unreported[i + 1] # e
      BY <1>3, <2>0, <3>1
    <3>3. unreported[i + 1] \in Events
      BY <3>1 DEF CollaborationTypeOK
    <3> QED BY <3>1, <3>2, <3>3
  <2>2. \A i \in 1..Len(unreported') : recorded'[unreported'[i]] = {}
    <3> TAKE i \in 1..Len(unreported')
    <3>1. unreported'[i] = unreported[i + 1] /\ i + 1 \in 1..Len(unreported)
      BY <1>3
    <3>2. recorded[unreported'[i]] = {}
      BY <1>5, <3>1 DEF Untaken
    <3> QED BY <1>6, <2>1, <3>2
  <2>4. \A i, j \in 1..Len(unreported') : unreported'[i] = unreported'[j] => i = j
    <3> TAKE i, j \in 1..Len(unreported')
    <3> HAVE unreported'[i] = unreported'[j]
    <3>1. unreported[i + 1] = unreported[j + 1] /\ {i + 1, j + 1} \subseteq 1..Len(unreported)
      BY <1>3
    <3>2. i + 1 = j + 1
      BY <2>0, <3>1
    <3> QED BY <1>3, <3>2
  <2> QED BY <2>2, <2>4 DEF Untaken
<1>10. InOrder(reports', n + 1, recorded', Current')
  BY <1>4, <1>6 DEF InOrder
<1>11. PeerInv'
  BY <1>1, <1>2, <1>7, <1>8, <1>9, <1>10 DEF PeerInv
<1>12. ASSUME NEW v \in Known' PROVE Numbered(v, n + 1, recorded', Current')
  <2>1. /\ v.generation = n + 1 /\ v.recent # <<>> /\ Last(v.recent).event = e
        /\ \A i \in 1..Len(v.recent) :
              /\ v.recent[i].generation <= v.generation
              /\ \/ v.recent[i].generation \in recorded[v.recent[i].event]
                 \/ v.recent[i].event = e /\ v.recent[i].generation = n + 1
    BY <1>1 DEF Numbered
  <2>2. \A d, g : g \in recorded[d] /\ d \in Events => g \in recorded'[d]
    BY <1>5, <1>6
  <2>3. v \in States
    <3>1. CollaborationTypeOK'
      BY TypesStep
    <3> QED BY <1>12, <3>1 DEF CollaborationTypeOK, Known, Saved
  <2>4. \A i \in 1..Len(v.recent) : v.recent[i].event \in Events
    <3> DEFINE S == [event : Events, generation : Nat]
    <3>1. v.recent \in Seq(S)
      BY <2>3 DEF States
    <3> HIDE DEF S
    <3>2. \A i \in 1..Len(v.recent) : v.recent[i] \in S
      BY <3>1
    <3> QED BY <3>2 DEF S
  <2>5. \A i \in 1..Len(v.recent) : v.recent[i].generation \in recorded'[v.recent[i].event]
    BY <1>6, <2>1, <2>2, <2>4
  <2>6. v.generation # n + 1 + 1
    BY <1>0, <2>1
  <2> QED BY <1>6, <2>1, <2>5, <2>6 DEF Numbered
<1>13. \A v \in Known' : v.generation # n + 1 + 1
  BY <1>0, <1>1
<1>14. NumberInv'
  BY <1>7, <1>12, <1>13 DEF NumberInv
<1> QED BY <1>11, <1>14

LEMMA CompactionsFinite ==
    ASSUME CollaborationTypeOK, PeerInv
    PROVE  /\ IsFiniteSet(Compactions) /\ Done <= Cardinality(Compactions)
           /\ Current # {} => Done + 1 <= Cardinality(Compactions)
<1> DEFINE Waiting == {unreported[i] : i \in 1..Len(unreported)}
<1>1. unreported \in [1..Len(unreported) -> Events] /\ Len(unreported) \in Nat
      /\ DOMAIN unreported = 1..Len(unreported)
  BY DEF CollaborationTypeOK
<1>2. IsFiniteSet(1..Len(unreported))
  BY <1>1, FS_Interval
<1>3. unreported \in Surjection(1..Len(unreported), Waiting)
  BY <1>1 DEF Surjection
<1>4. IsFiniteSet(Waiting)
  BY <1>2, <1>3, FS_Surjection
<1>5. Compactions = KnownToPeer \cup Waiting
  BY <1>1 DEF Compactions, KnownToPeer
<1>6. IsFiniteSet(KnownToPeer)
  BY DEF PeerInv
<1> HIDE DEF Waiting
<1>7. IsFiniteSet(Compactions)
  BY <1>4, <1>5, <1>6, FS_Union
<1>8. Done <= Cardinality(Compactions)
  BY <1>5, <1>7, FS_Subset DEF Done
<1>9. ASSUME Current # {} PROVE Done + 1 <= Cardinality(Compactions)
  <2>1. unreported # <<>>
    BY <1>9 DEF Current, FirstOf
  <2>2. unreported[1] \in Waiting /\ recorded[unreported[1]] = {}
    BY <2>1, FirstOfProperties DEF PeerInv, Untaken, Waiting, CollaborationTypeOK
  <2>3. unreported[1] \notin KnownToPeer
    BY <2>2 DEF KnownToPeer
  <2> DEFINE K == KnownToPeer \cup {unreported[1]}
  <2>4. K \subseteq Compactions
    BY <1>5, <2>2
  <2>5. Cardinality(K) = Done + 1
    BY <1>6, <2>3, FS_AddElement DEF Done
  <2> QED BY <1>7, <2>4, <2>5, FS_Subset
<1> QED BY <1>7, <1>8, <1>9

(* A compaction counts once, however often it is reported and whatever     *)
(* fails: the numbers are those of the compactions in the order in which   *)
(* the peer reports them, so that its number never changes, no two share   *)
(* one, and no version loses one that was told.                            *)
THEOREM EachCountsOnce == Spec => []CompactionsCountOnce
<1>1. Init => FilesKeep /\ PeerInv /\ NumberInv
  <2> SUFFICES ASSUME Init PROVE FilesKeep /\ PeerInv /\ NumberInv
    OBVIOUS
  <2>1. KnownToPeer = {} /\ Known = {} /\ unreported = <<>> /\ reports = <<>> /\ Current = {}
    BY DEF Init, KnownToPeer, Known, Saved, Current, FirstOf
  <2>2. IsFiniteSet(KnownToPeer)
    BY <2>1, FS_EmptySet
  <2>3. NumbersTold(Done, recorded)
    BY DEF Init, NumbersTold
  <2>4. Untaken(unreported, recorded) /\ InOrder(reports, Done, recorded, Current)
    BY <2>1 DEF Untaken, InOrder
  <2> QED BY <2>1, <2>2, <2>3, <2>4 DEF Init, FilesKeep, PeerInv, NumberInv
<1>2. CollaborationTypeOK /\ TokensPlanned /\ FilesKeep /\ PeerInv /\ NumberInv /\ [Next]_vars
         => (FilesKeep /\ PeerInv /\ NumberInv)'
  BY FilesKeepStep, PeerSteps, QuietStep, TellStep
<1>3. CollaborationTypeOK /\ PeerInv /\ NumberInv => CompactionsCountOnce
  <2> SUFFICES ASSUME CollaborationTypeOK, PeerInv, NumberInv PROVE CompactionsCountOnce
    OBVIOUS
  <2>0. Done \in Nat /\ (Done > 0 <=> KnownToPeer # {})
    BY DoneType DEF PeerInv
  <2>1. IsFiniteSet(Compactions) /\ Cardinality(Compactions) \in Nat
    BY CompactionsFinite, FS_CardinalityType
  <2>2. \A d, e \in Events : \A g \in recorded[d], h \in recorded[e] : g = h <=> d = e
    BY DEF PeerInv, NumbersTold
  <2>3. ASSUME NEW s \in Versions
        PROVE  /\ s.generation <= Cardinality(Compactions)
               /\ \A e \in Events : \A g \in recorded[e] : g <= s.generation
    <3>1. CASE s \in Known
      <4>1. s.generation \in {Done, Done + 1} /\ (s.generation = Done + 1 => Current # {})
        BY <2>0, <3>1 DEF NumberInv, Numbered
      <4>2. s.generation <= Cardinality(Compactions)
        BY <2>0, <2>1, <4>1, CompactionsFinite
      <4>3. \A e \in Events : \A g \in recorded[e] : g \in 1..Done
        BY DEF PeerInv, NumbersTold
      <4>4. \A e \in Events : \A g \in recorded[e] : g <= s.generation
        BY <2>0, <4>1, <4>3
      <4> QED BY <4>2, <4>4
    <3>2. CASE s \notin Known
      <4>1. s = EmptyState /\ Saved = {}
        BY <3>2 DEF Versions, Durable, Known, Saved
      <4>2. s.generation = 0 /\ KnownToPeer = {}
        BY <4>1 DEF EmptyState, PeerInv, Kept
      <4>3. \A e \in Events : recorded[e] = {}
        BY <4>2 DEF KnownToPeer
      <4> QED BY <2>1, <4>2, <4>3
    <3> QED BY <3>1, <3>2
  <2> QED BY <2>2, <2>3 DEF CompactionsCountOnce
<1> QED BY <1>1, <1>2, <1>3, CollaborationTypes, PTL DEF Spec
==============================================================================
