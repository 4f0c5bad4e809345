-------------------------- MODULE CollaborationState --------------------------
(***************************************************************************)
(* The durable state behind "your peer compacted since you last spoke":    *)
(* CollaborationStateStore for one scope, with a peer that reports its     *)
(* compactions and an observer whose contacts with the peer move a         *)
(* watermark. Handlers are synchronous; a process that dies in one leaves  *)
(* its files between two of the atomic renames.                            *)
(*                                                                         *)
(* Abstracted: identities other than the two, and with them the limits     *)
(* that drop their oldest records; revisions, which tell two writes apart  *)
(* exactly when their contents differ or the copy is harmless; a load that *)
(* fails to mirror, after which the operation fails and loads again.       *)
(***************************************************************************)
EXTENDS Naturals, Sequences, FiniteSets

CONSTANTS
    Events,           \* compactions of the peer
    Tokens,           \* one for each direct contact of peer and observer
    RecentEvents,     \* MAX_RECENT_COMPACTION_EVENTS
    MaxRequests,      \* bound: reports on their way
    MaxFaults,        \* bound: deaths, failing writes, lost answers, damage
    None

ASSUME CollaborationAssumption ==
    RecentEvents \in Nat \ {0} /\ MaxRequests \in Nat \ {0} /\ MaxFaults \in Nat

(* StoredState, and what is planned for a token.                           *)
States ==
    [generation : Nat, recent : Seq([event : Events, generation : Nat]),
     mark : Nat \cup {None}, staged : [Tokens -> Nat \cup {None}],
     accepted : SUBSET Tokens]
Plans == [generation : Nat, baseline : BOOLEAN, side : {"sender", "receiver"}]

ASSUME NoneIsNothing == None \notin Nat \cup Events \cup States \cup Plans

VARIABLES
    \* the broker
    up, loaded,       \* it runs; the scope is in memory
    memory,           \* scope.state
    committed,        \* hasCommittedPrimary
    dirty,            \* contactsPending
    pending,          \* pendingDirectContacts: tokens the broker remembers
    primary, backup,  \* the files; None: absent or unreadable
    \* the peer
    unreported,       \* pendingCompactionReports, kept in its session
    awaiting,         \* the report it awaits an answer to
    reports,          \* compaction_completed frames on their way
    \* the observer
    held,             \* tokens it received and has not seen recorded
    \* history
    plan,             \* [Tokens -> the contact's generation and kind, or None]
    met,              \* latest generation at which a contact reached the observer
    recorded,         \* [Events -> generations the peer was told]
    confirmed,        \* baselines the observer was told of
    damaged, faults

brokerVars == <<up, loaded, memory, committed, dirty, pending>>
fileVars == <<primary, backup>>
peerVars == <<unreported, awaiting, reports, recorded>>
observerVars == <<held, plan, met, confirmed>>
vars == <<brokerVars, fileVars, peerVars, observerVars, damaged, faults>>

EmptyState ==
    [generation |-> 0, recent |-> <<>>, mark |-> None,
     staged |-> [t \in Tokens |-> None], accepted |-> {}]

Init ==
    /\ up = TRUE /\ loaded = FALSE /\ memory = EmptyState
    /\ committed = FALSE /\ dirty = FALSE /\ pending = {}
    /\ primary = None /\ backup = None
    /\ unreported = <<>> /\ awaiting = None /\ reports = <<>>
    /\ held = {} /\ plan = [t \in Tokens |-> None] /\ met = None
    /\ recorded = [e \in Events |-> {}] /\ confirmed = {}
    /\ damaged = FALSE /\ faults = 0

Fault == faults < MaxFaults /\ faults' = faults + 1
Later(m, g) == IF m = None \/ g > m THEN g ELSE m

-----------------------------------------------------------------------------
(* Files *)

(* persist: the files before and after each of its atomic writes. The      *)
(* first one of a scope saves what was there before, so that a stage can   *)
(* be told from a commit.                                                  *)
Writes(new) ==
    IF committed
    THEN << <<primary, backup>>, <<primary, new>>, <<new, new>> >>
    ELSE << <<primary, backup>>, <<primary, memory>>, <<memory, memory>>,
            <<memory, new>>, <<new, new>> >>

Files(w) == primary' = w[1] /\ backup' = w[2]

Persist(new) ==
    /\ Files(Writes(new)[Len(Writes(new))])
    /\ memory' = new /\ committed' = TRUE /\ dirty' = FALSE
    /\ UNCHANGED <<up, loaded>>

(* Mutant: memory is updated before the writes.                            *)
PersistFailsAhead(new) ==
    /\ Fault
    /\ \E i \in 1..(Len(Writes(new)) - 1) :
          /\ Files(Writes(new)[i])
          /\ committed' = (committed \/ i >= 3)
    /\ memory' = new /\ UNCHANGED <<up, loaded, dirty>>

(* A write fails: memory stays, the stage may be there.                    *)
PersistFails(new) ==
    /\ Fault
    /\ \E i \in 1..(Len(Writes(new)) - 1) :
          /\ Files(Writes(new)[i])
          /\ committed' = (committed \/ i >= 3)
    /\ UNCHANGED <<up, loaded, memory, dirty>>

(* The broker ends, with its connections.                                  *)
Down ==
    /\ up' = FALSE /\ loaded' = FALSE /\ memory' = EmptyState
    /\ committed' = FALSE /\ dirty' = FALSE /\ pending' = {}
    /\ reports' = <<>> /\ awaiting' = None
    /\ held' = {t \in held : plan[t].baseline}
    /\ UNCHANGED <<unreported, recorded, confirmed, damaged>>

PersistDies(new) ==
    /\ Fault
    /\ \E i \in 1..Len(Writes(new)) : Files(Writes(new)[i])
    /\ Down

(* getScope: the primary is the commit point, a stage that went further is *)
(* rolled back, a lost file is restored from the other.                    *)
Load ==
    /\ up /\ ~loaded /\ loaded' = TRUE
    /\ memory' = IF primary # None THEN primary
                 ELSE IF backup # None THEN backup ELSE EmptyState
    /\ committed' = (primary # None \/ backup # None)
    /\ IF primary # None THEN backup' = primary /\ UNCHANGED primary
                         ELSE primary' = backup /\ UNCHANGED backup
    /\ UNCHANGED <<up, dirty, pending, peerVars, observerVars, damaged, faults>>

Ready == up /\ loaded

-----------------------------------------------------------------------------
(* Compactions *)

Counted(s, e) == \E i \in DOMAIN s.recent : s.recent[i].event = e
GenerationOf(s, e) ==
    s.recent[CHOOSE i \in DOMAIN s.recent : s.recent[i].event = e].generation

(* The last RecentEvents events are known by their ids.                    *)
WithCompaction(s, e) ==
    LET all == Append(s.recent, [event |-> e, generation |-> s.generation + 1])
    IN  [s EXCEPT !.generation = @ + 1,
                  !.recent = SubSeq(all, IF Len(all) > RecentEvents THEN 2 ELSE 1, Len(all))]

(* The peer compacts: the report is saved in its session before it is sent.*)
Compact(e) ==
    /\ recorded[e] = {} /\ \A i \in DOMAIN unreported : unreported[i] # e
    /\ unreported' = Append(unreported, e)
    /\ UNCHANGED <<brokerVars, fileVars, awaiting, reports, recorded, observerVars,
                   damaged, faults>>

Report ==
    /\ up /\ unreported # <<>> /\ awaiting = None /\ Len(reports) < MaxRequests
    /\ awaiting' = Head(unreported)
    /\ reports' = Append(reports, Head(unreported))
    /\ UNCHANGED <<brokerVars, fileVars, unreported, recorded, observerVars, damaged, faults>>

(* Ten seconds pass: the answer was lost, or the broker is that slow.      *)
ReportTimesOut ==
    /\ awaiting # None /\ awaiting' = None
    /\ IF reports = <<>> THEN UNCHANGED faults ELSE Fault
    /\ UNCHANGED <<brokerVars, fileVars, unreported, reports, recorded, observerVars, damaged>>

(* An answer to what the peer awaits ends its report.                      *)
Told(e, g) ==
    IF awaiting = e
    THEN /\ awaiting' = None
         /\ unreported' = Tail(unreported)
         /\ recorded' = [recorded EXCEPT ![e] = @ \cup {g}]
    ELSE UNCHANGED <<awaiting, unreported, recorded>>
Untold == UNCHANGED <<awaiting, unreported, recorded>>

Requested(e) == Ready /\ reports # <<>> /\ e = Head(reports)

RecordCompaction(e) ==
    /\ Requested(e) /\ ~Counted(memory, e)
    /\ Persist(WithCompaction(memory, e))
    /\ reports' = Tail(reports)
    /\ \/ Told(e, memory.generation + 1) /\ UNCHANGED faults
       \/ Untold /\ Fault
    /\ UNCHANGED <<pending, observerVars, damaged>>

(* Mutant: a report that was already counted is not answered.              *)
RepeatCompactionSilently(e) ==
    /\ Requested(e) /\ Counted(memory, e)
    /\ reports' = Tail(reports)
    /\ Untold
    /\ UNCHANGED <<brokerVars, fileVars, observerVars, damaged, faults>>

RepeatCompaction(e) ==
    /\ Requested(e) /\ Counted(memory, e)
    /\ reports' = Tail(reports)
    /\ \/ Told(e, GenerationOf(memory, e)) /\ UNCHANGED faults
       \/ Untold /\ Fault
    /\ UNCHANGED <<brokerVars, fileVars, observerVars, damaged>>

RecordCompactionFails(e) ==
    /\ Requested(e) /\ ~Counted(memory, e)
    /\ PersistFails(WithCompaction(memory, e))
    /\ reports' = Tail(reports)
    /\ awaiting' = (IF awaiting = e THEN None ELSE awaiting)
    /\ UNCHANGED <<pending, unreported, recorded, observerVars, damaged>>

DieInRecordCompaction(e) ==
    /\ Requested(e) /\ ~Counted(memory, e)
    /\ PersistDies(WithCompaction(memory, e))
    /\ UNCHANGED <<plan, met>>

-----------------------------------------------------------------------------
(* Contacts. A first contact sets the watermark to what it found, durably; *)
(* a later one moves it when the observer acknowledges the contact's token.*)

Unused(t) == plan[t] = None
First == memory.mark = None

(* Mutant: staging a baseline already shows it.                            *)
WithStagedMark(s, t, g) == [s EXCEPT !.staged[t] = g, !.mark = Later(@, g)]

WithStaged(s, t, g) == [s EXCEPT !.staged[t] = g]

(* Mutant: the token is not kept.                                          *)
WithAcceptedAnonymous(s, t) ==
    [s EXCEPT !.staged[t] = None, !.mark = Later(@, s.staged[t])]

WithAccepted(s, t) ==
    [s EXCEPT !.staged[t] = None, !.accepted = @ \cup {t}, !.mark = Later(@, s.staged[t])]

Plan(t, side) ==
    plan' = [plan EXCEPT ![t] =
                [generation |-> memory.generation, baseline |-> First, side |-> side]]

(* The frame with the token reaches the observer, or its connection ends.  *)
Reaches(t) ==
    \/ held' = held \cup {t} /\ met' = Later(met, memory.generation)
    \/ UNCHANGED <<held, met>>

(* The peer sends to the observer: a baseline is staged before the write.  *)
SendToObserver(t) ==
    /\ Ready /\ Unused(t)
    /\ IF First THEN Persist(WithStaged(memory, t, memory.generation))
                ELSE UNCHANGED <<up, loaded, memory, committed, dirty, fileVars>>
    /\ Plan(t, "receiver") /\ pending' = pending \cup {t}
    /\ Reaches(t)
    /\ UNCHANGED <<peerVars, confirmed, damaged, faults>>

(* The peer's connection ends with the exception.                          *)
SendToObserverFails(t) ==
    /\ Ready /\ Unused(t) /\ First
    /\ PersistFails(WithStaged(memory, t, memory.generation))
    /\ Plan(t, "receiver")
    /\ reports' = <<>> /\ awaiting' = None
    /\ UNCHANGED <<pending, unreported, recorded, held, met, confirmed, damaged>>

(* The observer sends to the peer. The broker itself accepts the baseline  *)
(* that it staged, after the write.                                        *)
SendFromObserver(t) ==
    /\ Ready /\ Unused(t)
    /\ Plan(t, "sender")
    /\ IF First
       THEN /\ Persist(WithAccepted(WithStaged(memory, t, memory.generation), t))
            /\ met' = Later(met, memory.generation)
            /\ confirmed' \in {confirmed, confirmed \cup {t}}
            /\ UNCHANGED <<held, pending>>
       ELSE /\ pending' = pending \cup {t} /\ Reaches(t)
            /\ UNCHANGED <<up, loaded, memory, committed, dirty, fileVars, confirmed>>
    /\ UNCHANGED <<peerVars, damaged, faults>>

Drops == held' = {t \in held : plan[t].baseline}

(* Staging fails before the write, accepting after it.                     *)
SendFromObserverFails(t) ==
    /\ Ready /\ Unused(t) /\ First
    /\ Plan(t, "sender") /\ Drops
    /\ \/ /\ PersistFails(WithStaged(memory, t, memory.generation))
          /\ UNCHANGED met
       \/ LET staged == WithStaged(memory, t, memory.generation) IN
          /\ Fault
          /\ primary' = staged
          /\ backup' \in {staged, WithAccepted(staged, t)}
          /\ memory' = staged /\ committed' = TRUE /\ dirty' = FALSE
          /\ met' = Later(met, memory.generation)
          /\ UNCHANGED <<up, loaded>>
    /\ UNCHANGED <<pending, peerVars, confirmed, damaged>>

DieInSend(t) ==
    /\ Ready /\ Unused(t) /\ First
    /\ Plan(t, "sender")
    /\ \/ /\ PersistDies(WithStaged(memory, t, memory.generation))
          /\ UNCHANGED met
       \/ LET staged == WithStaged(memory, t, memory.generation)
              new == WithAccepted(staged, t) IN
          /\ Fault /\ Down
          /\ \E w \in {<<staged, staged>>, <<staged, new>>, <<new, new>>} : Files(w)
          /\ met' = Later(met, memory.generation)

(* The sender repeats a message: its record repeats the token.             *)
ReplaySend(t) ==
    /\ Ready /\ t \in pending /\ plan[t].side = "sender"
    /\ held' = held \cup {t} /\ met' = Later(met, plan[t].generation)
    /\ UNCHANGED <<brokerVars, fileVars, peerVars, plan, confirmed, damaged, faults>>

(* pendingDirectContacts is bounded in number and age.                     *)
ForgetToken(t) ==
    /\ t \in pending /\ pending' = pending \ {t}
    /\ UNCHANGED <<up, loaded, memory, committed, dirty, fileVars, peerVars,
                   observerVars, damaged, faults>>

-----------------------------------------------------------------------------
(* direct_contact_seen *)

Baseline(t) == plan[t].baseline
(* The answer ends the observer's retries, unless it gets lost. Only       *)
(* baselines are retried.                                                  *)
Answered(t) ==
    \/ held' = held \ {t} /\ UNCHANGED faults
       /\ confirmed' = IF Baseline(t) THEN confirmed \cup {t} ELSE confirmed
    \/ Fault /\ held' = (IF Baseline(t) THEN held ELSE held \ {t}) /\ UNCHANGED confirmed

Seen(t) == Ready /\ t \in held
Volatile(t) == t \in pending /\ ~Baseline(t)

AcceptBaseline(t) ==
    /\ Seen(t) /\ ~Volatile(t)
    /\ memory.staged[t] # None
    /\ Persist(WithAccepted(memory, t))
    /\ pending' = pending \ {t}
    /\ Answered(t)
    /\ UNCHANGED <<peerVars, plan, met, damaged>>

RepeatAcceptance(t) ==
    /\ Seen(t) /\ ~Volatile(t)
    /\ t \in memory.accepted
    /\ pending' = pending \ {t}
    /\ Answered(t)
    /\ UNCHANGED <<up, loaded, memory, committed, dirty, fileVars, peerVars, plan, met,
                   damaged>>

(* No answer: the observer tries again.                                    *)
AcceptBaselineFails(t) ==
    /\ Seen(t) /\ ~Volatile(t)
    /\ memory.staged[t] # None
    /\ PersistFails(WithAccepted(memory, t))
    /\ UNCHANGED <<pending, peerVars, observerVars, damaged>>

DieInAcceptBaseline(t) ==
    /\ Seen(t) /\ ~Volatile(t)
    /\ memory.staged[t] # None
    /\ PersistDies(WithAccepted(memory, t))
    /\ UNCHANGED <<plan, met>>

(* direct_contact_unknown: the observer gives the token up.                *)
UnknownToken(t) ==
    /\ Seen(t) /\ ~Volatile(t)
    /\ memory.staged[t] = None /\ t \notin memory.accepted
    /\ held' = held \ {t}
    /\ UNCHANGED <<brokerVars, fileVars, peerVars, plan, met, confirmed, damaged, faults>>

(* A later contact moves the watermark in memory; a timer saves it.        *)
RecordAcceptedContact(t) ==
    /\ Seen(t) /\ Volatile(t)
    /\ memory' = [memory EXCEPT !.mark = Later(@, plan[t].generation)]
    /\ dirty' = TRUE /\ pending' = pending \ {t}
    /\ held' = held \ {t}
    /\ UNCHANGED <<up, loaded, committed, fileVars, peerVars, plan, met, confirmed,
                   damaged, faults>>

(* The timer fires.                                                        *)
Flush ==
    /\ Ready /\ dirty
    /\ \/ Persist(memory) /\ UNCHANGED faults
       \/ PersistFails(memory)
    /\ UNCHANGED <<pending, peerVars, observerVars, damaged>>

(* Other scopes push this one out of memory.                               *)
Evict ==
    /\ Ready /\ loaded' = FALSE /\ memory' = EmptyState
    /\ committed' = FALSE /\ dirty' = FALSE
    /\ IF dirty THEN Files(Writes(memory)[Len(Writes(memory))]) ELSE UNCHANGED fileVars
    /\ UNCHANGED <<up, pending, peerVars, observerVars, damaged, faults>>

-----------------------------------------------------------------------------
(* Lifetimes *)

Die == up /\ Fault /\ Down /\ UNCHANGED <<fileVars, plan, met>>

DieInFlush == Ready /\ dirty /\ PersistDies(memory) /\ UNCHANGED <<plan, met>>

(* An orderly end saves what is pending, if it can.                        *)
Close ==
    /\ up /\ Fault /\ Down
    /\ IF dirty THEN \E i \in 1..Len(Writes(memory)) : Files(Writes(memory)[i])
                ELSE UNCHANGED fileVars
    /\ UNCHANGED <<plan, met>>

Start ==
    /\ ~up /\ up' = TRUE
    /\ UNCHANGED <<loaded, memory, committed, dirty, pending, fileVars, peerVars,
                   observerVars, damaged, faults>>

(* The observer's connection ends: only baselines are acknowledged later.  *)
Reconnect ==
    /\ Drops /\ held' # held
    /\ UNCHANGED <<brokerVars, fileVars, peerVars, plan, met, confirmed, damaged, faults>>

(* Another program spoils one of the files.                                *)
Damage ==
    /\ ~damaged /\ damaged' = TRUE
    /\ \/ primary # None /\ primary' = None /\ UNCHANGED backup
       \/ backup # None /\ backup' = None /\ UNCHANGED primary
    /\ UNCHANGED <<brokerVars, peerVars, observerVars, faults>>

-----------------------------------------------------------------------------
HandleReport ==
    \E e \in Events : RecordCompaction(e) \/ RepeatCompaction(e) \/ RecordCompactionFails(e)

Next ==
    \/ Load \/ Flush \/ Evict \/ Die \/ DieInFlush \/ Close \/ Start \/ Reconnect \/ Damage
    \/ Report \/ ReportTimesOut \/ HandleReport
    \/ \E e \in Events : Compact(e) \/ DieInRecordCompaction(e)
    \/ \E t \in Tokens :
          \/ SendToObserver(t) \/ SendToObserverFails(t) \/ SendFromObserver(t)
          \/ SendFromObserverFails(t) \/ DieInSend(t) \/ ReplaySend(t) \/ ForgetToken(t)
          \/ AcceptBaseline(t) \/ RepeatAcceptance(t) \/ AcceptBaselineFails(t)
          \/ DieInAcceptBaseline(t) \/ UnknownToken(t) \/ RecordAcceptedContact(t)

(* The peer retries on a timer, the broker handles what arrives and is     *)
(* started again when it is gone. A handler loads the scope itself, so     *)
(* that an eviction never comes between the two.                           *)
Fairness ==
    /\ WF_vars(Start) /\ WF_vars(Load) /\ SF_vars(HandleReport)
    /\ WF_vars(Report) /\ WF_vars(ReportTimesOut)

Spec == Init /\ [][Next]_vars
FairSpec == Spec /\ Fairness

-----------------------------------------------------------------------------
(* Properties *)

(* What the next start of the broker loads.                                *)
Durable == IF primary # None THEN primary
           ELSE IF backup # None THEN backup ELSE EmptyState
Versions == {Durable} \cup (IF loaded THEN {memory} ELSE {})

Compactions == {e \in Events : recorded[e] # {} \/ \E i \in DOMAIN unreported : unreported[i] = e}

(* A compaction counts once, however often it is reported and whatever     *)
(* fails: its number never changes, no two share one, and a number that    *)
(* was told survives.                                                      *)
CompactionsCountOnce ==
    /\ \A d, e \in Events : \A g \in recorded[d], h \in recorded[e] : g = h <=> d = e
    /\ \A s \in Versions :
          /\ s.generation <= Cardinality(Compactions)
          /\ \A e \in Events : \A g \in recorded[e] : g <= s.generation

(* The watermark says no more than that a contact reached the observer, so *)
(* that no compaction goes unnoticed; a stage says nothing.                *)
MarkFollowsContact ==
    \A s \in Versions : s.mark # None => met # None /\ s.mark <= met

(* A first contact is neither forgotten nor given up: what the observer    *)
(* was told is in the watermark, and what it still tries is known, so that *)
(* a crash cannot make a later contact the first one.                      *)
BaselinesSurvive ==
    \A s \in Versions :
        /\ \A t \in confirmed : s.mark # None /\ s.mark >= plan[t].generation
        /\ \A t \in held : Baseline(t) => s.staged[t] # None \/ t \in s.accepted

(* Every compaction of a peer is recorded in the end.                      *)
EveryCompactionIsRecorded ==
    \A e \in Events :
        (\E i \in DOMAIN unreported : unreported[i] = e) ~> recorded[e] # {}
===============================================================================
