--------------------------- MODULE DispatchJournal ---------------------------
(***************************************************************************)
(* The file behind FederationConversations' dispatch journal: an           *)
(* append-only log of dispositions, the table in memory, eviction at the   *)
(* capacity, compaction at the byte bound and the replay of the log when   *)
(* the broker starts. Appends are whole here; FederatedSend has failing    *)
(* and torn ones, and reads of this file only what is barred.              *)
(***************************************************************************)
EXTENDS Naturals, Sequences, SequencesExt

CONSTANTS
    Scalars, Handles, \* dispatch keys: of plain ids, and of authored handles
    ScalarOf,         \* [Handles -> Scalars]: the caller's id of a handle
    Capacity,         \* barrierCapacity: keys in the table
    Bytes,            \* journalByteCapacity, in the sizes of Size
    None

Ids == Scalars \cup Handles
Dispositions == {"bound", "unknown", "not_delivered"}
Size(r) == Len(r.keys) + 1

VARIABLES
    log,      \* dispatch.log: records [keys, disposition]
    table,    \* dispositions in the order of insertion, and scalarAssociations
    readable, \* FALSE: journalFailure
    pending   \* the attempts of this broker that await a verdict

journalVars == <<log, table, readable, pending>>

Empty == [order |-> <<>>,
          disposition |-> [k \in Ids |-> "none"],
          alias |-> [h \in Handles |-> None]]

JournalInit == log = <<>> /\ table = Empty /\ readable = TRUE /\ pending = {}

-----------------------------------------------------------------------------
(* The table *)

Has(t, k) == t.disposition[k] # "none"
Alias(t, k) == IF k \in Handles THEN t.alias[k] ELSE None
KeysOf(t, k) == IF Alias(t, k) = None THEN <<k>> ELSE <<k, Alias(t, k)>>

Put(t, k, d) ==
    [t EXCEPT !.disposition[k] = d,
              !.order = IF Has(t, k) THEN @ ELSE Append(@, k)]

Take(t, k) ==
    [t EXCEPT !.disposition[k] = "none", !.order = Remove(@, k)]

(* A record's effect, appended or read. Binding leaves what is known alone.*)
Enter(t, r) ==
    FoldLeft(LAMBDA u, k : IF r.disposition = "bound" /\ Has(u, k) THEN u
                           ELSE Put(u, k, r.disposition),
             IF Len(r.keys) = 2 THEN [t EXCEPT !.alias[r.keys[1]] = r.keys[2]] ELSE t,
             r.keys)

(* The first settled key, else the first dispatched one, else the first.   *)
Victim(t) ==
    LET First(S) == t.order[SelectInSeq(t.order, LAMBDA k : t.disposition[k] \in S)]
        Present(S) == \E k \in Ids : t.disposition[k] \in S
    IN  IF Present({"not_delivered"}) THEN First({"not_delivered"})
        ELSE IF Present({"unknown"}) THEN First({"unknown"}) ELSE Head(t.order)

Forget(t, k) ==
    LET u == IF Alias(t, k) = None THEN Take(t, k) ELSE Take(Take(t, k), Alias(t, k))
    IN  [u EXCEPT !.alias = [h \in Handles |-> IF h = k \/ @[h] = k THEN None ELSE @[h]]]

(* Forget victims as long as the table is Full.                            *)
Shrink(t, Full(_)) ==
    FoldLeft(LAMBDA u, k : IF Full(u) THEN Forget(u, Victim(u)) ELSE u, t, t.order)

(* evictToCapacity, before keys are entered.                               *)
MakeRoom(t, keys) ==
    LET new == Len(SelectSeq(keys, LAMBDA k : ~Has(t, k)))
    IN  Shrink(t, LAMBDA u : u.order # <<>> /\ Len(u.order) + new > Capacity)

-----------------------------------------------------------------------------
(* The file *)

Weight(records) == FoldLeft(LAMBDA sum, r : sum + Size(r), 0, records)

(* What compaction writes: a record per key, with its alias if that is     *)
(* still in the table, and no lone bound keys.                             *)
Lines(t) ==
    FoldLeft(LAMBDA records, k :
                IF Alias(t, k) # None /\ Has(t, Alias(t, k))
                THEN Append(records, [keys |-> <<k, Alias(t, k)>>, disposition |-> t.disposition[k]])
                ELSE IF t.disposition[k] # "bound"
                THEN Append(records, [keys |-> <<k>>, disposition |-> t.disposition[k]])
                ELSE records,
             <<>>, t.order)

Compacted(t, incoming) ==
    Shrink(t, LAMBDA u : Weight(Lines(u)) + incoming > Bytes /\ Len(u.order) > 1)

(* appendDisposition: compact if the record does not fit, then append it.  *)
Record(t, r) ==
    IF Weight(log) + Size(r) > Bytes
    THEN LET u == Compacted(t, Size(r)) IN
         log' = Append(Lines(u), r) /\ table' = Enter(u, r)
    ELSE log' = Append(log, r) /\ table' = Enter(t, r)

(* The checks on a record that is read.                                    *)
Legal(t, r) ==
    /\ \A i \in DOMAIN r.keys :
          LET prior == t.disposition[r.keys[i]] IN
          /\ r.disposition = "not_delivered" => prior \in {"unknown", "none"}
          /\ r.disposition = "unknown" => prior # "unknown"
    /\ Len(r.keys) = 2 => Alias(t, r.keys[1]) \in {None, r.keys[2]}

(* Replay keeps the newest keys, whatever their disposition.               *)
Trim(t) ==
    FoldLeft(LAMBDA u, k : IF Len(u.order) > Capacity THEN Take(u, k) ELSE u, t, t.order)

Replayed ==
    FoldLeft(LAMBDA s, r : IF s.legal /\ Legal(s.table, r)
                           THEN [legal |-> TRUE, table |-> Trim(Enter(s.table, r))]
                           ELSE [s EXCEPT !.legal = FALSE],
             [legal |-> Weight(log) <= Bytes, table |-> Empty], log)

-----------------------------------------------------------------------------
(* Preflight binds a handle to the caller's id.                            *)
BindDispatchAlias(h) ==
    LET keys == <<h, ScalarOf[h]>> IN
    /\ readable /\ table.alias[h] = None
    /\ Record(MakeRoom(table, keys), [keys |-> keys, disposition |-> "bound"])
    /\ UNCHANGED <<readable, pending>>

BeginDispatch(k) ==
    LET keys == KeysOf(table, k) IN
    /\ readable
    /\ \A i \in DOMAIN keys : table.disposition[keys[i]] # "unknown"
    /\ Record(MakeRoom(table, keys), [keys |-> keys, disposition |-> "unknown"])
    /\ pending' = pending \cup {k}
    /\ UNCHANGED readable

SettleNotDelivered(k) ==
    LET keys == KeysOf(table, k) IN
    /\ readable /\ k \in pending
    /\ \A i \in DOMAIN keys : table.disposition[keys[i]] = "unknown"
    /\ Record(table, [keys |-> keys, disposition |-> "not_delivered"])
    /\ pending' = pending \ {k}
    /\ UNCHANGED readable

(* A delivery, a deadline, a lost link: the journal is not told.           *)
Conclude(k) ==
    /\ k \in pending /\ pending' = pending \ {k}
    /\ UNCHANGED <<log, table, readable>>

Restart ==
    /\ readable' = Replayed.legal
    /\ table' = Replayed.table
    /\ pending' = {}
    /\ UNCHANGED log

JournalNext ==
    \/ \E h \in Handles : BindDispatchAlias(h)
    \/ \E k \in Ids : BeginDispatch(k) \/ SettleNotDelivered(k) \/ Conclude(k)
    \/ Restart

JournalSpec == JournalInit /\ [][JournalNext]_journalVars

-----------------------------------------------------------------------------
(* What the broker wrote, by whole appends and compactions, it can read    *)
(* when it starts again ("compacted journal with bound pairs reloads       *)
(* cleanly and preserves associations").                                   *)
CompactedJournalReloads == readable
===============================================================================
