------------------------------ MODULE StateStore ------------------------------
(***************************************************************************)
(* The files behind the state of one extension namespace                   *)
(* (broker/extension-state.ts): a main file that is replaced by a rename,  *)
(* a backup of the file before it, and the broker's cache. The broker may  *)
(* die between any two system calls of a commit and every call may fail.   *)
(*                                                                         *)
(* The temporary file is never read, so only its completion is a step. A   *)
(* power loss can undo a rename whose directory was not synced yet. One    *)
(* broker uses the files at a time (BrokerLifecycle).                      *)
(***************************************************************************)
EXTENDS Naturals

CONSTANTS
    Payloads,
    MaxRevision,      \* bound: revisions
    MaxDamage,        \* bound: files that faults leave unreadable
    None,             \* no file, no value
    Torn              \* a file that does not pass readEnvelope

ASSUME StoreAssumption ==
    /\ MaxRevision \in Nat /\ MaxDamage \in Nat
    /\ None # Torn /\ None \notin Payloads

States == [revision : 0..MaxRevision, payload : Payloads \cup {None}]
Empty == [revision |-> 0, payload |-> None]

ASSUME NoFileIsAState ==
    /\ {None, Torn} \cap States = {}
    /\ None \notin [expected : Nat, payload : Payloads, applied : BOOLEAN]

VARIABLES
    main,             \* content of statePath
    backup,           \* content of backupPath
    replaced,         \* content of statePath before a rename not yet synced
    up,               \* a broker runs
    cache,            \* states.get(namespace)
    pc,               \* where commitState stands
    request,          \* its arguments
    answer,           \* the last result: None, TRUE (committed) or FALSE
    acked,            \* history: the state of the last commit answered TRUE
    damaged           \* history: files left unreadable

storeVars == <<main, backup, replaced, up, cache, pc, request, answer, acked, damaged>>

StoreTypeOK ==
    /\ {main, backup, replaced} \subseteq States \cup {None, Torn}
    /\ up \in BOOLEAN
    /\ cache \in States \cup {None}
    /\ pc \in {"idle", "called", "written", "saved", "renamed"}
    /\ request \in [expected : 0..MaxRevision, payload : Payloads] \cup {None}
    /\ answer \in BOOLEAN \cup {None}
    /\ acked \in States
    /\ damaged \in 0..MaxDamage

StoreInit ==
    /\ main = None /\ backup = None /\ replaced = None
    /\ up = TRUE /\ cache = None
    /\ pc = "idle" /\ request = None /\ answer = None
    /\ acked = Empty /\ damaged = 0

Valid(file) == file \notin {None, Torn}

(* Mutant: the backup is read when it is newer or just there.              *)
ReadableBackupFirst ==
    IF Valid(backup) THEN backup ELSE IF Valid(main) THEN main ELSE Empty

(* What loadState finds without the cache.                                 *)
Readable == IF Valid(main) THEN main ELSE IF Valid(backup) THEN backup ELSE Empty
Loaded == IF cache # None THEN cache ELSE Readable
Cached == IF Loaded = Empty THEN None ELSE Loaded

-----------------------------------------------------------------------------
Load ==
    /\ up /\ pc = "idle"
    /\ cache' = Cached
    /\ UNCHANGED <<main, backup, replaced, up, pc, request, answer, acked, damaged>>

Call(e, p) ==
    /\ up /\ pc = "idle"
    /\ Loaded.revision < MaxRevision
    /\ cache' = Cached
    /\ pc' = "called"
    /\ request' = [expected |-> e, payload |-> p]
    /\ answer' = None
    /\ UNCHANGED <<main, backup, replaced, up, acked, damaged>>

Return(result) ==
    /\ pc' = "idle" /\ request' = None
    /\ answer' = result

(* Revision mismatch, or a write of the temporary file that fails.         *)
Refuse ==
    /\ pc = "called"
    /\ Return(FALSE)
    /\ UNCHANGED <<main, backup, replaced, up, cache, acked, damaged>>

(* Mutant: the state file itself is written.                               *)
WriteInPlace ==
    /\ pc = "called"
    /\ request.expected = Loaded.revision
    /\ pc' = "written"
    /\ main' = Torn
    /\ UNCHANGED <<backup, replaced, up, cache, request, answer, acked, damaged>>

(* The new content is on disk under its temporary name.                    *)
WriteTemp ==
    /\ pc = "called"
    /\ request.expected = Loaded.revision
    /\ pc' = "written"
    /\ UNCHANGED <<main, backup, replaced, up, cache, request, answer, acked, damaged>>

(* A copy that stops in the middle leaves no readable backup.              *)
TearBackup ==
    /\ Valid(main)
    /\ damaged < MaxDamage
    /\ backup' = Torn
    /\ damaged' = damaged + 1

(* Mutant: whatever the state file holds is saved.                         *)
SaveAnything ==
    /\ pc = "written"
    /\ backup' = main
    /\ pc' = "saved"
    /\ UNCHANGED <<main, replaced, up, cache, request, answer, acked, damaged>>

(* Only a readable state file is worth a backup.                           *)
SaveBackup ==
    /\ pc = "written"
    /\ backup' = IF Valid(main) THEN main ELSE backup
    /\ pc' = "saved"
    /\ UNCHANGED <<main, replaced, up, cache, request, answer, acked, damaged>>

SaveBackupFails ==
    /\ pc = "written" /\ Valid(main)
    /\ Return(FALSE)
    /\ TearBackup \/ UNCHANGED <<backup, damaged>>
    /\ UNCHANGED <<main, replaced, up, cache, acked>>

Rename ==
    /\ pc = "saved"
    /\ pc' = "renamed"
    /\ replaced' = main
    /\ main' = [revision |-> Loaded.revision + 1, payload |-> request.payload]
    /\ UNCHANGED <<backup, up, cache, request, answer, acked, damaged>>

RenameFails ==
    /\ pc = "saved"
    /\ Return(FALSE)
    /\ UNCHANGED <<main, backup, replaced, up, cache, acked, damaged>>

(* The directory is synced, the cache updated and the commit answered.     *)
Finish ==
    /\ pc = "renamed"
    /\ cache' = main
    /\ acked' = main
    /\ replaced' = None
    /\ Return(TRUE)
    /\ UNCHANGED <<main, backup, up, damaged>>

-----------------------------------------------------------------------------
(* Faults *)

Down ==
    /\ up
    /\ up' = FALSE /\ cache' = None
    /\ pc' = "idle" /\ request' = None /\ answer' = None
    /\ replaced' = None
    /\ UNCHANGED acked

Die ==
    /\ Down
    /\ UNCHANGED main
    /\ \/ pc = "written" /\ TearBackup
       \/ UNCHANGED <<backup, damaged>>

PowerLoss ==
    /\ Down
    /\ pc = "renamed"
    /\ main' = replaced
    /\ UNCHANGED <<backup, damaged>>

Restart ==
    /\ ~up
    /\ up' = TRUE
    /\ UNCHANGED <<main, backup, replaced, cache, pc, request, answer, acked, damaged>>

(* Somebody else spoils the state file between two commits.                *)
Damage ==
    /\ pc = "idle" /\ Valid(main)
    /\ damaged < MaxDamage
    /\ main' = Torn
    /\ damaged' = damaged + 1
    /\ UNCHANGED <<backup, replaced, up, cache, pc, request, answer, acked>>

StoreNext ==
    \/ Load \/ Refuse \/ WriteTemp \/ SaveBackup \/ SaveBackupFails
    \/ Rename \/ RenameFails \/ Finish
    \/ Die \/ PowerLoss \/ Restart \/ Damage
    \/ \E e \in 0..MaxRevision, p \in Payloads : Call(e, p)

StoreSpec == StoreInit /\ [][StoreNext]_storeVars

-----------------------------------------------------------------------------
(* Properties *)

(* What the next reader gets, from this broker or from the one after it.   *)
Current == IF up /\ pc # "renamed" THEN Loaded ELSE Readable

(* No crash, no failed call and no power loss takes an acknowledged commit *)
(* back, and one unreadable file costs at most one revision.               *)
AcknowledgedSurvives ==
    /\ Current.revision + damaged >= acked.revision
    /\ damaged = 0 /\ Current.revision = acked.revision => Current = acked

(* The store is a compare-and-swap register: the rename decides.           *)
Register == INSTANCE StateRegister WITH
    state <- Current,
    call  <- IF pc = "idle" THEN None
             ELSE [expected |-> request.expected, payload |-> request.payload,
                   applied |-> pc = "renamed"]
StateRegisterRefined == Register!Spec
===============================================================================
