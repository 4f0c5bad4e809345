--------------------------- MODULE StateStore_proofs ---------------------------
(***************************************************************************)
(* Theorems about StateStore, for any payloads and any number of commits   *)
(* and crashes, as long as at most one file is ever left unreadable: the   *)
(* files are a compare-and-swap register, and acknowledged commits stay.   *)
(*                                                                         *)
(* With two unreadable files both the state file and its backup may be     *)
(* gone, so the assumption is as weak as the code allows. The invariant    *)
(* says how far the backup and the cache may be from the state file at     *)
(* each step of a commit; the checked properties alone are not inductive,  *)
(* since a backup too old only shows when the state file is damaged.       *)
(***************************************************************************)
EXTENDS StateStore, TLAPS

Calls == [expected : 0..MaxRevision, payload : Payloads]

(* What loadState finds without the cache, were "file" the state file.     *)
Read(file) == IF Valid(file) THEN file ELSE IF Valid(backup) THEN backup ELSE Empty

(* The earlier value is the later one or, after a damage, one revision     *)
(* older.                                                                  *)
Follows(later, earlier) ==
    \/ later = earlier
    \/ damaged > 0 /\ later.revision = earlier.revision + 1

(* Were it the state file, "file" would keep what was acknowledged.        *)
Keeps(file) ==
    /\ file = None => acked = Empty /\ (damaged = 0 => backup = None)
    /\ file = Torn => damaged > 0
    /\ Read(file).revision + damaged >= acked.revision
    /\ Valid(file) => file.revision >= acked.revision
    /\ damaged = 0 /\ Read(file).revision = acked.revision => Read(file) = acked

(* A commit under way holds its arguments, and they fit the cache.         *)
CallInProgress ==
    /\ ~up => cache = None /\ pc = "idle"
    /\ pc # "idle" => up /\ request \in Calls
    /\ pc \in {"called", "written", "saved"} => Loaded.revision < MaxRevision
    /\ pc \in {"written", "saved"} => request.expected = Loaded.revision
    /\ pc = "saved" /\ Valid(main) => backup = main

(* After the rename, undoing it loses this commit and no more.             *)
RenameInProgress ==
    pc = "renamed" =>
        /\ Valid(main)
        /\ Keeps(replaced)
        /\ Valid(replaced) => backup = replaced
        /\ \/ main.revision = Read(replaced).revision + 1
           \/ damaged > 0 /\ main.revision = Read(replaced).revision + 2

(* While no file was damaged the backup is one revision behind, or level.  *)
BackupIsNear ==
    /\ damaged = 0 => backup # Torn
    /\ damaged = 0 /\ Valid(main) =>
          \/ backup = main
          \/ main.revision = Read(None).revision + 1

CacheIsNear ==
    /\ cache # Empty
    /\ pc # "renamed" /\ cache # None => Follows(cache, Readable)
    /\ cache # None => cache.revision + damaged >= acked.revision

StoreIInv ==
    /\ StoreTypeOK
    /\ CallInProgress
    /\ Keeps(main)
    /\ RenameInProgress
    /\ BackupIsNear
    /\ CacheIsNear

-----------------------------------------------------------------------------
USE StoreAssumption, NoFileIsAState

LEMMA ReadIsState ==
    ASSUME StoreTypeOK
    PROVE  /\ Empty \in States /\ Empty # None
           /\ \A file \in States \cup {None, Torn} :
                 /\ Read(file) \in States /\ Read(file).revision \in Nat
                 /\ Valid(file) <=> file \in States
           /\ Readable = Read(main)
           /\ Loaded \in States /\ Loaded.revision \in Nat
           /\ damaged \in Nat /\ acked.revision \in Nat
BY DEF StoreTypeOK, States, Empty, Read, Readable, Loaded, Valid

LEMMA InitStoreIInv == StoreInit => StoreIInv
BY DEF StoreInit, StoreIInv, StoreTypeOK, CallInProgress, Keeps, RenameInProgress, BackupIsNear,
       CacheIsNear, States, Empty, Read, Valid, Loaded, Readable

(* Steps that leave the files, and what they do to the cache and the call. *)
LEMMA LoadStoreIInv == StoreIInv /\ Load => StoreIInv'
<1> SUFFICES ASSUME StoreIInv, Load PROVE StoreIInv'
  OBVIOUS
<1>1. StoreTypeOK
  BY DEF StoreIInv
<1>2. Loaded \in States /\ damaged \in Nat
  BY <1>1, ReadIsState
<1>3. cache' \in States \cup {None} /\ Loaded' = Loaded /\ Readable' = Readable
  BY <1>2 DEF Load, Cached, Loaded, Readable, Valid, StoreIInv, CacheIsNear
<1>4. StoreTypeOK'
  BY <1>1, <1>3 DEF Load, StoreTypeOK
<1>5. CallInProgress' /\ Keeps(main)' /\ RenameInProgress' /\ BackupIsNear'
  BY <1>3 DEF Load, StoreIInv, CallInProgress, Keeps, RenameInProgress, BackupIsNear, Read, Valid
<1>6. CacheIsNear'
  BY <1>3, <1>1, ReadIsState DEF Load, Cached, Loaded, StoreIInv, CacheIsNear, Follows, Keeps
<1> QED BY <1>4, <1>5, <1>6 DEF StoreIInv

LEMMA CallStoreIInv ==
    ASSUME StoreIInv, NEW e \in 0..MaxRevision, NEW p \in Payloads, Call(e, p)
    PROVE  StoreIInv'
<1>1. StoreTypeOK
  BY DEF StoreIInv
<1>2. Loaded \in States /\ damaged \in Nat
  BY <1>1, ReadIsState
<1>3. cache' \in States \cup {None} /\ Loaded' = Loaded /\ Readable' = Readable
  BY <1>2 DEF Call, Cached, Loaded, Readable, Valid, StoreIInv, CacheIsNear
<1>4. StoreTypeOK'
  BY <1>1, <1>3 DEF Call, StoreTypeOK
<1>5. CallInProgress' /\ Keeps(main)' /\ RenameInProgress' /\ BackupIsNear'
  BY <1>3 DEF Call, Calls, StoreIInv, CallInProgress, Keeps, RenameInProgress, BackupIsNear, Read, Valid
<1>6. CacheIsNear'
  BY <1>3, <1>1, ReadIsState DEF Call, Cached, Loaded, StoreIInv, CacheIsNear, Follows, Keeps
<1> QED BY <1>4, <1>5, <1>6 DEF StoreIInv

(* A call that returns, or a step before the rename, leaves the files as a *)
(* new reader sees them.                                                   *)
LEMMA RefuseStoreIInv == StoreIInv /\ (Refuse \/ RenameFails) => StoreIInv'
<1> SUFFICES ASSUME StoreIInv, Refuse \/ RenameFails PROVE StoreIInv'
  OBVIOUS
<1>1. /\ pc' = "idle" /\ request' = None /\ answer' = FALSE /\ pc \in {"called", "saved"}
      /\ UNCHANGED <<main, backup, replaced, up, cache, acked, damaged>>
  BY DEF Refuse, RenameFails, Return
<1>2. Loaded' = Loaded /\ Readable' = Readable /\ Read(main)' = Read(main) /\ Read(None)' = Read(None)
  BY <1>1 DEF Loaded, Readable, Read, Valid
<1>3. StoreTypeOK'
  BY <1>1 DEF StoreIInv, StoreTypeOK
<1>4. CallInProgress'
  BY <1>1 DEF StoreIInv, CallInProgress
<1>5. Keeps(main)'
  BY <1>1, <1>2 DEF StoreIInv, Keeps, Valid
<1>6. RenameInProgress'
  BY <1>1 DEF RenameInProgress
<1>7. BackupIsNear'
  BY <1>1, <1>2 DEF StoreIInv, BackupIsNear, Valid
<1>8. CacheIsNear'
  BY <1>1, <1>2 DEF StoreIInv, CacheIsNear, Follows
<1> QED BY <1>3, <1>4, <1>5, <1>6, <1>7, <1>8 DEF StoreIInv

LEMMA WriteTempStoreIInv == StoreIInv /\ WriteTemp => StoreIInv'
BY DEF WriteTemp, StoreIInv, StoreTypeOK, CallInProgress, Keeps,
       RenameInProgress, BackupIsNear, CacheIsNear, Follows, Loaded, Readable, Read, Valid

LEMMA RestartStoreIInv == StoreIInv /\ Restart => StoreIInv'
BY DEF Restart, StoreIInv, StoreTypeOK, CallInProgress, Keeps,
       RenameInProgress, BackupIsNear, CacheIsNear, Follows, Loaded, Readable, Read, Valid

LEMMA SaveBackupStoreIInv == StoreIInv /\ SaveBackup => StoreIInv'
BY DEF SaveBackup, StoreIInv, StoreTypeOK, CallInProgress, Keeps,
       RenameInProgress, BackupIsNear, CacheIsNear, Follows, Loaded, Readable, Read, Valid

(* The backup is only torn while the state file is readable.               *)
LEMMA SaveBackupFailsStoreIInv ==
    ASSUME StoreIInv, SaveBackupFails, MaxDamage <= 1
    PROVE  StoreIInv'
<1>1. CASE UNCHANGED <<backup, damaged>>
  BY <1>1 DEF SaveBackupFails, Return, StoreIInv, StoreTypeOK, CallInProgress, Keeps,
       RenameInProgress, BackupIsNear, CacheIsNear, Follows, Loaded, Readable, Read, Valid
<1>2. CASE TearBackup
  <2>1. /\ StoreTypeOK /\ main \in States /\ Valid(main)
        /\ damaged = 0 /\ damaged' = 1 /\ backup' = Torn /\ UNCHANGED main
    BY <1>2, ReadIsState DEF SaveBackupFails, TearBackup, StoreIInv, StoreTypeOK, Valid
  <2>2. Read(main) = main /\ Read(main)' = main /\ Loaded' = Loaded /\ Readable' = Readable
    BY <2>1 DEF SaveBackupFails, Read, Loaded, Readable, Valid
  <2>3. StoreTypeOK'
    <3>1. damaged' \in 0..MaxDamage
      BY <1>2, <2>1 DEF TearBackup
    <3> QED BY <2>1, <3>1 DEF SaveBackupFails, Return, StoreTypeOK
  <2>4. Keeps(main)'
    BY <2>1, <2>2, ReadIsState DEF SaveBackupFails, StoreIInv, Keeps, Valid
  <2>5. CallInProgress' /\ RenameInProgress' /\ BackupIsNear'
    BY <2>1, <2>2 DEF SaveBackupFails, Return, StoreIInv, CallInProgress, RenameInProgress, BackupIsNear
  <2>6. CacheIsNear'
    <3>1. cache # None => cache.revision \in Nat /\ acked.revision \in Nat
      BY <2>1, ReadIsState DEF StoreTypeOK, States
    <3> QED BY <2>1, <2>2, <3>1 DEF SaveBackupFails, StoreIInv, CacheIsNear, Follows
  <2> QED BY <2>3, <2>4, <2>5, <2>6 DEF StoreIInv
<1> QED BY <1>1, <1>2 DEF SaveBackupFails

LEMMA RenameStoreIInv ==
    ASSUME StoreIInv, Rename, MaxDamage <= 1
    PROVE  StoreIInv'
<1>1. /\ StoreTypeOK
      /\ Loaded \in States /\ Loaded.revision \in Nat /\ Loaded.revision < MaxRevision
      /\ damaged \in Nat /\ acked.revision \in Nat
      /\ Readable = Read(main) /\ Readable.revision \in Nat
  BY ReadIsState DEF StoreIInv, Rename, CallInProgress, StoreTypeOK
<1>2. /\ main' \in States /\ main'.revision = Loaded.revision + 1 /\ Valid(main)' /\ main' # Empty
  BY <1>1 DEF Rename, StoreIInv, CallInProgress, Calls, States, Valid, Empty
<1>3. Loaded = Readable \/ (damaged > 0 /\ Loaded.revision = Readable.revision + 1)
  BY <1>1 DEF Rename, StoreIInv, CacheIsNear, Follows, Loaded
<1>4. Loaded.revision + damaged >= acked.revision
  BY <1>1 DEF Rename, StoreIInv, CacheIsNear, Keeps, Loaded
<1>5. StoreTypeOK'
  BY <1>1, <1>2 DEF Rename, StoreTypeOK
<1>6. Keeps(main)'
  <2>1. damaged' = damaged /\ acked' = acked /\ Read(main)' = main'
    BY <1>2 DEF Rename, Read, Valid
  <2>2. damaged = 0 => main'.revision > acked.revision
    BY <1>1, <1>2, <1>4
  <2>3. MaxDamage <= 1 => main'.revision >= acked.revision
    BY <1>1, <1>2, <1>4 DEF StoreTypeOK
  <2> QED BY <1>1, <1>2, <1>4, <2>1, <2>2, <2>3 DEF Keeps, Valid
<1>7. RenameInProgress'
  BY <1>1, <1>2, <1>3 DEF Rename, StoreIInv, CallInProgress, RenameInProgress, Keeps, Read, Valid
<1>8. BackupIsNear'
  BY <1>1, <1>2, <1>3 DEF Rename, StoreIInv, BackupIsNear, CallInProgress, Keeps, Read, Valid, Readable
<1> QED BY <1>5, <1>6, <1>7, <1>8 DEF Rename, StoreIInv, CallInProgress, CacheIsNear
LEMMA FinishStoreIInv == StoreIInv /\ Finish => StoreIInv'
<1> SUFFICES ASSUME StoreIInv, Finish PROVE StoreIInv'
  OBVIOUS
<1>1. /\ StoreTypeOK /\ main \in States /\ Valid(main) /\ main.revision \in Nat
      /\ damaged \in Nat /\ main.revision >= 1
      /\ Read(replaced).revision \in Nat
  <2>1. StoreTypeOK /\ Valid(main)
    BY DEF StoreIInv, Finish, RenameInProgress
  <2>2. main \in States /\ damaged \in Nat /\ Read(replaced).revision \in Nat
    BY <2>1, ReadIsState DEF StoreTypeOK
  <2> QED BY <2>1, <2>2 DEF StoreIInv, Finish, RenameInProgress, States
<1>2. StoreTypeOK'
  BY <1>1 DEF Finish, Return, StoreTypeOK
<1>3. CallInProgress' /\ Keeps(main)' /\ RenameInProgress'
  BY <1>1 DEF Finish, Return, StoreIInv, CallInProgress, Keeps, RenameInProgress, Read, Valid
<1>4. BackupIsNear'
  BY DEF Finish, StoreIInv, BackupIsNear, Read, Valid
<1>5. CacheIsNear'
  BY <1>1 DEF Finish, CacheIsNear, Follows, Readable, Valid, Empty
<1> QED BY <1>2, <1>3, <1>4, <1>5 DEF StoreIInv

(* Faults. The next broker reads the files without a cache.                *)
LEMMA DieStoreIInv ==
    ASSUME StoreIInv, Die, MaxDamage <= 1
    PROVE  StoreIInv'
<1>1. StoreTypeOK
  BY DEF StoreIInv
<1>2. CASE UNCHANGED <<backup, damaged>>
  <2>1. StoreTypeOK'
    BY <1>1, <1>2 DEF Die, Down, StoreTypeOK
  <2>2. Keeps(main)' /\ BackupIsNear'
    BY <1>2 DEF Die, Down, StoreIInv, Keeps, BackupIsNear, Read, Valid
  <2>3. CallInProgress' /\ RenameInProgress' /\ CacheIsNear'
    BY <1>1, ReadIsState DEF Die, Down, CallInProgress, RenameInProgress, CacheIsNear
  <2> QED BY <2>1, <2>2, <2>3 DEF StoreIInv
<1>3. CASE pc = "written" /\ TearBackup
  <2>1. /\ main \in States /\ Valid(main)
        /\ damaged = 0 /\ damaged' = 1 /\ backup' = Torn /\ UNCHANGED main
    BY <1>1, <1>3, ReadIsState DEF Die, TearBackup, StoreTypeOK, Valid
  <2>2. StoreTypeOK'
    <3>1. damaged' \in 0..MaxDamage
      BY <1>3, <2>1 DEF TearBackup
    <3> QED BY <1>1, <2>1, <3>1 DEF Die, Down, StoreTypeOK
  <2>3. Read(main) = main /\ Read(main)' = main
    BY <2>1 DEF Read, Valid
  <2>4. Keeps(main)'
    BY <1>1, <2>1, <2>3, ReadIsState DEF Die, Down, StoreIInv, Keeps, Valid
  <2>5. CallInProgress' /\ RenameInProgress' /\ BackupIsNear' /\ CacheIsNear'
    BY <1>1, <2>1, ReadIsState DEF Die, Down, CallInProgress, RenameInProgress, BackupIsNear, CacheIsNear
  <2> QED BY <2>2, <2>4, <2>5 DEF StoreIInv
<1> QED BY <1>2, <1>3 DEF Die

LEMMA PowerLossStoreIInv == StoreIInv /\ PowerLoss => StoreIInv'
<1> SUFFICES ASSUME StoreIInv, PowerLoss PROVE StoreIInv'
  OBVIOUS
<1>1. StoreTypeOK'
  BY DEF StoreIInv, PowerLoss, Down, StoreTypeOK
<1>2. Keeps(main)' /\ BackupIsNear'
  BY DEF StoreIInv, PowerLoss, Down, RenameInProgress, Keeps, BackupIsNear, Read, Valid
<1>3. CallInProgress' /\ RenameInProgress' /\ CacheIsNear'
  BY ReadIsState DEF StoreIInv, PowerLoss, Down, CallInProgress, RenameInProgress, CacheIsNear
<1> QED BY <1>1, <1>2, <1>3 DEF StoreIInv

LEMMA DamageStoreIInv ==
    ASSUME StoreIInv, Damage, MaxDamage <= 1
    PROVE  StoreIInv'
<1>1. /\ StoreTypeOK /\ main \in States /\ main.revision \in Nat /\ Valid(main) /\ ~Valid(main)'
      /\ damaged = 0 /\ damaged' = 1 /\ main' = Torn /\ backup # Torn
      /\ Read(None) \in States /\ Read(None).revision \in Nat /\ acked.revision \in Nat
  <2>1. StoreTypeOK
    BY DEF StoreIInv
  <2>2. damaged = 0 /\ damaged' = 1
    BY <2>1 DEF Damage, StoreTypeOK
  <2> QED BY <2>1, <2>2, ReadIsState DEF Damage, StoreTypeOK, Valid, StoreIInv, BackupIsNear, States
<1>2. /\ Read(main) = main /\ Read(main)' = Read(None) /\ Readable' = Read(None)
      /\ Readable = main
  BY <1>1 DEF Damage, Read, Readable, Valid
<1>3. Read(None) = main \/ main.revision = Read(None).revision + 1
  BY <1>1 DEF StoreIInv, BackupIsNear, Read, Valid
<1>4. main.revision >= acked.revision
  BY <1>1 DEF StoreIInv, Keeps
<1>5. StoreTypeOK'
  BY <1>1 DEF Damage, StoreTypeOK
<1>6. Keeps(main)'
  BY <1>1, <1>2, <1>3, <1>4 DEF Damage, Keeps
<1>7. CacheIsNear'
  <2>1. cache # None => cache = main
    BY <1>1, <1>2 DEF Damage, StoreIInv, CacheIsNear, Follows
  <2> QED BY <1>1, <1>2, <1>3, <1>4, <2>1 DEF Damage, StoreIInv, CacheIsNear, Follows
<1>8. CallInProgress' /\ RenameInProgress' /\ BackupIsNear'
  BY <1>1 DEF Damage, StoreIInv, CallInProgress, RenameInProgress, BackupIsNear
<1> QED BY <1>5, <1>6, <1>7, <1>8 DEF StoreIInv

LEMMA NextStoreIInv ==
    ASSUME StoreIInv, [StoreNext]_storeVars, MaxDamage <= 1
    PROVE  StoreIInv'
<1>1. CASE UNCHANGED storeVars
  BY <1>1 DEF storeVars, StoreIInv, StoreTypeOK, CallInProgress, Keeps, RenameInProgress,
              BackupIsNear, CacheIsNear, Follows, Loaded, Readable, Read, Valid
<1> QED BY <1>1, LoadStoreIInv, CallStoreIInv, RefuseStoreIInv, WriteTempStoreIInv,
           RestartStoreIInv, SaveBackupStoreIInv, SaveBackupFailsStoreIInv, RenameStoreIInv,
           FinishStoreIInv, DieStoreIInv, PowerLossStoreIInv, DamageStoreIInv DEF StoreNext

(* The strengthened invariant holds in every reachable state.              *)
THEOREM StoreInvariant ==
    ASSUME MaxDamage <= 1
    PROVE  StoreSpec => []StoreIInv
<1>1. StoreIInv /\ [StoreNext]_storeVars => StoreIInv'
  BY NextStoreIInv
<1> QED BY <1>1, InitStoreIInv, PTL DEF StoreSpec
(* Types hold on the way.                                                  *)
THEOREM StoreTypeCorrect ==
    ASSUME MaxDamage <= 1
    PROVE  StoreSpec => []StoreTypeOK
<1>1. StoreIInv => StoreTypeOK
  BY DEF StoreIInv
<1> QED BY <1>1, StoreInvariant, PTL

(* commitState: what was answered as committed is what the next reader     *)
(* gets, or one revision less after a file became unreadable.              *)
THEOREM CommitsSurvive ==
    ASSUME MaxDamage <= 1
    PROVE  StoreSpec => []AcknowledgedSurvives
<1>1. ASSUME StoreIInv PROVE AcknowledgedSurvives
  <2>1. /\ StoreTypeOK /\ Readable = Read(main) /\ damaged \in Nat
        /\ Loaded.revision \in Nat /\ Readable.revision \in Nat /\ acked.revision \in Nat
    BY <1>1, ReadIsState DEF StoreIInv, StoreTypeOK
  <2>2. CASE Current = Readable
    BY <1>1, <2>1, <2>2 DEF StoreIInv, Keeps, AcknowledgedSurvives
  <2>3. CASE Current # Readable
    <3>1. pc # "renamed" /\ cache # None /\ Current = cache
      BY <2>3 DEF Current, Loaded
    <3>2. damaged > 0
      BY <1>1, <2>3, <3>1 DEF StoreIInv, CacheIsNear, Follows
    <3> QED BY <1>1, <2>1, <3>1, <3>2 DEF StoreIInv, CacheIsNear, AcknowledgedSurvives
  <2> QED BY <2>2, <2>3
<1> QED BY <1>1, StoreInvariant, PTL

-----------------------------------------------------------------------------
(* The refinement: state is what the next reader gets; the rename commits. *)

LEMMA CurrentIsState ==
    ASSUME StoreIInv
    PROVE  /\ Current \in States /\ Current.revision \in Nat
           /\ Current = Readable \/ (damaged > 0 /\ Current.revision = Readable.revision + 1)
           /\ Readable \in States /\ Readable.revision \in Nat /\ Readable = Read(main)
           /\ damaged \in Nat
<1>1. /\ Loaded \in States /\ Readable \in States /\ Readable = Read(main) /\ damaged \in Nat
      /\ Loaded.revision \in Nat /\ Readable.revision \in Nat
  BY ReadIsState DEF StoreIInv, StoreTypeOK
<1>2. Current = Readable \/ (damaged > 0 /\ Current.revision = Readable.revision + 1)
  BY <1>1 DEF StoreIInv, CacheIsNear, Follows, Current, Loaded
<1> QED BY <1>1, <1>2 DEF Current

(* The commit under way, as the register sees it.                          *)
AbstractCall == IF pc = "idle" THEN None
                ELSE [expected |-> request.expected, payload |-> request.payload,
                      applied |-> pc = "renamed"]

LEMMA AbstractCallIsACall ==
    ASSUME StoreIInv, pc # "idle"
    PROVE  /\ AbstractCall # None
           /\ AbstractCall = [expected |-> request.expected, payload |-> request.payload,
                              applied |-> IF pc = "renamed" THEN TRUE ELSE FALSE]
<1>1. request.expected \in Nat /\ request.payload \in Payloads
  BY DEF StoreIInv, CallInProgress, Calls
<1>2. (pc = "renamed") = (IF pc = "renamed" THEN TRUE ELSE FALSE)
  OBVIOUS
<1>3. AbstractCall = [expected |-> request.expected, payload |-> request.payload,
                      applied |-> IF pc = "renamed" THEN TRUE ELSE FALSE]
  BY <1>2, Zenon DEF AbstractCall
<1>4. AbstractCall \in [expected : Nat, payload : Payloads, applied : BOOLEAN]
  BY <1>1, <1>3
<1> QED BY <1>3, <1>4

LEMMA LoadedStays ==
    ASSUME StoreIInv, Load \/ \E e \in 0..MaxRevision, p \in Payloads : Call(e, p)
    PROVE  Current' = Current
<1>1. Loaded \in States
  BY ReadIsState DEF StoreIInv
<1>2. Loaded' = Loaded
  BY <1>1 DEF Load, Call, Cached, Loaded, Readable, Valid, StoreIInv, CacheIsNear
<1> QED BY <1>2 DEF Load, Call, Current

LEMMA BeginStep ==
    ASSUME StoreIInv, NEW e \in 0..MaxRevision, NEW p \in Payloads, Call(e, p)
    PROVE  Register!Begin
<1>1. Current' = Current /\ AbstractCall = None
  BY LoadedStays DEF Call, AbstractCall
<1>2. AbstractCall' = [expected |-> e, payload |-> p, applied |-> FALSE]
  <2>1. pc' = "called" /\ request'.expected = e /\ request'.payload = p
    BY DEF Call
  <2>2. (pc' = "renamed") = FALSE
    BY <2>1
  <2> QED BY <2>1, <2>2, Zenon DEF AbstractCall
<1>3. AbstractCall' \in [expected : Nat, payload : Payloads, applied : {FALSE}]
  BY <1>2
<1> QED BY <1>1, <1>3 DEF Call, Register!Begin, AbstractCall

LEMMA ApplyStep ==
    ASSUME StoreIInv, Rename, StoreIInv'
    PROVE  Register!Apply
<1>1. Current = Loaded /\ request.expected = Loaded.revision /\ pc = "saved"
  BY DEF StoreIInv, CallInProgress, Rename, Current
<1>2. Current' = main'
  BY DEF StoreIInv, RenameInProgress, Rename, Current, Readable
<1>3. main' = [revision |-> Current.revision + 1, payload |-> request.payload]
  BY <1>1 DEF Rename
<1>4. AbstractCall # None /\ AbstractCall = [expected |-> request.expected,
                                            payload |-> request.payload, applied |-> FALSE]
  BY <1>1, AbstractCallIsACall
<1>5. AbstractCall' = [expected |-> request.expected,
                       payload |-> request.payload, applied |-> TRUE]
  <2>1. pc' = "renamed" /\ request' = request
    BY DEF Rename
  <2>2. (pc' = "renamed") = TRUE
    BY <2>1
  <2> QED BY <2>1, <2>2, Zenon DEF AbstractCall
<1>6. AbstractCall' = [AbstractCall EXCEPT !.applied = TRUE]
  <2> DEFINE Set(v) == [AbstractCall EXCEPT !.applied = v]
             With(v) == [expected |-> request.expected, payload |-> request.payload, applied |-> v]
  <2>1. PICK old : AbstractCall = With(old)
    BY <1>4
  <2>2. \A v : Set(v) = With(v)
    BY <2>1
  <2>3. AbstractCall' = With(TRUE)
    BY <1>5
  <2> HIDE DEF Set, With
  <2>4. AbstractCall' = Set(TRUE)
    BY <2>2, <2>3
  <2> QED BY <2>4 DEF Set
<1> QED BY <1>1, <1>2, <1>3, <1>4, <1>6 DEF Rename, Register!Apply, AbstractCall
LEMMA AnswerStep ==
    ASSUME StoreIInv, Refuse \/ RenameFails \/ SaveBackupFails \/ Finish
    PROVE  Register!Answer
<1>1. pc # "idle" /\ pc' = "idle"
  BY DEF Refuse, RenameFails, SaveBackupFails, Finish, Return
<1>2. AbstractCall # None /\ AbstractCall' = None
      /\ AbstractCall.applied = (IF pc = "renamed" THEN TRUE ELSE FALSE)
  BY <1>1, AbstractCallIsACall DEF AbstractCall
<1>3. answer' = AbstractCall.applied
  <2>1. CASE Finish
    <3>1. pc = "renamed" /\ answer' = TRUE
      BY <2>1 DEF Finish, Return
    <3> QED BY <1>2, <3>1
  <2>2. CASE Refuse \/ RenameFails \/ SaveBackupFails
    <3>1. pc # "renamed" /\ answer' = FALSE
      BY <2>2 DEF Refuse, RenameFails, SaveBackupFails, Return
    <3> QED BY <1>2, <3>1
  <2> QED BY <2>1, <2>2
<1>4. Current' = Current
  BY DEF Refuse, RenameFails, SaveBackupFails, Finish, Return, TearBackup, Current, Loaded,
         Readable, Valid, StoreIInv, RenameInProgress
<1>5. damaged' \in {damaged, damaged + 1}
  BY DEF Refuse, RenameFails, SaveBackupFails, Finish, TearBackup
<1> QED BY <1>2, <1>3, <1>4, <1>5 DEF Register!Answer, AbstractCall

LEMMA DamageStep ==
    ASSUME StoreIInv, Damage, StoreIInv', MaxDamage <= 1
    PROVE  Register!Damage
<1>1. /\ damaged = 0 /\ damaged' = 1 /\ Valid(main) /\ ~Valid(main)'
      /\ UNCHANGED <<up, pc, cache, backup>> /\ pc = "idle"
  BY DEF Damage, StoreIInv, StoreTypeOK, Valid
<1>2. Readable = main /\ Readable' = Read(None)
  BY <1>1 DEF Readable, Read, Valid
<1>3. Read(None) = main \/ main.revision = Read(None).revision + 1
  BY <1>1 DEF StoreIInv, BackupIsNear, Read, Valid
<1>4. CASE Current' = Current
  BY <1>4, <1>1 DEF Damage, Register!Damage
<1>5. CASE Current' # Current
  <2>1. Current = Readable /\ Current' = Readable'
    BY <1>1, <1>5 DEF Current, Loaded
  <2>2. Current'.revision = Current.revision - 1
    <3>1. Read(None).revision \in Nat
      BY ReadIsState DEF StoreIInv
    <3> QED BY <1>2, <1>3, <1>5, <2>1, <3>1
  <2> QED BY <1>1, <2>2, CurrentIsState DEF Damage, Register!Damage
<1> QED BY <1>4, <1>5

(* A crash costs the commit under way if power fails, and one revision if  *)
(* a file was unreadable.                                                  *)
LEMMA CrashStep ==
    ASSUME StoreIInv, Die \/ PowerLoss, StoreIInv', MaxDamage <= 1
    PROVE  Register!Crash
<1>1. AbstractCall' = None /\ answer' = None /\ Current' = Readable'
  BY DEF Die, PowerLoss, Down, AbstractCall, Current, Loaded
<1>2. damaged' \in {damaged, damaged + 1}
  BY DEF Die, PowerLoss, TearBackup
<1>3. Register!Costs = IF damaged > 0 THEN {0, 1} ELSE {0}
  BY DEF Register!Costs
<1>4. 0 \in Register!Undoable /\ 0 \in Register!Costs
  BY DEF Register!Undoable, Register!Costs
<1>5. CASE Die
  <2>1. Readable' = Readable
    BY <1>5 DEF Die, Down, TearBackup, Readable, Valid
  <2>2. CASE Current = Readable
    <3>1. Current'.revision + 0 + 0 = Current.revision /\ Current' = Current
      BY <1>1, <2>1, <2>2, CurrentIsState
    <3> QED BY <1>1, <1>2, <1>4, <3>1 DEF Register!Crash, AbstractCall
  <2>3. CASE damaged > 0 /\ Current.revision = Readable.revision + 1
    <3>1. Current'.revision + 0 + 1 = Current.revision
      BY <1>1, <2>1, <2>3, CurrentIsState
    <3>2. 1 \in Register!Costs
      BY <1>3, <2>3
    <3> QED BY <1>1, <1>2, <1>4, <3>1, <3>2 DEF Register!Crash, AbstractCall
  <2> QED BY <2>2, <2>3, CurrentIsState
<1>6. CASE PowerLoss
  <2>1. pc = "renamed" /\ Current = main /\ Readable' = Read(replaced)
    BY <1>6 DEF PowerLoss, Down, StoreIInv, RenameInProgress, Current, Readable, Read, Valid
  <2>2. 1 \in Register!Undoable
    <3>1. AbstractCall # None /\ AbstractCall.applied
      BY <2>1, AbstractCallIsACall
    <3> QED BY <3>1 DEF Register!Undoable, AbstractCall
  <2>3. Current' \in States /\ Current'.revision \in Nat
    BY CurrentIsState DEF StoreIInv, StoreTypeOK, States, Current, Loaded, Readable, Valid, Empty
  <2>4. CASE main.revision = Read(replaced).revision + 1
    <3>1. Current'.revision + 1 + 0 = Current.revision
      BY <1>1, <2>1, <2>3, <2>4
    <3> QED BY <1>1, <1>2, <1>4, <2>2, <3>1 DEF Register!Crash, AbstractCall
  <2>5. CASE damaged > 0 /\ main.revision = Read(replaced).revision + 2
    <3>1. Current'.revision + 1 + 1 = Current.revision
      BY <1>1, <2>1, <2>3, <2>5
    <3>2. 1 \in Register!Costs
      BY <1>3, <2>5
    <3> QED BY <1>1, <1>2, <2>2, <3>1, <3>2 DEF Register!Crash, AbstractCall
  <2> QED BY <2>1, <2>4, <2>5 DEF StoreIInv, RenameInProgress
<1> QED BY <1>5, <1>6

(* The files of a namespace are a compare-and-swap register: every system  *)
(* call, failure, crash and power loss is a step of it or none at all.     *)
THEOREM StoreIsARegister ==
    ASSUME MaxDamage <= 1
    PROVE  StoreSpec => StateRegisterRefined
<1>1. StoreInit => Register!Init
  BY DEF StoreInit, Register!Init, Current, Loaded, Readable, Valid, Empty
<1>2. ASSUME StoreIInv, StoreIInv', [StoreNext]_storeVars
      PROVE  [Register!Next]_Register!vars
  <2>1. CASE Load \/ Restart \/ WriteTemp \/ SaveBackup \/ UNCHANGED storeVars
    <3>1. Current' = Current
      <4>1. CASE Load
        BY <1>2, <4>1, LoadedStays
      <4>2. CASE ~Load
        BY <1>2, <2>1, <4>2 DEF Restart, WriteTemp, SaveBackup, storeVars, Current, Loaded,
           Readable, Valid, StoreIInv, CallInProgress
      <4> QED BY <4>1, <4>2
    <3>2. AbstractCall' = AbstractCall /\ UNCHANGED <<answer, damaged>>
      BY <2>1 DEF Load, Restart, WriteTemp, SaveBackup, storeVars, AbstractCall
    <3> QED BY <3>1, <3>2 DEF Register!vars, AbstractCall
  <2>2. CASE Refuse \/ RenameFails \/ SaveBackupFails \/ Finish
    BY <1>2, <2>2, AnswerStep DEF Register!Next
  <2>3. CASE Rename
    BY <1>2, <2>3, ApplyStep DEF Register!Next
  <2>4. CASE Die \/ PowerLoss
    BY <1>2, <2>4, CrashStep DEF Register!Next
  <2>5. CASE Damage
    BY <1>2, <2>5, DamageStep DEF Register!Next
  <2>6. CASE \E e \in 0..MaxRevision, p \in Payloads : Call(e, p)
    BY <1>2, <2>6, BeginStep DEF Register!Next
  <2> QED BY <1>2, <2>1, <2>2, <2>3, <2>4, <2>5, <2>6 DEF StoreNext
<1> QED BY <1>1, <1>2, StoreInvariant, PTL DEF StoreSpec, StateRegisterRefined, Register!Spec
=============================================================================
