------------------------ MODULE BrokerLifecycle_proofs ------------------------
(***************************************************************************)
(* Theorems about BrokerLifecycle, for any number of clients and brokers:  *)
(* at most one broker listens, the files lead to it, and the module        *)
(* implements RuntimeService.                                              *)
(*                                                                         *)
(* The listed invariants are not inductive: that the socket file names the *)
(* listener follows from who may touch it, so the inductive invariant adds *)
(* LeaseMatchesProgress (the lease is exactly the right to be past the     *)
(* claim) and ForeignBlocksStartup (nobody passes the probe while a        *)
(* server without the lease answers).                                      *)
(***************************************************************************)
EXTENDS BrokerLifecycle, TLAPS

PastProbe == Leased \ {"probing"}

LeaseMatchesProgress == \A b \in Brokers : proc[b] \in Leased <=> lease = b
ListenerNamed == \A b \in Brokers : Listening(b) => path = b
ServerPublished == \A b \in Brokers : proc[b] = "serving" => pidFile = b
ForeignBlocksStartup == foreignUp => \A b \in Brokers : proc[b] \notin PastProbe
JoinedToServing ==
    \A c \in Clients : /\ call[c] = "joined" <=> home[c] # None
                       /\ home[c] # None => proc[home[c]] = "serving"

IInv == /\ TypeOK
        /\ LeaseMatchesProgress
        /\ ListenerNamed
        /\ ServerPublished
        /\ BindNeverCollides
        /\ ForeignServerKeepsItsName
        /\ ForeignBlocksStartup
        /\ JoinedToServing
        /\ IdleIsTimed

USE DEF Alive, Leased, ProcStates, ExitKinds, Pending, CallStates, PastProbe

LEMMA InitIInv == Init => IInv
BY ConstantsAssumption DEF Init, IInv, TypeOK, LeaseMatchesProgress, ListenerNamed, Listening,
   ServerPublished, BindNeverCollides, ForeignServerKeepsItsName, ForeignBlocksStartup,
   JoinedToServing, IdleIsTimed, SessionsOf

(* The facts about files and lease, in one place for the step lemmas.      *)
LEMMA BrokerStepIInv ==
    ASSUME IInv, NEW b \in Brokers, BrokerStep(b)
    PROVE  IInv'
<1> USE ConstantsAssumption DEF IInv, TypeOK, LeaseMatchesProgress, ListenerNamed, Listening,
      ServerPublished, BindNeverCollides, ForeignServerKeepsItsName, ForeignBlocksStartup,
      JoinedToServing, IdleIsTimed, SessionsOf, clientVars, brokerVars
<1>1. CASE ClaimLease(b)
  BY <1>1 DEF ClaimLease
<1>2. CASE ProbeEndpoint(b)
  BY <1>2 DEF ProbeEndpoint, GiveUp, Connectable
<1>3. CASE Construct(b)
  BY <1>3 DEF Construct
<1>4. CASE ConstructFails(b)
  BY <1>4 DEF ConstructFails, GiveUp
<1>5. CASE Listen(b)
  BY <1>5 DEF Listen
<1>6. CASE OnListening(b)
  BY <1>6 DEF OnListening
<1>7. ASSUME proc[b] = "serving", Shutdown(b) PROVE IInv'
  BY <1>7 DEF Shutdown, DropSessions
<1>8. CASE Terminate(b)
  BY <1>7, <1>8 DEF Terminate
<1>9. CASE IdleTimerFires(b)
  <2>1. CASE SessionsOf(b) = {} /\ Shutdown(b)
    BY <1>7, <1>9, <2>1 DEF IdleTimerFires
  <2>2. CASE /\ SessionsOf(b) # {}
             /\ idleTimer' = [idleTimer EXCEPT ![b] = FALSE]
             /\ UNCHANGED <<proc, exit, lease, path, pidFile, foreignUp, clientVars>>
    BY <1>9, <2>2
  <2> QED BY <1>9, <1>7, <2>1, <2>2 DEF IdleTimerFires
<1>10. CASE RemoveSocketFile(b)
  BY <1>10 DEF RemoveSocketFile
<1>11. CASE RemovePidFile(b)
  BY <1>11 DEF RemovePidFile
<1>12. CASE ReleaseAndExit(b)
  BY <1>12 DEF ReleaseAndExit
<1>13. CASE Kill(b)
  BY <1>13 DEF Kill, DropSessions
<1> QED
  BY <1>1, <1>2, <1>3, <1>4, <1>5, <1>6, <1>8, <1>9, <1>10, <1>11, <1>12, <1>13 DEF BrokerStep

LEMMA ClientStepIInv ==
    ASSUME IInv, NEW c \in Clients, ClientStep(c)
    PROVE  IInv'
<1> USE ConstantsAssumption DEF IInv, TypeOK, LeaseMatchesProgress, ListenerNamed, Listening,
      ServerPublished, BindNeverCollides, ForeignServerKeepsItsName, ForeignBlocksStartup,
      JoinedToServing, IdleIsTimed, SessionsOf, clientVars, brokerVars
<1>1. ASSUME NEW s \in CallStates \ {"joined"}, call[c] # "joined", Goto(c, s) PROVE IInv'
  BY <1>1 DEF Goto
<1>2. ASSUME NEW s \in CallStates \ {"joined"}, call[c] # "joined", Settle(c, s) PROVE IInv'
  BY <1>2 DEF Settle, ReleaseStartup
<1>3. CASE SpawnBrokerIfNeeded(c)
  BY <1>1, <1>3 DEF SpawnBrokerIfNeeded
<1>4. CASE CheckAnswered(c)
  BY <1>2, <1>4 DEF CheckAnswered
<1>5. CASE CheckFailed(c)
  BY <1>1, <1>5 DEF CheckFailed
<1>6. CASE TakeStartupLock(c)
  BY <1>1, <1>6 DEF TakeStartupLock
<1>7. ASSUME NEW b \in Brokers, SpawnChild(c, b) PROVE IInv'
  BY <1>7 DEF SpawnChild
<1>8. CASE SpawnError(c)
  BY <1>2, <1>8 DEF SpawnError
<1>9. CASE ChildExited(c)
  BY <1>2, <1>9 DEF ChildExited
<1>10. CASE WaitTimesOut(c)
  BY <1>2, <1>10 DEF WaitTimesOut
<1>11. CASE Register(c)
  BY <1>11 DEF Register, Healthy
<1>12. CASE ConnectRefused(c)
  BY <1>1, <1>12 DEF ConnectRefused
<1>13. CASE Leave(c)
  BY <1>13 DEF Leave
<1>14. CASE ClientDies(c)
  BY <1>2, <1>14 DEF ClientDies
<1> QED
  BY <1>3, <1>4, <1>5, <1>6, <1>7, <1>8, <1>9, <1>10, <1>11, <1>12, <1>13, <1>14 DEF ClientStep

LEMMA StepIInv == IInv /\ [Next]_vars => IInv'
<1> SUFFICES ASSUME IInv, [Next]_vars PROVE IInv'
  OBVIOUS
<1>1. CASE \E b \in Brokers : BrokerStep(b)
  BY <1>1, BrokerStepIInv
<1>2. CASE \E c \in Clients : ClientStep(c)
  BY <1>2, ClientStepIInv
<1>3. CASE ForeignDies
  BY <1>3 DEF ForeignDies, IInv, TypeOK, LeaseMatchesProgress, ListenerNamed, Listening,
      ServerPublished, BindNeverCollides, ForeignServerKeepsItsName, ForeignBlocksStartup,
      JoinedToServing, IdleIsTimed, SessionsOf, clientVars
<1>4. CASE UNCHANGED vars
  BY <1>4 DEF vars, brokerVars, clientVars, IInv, TypeOK, LeaseMatchesProgress, ListenerNamed,
      Listening, ServerPublished, BindNeverCollides, ForeignServerKeepsItsName,
      ForeignBlocksStartup, JoinedToServing, IdleIsTimed, SessionsOf
<1> QED
  BY <1>1, <1>2, <1>3, <1>4 DEF Next

(* The inductive invariant holds in every reachable state.                 *)
THEOREM InductiveInvariant == Spec => []IInv
BY InitIInv, StepIInv, PTL DEF Spec

(* Type correctness of the lifecycle state.                                *)
THEOREM TypeCorrect == Spec => []TypeOK
<1>1. IInv => TypeOK
  BY DEF IInv
<1> QED BY <1>1, InductiveInvariant, PTL

(* No two broker processes ever accept connections together: the race of   *)
(* spawnBrokerIfNeeded callers has one winner, killed owners included.     *)
THEOREM SingleListener == Spec => []AtMostOneListener
<1>1. IInv => AtMostOneListener
  BY DEF IInv, LeaseMatchesProgress, AtMostOneListener, Listening
<1> QED BY <1>1, InductiveInvariant, PTL

(* An exiting or losing broker never erases its successor's socket or pid  *)
(* file (the comment in shutdown()).                                       *)
THEOREM SuccessorKeepsItsFiles == Spec => []ServingIsReachable
<1>1. IInv => ServingIsReachable
  BY DEF IInv, ListenerNamed, ServerPublished, ServingIsReachable, Listening
<1> QED BY <1>1, InductiveInvariant, PTL

(* A listener that never took the lease is not unlinked under it.          *)
THEOREM ForeignServerSafe == Spec => []ForeignServerKeepsItsName
<1>1. IInv => ForeignServerKeepsItsName
  BY DEF IInv
<1> QED BY <1>1, InductiveInvariant, PTL

(* An unused broker always has its idle timer armed.                       *)
THEOREM UnusedBrokerIsTimed == Spec => []IdleIsTimed
<1>1. IInv => IdleIsTimed
  BY DEF IInv
<1> QED BY <1>1, InductiveInvariant, PTL

-----------------------------------------------------------------------------
(* Steps of the lifecycle, seen by its abstraction. *)

LEMMA FilesStep ==
    IInv /\ [Next]_vars
      => ((path' # path \/ pidFile' # pidFile) => lease # None /\ lease' = lease)
<1> SUFFICES ASSUME IInv, [Next]_vars
             PROVE  (path' # path \/ pidFile' # pidFile) => lease # None /\ lease' = lease
  OBVIOUS
<1> USE ConstantsAssumption DEF IInv, TypeOK, LeaseMatchesProgress, brokerVars, clientVars
<1>1. ASSUME NEW b \in Brokers, BrokerStep(b)
      PROVE  (path' # path \/ pidFile' # pidFile) => lease # None /\ lease' = lease
  BY <1>1 DEF BrokerStep, ClaimLease, ProbeEndpoint, GiveUp, Construct, ConstructFails, Listen,
      OnListening, Terminate, IdleTimerFires, Shutdown, RemoveSocketFile, RemovePidFile,
      ReleaseAndExit, Kill
<1>2. ASSUME NEW c \in Clients, ClientStep(c) PROVE UNCHANGED <<path, pidFile>>
  BY <1>2 DEF ClientStep, SpawnBrokerIfNeeded, CheckAnswered, CheckFailed, TakeStartupLock,
      SpawnChild, SpawnError, ChildExited, WaitTimesOut, Register, ConnectRefused, Leave,
      ClientDies, Goto, Settle
<1>3. ForeignDies => UNCHANGED <<path, pidFile>>
  BY DEF ForeignDies
<1> QED
  BY <1>1, <1>2, <1>3 DEF Next, vars

(* The socket and pid files change only in the hands of the leaseholder,   *)
(* which keeps the lease over the change (shutdown's comment: retain       *)
(* ownership until all process artifacts are removed).                     *)
THEOREM FilesGuardedByLease == Spec => FilesChangeUnderLease
BY InductiveInvariant, FilesStep, PTL DEF Spec, FilesChangeUnderLease

LEMMA InitRefines == Init => Service!Init
BY ConstantsAssumption DEF Init, Service!Init, Answering, Gone, Listening

LEMMA ClientStepStutters ==
    ASSUME IInv, NEW c \in Clients, ClientStep(c)
    PROVE  UNCHANGED <<Answering, Gone>>
<1>1. CASE \E b \in Brokers : SpawnChild(c, b)
  BY <1>1 DEF SpawnChild, Answering, Gone, Listening, IInv, TypeOK
<1>2. CASE ~(\E b \in Brokers : SpawnChild(c, b))
  <2>1. UNCHANGED <<proc, path>>
    BY <1>2 DEF ClientStep, SpawnBrokerIfNeeded, CheckAnswered, CheckFailed, TakeStartupLock,
      SpawnError, ChildExited, WaitTimesOut, Register, ConnectRefused, Leave,
      ClientDies, Goto, Settle, brokerVars
  <2> QED BY <2>1 DEF Answering, Gone, Listening
<1> QED BY <1>1, <1>2

(* A broker step is a Begin, an End, an Abandon, or invisible.             *)
LEMMA BrokerStepRefines ==
    ASSUME IInv, NEW b \in Brokers, BrokerStep(b)
    PROVE  \/ Service!Begin(b) \/ Service!End(b) \/ Service!Abandon(b)
           \/ UNCHANGED <<Answering, Gone>>
<1> USE ConstantsAssumption DEF IInv, TypeOK, LeaseMatchesProgress, ListenerNamed, Listening,
      Answering, Gone
<1>1. ASSUME proc[b] \notin {"bound", "serving"}, proc[b] \in Alive,
             proc' = [proc EXCEPT ![b] = "exited"], path' = path
      PROVE  Service!Abandon(b) \/ UNCHANGED <<Answering, Gone>>
  <2>1. Answering' = Answering /\ Answering # b
    BY <1>1
  <2>2. Gone' = Gone \cup {b}
    BY <1>1
  <2>3. CASE b \in Gone
    BY <2>1, <2>2, <2>3
  <2>4. CASE b \notin Gone
    BY <2>1, <2>2, <2>4 DEF Service!Abandon
  <2> QED BY <2>3, <2>4
<1>2. ASSUME proc[b] \in {"bound", "serving"}, proc'[b] \in {"closing", "exited"},
             proc' = [proc EXCEPT ![b] = proc'[b]], path' \in {path, None}
      PROVE  Service!End(b)
  <2>1. Answering = b /\ b \notin Gone
    BY <1>2
  <2>2. Answering' = None
    BY <1>2
  <2>3. Gone' = Gone \cup {b}
    BY <1>2
  <2> QED BY <2>1, <2>2, <2>3 DEF Service!End
<1>3. CASE ClaimLease(b)
  <2>1. CASE lease = None
    BY <1>3, <2>1 DEF ClaimLease
  <2>2. CASE lease # None
    BY <1>1, <1>3, <2>2 DEF ClaimLease
  <2> QED BY <2>1, <2>2
<1>4. ASSUME GiveUp(b), proc[b] \in {"probing", "verified"}
      PROVE  Service!Abandon(b) \/ UNCHANGED <<Answering, Gone>>
  BY <1>1, <1>4 DEF GiveUp
<1>5. CASE ProbeEndpoint(b)
  <2>1. CASE Connectable
    BY <1>4, <1>5, <2>1 DEF ProbeEndpoint
  <2>2. CASE ~Connectable
    BY <1>5, <2>2 DEF ProbeEndpoint
  <2> QED BY <2>1, <2>2
<1>6. CASE Construct(b)
  BY <1>6 DEF Construct
<1>7. CASE ConstructFails(b)
  BY <1>4, <1>7 DEF ConstructFails
<1>8. CASE Listen(b)
  <2>1. Answering = None /\ Answering' = b /\ b \notin Gone /\ Gone' = Gone
    BY <1>8 DEF Listen
  <2> QED BY <2>1 DEF Service!Begin
<1>9. CASE OnListening(b)
  BY <1>9 DEF OnListening
<1>10. ASSUME proc[b] = "serving", Shutdown(b) PROVE Service!End(b)
  BY <1>2, <1>10 DEF Shutdown
<1>11. CASE Terminate(b)
  BY <1>10, <1>11 DEF Terminate
<1>12. CASE IdleTimerFires(b)
  BY <1>10, <1>12 DEF IdleTimerFires
<1>13. CASE RemoveSocketFile(b)
  BY <1>13 DEF RemoveSocketFile
<1>14. CASE RemovePidFile(b)
  BY <1>14 DEF RemovePidFile
<1>15. CASE ReleaseAndExit(b)
  BY <1>15 DEF ReleaseAndExit
<1>16. CASE Kill(b)
  BY <1>1, <1>2, <1>16 DEF Kill
<1> QED
  BY <1>3, <1>5, <1>6, <1>7, <1>8, <1>9, <1>11, <1>12, <1>13, <1>14, <1>15, <1>16 DEF BrokerStep

LEMMA StepRefines == IInv /\ [Next]_vars => [Service!Next]_<<Answering, Gone>>
<1> SUFFICES ASSUME IInv, [Next]_vars PROVE [Service!Next]_<<Answering, Gone>>
  OBVIOUS
<1>1. CASE \E b \in Brokers : BrokerStep(b)
  BY <1>1, BrokerStepRefines DEF Service!Next
<1>2. CASE \E c \in Clients : ClientStep(c)
  BY <1>2, ClientStepStutters
<1>3. CASE ForeignDies
  BY <1>3 DEF ForeignDies, Answering, Gone, Listening
<1>4. CASE UNCHANGED vars
  BY <1>4 DEF vars, brokerVars, Answering, Gone, Listening
<1> QED
  BY <1>1, <1>2, <1>3, <1>4 DEF Next

(* The lifecycle implements the abstract service: one answering broker at  *)
(* a time, and none that stopped answers again.                            *)
THEOREM ImplementsService == Spec => RuntimeServiceRefined
<1>1. Spec => [][Service!Next]_<<Answering, Gone>>
  BY InductiveInvariant, StepRefines, PTL DEF Spec
<1> QED
  BY <1>1, InitRefines, PTL DEF Spec, RuntimeServiceRefined, Service!Spec, Service!vars
=============================================================================
