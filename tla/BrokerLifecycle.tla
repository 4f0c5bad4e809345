--------------------------- MODULE BrokerLifecycle ---------------------------
(***************************************************************************)
(* How the one broker of a computer comes up and goes away:                *)
(*   - clients race to start it (broker/spawn.ts, spawnBrokerIfNeeded),    *)
(*     serialised by the advisory startup lock that Bun hosts skip;        *)
(*   - a starting broker takes the kernel-held ownership lock, refuses an  *)
(*     endpoint somebody still answers, removes the stale socket file and  *)
(*     listens (broker/runtime-claim.ts, runtime.ts constructor, start);   *)
(*   - the idle timer or a signal shuts it down: listener first, then the  *)
(*     socket and pid files BY NAME, and only then the lease               *)
(*     (runtime.ts shutdown);                                              *)
(*   - any process may be killed: the kernel frees its locks, its files    *)
(*     stay behind.                                                        *)
(* Every system call that another process can observe is a step of its     *)
(* own. The transport is the Unix socket; the peer connections that also   *)
(* keep a broker alive belong to the federation component.                 *)
(***************************************************************************)
EXTENDS FiniteSets

CONSTANTS
    Clients,      \* processes that call spawnBrokerIfNeeded
    Lockless,     \* the ones that skip the startup lock (Bun hosts)
    Brokers,      \* broker processes that can be spawned, each at most once
    Foreign,      \* a server at the endpoint that never took the lease
    None

ASSUME ConstantsAssumption ==
    /\ Lockless \subseteq Clients
    /\ None \notin Brokers \cup Clients
    /\ Foreign \notin Brokers \cup {None}

VARIABLES
    proc,         \* per broker process: how far it has come
    exit,         \* how an exited broker ended
    lease,        \* holder of the broker.ownership kernel lock
    path,         \* whose listening socket the socket file names
    pidFile,      \* the pid published in broker.pid
    foreignUp,    \* the foreign server still accepts connections
    idleTimer,    \* per broker: the 5 s shutdown timer is armed
    startupLock,  \* holder of the client-side startup lock
    call,         \* per client: where it is in spawnBrokerIfNeeded
    child,        \* per client: the broker it spawned in this call
    home          \* per client: the broker its session is registered with

brokerVars == <<proc, exit, lease, path, pidFile, foreignUp, idleTimer>>
clientVars == <<startupLock, call, child, home>>
vars == <<brokerVars, clientVars>>

Alive == {"starting", "probing", "verified", "constructed", "bound",
          "serving", "closing", "unlinked", "cleaned"}
ProcStates == Alive \cup {"unborn", "exited"}
ExitKinds == {"running", "clean", "failed", "occupied", "killed"}
Pending == {"checking", "locking", "rechecking", "spawning", "waiting"}
CallStates == Pending \cup {"idle", "ready", "failed", "joined"}

(* The states in which a broker holds the ownership lock.                  *)
Leased == Alive \ {"starting"}
(* Its kernel socket accepts connections.                                  *)
Listening(b) == proc[b] \in {"bound", "serving"}
(* isBrokerRunning: a connection to the socket file is answered health_ok. *)
Healthy(b) == path = b /\ proc[b] = "serving"
SomeoneHealthy == \E b \in Brokers : Healthy(b)
(* A connect() to the socket file is accepted.                             *)
Connectable == \/ \E b \in Brokers : path = b /\ Listening(b)
               \/ path = Foreign /\ foreignUp
SessionsOf(b) == {c \in Clients : home[c] = b}

TypeOK ==
    /\ proc \in [Brokers -> ProcStates]
    /\ exit \in [Brokers -> ExitKinds]
    /\ lease \in Brokers \cup {None}
    /\ path \in Brokers \cup {Foreign, None}
    /\ pidFile \in Brokers \cup {None}
    /\ foreignUp \in BOOLEAN
    /\ idleTimer \in [Brokers -> BOOLEAN]
    /\ startupLock \in Clients \cup {None}
    /\ call \in [Clients -> CallStates]
    /\ child \in [Clients -> Brokers \cup {None}]
    /\ home \in [Clients -> Brokers \cup {None}]

Init ==
    /\ proc = [b \in Brokers |-> "unborn"]
    /\ exit = [b \in Brokers |-> "running"]
    /\ lease = None
    /\ foreignUp \in BOOLEAN
    /\ path \in {Foreign, None}       \* a stale file, a live server, or nothing
    /\ foreignUp => path = Foreign
    /\ pidFile = None
    /\ idleTimer = [b \in Brokers |-> FALSE]
    /\ startupLock = None
    /\ call = [c \in Clients |-> "idle"]
    /\ child = [c \in Clients |-> None]
    /\ home = [c \in Clients |-> None]

-----------------------------------------------------------------------------
(* Broker startup *)

(* Mutant: the claim does not look who holds the lock.                     *)
ClaimLeaseOfAnother(b) ==
    /\ proc[b] = "starting"
    /\ lease' = b
    /\ proc' = [proc EXCEPT ![b] = "probing"]
    /\ UNCHANGED <<exit, path, pidFile, foreignUp, idleTimer, clientVars>>

(* claimBrokerRuntime: one non-blocking try of the kernel lock.            *)
ClaimLease(b) ==
    /\ proc[b] = "starting"
    /\ IF lease = None
       THEN /\ lease' = b
            /\ proc' = [proc EXCEPT ![b] = "probing"]
            /\ UNCHANGED exit
       ELSE /\ proc' = [proc EXCEPT ![b] = "exited"]
            /\ exit' = [exit EXCEPT ![b] = "occupied"]      \* exit code 75
            /\ UNCHANGED lease
    /\ UNCHANGED <<path, pidFile, foreignUp, idleTimer, clientVars>>

(* A leaseholder leaves without having listened: the catch clauses release *)
(* the lease before the error ends the process.                            *)
GiveUp(b) ==
    /\ proc' = [proc EXCEPT ![b] = "exited"]
    /\ exit' = [exit EXCEPT ![b] = "failed"]
    /\ lease' = None
    /\ UNCHANGED <<path, pidFile, foreignUp, idleTimer, clientVars>>

(* Mutant: the lock alone is taken as proof that the endpoint is free.      *)
ProbeNothing(b) ==
    /\ proc[b] = "probing"
    /\ proc' = [proc EXCEPT ![b] = "verified"]
    /\ UNCHANGED <<exit, lease, path, pidFile, foreignUp, idleTimer, clientVars>>

(* assertEndpointInactive: a missing file or a refused connection is fine, *)
(* an accepted one is a collision.                                         *)
ProbeEndpoint(b) ==
    /\ proc[b] = "probing"
    /\ \/ /\ Connectable
          /\ GiveUp(b)
       \/ /\ ~Connectable
          /\ proc' = [proc EXCEPT ![b] = "verified"]
          /\ UNCHANGED <<exit, lease, path, pidFile, foreignUp, idleTimer, clientVars>>

(* new ParleyBroker: open the stores, then unlink the socket file by name. *)
Construct(b) ==
    /\ proc[b] = "verified"
    /\ proc' = [proc EXCEPT ![b] = "constructed"]
    /\ path' = None
    /\ UNCHANGED <<exit, lease, pidFile, foreignUp, idleTimer, clientVars>>

(* The constructor throws before the unlink (unreadable stores).           *)
ConstructFails(b) == proc[b] = "verified" /\ GiveUp(b)

(* server.listen binds and listens; bind() refuses an existing file.       *)
Listen(b) ==
    /\ proc[b] = "constructed"
    /\ path = None
    /\ proc' = [proc EXCEPT ![b] = "bound"]
    /\ path' = b
    /\ UNCHANGED <<exit, lease, pidFile, foreignUp, idleTimer, clientVars>>

(* onListening publishes the pid and arms the idle timer.                  *)
OnListening(b) ==
    /\ proc[b] = "bound"
    /\ proc' = [proc EXCEPT ![b] = "serving"]
    /\ pidFile' = b
    /\ idleTimer' = [idleTimer EXCEPT ![b] = TRUE]
    /\ UNCHANGED <<exit, lease, path, foreignUp, clientVars>>

-----------------------------------------------------------------------------
(* Broker shutdown *)

(* The sessions of a broker that went away lose their connection.          *)
DropSessions(b) ==
    /\ home' = [c \in Clients |-> IF home[c] = b THEN None ELSE home[c]]
    /\ call' = [c \in Clients |-> IF home[c] = b THEN "idle" ELSE call[c]]

(* Mutant: the lease is released with the listener, before the files.      *)
ShutdownReleasesFirst(b) ==
    /\ proc' = [proc EXCEPT ![b] = "closing"]
    /\ idleTimer' = [idleTimer EXCEPT ![b] = FALSE]
    /\ path' = None
    /\ lease' = None
    /\ DropSessions(b)
    /\ UNCHANGED <<exit, pidFile, foreignUp, startupLock, child>>

(* shutdown(): destroy every connection and close the listener. Closing a  *)
(* pipe handle unlinks the name it was bound to, whatever is there now.    *)
Shutdown(b) ==
    /\ proc' = [proc EXCEPT ![b] = "closing"]
    /\ idleTimer' = [idleTimer EXCEPT ![b] = FALSE]
    /\ path' = None
    /\ DropSessions(b)
    /\ UNCHANGED <<exit, lease, pidFile, foreignUp, startupLock, child>>

(* SIGTERM or SIGINT.                                                      *)
Terminate(b) == proc[b] = "serving" /\ Shutdown(b)

(* Mutant: a broker does not stop while a client is starting one.          *)
IdleTimerYields(b) ==
    /\ proc[b] = "serving"
    /\ idleTimer[b]
    /\ \/ SessionsOf(b) = {} /\ startupLock = None /\ Shutdown(b)
       \/ /\ SessionsOf(b) # {} \/ startupLock # None
          /\ idleTimer' = [idleTimer EXCEPT ![b] = FALSE]
          /\ UNCHANGED <<proc, exit, lease, path, pidFile, foreignUp, clientVars>>

(* The 5 s timer of scheduleShutdownCheck fires.                           *)
IdleTimerFires(b) ==
    /\ proc[b] = "serving"
    /\ idleTimer[b]
    /\ \/ SessionsOf(b) = {} /\ Shutdown(b)
       \/ /\ SessionsOf(b) # {}
          /\ idleTimer' = [idleTimer EXCEPT ![b] = FALSE]
          /\ UNCHANGED <<proc, exit, lease, path, pidFile, foreignUp, clientVars>>

(* The close callback: unlink the socket file, ...                         *)
RemoveSocketFile(b) ==
    /\ proc[b] = "closing"
    /\ proc' = [proc EXCEPT ![b] = "unlinked"]
    /\ path' = None
    /\ UNCHANGED <<exit, lease, pidFile, foreignUp, idleTimer, clientVars>>

(* ... unlink the pid file, ...                                            *)
RemovePidFile(b) ==
    /\ proc[b] = "unlinked"
    /\ proc' = [proc EXCEPT ![b] = "cleaned"]
    /\ pidFile' = None
    /\ UNCHANGED <<exit, lease, path, foreignUp, idleTimer, clientVars>>

(* ... release the lease and exit.                                         *)
ReleaseAndExit(b) ==
    /\ proc[b] = "cleaned"
    /\ proc' = [proc EXCEPT ![b] = "exited"]
    /\ exit' = [exit EXCEPT ![b] = "clean"]
    /\ lease' = None
    /\ UNCHANGED <<path, pidFile, foreignUp, idleTimer, clientVars>>

(* The process dies at any point: the kernel closes its lock descriptor,   *)
(* the files it published stay.                                            *)
Kill(b) ==
    /\ proc[b] \in Alive
    /\ proc' = [proc EXCEPT ![b] = "exited"]
    /\ exit' = [exit EXCEPT ![b] = "killed"]
    /\ lease' = IF lease = b THEN None ELSE lease
    /\ idleTimer' = [idleTimer EXCEPT ![b] = FALSE]
    /\ DropSessions(b)
    /\ UNCHANGED <<path, pidFile, foreignUp, startupLock, child>>

(* The foreign server goes away and leaves its socket file.                *)
ForeignDies == foreignUp /\ foreignUp' = FALSE
               /\ UNCHANGED <<proc, exit, lease, path, pidFile, idleTimer, clientVars>>

-----------------------------------------------------------------------------
(* Clients *)

ReleaseStartup(c) == startupLock' = IF startupLock = c THEN None ELSE startupLock

(* The call returns (finally: release the startup lease).                  *)
Settle(c, outcome) ==
    /\ call' = [call EXCEPT ![c] = outcome]
    /\ child' = [child EXCEPT ![c] = None]
    /\ ReleaseStartup(c)
    /\ UNCHANGED <<brokerVars, home>>

Goto(c, state) == /\ call' = [call EXCEPT ![c] = state]
                  /\ UNCHANGED <<brokerVars, startupLock, child, home>>

SpawnBrokerIfNeeded(c) == call[c] \in {"idle", "failed"} /\ Goto(c, "checking")

(* Both health checks: an answer ends the call; a refusal or a second of   *)
(* silence (a busy broker) leads on.                                       *)
CheckAnswered(c) == /\ call[c] \in {"checking", "rechecking", "waiting"}
                    /\ SomeoneHealthy
                    /\ Settle(c, "ready")
CheckFailed(c) == \/ call[c] = "checking" /\ Goto(c, "locking")
                  \/ call[c] = "rechecking" /\ Goto(c, "spawning")

(* tryAcquireProcessLock on the startup directory; losers only wait.       *)
TakeStartupLock(c) ==
    /\ call[c] = "locking"
    /\ \/ c \in Lockless /\ Goto(c, "rechecking")
       \/ /\ c \notin Lockless
          /\ startupLock = None
          /\ startupLock' = c
          /\ call' = [call EXCEPT ![c] = "rechecking"]
          /\ UNCHANGED <<brokerVars, child, home>>
       \/ /\ c \notin Lockless
          /\ startupLock # None
          /\ Goto(c, "waiting")

SpawnChild(c, b) ==
    /\ call[c] = "spawning"
    /\ proc[b] = "unborn"
    /\ proc' = [proc EXCEPT ![b] = "starting"]
    /\ call' = [call EXCEPT ![c] = "waiting"]
    /\ child' = [child EXCEPT ![c] = b]
    /\ UNCHANGED <<exit, lease, path, pidFile, foreignUp, idleTimer, startupLock, home>>

(* The child's "error" event: the launcher could not be executed.          *)
SpawnError(c) == call[c] = "spawning" /\ Settle(c, "failed")

(* onExit: a child that lost to another owner is no failure, keep waiting. *)
ChildExited(c) ==
    /\ call[c] = "waiting"
    /\ child[c] # None
    /\ proc[child[c]] = "exited"
    /\ exit[child[c]] # "occupied"
    /\ Settle(c, "failed")

(* Mutant: whoever spawned a child relies on its exit event.               *)
WaitForChild(c) == call[c] = "waiting" /\ child[c] = None /\ Settle(c, "failed")

(* waitForBroker gives up after five seconds.                              *)
WaitTimesOut(c) == call[c] = "waiting" /\ Settle(c, "failed")

(* The client connects and registers; the broker cancels its idle timer.   *)
Register(c) ==
    /\ call[c] = "ready"
    /\ \E b \in Brokers :
          /\ Healthy(b)
          /\ home' = [home EXCEPT ![c] = b]
          /\ idleTimer' = [idleTimer EXCEPT ![b] = FALSE]
    /\ call' = [call EXCEPT ![c] = "joined"]
    /\ UNCHANGED <<proc, exit, lease, path, pidFile, foreignUp, startupLock, child>>

(* The broker stopped between the health check and the connection.         *)
ConnectRefused(c) == /\ call[c] = "ready"
                     /\ ~SomeoneHealthy
                     /\ Goto(c, "idle")

(* The session's connection closes: re-arm the idle timer.                 *)
Leave(c) ==
    /\ call[c] = "joined"
    /\ idleTimer' = [idleTimer EXCEPT ![home[c]] = TRUE]
    /\ home' = [home EXCEPT ![c] = None]
    /\ call' = [call EXCEPT ![c] = "idle"]
    /\ UNCHANGED <<proc, exit, lease, path, pidFile, foreignUp, startupLock, child>>

(* The client process dies inside the call; its child is detached.         *)
ClientDies(c) == call[c] \in Pending \cup {"ready"} /\ Settle(c, "idle")

-----------------------------------------------------------------------------
BrokerStep(b) ==
    \/ ClaimLease(b) \/ ProbeEndpoint(b) \/ Construct(b) \/ ConstructFails(b)
    \/ Listen(b) \/ OnListening(b)
    \/ Terminate(b) \/ IdleTimerFires(b)
    \/ RemoveSocketFile(b) \/ RemovePidFile(b) \/ ReleaseAndExit(b)
    \/ Kill(b)

ClientStep(c) ==
    \/ SpawnBrokerIfNeeded(c) \/ CheckAnswered(c) \/ CheckFailed(c)
    \/ TakeStartupLock(c)
    \/ \E b \in Brokers : SpawnChild(c, b)
    \/ SpawnError(c) \/ ChildExited(c) \/ WaitTimesOut(c)
    \/ Register(c) \/ ConnectRefused(c) \/ Leave(c) \/ ClientDies(c)

Next == \/ \E b \in Brokers : BrokerStep(b)
        \/ \E c \in Clients : ClientStep(c)
        \/ ForeignDies

Spec == Init /\ [][Next]_vars

(* A running process keeps executing and its timers fire. Nobody is        *)
(* obliged to start a call, to leave, to be killed or to be signalled.     *)
Fairness ==
    /\ \A b \in Brokers :
          /\ WF_vars(ClaimLease(b))
          /\ WF_vars(ProbeEndpoint(b))
          /\ WF_vars(Construct(b) \/ ConstructFails(b))
          /\ WF_vars(Listen(b) \/ OnListening(b))
          /\ WF_vars(IdleTimerFires(b))
          /\ WF_vars(RemoveSocketFile(b) \/ RemovePidFile(b) \/ ReleaseAndExit(b))
    /\ \A c \in Clients :
          /\ WF_vars(CheckFailed(c) \/ CheckAnswered(c))
          /\ WF_vars(TakeStartupLock(c))
          /\ WF_vars((\E b \in Brokers : SpawnChild(c, b)) \/ SpawnError(c))
          /\ WF_vars(WaitTimesOut(c))

FairSpec == Spec /\ Fairness

-----------------------------------------------------------------------------
(* Properties *)

(* Two brokers never accept connections at the same time, however many     *)
(* clients raced to start one and whoever was killed on the way.           *)
AtMostOneListener == \A a, b \in Brokers : Listening(a) /\ Listening(b) => a = b

(* The broker that serves is the one the files lead to: an exiting or      *)
(* losing broker never erased its successor's socket or pid file.          *)
ServingIsReachable ==
    \A b \in Brokers : proc[b] = "serving" => path = b /\ pidFile = b

(* bind() never meets a file left over since the stale one was removed.    *)
BindNeverCollides == \A b \in Brokers : proc[b] = "constructed" => path = None

(* A server that answers without the lease keeps its socket file: it is a  *)
(* collision, not a stale file to unlink.                                  *)
ForeignServerKeepsItsName == foreignUp => path = Foreign

(* The published files change only while the lease is held, and no step    *)
(* that changes them also gives the lease away.                            *)
FilesChangeUnderLease ==
    [][(path' # path \/ pidFile' # pidFile) => lease # None /\ lease' = lease]_vars

(* A serving broker without sessions has its idle timer running: no order  *)
(* of joins, leaves and expiries strands a broker that nobody uses.        *)
IdleIsTimed ==
    \A b \in Brokers : proc[b] = "serving" /\ SessionsOf(b) = {} => idleTimer[b]

(* An idle broker gets a session or stops.                                 *)
IdleBrokerStops ==
    \A b \in Brokers :
        (proc[b] = "serving" /\ SessionsOf(b) = {})
            ~> (proc[b] # "serving" \/ SessionsOf(b) # {})

(* spawnBrokerIfNeeded settles: a crashed lock holder, a lost race or a    *)
(* broker that never answers cannot park a client forever.                 *)
CallsSettle == \A c \in Clients : (call[c] \in Pending) ~> (call[c] \notin Pending)

(* The abstract service: who answers on the endpoint, and who is done.     *)
Answering == IF path \in Brokers /\ Listening(path) THEN path ELSE None
Gone == {b \in Brokers : proc[b] \in {"closing", "unlinked", "cleaned", "exited"}}

Service == INSTANCE RuntimeService WITH owner <- Answering, retired <- Gone
RuntimeServiceRefined == Service!Spec
=============================================================================
