----------------------------- MODULE ModemReset -----------------------------
(***************************************************************************)
(* The modem life cycle of the Rapid RIL (CORE/ND/reset.cpp): the thread on *)
(* which the modem manager (MMGR) delivers its events, the worker thread    *)
(* that executes deferred nodes (CDeferThread), the nodes themselves with   *)
(* what they do to CSystemManager and the channel ports, and every other    *)
(* thread that calls RequestModemRestart (DO_REQUEST_CLEAN_UP).             *)
(*                                                                          *)
(* What the nodes tell the framework (radio state, calls, data connections) *)
(* is left out; kept is what decides whether a request is let through:      *)
(* spoof mode, m_bIsSystemInitialized, the queues and the cancel event, the *)
(* ports and the channel threads.                                           *)
(***************************************************************************)
EXTENDS Naturals, Sequences

CONSTANTS
    NPorts,          \* channels with a port to open
    Callers,         \* other threads that may call RequestModemRestart
    DownUnannounced, \* whether MODEM_DOWN may follow MODEM_UP directly
    MaxEvents,       \* bound: events the MMGR sends
    MaxErrors        \* bound: calls of RequestModemRestart by Callers

ASSUME ModemResetAssumption ==
    /\ NPorts \in Nat \ {0}
    /\ {"handler", "worker"} \cap Callers = {}
    /\ DownUnannounced \in BOOLEAN
    /\ MaxEvents \in Nat /\ MaxErrors \in Nat

VARIABLES
    lastEvent,  \* m_LastModemEvent
    spoof,      \* m_bSpoofCommandsStatus
    initOk,     \* m_bIsSystemInitialized
    queues,     \* the Tx and Rx queues exist
    cancel,     \* m_pCancelWaitEvent: "none", "clear" or "set"
    ports,      \* how many ports are open, counted in the order of opening
    threads,    \* the channel threads run (CThreadManager has its instance)
    platformOff,\* IsPlatformShutDownRequested
    poweredOff, \* the ModemPoweredOff event, manual reset
    hpc,        \* where the MMGR event thread is
    hnode,      \* the node it has built
    resetQueue, \* m_pResetQueue
    running,    \* m_bIsThreadRunning
    startLock,  \* m_pThreadStartLock is held (by the event thread)
    worker,     \* the worker thread: "none", "loop" or "exec"
    xpc,        \* the step of the node being executed, per executing thread
    xnode,      \* the node being executed, per executing thread
    rpc,        \* where each thread is in RequestModemRestart
    events,     \* history: how many events were handled
    done,       \* history: how many nodes were executed
    owed,       \* history: acknowledgements the MMGR waits for
    acks,       \* history: acknowledgements sent
    recoveries, \* history: recovery requests sent since the last MODEM_UP
    errors      \* history: calls of RequestModemRestart by Callers

sysVars  == <<spoof, initOk, queues, cancel, ports, threads, poweredOff>>
hVars    == <<lastEvent, hpc, hnode, events, owed>>
deferVars == <<resetQueue, running, startLock, worker>>
xVars    == <<xpc, xnode, done, acks>>
rVars    == <<rpc, recoveries, errors>>
vars == <<sysVars, hVars, deferVars, xVars, rVars, platformOff>>

Events == {"UP", "DOWN", "OUT_OF_SERVICE", "REBOOT", "COLD_RESET",
           "CORE_DUMP", "SHUTDOWN"}

Executors  == {"handler", "worker"}
Restarters == Callers \cup {"worker"}

(* A node: the number of its event and what its Execute does.               *)
Node == [id : Nat, up : BOOLEAN, reset : BOOLEAN, close : BOOLEAN,
         ack : BOOLEAN, off : BOOLEAN]
NoNode == [id |-> 0, up |-> FALSE, reset |-> FALSE, close |-> FALSE,
           ack |-> FALSE, off |-> FALSE]

Init ==
    /\ lastEvent = "UNKNOWN"
    /\ spoof = TRUE
    /\ initOk = FALSE
    /\ queues = FALSE
    /\ cancel = "none"
    /\ ports = 0
    /\ threads = FALSE
    /\ platformOff = FALSE
    /\ poweredOff = FALSE
    /\ hpc = "idle"
    /\ hnode = NoNode
    /\ resetQueue = <<>>
    /\ running = FALSE
    /\ startLock = FALSE
    /\ worker = "none"
    /\ xpc = [t \in Executors |-> "none"]
    /\ xnode = [t \in Executors |-> NoNode]
    /\ rpc = [t \in Restarters |-> "out"]
    /\ events = 0
    /\ done = 0
    /\ owed = 0
    /\ acks = 0
    /\ recoveries = 0
    /\ errors = 0
-----------------------------------------------------------------------------
(* ModemManagerEventHandler.                                                *)

(* Mutant: a core dump leaves the ports open.                               *)
NodeForOpenDump(e, prev) ==
    [id    |-> events + 1,
     up    |-> e = "UP",
     reset |-> \/ e \in {"SHUTDOWN", "OUT_OF_SERVICE"}
               \/ e = "DOWN" /\ prev # "SHUTDOWN"
               \/ e \in {"REBOOT", "COLD_RESET", "CORE_DUMP"} /\ prev # "DOWN",
     close |-> e \in {"SHUTDOWN", "COLD_RESET"},
     ack   |-> e \in {"SHUTDOWN", "COLD_RESET"},
     off   |-> e = "DOWN" /\ platformOff]

(* Mutant: the test of the previous event is inverted.                      *)
NodeForInverted(e, prev) ==
    [id    |-> events + 1,
     up    |-> e = "UP",
     reset |-> \/ e \in {"SHUTDOWN", "OUT_OF_SERVICE"}
               \/ e = "DOWN" /\ prev # "SHUTDOWN"
               \/ e \in {"REBOOT", "COLD_RESET", "CORE_DUMP"} /\ prev = "DOWN",
     close |-> e \in {"SHUTDOWN", "COLD_RESET", "CORE_DUMP"},
     ack   |-> e \in {"SHUTDOWN", "COLD_RESET"},
     off   |-> e = "DOWN" /\ platformOff]

(* The node built for event e when the previous one was prev.               *)
NodeFor(e, prev) ==
    [id    |-> events + 1,
     up    |-> e = "UP",
     reset |-> \/ e \in {"SHUTDOWN", "OUT_OF_SERVICE"}
               \/ e = "DOWN" /\ prev # "SHUTDOWN"
               \/ e \in {"REBOOT", "COLD_RESET", "CORE_DUMP"} /\ prev # "DOWN",
     close |-> e \in {"SHUTDOWN", "COLD_RESET", "CORE_DUMP"},
     ack   |-> e \in {"SHUTDOWN", "COLD_RESET"},
     off   |-> e = "DOWN" /\ platformOff]

Deferred(e) == e \in {"UP", "COLD_RESET", "CORE_DUMP", "SHUTDOWN"}

(* The MMGR brings a modem up that is down, and announces that it takes an  *)
(* up modem down unless DownUnannounced.                                    *)
MmgrMaySend(e) ==
    /\ e = "UP" => lastEvent \in {"UNKNOWN", "DOWN"}
    /\ e = "DOWN" /\ lastEvent = "UP" => DownUnannounced

(* Only a change of state is handled: the event is stored at once, its node *)
(* is queued in a second step.                                              *)
ReceiveEvent(e) ==
    /\ hpc = "idle"
    /\ events < MaxEvents
    /\ MmgrMaySend(e)
    /\ e # lastEvent
    /\ lastEvent' = e
    /\ hnode' = NodeFor(e, lastEvent)
    /\ hpc' = "queue"
    /\ events' = events + 1
    /\ owed' = owed + (IF hnode'.ack THEN 1 ELSE 0)
    /\ recoveries' = IF e = "UP" THEN 0 ELSE recoveries
    /\ UNCHANGED <<sysVars, deferVars, xVars, rpc, errors, platformOff>>

(* The thread never returns from an event after which the modem is gone for *)
(* good, nor from MODEM_DOWN once the platform is shutting down.            *)
HandlerNext ==
    IF \/ lastEvent \in {"OUT_OF_SERVICE", "REBOOT"}
       \/ lastEvent = "DOWN" /\ platformOff
    THEN "asleep" ELSE "idle"

(* CDeferThread::QueueWork, under m_pThreadStartLock: hand the node to the  *)
(* running worker, start one, or execute the node on this thread.           *)
QueueToWorker ==
    /\ hpc = "queue"
    /\ ~startLock
    /\ running
    /\ resetQueue' = Append(resetQueue, hnode)
    /\ hpc' = HandlerNext
    /\ UNCHANGED <<lastEvent, hnode, events, owed, running, startLock, worker,
                   sysVars, xVars, rVars, platformOff>>

StartWorker ==
    /\ hpc = "queue"
    /\ ~startLock
    /\ ~running /\ Deferred(lastEvent)
    /\ resetQueue' = Append(resetQueue, hnode)
    /\ running' = TRUE
    /\ worker' = "loop"
    /\ hpc' = HandlerNext
    /\ UNCHANGED <<lastEvent, hnode, events, owed, startLock, sysVars, xVars,
                   rVars, platformOff>>

FirstStep(n) == IF n.up THEN "free"
                ELSE IF n.reset THEN "spoof" ELSE IF n.close THEN "cancel" ELSE "end"

Start(t, n) ==
    /\ xnode' = [xnode EXCEPT ![t] = n]
    /\ xpc' = [xpc EXCEPT ![t] = FirstStep(n)]
    /\ UNCHANGED <<done, acks>>

(* Mutant: the running worker is not looked at.                             *)
ExecuteInlineAnyway ==
    /\ hpc = "queue"
    /\ ~startLock
    /\ ~Deferred(lastEvent)
    /\ startLock' = TRUE
    /\ hpc' = "inline"
    /\ Start("handler", hnode)
    /\ UNCHANGED <<lastEvent, hnode, events, owed, resetQueue, running, worker,
                   sysVars, rVars, platformOff>>

ExecuteInline ==
    /\ hpc = "queue"
    /\ ~startLock
    /\ ~running /\ ~Deferred(lastEvent)
    /\ startLock' = TRUE
    /\ hpc' = "inline"
    /\ Start("handler", hnode)
    /\ UNCHANGED <<lastEvent, hnode, events, owed, resetQueue, running, worker,
                   sysVars, rVars, platformOff>>

InlineDone ==
    /\ hpc = "inline"
    /\ xpc["handler"] = "none"
    /\ startLock' = FALSE
    /\ hpc' = HandlerNext
    /\ UNCHANGED <<lastEvent, hnode, events, owed, resetQueue, running, worker,
                   sysVars, xVars, rVars, platformOff>>
-----------------------------------------------------------------------------
(* MMGRDeferredEventTreadProc: the queue is tested and the thread declared  *)
(* finished under the lock QueueWork holds.                                 *)

WorkerDequeues ==
    /\ worker = "loop"
    /\ ~startLock
    /\ resetQueue # <<>>
    /\ Start("worker", Head(resetQueue))
    /\ resetQueue' = Tail(resetQueue)
    /\ worker' = "exec"
    /\ UNCHANGED <<hVars, running, startLock, sysVars, rVars, platformOff>>

(* Mutant: the worker finishes without looking at the queue.                *)
WorkerFinishesBlindly ==
    /\ worker = "loop"
    /\ ~startLock
    /\ running' = FALSE
    /\ worker' = "none"
    /\ UNCHANGED <<hVars, resetQueue, startLock, sysVars, xVars, rVars, platformOff>>

WorkerFinishes ==
    /\ worker = "loop"
    /\ ~startLock
    /\ resetQueue = <<>>
    /\ running' = FALSE
    /\ worker' = "none"
    /\ UNCHANGED <<hVars, resetQueue, startLock, sysVars, xVars, rVars, platformOff>>

NodeDone ==
    /\ worker = "exec"
    /\ xpc["worker"] = "none"
    /\ worker' = "loop"
    /\ UNCHANGED <<hVars, resetQueue, running, startLock, sysVars, xVars, rVars,
                   platformOff>>
-----------------------------------------------------------------------------
(* The nodes' Execute, one action per change of shared state.               *)

At(t, step) == xpc[t] = step
Goto(t, step) == xpc' = [xpc EXCEPT ![t] = step]
NodeFrame == UNCHANGED <<hVars, deferVars, xnode, done, acks, rVars, platformOff>>

(* Down, Shutdown and OutOfService: spoof mode, then ResetSystemState.      *)
SpoofOn(t) ==
    /\ At(t, "spoof")
    /\ spoof' = TRUE
    /\ Goto(t, "reset")
    /\ UNCHANGED <<initOk, queues, cancel, ports, threads, poweredOff>>
    /\ NodeFrame

(* Mutant: the system stays initialised.                                    *)
ResetSystemStateKeepsInit(t) ==
    /\ At(t, "reset")
    /\ Goto(t, IF xnode[t].close THEN "cancel" ELSE "end")
    /\ UNCHANGED sysVars
    /\ NodeFrame

(* Mutant: the ports are not closed after a reset.                          *)
ResetSystemStateOnly(t) ==
    /\ At(t, "reset")
    /\ initOk' = FALSE
    /\ Goto(t, "end")
    /\ UNCHANGED <<spoof, queues, cancel, ports, threads, poweredOff>>
    /\ NodeFrame

ResetSystemState(t) ==
    /\ At(t, "reset")
    /\ initOk' = FALSE
    /\ Goto(t, IF xnode[t].close THEN "cancel" ELSE "end")
    /\ UNCHANGED <<spoof, queues, cancel, ports, threads, poweredOff>>
    /\ NodeFrame

(* CloseChannelPorts: the cancel event first, then the channel threads are  *)
(* stopped and the ports closed, under the ports mutex.                     *)
SignalCancel(t) ==
    /\ At(t, "cancel")
    /\ cancel' = IF cancel = "none" THEN "none" ELSE "set"
    /\ Goto(t, "close")
    /\ UNCHANGED <<spoof, initOk, queues, ports, threads, poweredOff>>
    /\ NodeFrame

CloseChannelPorts(t) ==
    /\ At(t, "close")
    /\ threads' = FALSE
    /\ ports' = 0
    /\ Goto(t, "end")
    /\ UNCHANGED <<spoof, initOk, queues, cancel, poweredOff>>
    /\ NodeFrame

(* Mutant: the acknowledgement is forgotten.                                *)
FinishNodeNoAck(t) ==
    /\ At(t, "end")
    /\ poweredOff' = (poweredOff \/ xnode[t].off)
    /\ done' = done + 1
    /\ xnode' = [xnode EXCEPT ![t] = NoNode]
    /\ Goto(t, "none")
    /\ UNCHANGED <<hVars, deferVars, acks, spoof, initOk, queues, cancel, ports,
                   threads, rVars, platformOff>>

(* The acknowledgement, the ModemPoweredOff event, and the end of the node. *)
FinishNode(t) ==
    /\ At(t, "end")
    /\ acks' = acks + (IF xnode[t].ack THEN 1 ELSE 0)
    /\ poweredOff' = (poweredOff \/ xnode[t].off)
    /\ done' = done + 1
    /\ xnode' = [xnode EXCEPT ![t] = NoNode]
    /\ Goto(t, "none")
    /\ UNCHANGED <<hVars, deferVars, spoof, initOk, queues, cancel, ports, threads,
                   rVars, platformOff>>

(* Up: ResetChannelInfo frees the cancel event and the queues.              *)
ResetChannelInfo(t) ==
    /\ At(t, "free")
    /\ queues' = FALSE
    /\ cancel' = "none"
    /\ Goto(t, "unspoof")
    /\ UNCHANGED <<spoof, initOk, ports, threads, poweredOff>>
    /\ NodeFrame

SpoofOff(t) ==
    /\ At(t, "unspoof")
    /\ spoof' = FALSE
    /\ Goto(t, "open")
    /\ UNCHANGED <<initOk, queues, cancel, ports, threads, poweredOff>>
    /\ NodeFrame

(* Mutant: one port too many.                                               *)
OpenPortTooMany(t) ==
    /\ At(t, "open")
    /\ lastEvent = "UP"
    /\ ports' = ports + 1
    /\ Goto(t, IF ports = NPorts THEN "create" ELSE "open")
    /\ UNCHANGED <<spoof, initOk, queues, cancel, threads, poweredOff>>
    /\ NodeFrame

(* OpenChannelPortsOnly: the last event is looked at before each port.      *)
OpenPort(t) ==
    /\ At(t, "open")
    /\ lastEvent = "UP"
    /\ ports < NPorts
    /\ ports' = ports + 1
    /\ Goto(t, IF ports' = NPorts THEN "create" ELSE "open")
    /\ UNCHANGED <<spoof, initOk, queues, cancel, threads, poweredOff>>
    /\ NodeFrame

(* Mutant: the failure of ContinueInit requests no recovery.                *)
OpenFailsQuietly(t) ==
    /\ At(t, "open")
    /\ initOk' = FALSE
    /\ Goto(t, "end")
    /\ UNCHANGED <<spoof, queues, cancel, ports, threads, poweredOff>>
    /\ NodeFrame

(* A modem that went away, a port that does not open: ContinueInit fails.   *)
OpenFails(t) ==
    /\ At(t, "open")
    /\ initOk' = FALSE
    /\ Goto(t, "restart")
    /\ UNCHANGED <<spoof, queues, cancel, ports, threads, poweredOff>>
    /\ NodeFrame

CreateQueues(t) ==
    /\ At(t, "create")
    /\ cancel' = "clear"
    /\ queues' = TRUE
    /\ Goto(t, "start")
    /\ UNCHANGED <<spoof, initOk, ports, threads, poweredOff>>
    /\ NodeFrame

StartThreads(t) ==
    /\ At(t, "start")
    /\ threads' = TRUE
    /\ Goto(t, "initialized")
    /\ UNCHANGED <<spoof, initOk, queues, cancel, ports, poweredOff>>
    /\ NodeFrame

SetSystemInitialized(t) ==
    /\ At(t, "initialized")
    /\ initOk' = TRUE
    /\ Goto(t, "initModem")
    /\ UNCHANGED <<spoof, queues, cancel, ports, threads, poweredOff>>
    /\ NodeFrame

(* InitializeModem queues the init commands, which AddCmdToQueue refuses    *)
(* when the initialisation was withdrawn meanwhile.                         *)
InitializeModem(t) ==
    /\ At(t, "initModem")
    /\ initOk
    /\ Goto(t, "end")
    /\ UNCHANGED sysVars
    /\ NodeFrame

InitializeModemFails(t) ==
    /\ At(t, "initModem")
    /\ initOk' = FALSE
    /\ Goto(t, "restart")
    /\ UNCHANGED <<spoof, queues, cancel, ports, threads, poweredOff>>
    /\ NodeFrame
-----------------------------------------------------------------------------
(* CModemRestart::RequestModemRestart, by thread t.  It is serialised by    *)
(* m_pErrorCauseMutex.                                                      *)

MutexFree == \A t \in Restarters : rpc[t] = "out"
RestartFrame == UNCHANGED <<hVars, deferVars, xnode, done, acks, queues, cancel,
                            ports, threads, poweredOff, platformOff>>

(* The node's call returns into its Execute, the others just return.        *)
Return(t) ==
    /\ rpc' = [rpc EXCEPT ![t] = "out"]
    /\ xpc' = IF t = "worker" THEN [xpc EXCEPT !["worker"] = "end"] ELSE xpc

(* TestAndSetSpoofCommandsStatus: the first caller goes on, the others are  *)
(* ignored, and so is everybody while the platform shuts down.              *)
IgnoreRestart(t) ==
    /\ t = "worker" => At("worker", "restart")
    /\ rpc[t] = "out"
    /\ platformOff \/ (MutexFree /\ spoof)
    /\ Return(t)
    /\ t \in Callers => errors < MaxErrors
    /\ errors' = IF t \in Callers THEN errors + 1 ELSE errors
    /\ UNCHANGED <<spoof, initOk, recoveries>>
    /\ RestartFrame

TestAndSetSpoof(t) ==
    /\ t = "worker" => At("worker", "restart")
    /\ rpc[t] = "out"
    /\ ~platformOff /\ MutexFree /\ ~spoof
    /\ spoof' = TRUE
    /\ rpc' = [rpc EXCEPT ![t] = "unsuccessful"]
    /\ t \in Callers => errors < MaxErrors
    /\ errors' = IF t \in Callers THEN errors + 1 ELSE errors
    /\ UNCHANGED <<xpc, initOk, recoveries>>
    /\ RestartFrame

SetInitializationUnsuccessful(t) ==
    /\ rpc[t] = "unsuccessful"
    /\ initOk' = FALSE
    /\ rpc' = [rpc EXCEPT ![t] = "check"]
    /\ UNCHANGED <<spoof, xpc, recoveries, errors>>
    /\ RestartFrame

(* The recovery is requested only while the modem is up.                    *)
SendRequestModemRecovery(t) ==
    /\ rpc[t] = "check"
    /\ recoveries' = recoveries + (IF lastEvent = "UP" THEN 1 ELSE 0)
    /\ Return(t)
    /\ UNCHANGED <<spoof, initOk, errors>>
    /\ RestartFrame

(* sys.shutdown.requested is set, or the radio is powered off for shutdown. *)
RequestPlatformShutdown ==
    /\ ~platformOff
    /\ platformOff' = TRUE
    /\ UNCHANGED <<sysVars, hVars, deferVars, xVars, rVars>>
-----------------------------------------------------------------------------
HandlerStep == QueueToWorker \/ StartWorker \/ ExecuteInline \/ InlineDone

WorkerStep == WorkerDequeues \/ WorkerFinishes \/ NodeDone

NodeStep(t) ==
    \/ SpoofOn(t) \/ ResetSystemState(t) \/ SignalCancel(t) \/ CloseChannelPorts(t)
    \/ FinishNode(t) \/ ResetChannelInfo(t) \/ SpoofOff(t) \/ OpenPort(t)
    \/ OpenFails(t) \/ CreateQueues(t) \/ StartThreads(t)
    \/ SetSystemInitialized(t) \/ InitializeModem(t) \/ InitializeModemFails(t)

RestartStep(t) ==
    \/ IgnoreRestart(t) \/ TestAndSetSpoof(t) \/ SetInitializationUnsuccessful(t)
    \/ SendRequestModemRecovery(t)

Next ==
    \/ \E e \in Events : ReceiveEvent(e)
    \/ HandlerStep
    \/ WorkerStep
    \/ \E t \in Executors : NodeStep(t)
    \/ \E t \in Restarters : RestartStep(t)
    \/ RequestPlatformShutdown

Spec == Init /\ [][Next]_vars

(* The threads are scheduled, and a call of RequestModemRestart returns.    *)
FairSpec ==
    /\ Spec
    /\ WF_vars(HandlerStep)
    /\ WF_vars(WorkerStep)
    /\ \A t \in Executors : WF_vars(NodeStep(t))
    /\ \A t \in Callers : WF_vars(rpc[t] # "out" /\ RestartStep(t))
    /\ WF_vars(RestartStep("worker"))
-----------------------------------------------------------------------------
(* Properties.                                                              *)

TypeOK ==
    /\ lastEvent \in Events \cup {"UNKNOWN"}
    /\ spoof \in BOOLEAN /\ initOk \in BOOLEAN /\ queues \in BOOLEAN
    /\ cancel \in {"none", "clear", "set"}
    /\ ports \in 0..NPorts
    /\ threads \in BOOLEAN /\ platformOff \in BOOLEAN /\ poweredOff \in BOOLEAN
    /\ hpc \in {"idle", "queue", "inline", "asleep"}
    /\ hnode \in Node
    /\ resetQueue \in Seq(Node)
    /\ running \in BOOLEAN /\ startLock \in BOOLEAN
    /\ worker \in {"none", "loop", "exec"}
    /\ xpc \in [Executors -> {"none", "spoof", "reset", "cancel", "close", "end",
                              "free", "unspoof", "open", "create", "start",
                              "initialized", "initModem", "restart"}]
    /\ xnode \in [Executors -> Node]
    /\ rpc \in [Restarters -> {"out", "unsuccessful", "check"}]
    /\ {events, done, owed, acks, recoveries, errors} \subseteq Nat

(* The nodes executed, being executed, queued and about to be queued are    *)
(* those of the events received, in their order: no event is lost,          *)
(* overtaken or handled twice, whichever thread executes it.                *)
Executing == {t \in Executors : xpc[t] # "none"}

InEventOrder ==
    LET begun == done + (IF Executing = {} THEN 0 ELSE 1)
        queued == begun + Len(resetQueue)
    IN  /\ \A t \in Executing : xnode[t].id = done + 1 /\ Executing = {t}
        /\ \A i \in 1..Len(resetQueue) : resetQueue[i].id = begun + i
        /\ events = queued + (IF hpc = "queue" THEN 1 ELSE 0)
        /\ hpc = "queue" => hnode.id = queued + 1

(* A queued node always has a worker that will come back to the queue.      *)
NoWorkStranded == resetQueue # <<>> => running /\ worker # "none"

(* Whoever finds the system initialised finds the queues there: they are    *)
(* never freed under an initialised system, and the initialisation is never *)
(* declared before they exist.                                              *)
QueuesLive == initOk => queues /\ cancel # "none"

Quiescent == /\ hpc \in {"idle", "asleep"} /\ events = done
             /\ MutexFree /\ Executing = {}

(* Once the events are handled, a modem that is not up is spoofed and not   *)
(* initialised, however the events and the clean-up requests interleaved    *)
(* and whichever node was left to do the reset.                             *)
DownMeansSpoofed ==
    Quiescent /\ lastEvent # "UP" => spoof /\ ~initOk

(* Once the events are handled, a modem that is up serves requests, or its  *)
(* recovery was asked for: no failure leaves the RIL refusing requests to a *)
(* modem the MMGR takes for healthy.                                        *)
Serving == initOk /\ ~spoof /\ queues /\ threads /\ ports = NPorts

UpServesOrRecovers ==
    Quiescent /\ lastEvent = "UP" /\ ~platformOff => Serving \/ recoveries > 0

(* The queues and the cancel event are freed only after the channel threads *)
(* that use them were stopped.                                              *)
FreedAfterStop ==
    [][\A t \in Executors : ResetChannelInfo(t) => ~threads]_vars

(* Every COLD_RESET and MODEM_SHUTDOWN is acknowledged, once, and not before *)
(* the ports are closed: the MMGR waits for it before it cuts the modem's   *)
(* power.                                                                   *)
AckAfterClose ==
    [][acks' # acks => acks' = acks + 1 /\ acks' <= owed /\ ports = 0 /\ ~threads]_vars

EveryEventAcked == acks < owed ~> acks = owed
=============================================================================
