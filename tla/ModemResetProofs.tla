-------------------------- MODULE ModemResetProofs --------------------------
(***************************************************************************)
(* Proofs about the modem life cycle: type correctness, that no deferred    *)
(* node is left without a worker, that the nodes are executed one at a time *)
(* in the order of their events, and what is cleaned up after a modem that  *)
(* left the up state.                                                       *)
(***************************************************************************)
EXTENDS ModemReset, SequenceTheorems, TLAPS

Steps == {"none", "spoof", "reset", "cancel", "close", "end", "free", "unspoof",
          "open", "create", "start", "initialized", "initModem", "restart"}

SysType == /\ spoof \in BOOLEAN /\ initOk \in BOOLEAN /\ queues \in BOOLEAN
           /\ cancel \in {"none", "clear", "set"}
           /\ ports \in 0..NPorts
           /\ threads \in BOOLEAN /\ poweredOff \in BOOLEAN

(* Who may be where: there is a worker exactly while it is declared running, *)
(* the event thread executes a node only without one and under the lock,    *)
(* and a clean-up request of the worker is made by the node it executes.    *)
DeferInv ==
    /\ running <=> worker # "none"
    /\ worker = "none" => resetQueue = <<>>
    /\ startLock <=> hpc = "inline"
    /\ hpc = "inline" => worker = "none"
    /\ xpc["handler"] # "none" => hpc = "inline"
    /\ xpc["worker"] # "none" => worker = "exec"
    /\ rpc["worker"] # "out" => xpc["worker"] = "restart"

-----------------------------------------------------------------------------
(* A step inside a node that is neither its end nor its clean-up request.   *)
InNode(t) ==
    /\ xpc[t] \notin {"none", "restart"}
    /\ \E s \in Steps \ {"none"} : xpc' = [xpc EXCEPT ![t] = s]
    /\ NodeFrame
    /\ SysType'

(* Every step of a node ends it, or is an InNode step.                      *)
LEMMA NodeSteps ==
    ASSUME TypeOK, NEW t \in Executors, NodeStep(t)
    PROVE  FinishNode(t) \/ InNode(t)
<1> USE ModemResetAssumption DEF Steps, SysType, InNode, At, Goto, NodeFrame
<1>1. CASE SpoofOn(t)
  BY <1>1 DEF SpoofOn, TypeOK
<1>2. CASE ResetSystemState(t)
  BY <1>2 DEF ResetSystemState, TypeOK
<1>3. CASE SignalCancel(t)
  BY <1>3 DEF SignalCancel, TypeOK
<1>4. CASE CloseChannelPorts(t)
  <2>1. 0 \in 0..NPorts
    OBVIOUS
  <2> QED BY <1>4, <2>1 DEF CloseChannelPorts, TypeOK
<1>5. CASE ResetChannelInfo(t)
  BY <1>5 DEF ResetChannelInfo, TypeOK
<1>6. CASE SpoofOff(t)
  BY <1>6 DEF SpoofOff, TypeOK
<1>7. CASE OpenPort(t)
  <2>1. ports' \in 0..NPorts
    BY <1>7 DEF OpenPort, TypeOK
  <2>2. \E s \in Steps \ {"none"} : xpc' = [xpc EXCEPT ![t] = s]
    BY <1>7 DEF OpenPort
  <2>3. /\ UNCHANGED <<spoof, initOk, queues, cancel, threads, poweredOff>>
        /\ NodeFrame /\ xpc[t] = "open"
    BY <1>7 DEF OpenPort
  <2> QED BY <2>1, <2>2, <2>3 DEF TypeOK
<1>8. CASE OpenFails(t)
  BY <1>8 DEF OpenFails, TypeOK
<1>9. CASE CreateQueues(t)
  BY <1>9 DEF CreateQueues, TypeOK
<1>10. CASE StartThreads(t)
  BY <1>10 DEF StartThreads, TypeOK
<1>11. CASE SetSystemInitialized(t)
  BY <1>11 DEF SetSystemInitialized, TypeOK
<1>12. CASE InitializeModem(t)
  BY <1>12 DEF InitializeModem, TypeOK, sysVars
<1>13. CASE InitializeModemFails(t)
  BY <1>13 DEF InitializeModemFails, TypeOK
<1> QED BY <1>1, <1>2, <1>3, <1>4, <1>5, <1>6, <1>7, <1>8, <1>9, <1>10, <1>11,
           <1>12, <1>13 DEF NodeStep

(* A step of RequestModemRestart; the worker's returns into its node.       *)
InRestart(t) ==
    /\ \/ /\ xpc' = xpc
          /\ rpc' \in [Restarters -> {"out", "unsuccessful", "check"}]
          /\ rpc'["worker"] # "out" => xpc["worker"] = "restart"
       \/ /\ xpc["worker"] = "restart"
          /\ xpc' = [xpc EXCEPT !["worker"] = "end"]
          /\ rpc' = [rpc EXCEPT !["worker"] = "out"]
    /\ spoof' \in BOOLEAN /\ initOk' \in BOOLEAN
    /\ recoveries' \in Nat /\ errors' \in Nat
    /\ RestartFrame

(* Every step of RequestModemRestart is one.                                *)
LEMMA RestartSteps ==
    ASSUME TypeOK, DeferInv, NEW t \in Restarters, RestartStep(t)
    PROVE  InRestart(t)
<1> USE DEF InRestart, TypeOK, At
<1>0. /\ rpc \in [Restarters -> {"out", "unsuccessful", "check"}]
      /\ "worker" \in Restarters /\ "worker" \notin Callers
      /\ t = "worker" \/ (t \in Callers /\ t # "worker")
  <2>1. "worker" \notin Callers
    <3>1. "worker" \in Callers => "worker" \in {"handler", "worker"} \cap Callers
      OBVIOUS
    <3> QED BY <3>1, ModemResetAssumption
  <2>2. "worker" \in Restarters /\ (t = "worker" \/ t \in Callers)
    BY DEF Restarters
  <2>3. rpc \in [Restarters -> {"out", "unsuccessful", "check"}]
    OBVIOUS
  <2> QED BY <2>1, <2>2, <2>3
<1>1. CASE IgnoreRestart(t)
  <2>1. errors' \in Nat /\ RestartFrame /\ UNCHANGED <<spoof, initOk, recoveries>>
    <3>1. errors' \in Nat
      BY <1>1 DEF IgnoreRestart
    <3> QED BY <1>1, <3>1 DEF IgnoreRestart
  <2>2. /\ t = "worker" => xpc["worker"] = "restart"
        /\ rpc' = [rpc EXCEPT ![t] = "out"]
        /\ xpc' = IF t = "worker" THEN [xpc EXCEPT !["worker"] = "end"] ELSE xpc
    BY <1>1 DEF IgnoreRestart, Return
  <2> QED BY <1>0, <2>1, <2>2 DEF DeferInv
<1>2. CASE TestAndSetSpoof(t)
  BY <1>0, <1>2 DEF TestAndSetSpoof, DeferInv
<1>3. CASE SetInitializationUnsuccessful(t)
  BY <1>0, <1>3 DEF SetInitializationUnsuccessful, DeferInv
<1>4. CASE SendRequestModemRecovery(t)
  <2>1. /\ errors' \in Nat /\ recoveries' \in Nat /\ RestartFrame
        /\ UNCHANGED <<spoof, initOk>>
    BY <1>4 DEF SendRequestModemRecovery
  <2>2. /\ t = "worker" => xpc["worker"] = "restart"
        /\ rpc' = [rpc EXCEPT ![t] = "out"]
        /\ xpc' = IF t = "worker" THEN [xpc EXCEPT !["worker"] = "end"] ELSE xpc
    BY <1>4 DEF SendRequestModemRecovery, Return, DeferInv
  <2> QED BY <1>0, <2>1, <2>2 DEF DeferInv
<1> QED BY <1>1, <1>2, <1>3, <1>4 DEF RestartStep
-----------------------------------------------------------------------------
(* What the node about to be executed does next is one of its steps.        *)
LEMMA StartType ==
    ASSUME TypeOK, NEW t \in Executors, NEW n \in Node, Start(t, n)
    PROVE  /\ xnode' \in [Executors -> Node]
           /\ \E s \in Steps \ {"none"} : xpc' = [xpc EXCEPT ![t] = s]
           /\ UNCHANGED <<done, acks>>
<1>1. FirstStep(n) \in Steps \ {"none"}
  BY DEF FirstStep, Steps
<1> QED BY <1>1 DEF Start, TypeOK

(* The node built for an event is one.                                      *)
LEMMA NodeForType ==
    ASSUME TypeOK, NEW e \in Events, NEW prev
    PROVE  NodeFor(e, prev) \in Node
<1>1. events \in Nat /\ platformOff \in BOOLEAN
  BY DEF TypeOK
<1> QED BY <1>1 DEF NodeFor, Node

(* The typing and the placement of the threads hold initially ...           *)
LEMMA InitTypes == Init => TypeOK /\ DeferInv
<1> SUFFICES ASSUME Init PROVE TypeOK /\ DeferInv
  OBVIOUS
<1>1. NoNode \in Node
  BY DEF NoNode, Node
<1>2. 0 \in 0..NPorts
  BY ModemResetAssumption
<1>3. resetQueue \in Seq(Node)
  BY DEF Init
<1>4. TypeOK
  <2>1. {events, done, owed, acks, recoveries, errors} \subseteq Nat
    BY DEF Init
  <2>2. xnode \in [Executors -> Node] /\ hnode \in Node
    BY <1>1 DEF Init
  <2>3. rpc \in [Restarters -> {"out", "unsuccessful", "check"}]
    BY DEF Init
  <2>4. ports \in 0..NPorts
    BY <1>2 DEF Init
  <2> QED BY <1>3, <2>1, <2>2, <2>3, <2>4 DEF Init, TypeOK
<1>5. DeferInv
  BY DEF Init, DeferInv, Executors, Restarters
<1> QED BY <1>4, <1>5

(* ... and every step keeps them.                                           *)
LEMMA StepTypes ==
    ASSUME TypeOK, DeferInv, [Next]_vars
    PROVE  TypeOK' /\ DeferInv'
<1> USE DEF TypeOK, DeferInv
<1>0. "handler" \in Executors /\ "worker" \in Executors /\ "worker" \in Restarters
  BY DEF Executors, Restarters
<1>1. ASSUME NEW e \in Events, ReceiveEvent(e)
      PROVE  TypeOK' /\ DeferInv'
  <2>1. hnode' \in Node
    BY <1>1, NodeForType DEF ReceiveEvent
  <2>2. owed' \in Nat /\ recoveries' \in Nat /\ events' \in Nat
    BY <1>1 DEF ReceiveEvent
  <2>3. lastEvent' \in Events /\ hpc = "idle" /\ hpc' = "queue"
    BY <1>1 DEF ReceiveEvent
  <2>4. UNCHANGED <<sysVars, deferVars, xVars, rpc, errors, platformOff>>
    BY <1>1 DEF ReceiveEvent
  <2> QED BY <2>1, <2>2, <2>3, <2>4 DEF sysVars, deferVars, xVars
<1>2. CASE HandlerStep
  <2>0. HandlerNext \in {"idle", "asleep"}
    BY DEF HandlerNext
  <2>1. CASE QueueToWorker
    <3>1. resetQueue' \in Seq(Node)
      BY <2>1 DEF QueueToWorker
    <3> QED BY <2>0, <2>1, <3>1 DEF QueueToWorker, sysVars, xVars, rVars
  <2>2. CASE StartWorker
    <3>1. resetQueue' \in Seq(Node)
      BY <2>2 DEF StartWorker
    <3> QED BY <2>0, <2>2, <3>1 DEF StartWorker, sysVars, xVars, rVars
  <2>3. CASE ExecuteInline
    <3>1. /\ xnode' \in [Executors -> Node]
          /\ \E s \in Steps \ {"none"} : xpc' = [xpc EXCEPT !["handler"] = s]
          /\ UNCHANGED <<done, acks>>
      BY <1>0, <2>3, StartType DEF ExecuteInline
    <3> QED BY <1>0, <2>3, <3>1 DEF ExecuteInline, sysVars, rVars, Steps
  <2>4. CASE InlineDone
    BY <2>0, <2>4 DEF InlineDone, sysVars, xVars, rVars
  <2> QED BY <1>2, <2>1, <2>2, <2>3, <2>4 DEF HandlerStep
<1>3. CASE WorkerStep
  <2>1. CASE WorkerDequeues
    <3>1. Head(resetQueue) \in Node /\ resetQueue' \in Seq(Node)
      BY <2>1 DEF WorkerDequeues
    <3>2. /\ xnode' \in [Executors -> Node]
          /\ \E s \in Steps \ {"none"} : xpc' = [xpc EXCEPT !["worker"] = s]
          /\ UNCHANGED <<done, acks>>
      BY <1>0, <2>1, <3>1, StartType DEF WorkerDequeues
    <3> QED BY <1>0, <2>1, <3>1, <3>2 DEF WorkerDequeues, hVars, sysVars, rVars, Steps
  <2>2. CASE WorkerFinishes
    BY <2>2 DEF WorkerFinishes, hVars, sysVars, xVars, rVars
  <2>3. CASE NodeDone
    BY <2>3 DEF NodeDone, hVars, sysVars, xVars, rVars
  <2> QED BY <1>3, <2>1, <2>2, <2>3 DEF WorkerStep
<1>4. ASSUME NEW t \in Executors, NodeStep(t)
      PROVE  TypeOK' /\ DeferInv'
  <2>0. t = "handler" \/ t = "worker"
    BY DEF Executors
  <2>1. CASE FinishNode(t)
    <3>1. done' \in Nat /\ acks' \in Nat /\ poweredOff' \in BOOLEAN
      BY <2>1 DEF FinishNode
    <3>2. xnode' \in [Executors -> Node] /\ xpc' = [xpc EXCEPT ![t] = "none"]
      BY <2>1 DEF FinishNode, Goto, NoNode, Node
    <3>3. xpc[t] = "end"
      BY <2>1 DEF FinishNode, At
    <3>4. UNCHANGED <<hVars, deferVars, spoof, initOk, queues, cancel, ports,
                      threads, rVars, platformOff>>
      BY <2>1 DEF FinishNode
    <3> QED BY <1>0, <2>0, <3>1, <3>2, <3>3, <3>4 DEF hVars, deferVars, rVars
  <2>2. CASE InNode(t)
    BY <1>0, <2>0, <2>2 DEF InNode, NodeFrame, SysType, Steps, hVars, deferVars, rVars
  <2> QED BY <1>4, <2>1, <2>2, NodeSteps
<1>5. ASSUME NEW t \in Restarters, RestartStep(t)
      PROVE  TypeOK' /\ DeferInv'
  <2>1. InRestart(t)
    BY <1>5, RestartSteps
  <2>2. /\ UNCHANGED <<hVars, deferVars, xnode, done, acks, queues, cancel, ports,
                       threads, poweredOff, platformOff>>
        /\ spoof' \in BOOLEAN /\ initOk' \in BOOLEAN
        /\ recoveries' \in Nat /\ errors' \in Nat
    BY <2>1 DEF InRestart, RestartFrame
  <2>3. CASE /\ xpc' = xpc
             /\ rpc' \in [Restarters -> {"out", "unsuccessful", "check"}]
             /\ rpc'["worker"] # "out" => xpc["worker"] = "restart"
    BY <2>2, <2>3 DEF hVars, deferVars
  <2>4. CASE /\ xpc["worker"] = "restart"
             /\ xpc' = [xpc EXCEPT !["worker"] = "end"]
             /\ rpc' = [rpc EXCEPT !["worker"] = "out"]
    BY <1>0, <2>2, <2>4 DEF hVars, deferVars
  <2> QED BY <2>1, <2>3, <2>4 DEF InRestart
<1>6. CASE RequestPlatformShutdown
  BY <1>6 DEF RequestPlatformShutdown, sysVars, hVars, deferVars, xVars, rVars
<1>7. CASE UNCHANGED vars
  BY <1>7 DEF vars, sysVars, hVars, deferVars, xVars, rVars
<1> QED BY <1>1, <1>2, <1>3, <1>4, <1>5, <1>6, <1>7 DEF Next

(* Type correctness: every variable keeps its type, a worker exists exactly *)
(* while CDeferThread says so, and the event thread executes a node only    *)
(* under the lock and without a worker.                                     *)
THEOREM LifeCycleTypeCorrect == Spec => [](TypeOK /\ DeferInv)
<1> QED BY InitTypes, StepTypes, PTL DEF Spec

(* No node queued for the worker is ever left without one: QueueWork and    *)
(* the worker's end exclude each other by m_pThreadStartLock.               *)
THEOREM NoNodeStranded == Spec => []NoWorkStranded
<1>1. DeferInv => NoWorkStranded
  BY DEF DeferInv, NoWorkStranded
<1> QED BY <1>1, LifeCycleTypeCorrect, PTL
-----------------------------------------------------------------------------
(* How many nodes were begun, and how many of the events' nodes were queued. *)
Begun == done + (IF Executing = {} THEN 0 ELSE 1)

(* InEventOrder, without its LET.                                           *)
Order ==
    /\ \A t \in Executing : xnode[t].id = done + 1 /\ Executing = {t}
    /\ \A i \in 1..Len(resetQueue) : resetQueue[i].id = Begun + i
    /\ events = Begun + Len(resetQueue) + (IF hpc = "queue" THEN 1 ELSE 0)
    /\ hpc = "queue" => hnode.id = Begun + Len(resetQueue) + 1

(* Order says what InEventOrder says.                                       *)
LEMMA OrderIsInEventOrder == Order <=> InEventOrder
BY DEF Order, Begun, InEventOrder

(* A step that begins and ends no node and touches no queue keeps the order. *)
LEMMA OrderKept ==
    ASSUME Order, Executing' = Executing, UNCHANGED <<done, resetQueue, xnode>>,
           UNCHANGED <<events, hpc, hnode>>
    PROVE  Order'
<1>1. Begun' = Begun
  BY DEF Begun
<1> QED BY <1>1 DEF Order

(* Nothing executes while the event thread is about to queue a node without *)
(* a worker, nor while the worker looks at its queue.                       *)
LEMMA NothingExecutes ==
    ASSUME TypeOK, DeferInv, hpc # "inline" \/ worker # "none", worker # "exec"
    PROVE  Executing = {}
<1>1. xpc["handler"] = "none" /\ xpc["worker"] = "none"
  BY DEF DeferInv
<1> QED BY <1>1 DEF Executing, Executors

(* A node that begins is the only one in execution.                         *)
LEMMA BeginsAlone ==
    ASSUME TypeOK, Executing = {}, NEW t \in Executors, NEW n \in Node, Start(t, n)
    PROVE  Executing' = {t} /\ xnode'[t] = n /\ done' = done
<1>1. xnode'[t] = n /\ done' = done
  BY DEF Start, TypeOK
<1>2. PICK s \in Steps \ {"none"} : xpc' = [xpc EXCEPT ![t] = s]
  BY StartType
<1>3. ASSUME NEW u \in Executors PROVE xpc'[u] # "none" <=> u = t
  <2>1. xpc[u] = "none" /\ xpc \in [Executors -> Steps]
    BY DEF Executing, TypeOK, Steps
  <2> QED BY <1>2, <2>1
<1>4. Executing' = {u \in Executors : xpc'[u] # "none"}
  BY DEF Executing
<1> QED BY <1>1, <1>3, <1>4

(* Appending the node of the event in hand continues the order.             *)
LEMMA QueuedInOrder ==
    ASSUME TypeOK, Order, hpc = "queue", hpc' # "queue",
           resetQueue' = Append(resetQueue, hnode),
           UNCHANGED <<xVars, events>>
    PROVE  Order'
<1>1. Executing' = Executing /\ Begun' = Begun
  BY DEF xVars, Executing, Begun
<1>2. Begun \in Nat
  BY DEF Begun, TypeOK
<1>3. resetQueue \in Seq(Node) /\ hnode \in Node
  BY DEF TypeOK
<1>4. Len(resetQueue') = Len(resetQueue) + 1
  BY <1>3
<1>5. ASSUME NEW i \in 1..Len(resetQueue')
      PROVE  resetQueue'[i].id = Begun + i
  <2>1. CASE i \in 1..Len(resetQueue)
    <3>1. resetQueue'[i] = resetQueue[i]
      BY <1>3, <2>1
    <3> QED BY <2>1, <3>1 DEF Order
  <2>2. CASE i = Len(resetQueue) + 1
    <3>1. resetQueue'[i] = hnode
      BY <1>3, <2>2
    <3> QED BY <1>2, <1>3, <2>2, <3>1 DEF Order
  <2> QED BY <1>3, <1>4, <2>1, <2>2
<1>6. events' = Begun + Len(resetQueue')
  BY <1>2, <1>3, <1>4 DEF Order
<1>7. \A t \in Executing' : xnode'[t].id = done' + 1 /\ Executing' = {t}
  BY <1>1 DEF Order, xVars
<1>8. Begun' + Len(resetQueue') \in Nat
  BY <1>1, <1>2, <1>3, <1>4
<1> QED BY <1>1, <1>5, <1>6, <1>7, <1>8 DEF Order
(* Nothing was received, queued or begun yet.                               *)
LEMMA InitOrder == Init => Order
<1> SUFFICES ASSUME Init PROVE Order
  OBVIOUS
<1>1. Executing = {} /\ Begun = 0
  BY DEF Init, Executing, Begun
<1>2. Len(resetQueue) = 0
  BY DEF Init
<1> QED BY <1>1, <1>2 DEF Init, Order

(* Every step keeps the order: the event thread numbers and queues the nodes, *)
(* the worker takes the first, and either executes one at a time.           *)
LEMMA StepOrder ==
    ASSUME TypeOK, DeferInv, Order, [Next]_vars
    PROVE  Order'
<1>0. /\ events \in Nat /\ done \in Nat /\ Begun \in Nat
      /\ resetQueue \in Seq(Node) /\ hnode \in Node
      /\ "handler" \in Executors /\ "worker" \in Executors
  BY DEF TypeOK, Begun, Executors
<1>1. ASSUME NEW e \in Events, ReceiveEvent(e)
      PROVE  Order'
  <2>1. /\ hpc = "idle" /\ hpc' = "queue"
        /\ events' = events + 1 /\ hnode' = NodeFor(e, lastEvent)
        /\ UNCHANGED <<deferVars, xVars>>
    BY <1>1 DEF ReceiveEvent
  <2>2. hnode'.id = events + 1
    BY <2>1 DEF NodeFor
  <2>3. Begun' = Begun /\ Executing' = Executing
    BY <2>1 DEF xVars, Begun, Executing
  <2>4. events = Begun + Len(resetQueue)
    BY <1>0, <2>1 DEF Order
  <2> QED BY <1>0, <2>1, <2>2, <2>3, <2>4 DEF Order, deferVars, xVars
<1>2. CASE HandlerStep
  <2>0. HandlerNext # "queue"
    BY DEF HandlerNext
  <2>1. CASE QueueToWorker
    BY <2>0, <2>1, QueuedInOrder DEF QueueToWorker
  <2>2. CASE StartWorker
    BY <2>0, <2>2, QueuedInOrder DEF StartWorker
  <2>3. CASE ExecuteInline
    <3>1. /\ hpc = "queue" /\ hpc' = "inline" /\ ~running
          /\ Start("handler", hnode) /\ UNCHANGED <<resetQueue, events>>
      BY <2>3 DEF ExecuteInline
    <3>2. worker = "none" /\ Len(resetQueue) = 0
      BY <3>1 DEF DeferInv
    <3>3. Executing = {} /\ Begun = done
      BY <1>0, <3>1, <3>2, NothingExecutes DEF Begun
    <3>4. hnode.id = done + 1 /\ events = done + 1
      BY <1>0, <3>1, <3>2, <3>3 DEF Order
    <3>5. Executing' = {"handler"} /\ xnode'["handler"] = hnode /\ done' = done
      BY <1>0, <3>1, <3>3, BeginsAlone
    <3>6. Begun' = done + 1
      BY <3>5 DEF Begun
    <3> QED BY <1>0, <3>1, <3>2, <3>4, <3>5, <3>6 DEF Order
  <2>4. CASE InlineDone
    <3>1. /\ hpc = "inline" /\ hpc' # "queue"
          /\ UNCHANGED <<events, resetQueue, xVars>>
      BY <2>0, <2>4 DEF InlineDone
    <3>2. Begun' = Begun /\ Executing' = Executing
      BY <3>1 DEF xVars, Begun, Executing
    <3> QED BY <3>1, <3>2 DEF Order, xVars
  <2> QED BY <1>2, <2>1, <2>2, <2>3, <2>4 DEF HandlerStep
<1>3. CASE WorkerStep
  <2>1. CASE WorkerDequeues
    <3>1. /\ worker = "loop" /\ resetQueue # <<>>
          /\ Start("worker", Head(resetQueue)) /\ resetQueue' = Tail(resetQueue)
          /\ UNCHANGED hVars
      BY <2>1 DEF WorkerDequeues
    <3>2. Executing = {} /\ Begun = done
      BY <1>0, <3>1, NothingExecutes DEF Begun
    <3>3. /\ Head(resetQueue) = resetQueue[1] /\ Head(resetQueue) \in Node
          /\ Len(resetQueue) \in Nat \ {0} /\ Len(resetQueue') = Len(resetQueue) - 1
          /\ \A i \in 1..Len(resetQueue') : resetQueue'[i] = resetQueue[i + 1]
      BY <1>0, <3>1
    <3>4. /\ Executing' = {"worker"} /\ done' = done
          /\ xnode'["worker"] = resetQueue[1]
      BY <1>0, <3>1, <3>2, <3>3, BeginsAlone
    <3>5. Begun' = done + 1
      BY <3>4 DEF Begun
    <3>6. \A i \in 1..Len(resetQueue) : resetQueue[i].id = done + i
      BY <3>2 DEF Order
    <3>7. ASSUME NEW i \in 1..Len(resetQueue')
          PROVE  resetQueue'[i].id = Begun' + i
      <4>1. i + 1 \in 1..Len(resetQueue)
        BY <3>3
      <4> QED BY <1>0, <3>3, <3>5, <3>6, <4>1
    <3>8. xnode'["worker"].id = done' + 1
      BY <3>3, <3>4, <3>6
    <3>9. Begun' + Len(resetQueue') = Begun + Len(resetQueue)
      BY <1>0, <3>2, <3>3, <3>5
    <3> QED BY <3>1, <3>4, <3>7, <3>8, <3>9 DEF Order, hVars
  <2>2. CASE WorkerFinishes
    <3>1. UNCHANGED <<hVars, resetQueue, xVars>>
      BY <2>2 DEF WorkerFinishes
    <3> QED BY <3>1, OrderKept DEF hVars, xVars, Executing
  <2>3. CASE NodeDone
    <3>1. UNCHANGED <<hVars, resetQueue, xVars>>
      BY <2>3 DEF NodeDone
    <3> QED BY <3>1, OrderKept DEF hVars, xVars, Executing
  <2> QED BY <1>3, <2>1, <2>2, <2>3 DEF WorkerStep
<1>4. ASSUME NEW t \in Executors, NodeStep(t)
      PROVE  Order'
  <2>1. CASE FinishNode(t)
    <3>1. /\ xpc[t] = "end" /\ xpc' = [xpc EXCEPT ![t] = "none"]
          /\ done' = done + 1 /\ UNCHANGED <<hVars, deferVars>>
      BY <2>1 DEF FinishNode, At, Goto
    <3>2. Executing = {t} /\ Begun = done + 1
      BY <3>1 DEF Order, Executing, Begun
    <3>3. \A u \in Executors : xpc'[u] = "none"
      <4>1. \A u \in Executors : u # t => xpc[u] = "none"
        BY <3>2 DEF Executing
      <4> QED BY <3>1, <4>1 DEF TypeOK
    <3>4. Executing' = {} /\ Begun' = Begun
      BY <1>0, <3>1, <3>2, <3>3 DEF Executing, Begun
    <3> QED BY <3>1, <3>4 DEF Order, hVars, deferVars
  <2>2. CASE InNode(t)
    <3>1. PICK s \in Steps \ {"none"} : xpc' = [xpc EXCEPT ![t] = s]
      BY <2>2 DEF InNode
    <3>2. \A u \in Executors : xpc'[u] # "none" <=> xpc[u] # "none"
      BY <2>2, <3>1 DEF InNode, TypeOK
    <3>3. Executing' = Executing
      BY <3>2 DEF Executing
    <3> QED BY <2>2, <3>3, OrderKept DEF InNode, NodeFrame, hVars, deferVars
  <2> QED BY <1>4, <2>1, <2>2, NodeSteps
<1>5. ASSUME NEW t \in Restarters, RestartStep(t)
      PROVE  Order'
  <2>1. InRestart(t)
    BY <1>5, RestartSteps
  <2>2. \A u \in Executors : xpc'[u] # "none" <=> xpc[u] # "none"
    BY <2>1 DEF InRestart, TypeOK
  <2>3. Executing' = Executing
    BY <2>2 DEF Executing
  <2> QED BY <2>1, <2>3, OrderKept DEF InRestart, RestartFrame, hVars, deferVars
<1>6. CASE RequestPlatformShutdown
  BY <1>6, OrderKept DEF RequestPlatformShutdown, hVars, deferVars, xVars, Executing
<1>7. CASE UNCHANGED vars
  BY <1>7, OrderKept DEF vars, hVars, deferVars, xVars, Executing
<1> QED BY <1>1, <1>2, <1>3, <1>4, <1>5, <1>6, <1>7 DEF Next

(* The nodes are executed one at a time, each once, in the order of the     *)
(* events that ModemManagerEventHandler received, whether the worker or the *)
(* event thread executes them: for any number of events.                    *)
THEOREM NodesInOrder == Spec => []InEventOrder
<1>1. Spec => []Order
  BY InitOrder, StepOrder, LifeCycleTypeCorrect, PTL DEF Spec
<1> QED BY <1>1, OrderIsInEventOrder, PTL
-----------------------------------------------------------------------------
(* A modem which left the up state is always cleaned up after.              *)
(* ModemManagerEventHandler decides at the time of an event, from the event *)
(* before, whether its node resets the system, and the node is executed     *)
(* later, after others, by another thread.  The argument is therefore about *)
(* the nodes that wait: what follows an up node resets the system, and      *)
(* nothing else puts it in service.                                         *)

(* The nodes not begun yet, in the order in which they will be.             *)
Waiting == IF hpc = "queue" THEN Append(resetQueue, hnode) ELSE resetQueue

Cleans(n) == n.reset /\ ~n.up

(* Before anything else begins the system is reset, or the modem is up.     *)
NextCleans == IF Waiting = <<>> THEN lastEvent = "UP" ELSE Cleans(Waiting[1])

Chain ==
    /\ \A i \in 1..(Len(Waiting) - 1) : Waiting[i].up => Cleans(Waiting[i + 1])
    /\ Waiting # <<>> => (Waiting[Len(Waiting)].up <=> lastEvent = "UP")

(* The system may be in service (or not spoofed).                           *)
Dirty == initOk \/ ~spoof

UpSteps == {"free", "unspoof", "open", "create", "start", "initialized",
            "initModem", "restart"}

(* What is known while t is in the middle of a node.                        *)
Placed(t) ==
    /\ xpc[t] \in {"spoof", "reset"} => Cleans(xnode[t])
    /\ xpc[t] \in {"cancel", "close"} => ~xnode[t].up
    /\ xpc[t] \in UpSteps => xnode[t].up
    /\ xpc[t] # "none" /\ xnode[t].up => NextCleans
    /\ xpc[t] # "none" /\ ~xnode[t].up =>
           (initOk => xpc[t] \in {"spoof", "reset"}) /\ (~spoof => xpc[t] = "spoof")
    /\ xpc[t] \in {"free", "unspoof", "open", "create", "start", "initialized"} => ~initOk
    /\ xpc[t] \in {"start", "initialized", "initModem"} => queues /\ cancel # "none"

(* Between two nodes, a system in service is reset before anything else.    *)
AtRestCleans == (\A t \in Executors : xpc[t] = "none") /\ Dirty => NextCleans

CleanInv ==
    /\ Chain
    /\ \A t \in Executors : Placed(t)
    /\ AtRestCleans
    /\ QueuesLive

-----------------------------------------------------------------------------
(* Nothing waits, and the system is out of service.                         *)
LEMMA InitClean == Init => CleanInv
<1> SUFFICES ASSUME Init PROVE CleanInv
  OBVIOUS
<1>1. Waiting = <<>> /\ ~Dirty /\ ~initOk
  BY DEF Init, Waiting, Dirty
<1>2. \A t \in Executors : xpc[t] = "none"
  BY DEF Init
<1>3. Chain
  <2>1. Len(Waiting) = 0
    BY <1>1
  <2> QED BY <1>1, <2>1 DEF Chain
<1>4. \A t \in Executors : Placed(t)
  BY <1>2 DEF Placed, UpSteps
<1> QED BY <1>1, <1>3, <1>4 DEF CleanInv, AtRestCleans, QueuesLive

(* Only one thread executes a node.                                         *)
LEMMA OneExecutes ==
    ASSUME TypeOK, DeferInv, NEW t \in Executors, NEW u \in Executors,
           xpc[t] # "none", u # t
    PROVE  xpc[u] = "none"
BY DEF DeferInv, Executors

(* A step of no node that puts nothing in service and frees nothing keeps   *)
(* the invariant.                                                           *)
LEMMA CleanKept ==
    ASSUME CleanInv, UNCHANGED <<xpc, xnode, lastEvent, Waiting, queues>>,
           cancel' = "none" => cancel = "none",
           initOk' => initOk, spoof => spoof'
    PROVE  CleanInv'
<1>1. NextCleans' = NextCleans /\ (Dirty' => Dirty)
  BY DEF NextCleans, Dirty
<1>2. Chain'
  BY DEF CleanInv, Chain
<1>3. \A t \in Executors : Placed(t)'
  BY <1>1 DEF CleanInv, Placed
<1>4. AtRestCleans' /\ QueuesLive'
  BY <1>1 DEF CleanInv, AtRestCleans, QueuesLive
<1> QED BY <1>2, <1>3, <1>4 DEF CleanInv

(* Nor does a step inside a node, if it keeps what is known of its thread.  *)
LEMMA InNodeClean ==
    ASSUME TypeOK, DeferInv, CleanInv, NEW t \in Executors,
           xpc[t] # "none", NEW s \in Steps \ {"none"},
           xpc' = [xpc EXCEPT ![t] = s], NodeFrame,
           NextCleans' = NextCleans => Placed(t)', QueuesLive'
    PROVE  CleanInv'
<1>1. Waiting' = Waiting /\ lastEvent' = lastEvent
  BY DEF NodeFrame, Waiting, hVars, deferVars
<1>2. NextCleans' = NextCleans /\ Chain'
  BY <1>1 DEF NextCleans, CleanInv, Chain
<1>3. xpc'[t] = s
  BY DEF TypeOK
<1>4. \A u \in Executors : Placed(u)'
  <2>1. ASSUME NEW u \in Executors, u # t PROVE Placed(u)'
    <3>1. xpc'[u] = "none"
      BY <2>1, OneExecutes DEF TypeOK
    <3> QED BY <3>1 DEF Placed, UpSteps
  <2> QED BY <1>2, <2>1
<1>5. AtRestCleans'
  BY <1>3 DEF AtRestCleans
<1> QED BY <1>2, <1>4, <1>5 DEF CleanInv

(* The steps inside a node, one by one: a node resets the system before     *)
(* anything else, and declares it initialised only with the queues there.   *)
LEMMA NodeStepClean ==
    ASSUME TypeOK, DeferInv, CleanInv, NEW t \in Executors, NodeStep(t), ~FinishNode(t)
    PROVE  CleanInv'
<1> USE DEF At, Goto
<1>0. /\ Placed(t) /\ QueuesLive /\ xpc \in [Executors -> Steps]
      /\ xnode \in [Executors -> Node]
  BY DEF CleanInv, TypeOK, Steps
<1>1. CASE SpoofOn(t)
  <2>1. /\ xpc[t] = "spoof" /\ xpc' = [xpc EXCEPT ![t] = "reset"] /\ NodeFrame
        /\ spoof' = TRUE /\ UNCHANGED <<initOk, queues, cancel, xnode>>
    BY <1>1 DEF SpoofOn, NodeFrame
  <2>2. NextCleans' = NextCleans => Placed(t)'
    BY <1>0, <2>1 DEF Placed, UpSteps, Cleans
  <2>3. QueuesLive'
    BY <1>0, <2>1 DEF QueuesLive
  <2> QED BY <2>1, <2>2, <2>3, InNodeClean DEF Steps
<1>2. CASE ResetSystemState(t)
  <2>1. /\ xpc[t] = "reset" /\ NodeFrame
        /\ initOk' = FALSE /\ UNCHANGED <<spoof, queues, cancel, xnode>>
    BY <1>2 DEF ResetSystemState, NodeFrame
  <2>2. PICK s \in {"cancel", "end"} : xpc' = [xpc EXCEPT ![t] = s]
    BY <1>2 DEF ResetSystemState
  <2>3. xpc'[t] \in {"cancel", "end"}
    BY <1>0, <2>2
  <2>4. NextCleans' = NextCleans => Placed(t)'
    BY <1>0, <2>1, <2>3 DEF Placed, UpSteps, Cleans
  <2>5. QueuesLive'
    BY <2>1 DEF QueuesLive
  <2> QED BY <2>1, <2>2, <2>4, <2>5, InNodeClean DEF Steps
<1>3. CASE SignalCancel(t)
  <2>1. /\ xpc[t] = "cancel" /\ xpc' = [xpc EXCEPT ![t] = "close"] /\ NodeFrame
        /\ UNCHANGED <<spoof, initOk, queues, xnode>>
        /\ cancel # "none" => cancel' # "none"
    BY <1>3 DEF SignalCancel, NodeFrame
  <2>2. NextCleans' = NextCleans => Placed(t)'
    BY <1>0, <2>1 DEF Placed, UpSteps
  <2>3. QueuesLive'
    BY <1>0, <2>1 DEF QueuesLive
  <2> QED BY <2>1, <2>2, <2>3, InNodeClean DEF Steps
<1>4. CASE CloseChannelPorts(t)
  <2>1. /\ xpc[t] = "close" /\ xpc' = [xpc EXCEPT ![t] = "end"] /\ NodeFrame
        /\ UNCHANGED <<spoof, initOk, queues, cancel, xnode>>
    BY <1>4 DEF CloseChannelPorts, NodeFrame
  <2>2. NextCleans' = NextCleans => Placed(t)'
    BY <1>0, <2>1 DEF Placed, UpSteps
  <2>3. QueuesLive'
    BY <1>0, <2>1 DEF QueuesLive
  <2> QED BY <2>1, <2>2, <2>3, InNodeClean DEF Steps
<1>5. CASE ResetChannelInfo(t)
  <2>1. /\ xpc[t] = "free" /\ xpc' = [xpc EXCEPT ![t] = "unspoof"] /\ NodeFrame
        /\ UNCHANGED <<spoof, initOk, xnode>>
    BY <1>5 DEF ResetChannelInfo, NodeFrame
  <2>2. NextCleans' = NextCleans => Placed(t)'
    BY <1>0, <2>1 DEF Placed, UpSteps
  <2>3. QueuesLive'
    BY <1>0, <2>1 DEF QueuesLive, Placed
  <2> QED BY <2>1, <2>2, <2>3, InNodeClean DEF Steps
<1>6. CASE SpoofOff(t)
  <2>1. /\ xpc[t] = "unspoof" /\ xpc' = [xpc EXCEPT ![t] = "open"] /\ NodeFrame
        /\ UNCHANGED <<initOk, queues, cancel, xnode>>
    BY <1>6 DEF SpoofOff, NodeFrame
  <2>2. NextCleans' = NextCleans => Placed(t)'
    BY <1>0, <2>1 DEF Placed, UpSteps
  <2>3. QueuesLive'
    BY <1>0, <2>1 DEF QueuesLive
  <2> QED BY <2>1, <2>2, <2>3, InNodeClean DEF Steps
<1>7. CASE OpenPort(t)
  <2>1. /\ xpc[t] = "open" /\ NodeFrame
        /\ UNCHANGED <<spoof, initOk, queues, cancel, xnode>>
    BY <1>7 DEF OpenPort, NodeFrame
  <2>2. PICK s \in {"create", "open"} : xpc' = [xpc EXCEPT ![t] = s]
    BY <1>7 DEF OpenPort
  <2>3. xpc'[t] \in {"create", "open"}
    BY <1>0, <2>2
  <2>4. NextCleans' = NextCleans => Placed(t)'
    BY <1>0, <2>1, <2>3 DEF Placed, UpSteps
  <2>5. QueuesLive'
    BY <1>0, <2>1 DEF QueuesLive
  <2> QED BY <2>1, <2>2, <2>4, <2>5, InNodeClean DEF Steps
<1>8. CASE OpenFails(t)
  <2>1. /\ xpc[t] = "open" /\ xpc' = [xpc EXCEPT ![t] = "restart"] /\ NodeFrame
        /\ initOk' = FALSE /\ UNCHANGED <<spoof, queues, cancel, xnode>>
    BY <1>8 DEF OpenFails, NodeFrame
  <2>2. NextCleans' = NextCleans => Placed(t)'
    BY <1>0, <2>1 DEF Placed, UpSteps
  <2>3. QueuesLive'
    BY <2>1 DEF QueuesLive
  <2> QED BY <2>1, <2>2, <2>3, InNodeClean DEF Steps
<1>9. CASE CreateQueues(t)
  <2>1. /\ xpc[t] = "create" /\ xpc' = [xpc EXCEPT ![t] = "start"] /\ NodeFrame
        /\ queues' = TRUE /\ cancel' = "clear" /\ UNCHANGED <<spoof, initOk, xnode>>
    BY <1>9 DEF CreateQueues, NodeFrame
  <2>2. NextCleans' = NextCleans => Placed(t)'
    BY <1>0, <2>1 DEF Placed, UpSteps
  <2>3. QueuesLive'
    BY <2>1 DEF QueuesLive
  <2> QED BY <2>1, <2>2, <2>3, InNodeClean DEF Steps
<1>10. CASE StartThreads(t)
  <2>1. /\ xpc[t] = "start" /\ xpc' = [xpc EXCEPT ![t] = "initialized"] /\ NodeFrame
        /\ UNCHANGED <<spoof, initOk, queues, cancel, xnode>>
    BY <1>10 DEF StartThreads, NodeFrame
  <2>2. NextCleans' = NextCleans => Placed(t)'
    BY <1>0, <2>1 DEF Placed, UpSteps
  <2>3. QueuesLive'
    BY <1>0, <2>1 DEF QueuesLive
  <2> QED BY <2>1, <2>2, <2>3, InNodeClean DEF Steps
<1>11. CASE SetSystemInitialized(t)
  <2>1. /\ xpc[t] = "initialized" /\ xpc' = [xpc EXCEPT ![t] = "initModem"] /\ NodeFrame
        /\ initOk' = TRUE /\ UNCHANGED <<spoof, queues, cancel, xnode>>
    BY <1>11 DEF SetSystemInitialized, NodeFrame
  <2>2. NextCleans' = NextCleans => Placed(t)'
    BY <1>0, <2>1 DEF Placed, UpSteps
  <2>3. QueuesLive'
    BY <1>0, <2>1 DEF QueuesLive, Placed
  <2> QED BY <2>1, <2>2, <2>3, InNodeClean DEF Steps
<1>12. CASE InitializeModem(t)
  <2>1. /\ xpc[t] = "initModem" /\ xpc' = [xpc EXCEPT ![t] = "end"] /\ NodeFrame
        /\ UNCHANGED <<spoof, initOk, queues, cancel, xnode>>
    BY <1>12 DEF InitializeModem, NodeFrame, sysVars
  <2>2. NextCleans' = NextCleans => Placed(t)'
    BY <1>0, <2>1 DEF Placed, UpSteps
  <2>3. QueuesLive'
    BY <1>0, <2>1 DEF QueuesLive
  <2> QED BY <2>1, <2>2, <2>3, InNodeClean DEF Steps
<1>13. CASE InitializeModemFails(t)
  <2>1. /\ xpc[t] = "initModem" /\ xpc' = [xpc EXCEPT ![t] = "restart"] /\ NodeFrame
        /\ initOk' = FALSE /\ UNCHANGED <<spoof, queues, cancel, xnode>>
    BY <1>13 DEF InitializeModemFails, NodeFrame
  <2>2. NextCleans' = NextCleans => Placed(t)'
    BY <1>0, <2>1 DEF Placed, UpSteps
  <2>3. QueuesLive'
    BY <2>1 DEF QueuesLive
  <2> QED BY <2>1, <2>2, <2>3, InNodeClean DEF Steps
<1> QED BY <1>1, <1>2, <1>3, <1>4, <1>5, <1>6, <1>7, <1>8, <1>9, <1>10, <1>11,
           <1>12, <1>13 DEF NodeStep

(* A node that ends was no up node, and then the system is out of service,  *)
(* or what follows it cleans.                                               *)
LEMMA FinishClean ==
    ASSUME TypeOK, DeferInv, CleanInv, NEW t \in Executors, FinishNode(t)
    PROVE  CleanInv'
<1>1. /\ xpc[t] = "end" /\ xpc' = [xpc EXCEPT ![t] = "none"]
      /\ UNCHANGED <<hVars, deferVars, spoof, initOk, queues, cancel>>
  BY DEF FinishNode, At, Goto
<1>2. \A u \in Executors : xpc'[u] = "none"
  BY <1>1, OneExecutes DEF TypeOK
<1>3. Waiting' = Waiting /\ lastEvent' = lastEvent
  BY <1>1 DEF Waiting, hVars, deferVars
<1>4. NextCleans' = NextCleans /\ Chain'
  BY <1>3 DEF NextCleans, CleanInv, Chain
<1>5. Dirty => NextCleans
  BY <1>1 DEF CleanInv, Placed, Dirty
<1>6. AtRestCleans' /\ QueuesLive'
  BY <1>1, <1>4, <1>5 DEF AtRestCleans, Dirty, CleanInv, QueuesLive
<1>7. \A u \in Executors : Placed(u)'
  BY <1>2 DEF Placed, UpSteps
<1> QED BY <1>4, <1>6, <1>7 DEF CleanInv

(* RequestModemRestart takes the system out of service, by whomever it is.  *)
LEMMA RestartClean ==
    ASSUME TypeOK, DeferInv, CleanInv, NEW t \in Restarters, RestartStep(t)
    PROVE  CleanInv'
<1>1. InRestart(t)
  BY RestartSteps
<1>2. /\ initOk' => initOk
      /\ spoof => spoof'
  <2>1. CASE IgnoreRestart(t)
    BY <2>1 DEF IgnoreRestart
  <2>2. CASE TestAndSetSpoof(t)
    BY <2>2 DEF TestAndSetSpoof
  <2>3. CASE SetInitializationUnsuccessful(t)
    BY <2>3 DEF SetInitializationUnsuccessful
  <2>4. CASE SendRequestModemRecovery(t)
    BY <2>4 DEF SendRequestModemRecovery
  <2> QED BY <2>1, <2>2, <2>3, <2>4 DEF RestartStep
<1>3. /\ Waiting' = Waiting /\ UNCHANGED <<xnode, lastEvent, queues, cancel>>
  BY <1>1 DEF InRestart, RestartFrame, Waiting, hVars, deferVars
<1>4. CASE xpc' = xpc
  BY <1>2, <1>3, <1>4, CleanKept
<1>5. CASE /\ xpc["worker"] = "restart"
           /\ xpc' = [xpc EXCEPT !["worker"] = "end"]
  <2>0. "worker" \in Executors /\ Placed("worker")
    BY DEF CleanInv, Executors
  <2>1. NextCleans' = NextCleans /\ Chain'
    BY <1>3 DEF NextCleans, CleanInv, Chain
  <2>2. xpc'["worker"] = "end" /\ xnode["worker"].up /\ NextCleans
    BY <1>5, <2>0 DEF TypeOK, Placed, UpSteps
  <2>3. \A u \in Executors : Placed(u)'
    <3>1. ASSUME NEW u \in Executors, u # "worker" PROVE Placed(u)'
      <4>1. xpc'[u] = "none"
        BY <1>5, <2>0, <3>1, OneExecutes DEF TypeOK
      <4> QED BY <4>1 DEF Placed, UpSteps
    <3>2. Placed("worker")'
      BY <1>3, <2>1, <2>2 DEF Placed, UpSteps
    <3> QED BY <3>1, <3>2
  <2>4. AtRestCleans' /\ QueuesLive'
    BY <1>2, <1>3, <2>0, <2>2 DEF AtRestCleans, CleanInv, QueuesLive
  <2> QED BY <2>1, <2>3, <2>4 DEF CleanInv
<1> QED BY <1>1, <1>4, <1>5 DEF InRestart

(* The first of the waiting nodes begins.                                   *)
LEMMA BeginClean ==
    ASSUME TypeOK, CleanInv, \A u \in Executors : xpc[u] = "none",
           NEW t \in Executors, NEW n \in Node, Start(t, n),
           Waiting \in Seq(Node), Waiting # <<>>, n = Waiting[1],
           Waiting' = Tail(Waiting), lastEvent' = lastEvent, UNCHANGED sysVars
    PROVE  CleanInv'
<1>1. /\ xnode'[t] = n /\ xpc'[t] = FirstStep(n)
      /\ \A u \in Executors : u # t => xpc'[u] = "none"
  <2>1. xpc' = [xpc EXCEPT ![t] = FirstStep(n)] /\ xnode' = [xnode EXCEPT ![t] = n]
    BY DEF Start
  <2> QED BY <2>1 DEF TypeOK
<1>2. /\ Len(Waiting) \in Nat \ {0} /\ Len(Waiting') = Len(Waiting) - 1
      /\ \A i \in 1..Len(Waiting') : Waiting'[i] = Waiting[i + 1]
  OBVIOUS
<1>3. Chain'
  <2>1. ASSUME NEW i \in 1..(Len(Waiting') - 1), Waiting'[i].up
        PROVE  Cleans(Waiting'[i + 1])
    <3>1. /\ i + 1 \in 1..(Len(Waiting) - 1)
          /\ Waiting'[i] = Waiting[i + 1] /\ Waiting'[i + 1] = Waiting[i + 1 + 1]
      BY <1>2
    <3> QED BY <2>1, <3>1 DEF CleanInv, Chain
  <2>2. ASSUME Waiting' # <<>>
        PROVE  Waiting'[Len(Waiting')].up <=> lastEvent = "UP"
    <3>1. Len(Waiting') # 0
      BY <2>2, <1>2
    <3>2. Waiting'[Len(Waiting')] = Waiting[Len(Waiting)]
      BY <1>2, <3>1
    <3> QED BY <3>2 DEF CleanInv, Chain
  <2> QED BY <2>1, <2>2 DEF Chain, Cleans
<1>4. n.up => NextCleans'
  <2>1. CASE Waiting' = <<>>
    <3>1. Len(Waiting) = 1
      BY <1>2, <2>1
    <3>2. n.up <=> lastEvent = "UP"
      BY <3>1 DEF CleanInv, Chain
    <3> QED BY <2>1, <3>2 DEF NextCleans
  <2>2. CASE Waiting' # <<>>
    <3>1. Len(Waiting') # 0
      BY <1>2, <2>2
    <3>2. 1 \in 1..(Len(Waiting) - 1) /\ Waiting'[1] = Waiting[2]
      BY <1>2, <3>1
    <3>3. n.up => Cleans(Waiting[2])
      BY <3>2 DEF CleanInv, Chain
    <3> QED BY <2>2, <3>2, <3>3 DEF NextCleans, Cleans
  <2> QED BY <2>1, <2>2
<1>5. Dirty => Cleans(n)
  BY DEF CleanInv, AtRestCleans, NextCleans
<1>6. UNCHANGED <<spoof, initOk, queues, cancel>>
  BY DEF sysVars
<1>7. Placed(t)'
  <2>1. n.up \in BOOLEAN /\ n.reset \in BOOLEAN /\ n.close \in BOOLEAN
    BY DEF Node
  <2>2. CASE Dirty
    <3>1. Cleans(n) /\ xpc'[t] = "spoof"
      BY <1>1, <1>5, <2>2 DEF Cleans, FirstStep
    <3>2. Cleans(xnode'[t]) /\ ~xnode'[t].up
      BY <1>1, <3>1 DEF Cleans
    <3> QED BY <3>1, <3>2 DEF Placed, UpSteps, Cleans
  <2>3. CASE ~Dirty
    <3>1. ~initOk' /\ spoof'
      BY <1>6, <2>3 DEF Dirty
    <3>2. /\ xpc'[t] \in {"free", "spoof", "cancel", "end"}
          /\ xpc'[t] = "free" <=> xnode'[t].up
          /\ xpc'[t] = "spoof" => Cleans(xnode'[t])
          /\ xnode'[t].up => NextCleans'
      BY <1>1, <1>4, <2>1 DEF FirstStep, Cleans
    <3> QED BY <3>1, <3>2 DEF Placed, UpSteps, Cleans
  <2> QED BY <2>2, <2>3
<1>8. \A u \in Executors : Placed(u)'
  <2>1. ASSUME NEW u \in Executors, u # t PROVE Placed(u)'
    BY <1>1, <2>1 DEF Placed, UpSteps
  <2> QED BY <1>7, <2>1
<1>9. xpc'[t] # "none"
  BY <1>1 DEF FirstStep
<1>10. AtRestCleans' /\ QueuesLive'
  BY <1>6, <1>9 DEF AtRestCleans, CleanInv, QueuesLive
<1> QED BY <1>3, <1>8, <1>10 DEF CleanInv

(* The node of the first event after MODEM_UP resets the system, whichever  *)
(* event it is: what was to be cleaned first still is.                      *)
LEMMA ReceiveNextCleans ==
    ASSUME TypeOK, NextCleans, NEW e \in Events, ReceiveEvent(e)
    PROVE  NextCleans'
<1>1. /\ hpc = "idle" /\ hpc' = "queue" /\ resetQueue' = resetQueue
      /\ lastEvent' = e /\ e # lastEvent /\ hnode' = NodeFor(e, lastEvent)
  BY DEF ReceiveEvent, deferVars
<1>2. lastEvent = "UP" => Cleans(hnode')
  BY <1>1 DEF NodeFor, Events, Cleans
<1>3. /\ Waiting = resetQueue /\ Waiting' = Append(resetQueue, hnode')
      /\ resetQueue \in Seq(Node) /\ hnode' \in Node
  BY <1>1, NodeForType DEF Waiting, TypeOK
<1>4. /\ Waiting = <<>> => Waiting'[1] = hnode'
      /\ Waiting # <<>> => Waiting'[1] = Waiting[1]
      /\ Waiting' # <<>>
  <2>1. Waiting # <<>> => 1 \in 1..Len(Waiting)
    BY <1>3
  <2> QED BY <1>3, <2>1
<1> QED BY <1>2, <1>4 DEF NextCleans, Cleans

(* And MODEM_UP does not follow itself.                                     *)
LEMMA ReceiveClean ==
    ASSUME TypeOK, CleanInv, NEW e \in Events, ReceiveEvent(e)
    PROVE  CleanInv'
<1>1. /\ hpc = "idle" /\ hpc' = "queue" /\ resetQueue' = resetQueue
      /\ lastEvent' = e /\ e # lastEvent /\ MmgrMaySend(e)
      /\ hnode' = NodeFor(e, lastEvent)
      /\ UNCHANGED <<spoof, initOk, queues, cancel, xpc, xnode>>
  BY DEF ReceiveEvent, sysVars, deferVars, xVars
<1>2. /\ hnode'.up <=> e = "UP"
      /\ lastEvent = "UP" => Cleans(hnode')
  <2>1. hnode'.up <=> e = "UP"
    BY <1>1 DEF NodeFor
  <2>2. lastEvent = "UP" => hnode'.reset
    BY <1>1 DEF NodeFor, Events
  <2>3. lastEvent = "UP" => e # "UP"
    BY <1>1
  <2> QED BY <2>1, <2>2, <2>3 DEF Cleans
<1>3. /\ Waiting = resetQueue /\ Waiting' = Append(resetQueue, hnode')
      /\ resetQueue \in Seq(Node) /\ hnode' \in Node
  BY <1>1, NodeForType DEF Waiting, TypeOK
<1>4. /\ Len(Waiting) \in Nat /\ Len(Waiting') = Len(Waiting) + 1
      /\ \A i \in 1..Len(Waiting) : Waiting'[i] = Waiting[i]
      /\ Waiting'[Len(Waiting) + 1] = hnode' /\ Waiting' # <<>>
  BY <1>3
<1>5. NextCleans => NextCleans'
  BY ReceiveNextCleans
<1>6. Chain'
  <2>1. ASSUME NEW i \in 1..(Len(Waiting') - 1), Waiting'[i].up
        PROVE  Cleans(Waiting'[i + 1])
    <3>1. CASE i = Len(Waiting)
      <4>1. Waiting'[i] = Waiting[Len(Waiting)] /\ Waiting # <<>>
        BY <1>3, <1>4, <2>1, <3>1
      <4>2. lastEvent = "UP"
        BY <2>1, <4>1 DEF CleanInv, Chain
      <4> QED BY <1>2, <1>4, <3>1, <4>2
    <3>2. CASE i # Len(Waiting)
      <4>1. /\ i \in 1..(Len(Waiting) - 1) /\ Waiting'[i] = Waiting[i]
            /\ Waiting'[i + 1] = Waiting[i + 1]
        BY <1>4, <2>1, <3>2
      <4> QED BY <2>1, <4>1 DEF CleanInv, Chain
    <3> QED BY <3>1, <3>2
  <2>2. Waiting'[Len(Waiting')].up <=> lastEvent' = "UP"
    BY <1>1, <1>2, <1>4
  <2> QED BY <2>1, <2>2 DEF Chain, Cleans
<1>7. \A t \in Executors : Placed(t)'
  BY <1>1, <1>5 DEF CleanInv, Placed
<1>8. AtRestCleans' /\ QueuesLive'
  BY <1>1, <1>5 DEF AtRestCleans, Dirty, CleanInv, QueuesLive
<1> QED BY <1>6, <1>7, <1>8 DEF CleanInv

(* Every step keeps the invariant.                                          *)
LEMMA StepClean ==
    ASSUME TypeOK, DeferInv, CleanInv, [Next]_vars
    PROVE  CleanInv'
<1>0. /\ resetQueue \in Seq(Node) /\ hnode \in Node
      /\ "handler" \in Executors /\ "worker" \in Executors
  BY DEF TypeOK, Executors
<1>1. ASSUME NEW e \in Events, ReceiveEvent(e) PROVE CleanInv'
  BY <1>1, ReceiveClean
<1>2. CASE HandlerStep
  <2>0. HandlerNext # "queue"
    BY DEF HandlerNext
  <2>1. ASSUME hpc = "queue", hpc' # "queue", resetQueue' = Append(resetQueue, hnode),
               UNCHANGED <<xpc, xnode, lastEvent, sysVars>>
        PROVE  CleanInv'
    <3>1. Waiting' = Waiting
      BY <2>1 DEF Waiting
    <3> QED BY <2>1, <3>1, CleanKept DEF sysVars
  <2>2. CASE QueueToWorker
    BY <2>0, <2>1, <2>2 DEF QueueToWorker, xVars
  <2>3. CASE StartWorker
    BY <2>0, <2>1, <2>3 DEF StartWorker, xVars
  <2>4. CASE ExecuteInline
    <3>1. /\ hpc = "queue" /\ hpc' = "inline" /\ ~running /\ resetQueue' = resetQueue
          /\ Start("handler", hnode) /\ UNCHANGED <<lastEvent, sysVars>>
      BY <2>4 DEF ExecuteInline
    <3>2. worker = "none" /\ resetQueue = <<>>
      BY <3>1 DEF DeferInv
    <3>3. \A u \in Executors : xpc[u] = "none"
      BY <3>1, <3>2 DEF DeferInv, Executors
    <3>4. /\ Waiting = <<hnode>> /\ Waiting' = <<>> /\ Waiting \in Seq(Node)
          /\ Waiting # <<>> /\ hnode = Waiting[1] /\ Waiting' = Tail(Waiting)
      BY <1>0, <3>1, <3>2 DEF Waiting
    <3> QED BY <1>0, <3>1, <3>3, <3>4, BeginClean
  <2>5. CASE InlineDone
    <3>1. hpc = "inline" /\ hpc' # "queue" /\ UNCHANGED <<resetQueue, lastEvent, sysVars, xVars>>
      BY <2>0, <2>5 DEF InlineDone
    <3>2. Waiting' = Waiting
      BY <3>1 DEF Waiting
    <3> QED BY <3>1, <3>2, CleanKept DEF sysVars, xVars
  <2> QED BY <1>2, <2>2, <2>3, <2>4, <2>5 DEF HandlerStep
<1>3. CASE WorkerStep
  <2>1. CASE WorkerDequeues
    <3>1. /\ worker = "loop" /\ resetQueue # <<>> /\ ~startLock
          /\ Start("worker", Head(resetQueue)) /\ resetQueue' = Tail(resetQueue)
          /\ UNCHANGED <<hVars, sysVars>>
      BY <2>1 DEF WorkerDequeues
    <3>2. \A u \in Executors : xpc[u] = "none"
      BY <3>1 DEF DeferInv, Executors
    <3>3. /\ Waiting \in Seq(Node) /\ Waiting # <<>> /\ Head(resetQueue) \in Node
          /\ Head(resetQueue) = Waiting[1]
      BY <1>0, <3>1 DEF Waiting
    <3>4. Waiting' = Tail(Waiting)
      <4>1. CASE hpc = "queue"
        <5>1. Waiting = Append(resetQueue, hnode) /\ Waiting' = Append(Tail(resetQueue), hnode)
          BY <3>1, <4>1 DEF Waiting, hVars
        <5> QED BY <1>0, <3>1, <5>1
      <4>2. CASE hpc # "queue"
        BY <3>1, <4>2 DEF Waiting, hVars
      <4> QED BY <4>1, <4>2
    <3> QED BY <1>0, <3>1, <3>2, <3>3, <3>4, BeginClean DEF hVars
  <2>2. CASE WorkerFinishes
    <3>1. UNCHANGED <<hVars, resetQueue, sysVars, xVars>>
      BY <2>2 DEF WorkerFinishes
    <3>2. Waiting' = Waiting
      BY <3>1 DEF Waiting, hVars
    <3> QED BY <3>1, <3>2, CleanKept DEF hVars, sysVars, xVars
  <2>3. CASE NodeDone
    <3>1. UNCHANGED <<hVars, resetQueue, sysVars, xVars>>
      BY <2>3 DEF NodeDone
    <3>2. Waiting' = Waiting
      BY <3>1 DEF Waiting, hVars
    <3> QED BY <3>1, <3>2, CleanKept DEF hVars, sysVars, xVars
  <2> QED BY <1>3, <2>1, <2>2, <2>3 DEF WorkerStep
<1>4. ASSUME NEW t \in Executors, NodeStep(t) PROVE CleanInv'
  BY <1>4, FinishClean, NodeStepClean
<1>5. ASSUME NEW t \in Restarters, RestartStep(t) PROVE CleanInv'
  BY <1>5, RestartClean
<1>6. CASE RequestPlatformShutdown \/ UNCHANGED vars
  <2>1. UNCHANGED <<hVars, resetQueue, sysVars, xVars>>
    BY <1>6 DEF RequestPlatformShutdown, vars, deferVars
  <2>2. Waiting' = Waiting
    BY <2>1 DEF Waiting, hVars
  <2> QED BY <2>1, <2>2, CleanKept DEF hVars, sysVars, xVars
<1> QED BY <1>1, <1>2, <1>3, <1>4, <1>5, <1>6 DEF Next

(* The system is put in service by up nodes alone, each over a system that  *)
(* was reset, and the node after an up node resets it.                      *)
THEOREM SystemIsCleaned == Spec => []CleanInv
<1> QED BY InitClean, StepClean, LifeCycleTypeCorrect, PTL DEF Spec

(* Whoever finds the system initialised finds the queues and the cancel     *)
(* event there: ResetChannelInfo frees them after SetInitializationUnsuc-   *)
(* cessful, whichever threads and events came in between.                   *)
THEOREM InitialisedHasQueues == Spec => []QueuesLive
<1>1. CleanInv => QueuesLive
  BY DEF CleanInv
<1> QED BY <1>1, SystemIsCleaned, PTL

(* When everything is handled no node waits.                                *)
LEMMA NothingWaits ==
    ASSUME TypeOK, InEventOrder, Quiescent
    PROVE  Waiting = <<>> /\ \A t \in Executors : xpc[t] = "none"
<1>1. Executing = {} /\ hpc # "queue" /\ events = done
  BY DEF Quiescent
<1>2. Len(resetQueue) = 0
  <2>1. events = done + Len(resetQueue)
    BY <1>1 DEF InEventOrder, TypeOK
  <2> QED BY <1>1, <2>1 DEF TypeOK
<1> QED BY <1>1, <1>2 DEF Waiting, TypeOK, Executing

(* The invariant is what DownMeansSpoofed needs.                            *)
LEMMA CleanMeansSpoofed ==
    ASSUME TypeOK, InEventOrder, CleanInv
    PROVE  DownMeansSpoofed
<1> SUFFICES ASSUME Quiescent, lastEvent # "UP"
             PROVE  spoof /\ ~initOk
  BY DEF DownMeansSpoofed
<1>1. ~Dirty
  BY NothingWaits DEF CleanInv, AtRestCleans, NextCleans
<1> QED BY <1>1 DEF Dirty

(* Once its events are handled, a modem that is not up is spoofed and not   *)
(* initialised, for any number of events and of clean-up requests, although *)
(* each node decides from the event before its own whether to reset.        *)
THEOREM DownIsSpoofed == Spec => []DownMeansSpoofed
<1>1. TypeOK /\ InEventOrder /\ CleanInv => DownMeansSpoofed
  BY CleanMeansSpoofed
<1> QED BY <1>1, LifeCycleTypeCorrect, NodesInOrder, SystemIsCleaned, PTL
-----------------------------------------------------------------------------
(* Nothing came after the last MODEM_UP, and its node was begun.            *)
UpIsLast == lastEvent = "UP" /\ Waiting = <<>> /\ ~platformOff

(* A recovery was asked for since, or is about to be.                       *)
Recovering == recoveries > 0 \/ ~MutexFree

(* How far the node of the last MODEM_UP has brought the system.            *)
Served(t) ==
    xpc[t] # "none" /\ UpIsLast =>
        /\ xnode[t].up
        /\ xpc[t] \notin {"free", "unspoof"} /\ spoof => Recovering
        /\ xpc[t] \in {"create", "start", "initialized", "initModem"} => ports = NPorts
        /\ xpc[t] \in {"initialized", "initModem"} => threads
        /\ xpc[t] = "initModem" /\ ~initOk => Recovering
        /\ xpc[t] = "end" => Serving \/ Recovering

AtRestServes == (\A t \in Executors : xpc[t] = "none") /\ UpIsLast => Serving \/ Recovering

ServeInv == AtRestServes /\ \A t \in Executors : Served(t)

LEMMA InitServe == Init => ServeInv
<1> SUFFICES ASSUME Init PROVE ServeInv
  OBVIOUS
<1>1. ~UpIsLast
  BY DEF Init, UpIsLast
<1> QED BY <1>1 DEF ServeInv, AtRestServes, Served

(* A step of no node that asks for no recovery keeps the invariant.         *)
LEMMA ServeKept ==
    ASSUME ServeInv, UNCHANGED <<xpc, xnode, lastEvent, Waiting, sysVars, rpc, recoveries>>,
           platformOff => platformOff'
    PROVE  ServeInv'
<1>1. (UpIsLast' => UpIsLast) /\ Recovering' = Recovering /\ Serving' = Serving
  BY DEF UpIsLast, Recovering, MutexFree, Serving, sysVars
<1> QED BY <1>1 DEF ServeInv, AtRestServes, Served, sysVars

(* The steps inside a node: each failure leads to RequestModemRestart.      *)
LEMMA NodeStepServe ==
    ASSUME TypeOK, DeferInv, CleanInv, ServeInv, NEW t \in Executors,
           NodeStep(t), ~FinishNode(t)
    PROVE  ServeInv'
<1> USE DEF At, Goto
<1>0. /\ Placed(t) /\ Served(t) /\ xpc \in [Executors -> Steps]
      /\ ports \in 0..NPorts /\ NPorts \in Nat
  BY ModemResetAssumption DEF CleanInv, ServeInv, TypeOK, Steps
<1>1. PICK s \in Steps \ {"none"} : xpc' = [xpc EXCEPT ![t] = s] /\ NodeFrame /\ xpc[t] # "none"
  BY NodeSteps DEF InNode
<1>2. /\ UNCHANGED <<Waiting, lastEvent, platformOff, xnode, rpc, recoveries>>
      /\ xpc'[t] = s
  BY <1>0, <1>1 DEF NodeFrame, Waiting, hVars, deferVars, rVars
<1>3. UpIsLast' = UpIsLast /\ Recovering' = Recovering
  BY <1>2 DEF UpIsLast, Recovering, MutexFree
<1>4. ASSUME UpIsLast PROVE Served(t)'
  <2>0. /\ xnode[t].up /\ xpc[t] \notin {"spoof", "reset", "cancel", "close"}
        /\ xnode'[t] = xnode[t]
    BY <1>0, <1>1, <1>2, <1>4 DEF Served, Placed, Cleans
  <2> USE <1>0, <1>2, <1>3, <1>4, <2>0 DEF Served
  <2>1. CASE ResetChannelInfo(t)
    BY <2>1 DEF ResetChannelInfo
  <2>2. CASE SpoofOff(t)
    BY <2>2 DEF SpoofOff
  <2>3. CASE OpenPort(t)
    <3>1. /\ xpc[t] = "open" /\ ports' = ports + 1 /\ ports < NPorts /\ spoof' = spoof
          /\ xpc'[t] = (IF ports' = NPorts THEN "create" ELSE "open")
      BY <2>3 DEF OpenPort
    <3> QED BY <3>1
  <2>4. CASE OpenFails(t)
    BY <2>4 DEF OpenFails
  <2>5. CASE CreateQueues(t)
    BY <2>5 DEF CreateQueues
  <2>6. CASE StartThreads(t)
    BY <2>6 DEF StartThreads
  <2>7. CASE SetSystemInitialized(t)
    BY <2>7 DEF SetSystemInitialized
  <2>8. CASE InitializeModem(t)
    <3>1. /\ xpc[t] = "initModem" /\ initOk /\ queues /\ threads /\ ports = NPorts
          /\ spoof => Recovering
      BY <2>8 DEF InitializeModem, Placed
    <3>2. /\ UNCHANGED <<initOk, spoof, queues, threads, ports>> /\ xpc'[t] = "end"
      BY <2>8 DEF InitializeModem, sysVars
    <3>3. Serving' \/ Recovering
      BY <3>1, <3>2 DEF Serving
    <3> QED BY <3>1, <3>2, <3>3
  <2>9. CASE InitializeModemFails(t)
    BY <2>9 DEF InitializeModemFails
  <2> QED BY <2>1, <2>2, <2>3, <2>4, <2>5, <2>6, <2>7, <2>8, <2>9
          DEF NodeStep, SpoofOn, ResetSystemState, SignalCancel, CloseChannelPorts
<1>5. \A u \in Executors : Served(u)'
  <2>1. ASSUME NEW u \in Executors, u # t PROVE Served(u)'
    <3>1. xpc'[u] = "none"
      BY <1>0, <1>1, <2>1, OneExecutes
    <3> QED BY <3>1 DEF Served
  <2>2. Served(t)'
    BY <1>3, <1>4 DEF Served
  <2> QED BY <2>1, <2>2
<1>6. AtRestServes'
  BY <1>2 DEF AtRestServes
<1> QED BY <1>5, <1>6 DEF ServeInv

(* The end of a node.                                                       *)
LEMMA FinishServe ==
    ASSUME TypeOK, DeferInv, ServeInv, NEW t \in Executors, FinishNode(t)
    PROVE  ServeInv'
<1>1. /\ xpc[t] = "end" /\ xpc' = [xpc EXCEPT ![t] = "none"]
      /\ UNCHANGED <<hVars, deferVars, spoof, initOk, queues, ports, threads, rVars, platformOff>>
  BY DEF FinishNode, At, Goto
<1>2. \A u \in Executors : xpc'[u] = "none"
  BY <1>1, OneExecutes DEF TypeOK
<1>3. UpIsLast' = UpIsLast /\ Recovering' = Recovering /\ Serving' = Serving
  BY <1>1 DEF UpIsLast, Recovering, MutexFree, Serving, Waiting, hVars, deferVars, rVars
<1>4. UpIsLast => Serving \/ Recovering
  BY <1>1 DEF ServeInv, Served
<1> QED BY <1>2, <1>3, <1>4 DEF ServeInv, AtRestServes, Served

(* RequestModemRestart takes the system out of service only on the way to a *)
(* recovery, and gives up only if another was before it.                    *)
LEMMA RestartRecovers ==
    ASSUME TypeOK, DeferInv, ServeInv, UpIsLast, NEW t \in Restarters, RestartStep(t)
    PROVE  /\ Recovering => Recovering'
           /\ Recovering' \/ UNCHANGED <<spoof, initOk>>
           /\ Recovering' \/ xpc' = xpc
<1>1. CASE IgnoreRestart(t)
  <2>1. /\ MutexFree /\ spoof /\ rpc[t] = "out" /\ rpc' = [rpc EXCEPT ![t] = "out"]
        /\ UNCHANGED <<spoof, initOk, recoveries>>
        /\ t = "worker" => xpc["worker"] = "restart"
        /\ t # "worker" => xpc' = xpc
    BY <1>1 DEF IgnoreRestart, Return, UpIsLast, At
  <2>2. rpc' = rpc
    BY <2>1 DEF TypeOK
  <2>3. Recovering' = Recovering
    BY <2>1, <2>2 DEF Recovering, MutexFree
  <2>4. t = "worker" => Recovering
    BY <2>1 DEF ServeInv, Served, Executors
  <2> QED BY <2>1, <2>3, <2>4
<1>2. CASE TestAndSetSpoof(t) \/ SetInitializationUnsuccessful(t)
  <2>1. rpc'[t] # "out"
    BY <1>2 DEF TestAndSetSpoof, SetInitializationUnsuccessful, TypeOK
  <2> QED BY <2>1 DEF Recovering, MutexFree
<1>3. CASE SendRequestModemRecovery(t)
  <2>1. recoveries' = recoveries + 1 /\ recoveries \in Nat
    BY <1>3 DEF SendRequestModemRecovery, UpIsLast, TypeOK
  <2>2. recoveries' > 0
    BY <2>1
  <2> QED BY <2>2 DEF Recovering
<1> QED BY <1>1, <1>2, <1>3 DEF RestartStep

LEMMA RestartServe ==
    ASSUME TypeOK, DeferInv, ServeInv, NEW t \in Restarters, RestartStep(t)
    PROVE  ServeInv'
<1>1. InRestart(t)
  BY RestartSteps
<1>2. /\ UNCHANGED <<Waiting, xnode, lastEvent, platformOff, queues, ports, threads>>
      /\ UpIsLast' = UpIsLast
  BY <1>1 DEF InRestart, RestartFrame, Waiting, hVars, deferVars, UpIsLast
<1>3. /\ \A u \in Executors : xpc'[u] = "none" <=> xpc[u] = "none"
      /\ \A u \in Executors : xpc'[u] = xpc[u] \/ (xpc[u] = "restart" /\ xpc'[u] = "end")
  BY <1>1 DEF InRestart, TypeOK
<1>4. CASE ~UpIsLast
  BY <1>2, <1>4 DEF ServeInv, AtRestServes, Served
<1>5. CASE UpIsLast
  <2>1. /\ Recovering => Recovering'
        /\ Recovering' \/ UNCHANGED <<spoof, initOk>>
        /\ Recovering' \/ xpc' = xpc
    BY <1>5, RestartRecovers
  <2>2. Serving \/ Recovering => Serving' \/ Recovering'
    BY <1>2, <2>1 DEF Serving
  <2>3. AtRestServes'
    BY <1>2, <1>3, <1>5, <2>2 DEF ServeInv, AtRestServes
  <2>4. ASSUME NEW u \in Executors PROVE Served(u)'
    BY <1>2, <1>3, <1>5, <2>1, <2>2 DEF ServeInv, Served
  <2> QED BY <2>3, <2>4 DEF ServeInv
<1> QED BY <1>4, <1>5

(* What is left of a sequence without its head.                             *)
LEMMA TailOf ==
    ASSUME NEW S, NEW s \in Seq(S), s # <<>>
    PROVE  /\ Len(s) \in Nat \ {0} /\ Len(Tail(s)) = Len(s) - 1
           /\ \A i \in 1..Len(Tail(s)) : Tail(s)[i] = s[i + 1]
           /\ Len(s) = 1 <=> Tail(s) = <<>>
           /\ \A i \in Nat : i + 1 = Len(s) => i = Len(Tail(s))
<1> DEFINE m == Len(s)
           n == Len(Tail(s))
<1>1. Tail(s) \in Seq(S) /\ n = m - 1 /\ \A i \in 1..n : Tail(s)[i] = s[i + 1]
  BY HeadTailProperties
<1>2. m \in Nat \ {0} /\ (Tail(s) = <<>> <=> n = 0)
  BY <1>1, EmptySeq
<1> HIDE DEF m, n
<1>3. (m = 1 <=> n = 0) /\ \A i \in Nat : i + 1 = m => i = n
  BY <1>1, <1>2
<1> QED BY <1>1, <1>2, <1>3 DEF m, n

(* The first of the waiting nodes is taken.                                 *)
FirstTaken ==
    /\ Waiting \in Seq(Node) /\ Waiting # <<>>
    /\ Waiting' = Tail(Waiting)

(* The node of MODEM_UP is the last to begin if MODEM_UP is the last event. *)
LEMMA BeginServe ==
    ASSUME TypeOK, CleanInv, \A u \in Executors : xpc[u] = "none",
           NEW t \in Executors, NEW n \in Node, Start(t, n),
           FirstTaken, n = Waiting[1], lastEvent' = lastEvent
    PROVE  ServeInv'
<1>1. /\ xnode'[t] = n /\ xpc'[t] = FirstStep(n)
      /\ \A u \in Executors : u # t => xpc'[u] = "none"
  <2>1. xpc' = [xpc EXCEPT ![t] = FirstStep(n)] /\ xnode' = [xnode EXCEPT ![t] = n]
    BY DEF Start
  <2> QED BY <2>1 DEF TypeOK
<1>2. Waiting # <<>> /\ (Len(Waiting) = 1 <=> Waiting' = <<>>)
  BY TailOf DEF FirstTaken
<1>3. UpIsLast' => n.up
  <2>1. ASSUME UpIsLast' PROVE n.up
    <3>1. Waiting' = <<>> /\ lastEvent = "UP"
      BY <2>1 DEF UpIsLast
    <3>2. Len(Waiting) = 1
      BY <1>2, <3>1
    <3> QED BY <3>1, <3>2 DEF CleanInv, Chain
  <2> QED BY <2>1
<1>4. Served(t)'
  <2>1. n.up => xpc'[t] = "free"
    BY <1>1 DEF FirstStep
  <2> QED BY <1>1, <1>3, <2>1 DEF Served
<1>5. \A u \in Executors : Served(u)'
  BY <1>1, <1>4 DEF Served
<1>6. AtRestServes'
  BY <1>1 DEF AtRestServes, FirstStep
<1> QED BY <1>5, <1>6 DEF ServeInv

LEMMA StepServe ==
    ASSUME TypeOK, DeferInv, CleanInv, ServeInv, [Next]_vars
    PROVE  ServeInv'
<1>0. /\ resetQueue \in Seq(Node) /\ hnode \in Node /\ HandlerNext # "queue"
      /\ "handler" \in Executors /\ "worker" \in Executors /\ platformOff \in BOOLEAN
  BY DEF TypeOK, Executors, HandlerNext
<1>1. ASSUME NEW e \in Events, ReceiveEvent(e) PROVE ServeInv'
  <2>1. /\ Waiting' = Append(resetQueue, hnode') /\ hnode' \in Node /\ resetQueue \in Seq(Node)
    BY <1>0, <1>1, NodeForType DEF ReceiveEvent, Waiting, deferVars
  <2>2. Waiting' # <<>>
    BY <2>1
  <2> QED BY <2>2 DEF UpIsLast, ServeInv, AtRestServes, Served
<1>2. CASE QueueToWorker \/ StartWorker
  <2>1. /\ hpc = "queue" /\ hpc' = HandlerNext /\ resetQueue' = Append(resetQueue, hnode)
        /\ UNCHANGED <<xpc, xnode, lastEvent, sysVars, rpc, recoveries, platformOff>>
    BY <1>2 DEF QueueToWorker, StartWorker, xVars, rVars
  <2>2. Waiting' = Waiting
    BY <1>0, <2>1 DEF Waiting
  <2> QED BY <2>1, <2>2, ServeKept
<1>3. CASE ExecuteInline
  <2>1. /\ hpc = "queue" /\ hpc' = "inline" /\ ~running /\ resetQueue' = resetQueue
        /\ Start("handler", hnode) /\ lastEvent' = lastEvent
    BY <1>3 DEF ExecuteInline
  <2>2. worker = "none" /\ resetQueue = <<>>
    BY <2>1 DEF DeferInv
  <2>3. \A u \in Executors : xpc[u] = "none"
    BY <2>1, <2>2 DEF DeferInv, Executors
  <2>4. /\ Waiting = <<hnode>> /\ Waiting' = <<>> /\ Waiting \in Seq(Node)
        /\ Waiting # <<>> /\ hnode = Waiting[1] /\ Waiting' = Tail(Waiting)
    BY <1>0, <2>1, <2>2 DEF Waiting
  <2> QED BY <1>0, <2>1, <2>3, <2>4, BeginServe DEF FirstTaken
<1>4. CASE WorkerDequeues
  <2>1. /\ worker = "loop" /\ resetQueue # <<>> /\ ~startLock
        /\ Start("worker", Head(resetQueue)) /\ resetQueue' = Tail(resetQueue)
        /\ UNCHANGED <<hpc, hnode, lastEvent>>
    BY <1>4 DEF WorkerDequeues, hVars
  <2>2. \A u \in Executors : xpc[u] = "none"
    BY <2>1 DEF DeferInv, Executors
  <2>3. /\ Waiting \in Seq(Node) /\ Waiting # <<>> /\ Head(resetQueue) \in Node
        /\ Head(resetQueue) = Waiting[1]
    BY <1>0, <2>1 DEF Waiting
  <2>4. Waiting' = Tail(Waiting)
    <3>1. CASE hpc = "queue"
      <4>1. Waiting = Append(resetQueue, hnode) /\ Waiting' = Append(Tail(resetQueue), hnode)
        BY <2>1, <3>1 DEF Waiting
      <4> QED BY <1>0, <2>1, <4>1
    <3>2. CASE hpc # "queue"
      BY <2>1, <3>2 DEF Waiting
    <3> QED BY <3>1, <3>2
  <2> QED BY <1>0, <2>1, <2>2, <2>3, <2>4, BeginServe DEF FirstTaken
<1>5. CASE \/ InlineDone \/ WorkerFinishes \/ NodeDone \/ RequestPlatformShutdown
           \/ UNCHANGED vars
  <2>1. /\ UNCHANGED <<resetQueue, hnode, lastEvent, sysVars, xpc, xnode, rpc, recoveries>>
        /\ hpc = "queue" <=> hpc' = "queue"
        /\ platformOff => platformOff'
    BY <1>0, <1>5 DEF InlineDone, WorkerFinishes, NodeDone, RequestPlatformShutdown, vars,
                      deferVars, hVars, xVars, rVars
  <2>2. Waiting' = Waiting
    BY <2>1 DEF Waiting
  <2> QED BY <2>1, <2>2, ServeKept
<1>6. ASSUME NEW t \in Executors, NodeStep(t) PROVE ServeInv'
  BY <1>6, FinishServe, NodeStepServe
<1>7. ASSUME NEW t \in Restarters, RestartStep(t) PROVE ServeInv'
  BY <1>7, RestartServe
<1> QED BY <1>1, <1>2, <1>3, <1>4, <1>5, <1>6, <1>7 DEF Next, HandlerStep, WorkerStep

(* Once its events are handled, a modem that is up serves requests or its   *)
(* recovery was asked for, for any number of ports, of events and of        *)
(* threads that ask for a clean-up: no failure is swallowed.                *)
THEOREM UpIsServedOrRecovers == Spec => []UpServesOrRecovers
<1>1. TypeOK /\ Order /\ ServeInv => UpServesOrRecovers
  <2> SUFFICES ASSUME TypeOK, Order, ServeInv, Quiescent, lastEvent = "UP", ~platformOff
               PROVE  Serving \/ recoveries > 0
    BY DEF UpServesOrRecovers
  <2>1. Executing = {} /\ hpc # "queue" /\ events = done /\ MutexFree
    BY DEF Quiescent
  <2>2. Len(resetQueue) = 0
    <3>1. events = done + Len(resetQueue)
      BY <2>1 DEF Order, Begun, TypeOK
    <3> QED BY <2>1, <3>1 DEF TypeOK
  <2>3. Waiting = <<>>
    BY <2>1, <2>2 DEF Waiting, TypeOK
  <2>4. \A t \in Executors : xpc[t] = "none"
    BY <2>1 DEF Executing
  <2> QED BY <2>1, <2>3, <2>4 DEF ServeInv, AtRestServes, UpIsLast, Recovering
<1>2. Spec => []ServeInv
  BY InitServe, StepServe, LifeCycleTypeCorrect, SystemIsCleaned, PTL DEF Spec
<1>3. Spec => []Order
  BY OrderIsInEventOrder, NodesInOrder, PTL
<1> QED BY <1>1, <1>2, <1>3, LifeCycleTypeCorrect, PTL
=============================================================================
