-------------------------- MODULE ModemStopProofs ---------------------------
(***************************************************************************)
(* Proofs that the channel threads are stopped in time: before the next     *)
(* MODEM_UP frees the queues and the cancel event they use, and before the  *)
(* MMGR is told that it may cut the modem's power.  The first rests on the  *)
(* MMGR: between two MODEM_UP it announces that the modem goes.             *)
(***************************************************************************)
EXTENDS ModemResetProofs, FiniteSetTheorems

Closes(n) == n.close /\ ~n.up

(* The modem went without an announcement, and no event is handled again.   *)
Departed == lastEvent \in {"OUT_OF_SERVICE", "REBOOT"}

(* Before anything else begins the ports are closed, or nothing else will.  *)
NextCloses ==
    IF Waiting = <<>> THEN lastEvent = "UP" \/ Departed
    ELSE Closes(Waiting[1]) \/ (Len(Waiting) = 1 /\ Departed)

CloseChain ==
    \A i \in 1..(Len(Waiting) - 1) :
        Waiting[i].up => Closes(Waiting[i + 1]) \/ (i + 1 = Len(Waiting) /\ Departed)

(* What is known of the threads while t is in the middle of a node.         *)
Stopped(t) ==
    /\ xpc[t] \in {"free", "unspoof", "open", "create", "start"} => ~threads
    /\ xpc[t] # "none" /\ xnode[t].up => NextCloses
    /\ xpc[t] # "none" /\ ~xnode[t].up /\ threads =>
           (Closes(xnode[t]) /\ xpc[t] # "end") \/ (Waiting = <<>> /\ Departed)

(* Between two nodes, running threads are stopped before anything else.     *)
AtRestCloses == (\A t \in Executors : xpc[t] = "none") /\ threads => NextCloses

StopInv ==
    /\ CloseChain
    /\ \A t \in Executors : Stopped(t)
    /\ AtRestCloses
    /\ Departed => hpc # "idle"
-----------------------------------------------------------------------------
(* Nothing runs and nothing waits.                                          *)
LEMMA InitStop == Init => StopInv
<1> SUFFICES ASSUME Init PROVE StopInv
  OBVIOUS
<1>1. Waiting = <<>> /\ ~threads /\ ~Departed /\ \A t \in Executors : xpc[t] = "none"
  BY DEF Init, Waiting, Departed
<1>2. CloseChain
  <2>1. Len(Waiting) = 0
    BY <1>1
  <2> QED BY <2>1 DEF CloseChain
<1>3. \A t \in Executors : Stopped(t)
  BY <1>1 DEF Stopped
<1> QED BY <1>1, <1>2, <1>3 DEF StopInv, AtRestCloses

(* What the invariant says of the nodes that wait depends on them and on    *)
(* the last event alone.                                                    *)
LEMMA WaitingKept ==
    ASSUME UNCHANGED <<lastEvent, Waiting>>
    PROVE  NextCloses' = NextCloses /\ CloseChain' = CloseChain /\ Departed' = Departed
<1>1. Departed' = Departed
  BY DEF Departed
<1> QED BY <1>1 DEF NextCloses, CloseChain

(* A step of no node starts no thread, and keeps the invariant.             *)
LEMMA StopKept ==
    ASSUME StopInv, UNCHANGED <<xpc, xnode, lastEvent, Waiting>>, threads' => threads,
           Departed /\ hpc' = "idle" => hpc = "idle"
    PROVE  StopInv'
<1>1. NextCloses' = NextCloses /\ CloseChain' = CloseChain /\ Departed' = Departed
  BY WaitingKept
<1>2. \A t \in Executors : Stopped(t)'
  BY <1>1 DEF StopInv, Stopped
<1> QED BY <1>1, <1>2 DEF StopInv, AtRestCloses

(* Nor does a step inside a node that starts threads in an up node alone,   *)
(* and does not end a closing node with threads running.                    *)
LEMMA InNodeStop ==
    ASSUME TypeOK, DeferInv, StopInv, NEW t \in Executors,
           xpc[t] # "none", NEW s \in Steps \ {"none"},
           xpc' = [xpc EXCEPT ![t] = s], NodeFrame,
           s \in {"free", "unspoof", "open", "create", "start"} => ~threads',
           ~xnode[t].up /\ threads' => threads /\ (Closes(xnode[t]) => s # "end")
    PROVE  StopInv'
<1>1. /\ UNCHANGED <<Waiting, lastEvent, hpc, xnode>> /\ xpc'[t] = s
  BY DEF NodeFrame, Waiting, hVars, deferVars, TypeOK
<1>2. NextCloses' = NextCloses /\ CloseChain' = CloseChain /\ Departed' = Departed
  BY <1>1, WaitingKept
<1>3. Stopped(t)'
  <2>1. Stopped(t)
    BY DEF StopInv
  <2> QED BY <1>1, <1>2, <2>1 DEF Stopped, Closes
<1>4. \A u \in Executors : Stopped(u)'
  <2>1. ASSUME NEW u \in Executors, u # t PROVE Stopped(u)'
    <3>1. xpc'[u] = "none"
      BY <2>1, OneExecutes DEF TypeOK
    <3> QED BY <3>1 DEF Stopped
  <2> QED BY <1>3, <2>1
<1>5. AtRestCloses'
  BY <1>1 DEF AtRestCloses
<1> QED BY <1>1, <1>2, <1>4, <1>5 DEF StopInv

(* The steps inside a node are such steps.                                  *)
LEMMA NodeStepStop ==
    ASSUME TypeOK, DeferInv, CleanInv, StopInv, NEW t \in Executors,
           NodeStep(t), ~FinishNode(t)
    PROVE  StopInv'
<1> USE DEF At, Goto
<1>0. /\ Placed(t) /\ Stopped(t) /\ xpc \in [Executors -> Steps]
  BY DEF CleanInv, StopInv, TypeOK, Steps
<1>1. CASE SpoofOn(t)
  BY <1>1, InNodeStop DEF SpoofOn, Steps
<1>2. CASE ResetSystemState(t)
  BY <1>2, InNodeStop DEF ResetSystemState, Steps, Closes
<1>3. CASE SignalCancel(t)
  BY <1>3, InNodeStop DEF SignalCancel, Steps
<1>4. CASE CloseChannelPorts(t)
  BY <1>4, InNodeStop DEF CloseChannelPorts, Steps
<1>5. CASE xpc[t] \in UpSteps
  <2>0. xnode[t].up
    BY <1>0, <1>5 DEF Placed
  <2>1. CASE ResetChannelInfo(t)
    BY <1>0, <2>0, <2>1, InNodeStop DEF ResetChannelInfo, Steps, Stopped
  <2>2. CASE SpoofOff(t)
    BY <1>0, <2>0, <2>2, InNodeStop DEF SpoofOff, Steps, Stopped
  <2>3. CASE OpenPort(t)
    <3>1. PICK s \in {"create", "open"} : xpc' = [xpc EXCEPT ![t] = s]
      BY <2>3 DEF OpenPort
    <3> QED BY <1>0, <2>0, <2>3, <3>1, InNodeStop DEF OpenPort, Steps, Stopped
  <2>4. CASE OpenFails(t)
    BY <1>0, <2>0, <2>4, InNodeStop DEF OpenFails, Steps, Stopped
  <2>5. CASE CreateQueues(t)
    BY <1>0, <2>0, <2>5, InNodeStop DEF CreateQueues, Steps, Stopped
  <2>6. CASE StartThreads(t)
    BY <2>0, <2>6, InNodeStop DEF StartThreads, Steps
  <2>7. CASE SetSystemInitialized(t)
    BY <2>0, <2>7, InNodeStop DEF SetSystemInitialized, Steps
  <2>8. CASE InitializeModem(t)
    BY <2>0, <2>8, InNodeStop DEF InitializeModem, Steps
  <2>9. CASE InitializeModemFails(t)
    BY <2>0, <2>9, InNodeStop DEF InitializeModemFails, Steps
  <2>10. /\ ~SpoofOn(t) /\ ~ResetSystemState(t) /\ ~SignalCancel(t)
         /\ ~CloseChannelPorts(t)
    BY <1>5 DEF UpSteps, SpoofOn, ResetSystemState, SignalCancel, CloseChannelPorts
  <2> QED BY <2>1, <2>2, <2>3, <2>4, <2>5, <2>6, <2>7, <2>8, <2>9, <2>10 DEF NodeStep
<1>6. \/ SpoofOn(t) \/ ResetSystemState(t) \/ SignalCancel(t) \/ CloseChannelPorts(t)
      \/ xpc[t] \in UpSteps
  BY DEF NodeStep, UpSteps, ResetChannelInfo, SpoofOff, OpenPort, OpenFails, CreateQueues,
         StartThreads, SetSystemInitialized, InitializeModem, InitializeModemFails
<1> QED BY <1>1, <1>2, <1>3, <1>4, <1>5, <1>6

(* After an up node something closes, and a node that leaves the threads    *)
(* running was the last.                                                    *)
LEMMA FinishStop ==
    ASSUME TypeOK, DeferInv, StopInv, NEW t \in Executors, FinishNode(t)
    PROVE  StopInv'
<1>1. /\ xpc[t] = "end" /\ xpc' = [xpc EXCEPT ![t] = "none"]
      /\ UNCHANGED <<hVars, deferVars, threads>>
  BY DEF FinishNode, At, Goto
<1>2. \A u \in Executors : xpc'[u] = "none"
  BY <1>1, OneExecutes DEF TypeOK
<1>3. UNCHANGED <<Waiting, lastEvent, hpc>>
  BY <1>1 DEF Waiting, hVars, deferVars
<1>4. NextCloses' = NextCloses /\ CloseChain' = CloseChain /\ Departed' = Departed
  BY <1>3, WaitingKept
<1>5. threads => NextCloses
  BY <1>1 DEF StopInv, Stopped, NextCloses
<1>6. \A u \in Executors : Stopped(u)'
  BY <1>2 DEF Stopped
<1> QED BY <1>1, <1>3, <1>4, <1>5, <1>6 DEF StopInv, AtRestCloses

(* RequestModemRestart starts no thread.                                    *)
LEMMA RestartStop ==
    ASSUME TypeOK, DeferInv, CleanInv, StopInv, NEW t \in Restarters, RestartStep(t)
    PROVE  StopInv'
<1>1. InRestart(t)
  BY RestartSteps
<1>2. UNCHANGED <<Waiting, xnode, lastEvent, hpc, threads>>
  BY <1>1 DEF InRestart, RestartFrame, Waiting, hVars, deferVars
<1>3. CASE xpc' = xpc
  BY <1>2, <1>3, StopKept
<1>4. CASE /\ xpc["worker"] = "restart"
           /\ xpc' = [xpc EXCEPT !["worker"] = "end"]
  <2>0. "worker" \in Executors /\ Placed("worker") /\ Stopped("worker")
    BY DEF CleanInv, StopInv, Executors
  <2>1. NextCloses' = NextCloses /\ CloseChain' = CloseChain /\ Departed' = Departed
    BY <1>2, WaitingKept
  <2>2. xpc'["worker"] = "end" /\ xnode["worker"].up /\ NextCloses
    BY <1>4, <2>0 DEF TypeOK, Placed, Stopped, UpSteps
  <2>3. \A u \in Executors : Stopped(u)'
    <3>1. ASSUME NEW u \in Executors, u # "worker" PROVE Stopped(u)'
      <4>1. xpc'[u] = "none"
        BY <1>4, <2>0, <3>1, OneExecutes DEF TypeOK
      <4> QED BY <4>1 DEF Stopped
    <3>2. Stopped("worker")'
      BY <1>2, <2>1, <2>2 DEF Stopped
    <3> QED BY <3>1, <3>2
  <2>4. AtRestCloses'
    BY <2>0, <2>2 DEF AtRestCloses
  <2> QED BY <1>2, <2>1, <2>3, <2>4 DEF StopInv
<1> QED BY <1>1, <1>3, <1>4 DEF InRestart

(* The first of the waiting nodes begins: it is no up node over running     *)
(* threads.                                                                 *)
LEMMA BeginStop ==
    ASSUME TypeOK, CleanInv, StopInv, \A u \in Executors : xpc[u] = "none",
           NEW t \in Executors, NEW n \in Node, Start(t, n),
           FirstTaken, n = Waiting[1], UNCHANGED <<lastEvent, threads>>,
           hpc' = "idle" => hpc = "idle"
    PROVE  StopInv'
<1>1. /\ xnode'[t] = n /\ xpc'[t] = FirstStep(n)
      /\ \A u \in Executors : u # t => xpc'[u] = "none"
  <2>1. xpc' = [xpc EXCEPT ![t] = FirstStep(n)] /\ xnode' = [xnode EXCEPT ![t] = n]
    BY DEF Start
  <2> QED BY <2>1 DEF TypeOK
<1>2. /\ Len(Waiting) \in Nat \ {0} /\ Len(Waiting') = Len(Waiting) - 1
      /\ \A i \in 1..Len(Waiting') : Waiting'[i] = Waiting[i + 1]
      /\ Len(Waiting) = 1 <=> Waiting' = <<>>
      /\ Waiting # <<>>
  BY TailOf DEF FirstTaken
<1>3. Departed' = Departed /\ (Departed => lastEvent # "UP")
  BY DEF Departed
<1>4. CloseChain'
  <2>1. ASSUME NEW i \in 1..(Len(Waiting') - 1), Waiting'[i].up
        PROVE  Closes(Waiting'[i + 1]) \/ (i + 1 = Len(Waiting') /\ Departed)
    <3>1. /\ i + 1 \in 1..(Len(Waiting) - 1)
          /\ Waiting'[i] = Waiting[i + 1] /\ Waiting'[i + 1] = Waiting[i + 1 + 1]
      BY <1>2
    <3>2. Closes(Waiting[i + 1 + 1]) \/ (i + 1 + 1 = Len(Waiting) /\ Departed)
      BY <2>1, <3>1 DEF StopInv, CloseChain
    <3>3. ASSUME i + 1 + 1 = Len(Waiting) PROVE i + 1 = Len(Waiting')
      BY <1>2, <3>3
    <3> QED BY <3>1, <3>2, <3>3 DEF Closes
  <2> QED BY <1>3, <2>1 DEF CloseChain, Closes
<1>5. n.up => NextCloses'
  <2>1. CASE Waiting' = <<>>
    <3>1. n.up <=> lastEvent = "UP"
      BY <1>2, <2>1 DEF CleanInv, Chain
    <3> QED BY <2>1, <3>1 DEF NextCloses
  <2>2. CASE Waiting' # <<>>
    <3>1. 1 \in 1..(Len(Waiting) - 1) /\ Waiting'[1] = Waiting[1 + 1]
      BY <1>2, <2>2
    <3>2. n.up => Closes(Waiting[1 + 1]) \/ (1 + 1 = Len(Waiting) /\ Departed)
      BY <3>1 DEF StopInv, CloseChain, Closes
    <3>3. Len(Waiting) = 1 + 1 => Len(Waiting') = 1
      <4>1. \A k \in Nat \ {0} : k = 1 + 1 => k - 1 = 1
        OBVIOUS
      <4> QED BY <1>2, <4>1
    <3> QED BY <1>3, <2>2, <3>1, <3>2, <3>3 DEF NextCloses, Closes
  <2> QED BY <2>1, <2>2
<1>6. threads => Closes(n) \/ (Waiting' = <<>> /\ Departed /\ ~n.up)
  <2>1. threads => Closes(n) \/ (Len(Waiting) = 1 /\ Departed)
    BY <1>2 DEF StopInv, AtRestCloses, NextCloses
  <2>2. Len(Waiting) = 1 => (n.up <=> lastEvent = "UP")
    BY <1>2 DEF CleanInv, Chain
  <2> QED BY <1>2, <1>3, <2>1, <2>2
<1>7. Stopped(t)'
  <2>1. n.up \in BOOLEAN /\ n.reset \in BOOLEAN /\ n.close \in BOOLEAN
    BY DEF Node
  <2>2. /\ xpc'[t] \in {"free", "spoof", "cancel", "end"}
        /\ xpc'[t] = "free" <=> n.up
        /\ Closes(n) => xpc'[t] # "end"
    BY <1>1, <2>1 DEF FirstStep, Closes
  <2>3. threads => ~n.up
    BY <1>6 DEF Closes
  <2> QED BY <1>1, <1>3, <1>5, <1>6, <2>2, <2>3 DEF Stopped, Closes
<1>8. \A u \in Executors : Stopped(u)'
  <2>1. ASSUME NEW u \in Executors, u # t PROVE Stopped(u)'
    BY <1>1, <2>1 DEF Stopped
  <2> QED BY <1>7, <2>1
<1>9. xpc'[t] # "none"
  BY <1>1 DEF FirstStep
<1>10. AtRestCloses'
  BY <1>9 DEF AtRestCloses
<1> QED BY <1>3, <1>4, <1>8, <1>10 DEF StopInv

(* Between an up node and the next one something closes: an up modem goes   *)
(* with an announcement, or for good.                                       *)
LEMMA ReceiveStop ==
    ASSUME ~DownUnannounced, TypeOK, CleanInv, StopInv, NEW e \in Events, ReceiveEvent(e)
    PROVE  StopInv'
<1>1. /\ hpc = "idle" /\ hpc' = "queue" /\ resetQueue' = resetQueue
      /\ lastEvent' = e /\ e # lastEvent /\ MmgrMaySend(e)
      /\ hnode' = NodeFor(e, lastEvent)
      /\ UNCHANGED <<threads, xpc, xnode>>
  BY DEF ReceiveEvent, sysVars, deferVars, xVars
<1>2. ~Departed
  BY <1>1 DEF StopInv
<1>3. lastEvent = "UP" => Closes(hnode') \/ Departed'
  <2>1. lastEvent = "UP" => e \notin {"UP", "DOWN"}
    BY <1>1 DEF MmgrMaySend
  <2>2. e \in {"SHUTDOWN", "COLD_RESET", "CORE_DUMP"} => Closes(hnode')
    BY <1>1 DEF NodeFor, Closes
  <2>3. e \in {"OUT_OF_SERVICE", "REBOOT"} => Departed'
    BY <1>1 DEF Departed
  <2> QED BY <2>1, <2>2, <2>3 DEF Events
<1>4. /\ Waiting = resetQueue /\ Waiting' = Append(resetQueue, hnode')
      /\ resetQueue \in Seq(Node) /\ hnode' \in Node
  BY <1>1, NodeForType DEF Waiting, TypeOK
<1>5. /\ Len(Waiting) \in Nat /\ Len(Waiting') = Len(Waiting) + 1
      /\ \A i \in 1..Len(Waiting) : Waiting'[i] = Waiting[i]
      /\ Waiting'[Len(Waiting) + 1] = hnode' /\ Waiting' # <<>>
      /\ Waiting = <<>> <=> Len(Waiting) = 0
  BY <1>4, EmptySeq
<1>6. NextCloses => NextCloses'
  <2>1. CASE Waiting = <<>>
    <3>1. Waiting'[1] = hnode' /\ Len(Waiting') = 1
      BY <1>5, <2>1
    <3> QED BY <1>2, <1>3, <1>5, <2>1, <3>1 DEF NextCloses
  <2>2. CASE Waiting # <<>>
    <3>1. Waiting'[1] = Waiting[1]
      BY <1>5, <2>2
    <3> QED BY <1>2, <1>5, <2>2, <3>1 DEF NextCloses, Closes
  <2> QED BY <2>1, <2>2
<1>7. CloseChain'
  <2>1. ASSUME NEW i \in 1..(Len(Waiting') - 1), Waiting'[i].up
        PROVE  Closes(Waiting'[i + 1]) \/ (i + 1 = Len(Waiting') /\ Departed')
    <3>1. CASE i = Len(Waiting)
      <4>1. Waiting'[i] = Waiting[Len(Waiting)] /\ Waiting # <<>>
        BY <1>5, <2>1, <3>1
      <4>2. lastEvent = "UP"
        BY <2>1, <4>1 DEF CleanInv, Chain
      <4>3. Waiting'[i + 1] = hnode' /\ i + 1 = Len(Waiting')
        BY <1>5, <3>1
      <4> QED BY <1>3, <4>2, <4>3
    <3>2. CASE i # Len(Waiting)
      <4>1. /\ i \in 1..(Len(Waiting) - 1) /\ Waiting'[i] = Waiting[i]
            /\ Waiting'[i + 1] = Waiting[i + 1]
        BY <1>5, <2>1, <3>2
      <4>2. Closes(Waiting[i + 1])
        BY <1>2, <2>1, <4>1 DEF StopInv, CloseChain
      <4> QED BY <4>1, <4>2 DEF Closes
    <3> QED BY <3>1, <3>2
  <2> QED BY <2>1 DEF CloseChain, Closes
<1>8. \A t \in Executors : Stopped(t)'
  BY <1>1, <1>2, <1>6 DEF StopInv, Stopped
<1>9. AtRestCloses'
  BY <1>1, <1>6 DEF StopInv, AtRestCloses
<1> QED BY <1>1, <1>7, <1>8, <1>9 DEF StopInv

(* Every step keeps the invariant.                                          *)
LEMMA StepStop ==
    ASSUME ~DownUnannounced, TypeOK, DeferInv, CleanInv, StopInv, [Next]_vars
    PROVE  StopInv'
<1>0. /\ resetQueue \in Seq(Node) /\ hnode \in Node
      /\ "handler" \in Executors /\ "worker" \in Executors
      /\ HandlerNext # "queue" /\ (Departed => HandlerNext # "idle")
  BY DEF TypeOK, Executors, HandlerNext, Departed
<1>1. ASSUME NEW e \in Events, ReceiveEvent(e) PROVE StopInv'
  BY <1>1, ReceiveStop
<1>2. CASE QueueToWorker \/ StartWorker
  <2>1. /\ hpc = "queue" /\ hpc' = HandlerNext /\ resetQueue' = Append(resetQueue, hnode)
        /\ UNCHANGED <<xpc, xnode, lastEvent, threads>>
    BY <1>2 DEF QueueToWorker, StartWorker, xVars, sysVars
  <2>2. Waiting' = Waiting
    BY <1>0, <2>1 DEF Waiting
  <2> QED BY <1>0, <2>1, <2>2, StopKept
<1>3. CASE ExecuteInline
  <2>1. /\ hpc = "queue" /\ hpc' = "inline" /\ ~running /\ resetQueue' = resetQueue
        /\ Start("handler", hnode) /\ UNCHANGED <<lastEvent, threads>>
    BY <1>3 DEF ExecuteInline, sysVars
  <2>2. worker = "none" /\ resetQueue = <<>>
    BY <2>1 DEF DeferInv
  <2>3. \A u \in Executors : xpc[u] = "none"
    BY <2>1, <2>2 DEF DeferInv, Executors
  <2>4. FirstTaken /\ hnode = Waiting[1]
    BY <1>0, <2>1, <2>2 DEF Waiting, FirstTaken
  <2> QED BY <1>0, <2>1, <2>3, <2>4, BeginStop
<1>4. CASE InlineDone
  <2>1. /\ hpc = "inline" /\ hpc' = HandlerNext
        /\ UNCHANGED <<resetQueue, lastEvent, threads, xpc, xnode>>
    BY <1>4 DEF InlineDone, sysVars, xVars
  <2>2. Waiting' = Waiting
    BY <1>0, <2>1 DEF Waiting
  <2> QED BY <1>0, <2>1, <2>2, StopKept
<1>5. CASE WorkerDequeues
  <2>1. /\ worker = "loop" /\ resetQueue # <<>> /\ ~startLock
        /\ Start("worker", Head(resetQueue)) /\ resetQueue' = Tail(resetQueue)
        /\ UNCHANGED <<hpc, hnode, lastEvent, threads>>
    BY <1>5 DEF WorkerDequeues, hVars, sysVars
  <2>2. \A u \in Executors : xpc[u] = "none"
    BY <2>1 DEF DeferInv, Executors
  <2>3. Waiting \in Seq(Node) /\ Waiting # <<>> /\ Head(resetQueue) = Waiting[1]
    BY <1>0, <2>1 DEF Waiting
  <2>4. Waiting' = Tail(Waiting)
    <3>1. CASE hpc = "queue"
      <4>1. Waiting = Append(resetQueue, hnode) /\ Waiting' = Append(Tail(resetQueue), hnode)
        BY <2>1, <3>1 DEF Waiting
      <4> QED BY <1>0, <2>1, <4>1
    <3>2. CASE hpc # "queue"
      BY <2>1, <3>2 DEF Waiting
    <3> QED BY <3>1, <3>2
  <2>5. Head(resetQueue) \in Node
    BY <1>0, <2>1
  <2> QED BY <1>0, <2>1, <2>2, <2>3, <2>4, <2>5, BeginStop DEF FirstTaken
<1>6. CASE WorkerFinishes \/ NodeDone \/ RequestPlatformShutdown \/ UNCHANGED vars
  <2>1. UNCHANGED <<hVars, resetQueue, sysVars, xVars>>
    BY <1>6 DEF WorkerFinishes, NodeDone, RequestPlatformShutdown, vars, deferVars
  <2>2. Waiting' = Waiting
    BY <2>1 DEF Waiting, hVars
  <2> QED BY <2>1, <2>2, StopKept DEF hVars, sysVars, xVars
<1>7. ASSUME NEW t \in Executors, NodeStep(t) PROVE StopInv'
  BY <1>7, FinishStop, NodeStepStop
<1>8. ASSUME NEW t \in Restarters, RestartStep(t) PROVE StopInv'
  BY <1>8, RestartStop
<1> QED BY <1>1, <1>2, <1>3, <1>4, <1>5, <1>6, <1>7, <1>8
        DEF Next, HandlerStep, WorkerStep

(* ResetChannelInfo frees the queues and the cancel event only after the    *)
(* channel threads that use them were stopped, for any number of events, as *)
(* long as the MMGR announces that an up modem goes.                        *)
THEOREM FreedAfterTheStop == ASSUME ~DownUnannounced PROVE Spec => FreedAfterStop
<1>1. Spec => []StopInv
  BY InitStop, StepStop, LifeCycleTypeCorrect, SystemIsCleaned, PTL DEF Spec
<1>2. StopInv => [\A t \in Executors : ResetChannelInfo(t) => ~threads]_vars
  BY DEF StopInv, Stopped, ResetChannelInfo, At
<1> QED BY <1>1, <1>2, PTL DEF FreedAfterStop
-----------------------------------------------------------------------------
(* The nodes not executed to their end, and the events among them that are  *)
(* to be acknowledged.                                                      *)
Pending == {Waiting[i] : i \in 1..Len(Waiting)} \cup {xnode[t] : t \in Executing}

Owing == {k \in 1..events : \E n \in Pending : n.id = k /\ n.ack}

(* A node that acknowledges closes, has closed when it comes to its end, and *)
(* each acknowledgement that is owed has its node.                          *)
AckInv ==
    /\ \A n \in Pending : n.ack => Closes(n)
    /\ \A t \in Executors : xpc[t] = "end" /\ Closes(xnode[t]) => ports = 0 /\ ~threads
    /\ owed = acks + Cardinality(Owing)

(* Owing is finite.                                                         *)
LEMMA OwingFinite == TypeOK => IsFiniteSet(Owing) /\ Cardinality(Owing) \in Nat
<1> SUFFICES ASSUME TypeOK PROVE IsFiniteSet(Owing) /\ Cardinality(Owing) \in Nat
  OBVIOUS
<1>1. IsFiniteSet(1..events)
  BY FS_Interval DEF TypeOK
<1>2. Owing \subseteq 1..events
  BY DEF Owing
<1> QED BY <1>1, <1>2, FS_Subset, FS_CardinalityType

(* The nodes that wait are numbered from the last one begun to the last     *)
(* event.                                                                   *)
LEMMA WaitingNumbered ==
    ASSUME TypeOK, Order
    PROVE  /\ Waiting \in Seq(Node) /\ Len(Waiting) \in Nat /\ Begun \in Nat
           /\ events = Begun + Len(Waiting)
           /\ \A i \in 1..Len(Waiting) : Waiting[i].id = Begun + i
<1>1. resetQueue \in Seq(Node) /\ hnode \in Node /\ Begun \in Nat /\ Len(resetQueue) \in Nat
  BY DEF TypeOK, Begun
<1>2. CASE hpc = "queue"
  <2>1. /\ Waiting \in Seq(Node) /\ Len(Waiting) = Len(resetQueue) + 1
        /\ \A i \in 1..Len(resetQueue) : Waiting[i] = resetQueue[i]
        /\ Waiting[Len(resetQueue) + 1] = hnode
    BY <1>1, <1>2 DEF Waiting
  <2>2. ASSUME NEW i \in 1..Len(Waiting) PROVE Waiting[i].id = Begun + i
    <3>1. CASE i = Len(resetQueue) + 1
      BY <1>1, <1>2, <2>1, <3>1 DEF Order
    <3>2. CASE i # Len(resetQueue) + 1
      <4>1. i \in 1..Len(resetQueue)
        BY <1>1, <2>1, <3>2
      <4> QED BY <2>1, <4>1 DEF Order
    <3> QED BY <3>1, <3>2
  <2> QED BY <1>1, <1>2, <2>1, <2>2 DEF Order
<1>3. CASE hpc # "queue"
  BY <1>1, <1>3 DEF Waiting, Order
<1> QED BY <1>2, <1>3

(* Nothing is owed.                                                         *)
LEMMA InitAck == Init => AckInv
<1> SUFFICES ASSUME Init PROVE AckInv
  OBVIOUS
<1>1. Waiting = <<>> /\ Len(Waiting) = 0 /\ Executing = {} /\ events = 0
  BY DEF Init, Waiting, Executing
<1>2. Owing = {}
  BY <1>1 DEF Owing
<1>3. Cardinality(Owing) = 0
  BY <1>2, FS_EmptySet
<1>4. Pending = {}
  BY <1>1 DEF Pending
<1> QED BY <1>3, <1>4 DEF AckInv, Init

(* Steps that begin and end no node and receive no event owe as before.     *)
LEMMA PendingKept ==
    ASSUME UNCHANGED <<Waiting, Executing, xnode, events>>
    PROVE  Pending' = Pending /\ Owing' = Owing
<1>1. Pending' = Pending
  BY DEF Pending
<1> QED BY <1>1 DEF Owing

LEMMA AckKept ==
    ASSUME AckInv, UNCHANGED <<Waiting, xpc, xnode, events, owed, acks, ports, threads>>
    PROVE  AckInv'
<1>1. Executing' = Executing
  BY DEF Executing
<1>2. Pending' = Pending /\ Owing' = Owing
  BY <1>1, PendingKept
<1> QED BY <1>2 DEF AckInv, Closes

(* Nor does a step inside a node that comes to its end over closed ports.   *)
LEMMA InNodeAck ==
    ASSUME TypeOK, DeferInv, AckInv, NEW t \in Executors,
           xpc[t] # "none", NEW s \in Steps \ {"none"},
           xpc' = [xpc EXCEPT ![t] = s],
           UNCHANGED <<Waiting, xnode, events, owed, acks>>,
           s = "end" /\ Closes(xnode[t]) => ports' = 0 /\ ~threads'
    PROVE  AckInv'
<1>1. \A u \in Executors : xpc'[u] # "none" <=> xpc[u] # "none"
  BY DEF TypeOK
<1>2. Executing' = Executing
  BY <1>1 DEF Executing
<1>3. Pending' = Pending /\ Owing' = Owing
  BY <1>2, PendingKept
<1>4. ASSUME NEW u \in Executors, xpc'[u] = "end", Closes(xnode'[u])
      PROVE  ports' = 0 /\ ~threads'
  <2>1. u = t
    BY <1>4, OneExecutes DEF TypeOK
  <2> QED BY <1>4, <2>1 DEF TypeOK, Closes
<1> QED BY <1>3, <1>4 DEF AckInv, Closes

(* The steps inside a node: a closing node ends after CloseChannelPorts.    *)
LEMMA NodeStepAck ==
    ASSUME TypeOK, DeferInv, CleanInv, AckInv, NEW t \in Executors,
           NodeStep(t), ~FinishNode(t)
    PROVE  AckInv'
<1> USE DEF At, Goto
<1>0. Placed(t)
  BY DEF CleanInv
<1>1. InNode(t)
  BY NodeSteps
<1>2. UNCHANGED <<Waiting, xnode, events, owed, acks>> /\ xpc[t] # "none"
  BY <1>1 DEF InNode, NodeFrame, hVars, deferVars, Waiting
<1>3. CASE SpoofOn(t)
  BY <1>2, <1>3, InNodeAck DEF SpoofOn, Steps
<1>4. CASE ResetSystemState(t)
  BY <1>2, <1>4, InNodeAck DEF ResetSystemState, Steps, Closes
<1>5. CASE SignalCancel(t)
  BY <1>2, <1>5, InNodeAck DEF SignalCancel, Steps
<1>6. CASE CloseChannelPorts(t)
  BY <1>2, <1>6, InNodeAck DEF CloseChannelPorts, Steps
<1>7. CASE xpc[t] \in UpSteps
  <2>1. ~Closes(xnode[t])
    BY <1>0, <1>7 DEF Placed, Closes
  <2>2. PICK s \in Steps \ {"none"} : xpc' = [xpc EXCEPT ![t] = s]
    BY <1>1 DEF InNode
  <2> QED BY <1>2, <2>1, <2>2, InNodeAck
<1>8. \/ SpoofOn(t) \/ ResetSystemState(t) \/ SignalCancel(t) \/ CloseChannelPorts(t)
      \/ xpc[t] \in UpSteps
  BY DEF NodeStep, UpSteps, ResetChannelInfo, SpoofOff, OpenPort, OpenFails, CreateQueues,
         StartThreads, SetSystemInitialized, InitializeModem, InitializeModemFails
<1> QED BY <1>3, <1>4, <1>5, <1>6, <1>7, <1>8

(* A node that ends pays what its event owed.                               *)
LEMMA FinishAck ==
    ASSUME TypeOK, DeferInv, Order, AckInv, NEW t \in Executors, FinishNode(t)
    PROVE  AckInv' /\ Owing' = Owing \ {done + 1}
           /\ (xnode[t].ack <=> done + 1 \in Owing)
<1>1. /\ xpc[t] = "end" /\ xpc' = [xpc EXCEPT ![t] = "none"]
      /\ acks' = acks + (IF xnode[t].ack THEN 1 ELSE 0)
      /\ UNCHANGED <<hVars, deferVars>>
  BY DEF FinishNode, At, Goto
<1>2. \A u \in Executors : xpc'[u] = "none"
  BY <1>1, OneExecutes DEF TypeOK
<1>3. Waiting' = Waiting /\ events' = events /\ owed' = owed
  BY <1>1 DEF Waiting, hVars, deferVars
<1>4. Executing = {t} /\ Executing' = {} /\ xnode[t].id = done + 1
  BY <1>1, <1>2 DEF Order, Executing
<1>5. /\ Begun = done + 1 /\ done \in Nat /\ events \in Nat
      /\ \A i \in 1..Len(Waiting) : Waiting[i].id > done + 1
      /\ events = Begun + Len(Waiting) /\ Len(Waiting) \in Nat
  <2>1. Begun = done + 1 /\ done \in Nat /\ events \in Nat
    BY <1>4 DEF Begun, TypeOK
  <2>2. /\ Len(Waiting) \in Nat /\ events = Begun + Len(Waiting)
        /\ \A i \in 1..Len(Waiting) : Waiting[i].id = Begun + i
    BY WaitingNumbered
  <2>3. ASSUME NEW i \in 1..Len(Waiting) PROVE Waiting[i].id > done + 1
    BY <2>1, <2>2
  <2> QED BY <2>1, <2>2, <2>3
<1>6. /\ Pending = Pending' \cup {xnode[t]}
      /\ \A n \in Pending' : n.id > done + 1
  BY <1>3, <1>4, <1>5 DEF Pending
<1>7. Owing' = Owing \ {done + 1}
  <2>1. ASSUME NEW k \in 1..events
        PROVE  (\E n \in Pending' : n.id = k /\ n.ack)
                 <=> k # done + 1 /\ \E n \in Pending : n.id = k /\ n.ack
    <3>1. \A n \in Pending' : n.id # done + 1
      BY <1>5, <1>6
    <3> QED BY <1>4, <1>6, <3>1
  <2> QED BY <1>3, <2>1 DEF Owing
<1>8. xnode[t].ack <=> done + 1 \in Owing
  <2>1. done + 1 \in 1..events
    BY <1>5
  <2>2. \A n \in Pending : n.id = done + 1 => n = xnode[t]
    BY <1>5, <1>6
  <2> QED BY <1>4, <1>6, <2>1, <2>2 DEF Owing
<1>9. owed' = acks' + Cardinality(Owing')
  <2>1. Cardinality(Owing') =
          IF done + 1 \in Owing THEN Cardinality(Owing) - 1 ELSE Cardinality(Owing)
    BY <1>7, OwingFinite, FS_RemoveElement
  <2>2. Cardinality(Owing) \in Nat /\ acks \in Nat /\ owed = acks + Cardinality(Owing)
    BY OwingFinite DEF TypeOK, AckInv
  <2> QED BY <1>1, <1>3, <1>8, <2>1, <2>2
<1>10. AckInv'
  BY <1>2, <1>6, <1>9 DEF AckInv, Closes
<1> QED BY <1>7, <1>8, <1>10

(* RequestModemRestart owes nothing and closes nothing.                     *)
LEMMA RestartAck ==
    ASSUME TypeOK, DeferInv, CleanInv, AckInv, NEW t \in Restarters, RestartStep(t)
    PROVE  AckInv'
<1>1. InRestart(t)
  BY RestartSteps
<1>2. UNCHANGED <<Waiting, xnode, events, owed, acks, ports, threads>>
  BY <1>1 DEF InRestart, RestartFrame, Waiting, hVars, deferVars
<1>3. CASE xpc' = xpc
  BY <1>2, <1>3, AckKept
<1>4. CASE /\ xpc["worker"] = "restart"
           /\ xpc' = [xpc EXCEPT !["worker"] = "end"]
  <2>1. "worker" \in Executors /\ ~Closes(xnode["worker"])
    BY <1>4 DEF CleanInv, Placed, UpSteps, Executors, Closes
  <2> QED BY <1>2, <1>4, <2>1, InNodeAck DEF Steps
<1> QED BY <1>1, <1>3, <1>4 DEF InRestart

(* The first of the waiting nodes begins, far from its end if it closes.    *)
LEMMA BeginAck ==
    ASSUME TypeOK, AckInv, \A u \in Executors : xpc[u] = "none",
           NEW t \in Executors, NEW n \in Node, Start(t, n),
           FirstTaken, n = Waiting[1], UNCHANGED <<events, owed, ports, threads>>
    PROVE  AckInv'
<1>0. Executing = {}
  BY DEF Executing
<1>1. /\ xnode'[t] = n /\ xpc'[t] = FirstStep(n) /\ acks' = acks
      /\ \A u \in Executors : u # t => xpc'[u] = "none"
  <2>1. xpc' = [xpc EXCEPT ![t] = FirstStep(n)] /\ xnode' = [xnode EXCEPT ![t] = n]
        /\ acks' = acks
    BY DEF Start
  <2> QED BY <2>1 DEF TypeOK
<1>2. Executing' = {t}
  BY <1>0, BeginsAlone
<1>3. /\ Len(Waiting) \in Nat \ {0} /\ Len(Waiting') = Len(Waiting) - 1
      /\ \A i \in 1..Len(Waiting') : Waiting'[i] = Waiting[i + 1]
  BY TailOf DEF FirstTaken
<1>4. {Waiting[i] : i \in 1..Len(Waiting)} = {Waiting'[i] : i \in 1..Len(Waiting')} \cup {n}
  <2>1. ASSUME NEW i \in 1..Len(Waiting)
        PROVE  Waiting[i] = n \/ \E j \in 1..Len(Waiting') : Waiting'[j] = Waiting[i]
    <3>1. CASE i = 1
      BY <3>1
    <3>2. CASE i # 1
      <4>1. i - 1 \in 1..Len(Waiting') /\ (i - 1) + 1 = i
        BY <1>3, <3>2
      <4>2. Waiting'[i - 1] = Waiting[(i - 1) + 1]
        BY <1>3, <4>1
      <4> QED BY <4>1, <4>2
    <3> QED BY <3>1, <3>2
  <2>2. ASSUME NEW j \in 1..Len(Waiting')
        PROVE  \E i \in 1..Len(Waiting) : Waiting[i] = Waiting'[j]
    <3>1. j + 1 \in 1..Len(Waiting)
      BY <1>3
    <3> QED BY <1>3, <3>1
  <2>3. n \in {Waiting[i] : i \in 1..Len(Waiting)}
    <3>1. 1 \in 1..Len(Waiting)
      BY <1>3
    <3> QED BY <3>1
  <2>4. {Waiting[i] : i \in 1..Len(Waiting)} \subseteq {Waiting'[i] : i \in 1..Len(Waiting')} \cup {n}
    BY <2>1
  <2>5. {Waiting'[i] : i \in 1..Len(Waiting')} \subseteq {Waiting[i] : i \in 1..Len(Waiting)}
    BY <2>2
  <2> QED BY <2>3, <2>4, <2>5
<1>5. Pending' = Pending
  BY <1>0, <1>1, <1>2, <1>4 DEF Pending
<1>6. Owing' = Owing
  BY <1>5 DEF Owing
<1>7. ASSUME NEW u \in Executors, xpc'[u] = "end", Closes(xnode'[u]) PROVE FALSE
  <2>1. u = t
    BY <1>1, <1>7
  <2> QED BY <1>1, <1>7, <2>1 DEF FirstStep, Closes
<1> QED BY <1>1, <1>5, <1>6, <1>7 DEF AckInv, Closes

(* An event that is to be acknowledged is owed from now on.                 *)
LEMMA ReceiveAck ==
    ASSUME TypeOK, Order, AckInv, NEW e \in Events, ReceiveEvent(e)
    PROVE  AckInv'
<1>1. /\ hpc = "idle" /\ hpc' = "queue" /\ resetQueue' = resetQueue
      /\ hnode' = NodeFor(e, lastEvent) /\ events' = events + 1
      /\ owed' = owed + (IF hnode'.ack THEN 1 ELSE 0)
      /\ UNCHANGED <<xpc, xnode, acks, ports, threads>>
  BY DEF ReceiveEvent, sysVars, deferVars, xVars
<1>2. hnode'.id = events + 1 /\ (hnode'.ack => Closes(hnode'))
  BY <1>1 DEF NodeFor, Closes
<1>3. /\ Waiting = resetQueue /\ Waiting' = Append(resetQueue, hnode')
      /\ resetQueue \in Seq(Node) /\ hnode' \in Node
  BY <1>1, NodeForType DEF Waiting, TypeOK
<1>4. /\ Len(Waiting) \in Nat /\ Len(Waiting') = Len(Waiting) + 1
      /\ \A i \in 1..Len(Waiting) : Waiting'[i] = Waiting[i]
      /\ Waiting'[Len(Waiting) + 1] = hnode'
  BY <1>3
<1>5. Executing' = Executing
  BY <1>1 DEF Executing
<1>6. Pending' = Pending \cup {hnode'}
  <2>1. {Waiting'[i] : i \in 1..Len(Waiting')} = {Waiting[i] : i \in 1..Len(Waiting)} \cup {hnode'}
    BY <1>4
  <2> QED BY <1>1, <1>5, <2>1 DEF Pending
<1>7. \A n \in Pending : n.id <= events
  <2>0. /\ done \in Nat /\ Begun \in Nat /\ Len(Waiting) \in Nat
        /\ events = Begun + Len(Waiting)
        /\ \A i \in 1..Len(Waiting) : Waiting[i].id = Begun + i
    BY WaitingNumbered DEF TypeOK
  <2>1. ASSUME NEW i \in 1..Len(Waiting) PROVE Waiting[i].id <= events
    BY <2>0
  <2>2. ASSUME NEW t \in Executing PROVE xnode[t].id <= events
    <3>1. xnode[t].id = done + 1 /\ Begun = done + 1
      BY <2>2 DEF Order, Begun
    <3> QED BY <2>0, <3>1
  <2> QED BY <2>1, <2>2 DEF Pending
<1>8. Owing' = IF hnode'.ack THEN Owing \cup {events + 1} ELSE Owing
  <2>0. events \in Nat
    BY DEF TypeOK
  <2>1. ASSUME NEW k \in 1..events
        PROVE  (\E n \in Pending' : n.id = k /\ n.ack) <=> \E n \in Pending : n.id = k /\ n.ack
    <3>1. hnode'.id # k
      BY <1>2, <2>0
    <3> QED BY <1>6, <3>1
  <2>2. (\E n \in Pending' : n.id = events + 1 /\ n.ack) <=> hnode'.ack
    <3>1. \A n \in Pending : n.id # events + 1
      BY <1>7, <2>0
    <3> QED BY <1>2, <1>6, <3>1
  <2>3. 1..events' = (1..events) \cup {events + 1}
    BY <1>1, <2>0
  <2> QED BY <2>1, <2>2, <2>3 DEF Owing
<1>9. owed' = acks' + Cardinality(Owing')
  <2>1. events + 1 \notin Owing
    BY DEF Owing, TypeOK
  <2>2. Cardinality(Owing \cup {events + 1}) = Cardinality(Owing) + 1
    BY <2>1, OwingFinite, FS_AddElement
  <2>3. Cardinality(Owing) \in Nat /\ acks \in Nat /\ owed = acks + Cardinality(Owing)
    BY OwingFinite DEF TypeOK, AckInv
  <2> QED BY <1>1, <1>8, <2>2, <2>3
<1> QED BY <1>1, <1>2, <1>6, <1>9 DEF AckInv, Closes

(* Every step keeps the invariant, and an acknowledgement is one of those   *)
(* that are owed, over closed ports.                                        *)
Paid == acks' # acks => acks' = acks + 1 /\ acks' <= owed /\ ports = 0 /\ ~threads

LEMMA StepAck ==
    ASSUME TypeOK, DeferInv, Order, CleanInv, AckInv, [Next]_vars
    PROVE  AckInv' /\ Paid
<1>0. /\ resetQueue \in Seq(Node) /\ hnode \in Node /\ HandlerNext # "queue"
      /\ "handler" \in Executors /\ "worker" \in Executors
  BY DEF TypeOK, Executors, HandlerNext
<1>1. ASSUME NEW e \in Events, ReceiveEvent(e) PROVE AckInv' /\ acks' = acks
  BY <1>1, ReceiveAck DEF ReceiveEvent, xVars
<1>2. CASE QueueToWorker \/ StartWorker
  <2>1. /\ hpc = "queue" /\ hpc' = HandlerNext /\ resetQueue' = Append(resetQueue, hnode)
        /\ UNCHANGED <<xpc, xnode, events, owed, acks, ports, threads>>
    BY <1>2 DEF QueueToWorker, StartWorker, xVars, sysVars
  <2>2. Waiting' = Waiting
    BY <1>0, <2>1 DEF Waiting
  <2> QED BY <2>1, <2>2, AckKept DEF Paid
<1>3. CASE ExecuteInline
  <2>1. /\ hpc = "queue" /\ hpc' = "inline" /\ ~running /\ resetQueue' = resetQueue
        /\ Start("handler", hnode) /\ UNCHANGED <<events, owed, ports, threads>>
    BY <1>3 DEF ExecuteInline, sysVars
  <2>2. worker = "none" /\ resetQueue = <<>>
    BY <2>1 DEF DeferInv
  <2>3. \A u \in Executors : xpc[u] = "none"
    BY <2>1, <2>2 DEF DeferInv, Executors
  <2>4. FirstTaken /\ hnode = Waiting[1]
    BY <1>0, <2>1, <2>2 DEF Waiting, FirstTaken
  <2>5. acks' = acks
    BY <2>1 DEF Start
  <2> QED BY <1>0, <2>1, <2>3, <2>4, <2>5, BeginAck DEF Paid
<1>4. CASE WorkerDequeues
  <2>1. /\ worker = "loop" /\ resetQueue # <<>> /\ ~startLock
        /\ Start("worker", Head(resetQueue)) /\ resetQueue' = Tail(resetQueue)
        /\ UNCHANGED <<hpc, hnode, events, owed, ports, threads>>
    BY <1>4 DEF WorkerDequeues, hVars, sysVars
  <2>2. \A u \in Executors : xpc[u] = "none"
    BY <2>1 DEF DeferInv, Executors
  <2>3. FirstTaken /\ Head(resetQueue) = Waiting[1] /\ Head(resetQueue) \in Node
    <3>1. Waiting \in Seq(Node) /\ Waiting # <<>> /\ Head(resetQueue) = Waiting[1]
      BY <1>0, <2>1 DEF Waiting
    <3>2. Waiting' = Tail(Waiting)
      <4>1. CASE hpc = "queue"
        <5>1. Waiting = Append(resetQueue, hnode) /\ Waiting' = Append(Tail(resetQueue), hnode)
          BY <2>1, <4>1 DEF Waiting
        <5> QED BY <1>0, <2>1, <5>1
      <4>2. CASE hpc # "queue"
        BY <2>1, <4>2 DEF Waiting
      <4> QED BY <4>1, <4>2
    <3>3. Head(resetQueue) \in Node
      BY <1>0, <2>1
    <3> QED BY <3>1, <3>2, <3>3 DEF FirstTaken
  <2>4. acks' = acks
    BY <2>1 DEF Start
  <2> QED BY <1>0, <2>1, <2>2, <2>3, <2>4, BeginAck DEF Paid
<1>5. CASE \/ InlineDone \/ WorkerFinishes \/ NodeDone \/ RequestPlatformShutdown
           \/ UNCHANGED vars
  <2>1. /\ UNCHANGED <<resetQueue, hnode, events, owed, sysVars, xVars>>
        /\ hpc = "queue" <=> hpc' = "queue"
    BY <1>0, <1>5 DEF InlineDone, WorkerFinishes, NodeDone, RequestPlatformShutdown, vars,
                      deferVars, hVars
  <2>2. Waiting' = Waiting
    BY <2>1 DEF Waiting
  <2> QED BY <2>1, <2>2, AckKept DEF sysVars, xVars, Paid
<1>6. ASSUME NEW t \in Executors, FinishNode(t) PROVE AckInv' /\ Paid
  <2>1. AckInv' /\ (xnode[t].ack <=> done + 1 \in Owing)
    BY <1>6, FinishAck
  <2>2. SUFFICES ASSUME acks' # acks
                 PROVE  acks' = acks + 1 /\ acks' <= owed /\ ports = 0 /\ ~threads
    BY <2>1 DEF Paid
  <2>3. xpc[t] = "end" /\ xnode[t].ack /\ acks' = acks + 1
    BY <1>6, <2>2 DEF FinishNode, At, TypeOK
  <2>4. xnode[t] \in Pending
    BY <2>3 DEF Pending, Executing
  <2>5. ports = 0 /\ ~threads
    BY <2>3, <2>4 DEF AckInv
  <2>6. Cardinality(Owing) \in Nat /\ Cardinality(Owing) # 0
    BY <2>1, <2>3, OwingFinite, FS_EmptySet
  <2>7. acks + 1 <= owed
    BY <2>6 DEF AckInv, TypeOK
  <2> QED BY <2>3, <2>5, <2>7
<1>7. ASSUME NEW t \in Executors, NodeStep(t), ~FinishNode(t) PROVE AckInv' /\ Paid
  <2>1. acks' = acks
    BY <1>7, NodeSteps DEF InNode, NodeFrame
  <2> QED BY <1>7, <2>1, NodeStepAck DEF Paid
<1>8. ASSUME NEW t \in Restarters, RestartStep(t) PROVE AckInv' /\ Paid
  <2>1. acks' = acks
    BY <1>8, RestartSteps DEF InRestart, RestartFrame
  <2> QED BY <1>8, <2>1, RestartAck DEF Paid
<1> QED BY <1>1, <1>2, <1>3, <1>4, <1>5, <1>6, <1>7, <1>8
        DEF Next, HandlerStep, WorkerStep, Paid

(* Every COLD_RESET and MODEM_SHUTDOWN is acknowledged at most once, and not *)
(* before its node has stopped the channel threads and closed the ports,    *)
(* for any number of events and whichever thread executes the node.         *)
THEOREM AcknowledgedAfterClose == Spec => AckAfterClose
<1>1. Spec => []Order
  BY OrderIsInEventOrder, NodesInOrder, PTL
<1>2. Spec => [](AckInv /\ Order /\ TypeOK /\ DeferInv /\ CleanInv)
  BY <1>1, InitAck, StepAck, LifeCycleTypeCorrect, SystemIsCleaned, PTL DEF Spec
<1>3. TypeOK /\ DeferInv /\ Order /\ CleanInv /\ AckInv /\ [Next]_vars
        => [acks' # acks => acks' = acks + 1 /\ acks' <= owed /\ ports = 0 /\ ~threads]_vars
  BY StepAck DEF Paid
<1> QED BY <1>2, <1>3, PTL DEF Spec, AckAfterClose
=============================================================================
