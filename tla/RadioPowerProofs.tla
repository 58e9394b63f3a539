-------------------------- MODULE RadioPowerProofs --------------------------
(***************************************************************************)
(* Proofs about RADIO_POWER: type correctness, that what is proved of the   *)
(* modem's life cycle survives the main thread and the basic initialisation, *)
(* which interfere with it, that a waiting request is woken by its own      *)
(* command alone and never waits in vain, and that a radio state ON is one  *)
(* of this modem life.                                                      *)
(***************************************************************************)
EXTENDS RadioPower, ModemStopProofs

(* What the main thread and the end of the basic initialisation may do to   *)
(* the life cycle, which the nodes do not expect: signal the cancel event,  *)
(* close the ports, stop the threads, withdraw the initialisation.          *)
Beside ==
    /\ UNCHANGED <<hVars, deferVars, xVars, rVars, spoof, queues>>
    /\ initOk' \in BOOLEAN /\ (initOk' => initOk)
    /\ cancel' = cancel \/ (cancel # "none" /\ cancel' = "set")
    /\ UNCHANGED <<ports, threads>> \/ (ports' = 0 /\ threads' = FALSE)
    /\ poweredOff' \in BOOLEAN
    /\ platformOff' \in BOOLEAN /\ (platformOff => platformOff')

(* The life cycle's invariants.                                             *)
LifeInv == TypeOK /\ DeferInv /\ Order /\ CleanInv

(* A command whose execution was begun is still there.                      *)
Active == {"allowed", "send", "signal"}

InQueue == {txq[i] : i \in 1..Len(txq)}
Alive == InQueue \cup (IF cpc \in Active THEN {ccmd} ELSE {})
Power == {c \in Alive : c.kind = "power"}

(* The queue and the command thread live with the queues and the threads.   *)
ChannelInv ==
    /\ cpc # "none" => threads
    /\ ~queues => txq = <<>> /\ ~threads /\ cancel = "none"
    /\ queues => cancel # "none"
    /\ cpc = "signal" => ccmd.kind = "power"

(* Where the command of the last request was not queued yet.                *)
Before == {"decide", "init", "resetBasic", "waitBasic", "reset", "add"}

(* No command is numbered beyond the last request, and that of the last     *)
(* request is queued, executed, or was executed, once.                      *)
NumberInv ==
    /\ signaller <= requests
    /\ \A c \in Alive : c.num <= requests
    /\ \A i \in 2..Len(txq) : txq[i].num < requests
    /\ cpc \in Active /\ ccmd.num = requests => \A c \in InQueue : c.num < requests
    /\ signaller = requests \/ mpc \in Before => \A c \in Alive : c.num < requests
    /\ mpc \in Before => signaller < requests

(* Only in a shutdown of the platform does the main thread close the ports  *)
(* or wait for the modem to be powered off.                                 *)
ShutdownInv ==
    (shutdown \/ mkind = "shutdown" \/ mpc \in {"cancel", "close", "resetOff", "waitOff"})
    => platformOff

(* A basic initialisation is under way, or its end is signalled.            *)
BasicLive == basic = "sent" \/ basicDone

(* A node that follows an up node resets the startup events before it does  *)
(* anything else.                                                           *)
BasicInv ==
    /\ \A t \in Executors :
          xpc[t] # "none" /\ ~xnode[t].up /\ BasicLive => xpc[t] \in {"spoof", "reset"}
    /\ (\A t \in Executors : xpc[t] = "none") /\ BasicLive => NextCleans

(* A life that is over, until the queues are freed: the system is not       *)
(* initialised and nobody is about to declare it so, nor to signal the end  *)
(* of its basic initialisation.                                             *)
LateSteps == {"unspoof", "open", "create", "start", "initialized", "initModem"}

Over == /\ ~initOk /\ ~BasicLive
        /\ \A t \in Executors : xpc[t] \notin LateSteps

(* The main thread waits, or is going to, for the end of command c.         *)
Awaited(c) ==
    c.num = requests /\ (mpc = "readCancel" \/ (mpc = "wait" /\ ~woken))

(* A command that was not waited for to its end is left from a life that is *)
(* over; so the main thread, which finds the system initialised or sees its *)
(* basic initialisation complete, queues its command where no other is, and *)
(* nothing else signals the event it has reset.                             *)
AwaitInv ==
    /\ cancel = "set" => Over
    /\ \A c \in Power : Awaited(c) \/ Over
    /\ mpc \in {"reset", "add"} => Power = {}
    /\ mpc = "add" => ~radioChanged
    /\ mpc \in {"readCancel", "wait"} => \A c \in Power : c.num = requests
    /\ mpc \in {"readCancel", "wait"} /\ radioChanged => signaller = requests

WakeInv == ~platformOff => AwaitInv

(* What is being executed when nothing waits is the node of the last event. *)
LastInv ==
    \A t \in Executors :
        xpc[t] # "none" /\ Waiting = <<>> => (xnode[t].up <=> lastEvent = "UP")

(* The radio is taken for on, but was not powered on in this life.          *)
StaleOn == radio = "ON" /\ ~powered

(* The node of a MODEM_UP that is going to correct it is in progress, or a  *)
(* thread in RequestModemRestart is.                                        *)
Corrected ==
    \/ \E t \in Executors :
          xpc[t] \in UpSteps \/ (xpc[t] = "end" /\ xnode[t].up /\ continued)
    \/ ~MutexFree

OnInv ==
    UpIsLast =>
        /\ StaleOn => Corrected
        /\ \A t \in Executors :
              (xpc[t] \in {"open", "create", "start"} /\ radio = "ON")
              \/ (xpc[t] \in {"initialized", "initModem", "restart"} /\ StaleOn)
              => ~spoof \/ ~MutexFree
(* A node that is to signal the cancel event.                               *)
Closing ==
    \/ \E t \in Executors : xpc[t] \in {"spoof", "reset", "cancel"} /\ Closes(xnode[t])
    \/ \E i \in 1..Len(Waiting) : Closes(Waiting[i])

OwnAlive == cpc # "none" /\ \E c \in Power : c.num = requests

(* The life in which the main thread queued its command is not over while   *)
(* the cancel event is clear, and its command thread ends only with a modem *)
(* whose loss a closing node will announce.                                 *)
WatchInv ==
    /\ mkind = "shutdown" => shutdown
    /\ mpc # "wait" => ~woken
    /\ \A t \in Executors : xpc[t] = "close" => cancel # "clear"
    /\ \A t \in Executors : xpc[t] \in {"unspoof", "open", "create"} => ~queues
    /\ cancel = "clear" /\ (\A t \in Executors : xpc[t] # "start")
       => cpc # "none" \/ Closing \/ Departed
    /\ mpc \in {"readCancel", "wait"} /\ ~stranded /\ ~woken => queues
    /\ mpc = "wait" /\ ~stranded /\ cancel = "set" => woken
    /\ mpc \in {"readCancel", "wait"} /\ ~stranded /\ ~woken /\ ~radioChanged
       /\ cancel = "clear" => OwnAlive \/ Closing \/ Departed
-----------------------------------------------------------------------------
(* Every step is one of the life cycle, or one beside it.                   *)
LEMMA LifeSteps ==
    ASSUME TypeOK, [RadioNext]_allVars
    PROVE  [Next]_vars \/ Beside
<1>0. initOk \in BOOLEAN /\ poweredOff \in BOOLEAN /\ platformOff \in BOOLEAN
  BY DEF TypeOK
<1>1. ASSUME NEW e \in Sent, ReceiveRadioEvent(e) PROVE Next
  BY <1>1, RadioPowerAssumption DEF ReceiveRadioEvent, Next
<1>2. CASE OtherLifeStep(HandlerStep) \/ OtherLifeStep(WorkerStep)
  BY <1>2 DEF OtherLifeStep, Next
<1>3. ASSUME NEW t \in Executors, RadioNodeStep(t) PROVE Next
  <2>1. NodeStep(t)
    BY <1>3 DEF RadioNodeStep, ResetRadio, SignalCancelEvent, ClosePorts, FinishRadioNode,
                FreeChannelInfo, StartCommandThread, SendBasicInit, OtherNodeStep, NodeStep
  <2> QED BY <2>1 DEF Next
<1>4. ASSUME NEW t \in Restarters, RadioRestartStep(t) PROVE Next
  BY <1>4 DEF RadioRestartStep, Next
<1>5. ASSUME NEW kind \in {"on", "off", "shutdown"}, OnRequest(kind) PROVE Beside
  BY <1>0, <1>5 DEF OnRequest, Beside, sysVars
<1>6. CASE MainStep
  <2>1. CASE MainSignalsCancel
    BY <1>0, <2>1 DEF MainSignalsCancel, Beside, TypeOK
  <2>2. CASE MainClosesPorts
    BY <1>0, <2>2 DEF MainClosesPorts, Beside
  <2>3. CASE ResetPoweredOff
    BY <1>0, <2>3 DEF ResetPoweredOff, Beside
  <2>4. \/ UNCHANGED vars
        \/ MainSignalsCancel \/ MainClosesPorts \/ ResetPoweredOff
    BY <1>6 DEF MainStep, DecideOn, DecideOff, DecideShutdown, CheckInitialized,
                ResetBasicEvent, WaitBasicInit, ResetRadioEvent, AddRefused,
                AddCmdToQueue, ReadCancelEvent, WaitRadioState, WaitModemPowerOff,
                Fail, CompleteRequest
  <2> QED BY <2>1, <2>2, <2>3, <2>4
<1>7. CASE CommandStep \/ TriggerRadioOffInd
  <2>1. UNCHANGED vars
    BY <1>7 DEF CommandStep, TakeCommand, LeaveLoop, IsRequestAllowed, PostCommand,
                SignalRadioState, CmdFrame, TriggerRadioOffInd
  <2> QED BY <2>1
<1>8. CASE BasicStep
  <2>1. CASE BasicInitFails
    BY <1>0, <2>1 DEF BasicInitFails, Beside
  <2>2. UNCHANGED vars \/ BasicInitFails
    BY <1>8 DEF BasicStep, BasicInitComplete, HandleChannelsBasicInitComplete
  <2> QED BY <2>1, <2>2
<1>9. CASE UNCHANGED allVars
  BY <1>9 DEF allVars
<1> QED BY <1>1, <1>2, <1>3, <1>4, <1>5, <1>6, <1>7, <1>8, <1>9 DEF RadioNext

(* What is beside the life cycle begins and ends no node, puts nothing in   *)
(* service, frees nothing and starts no thread.                             *)
LEMMA BesideLife ==
    ASSUME LifeInv, Beside
    PROVE  LifeInv'
<1>1. /\ UNCHANGED <<hVars, deferVars, xVars, rVars, spoof, queues>>
      /\ initOk' \in BOOLEAN /\ (initOk' => initOk)
      /\ cancel' = cancel \/ (cancel # "none" /\ cancel' = "set")
      /\ UNCHANGED <<ports, threads>> \/ (ports' = 0 /\ threads' = FALSE)
      /\ poweredOff' \in BOOLEAN /\ platformOff' \in BOOLEAN
  BY DEF Beside
<1>2. 0 \in 0..NPorts
  BY ModemResetAssumption
<1>3. TypeOK'
  <2>1. ports' \in 0..NPorts /\ threads' \in BOOLEAN /\ cancel' \in {"none", "clear", "set"}
    BY <1>1, <1>2 DEF LifeInv, TypeOK
  <2>2. TypeOK
    BY DEF LifeInv
  <2>3. UNCHANGED <<lastEvent, hpc, hnode, resetQueue, running, startLock, worker, xpc,
                    xnode, rpc, events, done, owed, acks, recoveries, errors>>
    BY <1>1 DEF hVars, deferVars, xVars, rVars
  <2> QED BY <1>1, <2>1, <2>2, <2>3 DEF TypeOK
<1>4. DeferInv'
  BY <1>1 DEF LifeInv, DeferInv, hVars, deferVars, xVars, rVars
<1>5. Executing' = Executing /\ Waiting' = Waiting
  BY <1>1 DEF Executing, Waiting, hVars, deferVars, xVars
<1>6. Order'
  BY <1>1, <1>5, OrderKept DEF LifeInv, hVars, deferVars, xVars
<1>7. CleanInv'
  BY <1>1, <1>5, CleanKept DEF LifeInv, hVars, xVars
<1> QED BY <1>3, <1>4, <1>6, <1>7 DEF LifeInv

LEMMA BesideStop ==
    ASSUME LifeInv, StopInv, Beside
    PROVE  StopInv'
<1>1. UNCHANGED <<hVars, deferVars, xVars>> /\ (threads' => threads)
  BY DEF Beside
<1>2. Waiting' = Waiting
  BY <1>1 DEF Waiting, hVars, deferVars
<1> QED BY <1>1, <1>2, StopKept DEF hVars, xVars

(* So the invariants of the life cycle hold initially ...                   *)
LEMMA InitLife == RadioInit => LifeInv /\ StopInv
BY InitTypes, InitOrder, InitClean, InitStop DEF RadioInit, LifeInv

(* ... and every step keeps them.                                           *)
LEMMA StepLife ==
    ASSUME LifeInv, [RadioNext]_allVars
    PROVE  LifeInv'
<1>1. CASE [Next]_vars
  BY <1>1, StepTypes, StepOrder, StepClean DEF LifeInv
<1> QED BY <1>1, LifeSteps, BesideLife DEF LifeInv

LEMMA StepRadioStop ==
    ASSUME ~DownUnannounced, LifeInv, StopInv, [RadioNext]_allVars
    PROVE  StopInv'
<1>1. CASE [Next]_vars
  BY <1>1, StepStop DEF LifeInv
<1> QED BY <1>1, LifeSteps, BesideStop DEF LifeInv

(* The main thread and the basic initialisation, which close ports, stop    *)
(* threads and withdraw the initialisation behind the nodes' back, break    *)
(* neither the order of the nodes nor what the nodes clean up.              *)
THEOREM LifeCycleSurvives ==
    RadioSpec => [](TypeOK /\ InEventOrder /\ QueuesLive /\ DownMeansSpoofed)
<1>1. RadioSpec => []LifeInv
  BY InitLife, StepLife, PTL DEF RadioSpec
<1>2. LifeInv => TypeOK /\ InEventOrder /\ QueuesLive /\ DownMeansSpoofed
  BY OrderIsInEventOrder, CleanMeansSpoofed DEF LifeInv, CleanInv
<1> QED BY <1>1, <1>2, PTL

(* Nor do they make the queues be freed under running channel threads: with *)
(* the main thread closing ports, too, ResetChannelInfo comes after the     *)
(* threads' stop.                                                           *)
THEOREM FreedAfterStopSurvives ==
    ASSUME ~DownUnannounced PROVE RadioSpec => FreedAfterStop
<1>0. LifeInv /\ StopInv /\ [RadioNext]_allVars => StopInv'
  BY StepRadioStop
<1>1. RadioSpec => [](LifeInv /\ StopInv)
  BY <1>0, InitLife, StepLife, PTL DEF RadioSpec
<1>2. StopInv => [\A t \in Executors : ResetChannelInfo(t) => ~threads]_vars
  BY DEF StopInv, Stopped, ResetChannelInfo, At
<1> QED BY <1>1, <1>2, PTL DEF FreedAfterStop

LEMMA BesideAck ==
    ASSUME LifeInv, AckInv, Beside
    PROVE  AckInv' /\ Paid
<1>1. /\ UNCHANGED <<Waiting, Executing, xpc, xnode, events, owed, acks>>
      /\ ports = 0 => ports' = 0
      /\ threads' => threads
  BY DEF Beside, hVars, deferVars, xVars, rVars, Waiting, Executing
<1>2. Pending' = Pending /\ Owing' = Owing
  BY <1>1, PendingKept
<1>3. threads \in BOOLEAN /\ threads' \in BOOLEAN
  BY DEF LifeInv, TypeOK, Beside
<1> QED BY <1>1, <1>2, <1>3 DEF AckInv, Paid, Closes

(* The ports being closed by another thread does not let an acknowledgement *)
(* be sent twice, or be sent before the node has closed them.               *)
THEOREM AcknowledgedSurvives == RadioSpec => AckAfterClose
<1>1. LifeInv /\ AckInv /\ [RadioNext]_allVars => AckInv' /\ Paid
  <2> SUFFICES ASSUME LifeInv, AckInv, [RadioNext]_allVars PROVE AckInv' /\ Paid
    OBVIOUS
  <2>1. CASE [Next]_vars
    BY <2>1, StepAck DEF LifeInv
  <2> QED BY <2>1, LifeSteps, BesideAck DEF LifeInv
<1>2. RadioInit => AckInv
  BY InitAck DEF RadioInit
<1>3. RadioSpec => [](LifeInv /\ AckInv)
  BY <1>1, <1>2, InitLife, StepLife, PTL DEF RadioSpec
<1>4. LifeInv /\ AckInv /\ [RadioNext]_allVars
        => [acks' # acks => acks' = acks + 1 /\ acks' <= owed /\ ports = 0 /\ ~threads]_vars
  BY <1>1 DEF Paid
<1> QED BY <1>3, <1>4, PTL DEF RadioSpec, AckAfterClose
-----------------------------------------------------------------------------
(* The types of this module's variables, one by one.                        *)
LEMMA InitRadioTypes == RadioInit => RadioTypeOK
<1> SUFFICES ASSUME RadioInit PROVE RadioTypeOK
  OBVIOUS
<1>1. NoCommand \in Command /\ txq \in Seq(Command)
  BY DEF RadioInit, NoCommand, Command
<1>2. {pending, shutdown, radioChanged, basicDone, continued, offTimer, woken,
       stranded, powered} \subseteq BOOLEAN
  BY DEF RadioInit
<1> QED BY <1>1, <1>2 DEF RadioInit, RadioTypeOK

LEMMA StepRadioTypes ==
    ASSUME TypeOK, RadioTypeOK, [RadioNext]_allVars
    PROVE  RadioTypeOK'
<1> USE DEF RadioTypeOK, mainVars, stateVars, eventVars, initVars, cmdVars, LifeFrame,
        MainFrame, MainAt, MainGoto, CmdFrame, BasicFrame
<1>1. ASSUME NEW e \in Sent, ReceiveRadioEvent(e) PROVE RadioTypeOK'
  <2>1. events' \in Nat
    BY <1>1 DEF ReceiveRadioEvent, ReceiveEvent, TypeOK
  <2>2. quiet' \subseteq Nat
    BY <1>1, <2>1 DEF ReceiveRadioEvent
  <2> QED BY <1>1, <2>2 DEF ReceiveRadioEvent
<1>2. CASE OtherLifeStep(HandlerStep) \/ OtherLifeStep(WorkerStep)
  <2>1. UNCHANGED radioVars
    BY <1>2 DEF OtherLifeStep
  <2> QED BY <2>1 DEF radioVars
<1>3. ASSUME NEW t \in Executors, RadioNodeStep(t) PROVE RadioTypeOK'
  <2>1. CASE ResetRadio(t)
    BY <2>1 DEF ResetRadio
  <2>2. CASE SignalCancelEvent(t)
    <3>1. woken' \in BOOLEAN
      BY <2>2 DEF SignalCancelEvent
    <3> QED BY <2>2, <3>1 DEF SignalCancelEvent
  <2>3. CASE FinishRadioNode(t)
    <3>1. continued' \in BOOLEAN /\ quiet' \subseteq Nat /\ radio' \in {"UNAVAILABLE", "OFF", "ON"}
      BY <2>3 DEF FinishRadioNode
    <3> QED BY <2>3, <3>1 DEF FinishRadioNode
  <2>4. CASE FreeChannelInfo(t)
    <3>1. stranded' \in BOOLEAN /\ txq' \in Seq(Command)
      BY <2>4 DEF FreeChannelInfo
    <3> QED BY <2>4, <3>1 DEF FreeChannelInfo
  <2>5. CASE StartCommandThread(t)
    BY <2>5 DEF StartCommandThread
  <2>6. CASE SendBasicInit(t)
    BY <2>6 DEF SendBasicInit
  <2>7. CASE ClosePorts(t) \/ OtherNodeStep(t)
    <3>1. UNCHANGED radioVars
      BY <2>7 DEF ClosePorts, OtherNodeStep
    <3> QED BY <3>1 DEF radioVars
  <2> QED BY <1>3, <2>1, <2>2, <2>3, <2>4, <2>5, <2>6, <2>7 DEF RadioNodeStep
<1>4. ASSUME NEW t \in Restarters, RadioRestartStep(t) PROVE RadioTypeOK'
  BY <1>4 DEF RadioRestartStep
<1>5. ASSUME NEW kind \in {"on", "off", "shutdown"}, OnRequest(kind) PROVE RadioTypeOK'
  <2>1. pending' \in BOOLEAN /\ requests' \in Nat
    BY <1>5 DEF OnRequest
  <2>2. shutdown' \in BOOLEAN
    BY <1>5 DEF OnRequest, TypeOK
  <2> QED BY <1>5, <2>1, <2>2 DEF OnRequest
<1>6. CASE MainStep
  <2>1. CASE AddCmdToQueue
    <3>1. [num |-> requests, kind |-> IF mkind = "shutdown" THEN "shutdown" ELSE "power"]
              \in Command
      BY DEF Command
    <3>2. txq' \in Seq(Command)
      BY <2>1, <3>1 DEF AddCmdToQueue
    <3> QED BY <2>1, <3>2 DEF AddCmdToQueue
  <2>2. CASE DecideOn \/ DecideOff \/ DecideShutdown
    BY <2>2 DEF DecideOn, DecideOff, DecideShutdown
  <2>3. CASE MainSignalsCancel \/ MainClosesPorts \/ ResetPoweredOff \/ WaitModemPowerOff
    BY <2>3 DEF MainSignalsCancel, MainClosesPorts, ResetPoweredOff, WaitModemPowerOff
  <2>4. CASE CheckInitialized \/ ResetBasicEvent \/ WaitBasicInit \/ ResetRadioEvent
    BY <2>4 DEF CheckInitialized, ResetBasicEvent, WaitBasicInit, ResetRadioEvent
  <2>5. CASE AddRefused \/ ReadCancelEvent \/ WaitRadioState
    BY <2>5 DEF AddRefused, ReadCancelEvent, WaitRadioState
  <2>6. CASE Fail \/ CompleteRequest
    BY <2>6 DEF Fail, CompleteRequest
  <2> QED BY <1>6, <2>1, <2>2, <2>3, <2>4, <2>5, <2>6 DEF MainStep
<1>7. CASE CommandStep
  <2>0. NoCommand \in Command
    BY DEF NoCommand, Command
  <2>1. CASE TakeCommand
    <3>1. txq' \in Seq(Command) /\ ccmd' \in Command
      BY <2>1 DEF TakeCommand
    <3> QED BY <2>1, <3>1 DEF TakeCommand
  <2>2. CASE LeaveLoop
    <3>1. txq' \in Seq(Command)
      BY <2>2 DEF LeaveLoop
    <3> QED BY <2>2, <3>1 DEF LeaveLoop
  <2>3. CASE IsRequestAllowed
    BY <2>0, <2>3 DEF IsRequestAllowed
  <2>4. CASE PostCommand
    BY <2>0, <2>4 DEF PostCommand
  <2>5. CASE SignalRadioState
    BY <2>0, <2>5 DEF SignalRadioState, Command
  <2> QED BY <1>7, <2>1, <2>2, <2>3, <2>4, <2>5 DEF CommandStep
<1>8. CASE BasicStep
  BY <1>8 DEF BasicStep, BasicInitComplete, HandleChannelsBasicInitComplete, BasicInitFails
<1>9. CASE TriggerRadioOffInd
  BY <1>9 DEF TriggerRadioOffInd
<1>10. CASE UNCHANGED allVars
  BY <1>10 DEF allVars, radioVars
<1> QED BY <1>1, <1>2, <1>3, <1>4, <1>5, <1>6, <1>7, <1>8, <1>9, <1>10 DEF RadioNext

(* The radio state, the requests and the command thread keep their types,   *)
(* for any number of requests and of events.                                *)
THEOREM RadioTypeCorrect == RadioSpec => []RadioTypeOK
<1>1. LifeInv => TypeOK
  BY DEF LifeInv
<1> QED BY <1>1, InitLife, StepLife, InitRadioTypes, StepRadioTypes, PTL DEF RadioSpec
-----------------------------------------------------------------------------
(* The channel's queue as a set of commands.                                *)
LEMMA InNoQueue == ASSUME txq = <<>> PROVE InQueue = {}
<1>1. Len(txq) = 0
  OBVIOUS
<1> QED BY <1>1 DEF InQueue

LEMMA AliveType ==
    ASSUME RadioTypeOK
    PROVE  Alive \subseteq Command /\ \A c \in Alive : c.num \in Nat
<1>1. txq \in Seq(Command) /\ ccmd \in Command
  BY DEF RadioTypeOK
<1>2. \A i \in 1..Len(txq) : txq[i] \in Command
  BY <1>1
<1>3. Alive \subseteq Command
  BY <1>1, <1>2 DEF Alive, InQueue
<1>4. \A c \in Command : c.num \in Nat
  BY DEF Command
<1> QED BY <1>3, <1>4

LEMMA Prepended ==
    ASSUME RadioTypeOK, NEW c, txq' = <<c>> \o txq
    PROVE  /\ InQueue' = {c} \cup InQueue
           /\ \A i \in 2..Len(txq') : txq'[i] \in InQueue
<1>1. txq \in Seq(Command) /\ Len(txq) \in Nat
  BY DEF RadioTypeOK
<1>2. Len(txq') = Len(txq) + 1 /\ txq'[1] = c
  BY <1>1
<1>3. \A i \in 2..Len(txq') : i - 1 \in 1..Len(txq) /\ txq'[i] = txq[i - 1]
  BY <1>1, <1>2
<1>4. \A i \in 2..Len(txq') : txq'[i] \in InQueue
  BY <1>3 DEF InQueue
<1>5. InQueue \subseteq InQueue'
  <2>1. \A i \in 1..Len(txq) : i + 1 \in 1..Len(txq') /\ txq'[i + 1] = txq[i]
    BY <1>1, <1>2
  <2> QED BY <2>1 DEF InQueue
<1>6. c \in InQueue'
  <2>1. 1 \in 1..Len(txq')
    BY <1>1, <1>2
  <2> QED BY <1>2, <2>1 DEF InQueue
<1>7. InQueue' \subseteq {c} \cup InQueue
  <2>1. ASSUME NEW i \in 1..Len(txq') PROVE txq'[i] \in {c} \cup InQueue
    <3>1. i = 1 \/ i \in 2..Len(txq')
      BY <1>1, <1>2
    <3> QED BY <1>2, <1>4, <3>1
  <2> QED BY <2>1 DEF InQueue
<1> QED BY <1>4, <1>5, <1>6, <1>7

LEMMA Taken ==
    ASSUME RadioTypeOK, txq # <<>>, txq' = Tail(txq)
    PROVE  /\ Head(txq) \in InQueue /\ Head(txq) = txq[1]
           /\ InQueue' \subseteq {txq[i] : i \in 2..Len(txq)}
           /\ InQueue' \subseteq InQueue
           /\ \A i \in 2..Len(txq') : i + 1 \in 2..Len(txq) /\ txq'[i] = txq[i + 1]
<1>1. txq \in Seq(Command) /\ Len(txq) \in Nat \ {0}
  BY DEF RadioTypeOK
<1>2. /\ Len(txq') = Len(txq) - 1 /\ Head(txq) = txq[1]
      /\ \A i \in 1..Len(txq') : txq'[i] = txq[i + 1]
  BY <1>1
<1>3. \A i \in 1..Len(txq') : i + 1 \in 2..Len(txq)
  BY <1>1, <1>2
<1>4. InQueue' \subseteq {txq[i] : i \in 2..Len(txq)}
  BY <1>2, <1>3 DEF InQueue
<1>5. {txq[i] : i \in 2..Len(txq)} \subseteq InQueue
  <2>1. \A i \in 2..Len(txq) : i \in 1..Len(txq)
    BY <1>1
  <2> QED BY <2>1 DEF InQueue
<1>6. \A i \in 2..Len(txq') : i \in 1..Len(txq')
  BY <1>1, <1>2
<1>7. 1 \in 1..Len(txq)
  BY <1>1
<1> QED BY <1>2, <1>3, <1>4, <1>5, <1>6, <1>7 DEF InQueue

(* The command thread executes what was queued, and nothing twice.          *)
LEMMA CommandAlive ==
    ASSUME RadioTypeOK, CommandStep
    PROVE  Alive' \subseteq Alive /\ InQueue' \subseteq InQueue
<1> USE DEF Alive, Active
<1>1. CASE TakeCommand
  <2>1. Head(txq) \in InQueue /\ InQueue' \subseteq InQueue
    BY <1>1, Taken DEF TakeCommand
  <2> QED BY <1>1, <2>1 DEF TakeCommand
<1>2. CASE LeaveLoop
  <2>1. InQueue' = {}
    BY <1>2, InNoQueue DEF LeaveLoop, InQueue
  <2> QED BY <1>2, <2>1 DEF LeaveLoop
<1>3. CASE IsRequestAllowed
  <2>1. InQueue' = InQueue
    BY <1>3 DEF IsRequestAllowed, InQueue
  <2> QED BY <1>3, <2>1 DEF IsRequestAllowed
<1>4. CASE PostCommand
  <2>1. InQueue' = InQueue
    BY <1>4 DEF PostCommand, InQueue
  <2> QED BY <1>4, <2>1 DEF PostCommand
<1>5. CASE SignalRadioState
  <2>1. InQueue' = InQueue
    BY <1>5 DEF SignalRadioState, InQueue
  <2> QED BY <1>5, <2>1 DEF SignalRadioState
<1> QED BY <1>1, <1>2, <1>3, <1>4, <1>5 DEF CommandStep
-----------------------------------------------------------------------------
LEMMA InitChannel == RadioInit => ChannelInv
BY DEF RadioInit, Init, ChannelInv

(* The threads are joined before they are declared stopped, the queues are  *)
(* freed without them, and they are started over queues that exist.         *)
LEMMA StepChannel ==
    ASSUME LifeInv, StopInv, ChannelInv, [RadioNext]_allVars
    PROVE  ChannelInv'
<1> USE DEF ChannelInv
<1>0. ASSUME UNCHANGED <<threads, queues, cancel, txq, cpc, ccmd>> PROVE ChannelInv'
  BY <1>0
<1>1. ASSUME NEW e \in Sent, ReceiveRadioEvent(e) PROVE ChannelInv'
  BY <1>1, <1>0 DEF ReceiveRadioEvent, ReceiveEvent, sysVars, cmdVars
<1>2. CASE OtherLifeStep(HandlerStep) \/ OtherLifeStep(WorkerStep)
  <2>1. UNCHANGED sysVars /\ UNCHANGED radioVars
    BY <1>2 DEF OtherLifeStep, HandlerStep, WorkerStep, QueueToWorker, StartWorker,
                ExecuteInline, InlineDone, WorkerDequeues, WorkerFinishes, NodeDone
  <2> QED BY <1>0, <2>1 DEF sysVars, radioVars, cmdVars
<1>3. ASSUME NEW t \in Executors, RadioNodeStep(t) PROVE ChannelInv'
  <2>0. Placed(t) /\ Stopped(t)
    BY DEF LifeInv, CleanInv, StopInv
  <2>1. CASE ResetRadio(t) \/ FinishRadioNode(t) \/ SendBasicInit(t)
    BY <1>0, <2>1 DEF ResetRadio, FinishRadioNode, SendBasicInit, ResetSystemState,
                      FinishNode, InitializeModem, InitializeModemFails, sysVars, cmdVars
  <2>2. CASE SignalCancelEvent(t)
    BY <2>2 DEF SignalCancelEvent, SignalCancel, cmdVars
  <2>3. CASE ClosePorts(t)
    BY <2>3 DEF ClosePorts, CloseChannelPorts, Joined, radioVars, cmdVars
  <2>4. CASE FreeChannelInfo(t)
    <3>1. ~threads
      BY <2>0, <2>4 DEF FreeChannelInfo, ResetChannelInfo, At, Stopped
    <3> QED BY <2>4, <3>1 DEF FreeChannelInfo, ResetChannelInfo
  <2>5. CASE StartCommandThread(t)
    <3>1. queues
      BY <2>0, <2>5 DEF StartCommandThread, StartThreads, At, Placed
    <3> QED BY <2>5, <3>1 DEF StartCommandThread, StartThreads
  <2>6. CASE OtherNodeStep(t)
    <3>1. UNCHANGED <<txq, cpc, ccmd>>
      BY <2>6 DEF OtherNodeStep, radioVars, cmdVars
    <3>2. CASE CreateQueues(t)
      BY <3>1, <3>2 DEF CreateQueues
    <3>3. CASE ~CreateQueues(t)
      BY <1>0, <2>6, <3>1, <3>3 DEF OtherNodeStep, SpoofOn, SpoofOff, OpenPort, OpenFails,
                                    SetSystemInitialized
    <3> QED BY <3>2, <3>3
  <2> QED BY <1>3, <2>1, <2>2, <2>3, <2>4, <2>5, <2>6 DEF RadioNodeStep
<1>4. ASSUME NEW t \in Restarters, RadioRestartStep(t) PROVE ChannelInv'
  <2>1. UNCHANGED <<threads, queues, cancel>>
    BY <1>4 DEF RadioRestartStep, RestartStep, RestartFrame, IgnoreRestart, TestAndSetSpoof,
                SetInitializationUnsuccessful, SendRequestModemRecovery
  <2> QED BY <1>0, <1>4, <2>1 DEF RadioRestartStep, cmdVars
<1>5. ASSUME NEW kind \in {"on", "off", "shutdown"}, OnRequest(kind) PROVE ChannelInv'
  BY <1>0, <1>5 DEF OnRequest, sysVars, cmdVars
<1>6. CASE MainStep
  <2>1. CASE MainSignalsCancel
    BY <2>1 DEF MainSignalsCancel, MainFrame, cmdVars
  <2>2. CASE MainClosesPorts
    BY <2>2 DEF MainClosesPorts, Joined, MainFrame, cmdVars
  <2>3. CASE AddCmdToQueue
    BY <2>3 DEF AddCmdToQueue, vars, sysVars
  <2>4. CASE ResetPoweredOff
    BY <1>0, <2>4 DEF ResetPoweredOff, MainFrame, cmdVars
  <2>5. \/ UNCHANGED vars /\ UNCHANGED cmdVars
        \/ MainSignalsCancel \/ MainClosesPorts \/ AddCmdToQueue \/ ResetPoweredOff
    BY <1>6 DEF MainStep, DecideOn, DecideOff, DecideShutdown, CheckInitialized,
                ResetBasicEvent, WaitBasicInit, ResetRadioEvent, AddRefused, ReadCancelEvent,
                WaitRadioState, WaitModemPowerOff, Fail, CompleteRequest, MainFrame
  <2> QED BY <1>0, <2>1, <2>2, <2>3, <2>4, <2>5 DEF vars, sysVars, cmdVars
<1>7. CASE CommandStep
  <2>1. UNCHANGED <<threads, queues, cancel>>
    BY <1>7 DEF CommandStep, TakeCommand, LeaveLoop, IsRequestAllowed, PostCommand,
                SignalRadioState, CmdFrame, vars, sysVars
  <2>2. CASE TakeCommand
    BY <2>1, <2>2 DEF TakeCommand
  <2>3. CASE LeaveLoop
    BY <2>1, <2>3 DEF LeaveLoop
  <2>4. CASE IsRequestAllowed
    BY <2>1, <2>4 DEF IsRequestAllowed
  <2>5. CASE PostCommand
    BY <2>1, <2>5 DEF PostCommand
  <2>6. CASE SignalRadioState
    BY <2>1, <2>6 DEF SignalRadioState
  <2> QED BY <1>7, <2>2, <2>3, <2>4, <2>5, <2>6 DEF CommandStep
<1>8. CASE BasicStep
  BY <1>0, <1>8 DEF BasicStep, BasicInitComplete, HandleChannelsBasicInitComplete,
                    BasicInitFails, BasicFrame, vars, sysVars, cmdVars
<1>9. CASE TriggerRadioOffInd \/ UNCHANGED allVars
  BY <1>0, <1>9 DEF TriggerRadioOffInd, MainFrame, vars, sysVars, cmdVars, allVars, radioVars
<1> QED BY <1>1, <1>2, <1>3, <1>4, <1>5, <1>6, <1>7, <1>8, <1>9 DEF RadioNext
-----------------------------------------------------------------------------
LEMMA InitNumber == RadioInit => NumberInv
<1> SUFFICES ASSUME RadioInit PROVE NumberInv
  OBVIOUS
<1>1. txq = <<>> /\ Len(txq) = 0 /\ cpc = "none" /\ mpc = "idle"
      /\ signaller = 0 /\ requests = 0
  BY DEF RadioInit
<1>2. Alive = {}
  BY <1>1, InNoQueue DEF Alive, Active
<1> QED BY <1>1, <1>2 DEF NumberInv, Active, Before

(* A step that adds no command and does not begin a request.                *)
LEMMA NumberKept ==
    ASSUME NumberInv, RadioTypeOK, UNCHANGED <<requests, signaller>>,
           mpc' \in Before => mpc \in Before,
           \/ UNCHANGED <<txq, cpc, ccmd>>
           \/ txq' = <<>> /\ UNCHANGED <<cpc, ccmd>>
           \/ txq' = txq /\ cpc' \notin Active
    PROVE  NumberInv'
<1>1. txq' = txq \/ txq' = <<>>
  OBVIOUS
<1>2. CASE txq' = txq
  <2>1. InQueue' = InQueue
    BY <1>2 DEF InQueue
  <2>2. Alive' \subseteq Alive
    BY <1>2, <2>1 DEF Alive
  <2>3. cpc' \in Active => cpc' = cpc /\ ccmd' = ccmd
    BY <1>2
  <2> QED BY <1>2, <2>1, <2>2, <2>3 DEF NumberInv
<1>3. CASE txq' = <<>>
  <2>1. InQueue' = {} /\ Len(txq') = 0
    BY <1>3, InNoQueue DEF InQueue
  <2>2. Alive' \subseteq Alive
    BY <1>3, <2>1 DEF Alive
  <2> QED BY <2>1, <2>2 DEF NumberInv
<1> QED BY <1>1, <1>2, <1>3

(* A request is numbered beyond every command.                              *)
LEMMA RequestNumber ==
    ASSUME NumberInv, RadioTypeOK, NEW kind, OnRequest(kind)
    PROVE  NumberInv'
<1>1. /\ requests' = requests + 1 /\ requests \in Nat /\ signaller \in Nat
      /\ UNCHANGED <<txq, cpc, ccmd, signaller>> /\ mpc' = "decide"
  BY DEF OnRequest, MainGoto, eventVars, cmdVars, RadioTypeOK
<1>2. InQueue' = InQueue /\ Alive' = Alive
  BY <1>1 DEF InQueue, Alive
<1>3. \A c \in Alive : c.num \in Nat
  BY AliveType
<1>4. \A c \in Alive' : c.num < requests'
  BY <1>1, <1>2, <1>3 DEF NumberInv
<1>5. InQueue \subseteq Alive
  BY DEF Alive
<1>6. \A i \in 2..Len(txq) : txq[i] \in InQueue
  <2>1. \A i \in 2..Len(txq) : i \in 1..Len(txq)
    BY DEF RadioTypeOK
  <2> QED BY <2>1 DEF InQueue
<1>7. \A i \in 2..Len(txq') : txq'[i].num < requests'
  BY <1>1, <1>2, <1>4, <1>5, <1>6
<1>8. signaller' < requests'
  BY <1>1 DEF NumberInv
<1>9. \A c \in Alive' : c.num <= requests'
  BY <1>1, <1>2, <1>3, <1>4
<1>10. signaller' <= requests'
  BY <1>1, <1>8
<1>11. cpc' \in Active => ccmd' \in Alive'
  BY DEF Alive
<1>12. \A c \in InQueue' : c.num < requests'
  BY <1>2, <1>4, <1>5
<1> QED BY <1>4, <1>7, <1>8, <1>9, <1>10, <1>12 DEF NumberInv

(* The command of the last request is queued where none of its number was.  *)
LEMMA AddNumber ==
    ASSUME NumberInv, RadioTypeOK, AddCmdToQueue
    PROVE  NumberInv'
<1> DEFINE c == [num |-> requests, kind |-> IF mkind = "shutdown" THEN "shutdown" ELSE "power"]
<1>1. /\ txq' = <<c>> \o txq /\ UNCHANGED <<requests, signaller, cpc, ccmd>>
      /\ mpc = "add" /\ mpc' \in {"resetOff", "readCancel"}
  BY DEF AddCmdToQueue, MainAt, MainGoto, eventVars
<1>2. c.num = requests
  OBVIOUS
<1> HIDE DEF c
<1>3. InQueue' = {c} \cup InQueue /\ \A i \in 2..Len(txq') : txq'[i] \in InQueue
  BY <1>1, Prepended
<1>4. Alive' = {c} \cup Alive
  BY <1>1, <1>3 DEF Alive
<1>5. signaller < requests /\ \A d \in Alive : d.num < requests
  BY <1>1 DEF NumberInv, Before
<1>6. cpc \in Active => ccmd.num < requests
  BY <1>5 DEF Alive
<1>7. requests \in Nat /\ (cpc \in Active => ccmd.num \in Nat)
  BY DEF RadioTypeOK, Command
<1>8. mpc' \notin Before
  BY <1>1 DEF Before
<1>9. \A d \in Alive' : d.num <= requests
  BY <1>2, <1>4, <1>7 DEF NumberInv
<1>10. \A i \in 2..Len(txq') : txq'[i].num < requests
  BY <1>3, <1>5 DEF Alive
<1>11. ~(cpc' \in Active /\ ccmd'.num = requests')
  BY <1>1, <1>6, <1>7
<1>12. signaller' # requests' /\ signaller' <= requests'
  BY <1>1, <1>5, <1>7 DEF RadioTypeOK
<1> QED BY <1>1, <1>8, <1>9, <1>10, <1>11, <1>12 DEF NumberInv

(* The command thread takes the newest command first.                       *)
LEMMA CommandNumber ==
    ASSUME NumberInv, RadioTypeOK, CommandStep
    PROVE  NumberInv'
<1>0. /\ requests \in Nat /\ signaller \in Nat /\ ccmd.num \in Nat
      /\ \A d \in Alive : d.num \in Nat
  BY AliveType DEF RadioTypeOK, Command
<1>1. UNCHANGED <<requests, mpc>> /\ Alive' \subseteq Alive /\ InQueue' \subseteq InQueue
  BY CommandAlive DEF CommandStep, TakeCommand, LeaveLoop, IsRequestAllowed, PostCommand,
                      SignalRadioState, CmdFrame, mainVars
<1>2. CASE TakeCommand
  <2>1. /\ txq # <<>> /\ txq' = Tail(txq) /\ ccmd' = Head(txq) /\ signaller' = signaller
    BY <1>2 DEF TakeCommand, eventVars
  <2>2. /\ InQueue' \subseteq {txq[i] : i \in 2..Len(txq)}
        /\ \A i \in 2..Len(txq') : i + 1 \in 2..Len(txq) /\ txq'[i] = txq[i + 1]
    BY <2>1, Taken
  <2>3. \A d \in InQueue' : d.num < requests
    BY <2>2 DEF NumberInv
  <2>4. \A i \in 2..Len(txq') : txq'[i].num < requests
    BY <2>2 DEF NumberInv
  <2> QED BY <1>1, <2>1, <2>3, <2>4 DEF NumberInv
<1>3. CASE LeaveLoop
  <2>1. txq' = <<>> /\ cpc' = "none" /\ signaller' = signaller
    BY <1>3 DEF LeaveLoop, eventVars
  <2>2. Len(txq') = 0
    BY <2>1
  <2> QED BY <1>1, <2>1, <2>2 DEF NumberInv, Active
<1>4. CASE IsRequestAllowed
  <2>1. /\ txq' = txq /\ signaller' = signaller /\ cpc \in Active
        /\ cpc' \in Active => ccmd' = ccmd
    BY <1>4 DEF IsRequestAllowed, eventVars, Active
  <2> QED BY <1>1, <2>1 DEF NumberInv
<1>5. CASE PostCommand
  <2>1. /\ txq' = txq /\ signaller' = signaller /\ cpc \in Active
        /\ cpc' \in Active => ccmd' = ccmd
    BY <1>5 DEF PostCommand, eventVars, Active
  <2> QED BY <1>1, <2>1 DEF NumberInv
<1>6. CASE SignalRadioState
  <2>1. /\ txq' = txq /\ signaller' = ccmd.num /\ cpc \in Active /\ cpc' \notin Active
        /\ Alive' = InQueue /\ InQueue' = InQueue
    BY <1>6 DEF SignalRadioState, Active, Alive, InQueue
  <2>2. ccmd \in Alive
    BY <2>1 DEF Alive
  <2>3. ccmd.num <= requests /\ (mpc \in Before => ccmd.num < requests)
    BY <2>2 DEF NumberInv
  <2>4. ccmd.num = requests => \A d \in InQueue : d.num < requests
    BY <2>1 DEF NumberInv
  <2>5. mpc \in Before => \A d \in Alive : d.num < requests
    BY DEF NumberInv
  <2>6. \A d \in Alive' : d.num <= requests
    BY <1>1 DEF NumberInv
  <2>7. \A i \in 2..Len(txq') : txq'[i].num < requests
    BY <2>1 DEF NumberInv
  <2> QED BY <1>1, <2>1, <2>3, <2>4, <2>5, <2>6, <2>7 DEF NumberInv
<1> QED BY <1>2, <1>3, <1>4, <1>5, <1>6 DEF CommandStep

LEMMA StepNumber ==
    ASSUME LifeInv, ChannelInv, NumberInv, RadioTypeOK, [RadioNext]_allVars
    PROVE  NumberInv'
<1> USE DEF mainVars, eventVars, cmdVars, LifeFrame, MainFrame
<1>0. ASSUME UNCHANGED <<requests, signaller, mpc, txq, cpc, ccmd>> PROVE NumberInv'
  BY <1>0, NumberKept
<1>1. ASSUME NEW e \in Sent, ReceiveRadioEvent(e) PROVE NumberInv'
  BY <1>1, <1>0 DEF ReceiveRadioEvent
<1>2. CASE OtherLifeStep(HandlerStep) \/ OtherLifeStep(WorkerStep)
  <2>1. UNCHANGED radioVars
    BY <1>2 DEF OtherLifeStep
  <2> QED BY <1>0, <2>1 DEF radioVars
<1>3. ASSUME NEW t \in Executors, RadioNodeStep(t) PROVE NumberInv'
  <2>1. CASE ResetRadio(t) \/ SignalCancelEvent(t) \/ FinishRadioNode(t) \/ SendBasicInit(t)
    BY <1>0, <2>1 DEF ResetRadio, SignalCancelEvent, FinishRadioNode, SendBasicInit
  <2>2. CASE ClosePorts(t) \/ OtherNodeStep(t)
    BY <1>0, <2>2 DEF ClosePorts, OtherNodeStep, radioVars
  <2>3. CASE FreeChannelInfo(t)
    BY <2>3, NumberKept DEF FreeChannelInfo
  <2>4. CASE StartCommandThread(t)
    <3>1. UNCHANGED <<requests, signaller, mpc, txq, ccmd>>
          /\ cpc' = IF threads THEN cpc ELSE "loop"
      BY <2>4 DEF StartCommandThread
    <3>2. cpc' = cpc \/ cpc' \notin Active
      BY <3>1 DEF Active
    <3> QED BY <3>1, <3>2, NumberKept
  <2> QED BY <1>3, <2>1, <2>2, <2>3, <2>4 DEF RadioNodeStep
<1>4. ASSUME NEW t \in Restarters, RadioRestartStep(t) PROVE NumberInv'
  BY <1>0, <1>4 DEF RadioRestartStep
<1>5. ASSUME NEW kind \in {"on", "off", "shutdown"}, OnRequest(kind) PROVE NumberInv'
  BY <1>5, RequestNumber
<1>6. CASE MainStep
  <2>1. CASE AddCmdToQueue
    BY <2>1, AddNumber
  <2>2. \/ AddCmdToQueue
        \/ /\ UNCHANGED <<requests, signaller, txq, cpc, ccmd>>
           /\ mpc' \in Before => mpc \in Before
    BY <1>6 DEF MainStep, DecideOn, DecideOff, DecideShutdown, MainSignalsCancel,
                MainClosesPorts, CheckInitialized, ResetBasicEvent, WaitBasicInit,
                ResetRadioEvent, AddRefused, ReadCancelEvent, WaitRadioState,
                ResetPoweredOff, WaitModemPowerOff, Fail, CompleteRequest, MainAt,
                MainGoto, Before
  <2> QED BY <2>1, <2>2, NumberKept
<1>7. CASE CommandStep
  BY <1>7, CommandNumber
<1>8. CASE BasicStep
  BY <1>0, <1>8 DEF BasicStep, BasicInitComplete, HandleChannelsBasicInitComplete,
                    BasicInitFails, BasicFrame
<1>9. CASE TriggerRadioOffInd \/ UNCHANGED allVars
  BY <1>0, <1>9 DEF TriggerRadioOffInd, allVars, radioVars
<1> QED BY <1>1, <1>2, <1>3, <1>4, <1>5, <1>6, <1>7, <1>8, <1>9 DEF RadioNext
-----------------------------------------------------------------------------
(* What the steps of the life cycle do to the nodes: the event thread and   *)
(* the worker begin the first of those that wait, or none.                  *)
Begins(t, n) ==
    /\ \A u \in Executors : xpc[u] = "none"
    /\ xpc' = [xpc EXCEPT ![t] = FirstStep(n)] /\ xnode' = [xnode EXCEPT ![t] = n]
    /\ Waiting \in Seq(Node) /\ Waiting # <<>> /\ n = Waiting[1]
    /\ Waiting' = Tail(Waiting)

LEMMA DeferSteps ==
    ASSUME TypeOK, DeferInv, HandlerStep \/ WorkerStep
    PROVE  /\ UNCHANGED <<lastEvent, sysVars, rVars, platformOff>>
           /\ \/ UNCHANGED <<xpc, xnode, Waiting>>
              \/ \E t \in Executors : \E n \in Node : Begins(t, n)
<1>0. /\ resetQueue \in Seq(Node) /\ hnode \in Node
      /\ "handler" \in Executors /\ "worker" \in Executors /\ HandlerNext # "queue"
  BY DEF TypeOK, Executors, HandlerNext
<1>1. CASE QueueToWorker \/ StartWorker
  <2>1. /\ hpc = "queue" /\ hpc' # "queue" /\ resetQueue' = Append(resetQueue, hnode)
        /\ UNCHANGED <<lastEvent, sysVars, rVars, platformOff, xVars>>
    BY <1>0, <1>1 DEF QueueToWorker, StartWorker
  <2>2. Waiting' = Waiting
    BY <2>1 DEF Waiting
  <2> QED BY <2>1, <2>2 DEF xVars
<1>2. CASE ExecuteInline
  <2>1. /\ hpc = "queue" /\ hpc' = "inline" /\ ~running /\ resetQueue' = resetQueue
        /\ Start("handler", hnode) /\ UNCHANGED <<lastEvent, sysVars, rVars, platformOff>>
    BY <1>2 DEF ExecuteInline
  <2>2. worker = "none" /\ resetQueue = <<>>
    BY <2>1 DEF DeferInv
  <2>3. \A u \in Executors : xpc[u] = "none"
    BY <2>1, <2>2 DEF DeferInv, Executors
  <2>4. /\ Waiting = <<hnode>> /\ Waiting' = <<>> /\ Waiting \in Seq(Node)
        /\ Waiting # <<>> /\ hnode = Waiting[1] /\ Waiting' = Tail(Waiting)
    BY <1>0, <2>1, <2>2 DEF Waiting
  <2>5. Begins("handler", hnode)
    BY <2>1, <2>3, <2>4 DEF Begins, Start
  <2> QED BY <1>0, <2>1, <2>5
<1>3. CASE InlineDone
  <2>1. /\ hpc = "inline" /\ hpc' # "queue"
        /\ UNCHANGED <<resetQueue, lastEvent, sysVars, rVars, platformOff, xVars>>
    BY <1>0, <1>3 DEF InlineDone
  <2>2. Waiting' = Waiting
    BY <2>1 DEF Waiting
  <2> QED BY <2>1, <2>2 DEF xVars
<1>4. CASE WorkerDequeues
  <2>1. /\ worker = "loop" /\ resetQueue # <<>> /\ ~startLock
        /\ Start("worker", Head(resetQueue)) /\ resetQueue' = Tail(resetQueue)
        /\ UNCHANGED <<hVars, sysVars, rVars, platformOff>>
    BY <1>4 DEF WorkerDequeues
  <2>2. \A u \in Executors : xpc[u] = "none"
    BY <2>1 DEF DeferInv, Executors
  <2>3. /\ Waiting \in Seq(Node) /\ Waiting # <<>> /\ Head(resetQueue) \in Node
        /\ Head(resetQueue) = Waiting[1]
    BY <1>0, <2>1 DEF Waiting
  <2>4. Waiting' = Tail(Waiting)
    <3>1. CASE hpc = "queue"
      <4>1. Waiting = Append(resetQueue, hnode) /\ Waiting' = Append(Tail(resetQueue), hnode)
        BY <2>1, <3>1 DEF Waiting, hVars
      <4> QED BY <1>0, <2>1, <4>1
    <3>2. CASE hpc # "queue"
      BY <2>1, <3>2 DEF Waiting, hVars
    <3> QED BY <3>1, <3>2
  <2>5. Begins("worker", Head(resetQueue))
    BY <2>1, <2>2, <2>3, <2>4 DEF Begins, Start
  <2> QED BY <1>0, <2>1, <2>3, <2>5 DEF hVars
<1>5. CASE WorkerFinishes \/ NodeDone
  <2>1. UNCHANGED <<hVars, resetQueue, sysVars, rVars, platformOff, xVars>>
    BY <1>5 DEF WorkerFinishes, NodeDone
  <2>2. Waiting' = Waiting
    BY <2>1 DEF Waiting, hVars
  <2> QED BY <2>1, <2>2 DEF hVars, xVars
<1> QED BY <1>1, <1>2, <1>3, <1>4, <1>5 DEF HandlerStep, WorkerStep

(* An event leaves the nodes in execution, and has one that waits.          *)
LEMMA ReceiveWaits ==
    ASSUME TypeOK, NEW e \in Events, ReceiveEvent(e)
    PROVE  UNCHANGED <<xpc, xnode, sysVars, rpc, platformOff>> /\ Waiting' # <<>>
<1>1. /\ hpc' = "queue" /\ resetQueue' = resetQueue /\ hnode' = NodeFor(e, lastEvent)
      /\ UNCHANGED <<xpc, xnode, sysVars, rpc, platformOff>>
  BY DEF ReceiveEvent, deferVars, xVars
<1>2. hnode' \in Node /\ resetQueue \in Seq(Node)
  BY <1>1, NodeForType DEF TypeOK
<1>3. Waiting' = Append(resetQueue, hnode')
  BY <1>1 DEF Waiting
<1> QED BY <1>1, <1>2, <1>3

(* A step of a node is a step of the one thread that executes one.          *)
LEMMA NodeAlone ==
    ASSUME TypeOK, DeferInv, NEW t \in Executors, NodeStep(t)
    PROVE  /\ UNCHANGED <<lastEvent, Waiting, rpc, platformOff>>
           /\ xpc[t] # "none"
           /\ \A u \in Executors : u # t => xpc[u] = "none" /\ xpc'[u] = "none"
           /\ \/ xnode' = xnode /\ xpc'[t] # "none"
              \/ FinishNode(t) /\ xpc'[t] = "none"
<1>0. xpc \in [Executors -> Steps]
  BY DEF TypeOK, Steps
<1>1. CASE FinishNode(t)
  <2>1. /\ xpc[t] = "end" /\ xpc' = [xpc EXCEPT ![t] = "none"]
        /\ UNCHANGED <<hVars, deferVars, rVars, platformOff>>
    BY <1>1 DEF FinishNode, At, Goto
  <2>2. UNCHANGED <<lastEvent, Waiting, rpc>>
    BY <2>1 DEF Waiting, hVars, deferVars, rVars
  <2> QED BY <1>0, <1>1, <2>1, <2>2, OneExecutes
<1>2. CASE InNode(t)
  <2>1. PICK s \in Steps \ {"none"} : xpc' = [xpc EXCEPT ![t] = s]
    BY <1>2 DEF InNode
  <2>2. xpc[t] # "none" /\ UNCHANGED <<hVars, deferVars, rVars, platformOff, xnode>>
    BY <1>2 DEF InNode, NodeFrame
  <2>3. UNCHANGED <<lastEvent, Waiting, rpc>>
    BY <2>2 DEF Waiting, hVars, deferVars, rVars
  <2>4. \A u \in Executors : u # t => xpc[u] = "none" /\ xpc'[u] = "none"
    BY <1>0, <2>1, <2>2, OneExecutes
  <2>5. xpc'[t] # "none"
    BY <1>0, <2>1
  <2> QED BY <2>2, <2>3, <2>4, <2>5
<1> QED BY <1>1, <1>2, NodeSteps

(* A step of RequestModemRestart touches no node but the one that made it,  *)
(* which ends.                                                              *)
LEMMA RestartAlone ==
    ASSUME TypeOK, DeferInv, CleanInv, NEW t \in Restarters, RestartStep(t)
    PROVE  /\ UNCHANGED <<lastEvent, Waiting, xnode, queues, cancel, ports, threads, platformOff>>
           /\ initOk' => initOk
           /\ \/ xpc' = xpc
              \/ /\ xpc["worker"] = "restart" /\ xpc'["worker"] = "end"
                 /\ xnode["worker"].up /\ NextCleans
                 /\ \A u \in Executors : u # "worker" => xpc[u] = "none" /\ xpc'[u] = "none"
<1>1. InRestart(t)
  BY RestartSteps
<1>2. /\ UNCHANGED <<lastEvent, Waiting, xnode, queues, cancel, ports, threads, platformOff>>
  BY <1>1 DEF InRestart, RestartFrame, Waiting, hVars, deferVars
<1>3. initOk' => initOk
  BY DEF RestartStep, IgnoreRestart, TestAndSetSpoof, SetInitializationUnsuccessful,
         SendRequestModemRecovery
<1>4. CASE /\ xpc["worker"] = "restart"
           /\ xpc' = [xpc EXCEPT !["worker"] = "end"]
  <2>0. "worker" \in Executors /\ Placed("worker") /\ xpc \in [Executors -> Steps]
    BY DEF CleanInv, Executors, TypeOK, Steps
  <2>1. xnode["worker"].up /\ NextCleans
    BY <1>4, <2>0 DEF Placed, UpSteps
  <2> QED BY <1>2, <1>3, <1>4, <2>0, <2>1, OneExecutes
<1> QED BY <1>1, <1>2, <1>3, <1>4 DEF InRestart
-----------------------------------------------------------------------------
(* A platform that shuts down does not change its mind.                     *)
LEMMA PlatformStays ==
    ASSUME TypeOK, DeferInv, [RadioNext]_allVars
    PROVE  platformOff => platformOff'
<1>1. ASSUME NEW e \in Events, ReceiveEvent(e) PROVE platformOff' = platformOff
  BY <1>1 DEF ReceiveEvent
<1>2. CASE HandlerStep \/ WorkerStep
  BY <1>2, DeferSteps
<1>3. ASSUME NEW t \in Executors, NodeStep(t) PROVE platformOff' = platformOff
  BY <1>3, NodeAlone
<1>4. ASSUME NEW t \in Restarters, RestartStep(t) PROVE platformOff' = platformOff
  BY <1>4, RestartSteps DEF InRestart, RestartFrame
<1>5. CASE RequestPlatformShutdown \/ UNCHANGED vars \/ Beside
  BY <1>5 DEF RequestPlatformShutdown, vars, Beside
<1> QED BY <1>1, <1>2, <1>3, <1>4, <1>5, LifeSteps DEF Next

LEMMA InitShutdown == RadioInit => ShutdownInv
BY DEF RadioInit, ShutdownInv

LEMMA StepShutdown ==
    ASSUME LifeInv, ShutdownInv, RadioTypeOK, [RadioNext]_allVars
    PROVE  ShutdownInv'
<1> USE DEF ShutdownInv, mainVars, stateVars, LifeFrame
<1>0. (platformOff => platformOff') /\ platformOff \in BOOLEAN /\ shutdown \in BOOLEAN
  BY PlatformStays DEF LifeInv, TypeOK, RadioTypeOK
<1>1. CASE UNCHANGED <<shutdown, mkind, mpc>>
  BY <1>0, <1>1
<1>2. ASSUME NEW kind \in {"on", "off", "shutdown"}, OnRequest(kind) PROVE ShutdownInv'
  <2>1. mkind' = kind /\ mpc' = "decide" /\ (kind = "shutdown" => platformOff')
    BY <1>0, <1>2 DEF OnRequest, MainGoto
  <2>2. shutdown' => platformOff'
    BY <1>0, <1>2 DEF OnRequest
  <2> QED BY <2>1, <2>2
<1>3. CASE MainStep
  <2>1. UNCHANGED <<shutdown, mkind>>
    BY <1>3 DEF MainStep, DecideOn, DecideOff, DecideShutdown, MainSignalsCancel,
                MainClosesPorts, CheckInitialized, ResetBasicEvent, WaitBasicInit,
                ResetRadioEvent, AddRefused, AddCmdToQueue, ReadCancelEvent,
                WaitRadioState, ResetPoweredOff, WaitModemPowerOff, Fail,
                CompleteRequest, MainFrame
  <2>2. mpc' \in {"cancel", "close", "resetOff", "waitOff"} =>
            shutdown \/ mkind = "shutdown" \/ mpc \in {"cancel", "close", "resetOff", "waitOff"}
    BY <1>3 DEF MainStep, DecideOn, DecideOff, DecideShutdown, MainSignalsCancel,
                MainClosesPorts, CheckInitialized, ResetBasicEvent, WaitBasicInit,
                ResetRadioEvent, AddRefused, AddCmdToQueue, ReadCancelEvent,
                WaitRadioState, ResetPoweredOff, WaitModemPowerOff, Fail,
                CompleteRequest, MainAt, MainGoto
  <2> QED BY <1>0, <2>1, <2>2
<1>4. \/ UNCHANGED <<shutdown, mkind, mpc>>
      \/ MainStep \/ \E kind \in {"on", "off", "shutdown"} : OnRequest(kind)
  <2>1. ASSUME NEW e \in Sent, ReceiveRadioEvent(e) PROVE UNCHANGED <<shutdown, mkind, mpc>>
    BY <2>1 DEF ReceiveRadioEvent
  <2>2. ASSUME NEW t \in Executors, RadioNodeStep(t) PROVE UNCHANGED <<shutdown, mkind, mpc>>
    BY <2>2 DEF RadioNodeStep, ResetRadio, SignalCancelEvent, ClosePorts, FinishRadioNode,
                FreeChannelInfo, StartCommandThread, SendBasicInit, OtherNodeStep, radioVars
  <2>3. ASSUME NEW t \in Restarters, RadioRestartStep(t)
        PROVE  UNCHANGED <<shutdown, mkind, mpc>>
    BY <2>3 DEF RadioRestartStep
  <2>4. CASE CommandStep
    BY <2>4 DEF CommandStep, TakeCommand, LeaveLoop, IsRequestAllowed, PostCommand,
                SignalRadioState, CmdFrame
  <2>5. CASE BasicStep \/ TriggerRadioOffInd
    BY <2>5 DEF BasicStep, BasicInitComplete, HandleChannelsBasicInitComplete,
                BasicInitFails, BasicFrame, TriggerRadioOffInd, MainFrame
  <2>6. CASE OtherLifeStep(HandlerStep) \/ OtherLifeStep(WorkerStep) \/ UNCHANGED allVars
    BY <2>6 DEF OtherLifeStep, allVars, radioVars
  <2> QED BY <2>1, <2>2, <2>3, <2>4, <2>5, <2>6 DEF RadioNext
<1> QED BY <1>1, <1>2, <1>3, <1>4
-----------------------------------------------------------------------------
LEMMA InitBasic == RadioInit => BasicInv
BY DEF RadioInit, Init, BasicInv, BasicLive

LEMMA BasicKept ==
    ASSUME BasicInv, UNCHANGED <<xpc, xnode, lastEvent, Waiting>>, BasicLive' => BasicLive
    PROVE  BasicInv'
<1>1. NextCleans' = NextCleans
  BY DEF NextCleans
<1> QED BY <1>1 DEF BasicInv

(* The steps that touch the basic initialisation start it inside an up      *)
(* node, whose successor cleans.                                            *)
LEMMA NodeStepBasic ==
    ASSUME LifeInv, BasicInv, NEW t \in Executors, RadioNodeStep(t), NodeStep(t)
    PROVE  BasicInv'
<1> USE DEF LifeInv
<1>0. /\ Placed(t) /\ xpc \in [Executors -> Steps]
      /\ ~xnode[t].up /\ BasicLive => xpc[t] \in {"spoof", "reset"}
      /\ UNCHANGED <<lastEvent, Waiting>> /\ xpc[t] # "none"
      /\ \A u \in Executors : u # t => xpc[u] = "none" /\ xpc'[u] = "none"
  BY NodeAlone DEF CleanInv, TypeOK, Steps, BasicInv
<1>1. NextCleans' = NextCleans
  BY <1>0 DEF NextCleans
<1>2. CASE FinishNode(t)
  <2>1. xpc[t] = "end" /\ xpc'[t] = "none"
    BY <1>0, <1>2 DEF FinishNode, At, Goto
  <2>2. FinishRadioNode(t)
    BY <1>2, <2>1 DEF RadioNodeStep, ResetRadio, SignalCancelEvent, ClosePorts, FreeChannelInfo,
                StartCommandThread, SendBasicInit, OtherNodeStep, ResetSystemState, SignalCancel,
                CloseChannelPorts, ResetChannelInfo, StartThreads, InitializeModem,
                InitializeModemFails, SpoofOn, SpoofOff, OpenPort, OpenFails, CreateQueues,
                SetSystemInitialized, At
  <2>3. BasicLive' = BasicLive
    BY <2>2 DEF FinishRadioNode, BasicLive
  <2>4. BasicLive => NextCleans
    BY <1>0, <2>1 DEF Placed
  <2> QED BY <1>0, <1>1, <2>1, <2>3, <2>4 DEF BasicInv
<1>3. CASE ~FinishNode(t)
  <2>1. xnode' = xnode /\ xpc'[t] # "none"
    BY <1>3, NodeAlone
  <2>2. ASSUME ~xnode[t].up, BasicLive' PROVE xpc'[t] \in {"spoof", "reset"}
    <3>1. xpc[t] \notin UpSteps
      BY <1>0, <2>2 DEF Placed
    <3>2. CASE ResetRadio(t)
      BY <2>2, <3>2 DEF ResetRadio, BasicLive
    <3>3. CASE SpoofOn(t)
      BY <1>0, <3>3 DEF SpoofOn, Goto
    <3>4. CASE SignalCancelEvent(t) \/ ClosePorts(t)
      <4>1. BasicLive' = BasicLive /\ xpc[t] \in {"cancel", "close"}
        BY <3>4 DEF SignalCancelEvent, ClosePorts, SignalCancel, CloseChannelPorts, At,
                    radioVars, eventVars, initVars, BasicLive
      <4> QED BY <1>0, <2>2, <4>1
    <3>5. ResetRadio(t) \/ SpoofOn(t) \/ SignalCancelEvent(t) \/ ClosePorts(t)
      BY <1>3, <3>1 DEF RadioNodeStep, FinishRadioNode, FreeChannelInfo, StartCommandThread,
                 SendBasicInit, OtherNodeStep, ResetChannelInfo, StartThreads,
                 InitializeModem, InitializeModemFails, SpoofOff, OpenPort, OpenFails,
                 CreateQueues, SetSystemInitialized, At, UpSteps
    <3> QED BY <3>2, <3>3, <3>4, <3>5
  <2> QED BY <1>0, <2>1, <2>2 DEF BasicInv
<1> QED BY <1>2, <1>3

LEMMA StepBasic ==
    ASSUME LifeInv, BasicInv, [RadioNext]_allVars
    PROVE  BasicInv'
<1> USE DEF LifeInv
<1>1. ASSUME NEW e \in Sent, ReceiveRadioEvent(e) PROVE BasicInv'
  <2>1. ReceiveEvent(e) /\ e \in Events /\ BasicLive' = BasicLive
    BY <1>1, RadioPowerAssumption DEF ReceiveRadioEvent, BasicLive, eventVars
  <2>2. UNCHANGED <<xpc, xnode>> /\ (NextCleans => NextCleans')
    BY <2>1, ReceiveWaits, ReceiveNextCleans
  <2> QED BY <2>1, <2>2 DEF BasicInv
<1>2. CASE OtherLifeStep(HandlerStep) \/ OtherLifeStep(WorkerStep)
  <2>1. (HandlerStep \/ WorkerStep) /\ BasicLive' = BasicLive
    BY <1>2 DEF OtherLifeStep, BasicLive, radioVars, eventVars, initVars
  <2>2. CASE UNCHANGED <<xpc, xnode, Waiting>>
    BY <2>1, <2>2, DeferSteps, BasicKept
  <2>3. ASSUME NEW t \in Executors, NEW n \in Node, Begins(t, n) PROVE BasicInv'
    <3>1. /\ xpc'[t] = FirstStep(n) /\ xnode'[t] = n
          /\ \A u \in Executors : u # t => xpc'[u] = "none"
      BY <2>3 DEF Begins, TypeOK
    <3>2. BasicLive => n.reset /\ ~n.up
      BY <2>3 DEF Begins, BasicInv, NextCleans, Cleans
    <3>3. BasicLive => xpc'[t] = "spoof"
      BY <3>1, <3>2 DEF FirstStep
    <3> QED BY <2>1, <3>1, <3>3 DEF BasicInv, FirstStep
  <2> QED BY <2>1, <2>2, <2>3, DeferSteps
<1>3. ASSUME NEW t \in Executors, RadioNodeStep(t) PROVE BasicInv'
  <2>1. NodeStep(t)
    BY <1>3 DEF RadioNodeStep, ResetRadio, SignalCancelEvent, ClosePorts, FinishRadioNode,
                FreeChannelInfo, StartCommandThread, SendBasicInit, OtherNodeStep, NodeStep
  <2> QED BY <1>3, <2>1, NodeStepBasic
<1>4. ASSUME NEW t \in Restarters, RadioRestartStep(t) PROVE BasicInv'
  <2>1. RestartStep(t) /\ BasicLive' = BasicLive
    BY <1>4 DEF RadioRestartStep, eventVars, initVars, BasicLive
  <2>2. CASE xpc' = xpc
    BY <2>1, <2>2, RestartAlone, BasicKept
  <2>3. CASE xpc' # xpc
    <3>1. /\ xpc'["worker"] = "end" /\ xnode["worker"].up /\ xnode' = xnode
          /\ \A u \in Executors : u # "worker" => xpc'[u] = "none"
          /\ "worker" \in Executors
      BY <2>1, <2>3, RestartAlone DEF Executors
    <3> QED BY <3>1 DEF BasicInv
  <2> QED BY <2>2, <2>3
<1>5. ASSUME UNCHANGED <<hVars, deferVars, xVars>>, BasicLive' => BasicLive PROVE BasicInv'
  <2>1. UNCHANGED <<lastEvent, Waiting, xpc, xnode>>
    BY <1>5 DEF Waiting, hVars, deferVars, xVars
  <2> QED BY <1>5, <2>1, BasicKept
<1>6. ASSUME NEW kind \in {"on", "off", "shutdown"}, OnRequest(kind) PROVE BasicInv'
  BY <1>5, <1>6 DEF OnRequest, eventVars, initVars, BasicLive
<1>7. CASE MainStep
  <2>1. UNCHANGED <<hVars, deferVars, xVars>>
    BY <1>7 DEF MainStep, DecideOn, DecideOff, DecideShutdown, MainSignalsCancel,
                MainClosesPorts, CheckInitialized, ResetBasicEvent, WaitBasicInit,
                ResetRadioEvent, AddRefused, AddCmdToQueue, ReadCancelEvent,
                WaitRadioState, ResetPoweredOff, WaitModemPowerOff, Fail,
                CompleteRequest, vars
  <2>2. basic' = basic /\ (basicDone' = basicDone \/ basicDone' = FALSE)
    BY <1>7 DEF MainStep, DecideOn, DecideOff, DecideShutdown, MainSignalsCancel,
                MainClosesPorts, CheckInitialized, ResetBasicEvent, WaitBasicInit,
                ResetRadioEvent, AddRefused, AddCmdToQueue, ReadCancelEvent,
                WaitRadioState, ResetPoweredOff, WaitModemPowerOff, Fail,
                CompleteRequest, MainFrame, eventVars, initVars
  <2> QED BY <1>5, <2>1, <2>2 DEF BasicLive
<1>8. CASE CommandStep
  BY <1>5, <1>8 DEF CommandStep, TakeCommand, LeaveLoop, IsRequestAllowed, PostCommand,
                SignalRadioState, CmdFrame, vars, eventVars, initVars, BasicLive
<1>9. CASE BasicStep
  BY <1>5, <1>9 DEF BasicStep, BasicInitComplete, HandleChannelsBasicInitComplete,
                BasicInitFails, BasicFrame, vars, BasicLive
<1>10. CASE TriggerRadioOffInd \/ UNCHANGED allVars
  BY <1>5, <1>10 DEF TriggerRadioOffInd, MainFrame, vars, allVars, radioVars, eventVars,
                initVars, BasicLive
<1> QED BY <1>1, <1>2, <1>3, <1>4, <1>6, <1>7, <1>8, <1>9, <1>10 DEF RadioNext
-----------------------------------------------------------------------------
(* The commands depend on the queue and the command thread.                 *)
LEMMA PowerSame == ASSUME UNCHANGED <<txq, cpc, ccmd>> PROVE Power' = Power /\ Alive' = Alive
BY DEF Power, Alive, InQueue

LEMMA InitWake == RadioInit => WakeInv
<1> SUFFICES ASSUME RadioInit PROVE AwaitInv
  BY DEF WakeInv
<1>1. Power = {}
  <2>1. InQueue = {} /\ cpc = "none"
    BY InNoQueue DEF RadioInit
  <2> QED BY <2>1 DEF Power, Alive, Active
<1>2. cancel = "none" /\ mpc = "idle"
  BY DEF RadioInit, Init
<1> QED BY <1>1, <1>2 DEF AwaitInv

(* A step of nobody who waits, or is waited for.                            *)
LEMMA AwaitKept ==
    ASSUME AwaitInv, Power' \subseteq Power,
           UNCHANGED <<requests, mpc, woken, radioChanged, signaller>>,
           cancel' = "set" => cancel = "set", Over => Over'
    PROVE  AwaitInv'
<1>1. \A c \in Power : Awaited(c)' = Awaited(c)
  BY DEF Awaited
<1> QED BY <1>1 DEF AwaitInv

(* What takes the system out of service leaves a life over that is over.    *)
LEMMA OverKept ==
    ASSUME Over, UNCHANGED xpc, initOk' => initOk, BasicLive' => BasicLive
    PROVE  Over'
BY DEF Over

(* A step of the main thread before it waits, or after.                     *)
LEMMA MainElsewhere ==
    ASSUME AwaitInv, mpc \notin {"readCancel", "wait"},
           mpc' \notin {"reset", "add", "readCancel", "wait"},
           UNCHANGED <<txq, cpc, ccmd, cancel, xpc, initOk>>, BasicLive' => BasicLive
    PROVE  AwaitInv'
<1>1. Power' = Power
  BY PowerSame
<1>2. \A c \in Power : Over
  BY DEF AwaitInv, Awaited
<1>3. Over => Over'
  BY OverKept
<1> QED BY <1>1, <1>2, <1>3 DEF AwaitInv

(* The steps of a node: the cancel event is signalled in a life that is     *)
(* over, and the commands of that life are gone before another begins.      *)
LEMMA NodeStepWake ==
    ASSUME LifeInv, StopInv, ChannelInv, BasicInv, AwaitInv,
           NEW t \in Executors, RadioNodeStep(t)
    PROVE  AwaitInv'
<1> USE DEF LifeInv, mainVars, eventVars, cmdVars, initVars, LifeFrame
<1>0. /\ Placed(t) /\ Stopped(t) /\ xpc \in [Executors -> Steps]
      /\ xpc[t] # "none" /\ ~xnode[t].up /\ BasicLive => xpc[t] \in {"spoof", "reset"}
  BY DEF CleanInv, StopInv, TypeOK, Steps, BasicInv
<1>1. CASE xpc[t] \in LateSteps
  <2>1. ~Over
    BY <1>1 DEF Over
  <2>2. UNCHANGED <<requests, mpc, woken, radioChanged, signaller, txq, ccmd>>
    BY <1>1 DEF RadioNodeStep, ResetRadio, SignalCancelEvent, ClosePorts, FinishRadioNode,
                FreeChannelInfo, StartCommandThread, SendBasicInit, OtherNodeStep, LateSteps,
                ResetSystemState, SignalCancel, CloseChannelPorts, FinishNode,
                ResetChannelInfo, At, radioVars
  <2>3. Power' \subseteq Power
    <3>1. CASE StartCommandThread(t)
      <4>1. cpc' = cpc \/ (cpc \notin Active /\ cpc' \notin Active)
        BY <3>1 DEF StartCommandThread, ChannelInv, Active
      <4>2. InQueue' = InQueue
        BY <2>2 DEF InQueue
      <4> QED BY <2>2, <4>1, <4>2 DEF Power, Alive
    <3>2. CASE ~StartCommandThread(t)
      <4>1. cpc' = cpc
        BY <1>1, <3>2 DEF RadioNodeStep, ResetRadio, SignalCancelEvent, ClosePorts,
                FinishRadioNode, FreeChannelInfo, SendBasicInit, OtherNodeStep, LateSteps,
                ResetSystemState, SignalCancel, CloseChannelPorts, FinishNode,
                ResetChannelInfo, At, radioVars
      <4> QED BY <2>2, <4>1, PowerSame
    <3> QED BY <3>1, <3>2
  <2>4. cancel' = "set" => cancel = "set"
    BY <1>1 DEF RadioNodeStep, ResetRadio, SignalCancelEvent, ClosePorts, FinishRadioNode,
                FreeChannelInfo, StartCommandThread, SendBasicInit, OtherNodeStep, LateSteps,
                ResetSystemState, SignalCancel, CloseChannelPorts, FinishNode,
                ResetChannelInfo, StartThreads, InitializeModem, InitializeModemFails, SpoofOn,
                SpoofOff, OpenPort, OpenFails, CreateQueues, SetSystemInitialized, At, sysVars
  <2> QED BY <2>1, <2>2, <2>3, <2>4, AwaitKept
<1>2. CASE FreeChannelInfo(t)
  <2>1. ~threads /\ cpc = "none"
    BY <1>0, <1>2 DEF FreeChannelInfo, ResetChannelInfo, At, Stopped, ChannelInv
  <2>2. txq' = <<>> /\ cpc' = cpc
        /\ UNCHANGED <<requests, mpc, woken, radioChanged, signaller>> /\ cancel' = "none"
    BY <1>2 DEF FreeChannelInfo, ResetChannelInfo
  <2>3. InQueue' = {}
    BY <2>2, InNoQueue DEF InQueue
  <2>4. Power' = {}
    BY <2>1, <2>2, <2>3 DEF Power, Alive, Active
  <2> QED BY <2>2, <2>4 DEF AwaitInv
<1>3. CASE SignalCancelEvent(t)
  <2>1. /\ xpc[t] = "cancel" /\ xpc' = [xpc EXCEPT ![t] = "close"]
        /\ UNCHANGED <<initOk, basic, basicDone, requests, mpc, radioChanged, signaller,
                       txq, cpc, ccmd>>
    BY <1>3 DEF SignalCancelEvent, SignalCancel, At, Goto
  <2>2. ~initOk /\ ~BasicLive
    BY <1>0, <2>1 DEF Placed
  <2>3. \A u \in Executors : xpc'[u] \notin LateSteps
    BY <1>0, <2>1, OneExecutes DEF LateSteps
  <2>4. Over'
    BY <2>1, <2>2, <2>3 DEF Over, BasicLive
  <2>5. Power' = Power
    BY <2>1, PowerSame
  <2> QED BY <2>1, <2>4, <2>5 DEF AwaitInv
<1>4. CASE \/ ResetRadio(t) \/ ClosePorts(t) \/ FinishRadioNode(t)
           \/ SpoofOn(t) /\ UNCHANGED radioVars
  <2>1. /\ UNCHANGED <<requests, mpc, woken, radioChanged, signaller, txq, cpc, ccmd, cancel>>
        /\ initOk' => initOk
        /\ BasicLive' => BasicLive
        /\ \E s \in Steps \ LateSteps : xpc' = [xpc EXCEPT ![t] = s]
    BY <1>4 DEF ResetRadio, ClosePorts, FinishRadioNode, SpoofOn, ResetSystemState,
                CloseChannelPorts, FinishNode, Goto, radioVars, BasicLive,
                Steps, LateSteps
  <2>2. Over => Over'
    BY <1>0, <2>1 DEF Over
  <2>3. Power' = Power
    BY <2>1, PowerSame
  <2> QED BY <2>1, <2>2, <2>3, AwaitKept
<1>5. \/ \/ ResetRadio(t) \/ ClosePorts(t) \/ FinishRadioNode(t)
         \/ SpoofOn(t) /\ UNCHANGED radioVars
      \/ FreeChannelInfo(t) \/ SignalCancelEvent(t) \/ xpc[t] \in LateSteps
  BY DEF RadioNodeStep, StartCommandThread, SendBasicInit, OtherNodeStep, LateSteps,
         StartThreads, InitializeModem, InitializeModemFails, SpoofOff, OpenPort, OpenFails,
         CreateQueues, SetSystemInitialized, At
<1> QED BY <1>1, <1>2, <1>3, <1>4, <1>5

(* The main thread queues its command where no other is left, and leaves it *)
(* behind only in a life that is over.                                      *)
LEMMA MainWake ==
    ASSUME TypeOK, RadioTypeOK, ChannelInv, NumberInv, ShutdownInv, AwaitInv, ~platformOff,
           MainStep
    PROVE  AwaitInv'
<1> USE DEF MainAt, MainGoto, MainFrame, cmdVars, initVars, eventVars, vars, sysVars, xVars
<1>1. CASE CheckInitialized
  <2>1. /\ mpc = "init" /\ mpc' = IF initOk THEN "reset" ELSE "resetBasic"
        /\ UNCHANGED <<txq, cpc, ccmd, cancel, xpc, initOk, basic, basicDone>>
    BY <1>1 DEF CheckInitialized
  <2>2. CASE ~initOk
    BY <2>1, <2>2, MainElsewhere DEF BasicLive
  <2>3. CASE initOk
    <3>1. ~Over /\ Power' = Power /\ mpc' = "reset"
      BY <2>1, <2>3, PowerSame DEF Over
    <3>2. Power = {}
      BY <2>1, <3>1 DEF AwaitInv, Awaited
    <3> QED BY <2>1, <3>1, <3>2 DEF AwaitInv
  <2> QED BY <2>2, <2>3
<1>2. CASE WaitBasicInit
  <2>1. /\ mpc = "waitBasic"
        /\ \/ basicDone /\ mpc' = "reset"
           \/ mpc' = "fail"
        /\ UNCHANGED <<txq, cpc, ccmd, cancel, xpc, initOk, basic, basicDone>>
    BY <1>2 DEF WaitBasicInit
  <2>2. CASE mpc' = "fail"
    BY <2>1, <2>2, MainElsewhere DEF BasicLive
  <2>3. CASE basicDone /\ mpc' = "reset"
    <3>1. ~Over /\ Power' = Power
      BY <2>1, <2>3, PowerSame DEF Over, BasicLive
    <3>2. Power = {}
      BY <2>1, <3>1 DEF AwaitInv, Awaited
    <3> QED BY <2>1, <2>3, <3>1, <3>2 DEF AwaitInv
  <2> QED BY <2>1, <2>2, <2>3
<1>3. CASE ResetRadioEvent
  <2>1. /\ mpc = "reset" /\ mpc' = "add" /\ radioChanged' = FALSE
        /\ UNCHANGED <<txq, cpc, ccmd, cancel, xpc, initOk, basic, basicDone>>
    BY <1>3 DEF ResetRadioEvent
  <2>2. Power' = {} /\ (Over => Over')
    BY <2>1, PowerSame, OverKept DEF AwaitInv, BasicLive
  <2> QED BY <2>1, <2>2 DEF AwaitInv
<1>4. CASE AddCmdToQueue
  <2> DEFINE c == [num |-> requests,
                   kind |-> IF mkind = "shutdown" THEN "shutdown" ELSE "power"]
  <2>1. /\ mpc = "add" /\ initOk /\ txq' = <<c>> \o txq
        /\ mpc' = IF shutdown THEN "resetOff" ELSE "readCancel"
        /\ UNCHANGED <<requests, cpc, ccmd, cancel, xpc, initOk, basic, basicDone,
                       radioChanged, woken>>
    BY <1>4 DEF AddCmdToQueue
  <2>2. mpc' = "readCancel"
    BY <2>1 DEF ShutdownInv
  <2>3. c.num = requests
    OBVIOUS
  <2> HIDE DEF c
  <2>4. InQueue' = {c} \cup InQueue
    BY <2>1, Prepended
  <2>5. Alive' = Alive \cup {c}
    BY <2>1, <2>4 DEF Alive
  <2>6. Power = {} /\ ~radioChanged /\ cancel # "set"
    BY <2>1 DEF AwaitInv, Over
  <2>7. \A d \in Power' : d = c
    BY <2>5, <2>6 DEF Power
  <2>8. \A d \in Power' : Awaited(d)' /\ d.num = requests'
    BY <2>1, <2>2, <2>3, <2>7 DEF Awaited
  <2> QED BY <2>1, <2>2, <2>6, <2>8 DEF AwaitInv
<1>5. CASE ReadCancelEvent
  <2>1. /\ mpc = "readCancel" /\ woken' = (cancel = "set")
        /\ mpc' = IF cancel = "none" THEN "done" ELSE "wait"
        /\ UNCHANGED <<txq, cpc, ccmd, cancel, xpc, initOk, basic, basicDone, requests,
                       radioChanged, signaller>>
    BY <1>5 DEF ReadCancelEvent
  <2>2. Power' = Power /\ Over' = Over
    BY <2>1, PowerSame DEF Over, BasicLive
  <2>3. CASE cancel = "none"
    <3>1. txq = <<>> /\ cpc = "none"
      BY <2>3 DEF ChannelInv
    <3>2. Power = {}
      BY <3>1, InNoQueue DEF Power, Alive, Active
    <3> QED BY <2>1, <2>2, <2>3, <3>2 DEF AwaitInv
  <2>4. CASE cancel # "none"
    <3>1. \A c \in Power : c.num = requests
      BY <2>1 DEF AwaitInv
    <3>2. \A c \in Power : Awaited(c)' \/ Over
      BY <2>1, <2>4, <3>1 DEF Awaited, AwaitInv
    <3> QED BY <2>1, <2>2, <2>4, <3>1, <3>2 DEF AwaitInv
  <2> QED BY <2>3, <2>4
<1>6. CASE WaitRadioState
  <2>1. /\ mpc = "wait" /\ mpc' = "done" /\ (radioChanged \/ woken)
        /\ UNCHANGED <<txq, cpc, ccmd, cancel, xpc, initOk, basic, basicDone>>
    BY <1>6 DEF WaitRadioState
  <2>2. Power' = Power /\ Over' = Over
    BY <2>1, PowerSame DEF Over, BasicLive
  <2>3. \A c \in Power : Over
    <3>1. CASE woken
      BY <2>1, <3>1 DEF AwaitInv, Awaited
    <3>2. CASE radioChanged
      <4>1. signaller = requests /\ \A c \in Power : c.num = requests
        BY <2>1, <3>2 DEF AwaitInv
      <4>2. \A c \in Power : c.num < requests
        BY <4>1 DEF NumberInv, Power
      <4> QED BY <4>1, <4>2 DEF RadioTypeOK
    <3> QED BY <2>1, <3>1, <3>2
  <2> QED BY <2>1, <2>2, <2>3 DEF AwaitInv
<1>7. CASE MainSignalsCancel \/ MainClosesPorts
  BY <1>7 DEF MainSignalsCancel, MainClosesPorts, ShutdownInv
<1>8. \/ CheckInitialized \/ WaitBasicInit \/ ResetRadioEvent \/ AddCmdToQueue
      \/ ReadCancelEvent \/ WaitRadioState \/ MainSignalsCancel \/ MainClosesPorts
      \/ /\ mpc \notin {"readCancel", "wait"}
         /\ mpc' \notin {"reset", "add", "readCancel", "wait"}
         /\ UNCHANGED <<txq, cpc, ccmd, cancel, xpc, initOk>> /\ (BasicLive' => BasicLive)
  <2>1. CASE DecideOn \/ DecideOff \/ DecideShutdown
    <3>1. UNCHANGED <<txq, cpc, ccmd, cancel, xpc, initOk, basic, basicDone>> /\ mpc = "decide"
      BY <2>1 DEF DecideOn, DecideOff, DecideShutdown
    <3>2. mpc' \in {"fail", "init", "resetOff", "cancel", "done"} \/ DecideShutdown
      BY <2>1 DEF DecideOn, DecideOff
    <3>3. CASE DecideShutdown
      BY <3>3, <3>1 DEF DecideShutdown, ShutdownInv
    <3> QED BY <3>1, <3>2, <3>3 DEF BasicLive
  <2>2. CASE ResetBasicEvent \/ AddRefused \/ ResetPoweredOff
    BY <2>2 DEF ResetBasicEvent, AddRefused, ResetPoweredOff, BasicLive
  <2>3. CASE WaitModemPowerOff \/ Fail \/ CompleteRequest
    BY <2>3 DEF WaitModemPowerOff, Fail, CompleteRequest, BasicLive
  <2> QED BY <2>1, <2>2, <2>3 DEF MainStep
<1> QED BY <1>1, <1>2, <1>3, <1>4, <1>5, <1>6, <1>7, <1>8, MainElsewhere

(* A command that ends is one the main thread waits for, or nobody does.    *)
LEMMA CommandWake ==
    ASSUME RadioTypeOK, ChannelInv, AwaitInv, CommandStep
    PROVE  AwaitInv'
<1> USE DEF CmdFrame, mainVars, initVars, eventVars, vars, sysVars, xVars
<1>1. /\ UNCHANGED <<requests, mpc, woken, cancel, xpc, initOk, basic, basicDone>>
      /\ Power' \subseteq Power
  <2>1. UNCHANGED <<requests, mpc, woken, cancel, xpc, initOk, basic, basicDone>>
    BY DEF CommandStep, TakeCommand, LeaveLoop, IsRequestAllowed, PostCommand,
           SignalRadioState
  <2> QED BY <2>1, CommandAlive DEF Power
<1>2. Over => Over'
  BY <1>1, OverKept DEF BasicLive
<1>3. CASE SignalRadioState
  <2>1. /\ cpc = "signal" /\ signaller' = ccmd.num /\ radioChanged' = TRUE
    BY <1>3 DEF SignalRadioState
  <2>2. ccmd \in Power
    BY <2>1 DEF ChannelInv, Power, Alive, Active
  <2>3. mpc \notin {"reset", "add"}
    BY <2>2 DEF AwaitInv
  <2>4. \A c \in Power : Awaited(c)' = Awaited(c)
    BY <1>1 DEF Awaited
  <2> QED BY <1>1, <1>2, <2>1, <2>2, <2>3, <2>4 DEF AwaitInv
<1>4. CASE ~SignalRadioState
  <2>1. UNCHANGED <<radioChanged, signaller>>
    BY <1>4 DEF CommandStep, TakeCommand, LeaveLoop, IsRequestAllowed, PostCommand
  <2> QED BY <1>1, <1>2, <2>1, AwaitKept
<1> QED BY <1>3, <1>4

LEMMA StepWake ==
    ASSUME LifeInv, StopInv, RadioTypeOK, ChannelInv, NumberInv, ShutdownInv, BasicInv,
           WakeInv, [RadioNext]_allVars
    PROVE  WakeInv'
<1> SUFFICES ASSUME ~platformOff' PROVE AwaitInv'
  BY DEF WakeInv
<1> USE DEF LifeInv
<1>1. AwaitInv /\ ~platformOff
  BY PlatformStays DEF WakeInv
<1>2. ASSUME NEW e \in Sent, ReceiveRadioEvent(e) PROVE AwaitInv'
  <2>1. UNCHANGED <<requests, mpc, woken, radioChanged, signaller, txq, cpc, ccmd, cancel,
                    xpc, initOk, basic, basicDone>>
    BY <1>2 DEF ReceiveRadioEvent, ReceiveEvent, sysVars, xVars, mainVars, eventVars, cmdVars
  <2>2. Power' = Power /\ (Over => Over')
    BY <2>1, PowerSame, OverKept DEF BasicLive
  <2> QED BY <1>1, <2>1, <2>2, AwaitKept
<1>3. CASE OtherLifeStep(HandlerStep) \/ OtherLifeStep(WorkerStep)
  <2>1. (HandlerStep \/ WorkerStep) /\ UNCHANGED radioVars
    BY <1>3 DEF OtherLifeStep
  <2>2. UNCHANGED <<requests, mpc, woken, radioChanged, signaller, txq, cpc, ccmd, cancel,
                    initOk, basic, basicDone>>
    BY <2>1, DeferSteps DEF radioVars, sysVars, mainVars, eventVars, initVars, cmdVars
  <2>3. \/ xpc' = xpc
        \/ \A u \in Executors : xpc'[u] \notin LateSteps
    <3>1. ASSUME NEW t \in Executors, NEW n \in Node, Begins(t, n)
          PROVE  \A u \in Executors : xpc'[u] \notin LateSteps
      <4>1. FirstStep(n) \notin LateSteps /\ "none" \notin LateSteps
        BY DEF FirstStep, LateSteps
      <4> QED BY <3>1, <4>1 DEF Begins, TypeOK
    <3> QED BY <2>1, <3>1, DeferSteps
  <2>4. Power' = Power /\ (Over => Over')
    BY <2>2, <2>3, PowerSame DEF Over, BasicLive
  <2> QED BY <1>1, <2>2, <2>4, AwaitKept
<1>4. ASSUME NEW t \in Executors, RadioNodeStep(t) PROVE AwaitInv'
  BY <1>1, <1>4, NodeStepWake
<1>5. ASSUME NEW t \in Restarters, RadioRestartStep(t) PROVE AwaitInv'
  <2>1. RestartStep(t)
        /\ UNCHANGED <<requests, mpc, woken, radioChanged, signaller, txq, cpc, ccmd, basic,
                       basicDone>>
    BY <1>5 DEF RadioRestartStep, mainVars, eventVars, initVars, cmdVars
  <2>2. cancel' = cancel /\ (initOk' => initOk)
        /\ (xpc' = xpc \/ \A u \in Executors : xpc'[u] \notin LateSteps)
    <3>1. "none" \notin LateSteps /\ "end" \notin LateSteps
      BY DEF LateSteps
    <3> QED BY <2>1, <3>1, RestartAlone
  <2>3. Power' = Power /\ (Over => Over')
    BY <2>1, <2>2, PowerSame DEF Over, BasicLive
  <2> QED BY <1>1, <2>1, <2>2, <2>3, AwaitKept
<1>6. ASSUME NEW kind \in {"on", "off", "shutdown"}, OnRequest(kind) PROVE AwaitInv'
  <2>1. /\ mpc = "idle" /\ mpc' = "decide"
        /\ UNCHANGED <<txq, cpc, ccmd, cancel, xpc, initOk, basic, basicDone>>
    BY <1>6 DEF OnRequest, MainAt, MainGoto, sysVars, xVars, eventVars, initVars, cmdVars
  <2> QED BY <1>1, <2>1, MainElsewhere DEF BasicLive
<1>7. CASE MainStep
  BY <1>1, <1>7, MainWake
<1>8. CASE CommandStep
  BY <1>1, <1>8, CommandWake
<1>9. CASE BasicStep
  <2>1. /\ UNCHANGED <<requests, mpc, woken, radioChanged, signaller, txq, cpc, ccmd, cancel,
                       xpc>>
        /\ initOk' => initOk
        /\ BasicLive' => BasicLive
    BY <1>9 DEF BasicStep, BasicInitComplete, HandleChannelsBasicInitComplete, BasicInitFails,
                BasicFrame, BasicLive, vars, sysVars, xVars, mainVars, cmdVars
  <2>2. Power' = Power /\ (Over => Over')
    BY <2>1, PowerSame, OverKept
  <2> QED BY <1>1, <2>1, <2>2, AwaitKept
<1>10. CASE TriggerRadioOffInd \/ UNCHANGED allVars
  <2>1. UNCHANGED <<requests, mpc, woken, radioChanged, signaller, txq, cpc, ccmd, cancel,
                    xpc, initOk, basic, basicDone>>
    BY <1>10 DEF TriggerRadioOffInd, allVars, radioVars, vars, sysVars, xVars, mainVars,
                 eventVars, initVars, cmdVars, MainFrame
  <2>2. Power' = Power /\ (Over => Over')
    BY <2>1, PowerSame, OverKept DEF BasicLive
  <2> QED BY <1>1, <2>1, <2>2, AwaitKept
<1> QED BY <1>2, <1>3, <1>4, <1>5, <1>6, <1>7, <1>8, <1>9, <1>10 DEF RadioNext

(* What the main thread, the command threads and the life cycle keep        *)
(* together, while the MMGR announces that it takes the modem down.         *)
RadioInv ==
    /\ LifeInv /\ StopInv /\ RadioTypeOK /\ ChannelInv /\ NumberInv /\ ShutdownInv
    /\ BasicInv /\ WakeInv

LEMMA RadioInvariant ==
    ASSUME ~DownUnannounced PROVE RadioSpec => []RadioInv
<1>1. RadioInit => RadioInv
  BY InitLife, InitRadioTypes, InitChannel, InitNumber, InitShutdown, InitBasic, InitWake
     DEF RadioInv
<1>2. RadioInv /\ [RadioNext]_allVars => RadioInv'
  <2> SUFFICES ASSUME RadioInv, [RadioNext]_allVars PROVE RadioInv'
    OBVIOUS
  <2> USE DEF RadioInv
  <2>1. LifeInv' /\ StopInv'
    BY StepLife, StepRadioStop
  <2>2. TypeOK
    BY DEF LifeInv
  <2>3. RadioTypeOK' /\ ChannelInv' /\ NumberInv' /\ ShutdownInv' /\ BasicInv'
    BY <2>2, StepRadioTypes, StepChannel, StepNumber, StepShutdown, StepBasic
  <2>4. WakeInv'
    BY StepWake
  <2> QED BY <2>1, <2>3, <2>4
<1> QED BY <1>1, <1>2, PTL DEF RadioSpec

(* The radio state changed event that ends a wait was signalled by the      *)
(* command of the request that waits, for any number of requests and of     *)
(* lives of the modem: commands left behind in a cancelled life end before  *)
(* another request waits, or never.                                         *)
THEOREM WokenByOwnCommand ==
    ASSUME ~DownUnannounced PROVE RadioSpec => []OwnCommandWakes
<1>1. RadioInv => OwnCommandWakes
  BY DEF RadioInv, WakeInv, AwaitInv, OwnCommandWakes
<1> QED BY <1>1, RadioInvariant, PTL
-----------------------------------------------------------------------------
LEMMA InitLast == RadioInit => LastInv /\ OnInv
BY DEF RadioInit, Init, LastInv, OnInv, UpIsLast

LEMMA LastOne ==
    ASSUME NEW S, NEW s \in Seq(S), s # <<>>, Tail(s) = <<>> PROVE Len(s) = 1
<1> DEFINE r == Tail(s)
<1>1. r = <<>> /\ Len(r) = Len(s) - 1 /\ Len(s) \in Nat
  BY HeadTailProperties
<1> HIDE DEF r
<1>2. Len(r) = 0
  BY <1>1
<1> QED BY <1>1, <1>2

(* The node of the last event is begun last.                                *)
LEMMA StepLast ==
    ASSUME LifeInv, LastInv, [RadioNext]_allVars
    PROVE  LastInv'
<1> USE DEF LifeInv
<1>0. ASSUME UNCHANGED <<xpc, xnode, lastEvent, Waiting>> PROVE LastInv'
  BY <1>0 DEF LastInv
<1>1. ASSUME NEW e \in Events, ReceiveEvent(e) PROVE LastInv'
  BY <1>1, ReceiveWaits DEF LastInv
<1>2. CASE HandlerStep \/ WorkerStep
  <2>1. ASSUME NEW t \in Executors, NEW n \in Node, Begins(t, n) PROVE LastInv'
    <3>1. /\ lastEvent' = lastEvent /\ xnode'[t] = n
          /\ \A u \in Executors : u # t => xpc'[u] = "none"
      BY <1>2, <2>1, DeferSteps DEF Begins, TypeOK
    <3>2. ASSUME Waiting' = <<>> PROVE n.up <=> lastEvent = "UP"
      <4>1. Waiting \in Seq(Node) /\ Waiting # <<>> /\ Tail(Waiting) = <<>> /\ n = Waiting[1]
        BY <2>1, <3>2 DEF Begins
      <4>2. Waiting[Len(Waiting)].up <=> lastEvent = "UP"
        BY <4>1 DEF CleanInv, Chain
      <4>3. Len(Waiting) = 1
        BY <4>1, LastOne
      <4> QED BY <4>1, <4>2, <4>3
    <3> QED BY <3>1, <3>2 DEF LastInv
  <2> QED BY <1>0, <1>2, <2>1, DeferSteps
<1>3. ASSUME NEW t \in Executors, NodeStep(t) PROVE LastInv'
  BY <1>3, NodeAlone DEF LastInv
<1>4. ASSUME NEW t \in Restarters, RestartStep(t) PROVE LastInv'
  <2>1. "worker" \in Executors
    BY DEF Executors
  <2> QED BY <1>0, <1>4, <2>1, RestartAlone DEF LastInv
<1>5. CASE RequestPlatformShutdown \/ UNCHANGED vars \/ Beside
  <2>1. UNCHANGED <<hVars, deferVars, xVars>>
    BY <1>5 DEF RequestPlatformShutdown, vars, Beside
  <2>2. Waiting' = Waiting
    BY <2>1 DEF Waiting, hVars, deferVars
  <2> QED BY <1>0, <2>1, <2>2 DEF hVars, xVars
<1> QED BY <1>1, <1>2, <1>3, <1>4, <1>5, LifeSteps DEF Next

(* A step of no node and of no restart that does not turn the radio on.     *)
LEMMA OnKept ==
    ASSUME OnInv, UNCHANGED <<xpc, xnode, spoof, rpc, lastEvent, Waiting, continued>>,
           platformOff => platformOff', radio' = "ON" => radio = "ON", StaleOn' => StaleOn
    PROVE  OnInv'
<1>1. (UpIsLast' => UpIsLast) /\ Corrected' = Corrected /\ MutexFree' = MutexFree
  BY DEF UpIsLast, Corrected, MutexFree
<1> QED BY <1>1 DEF OnInv

(* The node of the last MODEM_UP turns the radio off at its end, or hands   *)
(* over to a thread in RequestModemRestart, which announces it unavailable. *)
LEMMA NodeStepOn ==
    ASSUME FlightModeOff, LifeInv, LastInv, OnInv, NEW t \in Executors, RadioNodeStep(t),
           NodeStep(t)
    PROVE  OnInv'
<1> SUFFICES ASSUME UpIsLast'
             PROVE  /\ StaleOn' => Corrected'
                    /\ \A u \in Executors :
                          (xpc'[u] \in {"open", "create", "start"} /\ radio' = "ON")
                          \/ (xpc'[u] \in {"initialized", "initModem", "restart"} /\ StaleOn')
                          => ~spoof' \/ ~MutexFree'
  BY DEF OnInv
<1> USE DEF LifeInv, At, Goto, UpSteps
<1>0. /\ UNCHANGED <<lastEvent, Waiting, rpc, platformOff>> /\ xpc[t] # "none"
      /\ \A u \in Executors : u # t => xpc[u] = "none" /\ xpc'[u] = "none"
      /\ xpc \in [Executors -> Steps]
  BY NodeAlone DEF TypeOK, Steps
<1>1. UpIsLast /\ MutexFree' = MutexFree
  BY <1>0 DEF UpIsLast, MutexFree
<1>2. xnode[t].up /\ xpc[t] \notin {"spoof", "reset", "cancel", "close"}
  BY <1>0, <1>1 DEF LastInv, UpIsLast, CleanInv, Placed, Cleans
<1>3. /\ StaleOn => Corrected
      /\ (xpc[t] \in {"open", "create", "start"} /\ radio = "ON")
         \/ (xpc[t] \in {"initialized", "initModem", "restart"} /\ StaleOn)
         => ~spoof \/ ~MutexFree
  BY <1>1 DEF OnInv
<1>4. ASSUME xpc'[t] \in UpSteps \/ (xpc'[t] = "end" /\ xnode'[t].up /\ continued'),
             (xpc'[t] \in {"open", "create", "start"} /\ radio' = "ON")
             \/ (xpc'[t] \in {"initialized", "initModem", "restart"} /\ StaleOn')
             => ~spoof' \/ ~MutexFree'
      PROVE  /\ StaleOn' => Corrected'
             /\ \A u \in Executors :
                   (xpc'[u] \in {"open", "create", "start"} /\ radio' = "ON")
                   \/ (xpc'[u] \in {"initialized", "initModem", "restart"} /\ StaleOn')
                   => ~spoof' \/ ~MutexFree'
  BY <1>0, <1>4 DEF Corrected
<1>5. CASE FreeChannelInfo(t)
  <2>1. xpc'[t] = "unspoof"
    BY <1>0, <1>5 DEF FreeChannelInfo, ResetChannelInfo
  <2> QED BY <1>4, <2>1
<1>6. CASE StartCommandThread(t)
  <2>1. /\ xpc[t] = "start" /\ xpc'[t] = "initialized" /\ radio' = radio /\ spoof' = spoof
    BY <1>0, <1>6 DEF StartCommandThread, StartThreads
  <2> QED BY <1>1, <1>3, <1>4, <2>1 DEF StaleOn
<1>7. CASE SendBasicInit(t)
  <2>1. CASE InitializeModem(t) /\ continued' = TRUE
    <3>1. xpc'[t] = "end" /\ xnode' = xnode
      BY <1>0, <2>1 DEF InitializeModem, NodeFrame
    <3> QED BY <1>2, <1>4, <2>1, <3>1
  <2>2. CASE InitializeModemFails(t)
    <3>1. /\ xpc[t] = "initModem" /\ xpc'[t] = "restart" /\ spoof' = spoof
          /\ radio' = radio /\ powered' = powered
      BY <1>0, <1>7, <2>2 DEF InitializeModemFails, SendBasicInit, cmdVars
    <3> QED BY <1>1, <1>3, <1>4, <3>1 DEF StaleOn
  <2> QED BY <1>7, <2>1, <2>2 DEF SendBasicInit
<1>8. CASE OtherNodeStep(t)
  <2>1. radio' = radio /\ powered' = powered
    BY <1>8 DEF OtherNodeStep, radioVars, stateVars, cmdVars
  <2>2. CASE SpoofOff(t)
    <3>1. xpc'[t] = "open" /\ spoof' = FALSE
      BY <1>0, <2>2 DEF SpoofOff
    <3> QED BY <1>4, <3>1
  <2>3. CASE OpenPort(t) \/ OpenFails(t) \/ CreateQueues(t)
    <3>1. /\ xpc[t] \in {"open", "create"} /\ xpc'[t] \in {"open", "create", "start", "restart"}
          /\ spoof' = spoof
      BY <1>0, <2>3 DEF OpenPort, OpenFails, CreateQueues
    <3> QED BY <1>1, <1>3, <1>4, <2>1, <3>1 DEF StaleOn
  <2>4. CASE SetSystemInitialized(t)
    <3>1. xpc[t] = "initialized" /\ xpc'[t] = "initModem" /\ spoof' = spoof
      BY <1>0, <2>4 DEF SetSystemInitialized
    <3> QED BY <1>1, <1>3, <1>4, <2>1, <3>1 DEF StaleOn
  <2> QED BY <1>2, <1>8, <2>2, <2>3, <2>4 DEF OtherNodeStep, SpoofOn
<1>9. CASE FinishRadioNode(t)
  <2>1. /\ xpc[t] = "end" /\ \A u \in Executors : xpc'[u] = "none"
        /\ powered' = powered
        /\ radio' = IF xnode[t].off \/ (continued /\ xnode[t].up /\ FlightModeOff)
                    THEN "OFF" ELSE radio
    BY <1>0, <1>9 DEF FinishRadioNode, FinishNode, cmdVars
  <2>2. StaleOn' => StaleOn /\ ~continued
    BY <1>2, <2>1 DEF StaleOn
  <2>3. StaleOn' => ~MutexFree
    BY <1>0, <1>3, <2>1, <2>2 DEF Corrected
  <2> QED BY <1>1, <2>1, <2>3 DEF Corrected
<1> QED BY <1>2, <1>5, <1>6, <1>7, <1>8, <1>9 DEF RadioNodeStep, ResetRadio,
           SignalCancelEvent, ClosePorts, ResetSystemState, SignalCancel, CloseChannelPorts

(* A thread that goes into RequestModemRestart announces the radio          *)
(* unavailable, one that is ignored finds another there, or a radio that is *)
(* not taken for on.                                                        *)
LEMMA RestartOn ==
    ASSUME LifeInv, OnInv, NEW t \in Restarters, RadioRestartStep(t)
    PROVE  OnInv'
<1> USE DEF LifeInv
<1>1. /\ RestartStep(t) /\ powered' = powered /\ continued' = continued
      /\ radio' = IF rpc[t] = "check" /\ lastEvent = "UP" THEN "UNAVAILABLE" ELSE radio
  BY DEF RadioRestartStep, cmdVars, initVars
<1>2. UNCHANGED <<lastEvent, Waiting, xnode, platformOff>>
  BY <1>1, RestartAlone
<1>3. rpc \in [Restarters -> {"out", "unsuccessful", "check"}]
  BY DEF TypeOK
<1> SUFFICES ASSUME UpIsLast' PROVE OnInv'
  BY DEF OnInv
<1>4. UpIsLast
  BY <1>2 DEF UpIsLast
<1>5. CASE TestAndSetSpoof(t) \/ SetInitializationUnsuccessful(t)
  <2>1. rpc'[t] # "out"
    BY <1>3, <1>5 DEF TestAndSetSpoof, SetInitializationUnsuccessful
  <2> QED BY <2>1 DEF OnInv, Corrected, MutexFree
<1>6. CASE SendRequestModemRecovery(t)
  <2>1. radio' = "UNAVAILABLE"
    BY <1>1, <1>4, <1>6 DEF SendRequestModemRecovery, UpIsLast
  <2> QED BY <2>1 DEF OnInv, StaleOn
<1>7. CASE IgnoreRestart(t)
  <2>1. rpc[t] = "out" /\ MutexFree /\ spoof /\ spoof' = spoof /\ Return(t)
        /\ (t = "worker" => xpc["worker"] = "restart")
    BY <1>4, <1>7 DEF IgnoreRestart, UpIsLast, At
  <2>2. rpc' = rpc
    BY <1>3, <2>1 DEF Return
  <2>3. radio' = radio
    BY <1>1, <2>1
  <2>4. CASE t = "worker"
    <3>1. "worker" \in Executors
      BY DEF Executors
    <3>2. ~StaleOn
      BY <1>4, <2>1, <2>4, <3>1 DEF OnInv
    <3>3. ~StaleOn'
      BY <1>1, <2>3, <3>2 DEF StaleOn
    <3>4. xpc'["worker"] = "end"
      BY <2>1, <2>4, <3>1 DEF Return, TypeOK
    <3>5. \A u \in Executors : u # "worker" => xpc'[u] = "none"
      BY <2>1, <2>4, <3>1, OneExecutes DEF Return, TypeOK
    <3> QED BY <3>3, <3>4, <3>5 DEF OnInv
  <2>5. CASE t # "worker"
    <3>1. xpc' = xpc
      BY <2>1, <2>5 DEF Return
    <3> QED BY <1>1, <1>2, <2>1, <2>2, <2>3, <3>1, OnKept DEF StaleOn
  <2> QED BY <2>4, <2>5
<1> QED BY <1>1, <1>5, <1>6, <1>7 DEF RestartStep

(* A command is executed in no life that is still to be begun, and what it  *)
(* turns on is powered on.                                                  *)
LEMMA CommandOn ==
    ASSUME RadioInv, OnInv, CommandStep
    PROVE  OnInv'
<1> USE DEF RadioInv
<1>1. UNCHANGED vars /\ continued' = continued
  BY DEF CommandStep, TakeCommand, LeaveLoop, IsRequestAllowed, PostCommand, SignalRadioState,
         CmdFrame, initVars
<1>2. UNCHANGED <<xpc, xnode, spoof, rpc, lastEvent, Waiting, platformOff>>
  BY <1>1 DEF vars, sysVars, hVars, deferVars, xVars, rVars, Waiting
<1>3. CASE UNCHANGED <<radio, powered>>
  BY <1>1, <1>2, <1>3, OnKept DEF StaleOn
<1>4. CASE PostCommand /\ ccmd.kind = "power" /\ ~platformOff
  <2>1. ~shutdown /\ requested \in {"on", "off"} /\ threads
    BY <1>4 DEF ShutdownInv, RadioTypeOK, ChannelInv, PostCommand
  <2>2. ~StaleOn'
    BY <1>4, <2>1 DEF PostCommand, StaleOn
  <2>3. \A t \in Executors : xpc'[t] \notin {"open", "create", "start"}
    BY <1>2, <2>1 DEF StopInv, Stopped
  <2> QED BY <2>2, <2>3 DEF OnInv
<1>5. CASE platformOff
  BY <1>2, <1>5 DEF OnInv, UpIsLast
<1> QED BY <1>3, <1>4, <1>5 DEF CommandStep, TakeCommand, LeaveLoop, IsRequestAllowed,
           PostCommand, SignalRadioState

LEMMA StepOn ==
    ASSUME FlightModeOff, RadioInv, LastInv, OnInv, [RadioNext]_allVars
    PROVE  OnInv'
<1> USE DEF RadioInv
<1>0. LifeInv /\ TypeOK /\ DeferInv /\ CleanInv
  BY DEF LifeInv
<1>1. ASSUME NEW e \in Sent, ReceiveRadioEvent(e) PROVE OnInv'
  <2>1. ReceiveEvent(e) /\ e \in Events
    BY <1>1, RadioPowerAssumption DEF ReceiveRadioEvent
  <2> QED BY <1>0, <2>1, ReceiveWaits DEF OnInv, UpIsLast
<1>2. CASE OtherLifeStep(HandlerStep) \/ OtherLifeStep(WorkerStep)
  <2>1. (HandlerStep \/ WorkerStep) /\ UNCHANGED <<radio, powered, continued>>
    BY <1>2 DEF OtherLifeStep, radioVars, stateVars, initVars, cmdVars
  <2>2. UNCHANGED <<lastEvent, spoof, rpc, platformOff>>
    BY <1>0, <2>1, DeferSteps DEF sysVars, rVars
  <2>3. CASE UNCHANGED <<xpc, xnode, Waiting>>
    BY <2>1, <2>2, <2>3, OnKept DEF StaleOn
  <2>4. ASSUME NEW t \in Executors, NEW n \in Node, Begins(t, n), UpIsLast'
        PROVE  OnInv'
    <3>1. /\ xpc'[t] = FirstStep(n) /\ xnode'[t] = n
          /\ \A u \in Executors : u # t => xpc'[u] = "none"
      BY <1>0, <2>4 DEF Begins, TypeOK
    <3>2. LastInv'
      BY <1>0, StepLast
    <3>3. n.up
      BY <2>4, <3>1, <3>2 DEF LastInv, UpIsLast, FirstStep
    <3>4. xpc'[t] = "free"
      BY <3>1, <3>3 DEF FirstStep
    <3> QED BY <3>1, <3>4 DEF OnInv, Corrected, UpSteps
  <2>5. ~UpIsLast' => OnInv'
    BY DEF OnInv
  <2> QED BY <1>0, <2>1, <2>3, <2>4, <2>5, DeferSteps
<1>3. ASSUME NEW t \in Executors, RadioNodeStep(t) PROVE OnInv'
  <2>1. NodeStep(t)
    BY <1>3 DEF RadioNodeStep, ResetRadio, SignalCancelEvent, ClosePorts, FinishRadioNode,
                FreeChannelInfo, StartCommandThread, SendBasicInit, OtherNodeStep, NodeStep
  <2> QED BY <1>3, <2>1, NodeStepOn
<1>4. ASSUME NEW t \in Restarters, RadioRestartStep(t) PROVE OnInv'
  BY <1>4, RestartOn
<1>5. CASE CommandStep
  BY <1>5, CommandOn
<1>6. ASSUME UNCHANGED vars \/ Beside, continued' = continued, powered' = powered,
             radio' = "ON" => radio = "ON"
      PROVE  OnInv'
  <2>1. UNCHANGED <<hVars, deferVars, xVars, rVars, spoof>> /\ (platformOff => platformOff')
    BY <1>6 DEF vars, sysVars, Beside
  <2>2. Waiting' = Waiting
    BY <2>1 DEF Waiting, hVars, deferVars
  <2> QED BY <1>6, <2>1, <2>2, OnKept DEF StaleOn, hVars, xVars, rVars
<1>7. ASSUME NEW kind \in {"on", "off", "shutdown"}, OnRequest(kind) PROVE OnInv'
  <2>1. Beside
    BY <1>0, <1>7 DEF OnRequest, Beside, sysVars, TypeOK
  <2> QED BY <1>6, <1>7, <2>1 DEF OnRequest, initVars, cmdVars
<1>8. CASE MainStep \/ BasicStep \/ TriggerRadioOffInd \/ UNCHANGED allVars
  <2>1. UNCHANGED vars \/ Beside
    <3>0. initOk \in BOOLEAN /\ poweredOff \in BOOLEAN /\ platformOff \in BOOLEAN
      BY <1>0 DEF TypeOK
    <3>1. CASE MainSignalsCancel
      BY <3>0, <3>1 DEF MainSignalsCancel, Beside
    <3>2. CASE MainClosesPorts
      BY <3>0, <3>2 DEF MainClosesPorts, Beside
    <3>3. CASE ResetPoweredOff
      BY <3>0, <3>3 DEF ResetPoweredOff, Beside
    <3>4. CASE BasicInitFails
      BY <3>0, <3>4 DEF BasicInitFails, Beside
    <3>5. \/ UNCHANGED vars
          \/ MainSignalsCancel \/ MainClosesPorts \/ ResetPoweredOff \/ BasicInitFails
      BY <1>8 DEF MainStep, DecideOn, DecideOff, DecideShutdown, CheckInitialized,
                  ResetBasicEvent, WaitBasicInit, ResetRadioEvent, AddRefused,
                  AddCmdToQueue, ReadCancelEvent, WaitRadioState, WaitModemPowerOff,
                  Fail, CompleteRequest, BasicStep, BasicInitComplete,
                  HandleChannelsBasicInitComplete, TriggerRadioOffInd, allVars
    <3> QED BY <3>1, <3>2, <3>3, <3>4, <3>5
  <2>2. continued' = continued /\ powered' = powered
    BY <1>8 DEF MainStep, DecideOn, DecideOff, DecideShutdown, MainSignalsCancel,
                MainClosesPorts, CheckInitialized, ResetBasicEvent, WaitBasicInit,
                ResetRadioEvent, AddRefused, AddCmdToQueue, ReadCancelEvent,
                WaitRadioState, ResetPoweredOff, WaitModemPowerOff, Fail,
                CompleteRequest, MainFrame, BasicStep, BasicInitComplete,
                HandleChannelsBasicInitComplete, BasicInitFails, BasicFrame,
                TriggerRadioOffInd, allVars, radioVars, initVars, cmdVars
  <2>3. radio' = "ON" => radio = "ON"
    BY <1>8 DEF MainStep, DecideOn, DecideOff, DecideShutdown, MainSignalsCancel,
                MainClosesPorts, CheckInitialized, ResetBasicEvent, WaitBasicInit,
                ResetRadioEvent, AddRefused, AddCmdToQueue, ReadCancelEvent,
                WaitRadioState, ResetPoweredOff, WaitModemPowerOff, Fail,
                CompleteRequest, BasicStep, BasicInitComplete,
                HandleChannelsBasicInitComplete, BasicInitFails, BasicFrame,
                TriggerRadioOffInd, allVars, radioVars, stateVars
  <2> QED BY <1>6, <2>1, <2>2, <2>3
<1> QED BY <1>1, <1>2, <1>3, <1>4, <1>5, <1>7, <1>8 DEF RadioNext

(* Where airplane mode turns the modem off, a radio state ON outlives no    *)
(* life of the modem that was begun after it: each MODEM_UP corrects it, or *)
(* a restart of the modem does.                                             *)
THEOREM OnIsPoweredOn ==
    ASSUME ~DownUnannounced, FlightModeOff PROVE RadioSpec => []OnMeansPoweredOn
<1>1. RadioInv /\ LastInv /\ OnInv /\ [RadioNext]_allVars => LastInv' /\ OnInv'
  BY StepLast, StepOn DEF RadioInv
<1>2. RadioSpec => [](RadioInv /\ LastInv /\ OnInv)
  BY <1>1, InitLast, RadioInvariant, PTL DEF RadioSpec
<1>3. RadioInv /\ OnInv => OnMeansPoweredOn
  <2> SUFFICES ASSUME RadioInv, OnInv, Quiescent, lastEvent = "UP", ~platformOff
               PROVE  ~StaleOn
    BY DEF OnMeansPoweredOn, StaleOn
  <2>1. Waiting = <<>> /\ \A t \in Executors : xpc[t] = "none"
    BY NothingWaits, OrderIsInEventOrder DEF RadioInv, LifeInv
  <2>2. UpIsLast /\ ~Corrected
    BY <2>1 DEF UpIsLast, Corrected, Quiescent, UpSteps
  <2> QED BY <2>2 DEF OnInv
<1> QED BY <1>2, <1>3, PTL
-----------------------------------------------------------------------------
(* Whoever waits is woken: the command or a closing node is still to come.  *)
LEMMA InitWatch == RadioInit => WatchInv
BY DEF RadioInit, Init, WatchInv

(* A thread that runs without a modem has a closing node ahead of it, which *)
(* signals the cancel event first.                                          *)
LEMMA ClosingAhead ==
    ASSUME LifeInv, StopInv, WatchInv, threads, lastEvent # "UP", cancel = "clear"
    PROVE  Closing \/ Departed
<1> USE DEF LifeInv
<1>1. ASSUME NextCloses PROVE Closing \/ Departed
  <2>1. CASE Waiting = <<>>
    BY <1>1, <2>1 DEF NextCloses
  <2>2. CASE Waiting # <<>>
    <3>1. Waiting \in Seq(Node)
      BY WaitingNumbered
    <3>2. 1 \in 1..Len(Waiting)
      BY <2>2, <3>1
    <3> QED BY <1>1, <2>2, <3>2 DEF NextCloses, Closing
  <2> QED BY <2>1, <2>2
<1>2. CASE \A t \in Executors : xpc[t] = "none"
  BY <1>1, <1>2 DEF StopInv, AtRestCloses
<1>3. ASSUME NEW t \in Executors, xpc[t] # "none" PROVE Closing \/ Departed
  <2>1. Stopped(t) /\ Placed(t) /\ xpc[t] \in Steps
    BY DEF StopInv, CleanInv, TypeOK, Steps
  <2>2. CASE xnode[t].up
    BY <1>1, <1>3, <2>1, <2>2 DEF Stopped
  <2>3. CASE ~xnode[t].up /\ ~Departed
    <3>1. Closes(xnode[t]) /\ xpc[t] # "end"
      BY <1>3, <2>1, <2>3 DEF Stopped
    <3>2. xpc[t] # "close"
      BY DEF WatchInv
    <3>3. xpc[t] \notin UpSteps
      BY <2>1, <2>3 DEF Placed
    <3>4. xpc[t] \in {"spoof", "reset", "cancel"}
      BY <1>3, <2>1, <3>1, <3>2, <3>3 DEF Steps, UpSteps
    <3> QED BY <3>1, <3>4 DEF Closing
  <2> QED BY <2>2, <2>3
<1> QED BY <1>2, <1>3

(* A step that wakes nobody, and takes from nobody what would.              *)
LEMMA WatchKept ==
    ASSUME WatchInv,
           UNCHANGED <<mkind, shutdown, mpc, woken, cancel, queues, stranded>>,
           radioChanged' = radioChanged,
           \A t \in Executors :
              /\ xpc'[t] = "close" => xpc[t] = "close"
              /\ xpc'[t] \in {"unspoof", "open", "create"} =>
                    xpc[t] \in {"unspoof", "open", "create"},
           cpc' # "none" \/ ((\A t \in Executors : xpc'[t] # "start")
                             => \A t \in Executors : xpc[t] # "start"),
           cpc # "none" => cpc' # "none",
           Closing \/ Departed => Closing' \/ Departed',
           OwnAlive => OwnAlive'
    PROVE  WatchInv'
BY DEF WatchInv

(* What would wake it stays when the nodes stay.                            *)
LEMMA NodesStay ==
    ASSUME WatchInv, UNCHANGED <<xpc, xnode, Waiting, lastEvent>>
    PROVE  Closing' = Closing /\ Departed' = Departed
<1>1. Closing' = Closing
  BY DEF Closing, Closes
<1> QED BY <1>1 DEF Departed

LEMMA OwnStays == ASSUME UNCHANGED <<txq, cpc, ccmd, requests>> PROVE OwnAlive' = OwnAlive
BY PowerSame DEF OwnAlive

(* The node that would goes on to do so, the steps of the others do not     *)
(* take it away.                                                            *)
LEMMA ClosingStays ==
    ASSUME LifeInv, NEW t \in Executors, NodeStep(t), ~SignalCancel(t)
    PROVE  Closing \/ Departed => Closing' \/ Departed'
<1> USE DEF LifeInv
<1>0. /\ UNCHANGED <<lastEvent, Waiting>> /\ xpc[t] # "none" /\ xpc \in [Executors -> Steps]
      /\ \A u \in Executors : u # t => xpc[u] = "none" /\ xpc'[u] = "none"
      /\ Placed(t)
  BY NodeAlone DEF TypeOK, Steps, CleanInv
<1>1. Departed' = Departed
  BY <1>0 DEF Departed
<1>2. ASSUME NEW i \in 1..Len(Waiting), Closes(Waiting[i]) PROVE Closing'
  BY <1>0, <1>2 DEF Closing, Closes
<1>3. ASSUME xpc[t] \in {"spoof", "reset", "cancel"}, Closes(xnode[t]) PROVE Closing'
  <2>1. /\ xnode' = xnode /\ xpc'[t] \in {"reset", "cancel"}
    BY <1>0, <1>3 DEF NodeStep, SpoofOn, ResetSystemState, CloseChannelPorts, FinishNode,
           ResetChannelInfo, SpoofOff, OpenPort, OpenFails, CreateQueues, StartThreads,
           SetSystemInitialized, InitializeModem, InitializeModemFails, At, Goto, NodeFrame,
           Closes
  <2> QED BY <1>3, <2>1 DEF Closing, Closes
<1>4. ASSUME NEW u \in Executors, xpc[u] \in {"spoof", "reset", "cancel"}, Closes(xnode[u])
      PROVE  Closing'
  <2>1. u = t
    BY <1>0, <1>4
  <2> QED BY <1>3, <1>4, <2>1
<1> QED BY <1>1, <1>2, <1>4 DEF Closing

LEMMA NodeStepWatch ==
    ASSUME LifeInv, StopInv, ChannelInv, WatchInv, NEW t \in Executors, RadioNodeStep(t),
           NodeStep(t)
    PROVE  WatchInv'
<1> USE DEF LifeInv, LifeFrame, At, Goto
<1>0. /\ UNCHANGED <<lastEvent, Waiting>> /\ xpc[t] # "none" /\ xpc \in [Executors -> Steps]
      /\ \A u \in Executors : u # t => xpc[u] = "none" /\ xpc'[u] = "none"
      /\ Placed(t) /\ Stopped(t) /\ Executors # {}
  BY NodeAlone DEF TypeOK, Steps, CleanInv, StopInv, Executors
<1>1. CASE SignalCancelEvent(t)
  <2>1. /\ UNCHANGED <<mkind, shutdown, mpc, queues, stranded>>
        /\ cancel' = IF cancel = "none" THEN "none" ELSE "set"
        /\ woken' = (woken \/ (mpc = "wait" /\ ~stranded /\ cancel' = "set"))
        /\ xpc'[t] = "close"
    BY <1>0, <1>1 DEF SignalCancelEvent, SignalCancel
  <2>2. cancel' # "clear" /\ \A u \in Executors : xpc'[u] \in {"none", "close"}
    BY <1>0, <2>1
  <2> QED BY <2>1, <2>2 DEF WatchInv
<1>2. CASE FreeChannelInfo(t)
  <2>1. /\ UNCHANGED <<mkind, shutdown, mpc, woken>> /\ cancel' = "none" /\ queues' = FALSE
        /\ stranded' = (stranded \/ (mpc \in {"readCancel", "wait"} /\ ~woken))
    BY <1>2 DEF FreeChannelInfo, ResetChannelInfo
  <2> QED BY <2>1 DEF WatchInv
<1>3. CASE CreateQueues(t) /\ UNCHANGED radioVars
  <2>1. /\ UNCHANGED <<mkind, shutdown, mpc, woken, stranded, radioChanged>>
        /\ cancel' = "clear" /\ queues' = TRUE /\ xpc[t] = "create" /\ xpc'[t] = "start"
    BY <1>0, <1>3 DEF CreateQueues, radioVars, mainVars, stateVars, eventVars
  <2>2. mpc \in {"readCancel", "wait"} => stranded \/ woken
    BY <2>1 DEF WatchInv
  <2>3. \A u \in Executors : xpc'[u] \in {"none", "start"}
    BY <1>0, <2>1
  <2> QED BY <2>1, <2>2, <2>3 DEF WatchInv
<1>4. CASE StartCommandThread(t)
  <2>1. /\ UNCHANGED <<mkind, shutdown, mpc, woken, cancel, queues, stranded, radioChanged>>
        /\ xpc[t] = "start" /\ xpc'[t] = "initialized"
        /\ cpc' = IF threads THEN cpc ELSE "loop"
    BY <1>0, <1>4 DEF StartCommandThread, StartThreads
  <2>2. cpc = "none" /\ cpc' # "none"
    BY <1>0, <2>1 DEF Stopped, ChannelInv
  <2>3. ~OwnAlive
    BY <2>2 DEF OwnAlive
  <2>4. Closing \/ Departed => Closing' \/ Departed'
    BY <1>4, <2>1, ClosingStays DEF SignalCancel
  <2> QED BY <1>0, <2>1, <2>2, <2>3, <2>4, WatchKept
<1>5. CASE \/ ResetRadio(t) \/ ClosePorts(t) \/ FinishRadioNode(t) \/ SendBasicInit(t)
           \/ OtherNodeStep(t) /\ ~CreateQueues(t)
  <2>1. UNCHANGED <<mkind, shutdown, mpc, woken, stranded, radioChanged, txq, cpc, ccmd,
                    requests>>
    BY <1>5 DEF ResetRadio, ClosePorts, FinishRadioNode, SendBasicInit, OtherNodeStep,
                radioVars, mainVars, stateVars, eventVars, cmdVars
  <2>2. UNCHANGED <<cancel, queues>>
    BY <1>5 DEF ResetRadio, ClosePorts, FinishRadioNode, SendBasicInit, OtherNodeStep,
                ResetSystemState, CloseChannelPorts, FinishNode, InitializeModem,
                InitializeModemFails, SpoofOn, SpoofOff, OpenPort, OpenFails,
                SetSystemInitialized, sysVars
  <2>3. /\ xpc[t] # "start" /\ xpc[t] # "free" /\ xpc'[t] \notin {"close", "unspoof"}
        /\ xpc'[t] \in {"open", "create"} => xpc[t] \in {"unspoof", "open"}
        /\ ~SignalCancel(t)
    BY <1>0, <1>5 DEF ResetRadio, ClosePorts, FinishRadioNode, SendBasicInit, OtherNodeStep,
                ResetSystemState, CloseChannelPorts, FinishNode, InitializeModem,
                InitializeModemFails, SpoofOn, SpoofOff, OpenPort, OpenFails,
                SetSystemInitialized, SignalCancel
  <2>4. Closing \/ Departed => Closing' \/ Departed'
    BY <2>3, ClosingStays
  <2>5. OwnAlive' = OwnAlive
    BY <2>1, OwnStays
  <2>6. \A u \in Executors : xpc[u] # "start"
    BY <1>0, <2>3
  <2>7. \A u \in Executors :
            /\ xpc'[u] = "close" => xpc[u] = "close"
            /\ xpc'[u] \in {"unspoof", "open", "create"} =>
                  xpc[u] \in {"unspoof", "open", "create"}
    BY <1>0, <2>3
  <2> QED BY <2>1, <2>2, <2>4, <2>5, <2>6, <2>7, WatchKept
<1> QED BY <1>1, <1>2, <1>3, <1>4, <1>5 DEF RadioNodeStep, OtherNodeStep

(* The main thread goes to wait with its command queued for a thread that   *)
(* runs, and looks whether the cancel event is signalled already.           *)
LEMMA MainWatch ==
    ASSUME LifeInv, RadioTypeOK, ChannelInv, WatchInv, MainStep
    PROVE  WatchInv'
<1> USE DEF MainAt, MainGoto, MainFrame
<1>0. UNCHANGED <<xpc, xnode, lastEvent, queues, mkind, shutdown, cpc, ccmd>>
      /\ Waiting' = Waiting
  <2>1. UNCHANGED <<xVars, hVars, deferVars, queues, mkind, shutdown, cpc, ccmd>>
    BY DEF MainStep, DecideOn, DecideOff, DecideShutdown, MainSignalsCancel, MainClosesPorts,
           CheckInitialized, ResetBasicEvent, WaitBasicInit, ResetRadioEvent, AddRefused,
           AddCmdToQueue, ReadCancelEvent, WaitRadioState, ResetPoweredOff,
           WaitModemPowerOff, Fail, CompleteRequest, vars, sysVars, stateVars, cmdVars
  <2> QED BY <2>1 DEF xVars, hVars, deferVars, Waiting
<1>1. Closing' = Closing /\ Departed' = Departed
  BY <1>0, NodesStay
<1>2. CASE AddCmdToQueue
  <2> DEFINE c == [num |-> requests,
                   kind |-> IF mkind = "shutdown" THEN "shutdown" ELSE "power"]
  <2>1. /\ mpc = "add" /\ initOk /\ queues /\ txq' = <<c>> \o txq
        /\ mpc' = IF shutdown THEN "resetOff" ELSE "readCancel"
        /\ UNCHANGED <<requests, cancel, radioChanged, woken>>
    BY <1>2 DEF AddCmdToQueue, vars, sysVars, eventVars
  <2>2. c.num = requests /\ (~shutdown => c.kind = "power")
    BY DEF WatchInv
  <2> HIDE DEF c
  <2>3. ~shutdown => c \in Power'
    <3>1. InQueue' = {c} \cup InQueue
      BY <2>1, Prepended
    <3> QED BY <2>2, <3>1 DEF Power, Alive
  <2>4. \A t \in Executors : xpc[t] # "start"
    BY <2>1 DEF LifeInv, CleanInv, Placed
  <2>5. ~woken /\ (cancel = "clear" => cpc # "none" \/ Closing \/ Departed)
    BY <2>1, <2>4 DEF WatchInv
  <2>6. ~shutdown /\ cancel = "clear" => OwnAlive' \/ Closing \/ Departed
    BY <1>0, <2>1, <2>2, <2>3, <2>5 DEF OwnAlive
  <2>7. \A t \in Executors : xpc[t] \in {"unspoof", "open", "create"} => ~queues
    BY DEF WatchInv
  <2>8. \A t \in Executors : xpc[t] = "close" => cancel # "clear"
    BY DEF WatchInv
  <2>9. mpc' # "wait" /\ (mpc' = "readCancel" => ~shutdown)
    BY <2>1
  <2> QED BY <1>0, <1>1, <2>1, <2>5, <2>6, <2>7, <2>8, <2>9 DEF WatchInv
<1>3. CASE ReadCancelEvent
  <2>1. /\ mpc = "readCancel" /\ woken' = (cancel = "set")
        /\ mpc' = IF cancel = "none" THEN "done" ELSE "wait"
        /\ UNCHANGED <<requests, cancel, radioChanged, stranded, txq>>
    BY <1>3 DEF ReadCancelEvent, vars, sysVars, eventVars, cmdVars
  <2>2. OwnAlive' = OwnAlive
    BY <1>0, <2>1, OwnStays
  <2> QED BY <1>0, <1>1, <2>1, <2>2 DEF WatchInv
<1>4. CASE ~AddCmdToQueue /\ ~ReadCancelEvent
  <2>1. /\ mpc' \notin {"readCancel", "wait"}
        /\ cancel' = cancel \/ cancel' # "clear"
        /\ woken' = woken \/ woken' = FALSE
        /\ mpc = "wait" => woken' = FALSE
    BY <1>4 DEF MainStep, DecideOn, DecideOff, DecideShutdown, MainSignalsCancel, MainClosesPorts,
           CheckInitialized, ResetBasicEvent, WaitBasicInit, ResetRadioEvent, AddRefused,
           WaitRadioState, ResetPoweredOff, WaitModemPowerOff, Fail, CompleteRequest, vars, sysVars
  <2> QED BY <1>0, <1>1, <2>1 DEF WatchInv
<1> QED BY <1>2, <1>3, <1>4

LEMMA AllTaken ==
    ASSUME RadioTypeOK, txq # <<>>, txq' = Tail(txq)
    PROVE  InQueue \subseteq {Head(txq)} \cup InQueue'
<1>1. txq \in Seq(Command) /\ Len(txq) \in Nat \ {0}
  BY DEF RadioTypeOK
<1>2. /\ Len(txq') = Len(txq) - 1 /\ Head(txq) = txq[1]
      /\ \A i \in 1..Len(txq') : txq'[i] = txq[i + 1]
  BY <1>1
<1>3. ASSUME NEW i \in 1..Len(txq) PROVE txq[i] \in {Head(txq)} \cup InQueue'
  <2>1. CASE i = 1
    BY <1>2, <2>1
  <2>2. CASE i # 1
    <3>1. i - 1 \in 1..Len(txq') /\ (i - 1) + 1 = i
      BY <1>1, <1>2, <2>2
    <3>2. txq'[i - 1] = txq[(i - 1) + 1]
      BY <1>2, <3>1
    <3> QED BY <3>1, <3>2 DEF InQueue
  <2> QED BY <2>1, <2>2
<1> QED BY <1>3 DEF InQueue

(* A command thread lets go of a command when it signals the radio state,   *)
(* when its cancel event is signalled, or when the modem is gone.           *)
LEMMA CommandWatch ==
    ASSUME LifeInv, StopInv, RadioTypeOK, ChannelInv, WatchInv, CommandStep
    PROVE  WatchInv'
<1>0. /\ UNCHANGED <<vars, mainVars, shutdown>>
  BY DEF CommandStep, TakeCommand, LeaveLoop, IsRequestAllowed, PostCommand, SignalRadioState,
         CmdFrame
<1>1. /\ UNCHANGED <<xpc, xnode, lastEvent, Waiting, cancel, queues>>
      /\ UNCHANGED <<mkind, mpc, woken, requests, stranded>>
  BY <1>0 DEF vars, sysVars, hVars, deferVars, xVars, mainVars, Waiting
<1>2. Closing' = Closing /\ Departed' = Departed
  BY <1>1, NodesStay
<1>3. ASSUME cpc' # "none", radioChanged' = radioChanged,
             OwnAlive => OwnAlive' \/ (cancel = "clear" => Closing \/ Departed)
      PROVE  WatchInv'
  BY <1>0, <1>1, <1>2, <1>3 DEF WatchInv
<1>4. lastEvent # "UP" /\ cpc # "none" /\ cancel = "clear" => Closing \/ Departed
  BY ClosingAhead DEF ChannelInv
<1>5. CASE TakeCommand
  <2>1. /\ cpc = "loop" /\ cpc' = "allowed" /\ txq # <<>> /\ txq' = Tail(txq)
        /\ ccmd' = Head(txq) /\ radioChanged' = radioChanged
    BY <1>5 DEF TakeCommand, eventVars
  <2>2. InQueue \subseteq {Head(txq)} \cup InQueue'
    BY <2>1, AllTaken
  <2>3. Alive \subseteq Alive'
    BY <2>1, <2>2 DEF Alive, Active
  <2>4. OwnAlive => OwnAlive'
    BY <1>1, <2>1, <2>3 DEF OwnAlive, Power
  <2> QED BY <1>3, <2>1, <2>4
<1>6. CASE LeaveLoop
  <2>1. cpc # "none" /\ (lastEvent # "UP" \/ cancel = "set") /\ radioChanged' = radioChanged
    BY <1>6 DEF LeaveLoop, eventVars
  <2>2. cancel = "clear" => Closing \/ Departed
    BY <1>4, <2>1
  <2> QED BY <1>0, <1>1, <1>2, <2>1, <2>2 DEF WatchInv
<1>7. CASE IsRequestAllowed
  <2>1. /\ cpc = "allowed" /\ cpc' # "none" /\ radioChanged' = radioChanged /\ txq' = txq
        /\ lastEvent = "UP" => cpc' = "send" /\ ccmd' = ccmd
    BY <1>7 DEF IsRequestAllowed, eventVars
  <2>2. lastEvent = "UP" => Alive' = Alive
    BY <2>1 DEF Alive, Active, InQueue
  <2>3. OwnAlive => OwnAlive' \/ (cancel = "clear" => Closing \/ Departed)
    BY <1>1, <1>4, <2>1, <2>2 DEF OwnAlive, Power
  <2> QED BY <1>3, <2>1, <2>3
<1>8. CASE PostCommand
  <2>1. /\ cpc = "send" /\ cpc' # "none" /\ radioChanged' = radioChanged /\ txq' = txq
        /\ ccmd.kind = "power" => cpc' = "signal" /\ ccmd' = ccmd
    BY <1>8 DEF PostCommand, eventVars
  <2>2. Power \subseteq Power'
    BY <2>1 DEF Power, Alive, Active, InQueue
  <2>3. OwnAlive => OwnAlive'
    BY <1>1, <2>1, <2>2 DEF OwnAlive
  <2> QED BY <1>3, <2>1, <2>3
<1>9. CASE SignalRadioState
  <2>1. cpc' # "none" /\ radioChanged' = TRUE
    BY <1>9 DEF SignalRadioState
  <2> QED BY <1>0, <1>1, <1>2, <2>1 DEF WatchInv
<1> QED BY <1>5, <1>6, <1>7, <1>8, <1>9 DEF CommandStep

LEMMA StepWatch ==
    ASSUME RadioInv, WatchInv, [RadioNext]_allVars
    PROVE  WatchInv'
<1> USE DEF RadioInv
<1>0. LifeInv /\ TypeOK /\ DeferInv /\ CleanInv
  BY DEF LifeInv
<1>1. ASSUME UNCHANGED <<mkind, shutdown, mpc, woken, cancel, queues, stranded, radioChanged,
                         xpc, xnode, lastEvent, Waiting, txq, cpc, ccmd, requests>>
      PROVE  WatchInv'
  BY <1>1, NodesStay, OwnStays, WatchKept
<1>2. ASSUME NEW e \in Sent, ReceiveRadioEvent(e) PROVE WatchInv'
  <2>1. ReceiveEvent(e) /\ e \in Events
    BY <1>2, RadioPowerAssumption DEF ReceiveRadioEvent
  <2>2. UNCHANGED <<mkind, shutdown, mpc, woken, cancel, queues, stranded, radioChanged, xpc,
                    xnode, txq, cpc, ccmd, requests>>
    BY <1>2, <2>1 DEF ReceiveRadioEvent, ReceiveEvent, sysVars, xVars, mainVars, stateVars,
                      eventVars, cmdVars
  <2>3. /\ hpc = "idle" /\ hpc' = "queue" /\ resetQueue' = resetQueue
        /\ hnode' = NodeFor(e, lastEvent)
    BY <2>1 DEF ReceiveEvent, deferVars
  <2>4. ~Departed
    BY <2>3 DEF StopInv
  <2>5. /\ Waiting = resetQueue /\ Waiting' = Append(resetQueue, hnode')
        /\ resetQueue \in Seq(Node) /\ hnode' \in Node
    BY <1>0, <2>1, <2>3, NodeForType DEF Waiting, TypeOK
  <2>6. \A i \in 1..Len(Waiting) : i \in 1..Len(Waiting') /\ Waiting'[i] = Waiting[i]
    BY <2>5
  <2>7. Closing => Closing'
    BY <2>2, <2>6 DEF Closing, Closes
  <2> QED BY <2>2, <2>4, <2>7, OwnStays, WatchKept
<1>3. CASE OtherLifeStep(HandlerStep) \/ OtherLifeStep(WorkerStep)
  <2>1. (HandlerStep \/ WorkerStep) /\ UNCHANGED radioVars
    BY <1>3 DEF OtherLifeStep
  <2>2. UNCHANGED <<mkind, shutdown, mpc, woken, cancel, queues, stranded, radioChanged,
                    lastEvent, txq, cpc, ccmd, requests>>
    BY <1>0, <2>1, DeferSteps DEF sysVars, radioVars, mainVars, stateVars, eventVars, cmdVars
  <2>3. CASE UNCHANGED <<xpc, xnode, Waiting>>
    BY <1>1, <2>2, <2>3
  <2>4. ASSUME NEW t \in Executors, NEW n \in Node, Begins(t, n) PROVE WatchInv'
    <3>1. /\ xpc'[t] = FirstStep(n) /\ xnode'[t] = n
          /\ \A u \in Executors : xpc[u] = "none" /\ (u # t => xpc'[u] = "none")
      BY <1>0, <2>4 DEF Begins, TypeOK
    <3>2. /\ Waiting \in Seq(Node) /\ Waiting # <<>> /\ n = Waiting[1]
          /\ Waiting' = Tail(Waiting)
      BY <2>4 DEF Begins
    <3>3. /\ Len(Waiting) \in Nat \ {0} /\ Len(Waiting') = Len(Waiting) - 1
          /\ \A i \in 1..Len(Waiting') : Waiting'[i] = Waiting[i + 1]
      BY <3>2, TailOf
    <3>4. ASSUME NEW i \in 1..Len(Waiting), Closes(Waiting[i]) PROVE Closing'
      <4>1. CASE i = 1
        <5>1. xpc'[t] \in {"spoof", "cancel"}
          BY <3>1, <3>2, <3>4, <4>1 DEF Closes, FirstStep
        <5> QED BY <3>1, <3>2, <3>4, <4>1, <5>1 DEF Closing, Closes
      <4>2. CASE i # 1
        <5>1. i - 1 \in 1..Len(Waiting') /\ (i - 1) + 1 = i
          BY <3>3, <4>2
        <5>2. Waiting'[i - 1] = Waiting[(i - 1) + 1]
          BY <3>3, <5>1
        <5> QED BY <3>4, <5>1, <5>2 DEF Closing, Closes
      <4> QED BY <4>1, <4>2
    <3>5. Closing \/ Departed => Closing' \/ Departed'
      BY <2>2, <3>1, <3>4 DEF Closing, Departed
    <3>6. \A u \in Executors : xpc'[u] \notin {"close", "unspoof", "open", "create"}
      BY <3>1 DEF FirstStep
    <3> QED BY <2>2, <3>1, <3>5, <3>6, OwnStays, WatchKept
  <2> QED BY <1>0, <2>1, <2>3, <2>4, DeferSteps
<1>4. ASSUME NEW t \in Executors, RadioNodeStep(t) PROVE WatchInv'
  <2>1. NodeStep(t)
    BY <1>4 DEF RadioNodeStep, ResetRadio, SignalCancelEvent, ClosePorts, FinishRadioNode,
                FreeChannelInfo, StartCommandThread, SendBasicInit, OtherNodeStep, NodeStep
  <2> QED BY <1>4, <2>1, NodeStepWatch
<1>5. ASSUME NEW t \in Restarters, RadioRestartStep(t) PROVE WatchInv'
  <2>1. RestartStep(t)
        /\ UNCHANGED <<mkind, shutdown, mpc, woken, stranded, radioChanged, txq, cpc, ccmd,
                       requests>>
    BY <1>5 DEF RadioRestartStep, mainVars, eventVars, cmdVars
  <2>2. UNCHANGED <<lastEvent, Waiting, xnode, queues, cancel>>
    BY <1>0, <2>1, RestartAlone
  <2>3. CASE xpc' = xpc
    BY <1>1, <2>1, <2>2, <2>3
  <2>4. CASE /\ xpc["worker"] = "restart" /\ xpc'["worker"] = "end"
             /\ \A u \in Executors : u # "worker" => xpc[u] = "none" /\ xpc'[u] = "none"
    <3>1. Departed' = Departed /\ (Closing => Closing')
      BY <2>2, <2>4 DEF Departed, Closing, Closes
    <3> QED BY <2>1, <2>2, <2>4, <3>1, OwnStays, WatchKept
  <2> QED BY <1>0, <2>1, <2>3, <2>4, RestartAlone
<1>6. ASSUME NEW kind \in {"on", "off", "shutdown"}, OnRequest(kind) PROVE WatchInv'
  <2>1. /\ mpc = "idle" /\ mpc' = "decide" /\ mkind' = kind
        /\ kind = "shutdown" => shutdown' = TRUE
        /\ UNCHANGED <<woken, cancel, queues, xpc, xnode, lastEvent, cpc>>
        /\ UNCHANGED <<hVars, deferVars>>
    BY <1>6 DEF OnRequest, MainAt, MainGoto, sysVars, hVars, xVars, cmdVars
  <2>2. Waiting' = Waiting
    BY <2>1 DEF Waiting, hVars, deferVars
  <2>3. Closing' = Closing /\ Departed' = Departed
    BY <2>1, <2>2, NodesStay
  <2> QED BY <2>1, <2>3 DEF WatchInv
<1>7. CASE MainStep
  BY <1>7, MainWatch
<1>8. CASE CommandStep
  BY <1>8, CommandWatch
<1>9. CASE BasicStep \/ TriggerRadioOffInd \/ UNCHANGED allVars
  <2>1. UNCHANGED <<mkind, shutdown, mpc, woken, cancel, queues, stranded, radioChanged, xpc,
                    xnode, lastEvent, txq, cpc, ccmd, requests, hVars, deferVars>>
    BY <1>9 DEF BasicStep, BasicInitComplete, HandleChannelsBasicInitComplete, BasicInitFails,
                BasicFrame, TriggerRadioOffInd, MainFrame, allVars, radioVars, vars, sysVars,
                hVars, xVars, mainVars, stateVars, eventVars, cmdVars
  <2>2. Waiting' = Waiting
    BY <2>1 DEF Waiting, hVars, deferVars
  <2> QED BY <1>1, <2>1, <2>2
<1> QED BY <1>2, <1>3, <1>4, <1>5, <1>6, <1>7, <1>8, <1>9 DEF RadioNext

(* For any number of requests and of lives of the modem, a request that     *)
(* waits without being woken is never left alone: its command is to be      *)
(* executed or a node of the event that ends the modem's life will signal   *)
(* the cancel event, as long as the modem is announced to go and comes      *)
(* back.                                                                    *)
THEOREM NobodyWaitsInVain ==
    ASSUME ~DownUnannounced PROVE RadioSpec => []WaitIsWatched
<1>1. RadioInv /\ WatchInv /\ [RadioNext]_allVars => WatchInv'
  BY StepWatch
<1>2. RadioSpec => [](RadioInv /\ WatchInv)
  BY <1>1, InitWatch, RadioInvariant, PTL DEF RadioSpec
<1>3. RadioInv /\ WatchInv => WaitIsWatched
  <2> SUFFICES ASSUME RadioInv, WatchInv, mpc = "wait", ~radioChanged, ~woken, ~stranded
               PROVE  CommandComes \/ CancelComes \/ Gone
    BY DEF WaitIsWatched
  <2>1. cancel = "clear"
    <3>1. queues /\ cancel # "set"
      BY DEF WatchInv
    <3> QED BY <3>1 DEF RadioInv, ChannelInv, LifeInv, TypeOK
  <2>2. OwnAlive \/ Closing \/ Departed
    BY <2>1 DEF WatchInv
  <2>3. OwnAlive => CommandComes
    BY DEF OwnAlive, CommandComes, Power, Alive, InQueue, Active
  <2>4. Closing => CancelComes
    <3>1. ASSUME NEW i \in 1..Len(Waiting), Closes(Waiting[i]) PROVE CancelComes
      <4>1. resetQueue \in Seq(Node) /\ hnode \in Node
        BY DEF RadioInv, LifeInv, TypeOK
      <4>2. CASE hpc = "queue"
        <5>1. Waiting = Append(resetQueue, hnode)
          BY <4>2 DEF Waiting
        <5>2. \/ i \in 1..Len(resetQueue) /\ Waiting[i] = resetQueue[i]
              \/ Waiting[i] = hnode
          BY <3>1, <4>1, <5>1
        <5> QED BY <3>1, <4>2, <5>2 DEF CancelComes, Closes
      <4>3. CASE hpc # "queue"
        BY <3>1, <4>3 DEF Waiting, CancelComes, Closes
      <4> QED BY <4>2, <4>3
    <3> QED BY <3>1 DEF Closing, CancelComes, Closes
  <2>5. Departed => Gone
    BY DEF Departed, Gone
  <2> QED BY <2>2, <2>3, <2>4, <2>5
<1> QED BY <1>2, <1>3, PTL
=============================================================================
