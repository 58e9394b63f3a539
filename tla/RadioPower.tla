----------------------------- MODULE RadioPower -----------------------------
(***************************************************************************)
(* RIL_REQUEST_RADIO_POWER and RIL_REQUEST_SHUTDOWN.  The main thread does  *)
(* not leave them to the command thread as it does every other request: it  *)
(* waits, for the basic initialisation of the modem (20 s), then without a  *)
(* timeout for the radio state its command is to change, the cancel event   *)
(* of the modem's life or the ModemPoweredOff event.  Composed with the     *)
(* life cycle of ModemReset, whose nodes signal, reset and free what it     *)
(* waits for; with the command thread of its channel, whose post handler    *)
(* sets the radio state; and with the end of the basic initialisation.      *)
(*                                                                          *)
(* SendRequestModemShutdown succeeds: the MMGR is connected.                *)
(***************************************************************************)
EXTENDS ModemReset

CONSTANTS
    FlightModeOff,   \* GetModemOffInFlightModeState: off means no modem
    Sent,            \* the events the MMGR sends
    MaxRequests      \* bound: requests of the framework

ASSUME RadioPowerAssumption ==
    /\ FlightModeOff \in BOOLEAN
    /\ Sent \subseteq Events
    /\ MaxRequests \in Nat
    /\ "main" \notin Callers

VARIABLES
    radio,        \* the radio state
    pending,      \* m_bRadioRequestPending
    requested,    \* m_RequestedRadioPower: "on" or "off"
    shutdown,     \* m_RadioOffReason is E_RADIO_OFF_REASON_SHUTDOWN
    radioChanged, \* m_pRadioStateChangedEvent, manual reset
    basicDone,    \* m_pModemBasicInitCompleteEvent, manual reset
    basic,        \* the basic initialisation: "none", "sent" or "handle"
    quiet,        \* the nodes that do not announce an unavailable radio
    continued,    \* ContinueInit has still to set the radio state
    offTimer,     \* the timer of triggerRadioOffInd runs
    mpc,          \* where the main thread is
    mkind,        \* the request it handles: "on", "off" or "shutdown"
    woken,        \* the cancel event was signalled while it waited for it
    txq,          \* the commands of these requests in the channel's queue
    cpc,          \* the command thread
    ccmd,         \* the command it executes
    requests,     \* history: the requests so far
    signaller,    \* history: the request whose command signalled radioChanged
    stranded,     \* history: the modem's life ended under the main thread
    powered       \* history: the radio was powered on in this modem life

mainVars  == <<mpc, mkind, woken, requests, stranded>>
stateVars == <<radio, pending, requested, shutdown, offTimer>>
eventVars == <<radioChanged, basicDone, signaller>>
initVars  == <<basic, quiet, continued>>
cmdVars   == <<txq, cpc, ccmd, powered>>
radioVars == <<mainVars, stateVars, eventVars, initVars, cmdVars>>
allVars   == <<vars, radioVars>>

Command == [num : Nat, kind : {"power", "shutdown"}]
NoCommand == [num |-> 0, kind |-> "power"]

RadioInit ==
    /\ Init
    /\ radio = "UNAVAILABLE" /\ pending = FALSE /\ requested = "off"
    /\ shutdown = FALSE /\ offTimer = FALSE
    /\ radioChanged = FALSE /\ basicDone = FALSE /\ signaller = 0
    /\ basic = "none" /\ quiet = {} /\ continued = FALSE
    /\ mpc = "idle" /\ mkind = "off" /\ woken = FALSE
    /\ requests = 0 /\ stranded = FALSE
    /\ txq = <<>> /\ cpc = "none" /\ ccmd = NoCommand /\ powered = FALSE

Gone == lastEvent \in {"OUT_OF_SERVICE", "REBOOT"}
-----------------------------------------------------------------------------
(* The main thread.                                                         *)

MainAt(step) == mpc = step
MainGoto(step) == mpc' = step
MainFrame == UNCHANGED <<mkind, requests, stranded, initVars, cmdVars>>

(* RequestRadioPower, RequestShutdown: what they note before the Core part. *)
(* A modem that is gone has the request refused at once (HandleRequest).    *)
(* The platform's shutdown sets sys.shutdown.requested before it powers the *)
(* radio off; RequestShutdown sets it itself.                               *)
OnRequest(kind) ==
    /\ MainAt("idle")
    /\ requests < MaxRequests
    /\ ~(Gone /\ (spoof \/ radio = "UNAVAILABLE"))
    /\ requests' = requests + 1
    /\ mkind' = kind
    /\ \/ platformOff' = (platformOff \/ kind = "shutdown")
       \/ kind = "off" /\ platformOff' = TRUE
    /\ shutdown' = CASE kind = "shutdown" -> TRUE
                     [] kind = "on"       -> FALSE
                     [] kind = "off"      -> shutdown \/ platformOff'
    /\ pending' = (pending \/ kind # "shutdown")
    /\ requested' = IF kind = "shutdown" THEN requested ELSE kind
    /\ MainGoto("decide")
    /\ UNCHANGED <<woken, stranded, radio, offTimer, eventVars, initVars, cmdVars>>
    /\ UNCHANGED <<sysVars, hVars, deferVars, xVars, rVars>>

(* RADIO_POWER on: GetModem may fail, and is not tried with the MMGR busy.  *)
DecideOn ==
    /\ MainAt("decide") /\ mkind = "on"
    /\ \/ MainGoto("fail")
       \/ lastEvent # "CORE_DUMP" /\ ~Gone /\ MainGoto("init")
    /\ UNCHANGED <<vars, woken, stateVars, eventVars>>
    /\ MainFrame

(* RADIO_POWER off, and SHUTDOWN, by what the modem does.                   *)
DecideOff ==
    /\ MainAt("decide") /\ mkind = "off"
    /\ \/ /\ lastEvent = "UP"
          /\ MainGoto(IF shutdown /\ radio = "UNAVAILABLE" THEN "resetOff" ELSE "init")
          /\ UNCHANGED radio
       \/ /\ lastEvent # "UP"
          /\ MainGoto(IF shutdown THEN "cancel" ELSE "done")
          /\ radio' = IF lastEvent = "DOWN" /\ ~shutdown THEN "OFF" ELSE radio
    /\ UNCHANGED <<vars, woken, pending, requested, shutdown, offTimer, eventVars>>
    /\ MainFrame

DecideShutdown ==
    /\ MainAt("decide") /\ mkind = "shutdown"
    /\ MainGoto(CASE lastEvent = "UP" ->
                         IF radio = "UNAVAILABLE" THEN "resetOff" ELSE "add"
                  [] lastEvent = "SHUTDOWN" -> "resetOff"
                  [] lastEvent = "DOWN" -> "done"
                  [] OTHER -> "cancel")
    /\ UNCHANGED <<vars, woken, stateVars, eventVars>>
    /\ MainFrame

(* CloseChannelPorts, by the main thread.                                   *)
MainSignalsCancel ==
    /\ MainAt("cancel")
    /\ cancel' = IF cancel = "none" THEN "none" ELSE "set"
    /\ MainGoto("close")
    /\ UNCHANGED <<spoof, initOk, queues, ports, threads, poweredOff, platformOff>>
    /\ UNCHANGED <<hVars, deferVars, xVars, rVars, woken, stateVars, eventVars>>
    /\ MainFrame

(* The threads are joined, and m_pPortsManagerMutex keeps the opening out.  *)
Joined == threads => cpc = "none" /\ basic # "handle"

MainClosesPorts ==
    /\ MainAt("close")
    /\ Joined
    /\ \A t \in Executors : xpc[t] = "open" => ports = 0
    /\ threads' = FALSE
    /\ ports' = 0
    /\ radio' = IF mkind = "off" THEN "OFF" ELSE radio
    /\ MainGoto("done")
    /\ UNCHANGED <<spoof, initOk, queues, cancel, poweredOff, platformOff>>
    /\ UNCHANGED <<hVars, deferVars, xVars, rVars, woken>>
    /\ UNCHANGED <<pending, requested, shutdown, offTimer, eventVars>>
    /\ MainFrame

(* "Wait for modem powered on and basic initialization completion event":   *)
(* only while the system is not initialised.                                *)
CheckInitialized ==
    /\ MainAt("init")
    /\ MainGoto(IF initOk THEN "reset" ELSE "resetBasic")
    /\ UNCHANGED <<vars, woken, stateVars, eventVars>>
    /\ MainFrame

ResetBasicEvent ==
    /\ MainAt("resetBasic")
    /\ basicDone' = FALSE
    /\ MainGoto("waitBasic")
    /\ UNCHANGED <<vars, woken, stateVars, radioChanged, signaller>>
    /\ MainFrame

WaitBasicInit ==
    /\ MainAt("waitBasic")
    /\ \/ basicDone /\ MainGoto("reset")
       \/ ~basicDone /\ MainGoto("fail")
    /\ UNCHANGED <<vars, woken, stateVars, eventVars>>
    /\ MainFrame

(* Mutant: the event is not reset.                                          *)
ResetRadioEventNot ==
    /\ MainAt("reset")
    /\ MainGoto("add")
    /\ UNCHANGED <<vars, woken, stateVars, eventVars>>
    /\ MainFrame

(* "we need to reset it before the sending of the AT"                       *)
ResetRadioEvent ==
    /\ MainAt("reset")
    /\ radioChanged' = FALSE
    /\ MainGoto("add")
    /\ UNCHANGED <<vars, woken, stateVars, basicDone, signaller>>
    /\ MainFrame

(* AddCmdToQueue.  (RequestPath: the queue that is gone by now.)            *)
AddRefused ==
    /\ MainAt("add")
    /\ ~initOk
    /\ MainGoto(IF mkind = "shutdown" THEN "done" ELSE "fail")
    /\ UNCHANGED <<vars, woken, stateVars, eventVars>>
    /\ MainFrame

AddCmdToQueue ==
    /\ MainAt("add")
    /\ initOk /\ queues
    /\ txq' = <<[num |-> requests, kind |-> IF mkind = "shutdown" THEN "shutdown" ELSE "power"]>> \o txq
    /\ MainGoto(IF shutdown THEN "resetOff" ELSE "readCancel")
    /\ stranded' = FALSE
    /\ UNCHANGED <<vars, mkind, woken, requests, stateVars, eventVars, initVars,
                   cpc, ccmd, powered>>

(* Mutant: an event that is signalled already is not seen.                  *)
ReadCancelEventBlindly ==
    /\ MainAt("readCancel")
    /\ woken' = FALSE
    /\ MainGoto(IF cancel = "none" THEN "done" ELSE "wait")
    /\ UNCHANGED <<vars, stateVars, eventVars>>
    /\ MainFrame

(* GetCancelWaitEvent: that of the modem's life at this moment.             *)
ReadCancelEvent ==
    /\ MainAt("readCancel")
    /\ woken' = (cancel = "set")
    /\ MainGoto(IF cancel = "none" THEN "done" ELSE "wait")
    /\ UNCHANGED <<vars, stateVars, eventVars>>
    /\ MainFrame

WaitRadioState ==
    /\ MainAt("wait")
    /\ radioChanged \/ woken
    /\ MainGoto("done")
    /\ woken' = FALSE
    /\ UNCHANGED <<vars, stateVars, eventVars>>
    /\ MainFrame

(* WaitForModemPowerOffEvent.                                               *)
ResetPoweredOff ==
    /\ MainAt("resetOff")
    /\ poweredOff' = FALSE
    /\ MainGoto("waitOff")
    /\ UNCHANGED <<spoof, initOk, queues, cancel, ports, threads, platformOff>>
    /\ UNCHANGED <<hVars, deferVars, xVars, rVars, woken, stateVars, eventVars>>
    /\ MainFrame

WaitModemPowerOff ==
    /\ MainAt("waitOff")
    /\ poweredOff
    /\ MainGoto("done")
    /\ UNCHANGED <<vars, woken, stateVars, eventVars>>
    /\ MainFrame

(* "set the radio state to unavailable ... set the radio state to off and   *)
(* notify it after 1seconds"                                                *)
Fail ==
    /\ MainAt("fail")
    /\ radio' = "UNAVAILABLE"
    /\ offTimer' = TRUE
    /\ MainGoto("done")
    /\ UNCHANGED <<vars, woken, pending, requested, shutdown, eventVars>>
    /\ MainFrame

(* The request is completed, with success whatever happened.                *)
CompleteRequest ==
    /\ MainAt("done")
    /\ IF mkind = "shutdown"
       THEN radio' = "UNAVAILABLE" /\ UNCHANGED pending
       ELSE pending' = FALSE /\ UNCHANGED radio
    /\ MainGoto("idle")
    /\ UNCHANGED <<vars, woken, requested, shutdown, offTimer, eventVars>>
    /\ MainFrame

(* libril's event thread.                                                   *)
TriggerRadioOffInd ==
    /\ offTimer
    /\ offTimer' = FALSE
    /\ radio' = IF radio = "UNAVAILABLE" THEN "OFF" ELSE radio
    /\ UNCHANGED <<vars, mpc, woken, pending, requested, shutdown, eventVars>>
    /\ MainFrame
-----------------------------------------------------------------------------
(* The command threads.                                                     *)

CmdFrame == UNCHANGED <<vars, mainVars, requested, shutdown, offTimer, initVars>>

TakeCommand ==
    /\ cpc = "loop"
    /\ txq # <<>> /\ lastEvent = "UP"
    /\ ccmd' = Head(txq)
    /\ txq' = Tail(txq)
    /\ cpc' = "allowed"
    /\ UNCHANGED <<powered, radio, pending, eventVars>>
    /\ CmdFrame

(* The modem is gone (ClearCommandQueue), or the thread is to stop.         *)
LeaveLoop ==
    /\ cpc = "loop"
    /\ \/ txq # <<>> /\ lastEvent # "UP"
       \/ txq = <<>> /\ cancel = "set"
    /\ txq' = <<>>
    /\ cpc' = "none"
    /\ UNCHANGED <<ccmd, powered, radio, pending, eventVars>>
    /\ CmdFrame

(* IsRequestAllowed lets these requests pass in spoof mode, but not without *)
(* a modem; the command is dropped without a word to the main thread.       *)
IsRequestAllowed ==
    /\ cpc = "allowed"
    /\ IF lastEvent = "UP"
       THEN cpc' = "send" /\ UNCHANGED ccmd
       ELSE cpc' = "loop" /\ ccmd' = NoCommand
    /\ UNCHANGED <<txq, powered, radio, pending, eventVars>>
    /\ CmdFrame

(* Mutant: what was requested is taken for a radio state.                  *)
PostCommandRequested ==
    /\ cpc = "send"
    /\ IF ccmd.kind = "power"
       THEN /\ pending' = FALSE
            /\ radio' = requested
            /\ powered' = (requested = "on")
            /\ cpc' = "signal"
            /\ UNCHANGED ccmd
       ELSE /\ cpc' = "loop"
            /\ ccmd' = NoCommand
            /\ UNCHANGED <<pending, radio, powered>>
    /\ UNCHANGED <<txq, eventVars>>
    /\ CmdFrame

(* PostRadioPower follows SendCommand, whatever the modem answered: the     *)
(* radio state becomes what was requested, except for a shutdown, of which  *)
(* the MMGR is told, as it is by PostShutdown.                              *)
PostCommand ==
    /\ cpc = "send"
    /\ IF ccmd.kind = "power"
       THEN /\ pending' = FALSE
            /\ radio' = IF requested = "on" THEN "ON"
                        ELSE IF shutdown THEN radio ELSE "OFF"
            /\ powered' = (requested = "on")
            /\ cpc' = "signal"
            /\ UNCHANGED ccmd
       ELSE /\ cpc' = "loop"
            /\ ccmd' = NoCommand
            /\ UNCHANGED <<pending, radio, powered>>
    /\ UNCHANGED <<txq, eventVars>>
    /\ CmdFrame

SignalRadioState ==
    /\ cpc = "signal"
    /\ radioChanged' = TRUE
    /\ signaller' = ccmd.num
    /\ ccmd' = NoCommand
    /\ cpc' = "loop"
    /\ UNCHANGED <<txq, powered, radio, pending, basicDone>>
    /\ CmdFrame

BasicFrame == UNCHANGED <<mainVars, pending, requested, shutdown, offTimer, cmdVars,
                          quiet, continued, radioChanged, signaller>>

(* The last channel's last basic command is answered: the event, and then   *)
(* HandleChannelsBasicInitComplete, which gives the framework a radio state *)
(* to start from if no request is going to.                                 *)
BasicInitComplete ==
    /\ basic = "sent" /\ threads
    /\ basicDone' = TRUE
    /\ basic' = "handle"
    /\ UNCHANGED <<vars, radio>>
    /\ BasicFrame

HandleChannelsBasicInitComplete ==
    /\ basic = "handle"
    /\ radio' = IF ~pending /\ radio = "UNAVAILABLE" THEN "OFF" ELSE radio
    /\ basic' = "none"
    /\ UNCHANGED <<vars, basicDone>>
    /\ BasicFrame

(* CContextInitString::Execute of a failed one; the clean-up is one of the  *)
(* Callers'.                                                                *)
BasicInitFails ==
    /\ basic = "sent" /\ threads
    /\ initOk' = FALSE
    /\ basic' = "none"
    /\ UNCHANGED <<spoof, queues, cancel, ports, threads, poweredOff, platformOff>>
    /\ UNCHANGED <<hVars, deferVars, xVars, rVars, radio, basicDone>>
    /\ BasicFrame
-----------------------------------------------------------------------------
(* The life cycle's steps, with what they do to this module's state.        *)

LifeFrame == UNCHANGED <<mkind, requests, requested, shutdown, offTimer, signaller,
                         radioChanged, mpc>>

(* Which nodes do not call SetRadioStateAndNotify when they reset.          *)
ReceiveRadioEvent(e) ==
    /\ ReceiveEvent(e)
    /\ quiet' = IF e \in {"SHUTDOWN", "OUT_OF_SERVICE"} THEN quiet \cup {events'} ELSE quiet
    /\ UNCHANGED <<mainVars, stateVars, eventVars, basic, continued, cmdVars>>

(* ResetSystemState with its ResetStartupEvents, the radio state, and       *)
(* ResetInternalStates.                                                     *)
ResetRadio(t) ==
    /\ ResetSystemState(t)
    /\ basic' = IF basic = "sent" THEN "none" ELSE basic
    /\ basicDone' = FALSE
    /\ radio' = IF xnode[t].id \in quiet THEN radio ELSE "UNAVAILABLE"
    /\ pending' = FALSE
    /\ UNCHANGED <<woken, stranded, quiet, continued, cmdVars>>
    /\ LifeFrame

(* Mutant: the main thread waits for the radio state alone.                *)
SignalCancelEventUnseen(t) == SignalCancel(t) /\ UNCHANGED radioVars

(* The waiting main thread observes the event it has read.                  *)
SignalCancelEvent(t) ==
    /\ SignalCancel(t)
    /\ woken' = (woken \/ (mpc = "wait" /\ ~stranded /\ cancel' = "set"))
    /\ UNCHANGED <<stranded, radio, pending, basicDone, initVars, cmdVars>>
    /\ LifeFrame

ClosePorts(t) == CloseChannelPorts(t) /\ Joined /\ UNCHANGED radioVars

(* Mutant: the radio state is left on at the end of ContinueInit.           *)
FinishRadioNodeAsIs(t) ==
    /\ FinishNode(t)
    /\ radio' = IF xnode[t].off THEN "OFF" ELSE radio
    /\ continued' = (continued /\ ~xnode[t].up)
    /\ quiet' = quiet \ {xnode[t].id}
    /\ UNCHANGED <<woken, stranded, pending, basicDone, basic, cmdVars>>
    /\ LifeFrame

(* The end of MODEM_DOWN in a platform shutdown, and of ContinueInit.       *)
FinishRadioNode(t) ==
    /\ FinishNode(t)
    /\ radio' = IF xnode[t].off \/ (continued /\ xnode[t].up /\ FlightModeOff)
                THEN "OFF" ELSE radio
    /\ continued' = (continued /\ ~xnode[t].up)
    /\ quiet' = quiet \ {xnode[t].id}
    /\ UNCHANGED <<woken, stranded, pending, basicDone, basic, cmdVars>>
    /\ LifeFrame

(* The cancel event is deleted whoever waits for it, and the queue with     *)
(* whatever it holds.                                                       *)
FreeChannelInfo(t) ==
    /\ ResetChannelInfo(t)
    /\ txq' = <<>>
    /\ basic' = IF basic = "sent" THEN "none" ELSE basic
    /\ stranded' = (stranded \/ (mpc \in {"readCancel", "wait"} /\ ~woken))
    /\ UNCHANGED <<woken, radio, pending, basicDone, quiet, continued, cpc, ccmd, powered>>
    /\ LifeFrame

StartCommandThread(t) ==
    /\ StartThreads(t)
    /\ cpc' = IF threads THEN cpc ELSE "loop"
    /\ powered' = FALSE
    /\ UNCHANGED <<woken, stranded, radio, pending, basicDone, initVars, txq, ccmd>>
    /\ LifeFrame

(* CInitializer::InitializeModem: the startup events first.                 *)
SendBasicInit(t) ==
    /\ \/ InitializeModem(t) /\ basic' = "sent" /\ continued' = TRUE
       \/ InitializeModemFails(t) /\ UNCHANGED <<basic, continued>>
    /\ basicDone' = FALSE
    /\ UNCHANGED <<woken, stranded, radio, pending, quiet, cmdVars>>
    /\ LifeFrame

OtherNodeStep(t) ==
    /\ \/ SpoofOn(t) \/ SpoofOff(t) \/ OpenPort(t) \/ OpenFails(t)
       \/ CreateQueues(t) \/ SetSystemInitialized(t)
    /\ UNCHANGED radioVars

RadioNodeStep(t) ==
    \/ ResetRadio(t) \/ SignalCancelEvent(t) \/ ClosePorts(t) \/ FinishRadioNode(t)
    \/ FreeChannelInfo(t) \/ StartCommandThread(t) \/ SendBasicInit(t)
    \/ OtherNodeStep(t)

(* RequestModemRestart announces the radio unavailable with the recovery.   *)
RadioRestartStep(t) ==
    /\ RestartStep(t)
    /\ radio' = IF rpc[t] = "check" /\ lastEvent = "UP" THEN "UNAVAILABLE" ELSE radio
    /\ UNCHANGED <<mainVars, pending, requested, shutdown, offTimer, eventVars,
                   initVars, cmdVars>>

OtherLifeStep(A) == A /\ UNCHANGED radioVars

MainStep ==
    \/ DecideOn \/ DecideOff \/ DecideShutdown \/ MainSignalsCancel \/ MainClosesPorts
    \/ CheckInitialized \/ ResetBasicEvent \/ WaitBasicInit \/ ResetRadioEvent
    \/ AddRefused \/ AddCmdToQueue \/ ReadCancelEvent \/ WaitRadioState
    \/ ResetPoweredOff \/ WaitModemPowerOff \/ Fail \/ CompleteRequest

CommandStep ==
    \/ TakeCommand \/ LeaveLoop \/ IsRequestAllowed \/ PostCommand \/ SignalRadioState

BasicStep == BasicInitComplete \/ HandleChannelsBasicInitComplete \/ BasicInitFails

RadioNext ==
    \/ \E e \in Sent : ReceiveRadioEvent(e)
    \/ OtherLifeStep(HandlerStep) \/ OtherLifeStep(WorkerStep)
    \/ \E t \in Executors : RadioNodeStep(t)
    \/ \E t \in Restarters : RadioRestartStep(t)
    \/ \E kind \in {"on", "off", "shutdown"} : OnRequest(kind)
    \/ MainStep \/ CommandStep \/ BasicStep \/ TriggerRadioOffInd

RadioSpec == RadioInit /\ [][RadioNext]_allVars

(* The threads are scheduled, a modem that is up ends a command with an     *)
(* answer or a timeout, and so the basic initialisation.                    *)
FairRadioSpec ==
    /\ RadioSpec
    /\ WF_allVars(OtherLifeStep(HandlerStep)) /\ WF_allVars(OtherLifeStep(WorkerStep))
    /\ \A t \in Executors : WF_allVars(RadioNodeStep(t))
    /\ \A t \in Callers : WF_allVars(rpc[t] # "out" /\ RadioRestartStep(t))
    /\ WF_allVars(RadioRestartStep("worker"))
    /\ WF_allVars(MainStep) /\ WF_allVars(CommandStep) /\ WF_allVars(BasicStep)
    /\ WF_allVars(TriggerRadioOffInd)
-----------------------------------------------------------------------------
(* Properties.                                                              *)

RadioTypeOK ==
    /\ radio \in {"UNAVAILABLE", "OFF", "ON"}
    /\ {pending, shutdown, radioChanged, basicDone, continued, offTimer, woken,
        stranded, powered} \subseteq BOOLEAN
    /\ requested \in {"on", "off"}
    /\ basic \in {"none", "sent", "handle"}
    /\ quiet \subseteq Nat
    /\ mpc \in {"idle", "decide", "cancel", "close", "init", "resetBasic", "waitBasic",
                "reset", "add", "readCancel", "wait", "resetOff", "waitOff", "fail", "done"}
    /\ mkind \in {"on", "off", "shutdown"}
    /\ txq \in Seq(Command)
    /\ cpc \in {"none", "loop", "allowed", "send", "signal"}
    /\ ccmd \in Command
    /\ requests \in Nat /\ signaller \in Nat

(* The main thread is not woken by the command of an earlier request: when  *)
(* the radio state changed event is signalled while it waits, its own       *)
(* command signalled it, although earlier ones may end after their request  *)
(* did, in a life of the modem that was cancelled.  Not so once the         *)
(* platform shuts down: the main thread may then close the ports over a     *)
(* MODEM_UP in progress, whose life is in service with its cancel event set *)
(* and lets every request return before its command.                        *)
OwnCommandWakes == mpc = "wait" /\ radioChanged /\ ~platformOff => signaller = requests

(* Once the events are handled, a radio state ON was set by a power-on of   *)
(* this modem life: no restart of the modem leaves the framework with a     *)
(* radio it believes on.                                                    *)
OnMeansPoweredOn ==
    Quiescent /\ lastEvent = "UP" /\ ~platformOff /\ radio = "ON" => powered

(* The command of the request that waits is still to be executed ...        *)
CommandComes ==
    /\ cpc # "none"
    /\ \/ \E i \in 1..Len(txq) : txq[i].num = requests
       \/ cpc # "loop" /\ ccmd.num = requests

(* ... or a node that closes the ports, and has not signalled the cancel    *)
(* event yet.                                                               *)
CancelComes ==
    \/ \E t \in Executors : xpc[t] \in {"spoof", "reset", "cancel"} /\ xnode[t].close
    \/ \E i \in 1..Len(resetQueue) : resetQueue[i].close
    \/ hpc = "queue" /\ hnode.close

(* Nobody waits for nothing: as long as the main thread was not woken, its  *)
(* command or the cancel event is still to come, although a command may be  *)
(* dropped by a thread that finds the modem gone before the node of that    *)
(* event is begun.  Unless the modem is gone for good, or its life ended    *)
(* before the main thread looked at the cancel event.                       *)
WaitIsWatched ==
    mpc = "wait" /\ ~radioChanged /\ ~woken /\ ~stranded
        => CommandComes \/ CancelComes \/ Gone

(* A RADIO_POWER that waits for its command is completed, unless the modem  *)
(* is gone for good or its life ended before the main thread looked at the  *)
(* cancel event.                                                            *)
WaitEnds == mpc = "wait" ~> mpc # "wait" \/ Gone \/ stranded

(* "Cancel event is signalled on modem events."                             *)
CancelledOnModemEvents == mpc = "wait" /\ ~stranded ~> mpc # "wait"
=============================================================================
