---------------------------- MODULE RequestPath ----------------------------
(***************************************************************************)
(* The way of a request through the Rapid RIL while the modem comes and     *)
(* goes: the thread on which libril calls onRequest (CTE::HandleRequest and *)
(* CCommand::AddCmdToQueue), the Tx queue and event of a channel, and its   *)
(* command thread (CChannelBase::CommandThread), composed with the life     *)
(* cycle of ModemReset, whose nodes create and delete the queue and start   *)
(* and stop the thread.                                                     *)
(*                                                                          *)
(* SendCommand is one step here: AtChannel models it.                       *)
(***************************************************************************)
EXTENDS ModemReset

CONSTANTS
    Requests,     \* the requests of the framework, one token each
    SpoofAllowed, \* IsRequestAllowedInSpoofState
    Dtmf,         \* RIL_REQUEST_DTMF_START and _STOP
    Identical,    \* requests of one kind that share the answer of the first
    NoRequest     \* no request

ASSUME RequestPathAssumption ==
    /\ NoRequest \notin Requests
    /\ SpoofAllowed \subseteq Requests
    /\ Dtmf \subseteq Requests
    /\ Identical \subseteq Requests \ (Dtmf \cup SpoofAllowed)

VARIABLES
    mpc,      \* where the main thread is in HandleRequest
    mreq,     \* the request it handles
    txQueue,  \* g_pTxQueue of the channel
    txEvent,  \* g_TxQueueEvent of the channel, an auto-reset event
    cpc,      \* where the command thread is, "none" when it does not run
    creq,     \* the command it has dequeued
    copy,     \* the identical commands it still has to complete
    received, \* history: requests handed to onRequest
    answers,  \* history: calls of RIL_onRequestComplete per request
    lost,     \* history: commands deleted with their queue
    dead      \* the process died on a queue that is gone

mainVars == <<mpc, mreq, received>>
txVars   == <<txQueue, txEvent>>
cmdVars  == <<cpc, creq, copy>>
pathVars == <<mainVars, txVars, cmdVars, answers, lost, dead>>
allVars  == <<vars, pathVars>>

PathInit ==
    /\ Init
    /\ mpc = "idle"
    /\ mreq = NoRequest
    /\ txQueue = <<>>
    /\ txEvent = FALSE
    /\ cpc = "none"
    /\ creq = NoRequest
    /\ copy = {}
    /\ received = {}
    /\ answers = [r \in Requests |-> 0]
    /\ lost = {}
    /\ dead = FALSE

QueuedRequests == {txQueue[i] : i \in 1..Len(txQueue)}

(* RIL_onRequestComplete for the requests rs.                               *)
Complete(rs) == answers' = [r \in Requests |-> answers[r] + (IF r \in rs THEN 1 ELSE 0)]
-----------------------------------------------------------------------------
(* The main thread: onRequest, CTE::HandleRequest, CCommand::AddCmdToQueue.  *)

(* The process lives, and this thread changes nothing of the others.        *)
MainFrame == ~dead /\ UNCHANGED <<vars, cmdVars, lost>>

OnRequest(r) ==
    /\ mpc = "idle"
    /\ r \notin received
    /\ received' = received \cup {r}
    /\ mreq' = r
    /\ mpc' = "gate"
    /\ UNCHANGED <<txVars, answers, dead>>
    /\ MainFrame

(* A request that cannot be served now is completed on the spot.  The radio *)
(* state, the SIM and the registration refuse requests in spoof mode or not. *)
RefuseRequest ==
    /\ mpc = "gate"
    /\ Complete({mreq})
    /\ mpc' = "idle"
    /\ mreq' = NoRequest
    /\ UNCHANGED <<received, txVars, dead>>
    /\ MainFrame

AcceptRequest ==
    /\ mpc = "gate"
    /\ spoof => mreq \in SpoofAllowed
    /\ mpc' = "initialized"
    /\ UNCHANGED <<mreq, received, txVars, answers, dead>>
    /\ MainFrame

(* Mutant: a refused command is queued after it was completed.              *)
CheckInitializedAndQueue ==
    /\ mpc = "initialized"
    /\ mpc' = "enqueue"
    /\ IF initOk
       THEN UNCHANGED <<mreq, answers>>
       ELSE mreq' = NoRequest /\ Complete({mreq})
    /\ UNCHANGED <<received, txVars, dead>>
    /\ MainFrame

(* AddCmdToQueue asks whether the system is initialised, and nothing holds  *)
(* the answer true until the command is in the queue.                       *)
CheckInitialized ==
    /\ mpc = "initialized"
    /\ IF initOk
       THEN mpc' = "enqueue" /\ UNCHANGED <<mreq, answers>>
       ELSE mpc' = "idle" /\ mreq' = NoRequest /\ Complete({mreq})
    /\ UNCHANGED <<received, txVars, dead>>
    /\ MainFrame

EnqueueCommand ==
    /\ mpc = "enqueue"
    /\ queues
    /\ txQueue' = Append(txQueue, mreq)
    /\ mreq' = NoRequest
    /\ mpc' = "signal"
    /\ UNCHANGED <<received, txEvent, answers, dead>>
    /\ MainFrame

(* The queue was deleted meanwhile.                                         *)
EnqueueNowhere ==
    /\ mpc = "enqueue"
    /\ ~queues
    /\ dead' = TRUE
    /\ UNCHANGED <<mpc, mreq, received, txVars, answers>>
    /\ MainFrame

(* Signalling an event that is gone does nothing.                           *)
SignalTx ==
    /\ mpc = "signal"
    /\ txEvent' = queues
    /\ mpc' = "idle"
    /\ UNCHANGED <<mreq, received, txQueue, answers, dead>>
    /\ MainFrame
-----------------------------------------------------------------------------
(* The command thread: CommandThread, WaitForCommand, ClearCommandQueue.     *)

ThreadFrame == ~dead /\ UNCHANGED <<vars, mainVars, lost, dead>>

CmdFrame == ThreadFrame /\ UNCHANGED copy

TestTxQueue ==
    /\ cpc = "top"
    /\ cpc' = IF txQueue = <<>> THEN "reset" ELSE "modem"
    /\ UNCHANGED <<creq, txVars, answers>>
    /\ CmdFrame

(* Mutant: WaitForCommand does not test the queue after the reset.          *)
ResetTxEventAndWait ==
    /\ cpc = "reset"
    /\ txEvent' = FALSE
    /\ cpc' = "register"
    /\ UNCHANGED <<creq, txQueue, answers>>
    /\ CmdFrame

(* WaitForCommand resets the event before it looks at the queue once more.  *)
ResetTxEvent ==
    /\ cpc = "reset"
    /\ txEvent' = FALSE
    /\ cpc' = "test"
    /\ UNCHANGED <<creq, txQueue, answers>>
    /\ CmdFrame

(* "This is necessary because the above Reset() could clear the event set   *)
(* in CCommand::AddCmdToQueue()."                                           *)
TestTxQueueAgain ==
    /\ cpc = "test"
    /\ cpc' = IF txQueue = <<>> THEN "register" ELSE "modem"
    /\ UNCHANGED <<creq, txVars, answers>>
    /\ CmdFrame

WakeOnCommand ==
    /\ cpc \in {"register", "wait"}
    /\ txEvent
    /\ txEvent' = FALSE
    /\ cpc' = "modem"
    /\ UNCHANGED <<creq, txQueue, answers>>
    /\ CmdFrame

WaitForever ==
    /\ cpc = "register"
    /\ ~txEvent /\ cancel # "set"
    /\ cpc' = "wait"
    /\ UNCHANGED <<creq, txVars, answers>>
    /\ CmdFrame

(* The cancel event ends the thread, and leaves the queue as it is.         *)
WakeOnCancel ==
    /\ \/ cpc = "register" /\ ~txEvent
       \/ cpc = "wait"
    /\ cancel = "set"
    /\ cpc' = "none"
    /\ UNCHANGED <<creq, txVars, answers>>
    /\ CmdFrame

LookAtModem ==
    /\ cpc = "modem"
    /\ cpc' = IF lastEvent = "UP" THEN "take" ELSE "clear"
    /\ UNCHANGED <<creq, txVars, answers>>
    /\ CmdFrame

(* ClearCommandQueue completes what is queued; the thread ends.             *)
ClearOne ==
    /\ cpc = "clear"
    /\ txQueue # <<>>
    /\ Complete({Head(txQueue)})
    /\ txQueue' = Tail(txQueue)
    /\ UNCHANGED <<cpc, creq, txEvent>>
    /\ CmdFrame

QueueCleared ==
    /\ cpc = "clear"
    /\ txQueue = <<>>
    /\ cpc' = "none"
    /\ UNCHANGED <<creq, txVars, answers>>
    /\ CmdFrame

TakeCommand ==
    /\ cpc = "take"
    /\ IF txQueue = <<>>
       THEN cpc' = "top" /\ UNCHANGED <<creq, txQueue>>
       ELSE /\ creq' = Head(txQueue)
            /\ txQueue' = Tail(txQueue)
            /\ cpc' = "allowed"
    /\ UNCHANGED <<txEvent, answers>>
    /\ CmdFrame

(* CTE::IsRequestAllowed.  A refused request is completed and dropped, but  *)
(* the tests of the DTMF requests follow whatever the first tests decided.  *)
Refusable(r) == lastEvent # "UP" \/ (spoof /\ r \notin SpoofAllowed)

RefuseCommand ==
    /\ cpc = "allowed"
    /\ Complete({creq})
    /\ IF creq \in Dtmf
       THEN cpc' = "dtmf" /\ UNCHANGED creq
       ELSE cpc' = "top" /\ creq' = NoRequest
    /\ UNCHANGED txVars
    /\ CmdFrame

AllowCommand ==
    /\ cpc = "allowed"
    /\ ~Refusable(creq)
    /\ cpc' = IF creq \in Dtmf THEN "dtmf" ELSE "send"
    /\ UNCHANGED <<creq, txVars, answers>>
    /\ CmdFrame

AllowDtmf ==
    /\ cpc = "dtmf"
    /\ cpc' = "send"
    /\ UNCHANGED <<creq, txVars, answers>>
    /\ CmdFrame

(* CompleteIdenticalRequests copies the queue and takes the commands of one *)
(* kind from it one by one, those of the kind or, when the handler does not *)
(* ask for it, none.  Others are queued meanwhile.                          *)
CopyQueued(kind) ==
    /\ copy' \in {{}, kind \cap QueuedRequests}
    /\ cpc' = IF copy' = {} THEN "top" ELSE "identical"

(* A tone that cannot be played is completed, with those queued behind it   *)
(* when the call is gone: starts and stops, copied here at once.            *)
RefuseDtmf ==
    /\ cpc = "dtmf"
    /\ Complete({creq})
    /\ creq' = NoRequest
    /\ CopyQueued(Dtmf)
    /\ UNCHANGED txVars
    /\ ThreadFrame

(* SendCommand ends with the one completion of its command; the handler of  *)
(* some commands gives their answer to the identical ones in the queue too. *)
SendCommand ==
    /\ cpc = "send"
    /\ Complete({creq})
    /\ creq' = NoRequest
    /\ CopyQueued(IF creq \in Identical THEN Identical ELSE {})
    /\ UNCHANGED txVars
    /\ ThreadFrame

FirstOfCopy(i) == txQueue[i] \in copy /\ \A j \in 1..(i - 1) : txQueue[j] \notin copy

(* Mutant: the identical commands are completed but stay in the queue.      *)
CompleteAndLeave ==
    /\ cpc = "identical"
    /\ \E i \in 1..Len(txQueue) :
           /\ FirstOfCopy(i)
           /\ Complete({txQueue[i]})
           /\ copy' = copy \ {txQueue[i]}
    /\ cpc' = IF copy' = {} THEN "top" ELSE "identical"
    /\ UNCHANGED <<creq, txVars>>
    /\ ThreadFrame

(* DequeueByObj, and the completion with the answer of the first.           *)
CompleteIdentical ==
    /\ cpc = "identical"
    /\ \E i \in 1..Len(txQueue) :
           /\ FirstOfCopy(i)
           /\ Complete({txQueue[i]})
           /\ copy' = copy \ {txQueue[i]}
           /\ txQueue' = SubSeq(txQueue, 1, i - 1) \o SubSeq(txQueue, i + 1, Len(txQueue))
    /\ cpc' = IF copy' = {} THEN "top" ELSE "identical"
    /\ UNCHANGED <<creq, txEvent>>
    /\ ThreadFrame
-----------------------------------------------------------------------------
(* The life cycle's steps, with what they do to the queue and the thread:   *)
(* StopChannelThreads joins the command thread, which leaves SendCommand    *)
(* within its 15 seconds; StartChannelThreads starts it; DeleteQueues       *)
(* deletes what is queued.                                                  *)

(* Mutant: the threads are not waited for.                                  *)
FollowLifeCycleUnjoined ==
    /\ ~dead
    /\ cpc' = IF ~threads /\ threads' THEN "top" ELSE cpc
    /\ IF queues /\ ~queues'
       THEN /\ lost' = lost \cup QueuedRequests
            /\ txQueue' = <<>>
            /\ txEvent' = FALSE
       ELSE UNCHANGED <<lost, txVars>>
    /\ UNCHANGED <<mainVars, creq, copy, answers, dead>>

FollowLifeCycle ==
    /\ ~dead
    /\ threads /\ ~threads' => cpc = "none"
    /\ cpc' = IF ~threads /\ threads' THEN "top" ELSE cpc
    /\ IF queues /\ ~queues'
       THEN /\ lost' = lost \cup QueuedRequests
            /\ txQueue' = <<>>
            /\ txEvent' = FALSE
       ELSE UNCHANGED <<lost, txVars>>
    /\ UNCHANGED <<mainVars, creq, copy, answers, dead>>

LifeCycle(A) == A /\ FollowLifeCycle

MainStep ==
    \/ RefuseRequest \/ AcceptRequest \/ CheckInitialized \/ EnqueueCommand
    \/ EnqueueNowhere \/ SignalTx

CommandStep ==
    \/ TestTxQueue \/ ResetTxEvent \/ TestTxQueueAgain \/ WakeOnCommand
    \/ WaitForever \/ WakeOnCancel \/ LookAtModem \/ ClearOne \/ QueueCleared
    \/ TakeCommand \/ RefuseCommand \/ AllowCommand \/ AllowDtmf \/ RefuseDtmf
    \/ SendCommand \/ CompleteIdentical

PathNext ==
    \/ LifeCycle(Next)
    \/ \E r \in Requests : OnRequest(r)
    \/ MainStep
    \/ CommandStep

PathSpec == PathInit /\ [][PathNext]_allVars

(* Every thread is scheduled while the process lives.                       *)
FairPathSpec ==
    /\ PathSpec
    /\ WF_allVars(LifeCycle(HandlerStep))
    /\ WF_allVars(LifeCycle(WorkerStep))
    /\ \A t \in Executors : WF_allVars(LifeCycle(NodeStep(t)))
    /\ \A t \in Callers :
           WF_allVars(rpc[t] # "out" /\ LifeCycle(RestartStep(t)))
    /\ WF_allVars(LifeCycle(RestartStep("worker")))
    /\ WF_allVars(MainStep)
    /\ WF_allVars(CommandStep)
-----------------------------------------------------------------------------
(* Properties.                                                              *)

PathTypeOK ==
    /\ mpc \in {"idle", "gate", "initialized", "enqueue", "signal"}
    /\ mreq \in Requests \cup {NoRequest}
    /\ txQueue \in Seq(Requests)
    /\ txEvent \in BOOLEAN
    /\ cpc \in {"none", "top", "reset", "test", "register", "wait", "modem",
                "clear", "take", "allowed", "dtmf", "send", "identical"}
    /\ creq \in Requests \cup {NoRequest}
    /\ copy \subseteq Requests
    /\ received \subseteq Requests
    /\ answers \in [Requests -> Nat]
    /\ lost \subseteq Requests
    /\ dead \in BOOLEAN

(* A request is answered at most once, and until then exactly one party     *)
(* holds it: the main thread, the queue (at one place), the command thread, *)
(* or the deleted queue.  Nothing else forgets a request, and none is sent  *)
(* or answered twice, whatever the modem does meanwhile.                    *)
OneHolder ==
    \A r \in Requests :
        LET places == {i \in 1..Len(txQueue) : txQueue[i] = r}
            held   == (IF mreq = r THEN 1 ELSE 0) + (IF creq = r THEN 1 ELSE 0)
                      + (IF places # {} THEN 1 ELSE 0) + (IF r \in lost THEN 1 ELSE 0)
        IN  /\ \A i, j \in places : i = j
            /\ answers[r] + held = IF r \in received THEN 1 ELSE 0

(* The command thread never sleeps over a command: with one in the queue,   *)
(* the event is signalled or about to be, although the thread itself resets *)
(* the event between its two tests of the queue.                            *)
NoCommandSleptOver ==
    cpc \in {"register", "wait"} /\ txQueue # <<>> => txEvent \/ mpc = "signal"

(* The command thread runs only while its queue and the cancel event exist: *)
(* neither is deleted under it by MODEM_UP, whatever events came before.    *)
ThreadHasQueue == cpc # "none" => queues /\ cancel # "none"

(* A command in the queue of a running command thread is completed, unless  *)
(* the modem leaves the up state.                                           *)
LiveQueueServed ==
    \A r \in Requests :
        r \in QueuedRequests /\ cpc # "none" ~>
            answers[r] > 0 \/ lastEvent # "UP" \/ dead

(* onRequest: a request "Must be completed with a call to                   *)
(* RIL_onRequestComplete()".                                                *)
EveryRequestCompleted == \A r \in Requests : r \in received ~> answers[r] > 0 \/ dead
=============================================================================
