----------------------------- MODULE AtChannel -----------------------------
(***************************************************************************)
(* One AT channel of the Rapid RIL (CChannel, CORE/ND/channel_nd.cpp): the  *)
(* command thread inside SendCommand, the response thread that reads the    *)
(* port, the Rx queue and its auto-reset event, the flag                    *)
(* m_bCmdThreadBlockedOnRxQueue that both threads write, the cancel event,  *)
(* and the modem at the other end of the port.                              *)
(*                                                                          *)
(* The threads interleave at the points where the code takes no lock: the   *)
(* response thread holds m_pResponseObjectAccessMutex from the test of the  *)
(* flag to the signal of the event, but only SendCommand takes that mutex   *)
(* on the other side.  Bytes are abstracted to whole lines: a line written  *)
(* is a command (phase 1 or 2), an ABORT or a PING, and an answer remembers  *)
(* the line it answers, which the code cannot see.                          *)
(***************************************************************************)
EXTENDS Naturals, Sequences, FiniteSets

CONSTANTS
    Cmds,          \* the commands the command thread takes from the Tx queue
    NoCmd,         \* no command
    Noops,         \* commands without a first AT string
    Abortable,     \* IsReqIDAbortable
    SpecialPing,   \* ReqIDSpecialPing: pinged on another channel, waited for
    InitCmds,      \* commands queued by SendModemConfigurationCommands
    SpoofAllowed,  \* IsRequestAllowedInSpoofState
    Retryable,     \* timeout at most the retry threshold: one retry
    Phase2OnOk,    \* second AT string, sent when the first one succeeds
    Phase2OnError, \* second AT string, sent when the first one fails
    IsPingChannel, \* this channel is RIL_CHANNEL_ATCMD
    PortErrors,    \* whether WriteToPort may fail
    MaxUrc         \* bound: unsolicited lines the modem sends

ASSUME AtChannelAssumption ==
    /\ NoCmd \notin Cmds
    /\ {Noops, Abortable, SpecialPing, InitCmds, SpoofAllowed, Retryable,
        Phase2OnOk, Phase2OnError} \subseteq SUBSET Cmds
    /\ SpecialPing \cap Abortable = {}
    /\ IsPingChannel \in BOOLEAN /\ PortErrors \in BOOLEAN
    /\ MaxUrc \in Nat

VARIABLES
    todo,      \* commands not yet handed to SendCommand
    cmd,       \* rpCmd of the running SendCommand, NoCmd outside it
    pc,        \* where the command thread is
    stage,     \* which ReadQueue call it is in
    waiting,   \* inside WaitForResponse
    retries,   \* numRetries
    resp,      \* pResponse, kept from one attempt to the next
    result,    \* what each command was completed with, NullResp until then
    completed, \* how often each command was completed
    blocked,   \* m_bCmdThreadBlockedOnRxQueue
    rxQueue,   \* g_pRxQueue of the channel
    rxEvent,   \* g_RxQueueEvent of the channel, an auto-reset event
    cancel,    \* the manual-reset cancel event of CSystemManager
    cleanUp,   \* a modem clean-up was requested (DO_REQUEST_CLEAN_UP)
    rt,        \* where the response thread is
    rdBuf,     \* the line the response thread has read
    toModem,   \* lines written to the port, not yet seen by the modem
    fromModem, \* lines sent by the modem, not yet read
    urcs,      \* unsolicited lines sent so far
    written,   \* history: how often each command's first string was written
    abandoned, \* history: lines whose answer was given up on
    ignored    \* history: the modem swallowed a line without an answer

cmdVars   == <<todo, cmd, pc, stage, waiting, retries, resp, result, completed>>
rxVars    == <<blocked, rxQueue, rxEvent>>
rtVars    == <<rt, rdBuf>>
modemVars == <<toModem, fromModem, urcs, ignored>>
histVars  == <<written, abandoned>>
vars == <<cmdVars, rxVars, cancel, cleanUp, rtVars, modemVars, histVars>>

LineKind == {"cmd1", "cmd2", "abort", "ping"}
Line     == [cmd : Cmds, line : LineKind]
Response == [kind : {"null", "timedout", "answer", "urc"},
             cmd : Cmds \cup {NoCmd}, line : LineKind, ok : BOOLEAN]

NullResp     == [kind |-> "null", cmd |-> NoCmd, line |-> "cmd1", ok |-> FALSE]
TimedOutResp == [kind |-> "timedout", cmd |-> NoCmd, line |-> "cmd1", ok |-> FALSE]
UrcResp      == [kind |-> "urc", cmd |-> NoCmd, line |-> "cmd1", ok |-> TRUE]
Answer(l, ok) == [kind |-> "answer", cmd |-> l.cmd, line |-> l.line, ok |-> ok]

(* The stages of ReadQueue, in the order of its tests.                      *)
Reading  == {"check", "register", "wait", "dequeue", "reset"}
CmdPc    == {"idle", "admitted", "send", "write", "set2", "write2", "abort", "pingSet",
             "pingFlush", "pingWrite", "otherPing", "waitSet", "gotResponse",
             "gotReset", "finish"} \cup Reading

(* CSystemManager::IsInitializationSuccessful: a clean-up request and the   *)
(* closing of the ports both withdraw it.                                   *)
IsInitializationSuccessful == ~cleanUp /\ ~cancel

Init ==
    /\ todo = Cmds
    /\ cmd = NoCmd
    /\ pc = "idle"
    /\ stage = "cmd1"
    /\ waiting = FALSE
    /\ retries = 0
    /\ resp = NullResp
    /\ result = [c \in Cmds |-> NullResp]
    /\ completed = [c \in Cmds |-> 0]
    /\ blocked = FALSE
    /\ rxQueue = <<>>
    /\ rxEvent = FALSE
    /\ cancel = FALSE
    /\ cleanUp = FALSE
    /\ rt = "read"
    /\ rdBuf = NullResp
    /\ toModem = <<>>
    /\ fromModem = <<>>
    /\ urcs = 0
    /\ written = [c \in Cmds |-> 0]
    /\ abandoned = {}
    /\ ignored = FALSE
-----------------------------------------------------------------------------
(* The command thread: SendCommand.                                         *)

MutexFree == rt \in {"read", "have"}

(* CommandThread: the modem is up and IsRequestAllowed lets the command      *)
(* through.  Both are asked once, before SendCommand.                       *)
IsRequestAllowed(c) == ~cancel /\ (cleanUp => c \in SpoofAllowed)

Admit(c) ==
    /\ pc = "idle"
    /\ c \in todo
    /\ IsRequestAllowed(c)
    /\ todo' = todo \ {c}
    /\ cmd' = c
    /\ pc' = "admitted"
    /\ UNCHANGED <<stage, waiting, retries, resp, result, completed, rxVars, cancel,
                   cleanUp, rtVars, modemVars, histVars>>

(* A command without a first AT string goes straight to its completion.     *)
Begin ==
    /\ pc = "admitted"
    /\ resp' = NullResp
    /\ retries' = IF cmd \in Retryable THEN 1 ELSE 0
    /\ waiting' = FALSE
    /\ pc' = IF cmd \in Noops THEN "finish" ELSE "send"
    /\ UNCHANGED <<todo, cmd, stage, result, completed, rxVars, cancel, cleanUp,
                   rtVars, modemVars, histVars>>

(* Raise the flag and empty the Rx queue, under the response mutex.         *)
PrepareSend ==
    /\ pc = "send"
    /\ MutexFree
    /\ blocked' = TRUE
    /\ rxQueue' = <<>>
    /\ pc' = "write"
    /\ UNCHANGED <<todo, cmd, stage, waiting, retries, resp, result, completed,
                   rxEvent, cancel, cleanUp, rtVars, modemVars, histVars>>

(* WriteToPort: the line reaches the port, or the write fails.              *)
Write(l) == toModem' = Append(toModem, [cmd |-> cmd, line |-> l])

WriteFails == PortErrors /\ UNCHANGED toModem

(* A failed write of the first string requests a clean-up and goes on.      *)
WriteCommand ==
    /\ pc = "write"
    /\ \/ Write("cmd1") /\ UNCHANGED cleanUp
       \/ WriteFails /\ cleanUp' = TRUE
    /\ written' = [written EXCEPT ![cmd] = @ + 1]
    /\ pc' = "check"
    /\ stage' = "cmd1"
    /\ UNCHANGED <<todo, cmd, waiting, retries, resp, result, completed, rxVars,
                   cancel, rtVars, fromModem, urcs, ignored, abandoned>>
-----------------------------------------------------------------------------
(* ReadQueue: read the Rx queue, waiting for its event when it is empty.    *)
(* Its outcome is dispatched to the caller the stage stands for.            *)

SendsPhase2(r) == \/ cmd \in Phase2OnOk /\ r.ok
                  \/ cmd \in Phase2OnError /\ ~r.ok

(* HandleTimeout starts with ABORT, PING or a PING on another channel.      *)
StartTimeout == IF cmd \in Abortable THEN "abort"
                ELSE IF cmd \in SpecialPing THEN "otherPing" ELSE "pingSet"

(* GetResponse: a failed read leaves rpResponse as the attempt found it, so *)
(* a timed-out response of an earlier attempt is taken for a new timeout.   *)
ReadResponse(outcome, r) ==
    IF outcome = "timeout" THEN TimedOutResp
    ELSE IF outcome = "failed" THEN resp ELSE r

CommandRead(outcome, r) ==
    /\ resp' = ReadResponse(outcome, r)
    /\ pc' = IF resp'.kind = "timedout" THEN StartTimeout
             ELSE IF outcome = "read" /\ stage = "cmd1" /\ SendsPhase2(r)
             THEN "set2" ELSE "gotResponse"
    /\ UNCHANGED cleanUp

(* HandleTimeout goes on to the PING when the ABORT is answered or times    *)
(* out; a failed read is fatal.                                             *)
AbortRead(outcome) ==
    /\ pc' = IF outcome = "failed" THEN "gotReset" ELSE "pingSet"
    /\ cleanUp' = (cleanUp \/ outcome = "failed")
    /\ UNCHANGED resp

(* Only an answer to the PING shows that the modem is alive.                *)
PingRead(outcome) ==
    /\ pc' = IF outcome = "read" THEN "gotResponse" ELSE "gotReset"
    /\ cleanUp' = (cleanUp \/ outcome # "read")
    /\ UNCHANGED resp

ReadReturns(outcome, r) ==
    \/ stage \in {"cmd1", "cmd2"} /\ CommandRead(outcome, r)
    \/ stage = "abort" /\ AbortRead(outcome)
    \/ stage = "ping" /\ PingRead(outcome)

(* The queue is looked at first: an answer already there is read at once.   *)
CheckQueue ==
    /\ pc = "check"
    /\ pc' = IF rxQueue = <<>> THEN "register" ELSE "dequeue"
    /\ UNCHANGED <<todo, cmd, stage, waiting, retries, resp, result, completed,
                   rxVars, cancel, cleanUp, rtVars, modemVars, histVars>>

(* WaitForAnyEvent finds the Rx event signalled, when it registers or later, *)
(* and resets it.                                                           *)
WakeOnEvent ==
    /\ pc \in {"register", "wait"}
    /\ rxEvent
    /\ rxEvent' = FALSE
    /\ pc' = "dequeue"
    /\ UNCHANGED <<todo, cmd, stage, waiting, retries, resp, result, completed,
                   blocked, rxQueue, cancel, cleanUp, rtVars, modemVars, histVars>>

Sleep ==
    /\ pc = "register"
    /\ ~rxEvent /\ ~cancel
    /\ pc' = "wait"
    /\ UNCHANGED <<todo, cmd, stage, waiting, retries, resp, result, completed,
                   rxVars, cancel, cleanUp, rtVars, modemVars, histVars>>

GiveUp == abandoned' = abandoned \cup {[cmd |-> cmd, line |-> stage]}

(* The cancel event: the Rx event comes first when both are found at        *)
(* registration.                                                            *)
WakeOnCancel ==
    /\ \/ pc = "register" /\ ~rxEvent
       \/ pc = "wait"
    /\ cancel
    /\ ReadReturns("failed", NullResp)
    /\ GiveUp
    /\ UNCHANGED <<todo, cmd, stage, waiting, retries, result, completed,
                   rxVars, cancel, rtVars, modemVars, written>>

(* Mutant: ABORT and PING are waited for forever.                           *)
WaitTimesOutForCommandOnly ==
    /\ pc = "wait" /\ stage \in {"cmd1", "cmd2"}
    /\ ReadReturns("timeout", NullResp)
    /\ GiveUp
    /\ UNCHANGED <<todo, cmd, stage, waiting, retries, result, completed,
                   rxVars, cancel, rtVars, modemVars, written>>

(* The wait ends with ETIMEDOUT even when the event is signalled before the *)
(* thread has the mutex again: the event then stays signalled.              *)
WaitTimesOut ==
    /\ pc = "wait"
    /\ ReadReturns("timeout", NullResp)
    /\ GiveUp
    /\ UNCHANGED <<todo, cmd, stage, waiting, retries, result, completed,
                   rxVars, cancel, rtVars, modemVars, written>>

(* Dequeue fails on an empty queue, and the read with it.                   *)
DequeueFails ==
    /\ pc = "dequeue"
    /\ rxQueue = <<>>
    /\ ReadReturns("failed", NullResp)
    /\ GiveUp
    /\ UNCHANGED <<todo, cmd, stage, waiting, retries, result, completed,
                   rxVars, cancel, rtVars, modemVars, written>>

(* Dequeue takes the front response.  The temporary response of ABORT and   *)
(* PING is thrown away, that of a command is kept.                          *)
Dequeue ==
    /\ pc = "dequeue"
    /\ rxQueue # <<>>
    /\ rxQueue' = Tail(rxQueue)
    /\ resp' = IF stage \in {"cmd1", "cmd2"} THEN Head(rxQueue) ELSE resp
    /\ pc' = "reset"
    /\ UNCHANGED <<todo, cmd, stage, waiting, retries, result, completed, blocked,
                   rxEvent, cancel, cleanUp, rtVars, modemVars, histVars>>

(* A successful read resets the event, whoever signalled it meanwhile.      *)
ResetEvent ==
    /\ pc = "reset"
    /\ rxEvent' = FALSE
    /\ ReadReturns("read", resp)
    /\ UNCHANGED <<todo, cmd, stage, waiting, retries, result, completed, blocked,
                   rxQueue, cancel, rtVars, modemVars, histVars>>
-----------------------------------------------------------------------------
(* GetResponse, second phase: no mutex, and the queue is not emptied.       *)

SetForPhase2 ==
    /\ pc = "set2"
    /\ blocked' = TRUE
    /\ pc' = "write2"
    /\ UNCHANGED <<todo, cmd, stage, waiting, retries, resp, result, completed,
                   rxQueue, rxEvent, cancel, cleanUp, rtVars, modemVars, histVars>>

WritePhase2 ==
    /\ pc = "write2"
    /\ Write("cmd2") \/ WriteFails
    /\ resp' = NullResp
    /\ stage' = "cmd2"
    /\ pc' = "check"
    /\ UNCHANGED <<todo, cmd, waiting, retries, result, completed, rxVars, cancel,
                   cleanUp, rtVars, fromModem, urcs, ignored, histVars>>
-----------------------------------------------------------------------------
(* HandleTimeout.                                                           *)

WriteAbort ==
    /\ pc = "abort"
    /\ Write("abort") \/ WriteFails
    /\ stage' = "abort"
    /\ pc' = "check"
    /\ UNCHANGED <<todo, cmd, waiting, retries, resp, result, completed, rxVars,
                   cancel, cleanUp, rtVars, fromModem, urcs, ignored, histVars>>

SetForPing ==
    /\ pc = "pingSet"
    /\ blocked' = TRUE
    /\ pc' = "pingFlush"
    /\ UNCHANGED <<todo, cmd, stage, waiting, retries, resp, result, completed,
                   rxQueue, rxEvent, cancel, cleanUp, rtVars, modemVars, histVars>>

(* The queue is emptied, its event is not reset.                            *)
FlushForPing ==
    /\ pc = "pingFlush"
    /\ rxQueue' = <<>>
    /\ pc' = "pingWrite"
    /\ UNCHANGED <<todo, cmd, stage, waiting, retries, resp, result, completed,
                   blocked, rxEvent, cancel, cleanUp, rtVars, modemVars, histVars>>

WritePing ==
    /\ pc = "pingWrite"
    /\ Write("ping") \/ WriteFails
    /\ stage' = "ping"
    /\ pc' = "check"
    /\ UNCHANGED <<todo, cmd, waiting, retries, resp, result, completed, rxVars,
                   cancel, cleanUp, rtVars, fromModem, urcs, ignored, histVars>>

(* A command that must not be abandoned is pinged on RIL_CHANNEL_ATCMD; the *)
(* ping cannot be queued from that channel itself, nor when the system is   *)
(* not initialised.                                                         *)
PingOtherChannel ==
    /\ pc = "otherPing"
    /\ IF ~IsPingChannel /\ IsInitializationSuccessful
       THEN pc' = "gotResponse" /\ UNCHANGED cleanUp
       ELSE pc' = "gotReset" /\ cleanUp' = TRUE
    /\ UNCHANGED <<todo, cmd, stage, waiting, retries, resp, result, completed,
                   rxVars, cancel, rtVars, modemVars, histVars>>
-----------------------------------------------------------------------------
(* SendCommand after GetResponse: the flag is lowered, then the response    *)
(* decides.  "gotReset" is the result RRIL_E_MODEM_RESET.                   *)

(* Mutant: the flag is left up after GetResponse.                           *)
GetResponseReturnedFlagUp(next) ==
    /\ pc' = next
    /\ UNCHANGED <<todo, cmd, stage, resp, result, completed, rxVars,
                   cancel, rtVars, modemVars, histVars>>

GetResponseReturned(next) ==
    /\ blocked' = FALSE
    /\ pc' = next
    /\ UNCHANGED <<todo, cmd, stage, resp, result, completed, rxQueue, rxEvent,
                   cancel, rtVars, modemVars, histVars>>

(* An answer, or none at all, ends the attempt.                             *)
AttemptEnds ==
    /\ pc \in {"gotResponse", "gotReset"}
    /\ resp.kind # "timedout" \/ (pc = "gotReset" /\ ~waiting)
    /\ GetResponseReturned("finish")
    /\ UNCHANGED <<waiting, retries, cleanUp>>

(* A special command waits on, whatever GetResponse returned in the loop of *)
(* WaitForResponse.                                                         *)
WaitOn ==
    /\ pc \in {"gotResponse", "gotReset"}
    /\ resp.kind = "timedout"
    /\ waiting \/ (pc = "gotResponse" /\ cmd \in SpecialPing)
    /\ GetResponseReturned("waitSet")
    /\ waiting' = TRUE
    /\ UNCHANGED <<retries, cleanUp>>

(* Mutant: one attempt more than numRetries allows.                         *)
RetryOnceMore ==
    /\ pc = "gotResponse"
    /\ resp.kind = "timedout"
    /\ ~waiting /\ cmd \notin SpecialPing
    /\ GetResponseReturned("send")
    /\ retries' = retries - 1
    /\ UNCHANGED <<waiting, cleanUp>>

Retry ==
    /\ pc = "gotResponse"
    /\ resp.kind = "timedout"
    /\ ~waiting /\ cmd \notin SpecialPing
    /\ retries > 0
    /\ GetResponseReturned("send")
    /\ retries' = retries - 1
    /\ UNCHANGED <<waiting, cleanUp>>

(* The last attempt of an init command that times out resets the modem.     *)
NoRetryLeft ==
    /\ pc = "gotResponse"
    /\ resp.kind = "timedout"
    /\ ~waiting /\ cmd \notin SpecialPing
    /\ retries = 0
    /\ GetResponseReturned("finish")
    /\ cleanUp' = (cleanUp \/ cmd \in InitCmds)
    /\ UNCHANGED <<waiting, retries>>

(* WaitForResponse raises the flag again and reads, writing nothing.        *)
WaitForResponse ==
    /\ pc = "waitSet"
    /\ blocked' = TRUE
    /\ stage' = "cmd1"
    /\ pc' = "check"
    /\ UNCHANGED <<todo, cmd, waiting, retries, resp, result, completed, rxQueue,
                   rxEvent, cancel, cleanUp, rtVars, modemVars, histVars>>

(* Mutant: without a response SendCommand returns before the completion.    *)
FinishWithResponse ==
    /\ pc = "finish"
    /\ result' = [result EXCEPT ![cmd] = resp]
    /\ completed' = [completed EXCEPT ![cmd] = IF resp.kind = "null" THEN @ ELSE @ + 1]
    /\ cmd' = NoCmd
    /\ pc' = "idle"
    /\ waiting' = FALSE
    /\ UNCHANGED <<todo, stage, retries, resp, rxVars, cancel, cleanUp, rtVars,
                   modemVars, histVars>>

(* The post-command handler, or the plain completion, is called once with   *)
(* what the response holds.                                                 *)
Finish ==
    /\ pc = "finish"
    /\ result' = [result EXCEPT ![cmd] = resp]
    /\ completed' = [completed EXCEPT ![cmd] = @ + 1]
    /\ cmd' = NoCmd
    /\ pc' = "idle"
    /\ waiting' = FALSE
    /\ UNCHANGED <<todo, stage, retries, resp, rxVars, cancel, cleanUp, rtVars,
                   modemVars, histVars>>
-----------------------------------------------------------------------------
(* The response thread: ResponseThread, ProcessModemData, ProcessResponse.  *)

ReadFromPort ==
    /\ rt = "read"
    /\ fromModem # <<>>
    /\ rdBuf' = Head(fromModem)
    /\ fromModem' = Tail(fromModem)
    /\ rt' = "have"
    /\ UNCHANGED <<cmdVars, rxVars, cancel, cleanUp, toModem, urcs, ignored, histVars>>

(* Mutant: an unsolicited line is taken for the answer.                     *)
ClaimAnyLine ==
    /\ rt = "have"
    /\ blocked
    /\ blocked' = FALSE
    /\ rt' = "claimed"
    /\ UNCHANGED <<cmdVars, rxQueue, rxEvent, cancel, cleanUp, rdBuf, modemVars,
                   histVars>>

(* Mutant: the flag stays up when an answer is claimed.                     *)
ClaimFlagUp ==
    /\ rt = "have"
    /\ rdBuf.kind = "answer" /\ blocked
    /\ rt' = "claimed"
    /\ UNCHANGED <<cmdVars, rxVars, cancel, cleanUp, rdBuf, modemVars, histVars>>

(* An answer is claimed when the flag says that the command thread waits,   *)
(* and the flag is lowered.                                                 *)
ClaimResponse ==
    /\ rt = "have"
    /\ rdBuf.kind = "answer" /\ blocked
    /\ blocked' = FALSE
    /\ rt' = "claimed"
    /\ UNCHANGED <<cmdVars, rxQueue, rxEvent, cancel, cleanUp, rdBuf, modemVars,
                   histVars>>

(* An unsolicited line goes to the framework; an answer nobody waits for is *)
(* dropped.                                                                 *)
PassOver ==
    /\ rt = "have"
    /\ rdBuf.kind = "answer" => ~blocked
    /\ rdBuf' = NullResp
    /\ rt' = "read"
    /\ UNCHANGED <<cmdVars, rxVars, cancel, cleanUp, modemVars, histVars>>

EnqueueResponse ==
    /\ rt = "claimed"
    /\ rxQueue' = Append(rxQueue, rdBuf)
    /\ rdBuf' = NullResp
    /\ rt' = "queued"
    /\ UNCHANGED <<cmdVars, blocked, rxEvent, cancel, cleanUp, modemVars, histVars>>

(* Mutant: the event is reset right after it is signalled.                  *)
SignalAndReset ==
    /\ rt = "queued"
    /\ rxEvent' = FALSE
    /\ rt' = "read"
    /\ UNCHANGED <<cmdVars, blocked, rxQueue, cancel, cleanUp, rdBuf, modemVars,
                   histVars>>

SignalResponse ==
    /\ rt = "queued"
    /\ rxEvent' = TRUE
    /\ rt' = "read"
    /\ UNCHANGED <<cmdVars, blocked, rxQueue, cancel, cleanUp, rdBuf, modemVars,
                   histVars>>
-----------------------------------------------------------------------------
(* The modem and the rest of the RIL.                                       *)

(* The modem answers the lines in order, or swallows one.                   *)
ModemAnswers ==
    /\ toModem # <<>>
    /\ \E ok \in BOOLEAN :
           fromModem' = Append(fromModem, Answer(Head(toModem), ok))
    /\ toModem' = Tail(toModem)
    /\ UNCHANGED <<cmdVars, rxVars, cancel, cleanUp, rtVars, urcs, ignored, histVars>>

ModemIgnores ==
    /\ toModem # <<>>
    /\ toModem' = Tail(toModem)
    /\ ignored' = TRUE
    /\ UNCHANGED <<cmdVars, rxVars, cancel, cleanUp, rtVars, fromModem, urcs, histVars>>

ModemNotifies ==
    /\ urcs < MaxUrc
    /\ urcs' = urcs + 1
    /\ fromModem' = Append(fromModem, UrcResp)
    /\ UNCHANGED <<cmdVars, rxVars, cancel, cleanUp, rtVars, toModem, ignored, histVars>>

(* CloseChannelPorts signals the cancel event.                              *)
CloseChannelPorts ==
    /\ ~cancel
    /\ cancel' = TRUE
    /\ UNCHANGED <<cmdVars, rxVars, cleanUp, rtVars, modemVars, histVars>>
-----------------------------------------------------------------------------
SendCommandStep ==
    \/ Begin \/ PrepareSend \/ WriteCommand
    \/ CheckQueue \/ WakeOnEvent \/ Sleep \/ WakeOnCancel \/ WaitTimesOut
    \/ DequeueFails \/ Dequeue \/ ResetEvent
    \/ SetForPhase2 \/ WritePhase2
    \/ WriteAbort \/ SetForPing \/ FlushForPing \/ WritePing \/ PingOtherChannel
    \/ AttemptEnds \/ WaitOn \/ Retry \/ NoRetryLeft \/ WaitForResponse
    \/ Finish

ResponseThreadStep ==
    ReadFromPort \/ ClaimResponse \/ PassOver \/ EnqueueResponse \/ SignalResponse

ModemStep == ModemAnswers \/ ModemIgnores \/ ModemNotifies

Next ==
    \/ \E c \in Cmds : Admit(c)
    \/ SendCommandStep
    \/ ResponseThreadStep
    \/ ModemStep
    \/ CloseChannelPorts

Spec == Init /\ [][Next]_vars

(* Both threads are scheduled, and a timed wait ends.                       *)
FairSpec == Spec /\ WF_vars(SendCommandStep) /\ WF_vars(ResponseThreadStep)
-----------------------------------------------------------------------------
(* Properties.                                                              *)

TypeOK ==
    /\ todo \subseteq Cmds
    /\ cmd \in Cmds \cup {NoCmd}
    /\ pc \in CmdPc
    /\ stage \in LineKind
    /\ waiting \in BOOLEAN
    /\ retries \in 0..1
    /\ resp \in Response
    /\ result \in [Cmds -> Response]
    /\ completed \in [Cmds -> Nat]
    /\ blocked \in BOOLEAN
    /\ rxQueue \in Seq(Response)
    /\ rxEvent \in BOOLEAN
    /\ cancel \in BOOLEAN
    /\ cleanUp \in BOOLEAN
    /\ rt \in {"read", "have", "claimed", "queued"}
    /\ rdBuf \in Response
    /\ toModem \in Seq(Line)
    /\ fromModem \in Seq(Response)
    /\ urcs \in 0..MaxUrc
    /\ written \in [Cmds -> Nat]
    /\ abandoned \in SUBSET Line
    /\ ignored \in BOOLEAN

(* Every command handed to SendCommand is completed exactly once, on        *)
(* whichever path it leaves (answer, timeout, failed read, cancel, clean-up): *)
(* the token of a request is neither leaked nor completed twice.            *)
CompletedExactlyOnce ==
    \A c \in Cmds : completed[c] = IF c \in todo \/ c = cmd THEN 0 ELSE 1

(* A response in the Rx queue is never slept through: when the command      *)
(* thread is about to wait or waits with a response in the queue, the event *)
(* is signalled or the response thread is about to signal it, although the  *)
(* thread resets the event after the responses it reads.                    *)
NoLostWakeup ==
    pc \in {"register", "wait"} /\ rxQueue # <<>> => rxEvent \/ rt = "queued"

(* Outside an exchange the flag is down, so that a late answer is dropped   *)
(* and not kept for the next command.                                       *)
LateAnswerDropped == pc \in {"idle", "admitted", "finish", "send"} => ~blocked

(* As long as no read was given up, every command is completed with the     *)
(* modem's answer to its own last line, never with an unsolicited line or   *)
(* with the answer to another line.                                         *)
OwnAnswer ==
    abandoned = {} =>
        \A c \in Cmds \ Noops :
            completed[c] > 0 =>
                /\ result[c].kind = "answer" /\ result[c].cmd = c
                /\ result[c].line = "cmd1" =>
                      c \notin (IF result[c].ok THEN Phase2OnOk ELSE Phase2OnError)

(* Late answers do not pile up in the Rx queue, however many reads were     *)
(* given up: a PING adds one response to that of the command, and so does   *)
(* the flag that WaitForResponse raises without emptying the queue.         *)
RxQueueBounded == Len(rxQueue) <= IF SpecialPing = {} THEN 2 ELSE 3

(* Every command ends, except those the code waits for indefinitely: no     *)
(* exchange waits forever, whatever the modem does and whenever the ports   *)
(* are closed.                                                              *)
EveryCommandEnds == \A c \in Cmds \ SpecialPing : cmd = c ~> cmd # c

(* The channel implements the service: a command is taken once, written at  *)
(* most as often as its retries allow, and completed once.                  *)
Service == INSTANCE ChannelService WITH
    offered  <- todo,
    serving  <- cmd,
    attempts <- written,
    outcome  <- [c \in Cmds |->
                    IF completed[c] = 0 THEN "none"
                    ELSE IF result[c].kind = "answer" THEN "answered" ELSE "failed"]

ImplementsService == Service!ServiceSpec
=============================================================================
