-------------------------- MODULE AtChannelProofs --------------------------
(***************************************************************************)
(* Proofs about AtChannel, for every set of commands and every              *)
(* classification of them.                                                  *)
(***************************************************************************)
EXTENDS AtChannel, SequenceTheorems, TLAPS

(* The command of SendCommand is set exactly while the command thread is in *)
(* it, and it has been taken from the commands offered.                     *)
CmdInv ==
    /\ pc = "idle" <=> cmd = NoCmd
    /\ cmd \notin todo

TypeInv == TypeOK /\ CmdInv

USE AtChannelAssumption

-----------------------------------------------------------------------------
(* What ReadQueue returns to its caller keeps the types, and leaves the     *)
(* command thread inside SendCommand and past its first write.              *)
AfterRead == {"set2", "abort", "otherPing", "pingSet", "gotResponse", "gotReset"}

LEMMA ReadReturnsType ==
    ASSUME TypeOK,
           NEW o \in {"timeout", "failed", "read"},
           NEW r \in Response,
           ReadReturns(o, r)
    PROVE  /\ resp' \in Response
           /\ pc' \in AfterRead
           /\ cleanUp' \in BOOLEAN
<1>1. CASE stage \in {"cmd1", "cmd2"}
  <2>1. CommandRead(o, r)
    BY <1>1 DEF ReadReturns
  <2>2. ReadResponse(o, r) \in Response
    BY DEF ReadResponse, TimedOutResp, Response, LineKind, TypeOK
  <2>3. resp' \in Response /\ UNCHANGED cleanUp
    BY <2>1, <2>2 DEF CommandRead
  <2>4. pc' \in AfterRead
    BY <2>1 DEF CommandRead, StartTimeout, AfterRead
  <2> QED BY <2>3, <2>4 DEF TypeOK
<1>2. CASE stage = "abort"
  BY <1>2 DEF ReadReturns, AbortRead, AfterRead, TypeOK
<1>3. CASE stage = "ping"
  BY <1>3 DEF ReadReturns, PingRead, AfterRead, TypeOK
<1> QED BY <1>1, <1>2, <1>3 DEF TypeOK, LineKind

(* Every way out of ReadQueue.                                              *)
LEMMA ReadEnds ==
    ASSUME TypeInv,
           WakeOnCancel \/ WaitTimesOut \/ DequeueFails \/ ResetEvent
    PROVE  /\ resp' \in Response
           /\ pc' \in AfterRead
           /\ cleanUp' \in BOOLEAN
<1>1. TypeOK /\ NullResp \in Response /\ resp \in Response
  BY DEF TypeInv, TypeOK, NullResp, Response, LineKind
<1>2. CASE ReadReturns("failed", NullResp)
  BY <1>1, <1>2, ReadReturnsType
<1>3. CASE ReadReturns("timeout", NullResp)
  BY <1>1, <1>3, ReadReturnsType
<1>4. CASE ReadReturns("read", resp)
  BY <1>1, <1>4, ReadReturnsType
<1> QED
  BY <1>2, <1>3, <1>4 DEF WakeOnCancel, WaitTimesOut, DequeueFails, ResetEvent

(* A line written to the port is well formed, and so is the pipe after it.  *)
LEMMA WriteType ==
    ASSUME TypeOK, CmdInv, pc # "idle",
           NEW l \in LineKind,
           Write(l) \/ WriteFails
    PROVE  toModem' \in Seq(Line)
<1>1. [cmd |-> cmd, line |-> l] \in Line
  BY DEF Line, TypeOK, CmdInv
<1>2. toModem \in Seq(Line)
  BY DEF TypeOK
<1>3. CASE Write(l)
  BY <1>1, <1>2, <1>3, AppendProperties DEF Write
<1>4. CASE WriteFails
  BY <1>2, <1>4 DEF WriteFails
<1> QED BY <1>3, <1>4

(* Type correctness of the channel, and the command SendCommand works on:   *)
(* every reachable state is well formed.                                    *)
THEOREM TypeCorrect == Spec => [](TypeOK /\ CmdInv)
<1>1. Init => TypeInv
  <2> SUFFICES ASSUME Init PROVE TypeInv
    OBVIOUS
  <2>1. NullResp \in Response /\ "cmd1" \in LineKind /\ "idle" \in CmdPc
    BY DEF NullResp, Response, LineKind, CmdPc
  <2>2. <<>> \in Seq(Response) /\ <<>> \in Seq(Line)
    OBVIOUS
  <2>3. /\ result \in [Cmds -> Response] /\ completed \in [Cmds -> Nat]
        /\ written \in [Cmds -> Nat] /\ abandoned \in SUBSET Line
    BY <2>1 DEF Init
  <2>4. rt \in {"read", "have", "claimed", "queued"} /\ urcs \in 0..MaxUrc
    BY DEF Init
  <2>5. /\ todo \subseteq Cmds /\ cmd \in Cmds \cup {NoCmd} /\ pc \in CmdPc
        /\ stage \in LineKind /\ waiting \in BOOLEAN
        /\ resp \in Response /\ rdBuf \in Response
    BY <2>1 DEF Init
  <2>8. retries \in 0..1
    BY DEF Init
  <2>9. /\ rxQueue \in Seq(Response) /\ toModem \in Seq(Line)
        /\ fromModem \in Seq(Response)
    BY <2>2 DEF Init
  <2>6. /\ blocked \in BOOLEAN /\ rxEvent \in BOOLEAN /\ cancel \in BOOLEAN
        /\ cleanUp \in BOOLEAN /\ ignored \in BOOLEAN
    BY DEF Init
  <2>7. CmdInv
    BY DEF Init, CmdInv
  <2> QED BY <2>3, <2>4, <2>5, <2>6, <2>7, <2>8, <2>9
    DEF TypeInv, TypeOK
<1>2. TypeInv /\ [Next]_vars => TypeInv'
  <2> SUFFICES ASSUME TypeInv, [Next]_vars PROVE TypeInv'
    OBVIOUS
  <2> USE DEF TypeInv, TypeOK, CmdInv, CmdPc, Reading,
              cmdVars, rxVars, rtVars, modemVars, histVars
  <2>1. ASSUME NEW c \in Cmds, Admit(c) PROVE TypeInv'
    BY <2>1 DEF Admit
  <2>2. CASE Begin
    <3>1. resp' \in Response
      BY <2>2 DEF Begin, NullResp, Response, LineKind
    <3>2. retries' \in 0..1 /\ pc' \in {"finish", "send"} /\ waiting' = FALSE
      BY <2>2 DEF Begin
    <3> QED BY <2>2, <3>1, <3>2 DEF Begin
  <2>3. CASE PrepareSend
    BY <2>3 DEF PrepareSend
  <2>4. CASE WriteCommand
    <3>1. toModem' \in Seq(Line) /\ "cmd1" \in LineKind
      BY <2>4, WriteType DEF WriteCommand, LineKind
    <3>2. written' \in [Cmds -> Nat] /\ cleanUp' \in BOOLEAN
      <4>1. cmd \in Cmds /\ written \in [Cmds -> Nat]
        BY <2>4 DEF WriteCommand
      <4>2. written' \in [Cmds -> Nat]
        BY <2>4, <4>1 DEF WriteCommand
      <4> QED BY <2>4, <4>2 DEF WriteCommand
    <3> QED BY <2>4, <3>1, <3>2 DEF WriteCommand
  <2>5. CASE CheckQueue
    BY <2>5 DEF CheckQueue
  <2>6. CASE WakeOnEvent
    BY <2>6 DEF WakeOnEvent
  <2>7. CASE Sleep
    BY <2>7 DEF Sleep
  <2>8. CASE WakeOnCancel
    <3>1. resp' \in Response /\ pc' \in AfterRead /\ cleanUp' \in BOOLEAN
      BY <2>8, ReadEnds
    <3>2. abandoned' \in SUBSET Line
      BY <2>8 DEF WakeOnCancel, GiveUp, Line
    <3> QED BY <2>8, <3>1, <3>2 DEF WakeOnCancel, AfterRead
  <2>9. CASE WaitTimesOut
    <3>1. resp' \in Response /\ pc' \in AfterRead /\ cleanUp' \in BOOLEAN
      BY <2>9, ReadEnds
    <3>2. abandoned' \in SUBSET Line
      BY <2>9 DEF WaitTimesOut, GiveUp, Line
    <3> QED BY <2>9, <3>1, <3>2 DEF WaitTimesOut, AfterRead
  <2>10. CASE DequeueFails
    <3>1. resp' \in Response /\ pc' \in AfterRead /\ cleanUp' \in BOOLEAN
      BY <2>10, ReadEnds
    <3>2. abandoned' \in SUBSET Line
      BY <2>10 DEF DequeueFails, GiveUp, Line
    <3> QED BY <2>10, <3>1, <3>2 DEF DequeueFails, AfterRead
  <2>11. CASE Dequeue
    BY <2>11 DEF Dequeue
  <2>12. CASE ResetEvent
    <3>1. resp' \in Response /\ pc' \in AfterRead /\ cleanUp' \in BOOLEAN
      BY <2>12, ReadEnds
    <3> QED BY <2>12, <3>1 DEF ResetEvent, AfterRead
  <2>13. CASE SetForPhase2
    BY <2>13 DEF SetForPhase2
  <2>14. CASE WritePhase2
    <3>1. toModem' \in Seq(Line) /\ "cmd2" \in LineKind
      BY <2>14, WriteType DEF WritePhase2, LineKind
    <3>2. NullResp \in Response
      BY DEF NullResp, Response, LineKind
    <3> QED BY <2>14, <3>1, <3>2 DEF WritePhase2
  <2>15. CASE WriteAbort
    <3>1. toModem' \in Seq(Line) /\ "abort" \in LineKind
      BY <2>15, WriteType DEF WriteAbort, LineKind
    <3> QED BY <2>15, <3>1 DEF WriteAbort
  <2>16. CASE SetForPing
    BY <2>16 DEF SetForPing
  <2>17. CASE FlushForPing
    BY <2>17 DEF FlushForPing
  <2>18. CASE WritePing
    <3>1. toModem' \in Seq(Line) /\ "ping" \in LineKind
      BY <2>18, WriteType DEF WritePing, LineKind
    <3> QED BY <2>18, <3>1 DEF WritePing
  <2>19. CASE PingOtherChannel
    BY <2>19 DEF PingOtherChannel
  <2>20. CASE AttemptEnds
    BY <2>20 DEF AttemptEnds, GetResponseReturned
  <2>21. CASE WaitOn
    BY <2>21 DEF WaitOn, GetResponseReturned
  <2>22. CASE Retry
    <3>1. retries' \in 0..1
      BY <2>22 DEF Retry
    <3> QED BY <2>22, <3>1 DEF Retry, GetResponseReturned
  <2>23. CASE NoRetryLeft
    BY <2>23 DEF NoRetryLeft, GetResponseReturned
  <2>24. CASE WaitForResponse
    BY <2>24 DEF WaitForResponse, LineKind
  <2>25. CASE Finish
    <3>1. cmd \in Cmds
      BY <2>25 DEF Finish
    <3>2. result' \in [Cmds -> Response]
      BY <2>25, <3>1 DEF Finish
    <3>3. completed' \in [Cmds -> Nat]
      BY <2>25, <3>1 DEF Finish
    <3> QED BY <2>25, <3>2, <3>3 DEF Finish
  <2>26. CASE ReadFromPort
    <3>1. Head(fromModem) \in Response /\ Tail(fromModem) \in Seq(Response)
      BY <2>26, HeadTailProperties DEF ReadFromPort
    <3> QED BY <2>26, <3>1 DEF ReadFromPort
  <2>27. CASE ClaimResponse
    BY <2>27 DEF ClaimResponse
  <2>28. CASE PassOver
    BY <2>28 DEF PassOver, NullResp, Response, LineKind
  <2>29. CASE EnqueueResponse
    BY <2>29 DEF EnqueueResponse, NullResp, Response, LineKind
  <2>30. CASE SignalResponse
    BY <2>30 DEF SignalResponse
  <2>31. CASE ModemAnswers
    <3>1. Head(toModem) \in Line /\ Tail(toModem) \in Seq(Line)
      BY <2>31, HeadTailProperties DEF ModemAnswers
    <3>2. \A ok \in BOOLEAN : Answer(Head(toModem), ok) \in Response
      BY <3>1 DEF Answer, Line, Response
    <3>3. fromModem' \in Seq(Response)
      BY <2>31, <3>2, AppendProperties DEF ModemAnswers
    <3> QED BY <2>31, <3>1, <3>3 DEF ModemAnswers
  <2>32. CASE ModemIgnores
    BY <2>32 DEF ModemIgnores
  <2>33. CASE ModemNotifies
    BY <2>33 DEF ModemNotifies, UrcResp, Response, LineKind
  <2>34. CASE CloseChannelPorts
    BY <2>34 DEF CloseChannelPorts
  <2>35. CASE UNCHANGED vars
    BY <2>35 DEF vars, histVars
  <2> QED
    BY <2>1, <2>2, <2>3, <2>4, <2>5, <2>6, <2>7, <2>8, <2>9, <2>10,
       <2>11, <2>12, <2>13, <2>14, <2>15, <2>16, <2>17, <2>18, <2>19, <2>20,
       <2>21, <2>22, <2>23, <2>24, <2>25, <2>26, <2>27, <2>28, <2>29, <2>30,
       <2>31, <2>32, <2>33, <2>34, <2>35
    DEF Next, SendCommandStep, ResponseThreadStep, ModemStep
<1> QED BY <1>1, <1>2, PTL DEF Spec, TypeInv
-----------------------------------------------------------------------------
(* The steps that matter to what the channel has done with its commands:    *)
(* every other step is quiet about it, and leaves the command thread where  *)
(* it is or moves it on between the first write and the completion.         *)
AfterWrite == CmdPc \ {"idle", "admitted", "send", "write", "finish"}

Quiet ==
    /\ UNCHANGED <<todo, cmd, retries, written, completed, result>>
    /\ \/ UNCHANGED <<pc, resp>>
       \/ pc = "send" /\ pc' = "write" /\ UNCHANGED resp
       \/ pc \in AfterWrite /\ pc' \in AfterWrite \cup {"finish"}

LEMMA QuietSteps ==
    ASSUME TypeInv, [Next]_vars
    PROVE  \/ \E c \in Cmds : Admit(c)
           \/ Begin \/ WriteCommand \/ Retry \/ Finish
           \/ Quiet
<1> USE DEF Quiet, AfterWrite, CmdPc, Reading, cmdVars, histVars
<1>1. CASE PrepareSend
  BY <1>1 DEF PrepareSend
<1>2. CASE CheckQueue
  BY <1>2 DEF CheckQueue
<1>3. CASE WakeOnEvent
  BY <1>3 DEF WakeOnEvent
<1>4. CASE Sleep
  BY <1>4 DEF Sleep
<1>5. CASE WakeOnCancel
  BY <1>5, ReadEnds DEF WakeOnCancel, AfterRead
<1>6. CASE WaitTimesOut
  BY <1>6, ReadEnds DEF WaitTimesOut, AfterRead
<1>7. CASE DequeueFails
  BY <1>7, ReadEnds DEF DequeueFails, AfterRead
<1>8. CASE Dequeue
  BY <1>8 DEF Dequeue
<1>9. CASE ResetEvent
  BY <1>9, ReadEnds DEF ResetEvent, AfterRead
<1>10. CASE SetForPhase2
  BY <1>10 DEF SetForPhase2
<1>11. CASE WritePhase2
  BY <1>11 DEF WritePhase2
<1>12. CASE WriteAbort
  BY <1>12 DEF WriteAbort
<1>13. CASE SetForPing
  BY <1>13 DEF SetForPing
<1>14. CASE FlushForPing
  BY <1>14 DEF FlushForPing
<1>15. CASE WritePing
  BY <1>15 DEF WritePing
<1>16. CASE PingOtherChannel
  BY <1>16 DEF PingOtherChannel
<1>17. CASE AttemptEnds
  BY <1>17 DEF AttemptEnds, GetResponseReturned
<1>18. CASE WaitOn
  BY <1>18 DEF WaitOn, GetResponseReturned
<1>19. CASE NoRetryLeft
  BY <1>19 DEF NoRetryLeft, GetResponseReturned
<1>20. CASE WaitForResponse
  BY <1>20 DEF WaitForResponse
<1>21. CASE ReadFromPort
  BY <1>21 DEF ReadFromPort
<1>22. CASE ClaimResponse
  BY <1>22 DEF ClaimResponse
<1>23. CASE PassOver
  BY <1>23 DEF PassOver
<1>24. CASE EnqueueResponse
  BY <1>24 DEF EnqueueResponse
<1>25. CASE SignalResponse
  BY <1>25 DEF SignalResponse
<1>26. CASE ModemAnswers
  BY <1>26 DEF ModemAnswers
<1>27. CASE ModemIgnores
  BY <1>27 DEF ModemIgnores
<1>28. CASE ModemNotifies
  BY <1>28 DEF ModemNotifies
<1>29. CASE CloseChannelPorts
  BY <1>29 DEF CloseChannelPorts
<1>30. CASE UNCHANGED vars
  BY <1>30 DEF vars
<1> QED
  BY <1>1, <1>2, <1>3, <1>4, <1>5, <1>6, <1>7, <1>8, <1>9, <1>10,
     <1>11, <1>12, <1>13, <1>14, <1>15, <1>16, <1>17, <1>18, <1>19, <1>20,
     <1>21, <1>22, <1>23, <1>24, <1>25, <1>26, <1>27, <1>28, <1>29, <1>30
  DEF Next, SendCommandStep, ResponseThreadStep, ModemStep

(* Every command taken is completed once: Finish completes the command that *)
(* Admit took, and nothing else touches either.                             *)
THEOREM CompletedOnce == Spec => []CompletedExactlyOnce
<1>1. Init => CompletedExactlyOnce
  BY DEF Init, CompletedExactlyOnce
<1>2. TypeInv /\ CompletedExactlyOnce /\ [Next]_vars => CompletedExactlyOnce'
  <2> SUFFICES ASSUME TypeInv, CompletedExactlyOnce, [Next]_vars
               PROVE  CompletedExactlyOnce'
    OBVIOUS
  <2> USE DEF CompletedExactlyOnce
  <2>1. ASSUME NEW c \in Cmds, Admit(c) PROVE CompletedExactlyOnce'
    BY <2>1 DEF Admit, TypeInv, CmdInv
  <2>2. CASE Finish
    <3>1. /\ cmd \in Cmds /\ cmd \notin todo /\ cmd' = NoCmd /\ todo' = todo
          /\ completed \in [Cmds -> Nat]
      BY <2>2 DEF Finish, TypeInv, TypeOK, CmdInv
    <3>2. completed' = [completed EXCEPT ![cmd] = @ + 1]
      BY <2>2 DEF Finish
    <3> QED BY <3>1, <3>2
  <2>3. CASE Begin
    BY <2>3 DEF Begin
  <2>4. CASE WriteCommand
    BY <2>4 DEF WriteCommand
  <2>5. CASE Retry
    BY <2>5 DEF Retry, GetResponseReturned
  <2>6. CASE Quiet
    BY <2>6 DEF Quiet
  <2> QED BY <2>1, <2>2, <2>3, <2>4, <2>5, <2>6, QuietSteps
<1> QED BY <1>1, <1>2, TypeCorrect, PTL DEF Spec, TypeInv

(* No response is slept through: a thread that registers or waits has seen  *)
(* the queue empty, and a response enqueued since is followed by a signal.  *)
THEOREM NothingSleptThrough == Spec => []NoLostWakeup
<1>1. Init => NoLostWakeup
  BY DEF Init, NoLostWakeup
<1>2. TypeInv /\ NoLostWakeup /\ [Next]_vars => NoLostWakeup'
  <2> SUFFICES ASSUME TypeInv, NoLostWakeup, [Next]_vars PROVE NoLostWakeup'
    OBVIOUS
  <2> USE DEF NoLostWakeup, cmdVars, rxVars, rtVars, histVars
  <2>1. ASSUME NEW c \in Cmds, Admit(c) PROVE NoLostWakeup'
    BY <2>1 DEF Admit
  <2>2. CASE Begin
    BY <2>2 DEF Begin
  <2>3. CASE PrepareSend
    BY <2>3 DEF PrepareSend
  <2>4. CASE WriteCommand
    BY <2>4 DEF WriteCommand
  <2>5. CASE CheckQueue
    BY <2>5 DEF CheckQueue
  <2>6. CASE WakeOnEvent
    BY <2>6 DEF WakeOnEvent
  <2>7. CASE Sleep
    BY <2>7 DEF Sleep
  <2>8. CASE WakeOnCancel
    BY <2>8, ReadEnds DEF WakeOnCancel, AfterRead
  <2>9. CASE WaitTimesOut
    BY <2>9, ReadEnds DEF WaitTimesOut, AfterRead
  <2>10. CASE DequeueFails
    BY <2>10, ReadEnds DEF DequeueFails, AfterRead
  <2>11. CASE Dequeue
    BY <2>11 DEF Dequeue
  <2>12. CASE ResetEvent
    BY <2>12, ReadEnds DEF ResetEvent, AfterRead
  <2>13. CASE SetForPhase2
    BY <2>13 DEF SetForPhase2
  <2>14. CASE WritePhase2
    BY <2>14 DEF WritePhase2
  <2>15. CASE WriteAbort
    BY <2>15 DEF WriteAbort
  <2>16. CASE SetForPing
    BY <2>16 DEF SetForPing
  <2>17. CASE FlushForPing
    BY <2>17 DEF FlushForPing
  <2>18. CASE WritePing
    BY <2>18 DEF WritePing
  <2>19. CASE PingOtherChannel
    BY <2>19 DEF PingOtherChannel
  <2>20. CASE AttemptEnds
    BY <2>20 DEF AttemptEnds, GetResponseReturned
  <2>21. CASE WaitOn
    BY <2>21 DEF WaitOn, GetResponseReturned
  <2>22. CASE Retry
    BY <2>22 DEF Retry, GetResponseReturned
  <2>23. CASE NoRetryLeft
    BY <2>23 DEF NoRetryLeft, GetResponseReturned
  <2>24. CASE WaitForResponse
    BY <2>24 DEF WaitForResponse
  <2>25. CASE Finish
    BY <2>25 DEF Finish
  <2>26. CASE ReadFromPort
    BY <2>26 DEF ReadFromPort
  <2>27. CASE ClaimResponse
    BY <2>27 DEF ClaimResponse
  <2>28. CASE PassOver
    BY <2>28 DEF PassOver
  <2>29. CASE EnqueueResponse
    BY <2>29 DEF EnqueueResponse
  <2>30. CASE SignalResponse
    BY <2>30 DEF SignalResponse
  <2>31. CASE ModemAnswers
    BY <2>31 DEF ModemAnswers
  <2>32. CASE ModemIgnores
    BY <2>32 DEF ModemIgnores
  <2>33. CASE ModemNotifies
    BY <2>33 DEF ModemNotifies
  <2>34. CASE CloseChannelPorts
    BY <2>34 DEF CloseChannelPorts
  <2>35. CASE UNCHANGED vars
    BY <2>35 DEF vars
  <2> QED
    BY <2>1, <2>2, <2>3, <2>4, <2>5, <2>6, <2>7, <2>8, <2>9, <2>10,
       <2>11, <2>12, <2>13, <2>14, <2>15, <2>16, <2>17, <2>18, <2>19, <2>20,
       <2>21, <2>22, <2>23, <2>24, <2>25, <2>26, <2>27, <2>28, <2>29, <2>30,
       <2>31, <2>32, <2>33, <2>34, <2>35
    DEF Next, SendCommandStep, ResponseThreadStep, ModemStep
<1> QED BY <1>1, <1>2, TypeCorrect, PTL DEF Spec, TypeInv

(* Outside an exchange the flag is down: GetResponse's callers lower it on  *)
(* every way out, and only the start of an exchange raises it.              *)
THEOREM FlagDownOutside == Spec => []LateAnswerDropped
<1>1. Init => LateAnswerDropped
  BY DEF Init, LateAnswerDropped
<1>2. TypeInv /\ LateAnswerDropped /\ [Next]_vars => LateAnswerDropped'
  <2> SUFFICES ASSUME TypeInv, LateAnswerDropped, [Next]_vars
               PROVE  LateAnswerDropped'
    OBVIOUS
  <2> USE DEF LateAnswerDropped, cmdVars, rxVars, histVars
  <2>1. ASSUME NEW c \in Cmds, Admit(c) PROVE LateAnswerDropped'
    BY <2>1 DEF Admit
  <2>2. CASE Begin
    BY <2>2 DEF Begin
  <2>3. CASE PrepareSend
    BY <2>3 DEF PrepareSend
  <2>4. CASE WriteCommand
    BY <2>4 DEF WriteCommand
  <2>5. CASE CheckQueue
    BY <2>5 DEF CheckQueue
  <2>6. CASE WakeOnEvent
    BY <2>6 DEF WakeOnEvent
  <2>7. CASE Sleep
    BY <2>7 DEF Sleep
  <2>8. CASE WakeOnCancel
    BY <2>8, ReadEnds DEF WakeOnCancel, AfterRead
  <2>9. CASE WaitTimesOut
    BY <2>9, ReadEnds DEF WaitTimesOut, AfterRead
  <2>10. CASE DequeueFails
    BY <2>10, ReadEnds DEF DequeueFails, AfterRead
  <2>11. CASE Dequeue
    BY <2>11 DEF Dequeue
  <2>12. CASE ResetEvent
    BY <2>12, ReadEnds DEF ResetEvent, AfterRead
  <2>13. CASE SetForPhase2
    BY <2>13 DEF SetForPhase2
  <2>14. CASE WritePhase2
    BY <2>14 DEF WritePhase2
  <2>15. CASE WriteAbort
    BY <2>15 DEF WriteAbort
  <2>16. CASE SetForPing
    BY <2>16 DEF SetForPing
  <2>17. CASE FlushForPing
    BY <2>17 DEF FlushForPing
  <2>18. CASE WritePing
    BY <2>18 DEF WritePing
  <2>19. CASE PingOtherChannel
    BY <2>19 DEF PingOtherChannel
  <2>20. CASE AttemptEnds
    BY <2>20 DEF AttemptEnds, GetResponseReturned
  <2>21. CASE WaitOn
    BY <2>21 DEF WaitOn, GetResponseReturned
  <2>22. CASE Retry
    BY <2>22 DEF Retry, GetResponseReturned
  <2>23. CASE NoRetryLeft
    BY <2>23 DEF NoRetryLeft, GetResponseReturned
  <2>24. CASE WaitForResponse
    BY <2>24 DEF WaitForResponse
  <2>25. CASE Finish
    BY <2>25 DEF Finish
  <2>26. CASE ReadFromPort
    BY <2>26 DEF ReadFromPort
  <2>27. CASE ClaimResponse
    BY <2>27 DEF ClaimResponse
  <2>28. CASE PassOver
    BY <2>28 DEF PassOver
  <2>29. CASE EnqueueResponse
    BY <2>29 DEF EnqueueResponse
  <2>30. CASE SignalResponse
    BY <2>30 DEF SignalResponse
  <2>31. CASE ModemAnswers
    BY <2>31 DEF ModemAnswers
  <2>32. CASE ModemIgnores
    BY <2>32 DEF ModemIgnores
  <2>33. CASE ModemNotifies
    BY <2>33 DEF ModemNotifies
  <2>34. CASE CloseChannelPorts
    BY <2>34 DEF CloseChannelPorts
  <2>35. CASE UNCHANGED vars
    BY <2>35 DEF vars
  <2> QED
    BY <2>1, <2>2, <2>3, <2>4, <2>5, <2>6, <2>7, <2>8, <2>9, <2>10,
       <2>11, <2>12, <2>13, <2>14, <2>15, <2>16, <2>17, <2>18, <2>19, <2>20,
       <2>21, <2>22, <2>23, <2>24, <2>25, <2>26, <2>27, <2>28, <2>29, <2>30,
       <2>31, <2>32, <2>33, <2>34, <2>35
    DEF Next, SendCommandStep, ResponseThreadStep, ModemStep
<1> QED BY <1>1, <1>2, TypeCorrect, PTL DEF Spec, TypeInv
-----------------------------------------------------------------------------
(* The attempts made and the retries left add up: what keeps the number of  *)
(* writes within the budget of the command, and what makes an answered      *)
(* command one that was written.                                            *)
AttemptInv ==
    /\ \A c \in todo : written[c] = 0
    /\ pc = "admitted" => written[cmd] = 0
    /\ pc \notin {"idle", "admitted"} =>
           IF cmd \in Noops
           THEN pc = "finish" /\ resp = NullResp /\ written[cmd] = 0
           ELSE /\ retries > 0 => cmd \in Retryable
                /\ written[cmd] + retries =
                       Service!MaxAttempts(cmd)
                           - (IF pc \in {"send", "write"} THEN 1 ELSE 0)

LEMMA AttemptsAccounted == Spec => []AttemptInv
<1>1. Init => AttemptInv
  BY DEF Init, AttemptInv
<1>2. TypeInv /\ AttemptInv /\ [Next]_vars => AttemptInv'
  <2> SUFFICES ASSUME TypeInv, AttemptInv, [Next]_vars PROVE AttemptInv'
    OBVIOUS
  <2>1. written \in [Cmds -> Nat] /\ retries \in 0..1 /\ todo \subseteq Cmds
    BY DEF TypeInv, TypeOK
  <2>2. ASSUME NEW c \in Cmds, Admit(c) PROVE AttemptInv'
    BY <2>2 DEF Admit, AttemptInv, histVars
  <2>3. CASE Begin
    <3>1. cmd \in Cmds /\ written[cmd] = 0
      BY <2>3 DEF Begin, AttemptInv, TypeInv, TypeOK, CmdInv
    <3>2. /\ retries' = IF cmd \in Retryable THEN 1 ELSE 0
          /\ pc' = IF cmd \in Noops THEN "finish" ELSE "send"
          /\ resp' = NullResp /\ UNCHANGED <<todo, cmd, written>>
      BY <2>3 DEF Begin, histVars
    <3> QED BY <3>1, <3>2 DEF AttemptInv, Service!MaxAttempts
  <2>4. CASE WriteCommand
    <3>1. cmd \in Cmds /\ cmd \notin todo /\ cmd \notin Noops
      BY <2>4 DEF WriteCommand, AttemptInv, TypeInv, TypeOK, CmdInv
    <3>2. /\ written' = [written EXCEPT ![cmd] = @ + 1] /\ pc' = "check"
          /\ UNCHANGED <<todo, cmd, retries>> /\ pc = "write"
      BY <2>4 DEF WriteCommand
    <3>3. written'[cmd] = written[cmd] + 1
      BY <2>1, <3>1, <3>2
    <3>4. \A c \in todo' : written'[c] = 0
      BY <2>1, <3>1, <3>2 DEF AttemptInv
    <3>5. /\ retries > 0 => cmd \in Retryable
          /\ written[cmd] + retries = Service!MaxAttempts(cmd) - 1
      BY <3>1, <3>2 DEF AttemptInv
    <3>6. Service!MaxAttempts(cmd) \in Nat
      BY DEF Service!MaxAttempts
    <3>7. written'[cmd] + retries' = Service!MaxAttempts(cmd)
      BY <2>1, <3>1, <3>2, <3>3, <3>5, <3>6
    <3> QED BY <3>1, <3>2, <3>4, <3>5, <3>7, <3>6 DEF AttemptInv, Service!MaxAttempts
  <2>5. CASE Retry
    <3>1. cmd \in Cmds /\ cmd \notin Noops
      BY <2>5 DEF Retry, AttemptInv, TypeInv, TypeOK, CmdInv
    <3>2. /\ pc = "gotResponse" /\ pc' = "send" /\ retries = 1 /\ retries' = 0
          /\ UNCHANGED <<todo, cmd, written>>
      BY <2>1, <2>5 DEF Retry, GetResponseReturned, histVars
    <3>3. /\ cmd \in Retryable
          /\ written[cmd] + retries = Service!MaxAttempts(cmd)
      BY <3>1, <3>2 DEF AttemptInv, Service!MaxAttempts
    <3> QED BY <2>1, <3>1, <3>2, <3>3 DEF AttemptInv, Service!MaxAttempts
  <2>6. CASE Finish
    BY <2>6 DEF Finish, AttemptInv, histVars
  <2>7. CASE Quiet
    BY <2>7 DEF Quiet, AttemptInv, AfterWrite, Service!MaxAttempts
  <2> QED BY <2>2, <2>3, <2>4, <2>5, <2>6, <2>7, QuietSteps
<1> QED BY <1>1, <1>2, TypeCorrect, PTL DEF Spec, TypeInv

(* The channel implements the service of ChannelService: taking a command,  *)
(* each write of its first string and its completion are the service's      *)
(* steps, and every other step of either thread or of the modem stutters.   *)
THEOREM ChannelImplementsService == Spec => ImplementsService
<1>1. Init => Service!ServiceInit
  BY DEF Init, Service!ServiceInit, NullResp
<1>2. TypeInv /\ CompletedExactlyOnce /\ AttemptInv /\ [Next]_vars
          => [Service!ServiceNext]_(Service!serviceVars)
  <2> SUFFICES ASSUME TypeInv, CompletedExactlyOnce, AttemptInv, [Next]_vars
               PROVE  [Service!ServiceNext]_(Service!serviceVars)
    OBVIOUS
  <2> USE DEF Service!ServiceNext, Service!serviceVars, histVars
  <2>1. ASSUME NEW c \in Cmds, Admit(c) PROVE Service!Take(c)
    BY <2>1 DEF Admit, Service!Take, TypeInv, CmdInv
  <2>2. CASE WriteCommand
    <3>1. cmd \in Cmds /\ cmd # NoCmd /\ cmd \notin Noops
      BY <2>2 DEF WriteCommand, AttemptInv, TypeInv, TypeOK, CmdInv
    <3>2. written[cmd] < Service!MaxAttempts(cmd)
      BY <2>2, <3>1 DEF WriteCommand, AttemptInv, TypeInv, TypeOK,
                        Service!MaxAttempts
    <3> QED BY <2>2, <3>1, <3>2 DEF WriteCommand, Service!Attempt
  <2>3. CASE Finish
    <3> DEFINE o == IF resp.kind = "answer" THEN "answered" ELSE "failed"
    <3>1. cmd \in Cmds /\ cmd # NoCmd
      BY <2>3 DEF Finish, TypeInv, TypeOK, CmdInv
    <3>2. /\ completed \in [Cmds -> Nat] /\ result \in [Cmds -> Response]
          /\ completed[cmd] = 0
      BY <3>1 DEF TypeInv, TypeOK, CompletedExactlyOnce
    <3>3. o = "answered" => written[cmd] > 0
      BY <2>3, <3>1 DEF Finish, AttemptInv, NullResp, TypeInv, TypeOK,
                        Service!MaxAttempts
    <3>4. /\ completed' = [completed EXCEPT ![cmd] = 1]
          /\ result' = [result EXCEPT ![cmd] = resp]
      BY <2>3, <3>2 DEF Finish
    <3>5. \A c \in Cmds :
              (IF completed'[c] = 0 THEN "none"
               ELSE IF result'[c].kind = "answer" THEN "answered" ELSE "failed")
            = IF c = cmd THEN o
              ELSE IF completed[c] = 0 THEN "none"
              ELSE IF result[c].kind = "answer" THEN "answered" ELSE "failed"
      BY <3>1, <3>2, <3>4
    <3>6. /\ cmd' = NoCmd /\ UNCHANGED <<todo, written>>
      BY <2>3 DEF Finish
    <3>7. Service!Complete
      BY <3>1, <3>2, <3>3, <3>5, <3>6 DEF Service!Complete
    <3> QED BY <3>7
  <2>4. CASE Begin
    BY <2>4 DEF Begin
  <2>5. CASE Retry
    BY <2>5 DEF Retry, GetResponseReturned
  <2>6. CASE Quiet
    BY <2>6 DEF Quiet
  <2> QED BY <2>1, <2>2, <2>3, <2>4, <2>5, <2>6, QuietSteps
<1> QED
  BY <1>1, <1>2, TypeCorrect, CompletedOnce, AttemptsAccounted, PTL
  DEF Spec, TypeInv, ImplementsService, Service!ServiceSpec
-----------------------------------------------------------------------------
(* The responses the Rx queue holds or may still get: the one the response  *)
(* thread has claimed, and one more while the flag is up.                   *)
Claimed == IF rt = "claimed" THEN 1 ELSE 0
Wanted  == IF blocked THEN 1 ELSE 0
Pending == Len(rxQueue) + Claimed + Wanted

(* How many there may be: SendCommand starts an exchange with one, a second *)
(* comes with the PING, and none is left when a command has been answered.  *)
(* WaitForResponse and a second string sent from it add one to what is left, *)
(* but it goes to sleep only when the queue is empty.                       *)
Room ==
    IF waiting THEN IF pc \in {"check", "dequeue", "write2"} THEN 3 ELSE 2
    ELSE IF pc = "set2" \/ (pc = "reset" /\ stage \in {"cmd1", "cmd2"}) THEN 0
    ELSE IF \/ pc \in {"write", "write2", "abort", "pingSet"}
            \/ pc \in Reading /\ stage # "ping"
    THEN 1 ELSE 2

PendingInv ==
    /\ pc = "waitSet" => waiting
    /\ waiting => /\ cmd \in SpecialPing
                  /\ pc \in Reading \cup {"waitSet", "set2", "write2", "otherPing",
                                          "gotResponse", "gotReset", "finish"}
                  /\ pc \in Reading => stage \in {"cmd1", "cmd2"}
    /\ Pending <= Room

(* PrepareSend starts an exchange with an empty queue and the flag up; a    *)
(* claim only moves a response from one term of the sum to the next.        *)
LEMMA PendingBounded == Spec => []PendingInv
<1>1. Init => PendingInv
  BY DEF Init, PendingInv, Pending, Claimed, Wanted, Room, Reading
<1>2. TypeInv /\ PendingInv /\ [Next]_vars => PendingInv'
  <2> SUFFICES ASSUME TypeInv, PendingInv, [Next]_vars PROVE PendingInv'
    OBVIOUS
  <2> DEFINE n == Len(rxQueue)
  <2>0. n \in Nat /\ rxQueue \in Seq(Response) /\ blocked \in BOOLEAN
    BY LenProperties DEF TypeInv, TypeOK
  <2> DEFINE WaitingAt(w, p, c, l) ==
                 /\ p = "waitSet" => w
                 /\ w => /\ c \in SpecialPing
                         /\ p \in Reading \cup {"waitSet", "set2", "write2", "otherPing",
                                                "gotResponse", "gotReset", "finish"}
                         /\ p \in Reading => l \in {"cmd1", "cmd2"}
  <2>a. WaitingAt(waiting, pc, cmd, stage) /\ n + Claimed + Wanted <= Room
    BY DEF PendingInv, Pending
  <2>b. ASSUME WaitingAt(waiting', pc', cmd', stage'), n' + Claimed' + Wanted' <= Room'
        PROVE  PendingInv'
    BY <2>b DEF PendingInv, Pending
  <2>c. ASSUME UNCHANGED rxQueue PROVE n' = n
    BY <2>c
  <2>d. rxQueue' = <<>> => n' = 0
    OBVIOUS
  <2>e. CASE EnqueueResponse
    <3>1. rdBuf \in Response
      BY DEF TypeInv, TypeOK
    <3>2. n' = n + 1
      BY <2>e, <2>0, <3>1, AppendProperties DEF EnqueueResponse
    <3> HIDE DEF n
    <3> QED BY <2>e, <2>0, <2>a, <2>b, <3>2
            DEF EnqueueResponse, Claimed, Wanted, Room, cmdVars
  <2>f. CASE Dequeue
    <3>1. n' = n - 1
      BY <2>f, <2>0, HeadTailProperties DEF Dequeue
    <3> HIDE DEF n
    <3>2. /\ pc = "dequeue" /\ pc' = "reset"
          /\ UNCHANGED <<waiting, cmd, stage, Claimed, Wanted>>
      BY <2>f DEF Dequeue, Claimed, Wanted, rtVars
    <3>3. WaitingAt(waiting', pc', cmd', stage')
      BY <2>a, <3>2 DEF Reading
    <3>4. Room' >= Room - 1 /\ Room \in 0..3 /\ Room' \in 0..3
      BY <2>a, <3>2 DEF Room, Reading
    <3> QED BY <2>0, <2>a, <2>b, <3>1, <3>2, <3>3, <3>4 DEF Claimed, Wanted
  <2> HIDE DEF n
  <2> USE <2>0, <2>a, <2>b, <2>c, <2>d
      DEF Claimed, Wanted, Room, Reading, cmdVars, rxVars, rtVars, histVars
  <2>1. ASSUME NEW c \in Cmds, Admit(c) PROVE PendingInv'
    BY <2>1 DEF Admit
  <2>2. CASE Begin
    BY <2>2 DEF Begin
  <2>3. CASE PrepareSend
    BY <2>3 DEF PrepareSend, MutexFree
  <2>4. CASE WriteCommand
    BY <2>4 DEF WriteCommand
  <2>5. CASE CheckQueue
    BY <2>5 DEF CheckQueue
  <2>6. CASE WakeOnEvent
    BY <2>6 DEF WakeOnEvent
  <2>7. CASE Sleep
    BY <2>7 DEF Sleep
  <2>8. CASE WakeOnCancel
    BY <2>8 DEF WakeOnCancel, ReadReturns, CommandRead, AbortRead, PingRead,
                StartTimeout, ReadResponse
  <2>9. CASE WaitTimesOut
    BY <2>9 DEF WaitTimesOut, ReadReturns, CommandRead, AbortRead, PingRead,
                StartTimeout, ReadResponse
  <2>10. CASE DequeueFails
    BY <2>10 DEF DequeueFails, ReadReturns, CommandRead, AbortRead, PingRead,
                 StartTimeout, ReadResponse
  <2>11. CASE ResetEvent
    BY <2>11 DEF ResetEvent, ReadReturns, CommandRead, AbortRead, PingRead,
                 StartTimeout, ReadResponse
  <2>12. CASE SetForPhase2
    BY <2>12 DEF SetForPhase2
  <2>13. CASE WritePhase2
    BY <2>13 DEF WritePhase2
  <2>14. CASE WriteAbort
    BY <2>14 DEF WriteAbort
  <2>15. CASE SetForPing
    BY <2>15 DEF SetForPing
  <2>16. CASE FlushForPing
    BY <2>16 DEF FlushForPing
  <2>17. CASE WritePing
    BY <2>17 DEF WritePing
  <2>18. CASE PingOtherChannel
    BY <2>18 DEF PingOtherChannel
  <2>19. CASE AttemptEnds
    BY <2>19 DEF AttemptEnds, GetResponseReturned
  <2>20. CASE WaitOn
    BY <2>20 DEF WaitOn, GetResponseReturned
  <2>21. CASE Retry
    BY <2>21 DEF Retry, GetResponseReturned
  <2>22. CASE NoRetryLeft
    BY <2>22 DEF NoRetryLeft, GetResponseReturned
  <2>23. CASE WaitForResponse
    BY <2>23 DEF WaitForResponse
  <2>24. CASE Finish
    BY <2>24 DEF Finish
  <2>25. CASE ReadFromPort
    BY <2>25 DEF ReadFromPort
  <2>26. CASE ClaimResponse
    BY <2>26 DEF ClaimResponse
  <2>27. CASE PassOver
    BY <2>27 DEF PassOver
  <2>28. CASE SignalResponse
    BY <2>28 DEF SignalResponse
  <2>29. CASE ModemStep
    BY <2>29 DEF ModemStep, ModemAnswers, ModemIgnores, ModemNotifies
  <2>30. CASE CloseChannelPorts
    BY <2>30 DEF CloseChannelPorts
  <2>31. CASE UNCHANGED vars
    BY <2>31 DEF vars
  <2> QED
    BY <2>e, <2>f, <2>1, <2>2, <2>3, <2>4, <2>5, <2>6, <2>7, <2>8, <2>9, <2>10,
       <2>11, <2>12, <2>13, <2>14, <2>15, <2>16, <2>17, <2>18, <2>19, <2>20,
       <2>21, <2>22, <2>23, <2>24, <2>25, <2>26, <2>27, <2>28, <2>29, <2>30, <2>31
    DEF Next, SendCommandStep, ResponseThreadStep
<1> QED BY <1>1, <1>2, TypeCorrect, PTL DEF Spec, TypeInv

(* The Rx queue holds at most two responses, three while SendCommand waits   *)
(* on for a special command: the next exchange empties the queue, so late   *)
(* answers do not accumulate however many commands time out.                *)
THEOREM LateAnswersDoNotPileUp == Spec => []RxQueueBounded
<1>1. TypeInv /\ PendingInv => RxQueueBounded
  <2> SUFFICES ASSUME TypeInv, PendingInv PROVE RxQueueBounded
    OBVIOUS
  <2> DEFINE n == Len(rxQueue)
             most == IF SpecialPing = {} THEN 2 ELSE 3
  <2>1. n \in Nat
    BY LenProperties DEF TypeInv, TypeOK
  <2>2. n + Claimed + Wanted <= Room
    BY DEF PendingInv, Pending
  <2>3. Room \in 0..3 /\ (Room = 3 => SpecialPing # {}) /\ Claimed \in Nat /\ Wanted \in Nat
    BY DEF Room, Claimed, Wanted, PendingInv
  <2>4. n <= most
    <3> HIDE DEF n
    <3> QED BY <2>1, <2>2, <2>3
  <2> QED BY <2>4 DEF RxQueueBounded
<1> QED BY <1>1, PendingBounded, TypeCorrect, PTL DEF TypeInv
-----------------------------------------------------------------------------
(* Where the answer to a line can be.  Until a read is given up, a line      *)
(* written is on its way, or its answer is, in exactly one place.           *)
Own(r, c, l) == r.kind = "answer" /\ r.cmd = c /\ r.line = l

NoAnswer(s) == \A i \in 1..Len(s) : s[i].kind # "answer"

OneOwn(s, c, l) ==
    \E i \in 1..Len(s) :
        /\ Own(s[i], c, l)
        /\ \A j \in 1..Len(s) : s[j].kind = "answer" => j = i

Silent   == NoAnswer(fromModem) /\ rdBuf.kind # "answer" /\ rxQueue = <<>>
AtModem  == toModem = <<[cmd |-> cmd, line |-> stage]>> /\ Silent
OnTheWay == /\ toModem = <<>> /\ OneOwn(fromModem, cmd, stage)
            /\ rdBuf.kind # "answer" /\ rxQueue = <<>>
InBuffer == /\ toModem = <<>> /\ NoAnswer(fromModem)
            /\ Own(rdBuf, cmd, stage) /\ rxQueue = <<>>
InQueue  == /\ toModem = <<>> /\ NoAnswer(fromModem) /\ rdBuf.kind # "answer"
            /\ \E r \in Response : rxQueue = <<r>> /\ Own(r, cmd, stage)
Nowhere  == toModem = <<>> /\ Silent

Awaiting == {"check", "register", "wait", "dequeue"}

CleanPc == {"idle", "admitted", "send", "write", "set2", "write2", "gotResponse",
            "finish"} \cup Reading

InFlight ==
    \/ Nowhere
    \/ pc \in Awaiting /\ (AtModem \/ OnTheWay \/ InBuffer \/ InQueue)

LastLine(r, c) ==
    r.line = "cmd1" => c \notin (IF r.ok THEN Phase2OnOk ELSE Phase2OnError)

(* What SendCommand holds once it has read, and completes the command with. *)
HasOwn ==
    /\ pc \in {"reset", "set2", "write2", "gotResponse"} => Own(resp, cmd, stage)
    /\ pc = "gotResponse" => LastLine(resp, cmd)
    /\ pc = "finish" => cmd \in Noops \/ (Own(resp, cmd, stage) /\ LastLine(resp, cmd))

Answered ==
    \A c \in Cmds \ Noops :
        completed[c] > 0 =>
            result[c].kind = "answer" /\ result[c].cmd = c /\ LastLine(result[c], c)

CleanInv ==
    /\ rt = "claimed" => rdBuf.kind = "answer"
    /\ abandoned = {} =>
           /\ pc \in CleanPc /\ ~waiting /\ stage \in {"cmd1", "cmd2"}
           /\ InFlight /\ HasOwn /\ Answered

(* The pipe from the modem: what an append and a read do to its answers.    *)
LEMMA AppendOther ==
    ASSUME NEW s \in Seq(Response), NEW r \in Response, r.kind # "answer",
           NEW c, NEW l
    PROVE  /\ NoAnswer(s) => NoAnswer(Append(s, r))
           /\ OneOwn(s, c, l) => OneOwn(Append(s, r), c, l)
<1>1. /\ Len(Append(s, r)) = Len(s) + 1 /\ Len(s) \in Nat
      /\ \A i \in 1..Len(s) : Append(s, r)[i] = s[i]
      /\ Append(s, r)[Len(s) + 1] = r
  BY AppendProperties, LenProperties
<1>2. \A i \in 1..Len(s) + 1 : i \in 1..Len(s) \/ i = Len(s) + 1
  BY <1>1
<1>3. \A i \in 1..Len(s) : i \in 1..Len(s) + 1
  BY <1>1
<1> QED BY <1>1, <1>2, <1>3 DEF NoAnswer, OneOwn

(* The modem's answer is the only one in the pipe.                          *)
LEMMA AppendOwn ==
    ASSUME NEW s \in Seq(Response), NEW r \in Response, NEW c, NEW l,
           NoAnswer(s), Own(r, c, l)
    PROVE  OneOwn(Append(s, r), c, l)
<1>1. /\ Len(Append(s, r)) = Len(s) + 1 /\ Len(s) \in Nat
      /\ \A i \in 1..Len(s) : Append(s, r)[i] = s[i]
      /\ Append(s, r)[Len(s) + 1] = r
  BY AppendProperties, LenProperties
<1>2. \A i \in 1..Len(s) + 1 : i \in 1..Len(s) \/ i = Len(s) + 1
  BY <1>1
<1>3. Len(s) + 1 \in 1..Len(s) + 1
  BY <1>1
<1> QED BY <1>1, <1>2, <1>3 DEF NoAnswer, OneOwn, Own

(* A read takes the answer out of the pipe, or leaves it there.             *)
LEMMA ReadOne ==
    ASSUME NEW s \in Seq(Response), s # <<>>, NEW c, NEW l
    PROVE  /\ NoAnswer(s) => Head(s).kind # "answer" /\ NoAnswer(Tail(s))
           /\ OneOwn(s, c, l) =>
                  \/ Own(Head(s), c, l) /\ NoAnswer(Tail(s))
                  \/ Head(s).kind # "answer" /\ OneOwn(Tail(s), c, l)
<1>1. /\ Len(s) \in Nat /\ Len(s) > 0 /\ Len(Tail(s)) = Len(s) - 1 /\ Head(s) = s[1]
  BY LenProperties, EmptySeq, HeadTailProperties
<1>2. \A i \in 1..Len(Tail(s)) : Tail(s)[i] = s[i + 1]
  BY HeadTailProperties
<1>3. /\ 1 \in 1..Len(s)
      /\ \A i \in 1..Len(Tail(s)) : i + 1 \in 1..Len(s) /\ i + 1 # 1
  BY <1>1
<1>4. ASSUME NoAnswer(s) PROVE Head(s).kind # "answer" /\ NoAnswer(Tail(s))
  BY <1>1, <1>2, <1>3, <1>4 DEF NoAnswer
<1>5. ASSUME OneOwn(s, c, l)
      PROVE  \/ Own(Head(s), c, l) /\ NoAnswer(Tail(s))
             \/ Head(s).kind # "answer" /\ OneOwn(Tail(s), c, l)
  <2>1. PICK i \in 1..Len(s) :
            /\ Own(s[i], c, l)
            /\ \A j \in 1..Len(s) : s[j].kind = "answer" => j = i
    BY <1>5 DEF OneOwn
  <2>2. CASE i = 1
    BY <2>1, <2>2, <1>1, <1>2, <1>3 DEF NoAnswer, Own
  <2>3. CASE i # 1
    <3>1. i - 1 \in 1..Len(Tail(s)) /\ (i - 1) + 1 = i
      BY <2>3, <1>1
    <3>2. Own(Tail(s)[i - 1], c, l)
      BY <3>1, <2>1, <1>2
    <3>3. \A j \in 1..Len(Tail(s)) : Tail(s)[j].kind = "answer" => j = i - 1
      <4>1. \A j \in 1..Len(Tail(s)) : j \in Nat /\ i \in Nat
        OBVIOUS
      <4> QED BY <2>1, <1>2, <1>3, <4>1
    <3>4. Head(s).kind # "answer"
      BY <2>1, <2>3, <1>1, <1>3
    <3> QED BY <3>1, <3>2, <3>3, <3>4 DEF OneOwn
  <2> QED BY <2>2, <2>3
<1> QED BY <1>4, <1>5

(* One line at a time: SendCommand writes when nothing is left over from    *)
(* the line before, and reads the answer before it writes the next.         *)
LEMMA AnswersOwn == Spec => []CleanInv
<1>1. Init => CleanInv
  BY DEF Init, CleanInv, CleanPc, InFlight, Nowhere, Silent, NoAnswer, HasOwn,
         Answered, NullResp
<1>2. TypeInv /\ CleanInv /\ [Next]_vars => CleanInv'
  <2> SUFFICES ASSUME TypeInv, CleanInv, [Next]_vars PROVE CleanInv'
    OBVIOUS
  <2>a. /\ toModem \in Seq(Line) /\ fromModem \in Seq(Response)
        /\ rxQueue \in Seq(Response) /\ rdBuf \in Response /\ resp \in Response
        /\ cmd \in Cmds \cup {NoCmd} /\ stage \in LineKind
    BY DEF TypeInv, TypeOK
  <2>b. rt = "claimed" => rdBuf.kind = "answer"
    BY DEF CleanInv
  (* A step that gives a read up has nothing more to show.                  *)
  <2>c. CASE abandoned' # {}
    <3>1. CASE UNCHANGED <<rt, rdBuf>>
      BY <2>b, <2>c, <3>1 DEF CleanInv
    <3>2. CASE ReadFromPort \/ ClaimResponse \/ PassOver \/ EnqueueResponse \/ SignalResponse
      BY <2>b, <2>c, <3>2 DEF CleanInv, ReadFromPort, ClaimResponse, PassOver,
           EnqueueResponse, SignalResponse
    <3>3. UNCHANGED <<rt, rdBuf>> \/ ResponseThreadStep
      BY DEF Next, SendCommandStep, ModemStep, Admit, Begin, PrepareSend,
             WriteCommand, CheckQueue, WakeOnEvent, Sleep, WakeOnCancel, WaitTimesOut,
             DequeueFails, Dequeue, ResetEvent, SetForPhase2, WritePhase2, WriteAbort,
             SetForPing, FlushForPing, WritePing, PingOtherChannel, AttemptEnds, WaitOn,
             Retry, NoRetryLeft, WaitForResponse, Finish, GetResponseReturned,
             ModemAnswers, ModemIgnores, ModemNotifies, CloseChannelPorts, rtVars, vars
    <3> QED BY <3>1, <3>2, <3>3 DEF ResponseThreadStep
  <2>d. CASE abandoned' = {}
   <3>a. abandoned = {}
     BY <2>d DEF Next, SendCommandStep, ResponseThreadStep, ModemStep, Admit, Begin,
             PrepareSend, WriteCommand, CheckQueue, WakeOnEvent, Sleep, WakeOnCancel,
             WaitTimesOut, DequeueFails, Dequeue, ResetEvent, SetForPhase2, WritePhase2,
             WriteAbort, SetForPing, FlushForPing, WritePing, PingOtherChannel,
             AttemptEnds, WaitOn, Retry, NoRetryLeft, WaitForResponse, Finish,
             GetResponseReturned, ReadFromPort, ClaimResponse, PassOver,
             EnqueueResponse, SignalResponse, ModemAnswers, ModemIgnores,
             ModemNotifies, CloseChannelPorts, GiveUp, histVars, vars
   <3>b. /\ pc \in CleanPc /\ ~waiting /\ stage \in {"cmd1", "cmd2"}
         /\ InFlight /\ HasOwn /\ Answered
     BY <3>a DEF CleanInv
   <3>c. ASSUME pc' \in CleanPc, ~waiting', stage' \in {"cmd1", "cmd2"},
                InFlight', HasOwn', Answered', rt' = "claimed" => rdBuf'.kind = "answer"
         PROVE  CleanInv'
     BY <3>c DEF CleanInv
   (* The command thread moves on and touches no line.                      *)
   <3>d. ASSUME UNCHANGED <<toModem, fromModem, rdBuf, rxQueue, cmd, stage, rt>>,
                pc \in Awaiting => pc' \in Awaiting
         PROVE  InFlight' /\ (rt' = "claimed" => rdBuf'.kind = "answer")
     BY <3>d, <3>b, <2>b DEF InFlight, Nowhere, AtModem, OnTheWay, InBuffer, InQueue, Silent
   <3>e. pc \notin Awaiting => Nowhere
     BY <3>b DEF InFlight
   <3>f. ASSUME Nowhere, UNCHANGED <<toModem, fromModem, rdBuf, rxQueue, rt>>
         PROVE  InFlight' /\ (rt' = "claimed" => rdBuf'.kind = "answer")
     BY <3>f, <2>b DEF InFlight, Nowhere, Silent
   <3>g. ASSUME UNCHANGED <<completed, result>> PROVE Answered'
     BY <3>g, <3>b DEF Answered, LastLine
   <3> USE DEF CleanPc, Reading, Awaiting, cmdVars, rxVars, rtVars, modemVars, histVars
   <3>1. ASSUME NEW c \in Cmds, Admit(c) PROVE CleanInv'
     BY <3>1, <3>b, <3>c, <3>e, <3>f, <3>g DEF Admit, HasOwn
   <3>2. CASE Begin
     BY <3>2, <3>b, <3>c, <3>e, <3>f, <3>g DEF Begin, HasOwn
   <3>3. CASE PrepareSend
     <4>1. rxQueue' = rxQueue
       BY <3>3, <3>e DEF PrepareSend, Nowhere, Silent
     <4> QED BY <3>3, <4>1, <3>b, <3>c, <3>e, <3>f, <3>g DEF PrepareSend, HasOwn
   <3>4. CASE WriteCommand
     <4>1. Nowhere /\ pc' = "check" /\ stage' = "cmd1"
           /\ UNCHANGED <<fromModem, rdBuf, rxQueue, cmd, rt, completed, result, waiting>>
       BY <3>4, <3>e DEF WriteCommand
     <4>2. \/ toModem' = <<>>
           \/ toModem' = <<[cmd |-> cmd, line |-> "cmd1"]>>
       BY <3>4, <4>1 DEF WriteCommand, Write, WriteFails, Nowhere
     <4>3. InFlight'
       BY <4>1, <4>2 DEF InFlight, Nowhere, AtModem, Silent
     <4> QED BY <4>1, <4>3, <2>b, <3>b, <3>c, <3>g DEF HasOwn
   <3>5. CASE CheckQueue
     BY <3>5, <3>b, <3>c, <3>d, <3>g DEF CheckQueue, HasOwn
   <3>6. CASE WakeOnEvent
     BY <3>6, <3>b, <3>c, <3>d, <3>g DEF WakeOnEvent, HasOwn
   <3>7. CASE Sleep
     BY <3>7, <3>b, <3>c, <3>d, <3>g DEF Sleep, HasOwn
   <3>8. ~(WakeOnCancel \/ WaitTimesOut \/ DequeueFails)
     BY <2>d DEF WakeOnCancel, WaitTimesOut, DequeueFails, GiveUp
   <3>9. CASE Dequeue
     <4>1. rxQueue # <<>> /\ pc = "dequeue" /\ pc' = "reset" /\ rxQueue' = Tail(rxQueue)
           /\ resp' = Head(rxQueue)
           /\ UNCHANGED <<toModem, fromModem, rdBuf, rt, cmd, stage, completed, result, waiting>>
       BY <3>9, <3>b DEF Dequeue
     <4>2. InQueue
       BY <4>1, <3>b DEF InFlight, Nowhere, AtModem, OnTheWay, InBuffer, Silent
     <4>3. PICK r \in Response : rxQueue = <<r>> /\ Own(r, cmd, stage)
       BY <4>2 DEF InQueue
     <4>4. resp' = r /\ rxQueue' = <<>>
       BY <4>1, <4>3
     <4>5. Nowhere'
       BY <4>1, <4>2, <4>4 DEF InQueue, Nowhere, Silent
     <4>6. HasOwn'
       BY <4>1, <4>3, <4>4 DEF HasOwn
     <4> QED BY <4>1, <4>5, <4>6, <2>b, <3>b, <3>c, <3>g DEF InFlight
   <3>10. CASE ResetEvent
     <4>1. pc = "reset" /\ Own(resp, cmd, stage)
       BY <3>10, <3>b DEF ResetEvent, HasOwn
     <4>2. CommandRead("read", resp)
       BY <3>10, <3>b DEF ResetEvent, ReadReturns
     <4>3. resp' = resp /\ UNCHANGED <<cmd, stage>>
       BY <3>10, <4>2 DEF ResetEvent, CommandRead, ReadResponse
     <4>4. \/ pc' = "set2"
           \/ pc' = "gotResponse" /\ ~(stage = "cmd1" /\ SendsPhase2(resp))
       BY <4>1, <4>2, <4>3 DEF CommandRead, Own
     <4>5. HasOwn'
       BY <4>1, <4>3, <4>4 DEF HasOwn, Own, LastLine, SendsPhase2
     <4> QED BY <3>10, <4>1, <4>3, <4>4, <4>5, <3>b, <3>c, <3>e, <3>f, <3>g DEF ResetEvent
   <3>11. CASE SetForPhase2
     BY <3>11, <3>b, <3>c, <3>e, <3>f, <3>g DEF SetForPhase2, HasOwn
   <3>12. CASE WritePhase2
     <4>1. Nowhere /\ pc' = "check" /\ stage' = "cmd2"
           /\ UNCHANGED <<fromModem, rdBuf, rxQueue, cmd, rt, completed, result, waiting>>
       BY <3>12, <3>e DEF WritePhase2
     <4>2. \/ toModem' = <<>>
           \/ toModem' = <<[cmd |-> cmd, line |-> "cmd2"]>>
       BY <3>12, <4>1 DEF WritePhase2, Write, WriteFails, Nowhere
     <4>3. InFlight'
       BY <4>1, <4>2 DEF InFlight, Nowhere, AtModem, Silent
     <4> QED BY <4>1, <4>3, <2>b, <3>b, <3>c, <3>g DEF HasOwn
   <3>13. ~(WriteAbort \/ SetForPing \/ FlushForPing \/ WritePing \/ PingOtherChannel
            \/ WaitForResponse)
     BY <3>b DEF WriteAbort, SetForPing, FlushForPing, WritePing, PingOtherChannel,
                 WaitForResponse
   <3>14. CASE AttemptEnds
     BY <3>14, <3>b, <3>c, <3>e, <3>f, <3>g
     DEF AttemptEnds, GetResponseReturned, HasOwn
   <3>15. ~(WaitOn \/ Retry \/ NoRetryLeft)
     BY <3>b DEF WaitOn, Retry, NoRetryLeft, HasOwn, Own
   <3>16. CASE Finish
     <4>1. cmd \in Cmds /\ result \in [Cmds -> Response] /\ completed \in [Cmds -> Nat]
       BY <3>16 DEF Finish, TypeInv, TypeOK, CmdInv
     <4>2. /\ result' = [result EXCEPT ![cmd] = resp]
           /\ completed' = [completed EXCEPT ![cmd] = @ + 1]
       BY <3>16 DEF Finish
     <4>3. cmd \in Noops \/ (Own(resp, cmd, stage) /\ LastLine(resp, cmd))
       BY <3>16, <3>b DEF Finish, HasOwn
     <4>4. Answered'
       BY <4>1, <4>2, <4>3, <3>b DEF Answered, Own, LastLine
     <4> QED BY <3>16, <4>4, <3>b, <3>c, <3>e, <3>f DEF Finish, HasOwn
   <3>17. ASSUME UNCHANGED <<cmdVars>>, InFlight',
                 rt' = "claimed" => rdBuf'.kind = "answer"
          PROVE  CleanInv'
     BY <3>17, <3>b, <3>c, <3>g DEF HasOwn
   <3>18. CASE ReadFromPort
     <4>1. /\ fromModem # <<>> /\ fromModem' = Tail(fromModem) /\ rdBuf' = Head(fromModem)
           /\ rt' = "have" /\ UNCHANGED <<cmdVars, rxQueue, toModem>>
       BY <3>18 DEF ReadFromPort
     <4>2. NoAnswer(fromModem) => rdBuf'.kind # "answer" /\ NoAnswer(fromModem')
       BY <4>1, <2>a, ReadOne
     <4>3. OneOwn(fromModem, cmd, stage) =>
               \/ Own(rdBuf', cmd, stage) /\ NoAnswer(fromModem')
               \/ rdBuf'.kind # "answer" /\ OneOwn(fromModem', cmd, stage)
       BY <4>1, <2>a, ReadOne
     <4>4. InFlight'
       <5>1. CASE Nowhere
         BY <5>1, <4>1, <4>2 DEF InFlight, Nowhere, Silent
       <5>2. CASE pc \in Awaiting /\ AtModem
         BY <5>2, <4>1, <4>2 DEF InFlight, AtModem, Silent
       <5>3. CASE pc \in Awaiting /\ OnTheWay
         BY <5>3, <4>1, <4>3 DEF InFlight, OnTheWay, InBuffer
       <5>4. CASE pc \in Awaiting /\ InBuffer
         BY <5>4, <4>1, <4>2 DEF InFlight, InBuffer, Nowhere, Silent
       <5>5. CASE pc \in Awaiting /\ InQueue
         BY <5>5, <4>1, <4>2 DEF InFlight, InQueue
       <5> QED BY <5>1, <5>2, <5>3, <5>4, <5>5, <3>b DEF InFlight
     <4> QED BY <4>1, <4>4, <3>17
   <3>19. CASE ClaimResponse
     <4>1. InFlight'
       BY <3>19, <3>b DEF ClaimResponse, InFlight, Nowhere, AtModem, OnTheWay,
          InBuffer, InQueue, Silent
     <4> QED BY <3>19, <4>1, <3>17 DEF ClaimResponse
   <3>20. CASE PassOver
     <4>1. /\ rdBuf'.kind # "answer" /\ rt' = "read"
           /\ UNCHANGED <<cmdVars, toModem, fromModem, rxQueue>>
       BY <3>20 DEF PassOver, NullResp
     <4>2. InFlight'
       BY <4>1, <3>b DEF InFlight, Nowhere, AtModem, OnTheWay, InBuffer, InQueue, Silent
     <4> QED BY <4>1, <4>2, <3>17
   <3>21. CASE EnqueueResponse
     <4>1. /\ rdBuf'.kind # "answer" /\ rdBuf.kind = "answer" /\ rt' = "queued"
           /\ rxQueue' = Append(rxQueue, rdBuf)
           /\ UNCHANGED <<cmdVars, toModem, fromModem>>
       BY <3>21, <2>b DEF EnqueueResponse, NullResp
     <4>2. pc \in Awaiting /\ InBuffer
       BY <4>1, <3>b DEF InFlight, Nowhere, AtModem, OnTheWay, InQueue, Silent
     <4>3. rxQueue' = <<rdBuf>>
       BY <4>1, <4>2 DEF InBuffer
     <4>4. InFlight'
       BY <4>1, <4>2, <4>3, <2>a DEF InFlight, InBuffer, InQueue, Own
     <4> QED BY <4>1, <4>4, <3>17
   <3>22. CASE SignalResponse
     BY <3>22, <3>b, <3>17 DEF SignalResponse, InFlight, Nowhere, AtModem, OnTheWay,
        InBuffer, InQueue, Silent
   <3>23. CASE ModemAnswers
     <4>1. PICK ok \in BOOLEAN : fromModem' = Append(fromModem, Answer(Head(toModem), ok))
       BY <3>23 DEF ModemAnswers
     <4>2. /\ toModem # <<>> /\ toModem' = Tail(toModem)
           /\ UNCHANGED <<cmdVars, rxQueue, rdBuf, rt>>
       BY <3>23 DEF ModemAnswers
     <4>3. pc \in Awaiting /\ AtModem
       BY <4>2, <3>b DEF InFlight, Nowhere, OnTheWay, InBuffer, InQueue
     <4>4. Head(toModem) = [cmd |-> cmd, line |-> stage] /\ toModem' = <<>>
       BY <4>2, <4>3 DEF AtModem
     <4>5. Head(toModem) \in Line
       BY <2>a, <4>2, HeadTailProperties
     <4>6. Own(Answer(Head(toModem), ok), cmd, stage) /\ Answer(Head(toModem), ok) \in Response
       BY <4>4, <4>5 DEF Own, Answer, Response, Line
     <4>7. OneOwn(fromModem', cmd, stage)
       BY <4>1, <4>3, <4>6, <2>a, AppendOwn DEF AtModem, Silent
     <4>8. InFlight'
       BY <4>2, <4>3, <4>4, <4>7 DEF InFlight, AtModem, OnTheWay, Silent
     <4> QED BY <4>2, <4>8, <2>b, <3>17
   <3>24. CASE ModemIgnores
     <4>1. /\ toModem # <<>> /\ toModem' = Tail(toModem)
           /\ UNCHANGED <<cmdVars, rxQueue, rdBuf, rt, fromModem>>
       BY <3>24 DEF ModemIgnores
     <4>2. AtModem
       BY <4>1, <3>b DEF InFlight, Nowhere, OnTheWay, InBuffer, InQueue
     <4>3. toModem' = <<>>
       BY <4>1, <4>2 DEF AtModem
     <4>4. InFlight'
       BY <4>1, <4>2, <4>3 DEF InFlight, AtModem, Nowhere, Silent
     <4> QED BY <4>1, <4>4, <2>b, <3>17
   <3>25. CASE ModemNotifies
     <4>1. /\ fromModem' = Append(fromModem, UrcResp)
           /\ UNCHANGED <<cmdVars, rxQueue, rdBuf, rt, toModem>>
       BY <3>25 DEF ModemNotifies
     <4>2. UrcResp \in Response /\ UrcResp.kind # "answer"
       BY DEF UrcResp, Response, LineKind
     <4>3. /\ NoAnswer(fromModem) => NoAnswer(fromModem')
           /\ OneOwn(fromModem, cmd, stage) => OneOwn(fromModem', cmd, stage)
       BY <4>1, <4>2, <2>a, AppendOther
     <4>4. InFlight'
       BY <4>1, <4>3, <3>b DEF InFlight, Nowhere, AtModem, OnTheWay, InBuffer, InQueue, Silent
     <4> QED BY <4>1, <4>4, <2>b, <3>17
   <3>26. CASE CloseChannelPorts
     BY <3>26, <3>b, <2>b, <3>17 DEF CloseChannelPorts, InFlight, Nowhere, AtModem,
        OnTheWay, InBuffer, InQueue, Silent
   <3>27. CASE UNCHANGED vars
     BY <3>27, <3>b, <2>b, <3>17 DEF vars, InFlight, Nowhere, AtModem,
        OnTheWay, InBuffer, InQueue, Silent
   <3> QED
     BY <3>1, <3>2, <3>3, <3>4, <3>5, <3>6, <3>7, <3>8, <3>9, <3>10, <3>11, <3>12,
        <3>13, <3>14, <3>15, <3>16, <3>18, <3>19, <3>20, <3>21, <3>22, <3>23, <3>24,
        <3>25, <3>26, <3>27
     DEF Next, SendCommandStep, ResponseThreadStep, ModemStep
  <2> QED BY <2>c, <2>d
<1> QED BY <1>1, <1>2, TypeCorrect, PTL DEF Spec, TypeInv

(* As long as no read was given up, a completed command holds the modem's    *)
(* answer to its own last line: the line or its answer is in one place      *)
(* while SendCommand waits, and nowhere once it has read.                   *)
THEOREM AnswersAreOwn == Spec => []OwnAnswer
<1>1. CleanInv => OwnAnswer
  BY DEF CleanInv, OwnAnswer, Answered, LastLine
<1> QED BY <1>1, AnswersOwn, PTL
=============================================================================
