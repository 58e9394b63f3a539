------------------------------- MODULE LibRil -------------------------------
(***************************************************************************)
(* libril (libril/ril.cpp, ril_event.cpp): the event thread, which accepts  *)
(* the framework's connection, reads its requests and runs the timers; the  *)
(* list of pending requests; and the threads of the RIL, which complete the *)
(* requests and send unsolicited messages.  The framework may die and come  *)
(* back: its pending requests are cancelled when the socket is found closed.*)
(*                                                                          *)
(* The payloads, the debug and SAP sockets and the stored NITZ are left out.*)
(* RIL_onRequestAck is never called by the Rapid RIL, so no solicited       *)
(* response takes the wake lock; every unsolicited message here does.       *)
(***************************************************************************)
EXTENDS WakeLock, Sequences

CONSTANTS
    Requests,  \* the requests of the framework and of the debug port
    MaxConns,  \* bound: connections of the framework
    MaxTwice   \* bound: times the RIL completes a token again

ASSUME LibRilAssumption ==
    /\ MaxConns \in Nat /\ MaxTwice \in Nat
    /\ "message" \notin Requests /\ "nothing" \notin Requests

Conns == 1 .. MaxConns

VARIABLES
    fdCommand,  \* the connection the descriptor was opened for, 0 for -1
    open,       \* that descriptor is open on this side
    peer,       \* the framework's side: "up" or "gone"
    watched,    \* s_commands_event is in the watch table
    listening,  \* s_listen_event is in the watch table
    conns,      \* history: connections accepted
    lpc,        \* what the event thread does
    greetings,  \* messages it still has to send to a new connection
    pending,    \* s_pendingRequests
    cancelled,  \* the requests marked cancelled
    issued,     \* per request: its connection, 0 if it was not made
    local,      \* the requests of the debug port
    owned,      \* the tokens the RIL has still to complete
    twice,      \* history: completions of a token already completed
    pc,         \* per sender: its step of RIL_onRequestComplete or of a send
    cur,        \* per sender: the request it completes, or "message"
    fd,         \* per sender: fdCommand as sendResponseRaw has read it
    answers,    \* history, per request: the connections it was answered on
    acksDue,    \* acknowledgements the framework may still send
    dead        \* the process has killed itself

sockVars  == <<fdCommand, open, peer, watched, listening, conns, lpc, greetings>>
listVars  == <<pending, cancelled, issued, local, owned, twice>>
sendVars  == <<pc, cur, fd, answers, acksDue>>
vars == <<wakeVars, sockVars, listVars, sendVars, dead>>

Init ==
    /\ WakeInit
    /\ fdCommand = 0
    /\ open = FALSE
    /\ peer = "gone"
    /\ watched = FALSE
    /\ listening = TRUE
    /\ conns = 0
    /\ lpc = "select"
    /\ greetings = 0
    /\ pending = {}
    /\ cancelled = {}
    /\ issued = [r \in Requests |-> 0]
    /\ local = {}
    /\ owned = {}
    /\ twice = 0
    /\ pc = [t \in Senders |-> "idle"]
    /\ cur = [t \in Senders |-> "nothing"]
    /\ fd = [t \in Senders |-> 0]
    /\ answers = [r \in Requests |-> <<>>]
    /\ acksDue = 0
    /\ dead = FALSE
-----------------------------------------------------------------------------
(* The event thread: ril_event_loop, and the callbacks it fires.            *)

(* listenCallback: the framework connects; the listen event fires once.     *)
ListenCallback ==
    /\ lpc = "select" /\ fpc = "none"
    /\ listening
    /\ conns < MaxConns
    /\ conns' = conns + 1
    /\ fdCommand' = conns'
    /\ open' = TRUE
    /\ peer' = "up"
    /\ watched' = TRUE
    /\ listening' = FALSE
    /\ acksDue' = 0
    /\ lpc' = "greet"
    /\ greetings' = 2
    /\ UNCHANGED <<wakeVars, listVars, pc, cur, fd, answers, dead>>

(* Another process connects: it is refused, and the list is marked again.   *)
ListenCallbackRefuses ==
    /\ lpc = "select" /\ fpc = "none"
    /\ listening
    /\ cancelled' = cancelled \cup pending
    /\ UNCHANGED <<wakeVars, sockVars, sendVars, dead,
                   pending, issued, local, owned, twice>>

(* The bound on the timers may cut the greeting of a connection short.      *)
NoTimerLeft == \A i \in Timers : timer[i] # "unused"

(* onNewCommandConnect: RIL_CONNECTED, then the radio state.                *)
OnNewCommandConnect ==
    /\ lpc = "greet"
    /\ pc["loop"] = "idle"
    /\ \/ /\ greetings > 0
          /\ greetings' = greetings - 1
          /\ GrabPartialWakeLock("loop")
          /\ pc' = [pc EXCEPT !["loop"] = "grab"]
          /\ cur' = [cur EXCEPT !["loop"] = "message"]
          /\ UNCHANGED lpc
       \/ /\ greetings = 0 \/ NoTimerLeft
          /\ lpc' = "select"
          /\ greetings' = 0
          /\ UNCHANGED <<wakeVars, pc, cur>>
    /\ UNCHANGED <<fdCommand, open, peer, watched, listening, conns,
                   listVars, fd, answers, acksDue, dead>>

(* The framework dies: its end of the socket is closed.                     *)
FrameworkDies ==
    /\ peer = "up"
    /\ peer' = "gone"
    /\ UNCHANGED <<wakeVars, listVars, sendVars, dead,
                   fdCommand, open, watched, listening, conns, lpc, greetings>>

(* select fails on the descriptor a writer has closed: ril_event_loop       *)
(* returns and eventLoop kills the process.                                 *)
SelectFails ==
    /\ lpc = "select" /\ fpc = "none"
    /\ watched /\ ~open
    /\ dead' = TRUE
    /\ UNCHANGED <<wakeVars, sockVars, listVars, sendVars>>

(* select finds the socket readable: processCommandsCallback.               *)
SelectReadable ==
    /\ lpc = "select" /\ fpc = "none"
    /\ watched /\ open
    /\ lpc' = "read"
    /\ UNCHANGED <<wakeVars, listVars, sendVars, dead, fdCommand, open, peer,
                   watched, listening, conns, greetings>>

(* processCommandBuffer: a request is listed and given to the RIL.          *)
ProcessCommandBuffer(r) ==
    /\ lpc = "read"
    /\ issued[r] = 0 /\ r \notin local
    /\ issued' = [issued EXCEPT ![r] = fdCommand]
    /\ pending' = pending \cup {r}
    /\ owned' = owned \cup {r}
    /\ UNCHANGED <<wakeVars, sockVars, sendVars, dead, cancelled, local, twice>>

(* processCommandBuffer: RIL_RESPONSE_ACKNOWLEDGEMENT.                      *)
ProcessAcknowledgement ==
    /\ lpc = "read"
    /\ acksDue > 0
    /\ acksDue' = acksDue - 1
    /\ ReleaseWakeLock("loop")
    /\ UNCHANGED <<sockVars, listVars, pc, cur, fd, answers, dead>>

(* Nothing more to read for now (EAGAIN).                                   *)
ReadAgain ==
    /\ lpc = "read"
    /\ peer = "up"
    /\ lpc' = "select"
    /\ UNCHANGED <<wakeVars, listVars, sendVars, dead, fdCommand, open, peer,
                   watched, listening, conns, greetings>>

(* issueLocalRequest, from the debug port.                                  *)
IssueLocalRequest(r) ==
    /\ lpc = "select" /\ fpc = "none"
    /\ issued[r] = 0 /\ r \notin local
    /\ local' = local \cup {r}
    /\ pending' = pending \cup {r}
    /\ owned' = owned \cup {r}
    /\ UNCHANGED <<wakeVars, sockVars, sendVars, dead, cancelled, issued, twice>>

(* End of stream, or an error on a descriptor a writer has closed.          *)
CloseCommandSocket ==
    /\ lpc = "read"
    /\ peer = "gone"
    /\ open' = FALSE
    /\ fdCommand' = 0
    /\ watched' = FALSE
    /\ lpc' = "closed"
    /\ UNCHANGED <<wakeVars, listVars, sendVars, dead, peer, listening, conns,
                   greetings>>

(* Mutant: the socket is not listened to again.                             *)
ListenAgainNever ==
    /\ lpc = "closed"
    /\ lpc' = "mark"
    /\ UNCHANGED <<wakeVars, listVars, sendVars, dead, fdCommand, open, peer,
                   watched, conns, greetings, listening>>

ListenAgain ==
    /\ lpc = "closed"
    /\ listening' = TRUE
    /\ lpc' = "mark"
    /\ UNCHANGED <<wakeVars, listVars, sendVars, dead, fdCommand, open, peer,
                   watched, conns, greetings>>

(* Mutant: the requests stay as they are.                                   *)
OnCommandsSocketClosedSilent ==
    /\ lpc = "mark"
    /\ lpc' = "select"
    /\ UNCHANGED <<wakeVars, sendVars, dead, pending, issued, local, owned, twice,
                   fdCommand, open, peer, watched, listening, conns, greetings,
                   cancelled>>

(* onCommandsSocketClosed marks what is pending, local requests too.        *)
OnCommandsSocketClosed ==
    /\ lpc = "mark"
    /\ cancelled' = cancelled \cup pending
    /\ lpc' = "select"
    /\ UNCHANGED <<wakeVars, sendVars, dead, pending, issued, local, owned, twice,
                   fdCommand, open, peer, watched, listening, conns, greetings>>
-----------------------------------------------------------------------------
(* The threads of the RIL.                                                  *)

(* Mutant: a completed request stays in the list.                           *)
OnRequestCompleteKeeps(t, r) ==
    /\ pc[t] = "idle"
    /\ \/ r \in owned /\ twice' = twice
       \/ /\ issued[r] # 0 \/ r \in local
          /\ r \notin owned
          /\ twice < MaxTwice
          /\ twice' = twice + 1
    /\ owned' = owned \ {r}
    /\ IF r \in pending
       THEN /\ pc' = [pc EXCEPT ![t] = "taken"]
            /\ cur' = [cur EXCEPT ![t] = r]
       ELSE UNCHANGED <<pc, cur>>
    /\ UNCHANGED <<wakeVars, sockVars, dead, cancelled, issued, local, fd,
                   answers, acksDue, pending>>

(* RIL_onRequestComplete takes the request from the list; one that is not   *)
(* there is refused ("invalid RIL_Token").                                  *)
OnRequestComplete(t, r) ==
    /\ pc[t] = "idle"
    /\ \/ r \in owned /\ twice' = twice
       \/ /\ issued[r] # 0 \/ r \in local
          /\ r \notin owned
          /\ twice < MaxTwice
          /\ twice' = twice + 1
    /\ owned' = owned \ {r}
    /\ IF r \in pending
       THEN /\ pending' = pending \ {r}
            /\ pc' = [pc EXCEPT ![t] = "taken"]
            /\ cur' = [cur EXCEPT ![t] = r]
       ELSE UNCHANGED <<pending, pc, cur>>
    /\ UNCHANGED <<wakeVars, sockVars, dead, cancelled, issued, local, fd,
                   answers, acksDue>>

(* Local and cancelled requests are not answered.                           *)
TestCancelled(t) ==
    /\ pc[t] = "taken"
    /\ IF cur[t] \in local \cup cancelled
       THEN /\ pc' = [pc EXCEPT ![t] = "idle"]
            /\ cur' = [cur EXCEPT ![t] = "nothing"]
       ELSE /\ pc' = [pc EXCEPT ![t] = "send"]
            /\ UNCHANGED cur
    /\ UNCHANGED <<wakeVars, sockVars, listVars, fd, answers, acksDue, dead>>

(* RIL_onUnsolicitedResponse takes the wake lock first.                     *)
OnUnsolicitedResponse(t) ==
    /\ t # "loop"
    /\ pc[t] = "idle"
    /\ GrabPartialWakeLock(t)
    /\ pc' = [pc EXCEPT ![t] = "grab"]
    /\ cur' = [cur EXCEPT ![t] = "message"]
    /\ UNCHANGED <<sockVars, listVars, fd, answers, acksDue, dead>>

(* The other steps of grabPartialWakeLock.                                  *)
GrabGoesOn(t) ==
    /\ pc[t] = "grab"
    /\ \/ CountMessage(t) /\ UNCHANGED pc
       \/ TrackTimer(t) /\ pc' = [pc EXCEPT ![t] = "built"]
    /\ UNCHANGED <<sockVars, listVars, cur, fd, answers, acksDue, dead>>

(* The message is built; a payload that cannot be is an error exit.         *)
BuildMessage(t) ==
    /\ pc[t] = "built"
    /\ \/ /\ pc' = [pc EXCEPT ![t] = "send"]
          /\ UNCHANGED <<wakeVars, cur>>
       \/ /\ t # "loop"
          /\ ReleaseWakeLock(t)
          /\ pc' = [pc EXCEPT ![t] = "idle"]
          /\ cur' = [cur EXCEPT ![t] = "nothing"]
    /\ UNCHANGED <<sockVars, listVars, fd, answers, acksDue, dead>>

(* sendResponseRaw reads fdCommand without a lock.                          *)
SendResponseRaw(t) ==
    /\ pc[t] = "send"
    /\ fd' = [fd EXCEPT ![t] = fdCommand]
    /\ IF fdCommand = 0
       THEN /\ pc' = [pc EXCEPT ![t] = "idle"]
            /\ cur' = [cur EXCEPT ![t] = "nothing"]
       ELSE /\ pc' = [pc EXCEPT ![t] = "write"]
            /\ UNCHANGED cur
    /\ UNCHANGED <<wakeVars, sockVars, listVars, answers, acksDue, dead>>

(* The message reaches the framework: on the connection it was meant for,   *)
(* or on a later one that was given the same descriptor.                    *)
Delivered(t, c) ==
    /\ c = fdCommand /\ fdCommand >= fd[t] /\ open /\ peer = "up"
    /\ IF cur[t] = "message"
       THEN acksDue' = acksDue + 1 /\ UNCHANGED answers
       ELSE /\ answers' = [answers EXCEPT ![cur[t]] = Append(@, c)]
            /\ UNCHANGED acksDue
    /\ UNCHANGED open

(* blockingWrite fails and closes the descriptor; fdCommand keeps it.       *)
WriteFails(t) ==
    /\ ~(fd[t] = fdCommand /\ open /\ peer = "up")
    /\ open' = (open /\ fd[t] # fdCommand)
    /\ UNCHANGED <<answers, acksDue>>

BlockingWrite(t) ==
    /\ pc[t] = "write"
    /\ WriteFails(t) \/ \E c \in Conns : Delivered(t, c)
    /\ pc' = [pc EXCEPT ![t] = "idle"]
    /\ cur' = [cur EXCEPT ![t] = "nothing"]
    /\ fd' = [fd EXCEPT ![t] = 0]
    /\ UNCHANGED <<wakeVars, fdCommand, peer, watched, listening, conns, lpc,
                   greetings, listVars, dead>>
-----------------------------------------------------------------------------
TimerStep ==
    /\ \/ lpc = "select" /\ FireTimer
       \/ CallbackStep
    /\ UNCHANGED <<sockVars, listVars, sendVars, dead>>

SocketStep ==
    \/ ListenCallback \/ ListenCallbackRefuses \/ OnNewCommandConnect
    \/ SelectFails \/ SelectReadable
    \/ \E r \in Requests : ProcessCommandBuffer(r) \/ IssueLocalRequest(r)
    \/ ProcessAcknowledgement \/ ReadAgain
    \/ CloseCommandSocket \/ ListenAgain \/ OnCommandsSocketClosed

SendStep(t) ==
    \/ \E r \in Requests : t # "loop" /\ OnRequestComplete(t, r)
    \/ TestCancelled(t)
    \/ OnUnsolicitedResponse(t) \/ GrabGoesOn(t) \/ BuildMessage(t)
    \/ SendResponseRaw(t) \/ BlockingWrite(t)

Next ==
    /\ ~dead
    /\ \/ TimerStep \/ SocketStep \/ FrameworkDies
       \/ \E t \in Senders : SendStep(t)

(* A sender that has begun goes on; the mutexes are only held for a few     *)
(* steps.                                                                   *)
SenderGoesOn(t) ==
    TestCancelled(t) \/ GrabGoesOn(t) \/ BuildMessage(t)
    \/ SendResponseRaw(t) \/ BlockingWrite(t)

(* What the event thread does when it has something to do.                  *)
LoopGoesOn ==
    \/ TimerStep \/ SelectFails \/ ReadAgain
    \/ CloseCommandSocket \/ ListenAgain \/ OnCommandsSocketClosed
    \/ OnNewCommandConnect

(* The event thread runs, and does not read for ever before it comes back   *)
(* to its timers; a socket with its other end closed is readable.           *)
Fairness ==
    /\ WF_vars(~dead /\ LoopGoesOn)
    /\ SF_vars(~dead /\ TimerStep)
    /\ SF_vars(~dead /\ peer = "gone" /\ SelectReadable)
    /\ \A t \in Senders : WF_vars(~dead /\ SenderGoesOn(t))

Spec == Init /\ [][Next]_vars /\ Fairness
-----------------------------------------------------------------------------
SocketTypeOK ==
    /\ fdCommand \in Conns \cup {0}
    /\ open \in BOOLEAN /\ watched \in BOOLEAN /\ listening \in BOOLEAN
    /\ peer \in {"up", "gone"}
    /\ conns \in Conns \cup {0}
    /\ lpc \in {"select", "greet", "read", "closed", "mark"}
    /\ greetings \in 0 .. 2
    /\ pending \subseteq Requests /\ cancelled \subseteq Requests
    /\ local \subseteq Requests /\ owned \subseteq Requests
    /\ issued \in [Requests -> Conns \cup {0}]
    /\ twice \in Nat
    /\ pc \in [Senders -> {"idle", "taken", "grab", "built", "send", "write"}]
    /\ cur \in [Senders -> Requests \cup {"message", "nothing"}]
    /\ fd \in [Senders -> Conns \cup {0}]
    /\ answers \in [Requests -> Seq(Conns)]
    /\ acksDue \in Nat
    /\ dead \in BOOLEAN

TypeOK == WakeTypeOK /\ SocketTypeOK

(* A request is answered at most once, although several threads complete    *)
(* requests, and a token may be completed twice.                            *)
AnsweredAtMostOnce == \A r \in Requests : Len(answers[r]) <= 1

(* When the event thread is back at select, every request still pending     *)
(* from an earlier connection is marked cancelled: the framework's next     *)
(* connection cannot be sent the answers of the previous one, save those a  *)
(* thread had already taken.                                                *)
EarlierMarked ==
    lpc \in {"select", "greet", "read"} =>
        \A r \in pending \ local : issued[r] = fdCommand \/ r \in cancelled

(* "mark pending requests as cancelled so we dont report responses".        *)
NoStaleAnswer ==
    \A r \in Requests : \A i \in 1 .. Len(answers[r]) : answers[r][i] = issued[r]

(* The wake lock is let go of, with or without an acknowledgement.          *)
LockReleased == held ~> (~held \/ dead)

(* A framework that died can connect again, or the process restarts.        *)
FrameworkMayReturn == (watched /\ peer = "gone") ~> (listening \/ dead)
=============================================================================
