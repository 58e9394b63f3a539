----------------------------- MODULE DataCalls -----------------------------
(***************************************************************************)
(* Packet data calls on an XMM6260: RIL_REQUEST_SETUP_DATA_CALL,            *)
(* RIL_REQUEST_DEACTIVATE_DATA_CALL and the modem's own deactivations       *)
(* (+CGEV).  A call is a data channel with a context ID; setting it up      *)
(* takes four commands, each queued by the post handler of the one before.  *)
(* Five kinds of threads work on the channels, and each finds its channel   *)
(* anew by the context ID at every step: the main thread, the command       *)
(* thread of each data channel, the command thread of the channel that      *)
(* deactivations go to (DLC2), and the response thread that reads +CGEV.    *)
(* Each access to a channel locks; what is done between two does not.       *)
(*                                                                          *)
(* Outside: the modem's contexts, which an AT command or the network        *)
(* changes, and the framework, which remembers the calls it was told of.    *)
(* A reset of the modem, the radio going off, NO CARRIER and the default    *)
(* PDN of LTE are left out; malloc succeeds and requests are well formed.   *)
(***************************************************************************)
EXTENDS Integers, Sequences, FiniteSets

CONSTANTS
    NChannels,       \* data channels
    MaxSetups,       \* bound: SETUP_DATA_CALL requests
    MaxDeactivates,  \* bound: DEACTIVATE_DATA_CALL requests
    MaxEvents        \* bound: +CGEV notifications

ASSUME DataCallsAssumption ==
    /\ NChannels \in Nat \ {0}
    /\ MaxSetups \in Nat
    /\ MaxDeactivates \in Nat
    /\ MaxEvents \in Nat

VARIABLES
    contextID,  \* m_uiContextID of each data channel, 0 when it is free
    dataState,  \* m_dataState
    refCount,   \* m_refCount
    interface,  \* the channel is in data mode (GSMIOC_ENABLE_NET)
    blocked,    \* m_bReadThreadBlocked
    queue,      \* the Tx queue of each data channel
    inHand,     \* the command whose answer or post handler is in progress
    cpc,        \* where each data channel's command thread is
    deactQueue, \* the deactivations in DLC2's Tx queue
    npc,        \* where DLC2's command thread is
    timers,     \* triggerDeactivateDataCall, armed for these contexts
    mpc,        \* where the main thread is
    mreq,       \* the SETUP_DATA_CALL it handles
    mch,        \* its context
    upc,        \* where the response thread is
    uch,        \* the context of its notification, or the next one of a detach
    ulist,      \* the data call list it is about to send
    down,       \* DataConfigDown on each thread: its step, channel, state read
    context,    \* external: the contexts active in the modem
    notices,    \* external: the +CGEV on their way
    believed,   \* external: the calls the framework takes to be up
    status,     \* history: each SETUP_DATA_CALL
    sent,       \* history: DEACTIVATE_DATA_CALL requests and notifications
    disturbed,  \* history: contexts a notification was handled for
    refused     \* history: contexts in use the modem did not deactivate

channelVars == <<contextID, dataState, refCount, interface, blocked>>
chainVars   == <<queue, inHand, cpc>>
deactVars   == <<deactQueue, npc, timers>>
mainVars    == <<mpc, mreq, mch>>
noticeVars  == <<upc, uch, ulist>>
historyVars == <<status, sent, disturbed, refused>>
vars == <<channelVars, chainVars, deactVars, mainVars, noticeVars, down,
          context, notices, believed, historyVars>>

Channels == 1 .. NChannels
Setups   == 1 .. MaxSetups
States   == {"idle", "initing", "activating", "active", "deactivating",
             "deactivated"}

(* CGDCONT, CGACT=1, CGPADDR with XDNS?, CGDATA. *)
Stages   == {"define", "activate", "query", "enter"}
Command  == [req : Setups, stage : Stages]
NoCommand == [req |-> 0, stage |-> "define"]

(* The threads that run DataConfigDown. *)
Main   == <<"main", 0>>
Dlc2   == <<"dlc2", 0>>
Urc    == <<"urc", 0>>
Data(c) == <<"data", c>>
Threads == {Main, Dlc2, Urc} \cup {Data(c) : c \in Channels}

NotDown == [at |-> "none", ch |-> 0, seen |-> "idle"]

Init ==
    /\ contextID = [c \in Channels |-> 0]
    /\ dataState = [c \in Channels |-> "idle"]
    /\ refCount = [c \in Channels |-> 0]
    /\ interface = [c \in Channels |-> FALSE]
    /\ blocked = [c \in Channels |-> FALSE]
    /\ queue = [c \in Channels |-> << >>]
    /\ inHand = [c \in Channels |-> NoCommand]
    /\ cpc = [c \in Channels |-> "idle"]
    /\ deactQueue = << >> /\ npc = "idle" /\ timers = << >>
    /\ mpc = "idle" /\ mreq = 0 /\ mch = 0
    /\ upc = "idle" /\ uch = 0 /\ ulist = {}
    /\ down = [t \in Threads |-> NotDown]
    /\ context = {} /\ notices = << >> /\ believed = {}
    /\ status = [r \in Setups |-> "new"]
    /\ sent = [deactivates |-> 0, notices |-> 0]
    /\ disturbed = {} /\ refused = {}

-----------------------------------------------------------------------------
(* DataConfigDown, step by step: GetChnlFromContextID; RemoveInterface,      *)
(* which reads the state once and unblocks the read thread by what it read;  *)
(* ResetDataCallInfo, which frees the context ID last.                       *)

(* GetChnlFromContextID: a channel's context ID is its own number or 0. *)
Found(c) == contextID[c] = c

Begins(t, c) == down' = [down EXCEPT ![t] = [NotDown EXCEPT !.at = "lookup", !.ch = c]]
IsDown(t) == down[t].at = "none"

DownLookup(t) ==
    /\ down[t].at = "lookup"
    /\ down' = [down EXCEPT ![t] = IF Found(@.ch) THEN [@ EXCEPT !.at = "read"]
                                                ELSE NotDown]
    /\ UNCHANGED channelVars

DownRead(t) ==
    /\ down[t].at = "read"
    /\ down' = [down EXCEPT ![t].at = "remove", ![t].seen = dataState[down[t].ch]]
    /\ UNCHANGED channelVars

RemoveInterface(t) ==
    LET c == down[t].ch
    IN /\ down[t].at = "remove"
       /\ interface' = [interface EXCEPT ![c] = FALSE]
       /\ blocked' = IF down[t].seen \in {"idle", "initing", "activating"}
                     THEN blocked
                     ELSE [blocked EXCEPT ![c] = FALSE]
       /\ down' = [down EXCEPT ![t].at = "reset"]
       /\ UNCHANGED <<contextID, dataState, refCount>>

ResetDataState(t) ==
    /\ down[t].at = "reset"
    /\ dataState' = [dataState EXCEPT ![down[t].ch] = "idle"]
    /\ down' = [down EXCEPT ![t].at = "free"]
    /\ UNCHANGED <<contextID, refCount, interface, blocked>>

FreeContext(t) ==
    LET c == down[t].ch
    IN /\ down[t].at = "free"
       /\ contextID' = [contextID EXCEPT ![c] = 0]
       /\ refCount' = [refCount EXCEPT ![c] = 0]
       /\ refused' = refused \ {c}
       /\ down' = [down EXCEPT ![t] = NotDown]
       /\ UNCHANGED <<dataState, interface, blocked>>

DataConfigDown(t) ==
    /\ \/ DownLookup(t) /\ UNCHANGED refused
       \/ DownRead(t) /\ UNCHANGED refused
       \/ RemoveInterface(t) /\ UNCHANGED refused
       \/ ResetDataState(t) /\ UNCHANGED refused
       \/ FreeContext(t)
    /\ UNCHANGED <<chainVars, deactVars, mainVars, noticeVars, context, notices,
                   believed, status, sent, disturbed>>

-----------------------------------------------------------------------------
(* The main thread: requests of the framework and libril's timers.           *)

(* Slips: the one of the index is added twice; ... *)
ReserveNextIndex ==
    \E r \in Setups, c \in Channels :
       /\ mpc = "idle"
       /\ status[r] = "new" /\ \A q \in 1 .. r - 1 : status[q] # "new"
       /\ contextID[c] = 0 /\ \A d \in 1 .. c - 1 : contextID[d] # 0
       /\ contextID' = [contextID EXCEPT ![c] = c + 1]
       /\ status' = [status EXCEPT ![r] = "open"]
       /\ mpc' = "reserved" /\ mreq' = r /\ mch' = c
       /\ UNCHANGED <<dataState, refCount, interface, blocked, chainVars, deactVars,
                      noticeVars, down, context, notices, believed, sent,
                      disturbed, refused>>

(* ... a free channel is one whose state is idle. *)
ReserveIdleChannel ==
    \E r \in Setups, c \in Channels :
       /\ mpc = "idle"
       /\ status[r] = "new" /\ \A q \in 1 .. r - 1 : status[q] # "new"
       /\ dataState[c] = "idle" /\ \A d \in 1 .. c - 1 : dataState[d] # "idle"
       /\ contextID' = [contextID EXCEPT ![c] = c]
       /\ status' = [status EXCEPT ![r] = "open"]
       /\ mpc' = "reserved" /\ mreq' = r /\ mch' = c
       /\ UNCHANGED <<dataState, refCount, interface, blocked, chainVars, deactVars,
                      noticeVars, down, context, notices, believed, sent,
                      disturbed, refused>>

(* RequestSetupDataCall, CoreSetupDataCall: the first free channel is taken. *)
ReserveContext ==
    \E r \in Setups, c \in Channels :
       /\ mpc = "idle"
       /\ status[r] = "new" /\ \A q \in 1 .. r - 1 : status[q] # "new"
       /\ contextID[c] = 0 /\ \A d \in 1 .. c - 1 : contextID[d] # 0
       /\ contextID' = [contextID EXCEPT ![c] = c]
       /\ status' = [status EXCEPT ![r] = "open"]
       /\ mpc' = "reserved" /\ mreq' = r /\ mch' = c
       /\ UNCHANGED <<dataState, refCount, interface, blocked, chainVars, deactVars,
                      noticeVars, down, context, notices, believed, sent,
                      disturbed, refused>>

(* A search or another call is in the way, or no channel is free. *)
RefuseSetup ==
    \E r \in Setups :
       /\ mpc = "idle"
       /\ status[r] = "new" /\ \A q \in 1 .. r - 1 : status[q] # "new"
       /\ status' = [status EXCEPT ![r] = "done"]
       /\ UNCHANGED <<channelVars, chainVars, deactVars, mainVars, noticeVars, down,
                      context, notices, believed, sent, disturbed, refused>>

SetIniting ==
    /\ mpc = "reserved"
    /\ dataState' = [dataState EXCEPT ![mch] = "initing"]
    /\ mpc' = "inited"
    /\ UNCHANGED <<contextID, refCount, interface, blocked, chainVars, deactVars,
                   mreq, mch, noticeVars, down, context, notices, believed,
                   historyVars>>

(* The channel is looked up again; when it is gone the request is dropped:   *)
(* res is still OK, so that nobody completes the token.                      *)
QueueSetup ==
    /\ mpc = "inited"
    /\ IF Found(mch)
       THEN /\ queue' = [queue EXCEPT ![mch] =
                            Append(@, [req |-> mreq, stage |-> "define"])]
            /\ UNCHANGED status
       ELSE /\ status' = [status EXCEPT ![mreq] = "dropped"]
            /\ UNCHANGED queue
    /\ mpc' = "idle" /\ mreq' = 0 /\ mch' = 0
    /\ UNCHANGED <<channelVars, inHand, cpc, deactVars, noticeVars, down, context,
                   notices, believed, sent, disturbed, refused>>

(* RequestDeactivateDataCall, CoreDeactivateDataCall.  With the radio on its *)
(* way off or without a SIM the call is brought down here and now.           *)
RequestDeactivate(c) ==
    /\ mpc = "idle"
    /\ c \in believed
    /\ sent.deactivates < MaxDeactivates
    /\ sent' = [sent EXCEPT !.deactivates = @ + 1]
    /\ believed' = believed \ {c}
    /\ \/ /\ Begins(Main, c)
          /\ mpc' = "down" /\ mch' = 0
          /\ UNCHANGED deactQueue
       \/ /\ Found(c)
          /\ mpc' = "deactivating" /\ mch' = c
          /\ UNCHANGED <<down, deactQueue>>
       \/ /\ ~Found(c)
          /\ deactQueue' = Append(deactQueue, c)
          /\ UNCHANGED <<down, mpc, mch>>
    /\ UNCHANGED <<channelVars, chainVars, npc, timers, mreq, noticeVars, context,
                   notices, status, disturbed, refused>>

SetDeactivating ==
    /\ mpc = "deactivating"
    /\ dataState' = [dataState EXCEPT ![mch] = "deactivating"]
    /\ deactQueue' = Append(deactQueue, mch)
    /\ mpc' = "idle" /\ mch' = 0
    /\ UNCHANGED <<contextID, refCount, interface, blocked, chainVars, npc, timers,
                   mreq, noticeVars, down, context, notices, believed, historyVars>>

DeactivatedAtOnce ==
    /\ mpc = "down" /\ IsDown(Main)
    /\ mpc' = "idle"
    /\ UNCHANGED <<channelVars, chainVars, deactVars, mreq, mch, noticeVars, down,
                   context, notices, believed, historyVars>>

(* triggerDeactivateDataCall queues its command in front, without a token. *)
TriggerDeactivate ==
    /\ mpc = "idle"
    /\ timers # << >>
    /\ deactQueue' = <<Head(timers)>> \o deactQueue
    /\ timers' = Tail(timers)
    /\ UNCHANGED <<channelVars, chainVars, npc, mainVars, noticeVars, down, context,
                   notices, believed, historyVars>>

-----------------------------------------------------------------------------
(* The command thread of a data channel.  Only the chain of one setup has a  *)
(* command of high priority in the queue, so that such a command goes first. *)

Goes(c, pc) == cpc' = [cpc EXCEPT ![c] = pc]
Stage(c) == inHand[c].stage

QueueNext(c, stage) ==
    queue' = [queue EXCEPT ![c] = <<[inHand[c] EXCEPT !.stage = stage]>> \o @]

Rests(c) == Goes(c, "idle") /\ inHand' = [inHand EXCEPT ![c] = NoCommand]

(* Nothing arrives for a channel whose read thread is blocked: its commands  *)
(* time out.  Other commands may fail too.                                   *)
AnswerCommand(c) ==
    /\ cpc[c] = "idle"
    /\ queue[c] # << >>
    /\ inHand' = [inHand EXCEPT ![c] = Head(queue[c])]
    /\ queue' = [queue EXCEPT ![c] = Tail(@)]
    /\ \/ /\ ~blocked[c]
          /\ Goes(c, IF Head(queue[c]).stage = "enter" THEN "connect" ELSE "post")
          /\ context' = IF Head(queue[c]).stage \in {"activate", "enter"}
                        THEN context \cup {c} ELSE context
       \/ /\ Goes(c, "failed")
          /\ UNCHANGED context
    /\ UNCHANGED <<channelVars, deactVars, mainVars, noticeVars, down, notices,
                   believed, historyVars>>

(* A slip: the read thread goes on reading. *)
ParseWithoutBlocking(c) ==
    /\ cpc[c] = "connect"
    /\ Goes(c, IF Found(c) THEN "post" ELSE "failed")
    /\ UNCHANGED <<channelVars, queue, inHand, deactVars, mainVars, noticeVars, down,
                   context, notices, believed, historyVars>>

(* ParseEnterDataState, after CONNECT. *)
ParseEnterDataState(c) ==
    /\ cpc[c] = "connect"
    /\ Goes(c, IF Found(c) THEN "block" ELSE "failed")
    /\ UNCHANGED <<channelVars, queue, inHand, deactVars, mainVars, noticeVars, down,
                   context, notices, believed, historyVars>>

BlockReadThread(c) ==
    /\ cpc[c] = "block"
    /\ blocked' = [blocked EXCEPT ![c] = TRUE]
    /\ Goes(c, "post")
    /\ UNCHANGED <<contextID, dataState, refCount, interface, queue, inHand, deactVars,
                   mainVars, noticeVars, down, context, notices, believed,
                   historyVars>>

(* The four post handlers look the channel up and test its state ...         *)
PostHandler(c) ==
    /\ cpc[c] = "post"
    /\ Goes(c, IF /\ Found(c)
                  /\ Stage(c) = "activate" => dataState[c] = "activating"
                  /\ Stage(c) \in {"query", "enter"} => dataState[c] = "active"
               THEN "go" ELSE "failed")
    /\ UNCHANGED <<channelVars, queue, inHand, deactVars, mainVars, noticeVars, down,
                   context, notices, believed, historyVars>>

(* ... and go on: PostSetupDataCallCmdHandler, PostPdpContextActivate... *)
SetStateAndQueue(c) ==
    /\ cpc[c] = "go"
    /\ \/ /\ Stage(c) = "define"
          /\ dataState' = [dataState EXCEPT ![c] = "activating"]
          /\ QueueNext(c, "activate")
       \/ /\ Stage(c) = "activate"
          /\ dataState' = [dataState EXCEPT ![c] = "active"]
          /\ QueueNext(c, "query")
       \/ /\ Stage(c) = "query"
          /\ UNCHANGED dataState
          /\ QueueNext(c, "enter")
    /\ Rests(c)
    /\ UNCHANGED <<contextID, refCount, interface, blocked, deactVars, mainVars,
                   noticeVars, down, context, notices, believed, historyVars>>

(* PostEnterDataStateCmdHandler: SetupInterface, which may fail once the     *)
(* channel is in data mode or before, ...                                    *)
SetupInterface(c) ==
    /\ cpc[c] = "go"
    /\ Stage(c) = "enter"
    /\ \/ interface' = [interface EXCEPT ![c] = TRUE] /\ Goes(c, "count")
       \/ interface' = [interface EXCEPT ![c] = TRUE] /\ Goes(c, "failed")
       \/ UNCHANGED interface /\ Goes(c, "failed")
    /\ UNCHANGED <<contextID, dataState, refCount, blocked, queue, inHand, deactVars,
                   mainVars, noticeVars, down, context, notices, believed,
                   historyVars>>

IncrementRefCount(c) ==
    /\ cpc[c] = "count"
    /\ refCount' = [refCount EXCEPT ![c] = @ + 1]
    /\ Goes(c, "report")
    /\ UNCHANGED <<contextID, dataState, interface, blocked, queue, inHand, deactVars,
                   mainVars, noticeVars, down, context, notices, believed,
                   historyVars>>

(* ... and HandleSetupDataCallSuccess, which looks the channel up again. *)
ReportSuccess(c) ==
    /\ cpc[c] = "report"
    /\ Goes(c, IF Found(c) THEN "success" ELSE "error")
    /\ UNCHANGED <<channelVars, queue, inHand, deactVars, mainVars, noticeVars, down,
                   context, notices, believed, historyVars>>

(* Slips: an active call whose setup failed is left as it is; ... *)
FailureLeavesActive(c) ==
    /\ cpc[c] = "failed"
    /\ IF Found(c) /\ dataState[c] # "active"
       THEN Begins(Data(c), c) /\ Goes(c, "down")
       ELSE Goes(c, "error") /\ UNCHANGED down
    /\ UNCHANGED <<channelVars, queue, inHand, deactVars, mainVars, noticeVars, context,
                   notices, believed, historyVars>>

(* ... a channel that is gone ends the handler without an answer. *)
FailureReturnsEarly(c) ==
    /\ cpc[c] = "failed"
    /\ \/ /\ ~Found(c)
          /\ Rests(c)
          /\ UNCHANGED <<timers, down>>
       \/ /\ Found(c) /\ dataState[c] = "active"
          /\ timers' = Append(timers, c)
          /\ Goes(c, "error")
          /\ UNCHANGED <<down, inHand>>
       \/ /\ Found(c) /\ dataState[c] # "active"
          /\ Begins(Data(c), c)
          /\ Goes(c, "down")
          /\ UNCHANGED <<timers, inHand>>
    /\ UNCHANGED <<channelVars, queue, deactQueue, npc, mainVars, noticeVars,
                   context, notices, believed, historyVars>>

(* HandleSetupDataCallFailure: an active call is deactivated by command. *)
HandleSetupFailure(c) ==
    /\ cpc[c] = "failed"
    /\ \/ /\ ~Found(c)
          /\ Goes(c, "error")
          /\ UNCHANGED <<timers, down>>
       \/ /\ Found(c) /\ dataState[c] = "active"
          /\ timers' = Append(timers, c)
          /\ Goes(c, "error")
          /\ UNCHANGED down
       \/ /\ Found(c) /\ dataState[c] # "active"
          /\ Begins(Data(c), c)
          /\ Goes(c, "down")
          /\ UNCHANGED timers
    /\ UNCHANGED <<channelVars, queue, inHand, deactQueue, npc, mainVars, noticeVars,
                   context, notices, believed, historyVars>>

FailedSetupDown(c) ==
    /\ cpc[c] = "down" /\ IsDown(Data(c))
    /\ Goes(c, "error")
    /\ UNCHANGED <<channelVars, queue, inHand, deactVars, mainVars, noticeVars, down,
                   context, notices, believed, historyVars>>

(* RIL_onRequestComplete with the call, or with its fail cause. *)
CompleteSetup(c) ==
    /\ cpc[c] \in {"success", "error"}
    /\ status' = [status EXCEPT ![inHand[c].req] = "done"]
    /\ believed' = IF cpc[c] = "success" THEN believed \cup {c} ELSE believed
    /\ Rests(c)
    /\ UNCHANGED <<channelVars, queue, deactVars, mainVars, noticeVars, down, context,
                   notices, sent, disturbed, refused>>

CommandThread(c) ==
    \/ AnswerCommand(c) \/ ParseEnterDataState(c) \/ BlockReadThread(c)
    \/ PostHandler(c) \/ SetStateAndQueue(c) \/ SetupInterface(c)
    \/ IncrementRefCount(c) \/ ReportSuccess(c) \/ HandleSetupFailure(c)
    \/ FailedSetupDown(c) \/ CompleteSetup(c)

-----------------------------------------------------------------------------
(* DLC2's command thread: AT+CGACT=0 and PostDeactivateDataCallCmdHandler,   *)
(* which cleans up only when the modem agreed.                               *)

Notify(kind, c) ==
    /\ sent.notices < MaxEvents
    /\ sent' = [sent EXCEPT !.notices = @ + 1]
    /\ notices' = Append(notices, [kind |-> kind, ch |-> c])

AnswerDeactivate ==
    /\ npc = "idle"
    /\ deactQueue # << >>
    /\ deactQueue' = Tail(deactQueue)
    /\ LET c == Head(deactQueue)
       IN \/ /\ context' = context \ {c}
             /\ \/ c \in context /\ Notify("me", c)
                \/ UNCHANGED <<notices, sent>>
             /\ npc' = "down"
             /\ Begins(Dlc2, c)
             /\ UNCHANGED refused
          \/ /\ refused' = IF Found(c) THEN refused \cup {c} ELSE refused
             /\ UNCHANGED <<context, notices, sent, npc, down>>
    /\ UNCHANGED <<channelVars, chainVars, timers, mainVars, noticeVars, believed,
                   status, disturbed>>

DeactivateDone ==
    /\ npc = "down" /\ IsDown(Dlc2)
    /\ npc' = "idle"
    /\ UNCHANGED <<channelVars, chainVars, deactQueue, timers, mainVars, noticeVars,
                   down, context, notices, believed, historyVars>>

-----------------------------------------------------------------------------
(* The modem and the network on their own.                                   *)

ModemDeactivates(c) ==
    /\ c \in context
    /\ \E kind \in {"me", "nw"} : Notify(kind, c)
    /\ context' = context \ {c}
    /\ UNCHANGED <<channelVars, chainVars, deactVars, mainVars, noticeVars, down,
                   believed, status, disturbed, refused>>

ModemDetaches ==
    /\ Notify("detach", 0)
    /\ context' = {}
    /\ UNCHANGED <<channelVars, chainVars, deactVars, mainVars, noticeVars, down,
                   believed, status, disturbed, refused>>

-----------------------------------------------------------------------------
(* The response thread: ParseCGEV.                                           *)

HearNotice ==
    /\ upc = "idle"
    /\ notices # << >>
    /\ notices' = Tail(notices)
    /\ LET notice == Head(notices)
       IN \/ /\ notice.kind = "detach"
             /\ upc' = "clean" /\ uch' = 1
             /\ UNCHANGED disturbed
          \/ /\ notice.kind # "detach" /\ Found(notice.ch)
             /\ upc' = notice.kind /\ uch' = notice.ch
             /\ disturbed' = disturbed \cup {notice.ch}
          \/ /\ notice.kind # "detach" /\ ~Found(notice.ch)
             /\ UNCHANGED <<upc, uch, disturbed>>
    /\ UNCHANGED <<channelVars, chainVars, deactVars, mainVars, ulist, down, context,
                   believed, status, sent, refused>>

(* HandleNwDeact and NW PDN DEACT; HandleMEDeactivation, which leaves a call *)
(* alone that is being deactivated.                                          *)
HandleDeactivation ==
    /\ upc \in {"me", "nw"}
    /\ IF upc = "me" /\ dataState[uch] = "deactivating"
       THEN /\ upc' = "idle" /\ uch' = 0
            /\ UNCHANGED <<dataState, down>>
       ELSE /\ dataState' = [dataState EXCEPT ![uch] = "deactivated"]
            /\ Begins(Urc, uch)
            /\ upc' = "down"
            /\ UNCHANGED uch
    /\ UNCHANGED <<contextID, refCount, interface, blocked, chainVars, deactVars,
                   mainVars, ulist, context, notices, believed, historyVars>>

(* CleanupAllDataConnections: channel after channel. *)
CleanupNext ==
    /\ upc = "clean" /\ IsDown(Urc)
    /\ IF uch > NChannels
       THEN /\ upc' = "send" /\ uch' = 0 /\ ulist' = {}
            /\ UNCHANGED <<down, disturbed>>
       ELSE /\ uch' = uch + 1
            /\ IF Found(uch)
               THEN Begins(Urc, uch) /\ disturbed' = disturbed \cup {uch}
               ELSE UNCHANGED <<down, disturbed>>
            /\ UNCHANGED <<upc, ulist>>
    /\ UNCHANGED <<channelVars, chainVars, deactVars, mainVars, context, notices,
                   believed, status, sent, refused>>

(* CompleteDataCallListChanged: GetActiveDataCallInfoList, ... *)
ListActiveCalls ==
    /\ upc = "down" /\ IsDown(Urc)
    /\ ulist' = {contextID[c] : c \in {d \in Channels : /\ dataState[d] = "active"
                                                       /\ refCount[d] # 0}}
    /\ upc' = "send" /\ uch' = 0
    /\ UNCHANGED <<channelVars, chainVars, deactVars, mainVars, down, context, notices,
                   believed, historyVars>>

(* ... and RIL_UNSOL_DATA_CALL_LIST_CHANGED. *)
SendCallList ==
    /\ upc = "send"
    /\ believed' = believed \cap ulist
    /\ upc' = "idle" /\ ulist' = {}
    /\ UNCHANGED <<channelVars, chainVars, deactVars, mainVars, uch, down, context,
                   notices, historyVars>>

-----------------------------------------------------------------------------
MainThread == \/ SetIniting \/ QueueSetup \/ SetDeactivating \/ DeactivatedAtOnce
              \/ TriggerDeactivate

Dlc2Thread == AnswerDeactivate \/ DeactivateDone

UrcThread == \/ HearNotice \/ HandleDeactivation \/ CleanupNext
             \/ ListActiveCalls \/ SendCallList

Next ==
    \/ ReserveContext \/ RefuseSetup
    \/ \E c \in Channels : RequestDeactivate(c)
    \/ MainThread
    \/ \E c \in Channels : CommandThread(c)
    \/ Dlc2Thread
    \/ \E c \in Channels : ModemDeactivates(c)
    \/ ModemDetaches
    \/ UrcThread
    \/ \E t \in Threads : DataConfigDown(t)

Spec == Init /\ [][Next]_vars

-----------------------------------------------------------------------------
(* Every variable has its type; in particular a channel has its own context  *)
(* ID or none.                                                               *)
TypeOK ==
    /\ contextID \in [Channels -> {0} \cup Channels]
    /\ \A c \in Channels : contextID[c] \in {0, c}
    /\ dataState \in [Channels -> States]
    /\ refCount \in [Channels -> Nat]
    /\ interface \in [Channels -> BOOLEAN]
    /\ blocked \in [Channels -> BOOLEAN]
    /\ queue \in [Channels -> Seq(Command)]
    /\ inHand \in [Channels -> Command \cup {NoCommand}]
    /\ cpc \in [Channels -> {"idle", "connect", "block", "post", "go", "count",
                             "report", "success", "failed", "down", "error"}]
    /\ deactQueue \in Seq(Channels)
    /\ npc \in {"idle", "down"}
    /\ timers \in Seq(Channels)
    /\ mpc \in {"idle", "reserved", "inited", "deactivating", "down"}
    /\ mreq \in {0} \cup Setups
    /\ mch \in {0} \cup Channels
    /\ upc \in {"idle", "me", "nw", "down", "clean", "send"}
    /\ uch \in 0 .. NChannels + 1
    /\ ulist \subseteq {0} \cup Channels
    /\ down \in [Threads -> [at : {"none", "lookup", "read", "remove", "reset", "free"},
                             ch : {0} \cup Channels, seen : States]]
    /\ context \subseteq Channels
    /\ notices \in Seq([kind : {"me", "nw", "detach"}, ch : {0} \cup Channels])
    /\ believed \subseteq Channels
    /\ status \in [Setups -> {"new", "open", "done", "dropped"}]
    /\ sent \in [deactivates : 0 .. MaxDeactivates, notices : 0 .. MaxEvents]
    /\ disturbed \subseteq Channels
    /\ refused \subseteq Channels

(* The setups at work on a channel: the one the main thread prepares, those  *)
(* queued, and the one in hand until its failure has freed the context.      *)
MainPrepares(c) == mpc \in {"reserved", "inited"} /\ mch = c
InProgress(c) == cpc[c] \notin {"idle", "success", "error"}
                 /\ (cpc[c] = "down" => ~IsDown(Data(c)))

(* One setup at a time works on a data channel, unless a notification freed  *)
(* the channel under it: neither a failed setup nor a deactivation gives a   *)
(* context away that is still in use.                                        *)
OneSetupPerChannel ==
    \A c \in Channels \ disturbed :
       /\ Len(queue[c]) =< 1
       /\ MainPrepares(c) => queue[c] = << >> /\ ~InProgress(c)
       /\ InProgress(c) => queue[c] = << >>

(* A context that is taken is a call, is on its way to become one or to be   *)
(* given back, or is one the modem refused to deactivate: none is lost.      *)
Handled(c) ==
    \/ MainPrepares(c) \/ (mpc = "deactivating" /\ mch = c)
    \/ queue[c] # << >> \/ cpc[c] # "idle"
    \/ \E i \in 1 .. Len(timers) : timers[i] = c
    \/ \E i \in 1 .. Len(deactQueue) : deactQueue[i] = c
    \/ \E t \in Threads : down[t].at # "none" /\ down[t].ch = c
    \/ upc \in {"me", "nw"} /\ uch = c

NoContextLost ==
    \A c \in Channels :
       Found(c) => \/ dataState[c] = "active" /\ refCount[c] > 0
                   \/ Handled(c)
                   \/ c \in refused

(* What the framework takes for a call is one, with its interface up and its *)
(* read thread kept away from the IP data, as long as no notification came   *)
(* for it: no failed or belated step of another request tears it down.       *)
BelievedIsUp ==
    \A c \in believed \ disturbed :
       /\ Found(c)
       /\ dataState[c] = "active"
       /\ refCount[c] = 1
       /\ interface[c]
       /\ blocked[c]

(* The token of an open setup is held once: by the main thread, by a command *)
(* in a queue or by one in hand.  So the chain of commands and handlers      *)
(* completes it once and never loses it on one of its many ways out.         *)
Queued(r) ==
    UNION {{<<c, i>> : i \in {j \in 1 .. Len(queue[c]) : queue[c][j].req = r}} :
              c \in Channels}
Holders(r) ==
    Cardinality(Queued(r)) + Cardinality({c \in Channels : inHand[c].req = r})
    + IF mreq = r THEN 1 ELSE 0

TokenHeldOnce ==
    \A r \in Setups : Holders(r) = IF status[r] = "open" THEN 1 ELSE 0

(* "Unblock read thread whatever the result is to avoid forever block"       *)
(* (channel_data.cpp:1066): a free channel nobody works on reads.            *)
FreeChannelReads ==
    \A c \in Channels :
       ~Found(c) /\ ~InProgress(c) /\ ~Handled(c) => ~blocked[c]
=============================================================================
