-------------------------- MODULE DataCallsProofs --------------------------
(***************************************************************************)
(* Proofs about the data calls, for any number of channels, requests and   *)
(* notifications.                                                           *)
(***************************************************************************)
EXTENDS DataCalls, FiniteSetTheorems, SequenceTheorems, TLAPS

(* What ties the program counters to what the threads hold.                 *)
LocalInv ==
    /\ mpc \in {"reserved", "inited", "deactivating"} <=> mch # 0
    /\ mpc \in {"reserved", "inited"} <=> mreq # 0
    /\ \A c \in Channels : cpc[c] = "idle" <=> inHand[c] = NoCommand
    /\ upc \in {"me", "nw"} => uch \in Channels
    /\ upc = "clean" => uch # 0
    /\ \A i \in 1 .. Len(notices) :
          notices[i].kind # "detach" => notices[i].ch \in Channels
    /\ \A t \in Threads : down[t].at # "none" => down[t].ch \in Channels

TypeInv == TypeOK /\ LocalInv

(* Nothing is taken, queued or in hand.                                     *)
LEMMA InitTypes == Init => TypeInv
<1> SUFFICES ASSUME Init PROVE TypeInv
  OBVIOUS
<1>1. TypeOK
  BY DataCallsAssumption
     DEF Init, TypeOK, Channels, Setups, States, Command, NoCommand, Stages, NotDown
<1>2. LocalInv
  BY DEF Init, LocalInv, NotDown
<1> QED BY <1>1, <1>2 DEF TypeInv

(* The number of no setup.                                                  *)
LEMMA NoCommandIsNone == NoCommand \notin Command
BY DataCallsAssumption DEF NoCommand, Command, Setups

(* A step of DataConfigDown disturbs the channels and its own record only.  *)
DownRecord == [at : {"none", "lookup", "read", "remove", "reset", "free"},
               ch : {0} \cup Channels, seen : States]

LEMMA DownSteps ==
    ASSUME TypeInv, NEW t \in Threads, DataConfigDown(t)
    PROVE  /\ down[t].at # "none" /\ down[t].ch \in Channels
           /\ \E d \in DownRecord : /\ down' = [down EXCEPT ![t] = d]
                                    /\ d.ch \in {0, down[t].ch}
                                    /\ d.at # "none" => d.ch = down[t].ch
<1> USE DEF TypeInv
<1>1. down \in [Threads -> DownRecord] /\ down[t] \in DownRecord
  BY DEF TypeOK, DownRecord
<1>2. down[t].at # "none" /\ down[t].ch \in Channels
  BY DEF DataConfigDown, DownLookup, DownRead, RemoveInterface, ResetDataState,
         FreeContext, LocalInv
<1>3. NotDown \in DownRecord /\ NotDown.at = "none" /\ NotDown.ch = 0
  BY DEF NotDown, DownRecord, States
<1>4. CASE DownLookup(t)
  <2>1. [down[t] EXCEPT !.at = "read"] \in DownRecord
    BY <1>1 DEF DownRecord
  <2>2. CASE Found(down[t].ch)
    <3>1. down' = [down EXCEPT ![t] = [down[t] EXCEPT !.at = "read"]]
      BY <1>4, <2>2, <1>1 DEF DownLookup
    <3> QED BY <1>1, <1>2, <2>1, <3>1 DEF DownRecord
  <2>3. CASE ~Found(down[t].ch)
    <3>1. down' = [down EXCEPT ![t] = NotDown]
      BY <1>4, <2>3 DEF DownLookup
    <3> QED BY <1>2, <1>3, <3>1
  <2> QED BY <2>2, <2>3
<1>5. CASE DownRead(t)
  <2> DEFINE d == [down[t] EXCEPT !.at = "remove", !.seen = dataState[down[t].ch]]
  <2>1. d \in DownRecord /\ d.ch = down[t].ch
    BY <1>1, <1>2 DEF DownRecord, TypeOK
  <2>2. down' = [down EXCEPT ![t] = d]
    BY <1>1, <1>5 DEF DownRead
  <2> QED BY <1>2, <2>1, <2>2
<1>6. CASE RemoveInterface(t)
  <2>1. [down[t] EXCEPT !.at = "reset"] \in DownRecord
    BY <1>1 DEF DownRecord
  <2>2. down' = [down EXCEPT ![t] = [down[t] EXCEPT !.at = "reset"]]
    BY <1>1, <1>6 DEF RemoveInterface
  <2> QED BY <1>1, <1>2, <2>1, <2>2 DEF DownRecord
<1>7. CASE ResetDataState(t)
  <2>1. [down[t] EXCEPT !.at = "free"] \in DownRecord
    BY <1>1 DEF DownRecord
  <2>2. down' = [down EXCEPT ![t] = [down[t] EXCEPT !.at = "free"]]
    BY <1>1, <1>7 DEF ResetDataState
  <2> QED BY <1>1, <1>2, <2>1, <2>2 DEF DownRecord
<1>8. CASE FreeContext(t)
  BY <1>2, <1>3, <1>8 DEF FreeContext
<1> QED BY <1>2, <1>4, <1>5, <1>6, <1>7, <1>8 DEF DataConfigDown

(* What it does to the channel.                                             *)
LEMMA DownOnChannel ==
    ASSUME TypeInv, NEW t \in Threads, DataConfigDown(t)
    PROVE  \E c \in Channels :
              /\ c = down[t].ch
              /\ \/ UNCHANGED channelVars
                 \/ /\ interface' = [interface EXCEPT ![c] = FALSE]
                    /\ \/ UNCHANGED blocked
                       \/ blocked' = [blocked EXCEPT ![c] = FALSE]
                    /\ UNCHANGED <<contextID, dataState, refCount>>
                 \/ /\ dataState' = [dataState EXCEPT ![c] = "idle"]
                    /\ UNCHANGED <<contextID, refCount, interface, blocked>>
                 \/ /\ down[t].at = "free" /\ down'[t].at = "none"
                    /\ contextID' = [contextID EXCEPT ![c] = 0]
                    /\ refCount' = [refCount EXCEPT ![c] = 0]
                    /\ UNCHANGED <<dataState, interface, blocked>>
<1> USE DEF TypeInv
<1>1. down[t].ch \in Channels
  BY DownSteps
<1>2. CASE FreeContext(t)
  <2>1. down'[t].at = "none"
    BY <1>2 DEF FreeContext, NotDown, TypeOK
  <2> QED BY <1>1, <1>2, <2>1 DEF FreeContext
<1>3. CASE RemoveInterface(t)
  BY <1>1, <1>3 DEF RemoveInterface
<1>4. CASE ResetDataState(t)
  BY <1>1, <1>4 DEF ResetDataState
<1>5. CASE DownLookup(t) \/ DownRead(t)
  BY <1>1, <1>5 DEF DownLookup, DownRead
<1> QED BY <1>2, <1>3, <1>4, <1>5 DEF DataConfigDown

LEMMA DownTypes ==
    ASSUME TypeInv, NEW t \in Threads, DataConfigDown(t)
    PROVE  TypeInv'
<1> USE DEF TypeInv
<1>1. UNCHANGED <<chainVars, deactVars, mainVars, noticeVars, context, notices,
                  believed, status, sent, disturbed>>
  BY DEF DataConfigDown
<1>2. /\ contextID' \in [Channels -> {0} \cup Channels]
      /\ \A c \in Channels : contextID'[c] \in {0, c}
      /\ dataState' \in [Channels -> States]
      /\ refCount' \in [Channels -> Nat]
      /\ interface' \in [Channels -> BOOLEAN] /\ blocked' \in [Channels -> BOOLEAN]
  <2>1. "idle" \in States
    BY DEF States
  <2>2. PICK c \in Channels :
              \/ UNCHANGED channelVars
              \/ /\ interface' = [interface EXCEPT ![c] = FALSE]
                 /\ \/ UNCHANGED blocked
                    \/ blocked' = [blocked EXCEPT ![c] = FALSE]
                 /\ UNCHANGED <<contextID, dataState, refCount>>
              \/ /\ dataState' = [dataState EXCEPT ![c] = "idle"]
                 /\ UNCHANGED <<contextID, refCount, interface, blocked>>
              \/ /\ contextID' = [contextID EXCEPT ![c] = 0]
                 /\ refCount' = [refCount EXCEPT ![c] = 0]
                 /\ UNCHANGED <<dataState, interface, blocked>>
    BY DownOnChannel
  <2>3. /\ contextID' = contextID \/ contextID' = [contextID EXCEPT ![c] = 0]
        /\ refCount' = refCount \/ refCount' = [refCount EXCEPT ![c] = 0]
    BY <2>2 DEF channelVars
  <2>7. contextID' \in [Channels -> {0} \cup Channels]
    BY <2>3 DEF TypeOK
  <2>8. refCount' \in [Channels -> Nat]
    <3>1. refCount \in [Channels -> Nat]
      BY DEF TypeOK
    <3> HIDE DEF TypeInv
    <3> QED BY <2>3, <3>1
  <2>4. \A e \in Channels : contextID'[e] \in {0, e}
    BY <2>2 DEF TypeOK, channelVars
  <2>5. dataState' \in [Channels -> States]
    BY <2>1, <2>2 DEF TypeOK, channelVars
  <2>6. interface' \in [Channels -> BOOLEAN] /\ blocked' \in [Channels -> BOOLEAN]
    BY <2>2 DEF TypeOK, channelVars
  <2> QED BY <2>4, <2>5, <2>6, <2>7, <2>8
<1>3. refused' \subseteq Channels
  BY DEF DataConfigDown, FreeContext, TypeOK
<1>4. /\ down' \in [Threads -> DownRecord]
      /\ \A u \in Threads : down'[u].at # "none" => down'[u].ch \in Channels
  <2>1. PICK d \in DownRecord : /\ down' = [down EXCEPT ![t] = d]
                                /\ d.at # "none" => d.ch \in Channels
    BY DownSteps
  <2>2. down \in [Threads -> DownRecord]
    BY DEF TypeOK, DownRecord
  <2> QED BY <2>1, <2>2 DEF LocalInv
<1>5. TypeOK'
  BY <1>1, <1>2, <1>3, <1>4
     DEF TypeOK, chainVars, deactVars, mainVars, noticeVars, DownRecord
<1>6. LocalInv'
  BY <1>1, <1>4 DEF LocalInv, chainVars, deactVars, mainVars, noticeVars
<1> QED BY <1>5, <1>6

(* DataConfigDown is begun on a channel.                                    *)
LEMMA BeginTypes ==
    ASSUME TypeInv, NEW t \in Threads, NEW c \in Channels, Begins(t, c)
    PROVE  /\ down' \in [Threads -> DownRecord]
           /\ \A u \in Threads : down'[u].at # "none" => down'[u].ch \in Channels
<1>1. [NotDown EXCEPT !.at = "lookup", !.ch = c] \in DownRecord
  BY DEF NotDown, DownRecord, States
<1> QED BY <1>1 DEF TypeInv, TypeOK, LocalInv, Begins, DownRecord, NotDown

(* The main thread, the response thread and the modem.                      *)
LEMMA MainTypes ==
    ASSUME TypeInv,
           \/ ReserveContext \/ RefuseSetup \/ MainThread
           \/ \E c \in Channels : RequestDeactivate(c)
    PROVE  TypeInv'
<1> USE DataCallsAssumption
    DEF TypeInv, TypeOK, LocalInv, channelVars, chainVars, deactVars, mainVars,
        noticeVars, historyVars
<1>1. CASE ReserveContext
  <2>1. TypeOK'
    BY <1>1 DEF ReserveContext
  <2>2. LocalInv'
    BY <1>1 DEF ReserveContext, Channels, Setups
  <2> QED BY <2>1, <2>2
<1>2. CASE RefuseSetup
  <2>1. TypeOK'
    BY <1>2 DEF RefuseSetup, States
  <2>2. LocalInv'
    BY <1>2 DEF RefuseSetup
  <2> QED BY <2>1, <2>2
<1>3. CASE SetIniting
  <2>1. TypeOK'
    BY <1>3 DEF SetIniting, States
  <2>2. LocalInv'
    BY <1>3 DEF SetIniting
  <2> QED BY <2>1, <2>2
<1>4. CASE QueueSetup
  <2>1. mch \in Channels /\ mreq \in Setups
    BY <1>4 DEF QueueSetup
  <2>2. queue' \in [Channels -> Seq(Command)]
    <3>1. [req |-> mreq, stage |-> "define"] \in Command
      BY <2>1 DEF Command, Stages
    <3>2. Append(queue[mch], [req |-> mreq, stage |-> "define"]) \in Seq(Command)
      BY <2>1, <3>1
    <3>3. \/ queue' = queue
          \/ queue' = [queue EXCEPT ![mch] =
                          Append(queue[mch], [req |-> mreq, stage |-> "define"])]
      BY <1>4 DEF QueueSetup
    <3> QED BY <3>2, <3>3
  <2>3. status' \in [Setups -> {"new", "open", "done", "dropped"}]
    BY <1>4 DEF QueueSetup
  <2>4. TypeOK'
    BY <1>4, <2>2, <2>3 DEF QueueSetup
  <2>5. LocalInv'
    BY <1>4 DEF QueueSetup
  <2> QED BY <2>4, <2>5
<1>5. CASE SetDeactivating
  <2>1. TypeOK'
    BY <1>5 DEF SetDeactivating, States
  <2>2. LocalInv'
    BY <1>5 DEF SetDeactivating
  <2> QED BY <2>1, <2>2
<1>6. CASE DeactivatedAtOnce
  <2>1. TypeOK'
    BY <1>6 DEF DeactivatedAtOnce
  <2>2. LocalInv'
    BY <1>6 DEF DeactivatedAtOnce
  <2> QED BY <2>1, <2>2
<1>7. CASE TriggerDeactivate
  <2>3. deactQueue' \in Seq(Channels) /\ timers' \in Seq(Channels)
    <3>1. Head(timers) \in Channels /\ Tail(timers) \in Seq(Channels)
      BY <1>7 DEF TriggerDeactivate
    <3>2. <<Head(timers)>> \in Seq(Channels)
      BY <3>1
    <3>3. <<Head(timers)>> \o deactQueue \in Seq(Channels)
      BY <3>2
    <3> QED BY <1>7, <3>1, <3>3 DEF TriggerDeactivate
  <2>1. TypeOK'
    BY <1>7, <2>3 DEF TriggerDeactivate
  <2>2. LocalInv'
    BY <1>7 DEF TriggerDeactivate
  <2> QED BY <2>1, <2>2
<1>8. ASSUME NEW c \in Channels, RequestDeactivate(c) PROVE TypeInv'
  <2>1. Main \in Threads
    BY DEF Threads
  <2>2. /\ down' \in [Threads -> DownRecord]
        /\ \A u \in Threads : down'[u].at # "none" => down'[u].ch \in Channels
    <3>1. Begins(Main, c) \/ UNCHANGED down
      BY <1>8 DEF RequestDeactivate
    <3>2. CASE UNCHANGED down
      BY <3>2 DEF DownRecord
    <3> QED BY <2>1, <3>1, <3>2, BeginTypes
  <2>3. deactQueue' \in Seq(Channels)
    <3>1. deactQueue' \in {deactQueue, Append(deactQueue, c)}
      BY <1>8 DEF RequestDeactivate
    <3>2. Append(deactQueue, c) \in Seq(Channels)
      OBVIOUS
    <3> QED BY <3>1, <3>2
  <2>4. /\ \/ mpc' \in {"down", "deactivating"} /\ mch' \in {0} \cup Channels
           \/ UNCHANGED <<mpc, mch>>
        /\ mpc' = "deactivating" => mch' = c
        /\ mpc' = "down" => mch' = 0
        /\ mpc' \notin {"reserved", "inited"} /\ mreq' = 0 /\ mreq = 0
        /\ mpc' = "idle" => mch' = 0
    BY <1>8 DEF RequestDeactivate
  <2>5. UNCHANGED <<channelVars, chainVars, npc, timers, mreq, noticeVars, context,
                    notices, status, disturbed, refused>>
    BY <1>8 DEF RequestDeactivate
  <2>6. /\ sent' \in [deactivates : 0 .. MaxDeactivates, notices : 0 .. MaxEvents]
        /\ believed' \subseteq Channels
    <3>1. /\ sent' = [sent EXCEPT !.deactivates = sent.deactivates + 1]
          /\ sent.deactivates < MaxDeactivates
          /\ believed' = believed \ {c}
      BY <1>8 DEF RequestDeactivate
    <3>2. sent.deactivates + 1 \in 0 .. MaxDeactivates
      BY <3>1
    <3> QED BY <3>1, <3>2
  <2>7. TypeOK'
    BY <2>2, <2>3, <2>4, <2>5, <2>6 DEF DownRecord
  <2>8. LocalInv'
    BY <2>2, <2>4, <2>5 DEF Channels
  <2> QED BY <2>7, <2>8
<1> QED BY <1>1, <1>2, <1>3, <1>4, <1>5, <1>6, <1>7, <1>8 DEF MainThread

(* The command thread of a data channel.                                    *)
LEMMA RestsTypes ==
    ASSUME TypeInv, NEW c \in Channels, Rests(c)
    PROVE  /\ inHand' \in [Channels -> Command \cup {NoCommand}]
           /\ cpc' = [cpc EXCEPT ![c] = "idle"]
           /\ cpc' \in [Channels -> {"idle", "connect", "block", "post", "go", "count",
                                     "report", "success", "failed", "down", "error"}]
           /\ \A d \in Channels : cpc'[d] = "idle" <=> inHand'[d] = NoCommand
BY DEF Rests, Goes, TypeInv, TypeOK, LocalInv

LEMMA CommandTypes ==
    ASSUME TypeInv, NEW c \in Channels, CommandThread(c)
    PROVE  TypeInv'
<1> USE DEF TypeInv, TypeOK, LocalInv, channelVars, chainVars, deactVars, mainVars,
            noticeVars, historyVars, Goes
<1>1. CASE AnswerCommand(c)
  <2>1. Head(queue[c]) \in Command /\ Tail(queue[c]) \in Seq(Command)
    BY <1>1 DEF AnswerCommand
  <2>2. /\ inHand' = [inHand EXCEPT ![c] = Head(queue[c])]
        /\ queue' = [queue EXCEPT ![c] = Tail(queue[c])]
        /\ cpc' \in {[cpc EXCEPT ![c] = "connect"], [cpc EXCEPT ![c] = "post"],
                     [cpc EXCEPT ![c] = "failed"]}
        /\ context' \in {context, context \cup {c}}
    BY <1>1 DEF AnswerCommand
  <2>3. /\ inHand' \in [Channels -> Command \cup {NoCommand}]
        /\ queue' \in [Channels -> Seq(Command)]
    BY <2>1, <2>2
  <2>4. /\ cpc' \in [Channels -> {"idle", "connect", "block", "post", "go", "count",
                                  "report", "success", "failed", "down", "error"}]
        /\ cpc'[c] # "idle" /\ \A d \in Channels \ {c} : cpc'[d] = cpc[d]
    BY <2>2
  <2>5. TypeOK'
    BY <1>1, <2>2, <2>3, <2>4 DEF AnswerCommand
  <2>6. \A d \in Channels : cpc'[d] = "idle" <=> inHand'[d] = NoCommand
    BY <2>1, <2>2, <2>4, NoCommandIsNone
  <2>7. LocalInv'
    BY <1>1, <2>6 DEF AnswerCommand
  <2> QED BY <2>5, <2>7
<1>2. CASE ParseEnterDataState(c)
  <2>1. TypeOK'
    BY <1>2 DEF ParseEnterDataState
  <2>2. LocalInv'
    BY <1>2 DEF ParseEnterDataState
  <2> QED BY <2>1, <2>2
<1>3. CASE BlockReadThread(c)
  <2>1. TypeOK'
    BY <1>3 DEF BlockReadThread
  <2>2. LocalInv'
    BY <1>3 DEF BlockReadThread
  <2> QED BY <2>1, <2>2
<1>4. CASE PostHandler(c)
  <2>1. TypeOK'
    BY <1>4 DEF PostHandler
  <2>2. LocalInv'
    BY <1>4 DEF PostHandler
  <2> QED BY <2>1, <2>2
<1>5. CASE SetupInterface(c)
  <2>3. interface' \in [Channels -> BOOLEAN]
    BY <1>5 DEF SetupInterface
  <2>4. cpc' \in {[cpc EXCEPT ![c] = "count"], [cpc EXCEPT ![c] = "failed"]}
    BY <1>5 DEF SetupInterface
  <2>1. TypeOK'
    BY <1>5, <2>3, <2>4 DEF SetupInterface
  <2>2. LocalInv'
    BY <1>5 DEF SetupInterface
  <2> QED BY <2>1, <2>2
<1>6. CASE IncrementRefCount(c)
  <2>1. TypeOK'
    BY <1>6 DEF IncrementRefCount
  <2>2. LocalInv'
    BY <1>6 DEF IncrementRefCount
  <2> QED BY <2>1, <2>2
<1>7. CASE ReportSuccess(c)
  <2>1. TypeOK'
    BY <1>7 DEF ReportSuccess
  <2>2. LocalInv'
    BY <1>7 DEF ReportSuccess
  <2> QED BY <2>1, <2>2
<1>8. CASE FailedSetupDown(c)
  <2>1. TypeOK'
    BY <1>8 DEF FailedSetupDown
  <2>2. LocalInv'
    BY <1>8 DEF FailedSetupDown
  <2> QED BY <2>1, <2>2
<1>9. CASE SetStateAndQueue(c)
  <2>1. inHand[c] \in Command
    BY <1>9 DEF SetStateAndQueue
  <2>2. PICK st \in Stages : QueueNext(c, st)
    BY <1>9 DEF SetStateAndQueue, Stages
  <2>3. queue' \in [Channels -> Seq(Command)]
    <3>1. [inHand[c] EXCEPT !.stage = st] \in Command
      BY <2>1 DEF Command
    <3>2. <<[inHand[c] EXCEPT !.stage = st]>> \o queue[c] \in Seq(Command)
      BY <3>1
    <3> QED BY <2>2, <3>2 DEF QueueNext
  <2>4. dataState' \in [Channels -> States]
    BY <1>9 DEF SetStateAndQueue, States
  <2>5. Rests(c)
    BY <1>9 DEF SetStateAndQueue
  <2>8. UNCHANGED <<contextID, refCount, interface, blocked, deactVars, mainVars,
                    noticeVars, down, context, notices, believed, historyVars>>
    BY <1>9 DEF SetStateAndQueue
  <2>6. TypeOK'
    BY <2>3, <2>4, <2>5, <2>8, RestsTypes
  <2>7. LocalInv'
    BY <1>9, <2>5, RestsTypes DEF SetStateAndQueue
  <2> QED BY <2>6, <2>7
<1>10. CASE HandleSetupFailure(c)
  <2>1. Data(c) \in Threads
    BY DEF Threads
  <2>2. /\ down' \in [Threads -> DownRecord]
        /\ \A u \in Threads : down'[u].at # "none" => down'[u].ch \in Channels
    <3>1. Begins(Data(c), c) \/ UNCHANGED down
      BY <1>10 DEF HandleSetupFailure
    <3>2. CASE UNCHANGED down
      BY <3>2 DEF DownRecord
    <3> QED BY <2>1, <3>1, <3>2, BeginTypes
  <2>3. timers' \in Seq(Channels)
    <3>1. timers' \in {timers, Append(timers, c)}
      BY <1>10 DEF HandleSetupFailure
    <3>2. Append(timers, c) \in Seq(Channels)
      OBVIOUS
    <3> QED BY <3>1, <3>2
  <2>4. /\ cpc' \in {[cpc EXCEPT ![c] = "error"], [cpc EXCEPT ![c] = "down"]}
        /\ cpc[c] = "failed"
    BY <1>10 DEF HandleSetupFailure
  <2>5. TypeOK'
    BY <1>10, <2>2, <2>3, <2>4 DEF HandleSetupFailure, DownRecord
  <2>6. LocalInv'
    BY <1>10, <2>2, <2>4 DEF HandleSetupFailure
  <2> QED BY <2>5, <2>6
<1>11. CASE CompleteSetup(c)
  <2>1. inHand[c].req \in Setups
    BY <1>11 DEF CompleteSetup, Command
  <2>2. status' \in [Setups -> {"new", "open", "done", "dropped"}]
    BY <1>11, <2>1 DEF CompleteSetup
  <2>3. Rests(c)
    BY <1>11 DEF CompleteSetup
  <2>6. believed' \subseteq Channels
    BY <1>11 DEF CompleteSetup
  <2>7. UNCHANGED <<channelVars, queue, deactVars, mainVars, noticeVars, down, context,
                    notices, sent, disturbed, refused>>
    BY <1>11 DEF CompleteSetup
  <2>4. TypeOK'
    BY <2>2, <2>3, <2>6, <2>7, RestsTypes
  <2>5. LocalInv'
    BY <1>11, <2>3, RestsTypes DEF CompleteSetup
  <2> QED BY <2>4, <2>5
<1> QED BY <1>1, <1>2, <1>3, <1>4, <1>5, <1>6, <1>7, <1>8, <1>9, <1>10, <1>11 DEF CommandThread

(* A notification joins the others.                                         *)
LEMMA NotifyTypes ==
    ASSUME TypeInv, NEW k \in {"me", "nw", "detach"}, NEW c \in {0} \cup Channels,
           k # "detach" => c \in Channels, Notify(k, c)
    PROVE  /\ notices' \in Seq([kind : {"me", "nw", "detach"}, ch : {0} \cup Channels])
           /\ \A i \in 1 .. Len(notices') :
                 notices'[i].kind # "detach" => notices'[i].ch \in Channels
           /\ sent' \in [deactivates : 0 .. MaxDeactivates, notices : 0 .. MaxEvents]
<1> DEFINE n == [kind |-> k, ch |-> c]
           N == [kind : {"me", "nw", "detach"}, ch : {0} \cup Channels]
<1>1. notices \in Seq(N) /\ n \in N /\ notices' = Append(notices, n)
  BY DEF TypeInv, TypeOK, Notify
<1>2. notices' \in Seq(N)
  BY <1>1
<1>3. \A i \in 1 .. Len(notices) :
         notices[i].kind # "detach" => notices[i].ch \in Channels
  BY DEF TypeInv, LocalInv
<1>4. ASSUME NEW i \in 1 .. Len(notices') PROVE notices'[i] = n \/
              (i \in 1 .. Len(notices) /\ notices'[i] = notices[i])
  BY <1>1, <1>4
<1>5. n.kind # "detach" => n.ch \in Channels
  OBVIOUS
<1>6. sent' \in [deactivates : 0 .. MaxDeactivates, notices : 0 .. MaxEvents]
  <2>1. /\ sent' = [sent EXCEPT !.notices = sent.notices + 1]
        /\ sent.notices < MaxEvents
    BY DEF Notify
  <2>2. sent \in [deactivates : 0 .. MaxDeactivates, notices : 0 .. MaxEvents]
    BY DEF TypeInv, TypeOK
  <2>3. sent.notices + 1 \in 0 .. MaxEvents
    BY <2>1, <2>2, DataCallsAssumption
  <2> QED BY <2>1, <2>2, <2>3
<1>7. \A i \in 1 .. Len(notices') :
         notices'[i].kind # "detach" => notices'[i].ch \in Channels
  BY <1>3, <1>4, <1>5
<1> QED BY <1>2, <1>6, <1>7

(* DLC2's command thread, the modem and the response thread.                *)
LEMMA NoticeTypes ==
    ASSUME TypeInv,
           \/ Dlc2Thread \/ UrcThread \/ ModemDetaches
           \/ \E c \in Channels : ModemDeactivates(c)
    PROVE  TypeInv'
<1> USE DataCallsAssumption
    DEF TypeInv, TypeOK, LocalInv, channelVars, chainVars, deactVars, mainVars,
        noticeVars, historyVars
<1>1. CASE AnswerDeactivate
  <2> DEFINE c == Head(deactQueue)
  <2>1. c \in Channels /\ Tail(deactQueue) \in Seq(Channels) /\ Dlc2 \in Threads
    BY <1>1 DEF AnswerDeactivate, Threads
  <2>2. /\ down' \in [Threads -> DownRecord]
        /\ \A u \in Threads : down'[u].at # "none" => down'[u].ch \in Channels
    <3>1. Begins(Dlc2, c) \/ UNCHANGED down
      BY <1>1 DEF AnswerDeactivate
    <3>2. CASE UNCHANGED down
      BY <3>2 DEF DownRecord
    <3> QED BY <2>1, <3>1, <3>2, BeginTypes
  <2>3. /\ notices' \in Seq([kind : {"me", "nw", "detach"}, ch : {0} \cup Channels])
        /\ \A i \in 1 .. Len(notices') :
              notices'[i].kind # "detach" => notices'[i].ch \in Channels
        /\ sent' \in [deactivates : 0 .. MaxDeactivates, notices : 0 .. MaxEvents]
    <3>1. Notify("me", c) \/ UNCHANGED <<notices, sent>>
      BY <1>1 DEF AnswerDeactivate
    <3>2. CASE Notify("me", c)
      BY <2>1, <3>2, NotifyTypes
    <3>3. CASE UNCHANGED <<notices, sent>>
      BY <3>3
    <3> QED BY <3>1, <3>2, <3>3
  <2>4. /\ deactQueue' = Tail(deactQueue) /\ npc' \in {npc, "down"}
        /\ context' \in {context, context \ {c}}
        /\ refused' \in {refused, refused \cup {c}}
        /\ UNCHANGED <<channelVars, chainVars, timers, mainVars, noticeVars, believed,
                       status, disturbed>>
    BY <1>1 DEF AnswerDeactivate
  <2>5. TypeOK'
    BY <2>1, <2>2, <2>3, <2>4 DEF DownRecord
  <2>6. LocalInv'
    BY <2>2, <2>3, <2>4
  <2> QED BY <2>5, <2>6
<1>2. CASE DeactivateDone
  BY <1>2 DEF DeactivateDone
<1>3. ASSUME NEW c \in Channels, ModemDeactivates(c) PROVE TypeInv'
  <2>1. PICK k \in {"me", "nw"} : Notify(k, c)
    BY <1>3 DEF ModemDeactivates
  <2>2. /\ notices' \in Seq([kind : {"me", "nw", "detach"}, ch : {0} \cup Channels])
        /\ \A i \in 1 .. Len(notices') :
              notices'[i].kind # "detach" => notices'[i].ch \in Channels
        /\ sent' \in [deactivates : 0 .. MaxDeactivates, notices : 0 .. MaxEvents]
    <3>1. k \in {"me", "nw", "detach"} /\ c \in {0} \cup Channels
      OBVIOUS
    <3>2. TypeInv
      OBVIOUS
    <3> HIDE DEF TypeInv
    <3> QED BY <2>1, <3>1, <3>2, NotifyTypes
  <2>3. /\ context' = context \ {c}
        /\ UNCHANGED <<channelVars, chainVars, deactVars, mainVars, noticeVars, down,
                       believed, status, disturbed, refused>>
    BY <1>3 DEF ModemDeactivates
  <2> QED BY <2>2, <2>3
<1>4. CASE ModemDetaches
  <2>1. /\ notices' \in Seq([kind : {"me", "nw", "detach"}, ch : {0} \cup Channels])
        /\ \A i \in 1 .. Len(notices') :
              notices'[i].kind # "detach" => notices'[i].ch \in Channels
        /\ sent' \in [deactivates : 0 .. MaxDeactivates, notices : 0 .. MaxEvents]
    BY <1>4, NotifyTypes DEF ModemDetaches
  <2>2. /\ context' = {}
        /\ UNCHANGED <<channelVars, chainVars, deactVars, mainVars, noticeVars, down,
                       believed, status, disturbed, refused>>
    BY <1>4 DEF ModemDetaches
  <2> QED BY <2>1, <2>2
<1>5. CASE HearNotice
  <2> DEFINE n == Head(notices)
  <2>1. /\ n \in [kind : {"me", "nw", "detach"}, ch : {0} \cup Channels]
        /\ Tail(notices) \in Seq([kind : {"me", "nw", "detach"}, ch : {0} \cup Channels])
        /\ n = notices[1] /\ Len(notices) >= 1
    <3> DEFINE N == [kind : {"me", "nw", "detach"}, ch : {0} \cup Channels]
    <3>1. notices \in Seq(N) /\ notices # << >>
      BY <1>5 DEF HearNotice
    <3> HIDE DEF N, TypeInv
    <3>2. n \in N /\ Tail(notices) \in Seq(N) /\ n = notices[1] /\ Len(notices) >= 1
      BY <3>1
    <3> QED BY <3>2 DEF N
  <2>2. /\ notices' = Tail(notices)
        /\ UNCHANGED <<channelVars, chainVars, deactVars, mainVars, ulist, down, context,
                       believed, status, sent, refused>>
        /\ \/ n.kind = "detach" /\ upc' = "clean" /\ uch' = 1 /\ UNCHANGED disturbed
           \/ /\ n.kind # "detach"
              /\ upc' = n.kind /\ uch' = n.ch /\ disturbed' = disturbed \cup {n.ch}
           \/ UNCHANGED <<upc, uch, disturbed>> /\ upc = "idle"
    BY <1>5 DEF HearNotice
  <2>3. n.kind # "detach" => n.ch \in Channels
    BY <2>1
  <2>4. \A i \in 1 .. Len(notices') :
           notices'[i].kind # "detach" => notices'[i].ch \in Channels
    BY <2>1, <2>2
  <2>5. 1 \in 0 .. NChannels + 1
    OBVIOUS
  <2>6. /\ upc' \in {"idle", "me", "nw", "clean"}
        /\ uch' \in 0 .. NChannels + 1 /\ disturbed' \subseteq Channels
        /\ upc' \in {"me", "nw"} => uch' \in Channels
        /\ upc' = "clean" => uch' # 0
    <3>1. CASE n.kind = "detach" /\ upc' = "clean" /\ uch' = 1 /\ UNCHANGED disturbed
      BY <2>5, <3>1
    <3>2. CASE /\ n.kind # "detach"
               /\ upc' = n.kind /\ uch' = n.ch /\ disturbed' = disturbed \cup {n.ch}
      <4>1. n.kind \in {"me", "nw"} /\ n.ch \in Channels
        BY <2>1, <2>3, <3>2
      <4>2. n.ch \in 0 .. NChannels + 1
        BY <4>1 DEF Channels
      <4> QED BY <3>2, <4>1, <4>2
    <3> QED BY <2>2, <3>1, <3>2
  <2>7. TypeOK'
    BY <2>1, <2>2, <2>6
  <2>8. LocalInv'
    BY <2>2, <2>4, <2>6
  <2> QED BY <2>7, <2>8
<1>6. CASE HandleDeactivation
  <2>1. uch \in Channels /\ Urc \in Threads
    BY <1>6 DEF HandleDeactivation, Threads
  <2>2. /\ down' \in [Threads -> DownRecord]
        /\ \A u \in Threads : down'[u].at # "none" => down'[u].ch \in Channels
    <3>1. Begins(Urc, uch) \/ UNCHANGED down
      BY <1>6 DEF HandleDeactivation
    <3>2. CASE UNCHANGED down
      BY <3>2 DEF DownRecord
    <3> QED BY <2>1, <3>1, <3>2, BeginTypes
  <2>3. dataState' \in [Channels -> States]
    BY <1>6, <2>1 DEF HandleDeactivation, States
  <2>4. /\ upc' \in {"idle", "down"} /\ uch' \in {0, uch}
        /\ UNCHANGED <<contextID, refCount, interface, blocked, chainVars, deactVars,
                       mainVars, ulist, context, notices, believed, historyVars>>
    BY <1>6 DEF HandleDeactivation
  <2>7. uch' \in 0 .. NChannels + 1
    BY <2>4
  <2>5. TypeOK'
    BY <2>2, <2>3, <2>4, <2>7 DEF DownRecord
  <2>6. LocalInv'
    BY <2>2, <2>4
  <2> QED BY <2>5, <2>6
<1>7. CASE CleanupNext
  <2>1. Urc \in Threads /\ uch # 0
    BY <1>7 DEF CleanupNext, Threads
  <2>2. CASE uch > NChannels
    <3>1. /\ upc' = "send" /\ uch' = 0 /\ ulist' = {}
          /\ UNCHANGED <<channelVars, chainVars, deactVars, mainVars, context, notices,
                         believed, status, sent, refused, down, disturbed>>
      BY <1>7, <2>2 DEF CleanupNext
    <3> QED BY <3>1
  <2>3. CASE ~(uch > NChannels)
    <3>1. uch \in Channels /\ uch + 1 \in 0 .. NChannels + 1
      BY <2>1, <2>3 DEF Channels
    <3>2. /\ uch' = uch + 1 /\ disturbed' \in {disturbed, disturbed \cup {uch}}
          /\ Begins(Urc, uch) \/ UNCHANGED down
          /\ UNCHANGED <<upc, ulist, channelVars, chainVars, deactVars, mainVars,
                         context, notices, believed, status, sent, refused>>
      BY <1>7, <2>3 DEF CleanupNext
    <3>3. /\ down' \in [Threads -> DownRecord]
          /\ \A u \in Threads : down'[u].at # "none" => down'[u].ch \in Channels
      <4>1. CASE UNCHANGED down
        BY <4>1 DEF DownRecord
      <4> QED BY <2>1, <3>1, <3>2, <4>1, BeginTypes
    <3>4. upc = "clean" /\ uch + 1 # 0
      BY <1>7, <3>1 DEF CleanupNext
    <3>5. TypeOK'
      BY <3>1, <3>2, <3>3 DEF DownRecord
    <3>6. LocalInv'
      BY <3>2, <3>3, <3>4
    <3> QED BY <3>5, <3>6
  <2> QED BY <2>2, <2>3
<1>8. CASE ListActiveCalls
  <2>1. ulist' \subseteq {0} \cup Channels
    BY <1>8 DEF ListActiveCalls
  <2>2. TypeOK'
    BY <1>8, <2>1 DEF ListActiveCalls
  <2>3. LocalInv'
    BY <1>8 DEF ListActiveCalls
  <2> QED BY <2>2, <2>3
<1>9. CASE SendCallList
  <2>1. TypeOK'
    BY <1>9 DEF SendCallList
  <2>2. LocalInv'
    BY <1>9 DEF SendCallList
  <2> QED BY <2>1, <2>2
<1> QED BY <1>1, <1>2, <1>3, <1>4, <1>5, <1>6, <1>7, <1>8, <1>9 DEF Dlc2Thread, UrcThread

LEMMA StepTypes == ASSUME TypeInv, [Next]_vars PROVE TypeInv'
<1>1. CASE UNCHANGED vars
  <2>1. TypeOK'
    BY <1>1 DEF TypeInv, TypeOK, vars, channelVars, chainVars, deactVars, mainVars,
                noticeVars, historyVars
  <2>2. LocalInv'
    BY <1>1 DEF TypeInv, LocalInv, vars, channelVars, chainVars, deactVars, mainVars,
                noticeVars, historyVars
  <2> QED BY <2>1, <2>2 DEF TypeInv
<1> QED BY <1>1, MainTypes, CommandTypes, NoticeTypes, DownTypes DEF Next

(* The variables keep their types.                                          *)
THEOREM DataCallsTypeCorrect == Spec => []TypeOK
<1>1. Spec => []TypeInv
  BY InitTypes, StepTypes, PTL DEF Spec
<1>2. TypeInv => TypeOK
  BY DEF TypeInv
<1> QED BY <1>1, <1>2, PTL

-----------------------------------------------------------------------------
(* Tokens.  The setups named in a queue, each once.                         *)
Reqs(q) == {q[i].req : i \in 1 .. Len(q)}
EachOnce(q) == \A i, j \in 1 .. Len(q) : q[i].req = q[j].req => i = j

LEMMA ReqsAppend ==
    ASSUME NEW q \in Seq(Command), NEW m \in Command
    PROVE  /\ Append(q, m) \in Seq(Command)
           /\ Reqs(Append(q, m)) = Reqs(q) \cup {m.req}
           /\ EachOnce(q) /\ m.req \notin Reqs(q) => EachOnce(Append(q, m))
<1> DEFINE a == Append(q, m)
<1>1. /\ a \in Seq(Command) /\ Len(a) = Len(q) + 1 /\ Len(q) \in Nat
      /\ \A i \in 1 .. Len(q) : a[i] = q[i]
      /\ a[Len(q) + 1] = m
  OBVIOUS
<1> HIDE DEF a
<1>2. Reqs(a) = Reqs(q) \cup {m.req}
  <2>1. ASSUME NEW i \in 1 .. Len(a) PROVE a[i].req \in Reqs(q) \cup {m.req}
    <3>1. CASE i = Len(q) + 1
      BY <1>1, <3>1
    <3>2. CASE i # Len(q) + 1
      <4>1. i \in 1 .. Len(q)
        BY <1>1, <3>2
      <4> QED BY <1>1, <4>1 DEF Reqs
    <3> QED BY <3>1, <3>2
  <2>2. ASSUME NEW i \in 1 .. Len(q) PROVE q[i].req \in Reqs(a)
    <3>1. i \in 1 .. Len(a) /\ a[i] = q[i]
      BY <1>1
    <3> QED BY <3>1 DEF Reqs
  <2>3. m.req \in Reqs(a)
    <3>1. Len(q) + 1 \in 1 .. Len(a)
      BY <1>1
    <3> QED BY <1>1, <3>1 DEF Reqs
  <2> QED BY <2>1, <2>2, <2>3 DEF Reqs
<1>3. ASSUME EachOnce(q), m.req \notin Reqs(q) PROVE EachOnce(a)
  <2>1. \A i \in 1 .. Len(q) : q[i].req # m.req
    BY <1>3 DEF Reqs
  <2>2. \A i \in 1 .. Len(a) : i \in 1 .. Len(q) \/ i = Len(q) + 1
    BY <1>1
  <2> QED BY <1>1, <1>3, <2>1, <2>2 DEF EachOnce
<1> QED BY <1>1, <1>2, <1>3 DEF a

LEMMA ReqsCons ==
    ASSUME NEW q \in Seq(Command), NEW m \in Command
    PROVE  /\ <<m>> \o q \in Seq(Command)
           /\ Reqs(<<m>> \o q) = Reqs(q) \cup {m.req}
           /\ EachOnce(q) /\ m.req \notin Reqs(q) => EachOnce(<<m>> \o q)
<1> DEFINE a == <<m>> \o q
<1>1. <<m>> \in Seq(Command) /\ Len(<<m>>) = 1 /\ <<m>>[1] = m
  OBVIOUS
<1>2. /\ a \in Seq(Command) /\ Len(a) = 1 + Len(q) /\ Len(q) \in Nat
      /\ \A i \in 1 .. 1 + Len(q) : a[i] = IF i <= 1 THEN <<m>>[i] ELSE q[i - 1]
  BY <1>1
<1> HIDE DEF a
<1>3. a[1] = m
  BY <1>1, <1>2
<1>4. \A i \in 1 .. Len(q) : i + 1 \in 1 .. Len(a) /\ a[i + 1] = q[i]
  <2> SUFFICES ASSUME NEW i \in 1 .. Len(q) PROVE i + 1 \in 1 .. Len(a) /\ a[i + 1] = q[i]
    OBVIOUS
  <2>1. i + 1 \in 1 .. 1 + Len(q) /\ ~(i + 1 <= 1) /\ (i + 1) - 1 = i
    BY <1>2
  <2> QED BY <1>2, <2>1
<1>5. \A i \in 1 .. Len(a) : i = 1 \/ (i - 1 \in 1 .. Len(q) /\ a[i] = q[i - 1])
  <2> SUFFICES ASSUME NEW i \in 1 .. Len(a), i # 1
               PROVE  i - 1 \in 1 .. Len(q) /\ a[i] = q[i - 1]
    OBVIOUS
  <2>1. i - 1 \in 1 .. Len(q) /\ ~(i <= 1)
    BY <1>2
  <2> QED BY <1>2, <2>1
<1>6. Reqs(a) = Reqs(q) \cup {m.req}
  <2>1. ASSUME NEW i \in 1 .. Len(a) PROVE a[i].req \in Reqs(q) \cup {m.req}
    BY <1>3, <1>5 DEF Reqs
  <2>2. ASSUME NEW i \in 1 .. Len(q) PROVE q[i].req \in Reqs(a)
    <3>1. i + 1 \in 1 .. Len(a) /\ q[i].req = a[i + 1].req
      BY <1>4
    <3> QED BY <3>1 DEF Reqs
  <2>3. m.req \in Reqs(a)
    <3>1. 1 \in 1 .. Len(a)
      BY <1>2
    <3> QED BY <1>3, <3>1 DEF Reqs
  <2> QED BY <2>1, <2>2, <2>3 DEF Reqs
<1>7. ASSUME EachOnce(q), m.req \notin Reqs(q) PROVE EachOnce(a)
  <2>1. \A i \in 1 .. Len(q) : q[i].req # m.req
    BY <1>7 DEF Reqs
  <2> SUFFICES ASSUME NEW i \in 1 .. Len(a), NEW j \in 1 .. Len(a), a[i].req = a[j].req
               PROVE  i = j
    BY DEF EachOnce
  <2>2. CASE i = 1 \/ j = 1
    BY <1>3, <1>5, <2>1, <2>2
  <2>3. CASE i # 1 /\ j # 1
    <3>1. /\ i - 1 \in 1 .. Len(q) /\ j - 1 \in 1 .. Len(q)
          /\ q[i - 1].req = q[j - 1].req
      BY <1>5, <2>3
    <3>2. i - 1 = j - 1
      BY <1>7, <3>1 DEF EachOnce
    <3> QED BY <3>2
  <2> QED BY <2>2, <2>3
<1> QED BY <1>2, <1>6, <1>7 DEF a

LEMMA ReqsTail ==
    ASSUME NEW q \in Seq(Command), q # << >>
    PROVE  /\ Head(q) \in Command /\ Tail(q) \in Seq(Command)
           /\ Reqs(q) = Reqs(Tail(q)) \cup {Head(q).req}
           /\ EachOnce(q) => EachOnce(Tail(q)) /\ Head(q).req \notin Reqs(Tail(q))
<1> DEFINE b == Tail(q)
<1>1. /\ Head(q) \in Command /\ b \in Seq(Command)
      /\ Len(q) \in Nat /\ Len(q) >= 1 /\ Len(b) = Len(q) - 1
      /\ Head(q) = q[1]
      /\ \A i \in 1 .. Len(b) : b[i] = q[i + 1]
  OBVIOUS
<1> HIDE DEF b
<1>2. \A i \in 1 .. Len(q) : i = 1 \/ (i - 1 \in 1 .. Len(b) /\ b[i - 1] = q[i])
  <2> SUFFICES ASSUME NEW i \in 1 .. Len(q), i # 1
               PROVE  i - 1 \in 1 .. Len(b) /\ b[i - 1] = q[i]
    OBVIOUS
  <2>1. i - 1 \in 1 .. Len(b) /\ (i - 1) + 1 = i
    BY <1>1
  <2> QED BY <1>1, <2>1
<1>3. \A i \in 1 .. Len(b) : i + 1 \in 1 .. Len(q) /\ i + 1 # 1
  BY <1>1
<1>4. 1 \in 1 .. Len(q)
  BY <1>1
<1>5. Reqs(q) = Reqs(b) \cup {Head(q).req}
  <2>1. ASSUME NEW i \in 1 .. Len(q) PROVE q[i].req \in Reqs(b) \cup {Head(q).req}
    BY <1>1, <1>2 DEF Reqs
  <2>2. ASSUME NEW i \in 1 .. Len(b) PROVE b[i].req \in Reqs(q)
    BY <1>1, <1>3 DEF Reqs
  <2>3. Head(q).req \in Reqs(q)
    BY <1>1, <1>4 DEF Reqs
  <2> QED BY <2>1, <2>2, <2>3 DEF Reqs
<1>6. ASSUME EachOnce(q) PROVE EachOnce(b) /\ Head(q).req \notin Reqs(b)
  <2>1. ASSUME NEW i \in 1 .. Len(b) PROVE b[i].req # Head(q).req
    <3>1. b[i] = q[i + 1] /\ i + 1 \in 1 .. Len(q) /\ i + 1 # 1
      BY <1>1, <1>3
    <3> QED BY <1>1, <1>4, <1>6, <3>1 DEF EachOnce
  <2>2. ASSUME NEW i \in 1 .. Len(b), NEW j \in 1 .. Len(b), b[i].req = b[j].req
        PROVE  i = j
    <3>1. /\ i + 1 \in 1 .. Len(q) /\ j + 1 \in 1 .. Len(q)
          /\ q[i + 1].req = q[j + 1].req
      BY <1>1, <1>3, <2>2
    <3>2. i + 1 = j + 1
      BY <1>6, <3>1 DEF EachOnce
    <3> QED BY <3>2
  <2> QED BY <2>1, <2>2 DEF EachOnce, Reqs
<1> QED BY <1>1, <1>5, <1>6 DEF b

(* A setup is held by the main thread, in a queue or in hand.               *)
Holds(r) == \/ r = mreq
            \/ \E c \in Channels : r \in Reqs(queue[c]) \/ r = inHand[c].req

TokenInv ==
    /\ \A c \in Channels : EachOnce(queue[c])
    /\ \A c, d \in Channels : c # d => Reqs(queue[c]) \cap Reqs(queue[d]) = {}
    /\ \A c, d \in Channels : inHand[d].req \notin Reqs(queue[c])
    /\ \A c, d \in Channels :
          inHand[c].req = inHand[d].req => c = d \/ inHand[c].req = 0
    /\ \A c \in Channels : mreq \notin Reqs(queue[c])
    /\ \A c \in Channels : mreq = inHand[c].req => mreq = 0
    /\ \A r \in Setups : status[r] = "open" <=> Holds(r)

LEMMA QueuedAreSetups ==
    ASSUME TypeInv, NEW c \in Channels
    PROVE  /\ queue[c] \in Seq(Command) /\ Reqs(queue[c]) \subseteq Setups
           /\ 0 \notin Setups /\ 0 \notin Reqs(queue[c])
           /\ inHand[c].req \in Setups \cup {0}
           /\ cpc[c] # "idle" => inHand[c] \in Command /\ inHand[c].req \in Setups
           /\ cpc[c] = "idle" => inHand[c].req = 0
<1>1. queue[c] \in Seq(Command) /\ inHand[c] \in Command \cup {NoCommand}
  BY DEF TypeInv, TypeOK
<1>2. \A i \in 1 .. Len(queue[c]) : queue[c][i] \in Command
  BY <1>1
<1>3. \A m \in Command : m.req \in Setups
  BY DEF Command
<1>4. 0 \notin Setups
  BY DataCallsAssumption DEF Setups
<1>5. cpc[c] = "idle" <=> inHand[c] = NoCommand
  BY DEF TypeInv, LocalInv
<1>6. NoCommand.req = 0
  BY DEF NoCommand
<1> QED BY <1>1, <1>2, <1>3, <1>4, <1>5, <1>6 DEF Reqs

(* A step that moves no command and opens no setup keeps it.                *)
LEMMA TokenKept ==
    ASSUME TokenInv, UNCHANGED <<queue, inHand, mreq>>,
           \A r \in Setups : status'[r] = "open" <=> status[r] = "open"
    PROVE  TokenInv'
<1>1. \A c \in Channels : /\ Reqs(queue'[c]) = Reqs(queue[c])
                          /\ EachOnce(queue'[c]) <=> EachOnce(queue[c])
  OBVIOUS
<1>2. \A r \in Setups : Holds(r)' <=> Holds(r)
  BY <1>1 DEF Holds
<1> QED BY <1>1, <1>2 DEF TokenInv

LEMMA InitToken == Init => TokenInv
<1> SUFFICES ASSUME Init PROVE TokenInv
  OBVIOUS
<1>1. \A c \in Channels : queue[c] = << >> /\ inHand[c].req = 0
  BY DEF Init, NoCommand
<1>2. Reqs(<< >>) = {} /\ EachOnce(<< >>)
  BY DEF Reqs, EachOnce
<1>3. mreq = 0 /\ 0 \notin Setups /\ \A r \in Setups : status[r] = "new"
  BY DataCallsAssumption DEF Init, Setups
<1> QED BY <1>1, <1>2, <1>3 DEF TokenInv, Holds

(* The main thread queues its setup, or drops it.                           *)
LEMMA QueueSetupToken ==
    ASSUME TypeInv, TokenInv, QueueSetup PROVE TokenInv'
<1>1. mch \in Channels /\ mreq \in Setups /\ mreq # 0 /\ mreq' = 0 /\ inHand' = inHand
  BY DataCallsAssumption
     DEF QueueSetup, TypeInv, TypeOK, LocalInv, Setups
<1>2. \A c \in Channels : Reqs(queue[c]) \subseteq Setups /\ 0 \notin Reqs(queue[c])
  BY QueuedAreSetups
<1>3. CASE ~Found(mch)
  <2>1. queue' = queue /\ status' = [status EXCEPT ![mreq] = "dropped"]
    BY <1>3 DEF QueueSetup
  <2>2. status \in [Setups -> {"new", "open", "done", "dropped"}]
    BY DEF TypeInv, TypeOK
  <2>3. \A r \in Setups : Holds(r)' <=> Holds(r) /\ r # mreq
    BY <1>1, <1>2, <2>1, DataCallsAssumption DEF Holds, TokenInv, Setups
  <2> QED BY <1>1, <1>2, <2>1, <2>2, <2>3 DEF TokenInv
<1>4. CASE Found(mch)
  <2> DEFINE m == [req |-> mreq, stage |-> "define"]
  <2>1. m \in Command /\ m.req = mreq
    BY <1>1 DEF Command, Stages
  <2>2. queue' = [queue EXCEPT ![mch] = Append(queue[mch], m)] /\ status' = status
    BY <1>4 DEF QueueSetup
  <2> HIDE DEF m
  <2>3. /\ \A c \in Channels : queue'[c] = IF c = mch THEN Append(queue[mch], m) ELSE queue[c]
        /\ queue[mch] \in Seq(Command)
    BY <1>1, <2>2 DEF TypeInv, TypeOK
  <2>4. /\ Reqs(queue'[mch]) = Reqs(queue[mch]) \cup {mreq}
        /\ EachOnce(queue'[mch])
        /\ \A c \in Channels \ {mch} : queue'[c] = queue[c]
    BY <1>1, <2>1, <2>3, ReqsAppend DEF TokenInv
  <2>5. \A r \in Setups : Holds(r)' <=> Holds(r)
    BY <1>1, <1>2, <2>4, DataCallsAssumption DEF Holds, Setups
  <2>9. \A d \in Channels : EachOnce(queue'[d]) /\ mreq' \notin Reqs(queue'[d])
    BY <1>1, <1>2, <2>4 DEF TokenInv
  <2>10. \A d, e \in Channels : d # e => Reqs(queue'[d]) \cap Reqs(queue'[e]) = {}
    BY <2>4 DEF TokenInv
  <2>11. \A d, e \in Channels : inHand'[e].req \notin Reqs(queue'[d])
    BY <1>1, <2>4 DEF TokenInv
  <2>14. \A r \in Setups : status'[r] = "open" <=> Holds(r)'
    BY <2>2, <2>5 DEF TokenInv
  <2> QED BY <1>1, <2>9, <2>10, <2>11, <2>14 DEF TokenInv
<1> QED BY <1>3, <1>4

(* The command thread takes a command.                                      *)
LEMMA AnswerCommandToken ==
    ASSUME TypeInv, TokenInv, NEW c \in Channels, AnswerCommand(c) PROVE TokenInv'
<1> DEFINE m == Head(queue[c])
<1>1. /\ inHand' = [inHand EXCEPT ![c] = m]
      /\ queue' = [queue EXCEPT ![c] = Tail(queue[c])]
      /\ mreq' = mreq /\ status' = status /\ queue[c] # << >> /\ cpc[c] = "idle"
  BY DEF AnswerCommand, mainVars, historyVars
<1>2. /\ queue[c] \in Seq(Command) /\ inHand[c].req = 0
      /\ \A d \in Channels : 0 \notin Reqs(queue[d])
  BY <1>1, QueuedAreSetups
<1> HIDE DEF m
<1>3. /\ Reqs(queue[c]) = Reqs(Tail(queue[c])) \cup {m.req}
      /\ EachOnce(Tail(queue[c])) /\ m.req \notin Reqs(Tail(queue[c]))
  BY <1>1, <1>2, ReqsTail DEF TokenInv, m
<1>4. /\ inHand'[c] = m /\ queue'[c] = Tail(queue[c])
      /\ \A d \in Channels \ {c} : inHand'[d] = inHand[d] /\ queue'[d] = queue[d]
  BY <1>1 DEF TypeInv, TypeOK
<1>5. \A r \in Setups : Holds(r)' <=> Holds(r)
  BY <1>1, <1>2, <1>3, <1>4, QueuedAreSetups DEF Holds
<1>9. \A d \in Channels : EachOnce(queue'[d]) /\ mreq' \notin Reqs(queue'[d])
  BY <1>1, <1>3, <1>4 DEF TokenInv
<1>10. \A d, e \in Channels : d # e => Reqs(queue'[d]) \cap Reqs(queue'[e]) = {}
  BY <1>3, <1>4 DEF TokenInv
<1>11. \A d, e \in Channels : inHand'[e].req \notin Reqs(queue'[d])
  BY <1>3, <1>4 DEF TokenInv
<1>12. \A d, e \in Channels :
          inHand'[d].req = inHand'[e].req => d = e \/ inHand'[d].req = 0
  BY <1>3, <1>4 DEF TokenInv
<1>13. \A d \in Channels : mreq' = inHand'[d].req => mreq' = 0
  BY <1>1, <1>3, <1>4 DEF TokenInv
<1>14. \A r \in Setups : status'[r] = "open" <=> Holds(r)'
  BY <1>1, <1>5 DEF TokenInv
<1> QED BY <1>9, <1>10, <1>11, <1>12, <1>13, <1>14 DEF TokenInv

(* A post handler queues the next command of the chain.                     *)
LEMMA QueueNextToken ==
    ASSUME TypeInv, TokenInv, NEW c \in Channels, SetStateAndQueue(c) PROVE TokenInv'
<1>1. PICK st \in Stages : QueueNext(c, st)
  BY DEF SetStateAndQueue, Stages
<1> DEFINE m == [inHand[c] EXCEPT !.stage = st]
<1>2. inHand[c] \in Command /\ m \in Command /\ m.req = inHand[c].req
  BY QueuedAreSetups DEF SetStateAndQueue, Command
<1>3. /\ queue' = [queue EXCEPT ![c] = <<m>> \o queue[c]]
      /\ inHand' = [inHand EXCEPT ![c] = NoCommand]
      /\ mreq' = mreq /\ status' = status
  BY <1>1 DEF SetStateAndQueue, QueueNext, Rests, mainVars, historyVars
<1> HIDE DEF m
<1>4. queue[c] \in Seq(Command) /\ inHand[c].req \in Setups
  BY QueuedAreSetups DEF SetStateAndQueue
<1>5. /\ queue'[c] = <<m>> \o queue[c] /\ inHand'[c].req = 0
      /\ \A d \in Channels \ {c} : inHand'[d] = inHand[d] /\ queue'[d] = queue[d]
  BY <1>3 DEF TypeInv, TypeOK, NoCommand
<1>6. /\ Reqs(queue'[c]) = Reqs(queue[c]) \cup {inHand[c].req}
      /\ EachOnce(queue'[c])
  BY <1>2, <1>4, <1>5, ReqsCons DEF TokenInv
<1>7. \A d \in Channels : 0 \notin Reqs(queue[d]) /\ 0 \notin Setups
  BY QueuedAreSetups
<1>8. \A r \in Setups : Holds(r)' <=> Holds(r)
  BY <1>3, <1>5, <1>6, <1>7 DEF Holds
<1>9. \A d \in Channels : EachOnce(queue'[d]) /\ mreq' \notin Reqs(queue'[d])
  <2>1. inHand[c].req # mreq
    BY <1>4, <1>7 DEF TokenInv
  <2> QED BY <1>3, <1>5, <1>6, <2>1 DEF TokenInv
<1>10. \A d, e \in Channels : d # e => Reqs(queue'[d]) \cap Reqs(queue'[e]) = {}
  <2>1. \A d \in Channels : inHand[c].req \notin Reqs(queue[d])
    BY DEF TokenInv
  <2>2. \A d, e \in Channels : d # e => Reqs(queue[d]) \cap Reqs(queue[e]) = {}
    BY DEF TokenInv
  <2>3. \A d \in Channels \ {c} : Reqs(queue'[d]) = Reqs(queue[d])
    BY <1>5
  <2> QED BY <1>6, <2>1, <2>2, <2>3
<1>11. \A d, e \in Channels : inHand'[e].req \notin Reqs(queue'[d])
  BY <1>4, <1>5, <1>6, <1>7 DEF TokenInv
<1>12. \A d, e \in Channels :
          inHand'[d].req = inHand'[e].req => d = e \/ inHand'[d].req = 0
  BY <1>5 DEF TokenInv
<1>13. \A d \in Channels : mreq' = inHand'[d].req => mreq' = 0
  BY <1>3, <1>5 DEF TokenInv
<1>14. \A r \in Setups : status'[r] = "open" <=> Holds(r)'
  BY <1>3, <1>8 DEF TokenInv
<1> QED BY <1>9, <1>10, <1>11, <1>12, <1>13, <1>14 DEF TokenInv

(* A setup is completed.                                                    *)
LEMMA CompleteSetupToken ==
    ASSUME TypeInv, TokenInv, NEW c \in Channels, CompleteSetup(c) PROVE TokenInv'
<1>1. /\ status' = [status EXCEPT ![inHand[c].req] = "done"]
      /\ inHand' = [inHand EXCEPT ![c] = NoCommand]
      /\ queue' = queue /\ mreq' = mreq
  BY DEF CompleteSetup, Rests, mainVars
<1>2. inHand[c].req \in Setups /\ 0 \notin Setups
  BY QueuedAreSetups DEF CompleteSetup
<1>3. /\ inHand'[c].req = 0
      /\ \A d \in Channels \ {c} : inHand'[d] = inHand[d]
  BY <1>1 DEF TypeInv, TypeOK, NoCommand
<1>4. \A d \in Channels : 0 \notin Reqs(queue[d])
  BY QueuedAreSetups
<1>5. \A r \in Setups : Holds(r)' <=> Holds(r) /\ r # inHand[c].req
  BY <1>1, <1>2, <1>3 DEF Holds, TokenInv
<1>6. \A r \in Setups : status'[r] = "open" <=> status[r] = "open" /\ r # inHand[c].req
  BY <1>1, <1>2 DEF TypeInv, TypeOK
<1> QED BY <1>1, <1>2, <1>3, <1>4, <1>5, <1>6 DEF TokenInv

(* A context is reserved for a setup nobody holds.                          *)
LEMMA ReserveToken == ASSUME TypeInv, TokenInv, ReserveContext PROVE TokenInv'
<1>1. PICK r \in Setups : /\ status[r] = "new" /\ status' = [status EXCEPT ![r] = "open"]
                          /\ mreq' = r /\ mpc = "idle"
                          /\ UNCHANGED <<queue, inHand>>
  BY DEF ReserveContext, chainVars
<1>2. mreq = 0 /\ 0 \notin Setups
  BY <1>1, QueuedAreSetups, DataCallsAssumption DEF TypeInv, LocalInv, Setups
<1>3. ~Holds(r)
  BY <1>1 DEF TokenInv
<1>4. \A q \in Setups : Holds(q)' <=> Holds(q) \/ q = r
  BY <1>1, <1>2 DEF Holds
<1>5. \A q \in Setups : status'[q] = "open" <=> status[q] = "open" \/ q = r
  BY <1>1 DEF TypeInv, TypeOK
<1> QED BY <1>1, <1>2, <1>3, <1>4, <1>5 DEF TokenInv, Holds

LEMMA StepToken == ASSUME TypeInv, TokenInv, [Next]_vars PROVE TokenInv'
<1>1. CASE UNCHANGED <<queue, inHand, mreq, status>>
  BY <1>1, TokenKept
<1>2. CASE RefuseSetup
  <2>1. UNCHANGED <<queue, inHand, mreq>>
    BY <1>2 DEF RefuseSetup, chainVars, mainVars
  <2>2. \A r \in Setups : status'[r] = "open" <=> status[r] = "open"
    BY <1>2 DEF RefuseSetup, TypeInv, TypeOK
  <2> QED BY <2>1, <2>2, TokenKept
<1>3. ASSUME MainThread \/ (\E c \in Channels : RequestDeactivate(c)), ~QueueSetup
      PROVE  UNCHANGED <<queue, inHand, mreq, status>>
  BY <1>3 DEF MainThread, SetIniting, SetDeactivating, DeactivatedAtOnce,
              TriggerDeactivate, RequestDeactivate, chainVars, mainVars, historyVars
<1>4. ASSUME NEW c \in Channels, CommandThread(c),
             ~AnswerCommand(c), ~SetStateAndQueue(c), ~CompleteSetup(c)
      PROVE  UNCHANGED <<queue, inHand, mreq, status>>
  BY <1>4 DEF CommandThread, ParseEnterDataState, BlockReadThread, PostHandler,
              SetupInterface, IncrementRefCount, ReportSuccess, HandleSetupFailure,
              FailedSetupDown, mainVars, historyVars
<1>5. ASSUME \/ Dlc2Thread \/ UrcThread \/ ModemDetaches
             \/ \E c \in Channels : ModemDeactivates(c)
             \/ \E t \in Threads : DataConfigDown(t)
             \/ UNCHANGED vars
      PROVE  UNCHANGED <<queue, inHand, mreq, status>>
  BY <1>5 DEF Dlc2Thread, AnswerDeactivate, DeactivateDone, UrcThread, HearNotice,
              HandleDeactivation, CleanupNext, ListActiveCalls, SendCallList,
              ModemDetaches, ModemDeactivates, DataConfigDown, vars, chainVars,
              mainVars, historyVars
<1> QED BY <1>1, <1>2, <1>3, <1>4, <1>5, QueueSetupToken, AnswerCommandToken,
           QueueNextToken, CompleteSetupToken, ReserveToken DEF Next, MainThread

(* What holds a setup, counted.                                             *)
LEMMA CountedOnce == ASSUME TypeInv, TokenInv PROVE TokenHeldOnce
<1> SUFFICES ASSUME NEW r \in Setups
             PROVE  Holders(r) = IF status[r] = "open" THEN 1 ELSE 0
  BY DEF TokenHeldOnce
<1> DEFINE Q == Queued(r)
           H == {c \in Channels : inHand[c].req = r}
<1>1. 0 \notin Setups
  BY DataCallsAssumption DEF Setups
<1>2. \A c \in Channels : r \notin Reqs(queue[c]) =>
         {j \in 1 .. Len(queue[c]) : queue[c][j].req = r} = {}
  BY DEF Reqs
<1>3. (\A c \in Channels : r \notin Reqs(queue[c])) => Q = {}
  BY <1>2 DEF Queued
<1>4. ASSUME NEW c \in Channels, r \in Reqs(queue[c])
      PROVE  \E p : Q = {p}
  <2>1. PICK i \in 1 .. Len(queue[c]) : queue[c][i].req = r
    BY <1>4 DEF Reqs
  <2>2. {j \in 1 .. Len(queue[c]) : queue[c][j].req = r} = {i}
    BY <2>1 DEF TokenInv, EachOnce
  <2>3. \A d \in Channels \ {c} : r \notin Reqs(queue[d])
    BY <1>4 DEF TokenInv
  <2>4. Q = {<<c, i>>}
    BY <1>2, <2>2, <2>3 DEF Queued
  <2> QED BY <2>4
<1>5. Cardinality({}) = 0 /\ \A p : Cardinality({p}) = 1
  BY FS_EmptySet, FS_Singleton
<1>6. Holders(r) = Cardinality(Q) + Cardinality(H) + IF mreq = r THEN 1 ELSE 0
  BY DEF Holders
<1> HIDE DEF Q, H
<1>7. CASE ~Holds(r)
  <2>1. Q = {} /\ mreq # r
    BY <1>3, <1>7 DEF Holds
  <2>2. H = {}
    BY <1>7 DEF Holds, H
  <2> QED BY <1>5, <1>6, <1>7, <2>1, <2>2 DEF TokenInv
<1>8. CASE r = mreq
  <2>1. Q = {}
    BY <1>3, <1>8 DEF TokenInv
  <2>2. H = {}
    BY <1>1, <1>8 DEF TokenInv, H
  <2>3. status[r] = "open"
    BY <1>8 DEF TokenInv, Holds
  <2> QED BY <1>5, <1>6, <1>8, <2>1, <2>2, <2>3
<1>9. ASSUME NEW c \in Channels, r \in Reqs(queue[c])
      PROVE  Holders(r) = IF status[r] = "open" THEN 1 ELSE 0
  <2>1. Cardinality(Q) = 1
    BY <1>4, <1>5, <1>9
  <2>2. H = {} /\ mreq # r
    BY <1>9 DEF TokenInv, H
  <2>3. status[r] = "open"
    BY <1>9 DEF TokenInv, Holds
  <2>4. Cardinality(H) = 0
    BY <1>5, <2>2
  <2> QED BY <1>6, <2>1, <2>2, <2>3, <2>4
<1>10. ASSUME NEW c \in Channels, r = inHand[c].req
       PROVE  Holders(r) = IF status[r] = "open" THEN 1 ELSE 0
  <2>1. H = {c}
    BY <1>1, <1>10 DEF TokenInv, H
  <2>2. Q = {}
    BY <1>3, <1>10 DEF TokenInv
  <2>3. mreq # r
    BY <1>1, <1>10 DEF TokenInv
  <2>4. status[r] = "open"
    BY <1>10 DEF TokenInv, Holds
  <2>5. Cardinality(H) = 1
    BY <1>5, <2>1
  <2>6. Cardinality(Q) = 0
    BY <1>5, <2>2
  <2> QED BY <1>6, <2>3, <2>4, <2>5, <2>6
<1> QED BY <1>7, <1>8, <1>9, <1>10 DEF Holds

(* Nobody loses a setup's token, and nobody completes it twice.             *)
THEOREM TokensHeldOnce == Spec => []TokenHeldOnce
<1>1. Init => TypeInv /\ TokenInv
  BY InitTypes, InitToken
<1>2. TypeInv /\ TokenInv /\ [Next]_vars => (TypeInv /\ TokenInv)'
  BY StepTypes, StepToken
<1>3. TypeInv /\ TokenInv => TokenHeldOnce
  BY CountedOnce
<1> QED BY <1>1, <1>2, <1>3, PTL DEF Spec

-----------------------------------------------------------------------------
(* Contexts.  What can become of a context, and who sees to it: as long as   *)
(* no notification came for it, it has one owner, which hands it on.         *)
Kinds == {"main", "queue", "chain", "believed", "deactivating", "deact", "timer",
          "mainDown", "dlc2Down", "refused"}

In(q, c)   == \E i \in 1 .. Len(q) : q[i] = c
Once(q, c) == \A i, j \in 1 .. Len(q) : q[i] = c /\ q[j] = c => i = j

DownOn(t, c) == down[t].at # "none" /\ down[t].ch = c

Owns(k, c) ==
    \/ k = "main" /\ MainPrepares(c)
    \/ k = "queue" /\ queue[c] # << >>
    \/ k = "chain" /\ (InProgress(c) \/ cpc[c] = "success")
    \/ k = "believed" /\ c \in believed
    \/ k = "deactivating" /\ mpc = "deactivating" /\ mch = c
    \/ k = "deact" /\ In(deactQueue, c)
    \/ k = "timer" /\ In(timers, c)
    \/ k = "mainDown" /\ DownOn(Main, c)
    \/ k = "dlc2Down" /\ DownOn(Dlc2, c)
    \/ k = "refused" /\ c \in refused

OneOwner(c) == \A k, l \in Kinds : Owns(k, c) /\ Owns(l, c) => k = l

Owned(c) ==
    /\ OneOwner(c)
    /\ (\E k \in Kinds : Owns(k, c)) => Found(c)
    /\ Len(queue[c]) =< 1
    /\ Once(deactQueue, c)
    /\ Once(timers, c)

(* Which channel each thread brings down.                                   *)
ThreadsInv ==
    /\ \A d \in Channels :
          down[Data(d)].at # "none" => cpc[d] = "down" /\ down[Data(d)].ch = d
    /\ down[Urc].at # "none" => down[Urc].ch \in disturbed
    /\ upc \in {"me", "nw"} => uch \in disturbed
    /\ down[Main].at # "none" => mpc = "down"
    /\ down[Dlc2].at # "none" => npc = "down"

OwnerInv == ThreadsInv /\ \A c \in Channels \ disturbed : Owned(c)

LEMMA ThreadsDiffer ==
    /\ Main \in Threads /\ Dlc2 \in Threads /\ Urc \in Threads
    /\ Main # Dlc2 /\ Main # Urc /\ Dlc2 # Urc
    /\ \A c \in Channels : /\ Data(c) \in Threads
                           /\ Data(c) # Main /\ Data(c) # Dlc2 /\ Data(c) # Urc
    /\ \A c, d \in Channels : Data(c) = Data(d) => c = d
    /\ \A t \in Threads : t \in {Main, Dlc2, Urc} \/ \E c \in Channels : t = Data(c)
BY DEF Threads, Main, Dlc2, Urc, Data

LEMMA InAppend ==
    ASSUME NEW q \in Seq(Channels), NEW c \in Channels
    PROVE  /\ \A d : In(Append(q, c), d) <=> In(q, d) \/ d = c
           /\ \A d : Once(q, d) /\ (d # c \/ ~In(q, d)) => Once(Append(q, c), d)
<1> DEFINE a == Append(q, c)
<1>1. /\ Len(a) = Len(q) + 1 /\ Len(q) \in Nat
      /\ \A i \in 1 .. Len(q) : a[i] = q[i]
      /\ a[Len(q) + 1] = c
  OBVIOUS
<1> HIDE DEF a
<1>2. \A i \in 1 .. Len(a) : i \in 1 .. Len(q) \/ i = Len(q) + 1
  BY <1>1
<1>3. Len(q) + 1 \in 1 .. Len(a) /\ \A i \in 1 .. Len(q) : i \in 1 .. Len(a)
  BY <1>1
<1>4. \A d : In(a, d) <=> In(q, d) \/ d = c
  BY <1>1, <1>2, <1>3 DEF In
<1>5. ASSUME NEW d, Once(q, d), d # c \/ ~In(q, d) PROVE Once(a, d)
  BY <1>1, <1>2, <1>5 DEF Once, In
<1> QED BY <1>4, <1>5 DEF a

LEMMA InCons ==
    ASSUME NEW q \in Seq(Channels), NEW c \in Channels
    PROVE  /\ \A d : In(<<c>> \o q, d) <=> In(q, d) \/ d = c
           /\ \A d : Once(q, d) /\ (d # c \/ ~In(q, d)) => Once(<<c>> \o q, d)
<1> DEFINE a == <<c>> \o q
<1>1. <<c>> \in Seq(Channels) /\ Len(<<c>>) = 1 /\ <<c>>[1] = c
  OBVIOUS
<1>2. /\ Len(a) = 1 + Len(q) /\ Len(q) \in Nat
      /\ \A i \in 1 .. 1 + Len(q) : a[i] = IF i <= 1 THEN <<c>>[i] ELSE q[i - 1]
  BY <1>1
<1> HIDE DEF a
<1>3. a[1] = c /\ 1 \in 1 .. Len(a)
  BY <1>1, <1>2
<1>4. \A i \in 1 .. Len(q) : i + 1 \in 1 .. Len(a) /\ a[i + 1] = q[i]
  <2> SUFFICES ASSUME NEW i \in 1 .. Len(q) PROVE i + 1 \in 1 .. Len(a) /\ a[i + 1] = q[i]
    OBVIOUS
  <2>1. i + 1 \in 1 .. 1 + Len(q) /\ ~(i + 1 <= 1) /\ (i + 1) - 1 = i
    BY <1>2
  <2> QED BY <1>2, <2>1
<1>5. \A i \in 1 .. Len(a) : i = 1 \/ (i - 1 \in 1 .. Len(q) /\ a[i] = q[i - 1])
  <2> SUFFICES ASSUME NEW i \in 1 .. Len(a), i # 1
               PROVE  i - 1 \in 1 .. Len(q) /\ a[i] = q[i - 1]
    OBVIOUS
  <2>1. i - 1 \in 1 .. Len(q) /\ ~(i <= 1)
    BY <1>2
  <2> QED BY <1>2, <2>1
<1>6. \A d : In(a, d) <=> In(q, d) \/ d = c
  BY <1>3, <1>4, <1>5 DEF In
<1>7. ASSUME NEW d, Once(q, d), d # c \/ ~In(q, d) PROVE Once(a, d)
  <2> SUFFICES ASSUME NEW i \in 1 .. Len(a), NEW j \in 1 .. Len(a), a[i] = d, a[j] = d
               PROVE  i = j
    BY DEF Once
  <2>1. CASE i = 1 \/ j = 1
    <3>1. d = c /\ ~In(q, d)
      BY <1>3, <1>7, <2>1
    <3> QED BY <1>5, <2>1, <3>1 DEF In
  <2>2. CASE i # 1 /\ j # 1
    <3>1. /\ i - 1 \in 1 .. Len(q) /\ j - 1 \in 1 .. Len(q)
          /\ q[i - 1] = d /\ q[j - 1] = d
      BY <1>5, <2>2
    <3>2. i - 1 = j - 1
      BY <1>7, <3>1 DEF Once
    <3> QED BY <3>2
  <2> QED BY <2>1, <2>2
<1> QED BY <1>6, <1>7 DEF a

LEMMA InTail ==
    ASSUME NEW q \in Seq(Channels), q # << >>
    PROVE  /\ Head(q) \in Channels /\ Tail(q) \in Seq(Channels) /\ In(q, Head(q))
           /\ \A d : In(Tail(q), d) => In(q, d)
           /\ \A d : Once(q, d) => Once(Tail(q), d)
           /\ Once(q, Head(q)) => ~In(Tail(q), Head(q))
<1> DEFINE b == Tail(q)
<1>1. /\ Head(q) \in Channels /\ b \in Seq(Channels)
      /\ Len(q) \in Nat /\ Len(q) >= 1 /\ Len(b) = Len(q) - 1
      /\ Head(q) = q[1]
      /\ \A i \in 1 .. Len(b) : b[i] = q[i + 1]
  OBVIOUS
<1> HIDE DEF b
<1>2. \A i \in 1 .. Len(b) : i + 1 \in 1 .. Len(q) /\ i + 1 # 1
  BY <1>1
<1>3. 1 \in 1 .. Len(q)
  BY <1>1
<1>4. In(q, Head(q)) /\ \A d : In(b, d) => In(q, d)
  BY <1>1, <1>2, <1>3 DEF In
<1>5. ASSUME NEW d, Once(q, d) PROVE Once(b, d)
  <2> SUFFICES ASSUME NEW i \in 1 .. Len(b), NEW j \in 1 .. Len(b), b[i] = d, b[j] = d
               PROVE  i = j
    BY DEF Once
  <2>1. /\ i + 1 \in 1 .. Len(q) /\ j + 1 \in 1 .. Len(q)
        /\ q[i + 1] = d /\ q[j + 1] = d
    BY <1>1, <1>2
  <2>2. i + 1 = j + 1
    BY <1>5, <2>1 DEF Once
  <2> QED BY <2>2
<1>6. ASSUME Once(q, Head(q)) PROVE ~In(b, Head(q))
  BY <1>1, <1>2, <1>3, <1>6 DEF Once, In
<1> QED BY <1>1, <1>4, <1>5, <1>6 DEF b

(* DataConfigDown begins on one thread.                                     *)
LEMMA BeginsThere ==
    ASSUME TypeInv, NEW t \in Threads, NEW c \in Channels, Begins(t, c)
    PROVE  /\ down'[t].at = "lookup" /\ down'[t].ch = c
           /\ \A u \in Threads \ {t} : down'[u] = down[u]
<1> DEFINE d == [NotDown EXCEPT !.at = "lookup", !.ch = c]
<1>1. d.at = "lookup" /\ d.ch = c
  BY DEF NotDown
<1>2. down \in [Threads -> DownRecord] /\ down' = [down EXCEPT ![t] = d]
  BY DEF TypeInv, TypeOK, DownRecord, Begins
<1> HIDE DEF d
<1> QED BY <1>1, <1>2

(* The owner of a context stays, or gives it up.                            *)
LEMMA StaysOwned ==
    ASSUME NEW d \in Channels, Owned(d), contextID'[d] = contextID[d],
           \A k \in Kinds : Owns(k, d)' => Owns(k, d),
           Len(queue'[d]) =< 1, Once(deactQueue', d), Once(timers', d)
    PROVE  Owned(d)'
BY DEF Owned, OneOwner, Found

(* The owner of a context hands it on.                                      *)
LEMMA HandedOn ==
    ASSUME NEW d \in Channels, Owned(d), contextID'[d] = contextID[d],
           NEW k \in Kinds, NEW l \in Kinds, Owns(k, d),
           \A j \in Kinds : Owns(j, d)' => j = l \/ (Owns(j, d) /\ j # k),
           Len(queue'[d]) =< 1, Once(deactQueue', d), Once(timers', d)
    PROVE  Owned(d)'
<1>1. Found(d)' /\ OneOwner(d)
  BY DEF Owned, Found
<1>2. \A j \in Kinds : Owns(j, d)' => j = l
  BY <1>1 DEF OneOwner
<1> QED BY <1>1, <1>2 DEF Owned, OneOwner

(* Nothing about the context changes.                                       *)
LEMMA LeftAlone ==
    ASSUME NEW d \in Channels, Owned(d),
           contextID'[d] = contextID[d], queue'[d] = queue[d], cpc'[d] = cpc[d],
           down'[Data(d)] = down[Data(d)], down'[Main] = down[Main],
           down'[Dlc2] = down[Dlc2], MainPrepares(d)' <=> MainPrepares(d),
           mpc' = "deactivating" /\ mch' = d => mpc = "deactivating" /\ mch = d,
           d \in believed' => d \in believed, d \in refused' => d \in refused,
           In(deactQueue', d) => In(deactQueue, d), Once(deactQueue', d),
           In(timers', d) => In(timers, d), Once(timers', d)
    PROVE  Owned(d)'
<1>1. \A k \in Kinds : Owns(k, d)' => Owns(k, d)
  BY DEF Owns, InProgress, IsDown, DownOn
<1>2. Len(queue'[d]) =< 1
  BY DEF Owned
<1> QED BY <1>1, <1>2, StaysOwned

LEMMA InitOwner == Init => OwnerInv
<1> SUFFICES ASSUME Init PROVE OwnerInv
  OBVIOUS
<1>1. ThreadsInv
  BY ThreadsDiffer DEF Init, ThreadsInv, NotDown
<1>2. ASSUME NEW c \in Channels PROVE Owned(c)
  <2>1. queue[c] = << >> /\ deactQueue = << >> /\ timers = << >>
    BY DEF Init
  <2>2. ~In(deactQueue, c) /\ ~In(timers, c) /\ Once(deactQueue, c) /\ Once(timers, c)
    BY <2>1 DEF In, Once
  <2>3. \A k \in Kinds : ~Owns(k, c)
    BY <2>1, <2>2, ThreadsDiffer
       DEF Init, Owns, MainPrepares, InProgress, DownOn, NotDown
  <2>4. Len(queue[c]) =< 1
    BY <2>1
  <2> QED BY <2>2, <2>3, <2>4 DEF Owned, OneOwner
<1> QED BY <1>1, <1>2 DEF OwnerInv

(* The main thread.                                                         *)
LEMMA ReserveOwner == ASSUME TypeInv, OwnerInv, ReserveContext PROVE OwnerInv'
<1>1. PICK c \in Channels : /\ contextID[c] = 0
                            /\ contextID' = [contextID EXCEPT ![c] = c]
                            /\ mpc = "idle" /\ mpc' = "reserved" /\ mch' = c
  BY DEF ReserveContext
<1>2. UNCHANGED <<chainVars, deactVars, noticeVars, down, believed, disturbed, refused>>
  BY DEF ReserveContext
<1> USE DEF chainVars, deactVars, noticeVars
<1>3. ThreadsInv'
  BY <1>1, <1>2 DEF OwnerInv, ThreadsInv
<1>4. ASSUME NEW d \in Channels \ disturbed, d # c PROVE Owned(d)'
  <2>1. contextID'[d] = contextID[d]
    BY <1>1, <1>4 DEF TypeInv, TypeOK
  <2>2. Owned(d)
    BY DEF OwnerInv
  <2> QED BY <1>1, <1>2, <1>4, <2>1, <2>2, LeftAlone DEF MainPrepares, Owned
<1>5. ASSUME c \notin disturbed PROVE Owned(c)'
  <2>1. Owned(c) /\ ~Found(c)
    BY <1>1, <1>5 DEF OwnerInv, Found, Channels
  <2>2. \A k \in Kinds : ~Owns(k, c)
    BY <2>1 DEF Owned
  <2>3. \A k \in Kinds : Owns(k, c)' => k = "main" \/ Owns(k, c)
    BY <1>1, <1>2 DEF Owns, InProgress, IsDown, DownOn
  <2>4. Found(c)'
    BY <1>1 DEF Found, TypeInv, TypeOK
  <2> QED BY <1>2, <2>1, <2>2, <2>3, <2>4 DEF Owned, OneOwner
<1> QED BY <1>2, <1>3, <1>4, <1>5 DEF OwnerInv

LEMMA QueueSetupOwner == ASSUME TypeInv, OwnerInv, QueueSetup PROVE OwnerInv'
<1> USE DEF channelVars, deactVars, noticeVars
<1>1. PICK c \in Channels : c = mch
  BY DEF QueueSetup, TypeInv, TypeOK, LocalInv
<1>2. /\ mpc = "inited" /\ mpc' = "idle" /\ mch' = 0
      /\ UNCHANGED <<channelVars, cpc, deactVars, noticeVars, down, believed,
                     disturbed, refused>>
      /\ \A d \in Channels \ {c} : queue'[d] = queue[d]
      /\ ~Found(c) => queue' = queue
      /\ Found(c) => queue'[c] = Append(queue[c], [req |-> mreq, stage |-> "define"])
  BY <1>1 DEF QueueSetup, TypeInv, TypeOK, LocalInv
<1>3. ThreadsInv'
  BY <1>2 DEF OwnerInv, ThreadsInv
<1>4. ASSUME NEW d \in Channels \ disturbed, d # c PROVE Owned(d)'
  BY <1>1, <1>2, <1>4, LeftAlone DEF OwnerInv, MainPrepares, Owned
<1>5. ASSUME c \notin disturbed PROVE Owned(c)'
  <2>1. Owned(c) /\ Owns("main", c) /\ "main" \in Kinds /\ "queue" \in Kinds
    BY <1>1, <1>2, <1>5 DEF OwnerInv, Owns, MainPrepares, Kinds
  <2>2. Found(c)
    BY <2>1 DEF Owned
  <2>3. queue[c] = << >>
    BY <2>1 DEF Owned, OneOwner, Owns, Kinds
  <2>4. Len(queue'[c]) =< 1
    <3>1. queue'[c] = Append(<< >>, [req |-> mreq, stage |-> "define"])
      BY <1>2, <2>2, <2>3
    <3>2. \A m : Len(Append(<< >>, m)) = 1
      OBVIOUS
    <3> QED BY <3>1, <3>2
  <2>5. \A j \in Kinds : Owns(j, c)' => j = "queue" \/ (Owns(j, c) /\ j # "main")
    BY <1>2 DEF Owns, MainPrepares, InProgress, IsDown, DownOn
  <2> QED BY <1>2, <2>1, <2>4, <2>5, HandedOn DEF Owned
<1> QED BY <1>2, <1>3, <1>4, <1>5 DEF OwnerInv

(* The framework asks for a deactivation: the call is no longer its own.    *)
LEMMA RequestDeactivateOwner ==
    ASSUME TypeInv, OwnerInv, NEW c \in Channels, RequestDeactivate(c)
    PROVE  OwnerInv'
<1> USE DEF channelVars, chainVars, noticeVars
<1>1. /\ mpc = "idle" /\ c \in believed /\ believed' = believed \ {c}
      /\ UNCHANGED <<channelVars, chainVars, npc, timers, noticeVars, disturbed, refused>>
      /\ \/ /\ Begins(Main, c) /\ mpc' = "down" /\ mch' = 0 /\ UNCHANGED deactQueue
         \/ /\ mpc' = "deactivating" /\ mch' = c /\ UNCHANGED <<down, deactQueue>>
         \/ /\ deactQueue' = Append(deactQueue, c) /\ UNCHANGED <<down, mpc, mch>>
  BY DEF RequestDeactivate
<1>2. down[Main].at = "none"
  BY <1>1 DEF OwnerInv, ThreadsInv
<1>3. Begins(Main, c) => /\ down'[Main].at = "lookup" /\ down'[Main].ch = c
                         /\ \A t \in Threads \ {Main} : down'[t] = down[t]
  BY ThreadsDiffer, BeginsThere
<1>4. /\ down'[Dlc2] = down[Dlc2] /\ down'[Urc] = down[Urc]
      /\ \A d \in Channels : down'[Data(d)] = down[Data(d)]
  BY <1>1, <1>3, ThreadsDiffer
<1>5. ThreadsInv'
  BY <1>1, <1>2, <1>3, <1>4 DEF OwnerInv, ThreadsInv
<1>6. deactQueue \in Seq(Channels)
  BY DEF TypeInv, TypeOK
<1>7. ASSUME NEW d \in Channels \ disturbed PROVE Owned(d)'
  <2>1. Owned(d)
    BY DEF OwnerInv
  <2>2. CASE d # c
    <3>1. (In(deactQueue', d) => In(deactQueue, d)) /\ Once(deactQueue', d)
      <4>1. deactQueue' = deactQueue \/ deactQueue' = Append(deactQueue, c)
        BY <1>1
      <4>2. /\ In(Append(deactQueue, c), d) => In(deactQueue, d)
            /\ Once(Append(deactQueue, c), d)
        BY <1>6, <2>1, <2>2, InAppend DEF Owned
      <4> QED BY <2>1, <4>1, <4>2 DEF Owned
    <3>2. MainPrepares(d)' <=> MainPrepares(d)
      BY <1>1, <2>2 DEF MainPrepares
    <3>3. \A k \in Kinds : Owns(k, d)' => Owns(k, d)
      BY <1>1, <1>2, <1>3, <1>4, <2>2, <3>1, <3>2
         DEF Owns, InProgress, IsDown, DownOn
    <3> QED BY <1>1, <2>1, <3>1, <3>3, StaysOwned DEF Owned
  <2>3. CASE d = c
    <3>1. Owns("believed", c) /\ "believed" \in Kinds
      BY <1>1 DEF Owns, Kinds
    <3>2. ~In(deactQueue, c)
      BY <2>1, <2>3, <3>1 DEF Owned, OneOwner, Owns, Kinds
    <3>3. Once(deactQueue', c)
      BY <1>1, <1>6, <2>1, <2>3, <3>2, InAppend DEF Owned
    <3>4. ~MainPrepares(c)' /\ ~(c \in believed')
      BY <1>1 DEF MainPrepares
    <3>5. PICK l \in {"mainDown", "deactivating", "deact"} :
             \A j \in Kinds : Owns(j, c)' => j = l \/ (Owns(j, c) /\ j # "believed")
      <4>1. CASE Begins(Main, c) /\ mpc' = "down" /\ UNCHANGED deactQueue
        <5>1. \A j \in Kinds : Owns(j, c)' => j = "mainDown" \/ (Owns(j, c) /\ j # "believed")
          BY <1>1, <1>4, <3>4, <4>1 DEF Owns, InProgress, IsDown, DownOn
        <5> QED BY <5>1
      <4>2. CASE mpc' = "deactivating" /\ UNCHANGED <<down, deactQueue>>
        <5>1. \A j \in Kinds :
                 Owns(j, c)' => j = "deactivating" \/ (Owns(j, c) /\ j # "believed")
          BY <1>1, <3>4, <4>2 DEF Owns, InProgress, IsDown, DownOn
        <5> QED BY <5>1
      <4>3. CASE deactQueue' = Append(deactQueue, c) /\ UNCHANGED <<down, mpc, mch>>
        <5>1. \A j \in Kinds : Owns(j, c)' => j = "deact" \/ (Owns(j, c) /\ j # "believed")
          BY <1>1, <3>4, <4>3 DEF Owns, InProgress, IsDown, DownOn
        <5> QED BY <5>1
      <4> QED BY <1>1, <4>1, <4>2, <4>3
    <3>6. l \in Kinds
      BY DEF Kinds
    <3> QED BY <1>1, <2>1, <2>3, <3>1, <3>3, <3>5, <3>6, HandedOn DEF Owned
  <2> QED BY <2>2, <2>3
<1> QED BY <1>1, <1>5, <1>7 DEF OwnerInv

LEMMA SetDeactivatingOwner ==
    ASSUME TypeInv, OwnerInv, SetDeactivating PROVE OwnerInv'
<1> USE DEF chainVars, noticeVars, historyVars
<1>1. PICK c \in Channels : c = mch
  BY DEF SetDeactivating, TypeInv, TypeOK, LocalInv
<1>2. /\ mpc = "deactivating" /\ mpc' = "idle" /\ mch' = 0
      /\ deactQueue' = Append(deactQueue, c) /\ deactQueue \in Seq(Channels)
      /\ UNCHANGED <<contextID, chainVars, npc, timers, noticeVars, down, believed,
                     historyVars>>
  BY <1>1 DEF SetDeactivating, TypeInv, TypeOK
<1>3. ThreadsInv'
  BY <1>2 DEF OwnerInv, ThreadsInv
<1>4. ASSUME NEW d \in Channels \ disturbed PROVE Owned(d)'
  <2>1. Owned(d)
    BY DEF OwnerInv
  <2>2. CASE d # c
    <3>1. (In(deactQueue', d) => In(deactQueue, d)) /\ Once(deactQueue', d)
      BY <1>2, <2>1, <2>2, InAppend DEF Owned
    <3> QED BY <1>2, <2>1, <3>1, LeftAlone DEF MainPrepares, Owned
  <2>3. CASE d = c
    <3>1. Owns("deactivating", c) /\ "deactivating" \in Kinds /\ "deact" \in Kinds
      BY <1>1, <1>2 DEF Owns, Kinds
    <3>2. ~In(deactQueue, c)
      BY <2>1, <2>3, <3>1 DEF Owned, OneOwner, Owns, Kinds
    <3>3. Once(deactQueue', c)
      BY <1>2, <2>1, <2>3, <3>2, InAppend DEF Owned
    <3>4. \A j \in Kinds :
             Owns(j, c)' => j = "deact" \/ (Owns(j, c) /\ j # "deactivating")
      BY <1>2 DEF Owns, MainPrepares, InProgress, IsDown, DownOn
    <3> QED BY <1>2, <2>1, <2>3, <3>1, <3>3, <3>4, HandedOn DEF Owned
  <2> QED BY <2>2, <2>3
<1> QED BY <1>2, <1>3, <1>4 DEF OwnerInv

LEMMA TriggerDeactivateOwner ==
    ASSUME TypeInv, OwnerInv, TriggerDeactivate PROVE OwnerInv'
<1> USE DEF channelVars, chainVars, mainVars, noticeVars, historyVars
<1> DEFINE h == Head(timers)
<1>1. /\ timers \in Seq(Channels) /\ timers # << >> /\ deactQueue \in Seq(Channels)
      /\ deactQueue' = <<h>> \o deactQueue /\ timers' = Tail(timers)
      /\ UNCHANGED <<channelVars, chainVars, npc, mainVars, noticeVars, down, believed,
                     historyVars>>
  BY DEF TriggerDeactivate, TypeInv, TypeOK
<1>2. h \in Channels /\ In(timers, h)
  BY <1>1, InTail
<1> HIDE DEF h
<1>3. PICK c \in Channels : c = h
  BY <1>2
<1>4. /\ \A d : In(timers', d) => In(timers, d)
      /\ \A d : Once(timers, d) => Once(timers', d)
      /\ Once(timers, c) => ~In(timers', c)
  BY <1>1, <1>3, InTail DEF h
<1>5. /\ \A d : In(deactQueue', d) <=> In(deactQueue, d) \/ d = c
      /\ \A d : Once(deactQueue, d) /\ (d # c \/ ~In(deactQueue, d)) => Once(deactQueue', d)
  BY <1>1, <1>3, InCons
<1>6. ThreadsInv'
  BY <1>1 DEF OwnerInv, ThreadsInv
<1>7. ASSUME NEW d \in Channels \ disturbed PROVE Owned(d)'
  <2>1. Owned(d)
    BY DEF OwnerInv
  <2>2. CASE d # c
    BY <1>1, <1>4, <1>5, <2>1, <2>2, LeftAlone DEF MainPrepares, Owned
  <2>3. CASE d = c
    <3>1. Owns("timer", c) /\ "timer" \in Kinds /\ "deact" \in Kinds
      BY <1>2, <1>3 DEF Owns, Kinds
    <3>2. ~In(deactQueue, c)
      BY <2>1, <2>3, <3>1 DEF Owned, OneOwner, Owns, Kinds
    <3>3. Once(deactQueue', c) /\ Once(timers', c) /\ ~In(timers', c)
      BY <1>4, <1>5, <2>1, <2>3, <3>2 DEF Owned
    <3>4. \A j \in Kinds : Owns(j, c)' => j = "deact" \/ (Owns(j, c) /\ j # "timer")
      BY <1>1, <3>3 DEF Owns, MainPrepares, InProgress, IsDown, DownOn
    <3> QED BY <1>1, <2>1, <2>3, <3>1, <3>3, <3>4, HandedOn DEF Owned
  <2> QED BY <2>2, <2>3
<1> QED BY <1>1, <1>6, <1>7 DEF OwnerInv

(* A step that moves no context at all.                                     *)
LEMMA OwnerKept ==
    ASSUME OwnerInv, ThreadsInv', disturbed \subseteq disturbed',
           UNCHANGED <<contextID, chainVars, deactQueue, timers, refused>>,
           \A d \in Channels \ disturbed' :
              /\ down'[Data(d)] = down[Data(d)] /\ down'[Main] = down[Main]
              /\ down'[Dlc2] = down[Dlc2]
              /\ MainPrepares(d)' <=> MainPrepares(d)
              /\ mpc' = "deactivating" /\ mch' = d => mpc = "deactivating" /\ mch = d,
           believed' \subseteq believed
    PROVE  OwnerInv'
<1>1. ASSUME NEW d \in Channels \ disturbed' PROVE Owned(d)'
  <2>1. Owned(d)
    BY DEF OwnerInv
  <2> QED BY <2>1, LeftAlone DEF Owned, chainVars
<1> QED BY <1>1 DEF OwnerInv

LEMMA MainQuietOwner ==
    ASSUME TypeInv, OwnerInv, RefuseSetup \/ SetIniting \/ DeactivatedAtOnce
    PROVE  OwnerInv'
<1> USE DEF channelVars, chainVars, deactVars, mainVars, noticeVars, historyVars
<1>1. CASE RefuseSetup
  <2>1. ThreadsInv'
    BY <1>1 DEF RefuseSetup, OwnerInv, ThreadsInv
  <2> QED BY <1>1, <2>1, OwnerKept DEF RefuseSetup, MainPrepares
<1>2. CASE SetIniting
  <2>1. ThreadsInv'
    BY <1>2 DEF SetIniting, OwnerInv, ThreadsInv
  <2> QED BY <1>2, <2>1, OwnerKept DEF SetIniting, MainPrepares
<1>3. CASE DeactivatedAtOnce
  <2>1. ThreadsInv'
    BY <1>3 DEF DeactivatedAtOnce, OwnerInv, ThreadsInv, IsDown
  <2> QED BY <1>3, <2>1, OwnerKept DEF DeactivatedAtOnce, MainPrepares
<1> QED BY <1>1, <1>2, <1>3

(* The command thread of a data channel, for the other channels.            *)
LEMMA ChainElsewhere ==
    ASSUME TypeInv, OwnerInv, NEW c \in Channels, CommandThread(c), ThreadsInv'
    PROVE  /\ \A d \in Channels \ disturbed : d # c => Owned(d)'
           /\ UNCHANGED <<contextID, mpc, mch, deactQueue, refused, disturbed>>
           /\ down'[Main] = down[Main] /\ down'[Dlc2] = down[Dlc2]
           /\ \A j \in Kinds \ {"queue", "chain", "believed", "timer"} :
                 Owns(j, c)' => Owns(j, c)
<1> USE DEF channelVars, chainVars, deactVars, mainVars, noticeVars, historyVars
<1>1. /\ UNCHANGED <<contextID, mpc, mch, deactQueue, refused, disturbed>>
      /\ believed' = believed \/ believed' = believed \cup {c}
      /\ timers' = timers \/ timers' = Append(timers, c)
      /\ UNCHANGED down \/ Begins(Data(c), c)
  BY DEF CommandThread, AnswerCommand, ParseEnterDataState, BlockReadThread, PostHandler,
         SetStateAndQueue, SetupInterface, IncrementRefCount, ReportSuccess,
         HandleSetupFailure, FailedSetupDown, CompleteSetup
<1>2. \A d \in Channels \ {c} : queue'[d] = queue[d] /\ cpc'[d] = cpc[d]
  <2>1. /\ queue' = queue \/ \E x : queue' = [queue EXCEPT ![c] = x]
        /\ \E x : cpc' = [cpc EXCEPT ![c] = x]
    BY DEF CommandThread, AnswerCommand, ParseEnterDataState, BlockReadThread,
           PostHandler, SetStateAndQueue, SetupInterface, IncrementRefCount,
           ReportSuccess, HandleSetupFailure, FailedSetupDown, CompleteSetup, Goes,
           Rests, QueueNext
  <2> QED BY <2>1 DEF TypeInv, TypeOK
<1>3. /\ down'[Main] = down[Main] /\ down'[Dlc2] = down[Dlc2]
      /\ \A d \in Channels \ {c} : down'[Data(d)] = down[Data(d)]
  <2>1. CASE Begins(Data(c), c)
    BY <2>1, BeginsThere, ThreadsDiffer
  <2> QED BY <1>1, <2>1
<1>4. ASSUME NEW d \in Channels \ disturbed, d # c PROVE Owned(d)'
  <2>1. Owned(d)
    BY DEF OwnerInv
  <2>2. (In(timers', d) => In(timers, d)) /\ Once(timers', d)
    <3>1. timers \in Seq(Channels)
      BY DEF TypeInv, TypeOK
    <3>2. /\ In(Append(timers, c), d) => In(timers, d)
          /\ Once(Append(timers, c), d)
      BY <1>4, <2>1, <3>1, InAppend DEF Owned
    <3> QED BY <1>1, <2>1, <3>2 DEF Owned
  <2> QED BY <1>1, <1>2, <1>3, <1>4, <2>1, <2>2, LeftAlone DEF MainPrepares, Owned
<1>5. \A j \in Kinds \ {"queue", "chain", "believed", "timer"} :
         Owns(j, c)' => Owns(j, c)
  BY <1>1, <1>3 DEF Owns, MainPrepares, DownOn
<1> QED BY <1>1, <1>3, <1>4, <1>5

(* The command thread's own channel, and what it brings down.               *)
LEMMA ChainThreads ==
    ASSUME TypeInv, OwnerInv, NEW c \in Channels, CommandThread(c)
    PROVE  ThreadsInv'
<1> USE DEF channelVars, chainVars, deactVars, mainVars, noticeVars, historyVars
<1>1. UNCHANGED <<mpc, npc, upc, uch, disturbed>>
  BY DEF CommandThread, AnswerCommand, ParseEnterDataState, BlockReadThread, PostHandler,
         SetStateAndQueue, SetupInterface, IncrementRefCount, ReportSuccess,
         HandleSetupFailure, FailedSetupDown, CompleteSetup
<1>2. /\ UNCHANGED down \/ (Begins(Data(c), c) /\ cpc' = [cpc EXCEPT ![c] = "down"])
      /\ down' = down => \E x : cpc' = [cpc EXCEPT ![c] = x]
      /\ cpc[c] = "down" => IsDown(Data(c)) /\ down' = down
  BY DEF CommandThread, AnswerCommand, ParseEnterDataState, BlockReadThread, PostHandler,
         SetStateAndQueue, SetupInterface, IncrementRefCount, ReportSuccess,
         HandleSetupFailure, FailedSetupDown, CompleteSetup, Goes, Rests
<1>3. CASE UNCHANGED down
  <2>1. \A d \in Channels : down[Data(d)].at # "none" => cpc'[d] = cpc[d]
    BY <1>2, <1>3 DEF OwnerInv, ThreadsInv, IsDown, TypeInv, TypeOK
  <2> QED BY <1>1, <1>3, <2>1 DEF OwnerInv, ThreadsInv
<1>4. CASE Begins(Data(c), c) /\ cpc' = [cpc EXCEPT ![c] = "down"]
  <2>1. /\ down'[Data(c)].ch = c /\ cpc'[c] = "down"
        /\ \A d \in Channels \ {c} : down'[Data(d)] = down[Data(d)] /\ cpc'[d] = cpc[d]
        /\ \A t \in {Main, Dlc2, Urc} : down'[t] = down[t]
    BY <1>4, BeginsThere, ThreadsDiffer DEF TypeInv, TypeOK
  <2> QED BY <1>1, <2>1 DEF OwnerInv, ThreadsInv
<1> QED BY <1>2, <1>3, <1>4

(* A stage of the chain is in progress, and stays so or ends.               *)
LEMMA ChainGoesOn ==
    ASSUME TypeInv, OwnerInv, NEW c \in Channels \ disturbed,
           \/ ParseEnterDataState(c) \/ BlockReadThread(c) \/ PostHandler(c)
           \/ SetupInterface(c) \/ IncrementRefCount(c) \/ ReportSuccess(c)
           \/ FailedSetupDown(c)
    PROVE  Owned(c)'
<1> USE DEF channelVars, chainVars, deactVars, mainVars, noticeVars, historyVars
<1>1. /\ UNCHANGED <<contextID, queue, deactVars, mainVars, down, believed, refused>>
      /\ \/ cpc[c] \in {"connect", "block", "post", "go", "count", "report"}
         \/ cpc' = [cpc EXCEPT ![c] = "error"]
  BY DEF ParseEnterDataState, BlockReadThread, PostHandler, SetupInterface,
         IncrementRefCount, ReportSuccess, FailedSetupDown, Goes
<1>2. Owns("chain", c)' => Owns("chain", c)
  <2>1. CASE cpc[c] \in {"connect", "block", "post", "go", "count", "report"}
    BY <2>1 DEF Owns, InProgress
  <2>2. CASE cpc' = [cpc EXCEPT ![c] = "error"]
    BY <2>2 DEF Owns, InProgress, TypeInv, TypeOK
  <2> QED BY <1>1, <2>1, <2>2
<1>3. \A k \in Kinds : Owns(k, c)' => Owns(k, c)
  <2>1. \A k \in Kinds \ {"chain"} : Owns(k, c)' => Owns(k, c)
    BY <1>1 DEF Owns, MainPrepares, DownOn
  <2> QED BY <1>2, <2>1
<1>4. Owned(c)
  BY DEF OwnerInv
<1> QED BY <1>1, <1>3, <1>4, StaysOwned DEF Owned

LEMMA OneCommand ==
    ASSUME NEW q \in Seq(Command), q # << >>, Len(q) =< 1
    PROVE  Tail(q) = << >>
<1>1. Len(q) \in Nat /\ Len(q) # 0
  BY EmptySeq
<1>2. Len(q) = 1
  BY <1>1
<1>3. Tail(q) \in Seq(Command) /\ Len(Tail(q)) = 0
  BY <1>2
<1> QED BY <1>3

LEMMA AnswerCommandOwner ==
    ASSUME TypeInv, OwnerInv, NEW c \in Channels \ disturbed, AnswerCommand(c)
    PROVE  Owned(c)'
<1> USE DEF channelVars, deactVars, mainVars, noticeVars, historyVars
<1>1. /\ queue[c] # << >> /\ queue' = [queue EXCEPT ![c] = Tail(queue[c])]
      /\ UNCHANGED <<contextID, deactVars, mainVars, down, believed, refused>>
  BY DEF AnswerCommand
<1>2. Owned(c) /\ Owns("queue", c) /\ "queue" \in Kinds /\ "chain" \in Kinds
  BY <1>1 DEF OwnerInv, Owns, Kinds
<1>3. queue'[c] = << >>
  <2>1. queue[c] \in Seq(Command) /\ Len(queue[c]) =< 1 /\ queue'[c] = Tail(queue[c])
    BY <1>1, <1>2 DEF TypeInv, TypeOK, Owned
  <2> QED BY <1>1, <2>1, OneCommand
<1>4. \A j \in Kinds : Owns(j, c)' => j = "chain" \/ (Owns(j, c) /\ j # "queue")
  BY <1>1, <1>3 DEF Owns, MainPrepares, DownOn
<1>5. Len(queue'[c]) =< 1
  BY <1>3
<1> QED BY <1>1, <1>2, <1>4, <1>5, HandedOn DEF Owned

LEMMA QueueNextOwner ==
    ASSUME TypeInv, OwnerInv, NEW c \in Channels \ disturbed, SetStateAndQueue(c)
    PROVE  Owned(c)'
<1> USE DEF channelVars, deactVars, mainVars, noticeVars, historyVars
<1>1. PICK m \in Command : queue' = [queue EXCEPT ![c] = <<m>> \o queue[c]]
  <2>1. PICK st \in Stages : QueueNext(c, st)
    BY DEF SetStateAndQueue, Stages
  <2>2. [inHand[c] EXCEPT !.stage = st] \in Command
    BY QueuedAreSetups DEF SetStateAndQueue, Command
  <2> QED BY <2>1, <2>2 DEF QueueNext
<1>2. /\ cpc[c] = "go" /\ cpc' = [cpc EXCEPT ![c] = "idle"]
      /\ UNCHANGED <<contextID, deactVars, mainVars, down, believed, refused>>
  BY DEF SetStateAndQueue, Rests, Goes
<1>3. Owned(c) /\ Owns("chain", c) /\ "queue" \in Kinds /\ "chain" \in Kinds
  BY <1>2 DEF OwnerInv, Owns, Kinds, InProgress
<1>4. queue[c] = << >>
  BY <1>3 DEF Owned, OneOwner, Owns, Kinds
<1>5. Len(queue'[c]) =< 1
  <2>1. queue'[c] = <<m>> \o << >> /\ <<m>> \in Seq(Command)
    BY <1>1, <1>4 DEF TypeInv, TypeOK
  <2>2. Len(<<m>> \o << >>) = 1
    BY <2>1
  <2> QED BY <2>1, <2>2
<1>6. cpc'[c] = "idle"
  BY <1>2 DEF TypeInv, TypeOK
<1>7. \A j \in Kinds : Owns(j, c)' => j = "queue" \/ (Owns(j, c) /\ j # "chain")
  BY <1>2, <1>6 DEF Owns, MainPrepares, DownOn, InProgress
<1> QED BY <1>2, <1>3, <1>5, <1>7, HandedOn DEF Owned

LEMMA FailureOwner ==
    ASSUME TypeInv, OwnerInv, NEW c \in Channels \ disturbed, HandleSetupFailure(c)
    PROVE  Owned(c)'
<1> USE DEF channelVars, chainVars, deactVars, mainVars, noticeVars, historyVars
<1>1. /\ cpc[c] = "failed" /\ timers \in Seq(Channels)
      /\ UNCHANGED <<contextID, queue, deactQueue, mainVars, believed, refused>>
      /\ \/ /\ cpc' = [cpc EXCEPT ![c] = "error"] /\ UNCHANGED <<timers, down>>
         \/ /\ cpc' = [cpc EXCEPT ![c] = "error"] /\ UNCHANGED down
            /\ timers' = Append(timers, c)
         \/ Begins(Data(c), c) /\ UNCHANGED timers
  BY DEF HandleSetupFailure, Goes, TypeInv, TypeOK
<1>2. Owned(c) /\ Owns("chain", c) /\ "timer" \in Kinds /\ "chain" \in Kinds
  BY <1>1 DEF OwnerInv, Owns, Kinds, InProgress
<1>3. ~In(timers, c)
  BY <1>2 DEF Owned, OneOwner, Owns, Kinds
<1>4. CASE cpc' = [cpc EXCEPT ![c] = "error"] /\ UNCHANGED <<timers, down>>
  <2>1. cpc'[c] = "error"
    BY <1>4 DEF TypeInv, TypeOK
  <2>2. \A k \in Kinds : Owns(k, c)' => Owns(k, c)
    BY <1>1, <1>4, <2>1 DEF Owns, MainPrepares, DownOn, InProgress
  <2> QED BY <1>1, <1>2, <1>4, <2>2, StaysOwned DEF Owned
<1>5. CASE /\ cpc' = [cpc EXCEPT ![c] = "error"] /\ UNCHANGED down
           /\ timers' = Append(timers, c)
  <2>1. cpc'[c] = "error"
    BY <1>5 DEF TypeInv, TypeOK
  <2>2. Once(timers', c)
    BY <1>1, <1>2, <1>3, <1>5, InAppend DEF Owned
  <2>3. \A j \in Kinds : Owns(j, c)' => j = "timer" \/ (Owns(j, c) /\ j # "chain")
    BY <1>1, <1>5, <2>1 DEF Owns, MainPrepares, DownOn, InProgress
  <2> QED BY <1>1, <1>2, <2>2, <2>3, HandedOn DEF Owned
<1>6. CASE Begins(Data(c), c) /\ UNCHANGED timers
  <2>1. down'[Main] = down[Main] /\ down'[Dlc2] = down[Dlc2]
    BY <1>6, BeginsThere, ThreadsDiffer
  <2>2. \A k \in Kinds : Owns(k, c)' => Owns(k, c)
    BY <1>1, <1>2, <1>6, <2>1 DEF Owns, MainPrepares, DownOn
  <2> QED BY <1>1, <1>2, <1>6, <2>2, StaysOwned DEF Owned
<1> QED BY <1>1, <1>4, <1>5, <1>6

LEMMA CompleteSetupOwner ==
    ASSUME TypeInv, OwnerInv, NEW c \in Channels \ disturbed, CompleteSetup(c)
    PROVE  Owned(c)'
<1> USE DEF channelVars, deactVars, mainVars, noticeVars, historyVars
<1>1. /\ cpc[c] \in {"success", "error"} /\ cpc' = [cpc EXCEPT ![c] = "idle"]
      /\ believed' = IF cpc[c] = "success" THEN believed \cup {c} ELSE believed
      /\ UNCHANGED <<contextID, queue, deactVars, mainVars, down, refused>>
  BY DEF CompleteSetup, Rests, Goes
<1>2. Owned(c) /\ "believed" \in Kinds /\ "chain" \in Kinds /\ cpc'[c] = "idle"
  BY <1>1 DEF OwnerInv, Kinds, TypeInv, TypeOK
<1>3. CASE cpc[c] = "success"
  <2>1. Owns("chain", c)
    BY <1>3 DEF Owns
  <2>2. \A j \in Kinds : Owns(j, c)' => j = "believed" \/ (Owns(j, c) /\ j # "chain")
    BY <1>1, <1>2 DEF Owns, MainPrepares, DownOn, InProgress
  <2> QED BY <1>1, <1>2, <2>1, <2>2, HandedOn DEF Owned
<1>4. CASE cpc[c] # "success"
  <2>1. \A k \in Kinds : Owns(k, c)' => Owns(k, c)
    BY <1>1, <1>2, <1>4 DEF Owns, MainPrepares, DownOn, InProgress
  <2> QED BY <1>1, <1>2, <2>1, StaysOwned DEF Owned
<1> QED BY <1>3, <1>4

LEMMA ChainOwner ==
    ASSUME TypeInv, OwnerInv, NEW c \in Channels, CommandThread(c)
    PROVE  OwnerInv'
<1>1. ThreadsInv'
  BY ChainThreads
<1>2. /\ disturbed' = disturbed
      /\ \A d \in Channels \ disturbed : d # c => Owned(d)'
  BY <1>1, ChainElsewhere
<1>3. ASSUME c \notin disturbed PROVE Owned(c)'
  BY <1>3, ChainGoesOn, AnswerCommandOwner, QueueNextOwner, FailureOwner,
     CompleteSetupOwner DEF CommandThread
<1> QED BY <1>1, <1>2, <1>3 DEF OwnerInv

(* DLC2's command thread.                                                   *)
LEMMA AnswerDeactivateOwner ==
    ASSUME TypeInv, OwnerInv, AnswerDeactivate PROVE OwnerInv'
<1> USE DEF channelVars, chainVars, mainVars, noticeVars
<1> DEFINE h == Head(deactQueue)
<1>1. /\ deactQueue \in Seq(Channels) /\ deactQueue # << >> /\ npc = "idle"
      /\ deactQueue' = Tail(deactQueue)
      /\ UNCHANGED <<channelVars, chainVars, timers, mainVars, noticeVars, believed,
                     disturbed>>
      /\ \/ Begins(Dlc2, h) /\ npc' = "down" /\ UNCHANGED refused
         \/ /\ refused' = IF Found(h) THEN refused \cup {h} ELSE refused
            /\ UNCHANGED <<npc, down>>
  BY DEF AnswerDeactivate, TypeInv, TypeOK
<1>2. h \in Channels /\ In(deactQueue, h)
  BY <1>1, InTail
<1>3. /\ \A d : In(deactQueue', d) => In(deactQueue, d)
      /\ \A d : Once(deactQueue, d) => Once(deactQueue', d)
      /\ Once(deactQueue, h) => ~In(deactQueue', h)
  BY <1>1, InTail
<1> HIDE DEF h
<1>4. PICK c \in Channels : c = h
  BY <1>2
<1>5. /\ Begins(Dlc2, c) => down'[Dlc2].ch = c
      /\ down'[Main] = down[Main] /\ down'[Urc] = down[Urc]
      /\ \A d \in Channels : down'[Data(d)] = down[Data(d)]
  <2>1. CASE Begins(Dlc2, c)
    BY <2>1, BeginsThere, ThreadsDiffer
  <2>2. CASE ~Begins(Dlc2, c)
    BY <1>1, <1>4, <2>2
  <2> QED BY <2>1, <2>2
<1>6. ThreadsInv'
  BY <1>1, <1>4, <1>5 DEF OwnerInv, ThreadsInv
<1>7. down[Dlc2].at = "none"
  BY <1>1 DEF OwnerInv, ThreadsInv
<1>8. ASSUME NEW d \in Channels \ disturbed PROVE Owned(d)'
  <2>1. Owned(d)
    BY DEF OwnerInv
  <2>2. MainPrepares(d)' <=> MainPrepares(d)
    BY <1>1 DEF MainPrepares
  <2>3. CASE d # c
    <3>1. Owns("dlc2Down", d)' => Owns("dlc2Down", d)
      BY <1>1, <1>4, <1>5, <1>7, <2>3 DEF Owns, DownOn
    <3>2. Owns("refused", d)' => Owns("refused", d)
      BY <1>1, <1>4, <2>3 DEF Owns
    <3>3. \A k \in Kinds \ {"dlc2Down", "refused"} : Owns(k, d)' => Owns(k, d)
      BY <1>1, <1>3, <1>5, <2>2 DEF Owns, InProgress, IsDown, DownOn
    <3>4. \A k \in Kinds : Owns(k, d)' => Owns(k, d)
      BY <3>1, <3>2, <3>3
    <3> QED BY <1>1, <1>3, <2>1, <3>4, StaysOwned DEF Owned
  <2>4. CASE d = c
    <3>1. /\ Owns("deact", c) /\ "deact" \in Kinds
          /\ "dlc2Down" \in Kinds /\ "refused" \in Kinds
      BY <1>2, <1>4 DEF Owns, Kinds
    <3>2. Once(deactQueue', c) /\ ~In(deactQueue', c)
      BY <1>3, <1>4, <2>1, <2>4 DEF Owned
    <3>3. \A k \in Kinds \ {"dlc2Down", "refused"} :
             Owns(k, c)' => Owns(k, c) /\ k # "deact"
      BY <1>1, <1>5, <2>2, <2>4, <3>2 DEF Owns, InProgress, IsDown, DownOn
    <3>4. CASE UNCHANGED refused
      <4>1. Owns("refused", c)' => Owns("refused", c)
        BY <3>4 DEF Owns
      <4>2. \A j \in Kinds : Owns(j, c)' => j = "dlc2Down" \/ (Owns(j, c) /\ j # "deact")
        BY <3>3, <4>1
      <4> QED BY <1>1, <2>1, <2>4, <3>1, <3>2, <4>2, HandedOn DEF Owned
    <3>5. CASE UNCHANGED down
      <4>1. Owns("dlc2Down", c)' => Owns("dlc2Down", c)
        BY <3>5 DEF Owns, DownOn
      <4>2. \A j \in Kinds : Owns(j, c)' => j = "refused" \/ (Owns(j, c) /\ j # "deact")
        BY <3>3, <4>1
      <4> QED BY <1>1, <2>1, <2>4, <3>1, <3>2, <4>2, HandedOn DEF Owned
    <3> QED BY <1>1, <3>4, <3>5
  <2> QED BY <2>3, <2>4
<1> QED BY <1>1, <1>6, <1>8 DEF OwnerInv

(* The response thread and the modem: what they touch is disturbed.         *)
LEMMA NoticeOwner ==
    ASSUME TypeInv, OwnerInv, TypeInv',
           \/ DeactivateDone \/ UrcThread \/ ModemDetaches
           \/ \E c \in Channels : ModemDeactivates(c)
    PROVE  OwnerInv'
<1> USE DEF channelVars, chainVars, deactVars, mainVars, noticeVars, historyVars
<1>1. CASE DeactivateDone \/ ModemDetaches \/ \E c \in Channels : ModemDeactivates(c)
  <2>1. /\ UNCHANGED <<contextID, chainVars, deactQueue, timers, mainVars, refused,
                       down, believed, upc, uch, disturbed>>
        /\ npc' = npc \/ down[Dlc2].at = "none"
    BY <1>1 DEF DeactivateDone, ModemDetaches, ModemDeactivates, IsDown
  <2>2. ThreadsInv'
    BY <2>1 DEF OwnerInv, ThreadsInv
  <2> QED BY <2>1, <2>2, OwnerKept DEF MainPrepares
<1>2. ASSUME UrcThread, ThreadsInv' PROVE OwnerInv'
  <2>1. /\ UNCHANGED <<contextID, chainVars, deactQueue, timers, refused, mainVars>>
        /\ disturbed \subseteq disturbed' /\ believed' \subseteq believed
    BY <1>2 DEF UrcThread, HearNotice, HandleDeactivation, CleanupNext, ListActiveCalls,
                SendCallList
  <2>2. UNCHANGED down \/ \E c \in Channels : Begins(Urc, c)
    <3>1. HandleDeactivation => uch \in Channels
      BY DEF HandleDeactivation, TypeInv, LocalInv
    <3>2. CleanupNext => uch \in Channels \/ UNCHANGED down
      <4>1. uch # 0 /\ ~(uch > NChannels) => uch \in Channels
        BY DataCallsAssumption DEF TypeInv, TypeOK, Channels
      <4> QED BY <4>1 DEF CleanupNext, TypeInv, LocalInv
    <3> QED BY <1>2, <3>1, <3>2 DEF UrcThread, HearNotice, HandleDeactivation,
                CleanupNext, ListActiveCalls, SendCallList
  <2>3. /\ down'[Main] = down[Main] /\ down'[Dlc2] = down[Dlc2]
        /\ \A d \in Channels : down'[Data(d)] = down[Data(d)]
    <3>1. ASSUME NEW c \in Channels, Begins(Urc, c)
          PROVE  /\ down'[Main] = down[Main] /\ down'[Dlc2] = down[Dlc2]
                 /\ \A d \in Channels : down'[Data(d)] = down[Data(d)]
      BY <3>1, BeginsThere, ThreadsDiffer
    <3> QED BY <2>2, <3>1
  <2> QED BY <1>2, <2>1, <2>3, OwnerKept DEF MainPrepares
<1>3. CASE HearNotice
  <2>1. /\ UNCHANGED <<chainVars, deactVars, mainVars, down>>
        /\ disturbed \subseteq disturbed'
        /\ upc' \in {"me", "nw"} => uch' \in disturbed' \/ UNCHANGED <<upc, uch>>
    BY <1>3 DEF HearNotice
  <2>2. ThreadsInv'
    BY <2>1 DEF OwnerInv, ThreadsInv
  <2> QED BY <1>2, <1>3, <2>2 DEF UrcThread
<1>4. CASE HandleDeactivation
  <2>1. /\ UNCHANGED <<chainVars, deactVars, mainVars, disturbed>> /\ uch \in Channels
        /\ uch \in disturbed
        /\ upc' \notin {"me", "nw"} /\ (UNCHANGED down \/ Begins(Urc, uch))
    BY <1>4 DEF HandleDeactivation, TypeInv, LocalInv, OwnerInv, ThreadsInv
  <2>2. CASE UNCHANGED down
    <3>1. ThreadsInv'
      BY <2>1, <2>2 DEF OwnerInv, ThreadsInv
    <3> QED BY <1>2, <1>4, <3>1 DEF UrcThread
  <2>3. CASE Begins(Urc, uch)
    <3>1. /\ down'[Urc].ch = uch /\ down'[Main] = down[Main] /\ down'[Dlc2] = down[Dlc2]
          /\ \A d \in Channels : down'[Data(d)] = down[Data(d)]
      BY <2>1, <2>3, BeginsThere, ThreadsDiffer
    <3>2. ThreadsInv'
      BY <2>1, <3>1 DEF OwnerInv, ThreadsInv
    <3> QED BY <1>2, <1>4, <3>2 DEF UrcThread
  <2> QED BY <2>1, <2>2, <2>3
<1>5. CASE CleanupNext
  <2>1. /\ UNCHANGED <<chainVars, deactVars, mainVars>>
        /\ disturbed \subseteq disturbed' /\ upc' \notin {"me", "nw"}
        /\ \/ UNCHANGED down
           \/ uch \in Channels /\ Begins(Urc, uch) /\ uch \in disturbed'
    <3>1. uch # 0 /\ ~(uch > NChannels) => uch \in Channels
      BY DataCallsAssumption DEF TypeInv, TypeOK, Channels
    <3> QED BY <1>5, <3>1 DEF CleanupNext, TypeInv, LocalInv
  <2>2. CASE UNCHANGED down
    <3>1. ThreadsInv'
      BY <2>1, <2>2 DEF OwnerInv, ThreadsInv
    <3> QED BY <1>2, <1>5, <3>1 DEF UrcThread
  <2>3. CASE uch \in Channels /\ Begins(Urc, uch) /\ uch \in disturbed'
    <3>1. /\ down'[Urc].ch = uch /\ down'[Main] = down[Main] /\ down'[Dlc2] = down[Dlc2]
          /\ \A d \in Channels : down'[Data(d)] = down[Data(d)]
      BY <2>3, BeginsThere, ThreadsDiffer
    <3>2. ThreadsInv'
      BY <2>1, <2>3, <3>1 DEF OwnerInv, ThreadsInv
    <3> QED BY <1>2, <1>5, <3>2 DEF UrcThread
  <2> QED BY <2>1, <2>2, <2>3
<1>6. CASE ListActiveCalls \/ SendCallList
  <2>1. /\ UNCHANGED <<chainVars, deactVars, mainVars, disturbed, down>>
        /\ upc' \notin {"me", "nw"}
    BY <1>6 DEF ListActiveCalls, SendCallList
  <2>2. ThreadsInv'
    BY <2>1 DEF OwnerInv, ThreadsInv
  <2> QED BY <1>2, <1>6, <2>2 DEF UrcThread
<1> QED BY <1>1, <1>3, <1>4, <1>5, <1>6 DEF UrcThread

(* DataConfigDown is done by the owner, or by the response thread on a       *)
(* disturbed channel.                                                        *)
LEMMA DownOwner ==
    ASSUME TypeInv, OwnerInv, NEW t \in Threads, DataConfigDown(t)
    PROVE  OwnerInv'
<1> USE DEF chainVars, deactVars, mainVars, noticeVars
<1>1. /\ UNCHANGED <<chainVars, deactVars, mainVars, noticeVars, believed, disturbed>>
      /\ refused' \subseteq refused
  BY DEF DataConfigDown, FreeContext
<1>2. PICK c \in Channels : c = down[t].ch
  BY DownSteps
<1>3. /\ down[t].at # "none" /\ down[t].ch = c
      /\ \A u \in Threads \ {t} : down'[u] = down[u]
      /\ down'[t].at # "none" => down'[t].ch = c
  <2>1. PICK d \in DownRecord : /\ down' = [down EXCEPT ![t] = d]
                                /\ d.at # "none" => d.ch = c
    BY <1>2, DownSteps
  <2>2. down \in [Threads -> DownRecord] /\ down[t].at # "none"
    BY DownSteps DEF TypeInv, TypeOK, DownRecord
  <2> QED BY <1>2, <2>1, <2>2
<1>4. /\ \A e \in Channels \ {c} : contextID'[e] = contextID[e]
      /\ contextID'[c] = contextID[c] \/ down'[t].at = "none"
  <2>1. \/ contextID' = contextID
        \/ contextID' = [contextID EXCEPT ![c] = 0] /\ down'[t].at = "none"
    BY <1>2, DownOnChannel DEF channelVars
  <2> QED BY <2>1 DEF TypeInv, TypeOK
<1>5. ThreadsInv'
  BY <1>1, <1>3, ThreadsDiffer DEF OwnerInv, ThreadsInv
<1>6. ASSUME NEW e \in Channels \ disturbed, e # c PROVE Owned(e)'
  <2>1. Owned(e)
    BY DEF OwnerInv
  <2>2. t # Data(e)
    BY <1>3, <1>6 DEF OwnerInv, ThreadsInv
  <2>3. \A u \in {Main, Dlc2} : DownOn(u, e)' => DownOn(u, e)
    BY <1>3, <1>6, ThreadsDiffer DEF DownOn
  <2>4. down'[Data(e)] = down[Data(e)]
    BY <1>3, <2>2, ThreadsDiffer
  <2>5. \A k \in Kinds : Owns(k, e)' => Owns(k, e)
    BY <1>1, <2>3, <2>4 DEF Owns, MainPrepares, InProgress, IsDown
  <2> QED BY <1>1, <1>4, <1>6, <2>1, <2>5, StaysOwned DEF Owned
<1>7. ASSUME c \notin disturbed PROVE Owned(c)'
  <2>1. Owned(c)
    BY <1>7 DEF OwnerInv
  <2>2. t \in {Main, Dlc2, Data(c)}
    BY <1>3, <1>7, ThreadsDiffer DEF OwnerInv, ThreadsInv
  <2>3. \A u \in {Main, Dlc2} : DownOn(u, c)' => DownOn(u, c)
    BY <1>3, ThreadsDiffer DEF DownOn
  <2>4. InProgress(c)' => InProgress(c)
    <3>1. CASE t = Data(c)
      BY <1>1, <1>3, <3>1 DEF InProgress, IsDown
    <3>2. CASE t # Data(c)
      <4>1. down'[Data(c)] = down[Data(c)]
        BY <1>3, <3>2, ThreadsDiffer
      <4> QED BY <1>1, <4>1 DEF InProgress, IsDown
    <3> QED BY <3>1, <3>2
  <2>5. \A k \in Kinds : Owns(k, c)' => Owns(k, c)
    BY <1>1, <2>3, <2>4 DEF Owns, MainPrepares
  <2>6. CASE contextID'[c] = contextID[c]
    BY <1>1, <2>1, <2>5, <2>6, StaysOwned DEF Owned
  <2>7. CASE down'[t].at = "none"
    <3>1. PICK k \in {"mainDown", "dlc2Down", "chain"} : Owns(k, c) /\ ~Owns(k, c)'
      <4>1. CASE t = Main
        BY <1>3, <2>7, <4>1 DEF Owns, DownOn
      <4>2. CASE t = Dlc2
        BY <1>3, <2>7, <4>2 DEF Owns, DownOn
      <4>3. CASE t = Data(c)
        <5>1. cpc[c] = "down" /\ cpc'[c] = "down"
          BY <1>1, <1>3, <4>3 DEF OwnerInv, ThreadsInv
        <5>2. Owns("chain", c)
          BY <1>3, <4>3, <5>1 DEF Owns, InProgress, IsDown
        <5>3. ~Owns("chain", c)'
          BY <2>7, <4>3, <5>1 DEF Owns, InProgress, IsDown
        <5> QED BY <5>2, <5>3
      <4> QED BY <2>2, <4>1, <4>2, <4>3
    <3>2. k \in Kinds
      BY DEF Kinds
    <3>3. \A j \in Kinds : Owns(j, c) => j = k
      BY <2>1, <3>1, <3>2 DEF Owned, OneOwner
    <3>4. \A j \in Kinds : ~Owns(j, c)'
      BY <2>5, <3>1, <3>2, <3>3
    <3> QED BY <1>1, <2>1, <3>4 DEF Owned, OneOwner
  <2> QED BY <1>4, <2>6, <2>7
<1> QED BY <1>1, <1>5, <1>6, <1>7 DEF OwnerInv

LEMMA StepOwner == ASSUME TypeInv, OwnerInv, [Next]_vars PROVE OwnerInv'
<1>1. TypeInv'
  BY StepTypes
<1>2. CASE UNCHANGED vars
  <2>1. ThreadsInv'
    BY <1>2 DEF vars, chainVars, deactVars, mainVars, noticeVars, historyVars, OwnerInv,
                ThreadsInv
  <2> QED BY <1>2, <2>1, OwnerKept
          DEF vars, channelVars, chainVars, deactVars, mainVars, noticeVars,
              historyVars, MainPrepares
<1> QED BY <1>1, <1>2, ReserveOwner, MainQuietOwner, QueueSetupOwner,
           RequestDeactivateOwner, SetDeactivatingOwner, TriggerDeactivateOwner,
           ChainOwner, AnswerDeactivateOwner, NoticeOwner, DownOwner
        DEF Next, MainThread, Dlc2Thread

(* A context no notification came for has one owner at most, and none when   *)
(* it is free: the main thread, the chain of commands, the framework, a      *)
(* deactivation in one of its queues or in progress, or nobody any more.     *)
THEOREM ContextsOwned == Spec => [](TypeInv /\ OwnerInv)
<1>1. Init => TypeInv /\ OwnerInv
  BY InitTypes, InitOwner
<1>2. TypeInv /\ OwnerInv /\ [Next]_vars => (TypeInv /\ OwnerInv)'
  BY StepTypes, StepOwner
<1> QED BY <1>1, <1>2, PTL DEF Spec

(* One setup at a time works on a channel no notification came for.          *)
THEOREM SetupsApart == Spec => []OneSetupPerChannel
<1>1. TypeInv /\ OwnerInv => OneSetupPerChannel
  <2> SUFFICES ASSUME TypeInv, OwnerInv, NEW c \in Channels \ disturbed
               PROVE  /\ Len(queue[c]) =< 1
                      /\ MainPrepares(c) => queue[c] = << >> /\ ~InProgress(c)
                      /\ InProgress(c) => queue[c] = << >>
    BY DEF OneSetupPerChannel
  <2>1. Owned(c)
    BY DEF OwnerInv
  <2>2. MainPrepares(c) => queue[c] = << >> /\ ~InProgress(c)
    BY <2>1 DEF Owned, OneOwner, Owns, Kinds
  <2>3. InProgress(c) => queue[c] = << >>
    BY <2>1 DEF Owned, OneOwner, Owns, Kinds
  <2> QED BY <2>1, <2>2, <2>3 DEF Owned
<1> QED BY <1>1, ContextsOwned, PTL

-----------------------------------------------------------------------------
(* What the chain of commands has brought about, stage by stage.             *)
Up(c) == dataState[c] = "active" /\ interface[c] /\ blocked[c]

Valued(c) ==
    /\ \/ contextID[c] = 0 \/ MainPrepares(c) \/ queue[c] # << >>
       \/ cpc[c] \in {"connect", "block", "post", "go", "count"}
       => refCount[c] = 0
    /\ cpc[c] \in {"connect", "block"} => Stage(c) = "enter"
    /\ cpc[c] \in {"post", "go"} /\ Stage(c) = "enter" => blocked[c]
    /\ cpc[c] = "go" /\ Stage(c) = "enter" => dataState[c] = "active"
    /\ cpc[c] = "count" => Up(c)
    /\ cpc[c] \in {"report", "success"} \/ c \in believed => Up(c) /\ refCount[c] = 1

ValueInv == \A c \in Channels \ disturbed : Valued(c)

LEMMA InitValue == Init => ValueInv
BY DEF Init, ValueInv, Valued, MainPrepares

LEMMA ValueKept ==
    ASSUME NEW d \in Channels, Valued(d),
           contextID'[d] = contextID[d], dataState'[d] = dataState[d],
           refCount'[d] = refCount[d], interface'[d] = interface[d],
           blocked'[d] = blocked[d], queue'[d] = queue[d], inHand'[d] = inHand[d],
           cpc'[d] = cpc[d], MainPrepares(d)' => MainPrepares(d),
           d \in believed' => d \in believed
    PROVE  Valued(d)'
BY DEF Valued, Up, Stage

(* What the owner of a context excludes.                                    *)
LEMMA OthersAway ==
    ASSUME NEW c \in Channels, Owned(c), NEW k \in Kinds, Owns(k, c)
    PROVE  /\ k # "main" => ~MainPrepares(c)
           /\ k # "queue" => queue[c] = << >>
           /\ k # "believed" => c \notin believed
           /\ k # "chain" => cpc[c] \in {"idle", "down", "error"}
<1>1. \A j \in Kinds : Owns(j, c) => j = k
  BY DEF Owned, OneOwner
<1>2. "main" \in Kinds /\ "queue" \in Kinds /\ "believed" \in Kinds /\ "chain" \in Kinds
  BY DEF Kinds
<1>3. /\ k # "main" => ~Owns("main", c)
      /\ k # "queue" => ~Owns("queue", c)
      /\ k # "believed" => ~Owns("believed", c)
      /\ k # "chain" => ~Owns("chain", c)
  BY <1>1, <1>2
<1> QED BY <1>3 DEF Owns, InProgress

(* The main thread.                                                         *)
LEMMA MainValue ==
    ASSUME TypeInv, OwnerInv, ValueInv, ReserveContext \/ RefuseSetup \/ MainThread
           \/ \E c \in Channels : RequestDeactivate(c)
    PROVE  ValueInv'
<1> USE DEF channelVars, chainVars, deactVars, mainVars, noticeVars, historyVars
<1>1. CASE ReserveContext
  <2>1. PICK c \in Channels : /\ contextID[c] = 0
                              /\ contextID' = [contextID EXCEPT ![c] = c]
                              /\ mpc = "idle" /\ mpc' = "reserved" /\ mch' = c
                              /\ UNCHANGED <<dataState, refCount, interface, blocked,
                                             chainVars, believed, disturbed>>
    BY <1>1 DEF ReserveContext
  <2>2. ASSUME NEW d \in Channels \ disturbed PROVE Valued(d)'
    <3>1. Valued(d)
      BY DEF ValueInv
    <3>2. CASE d # c
      BY <2>1, <3>1, <3>2, ValueKept DEF MainPrepares, TypeInv, TypeOK
    <3>3. CASE d = c
      BY <2>1, <3>1, <3>3 DEF Valued, Up, Stage
    <3> QED BY <3>2, <3>3
  <2> QED BY <2>1, <2>2 DEF ValueInv
<1>2. CASE RefuseSetup
  BY <1>2, ValueKept DEF RefuseSetup, ValueInv, MainPrepares
<1>3. CASE SetIniting
  <2>1. PICK c \in Channels : c = mch
    BY <1>3 DEF SetIniting, TypeInv, TypeOK, LocalInv
  <2>2. /\ dataState' = [dataState EXCEPT ![c] = "initing"]
        /\ mpc = "reserved" /\ mpc' = "inited" /\ mch' = c
        /\ UNCHANGED <<contextID, refCount, interface, blocked, chainVars, believed,
                       disturbed>>
    BY <1>3, <2>1 DEF SetIniting
  <2>3. ASSUME NEW d \in Channels \ disturbed PROVE Valued(d)'
    <3>1. Valued(d) /\ Owned(d)
      BY DEF ValueInv, OwnerInv
    <3>2. CASE d # c
      BY <2>2, <3>1, <3>2, ValueKept DEF MainPrepares, TypeInv, TypeOK
    <3>3. CASE d = c
      <4>1. Owns("main", c) /\ "main" \in Kinds
        BY <2>1, <2>2 DEF Owns, MainPrepares, Kinds
      <4>2. c \notin believed /\ cpc[c] \in {"idle", "down", "error"}
        BY <3>1, <3>3, <4>1, OthersAway
      <4>3. refCount[c] = 0
        BY <2>1, <2>2, <3>1, <3>3 DEF Valued, MainPrepares
      <4> QED BY <2>2, <3>3, <4>2, <4>3 DEF Valued
    <3> QED BY <3>2, <3>3
  <2> QED BY <2>2, <2>3 DEF ValueInv
<1>4. CASE QueueSetup
  <2>1. PICK c \in Channels : c = mch
    BY <1>4 DEF QueueSetup, TypeInv, TypeOK, LocalInv
  <2>2. /\ mpc = "inited" /\ mpc' = "idle"
        /\ UNCHANGED <<channelVars, cpc, inHand, believed, disturbed>>
        /\ \A d \in Channels \ {c} : queue'[d] = queue[d]
    BY <1>4, <2>1 DEF QueueSetup, TypeInv, TypeOK
  <2>3. ASSUME NEW d \in Channels \ disturbed PROVE Valued(d)'
    <3>1. Valued(d)
      BY DEF ValueInv
    <3>2. CASE d # c
      BY <2>2, <3>1, <3>2, ValueKept DEF MainPrepares
    <3>3. CASE d = c
      <4>1. refCount[c] = 0
        BY <2>1, <2>2, <3>1, <3>3 DEF Valued, MainPrepares
      <4> QED BY <2>2, <3>1, <3>3, <4>1 DEF Valued, Up, Stage
    <3> QED BY <3>2, <3>3
  <2> QED BY <2>2, <2>3 DEF ValueInv
<1>5. CASE SetDeactivating
  <2>1. PICK c \in Channels : c = mch
    BY <1>5 DEF SetDeactivating, TypeInv, TypeOK, LocalInv
  <2>2. /\ dataState' = [dataState EXCEPT ![c] = "deactivating"]
        /\ mpc = "deactivating" /\ mpc' = "idle"
        /\ UNCHANGED <<contextID, refCount, interface, blocked, chainVars, believed,
                       disturbed>>
    BY <1>5, <2>1 DEF SetDeactivating
  <2>3. ASSUME NEW d \in Channels \ disturbed PROVE Valued(d)'
    <3>1. Valued(d) /\ Owned(d)
      BY DEF ValueInv, OwnerInv
    <3>2. CASE d # c
      BY <2>2, <3>1, <3>2, ValueKept DEF MainPrepares, TypeInv, TypeOK
    <3>3. CASE d = c
      <4>1. Owns("deactivating", c) /\ "deactivating" \in Kinds
        BY <2>1, <2>2 DEF Owns, Kinds
      <4>2. c \notin believed /\ cpc[c] \in {"idle", "down", "error"} /\ queue[c] = << >>
        BY <3>1, <3>3, <4>1, OthersAway
      <4> QED BY <2>2, <3>1, <3>3, <4>2 DEF Valued, MainPrepares
    <3> QED BY <3>2, <3>3
  <2> QED BY <2>2, <2>3 DEF ValueInv
<1>6. CASE DeactivatedAtOnce
  BY <1>6, ValueKept DEF DeactivatedAtOnce, ValueInv, MainPrepares
<1>7. CASE TriggerDeactivate
  BY <1>7, ValueKept DEF TriggerDeactivate, ValueInv, MainPrepares
<1>8. ASSUME NEW c \in Channels, RequestDeactivate(c) PROVE ValueInv'
  BY <1>8, ValueKept DEF RequestDeactivate, ValueInv, MainPrepares
<1> QED BY <1>1, <1>2, <1>3, <1>4, <1>5, <1>6, <1>7, <1>8 DEF MainThread

(* The command thread of a data channel.                                    *)
LEMMA ChainValueElsewhere ==
    ASSUME TypeInv, ValueInv, NEW c \in Channels, CommandThread(c)
    PROVE  /\ disturbed' = disturbed /\ contextID' = contextID
           /\ MainPrepares(c)' <=> MainPrepares(c)
           /\ \A d \in Channels \ disturbed : d # c => Valued(d)'
<1> USE DEF channelVars, chainVars, deactVars, mainVars, noticeVars, historyVars
<1>1. /\ UNCHANGED <<contextID, mpc, mch, disturbed>>
      /\ believed' = believed \/ believed' = believed \cup {c}
      /\ \E x : cpc' = [cpc EXCEPT ![c] = x]
      /\ queue' = queue \/ \E x : queue' = [queue EXCEPT ![c] = x]
      /\ inHand' = inHand \/ \E x : inHand' = [inHand EXCEPT ![c] = x]
  BY DEF CommandThread, AnswerCommand, ParseEnterDataState, BlockReadThread, PostHandler,
         SetStateAndQueue, SetupInterface, IncrementRefCount, ReportSuccess,
         HandleSetupFailure, FailedSetupDown, CompleteSetup, Goes, Rests, QueueNext
<1>2. /\ dataState' = dataState \/ \E x : dataState' = [dataState EXCEPT ![c] = x]
      /\ interface' = interface \/ \E x : interface' = [interface EXCEPT ![c] = x]
      /\ blocked' = blocked \/ \E x : blocked' = [blocked EXCEPT ![c] = x]
      /\ refCount' = refCount \/ \E x : refCount' = [refCount EXCEPT ![c] = x]
  BY DEF CommandThread, AnswerCommand, ParseEnterDataState, BlockReadThread, PostHandler,
         SetStateAndQueue, SetupInterface, IncrementRefCount, ReportSuccess,
         HandleSetupFailure, FailedSetupDown, CompleteSetup
<1>3. ASSUME NEW d \in Channels \ disturbed, d # c PROVE Valued(d)'
  <2>1. /\ queue'[d] = queue[d] /\ cpc'[d] = cpc[d] /\ inHand'[d] = inHand[d]
    BY <1>1, <1>3 DEF TypeInv, TypeOK
  <2>2. /\ dataState'[d] = dataState[d] /\ interface'[d] = interface[d]
        /\ blocked'[d] = blocked[d] /\ refCount'[d] = refCount[d]
    BY <1>2, <1>3 DEF TypeInv, TypeOK
  <2>3. Valued(d)
    BY DEF ValueInv
  <2> QED BY <1>1, <1>3, <2>1, <2>2, <2>3, ValueKept DEF MainPrepares
<1> QED BY <1>1, <1>3 DEF MainPrepares

LEMMA ChainValueHere ==
    ASSUME TypeInv, OwnerInv, ValueInv, NEW c \in Channels \ disturbed, CommandThread(c)
    PROVE  Valued(c)'
<1> USE DEF channelVars, chainVars, deactVars, mainVars, noticeVars, historyVars, Goes
<1>1. Valued(c) /\ Owned(c) /\ contextID' = contextID
      /\ (MainPrepares(c)' <=> MainPrepares(c))
  BY ChainValueElsewhere DEF ValueInv, OwnerInv
<1>2. /\ cpc \in [Channels -> {"idle", "connect", "block", "post", "go", "count",
                               "report", "success", "failed", "down", "error"}]
      /\ dataState \in [Channels -> States] /\ interface \in [Channels -> BOOLEAN]
      /\ blocked \in [Channels -> BOOLEAN] /\ refCount \in [Channels -> Nat]
      /\ queue \in [Channels -> Seq(Command)]
      /\ inHand \in [Channels -> Command \cup {NoCommand}]
  BY DEF TypeInv, TypeOK
<1>3. ASSUME cpc[c] \in {"connect", "block", "post", "go", "count", "report"}
      PROVE  ~MainPrepares(c) /\ queue[c] = << >> /\ c \notin believed
  <2>1. Owns("chain", c) /\ "chain" \in Kinds
    BY <1>3 DEF Owns, InProgress, Kinds
  <2> QED BY <1>1, <2>1, OthersAway
<1>4. ASSUME cpc'[c] \in {"failed", "down", "error"}, UNCHANGED <<believed, queue, refCount>>,
             c \notin believed \/ UNCHANGED <<dataState, interface, blocked>>
      PROVE  Valued(c)'
  BY <1>1, <1>4 DEF Valued, Up
<1>5. CASE AnswerCommand(c)
  <2>1. /\ queue[c] # << >> /\ UNCHANGED <<channelVars, believed>>
        /\ inHand'[c] = Head(queue[c])
        /\ cpc'[c] = "failed" \/
             cpc'[c] = IF Head(queue[c]).stage = "enter" THEN "connect" ELSE "post"
    BY <1>2, <1>5 DEF AnswerCommand
  <2>2. refCount[c] = 0
    BY <1>1, <2>1 DEF Valued
  <2>3. Owns("queue", c) /\ "queue" \in Kinds
    BY <2>1 DEF Owns, Kinds
  <2>4. c \notin believed
    BY <1>1, <2>3, OthersAway
  <2> QED BY <2>1, <2>2, <2>4 DEF Valued, Stage
<1>6. CASE ParseEnterDataState(c)
  <2>1. /\ cpc[c] = "connect" /\ cpc'[c] \in {"block", "failed"}
        /\ UNCHANGED <<channelVars, queue, inHand, believed>>
    BY <1>2, <1>6 DEF ParseEnterDataState
  <2> QED BY <1>1, <1>3, <2>1 DEF Valued, Up, Stage
<1>7. CASE BlockReadThread(c)
  <2>1. /\ cpc[c] = "block" /\ cpc'[c] = "post" /\ blocked'[c] = TRUE
        /\ UNCHANGED <<contextID, dataState, refCount, interface, queue, inHand, believed>>
    BY <1>2, <1>7 DEF BlockReadThread
  <2> QED BY <1>1, <1>3, <2>1 DEF Valued, Up, Stage
<1>8. CASE PostHandler(c)
  <2>1. /\ cpc[c] = "post" /\ cpc'[c] \in {"go", "failed"}
        /\ cpc'[c] = "go" /\ Stage(c) = "enter" => dataState[c] = "active"
        /\ UNCHANGED <<channelVars, queue, inHand, believed>>
    BY <1>2, <1>8 DEF PostHandler
  <2> QED BY <1>1, <1>3, <2>1 DEF Valued, Up, Stage
<1>9. CASE SetStateAndQueue(c)
  <2>1. /\ cpc[c] = "go" /\ cpc'[c] = "idle" /\ UNCHANGED <<refCount, believed>>
    BY <1>2, <1>9 DEF SetStateAndQueue, Rests
  <2>2. refCount[c] = 0 /\ c \notin believed
    BY <1>1, <1>3, <2>1 DEF Valued
  <2> QED BY <2>1, <2>2 DEF Valued
<1>10. CASE SetupInterface(c)
  <2>1. /\ cpc[c] = "go" /\ Stage(c) = "enter"
        /\ \/ interface'[c] = TRUE /\ cpc'[c] = "count"
           \/ cpc'[c] = "failed"
        /\ UNCHANGED <<contextID, dataState, refCount, blocked, queue, inHand, believed>>
    BY <1>2, <1>10 DEF SetupInterface
  <2> QED BY <1>1, <1>3, <2>1 DEF Valued, Up, Stage
<1>11. CASE IncrementRefCount(c)
  <2>1. /\ cpc[c] = "count" /\ cpc'[c] = "report" /\ refCount'[c] = refCount[c] + 1
        /\ UNCHANGED <<dataState, interface, blocked, queue, inHand, believed>>
    BY <1>2, <1>11 DEF IncrementRefCount
  <2>2. refCount[c] = 0 /\ Up(c)
    BY <1>1, <2>1 DEF Valued
  <2>3. refCount'[c] = 1 /\ Up(c)'
    BY <2>1, <2>2 DEF Up
  <2>4. contextID[c] # 0
    BY <1>1, <2>1 DEF Owned, Owns, InProgress, Kinds, Found, Channels
  <2> QED BY <1>1, <1>3, <2>1, <2>3, <2>4 DEF Valued
<1>12. CASE ReportSuccess(c)
  <2>1. /\ cpc[c] = "report" /\ cpc'[c] \in {"success", "error"}
        /\ UNCHANGED <<channelVars, queue, inHand, believed>>
    BY <1>2, <1>12 DEF ReportSuccess
  <2> QED BY <1>1, <1>3, <2>1 DEF Valued, Up, Stage
<1>13. CASE HandleSetupFailure(c)
  <2>1. cpc'[c] \in {"down", "error"} /\ UNCHANGED <<channelVars, queue, believed>>
    BY <1>2, <1>13 DEF HandleSetupFailure
  <2> QED BY <1>4, <2>1
<1>14. CASE FailedSetupDown(c)
  <2>1. cpc'[c] = "error" /\ UNCHANGED <<channelVars, queue, believed>>
    BY <1>2, <1>14 DEF FailedSetupDown
  <2> QED BY <1>4, <2>1
<1>15. CASE CompleteSetup(c)
  <2>1. /\ cpc'[c] = "idle" /\ UNCHANGED <<channelVars, queue>>
        /\ c \in believed' => c \in believed \/ cpc[c] = "success"
    BY <1>2, <1>15 DEF CompleteSetup, Rests
  <2> QED BY <1>1, <2>1 DEF Valued, Up
<1> QED BY <1>5, <1>6, <1>7, <1>8, <1>9, <1>10, <1>11, <1>12, <1>13, <1>14, <1>15
        DEF CommandThread

(* The other threads.                                                       *)
LEMMA NoticeValue ==
    ASSUME TypeInv, OwnerInv, ValueInv,
           \/ Dlc2Thread \/ UrcThread \/ ModemDetaches
           \/ \E c \in Channels : ModemDeactivates(c)
    PROVE  ValueInv'
<1> USE DEF channelVars, chainVars, mainVars, noticeVars, historyVars
<1>1. ASSUME UNCHANGED <<channelVars, chainVars, mainVars>>, believed' \subseteq believed,
             disturbed \subseteq disturbed'
      PROVE  ValueInv'
  BY <1>1, ValueKept DEF ValueInv, MainPrepares
<1>2. CASE HandleDeactivation
  <2>1. uch \in Channels /\ uch \in disturbed
    BY <1>2 DEF HandleDeactivation, TypeInv, LocalInv, OwnerInv, ThreadsInv
  <2>2. /\ UNCHANGED <<contextID, refCount, interface, blocked, chainVars, mainVars,
                       believed, disturbed>>
        /\ \A d \in Channels \ {uch} : dataState'[d] = dataState[d]
    BY <1>2 DEF HandleDeactivation, TypeInv, TypeOK
  <2> QED BY <2>1, <2>2, ValueKept DEF ValueInv, MainPrepares
<1>3. ASSUME ~HandleDeactivation
      PROVE  /\ UNCHANGED <<channelVars, chainVars, mainVars>>
             /\ believed' \subseteq believed /\ disturbed \subseteq disturbed'
  BY <1>3 DEF Dlc2Thread, AnswerDeactivate, DeactivateDone, UrcThread, HearNotice,
              CleanupNext, ListActiveCalls, SendCallList, ModemDetaches, ModemDeactivates
<1> QED BY <1>1, <1>2, <1>3

LEMMA DownValue ==
    ASSUME TypeInv, OwnerInv, ValueInv, NEW t \in Threads, DataConfigDown(t)
    PROVE  ValueInv'
<1> USE DEF channelVars, chainVars, mainVars
<1>1. /\ UNCHANGED <<chainVars, mainVars, believed, disturbed>>
  BY DEF DataConfigDown
<1>2. PICK c \in Channels :
         /\ c = down[t].ch /\ down[t].at # "none"
         /\ contextID' = contextID \/ contextID' = [contextID EXCEPT ![c] = 0]
         /\ interface' = interface \/ interface' = [interface EXCEPT ![c] = FALSE]
         /\ blocked' = blocked \/ blocked' = [blocked EXCEPT ![c] = FALSE]
         /\ dataState' = dataState \/ dataState' = [dataState EXCEPT ![c] = "idle"]
         /\ \/ contextID' = contextID /\ refCount' = refCount
            \/ refCount' = [refCount EXCEPT ![c] = 0]
  BY DownSteps, DownOnChannel
<1>3. ASSUME NEW e \in Channels \ disturbed, e # c PROVE Valued(e)'
  <2>1. /\ contextID'[e] = contextID[e] /\ interface'[e] = interface[e]
        /\ blocked'[e] = blocked[e] /\ dataState'[e] = dataState[e]
        /\ refCount'[e] = refCount[e]
    BY <1>2, <1>3 DEF TypeInv, TypeOK
  <2>2. Valued(e)
    BY DEF ValueInv
  <2> QED BY <1>1, <2>1, <2>2, ValueKept DEF MainPrepares
<1>4. ASSUME c \notin disturbed PROVE Valued(c)'
  <2>1. Valued(c) /\ Owned(c)
    BY <1>4 DEF ValueInv, OwnerInv
  <2>2. t \in {Main, Dlc2, Data(c)}
    BY <1>2, <1>4, ThreadsDiffer DEF OwnerInv, ThreadsInv
  <2>3. t = Data(c) => cpc[c] = "down"
    BY <1>2 DEF OwnerInv, ThreadsInv
  <2>4. PICK k \in {"mainDown", "dlc2Down", "chain"} : Owns(k, c)
    BY <1>2, <2>2, <2>3 DEF Owns, DownOn, InProgress, IsDown
  <2>5. k \in Kinds
    BY DEF Kinds
  <2>6. /\ ~MainPrepares(c) /\ queue[c] = << >> /\ c \notin believed
        /\ k # "chain" => cpc[c] \in {"idle", "down", "error"}
    BY <2>1, <2>4, <2>5, OthersAway
  <2>7. cpc[c] \in {"idle", "down", "error"}
    <3>1. CASE t = Main
      <4>1. Owns("mainDown", c) /\ "mainDown" \in Kinds
        BY <1>2, <3>1 DEF Owns, DownOn, Kinds
      <4> QED BY <2>1, <4>1, OthersAway
    <3>2. CASE t = Dlc2
      <4>1. Owns("dlc2Down", c) /\ "dlc2Down" \in Kinds
        BY <1>2, <3>2 DEF Owns, DownOn, Kinds
      <4> QED BY <2>1, <4>1, OthersAway
    <3> QED BY <2>2, <2>3, <3>1, <3>2
  <2>8. contextID'[c] = 0 => refCount'[c] = 0
    <3>1. CASE contextID' = contextID /\ refCount' = refCount
      BY <2>1, <3>1 DEF Valued
    <3>2. CASE refCount' = [refCount EXCEPT ![c] = 0]
      BY <3>2 DEF TypeInv, TypeOK
    <3> QED BY <1>2, <3>1, <3>2
  <2> QED BY <1>1, <2>6, <2>7, <2>8 DEF Valued, MainPrepares
<1> QED BY <1>1, <1>3, <1>4 DEF ValueInv

LEMMA StepValue ==
    ASSUME TypeInv, OwnerInv, ValueInv, [Next]_vars PROVE ValueInv'
<1>1. CASE UNCHANGED vars
  BY <1>1, ValueKept DEF vars, channelVars, chainVars, mainVars, historyVars, ValueInv,
                         MainPrepares
<1>2. ASSUME NEW c \in Channels, CommandThread(c) PROVE ValueInv'
  BY <1>2, ChainValueElsewhere, ChainValueHere DEF ValueInv
<1> QED BY <1>1, <1>2, MainValue, NoticeValue, DownValue DEF Next

(* A call the framework takes to be up is up, unless a notification came.    *)
THEOREM CallsAreUp == Spec => []BelievedIsUp
<1>1. Init => TypeInv /\ OwnerInv /\ ValueInv
  BY InitTypes, InitOwner, InitValue
<1>2. TypeInv /\ OwnerInv /\ ValueInv /\ [Next]_vars => (TypeInv /\ OwnerInv /\ ValueInv)'
  BY StepTypes, StepOwner, StepValue
<1>3. TypeInv /\ OwnerInv /\ ValueInv => BelievedIsUp
  <2> SUFFICES ASSUME TypeInv, OwnerInv, ValueInv, NEW c \in believed \ disturbed
               PROVE  /\ Found(c) /\ dataState[c] = "active"
                      /\ refCount[c] = 1 /\ interface[c] /\ blocked[c]
    BY DEF BelievedIsUp
  <2>1. c \in Channels
    BY DEF TypeInv, TypeOK
  <2>2. Owned(c) /\ Valued(c) /\ Owns("believed", c) /\ "believed" \in Kinds
    BY <2>1 DEF OwnerInv, ValueInv, Owns, Kinds
  <2> QED BY <2>2 DEF Owned, Valued, Up
<1> QED BY <1>1, <1>2, <1>3, PTL DEF Spec
=============================================================================
