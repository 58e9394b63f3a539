--------------------------- MODULE DataKeptProofs ---------------------------
(***************************************************************************)
(* Proof that no context of a data call is lost, for any number of         *)
(* channels, requests and notifications, disturbed or not.  The argument   *)
(* is about the state of the channel: a context that is taken belongs to a *)
(* setup that still runs, to a call, or to something that will bring it    *)
(* down; and whoever takes a step away from one of these reaches another.  *)
(***************************************************************************)
EXTENDS DataCallsProofs

(* Something is there that brings the context down, or was refused to.      *)
Ends(c) ==
    \/ mpc = "deactivating" /\ mch = c
    \/ In(timers, c) \/ In(deactQueue, c)
    \/ \E t \in Threads : DownOn(t, c)
    \/ c \in refused

Keeps(c)    == Ends(c) \/ MainPrepares(c) \/ queue[c] # << >>
IsCall(c)   == dataState[c] = "active" /\ refCount[c] > 0
Reserved(c) == mpc = "reserved" /\ mch = c
Noticed(c)  == upc \in {"me", "nw"} /\ uch = c

Kept(c) ==
    /\ dataState[c] = "deactivating" => Ends(c) \/ Reserved(c)
    /\ (cpc[c] = "go" /\ Stage(c) = "enter") \/ cpc[c] = "count"
       => dataState[c] = "active" \/ Keeps(c)
    /\ cpc[c] \in {"report", "success"} => IsCall(c) \/ Keeps(c)
    /\ \/ IsCall(c) \/ Keeps(c) \/ Noticed(c)
       \/ cpc[c] \in {"connect", "block", "post", "go", "count", "failed"}

(* The response thread begins a DataConfigDown only when it is in none.      *)
UrcFree == upc \in {"idle", "me", "nw", "send"} => IsDown(Urc)

KeptInv == UrcFree /\ \A c \in Channels : Found(c) => Kept(c)

(* What is to be brought down is in order.                                  *)
LEMMA EndsKept == ASSUME NEW c \in Channels, Ends(c)' PROVE Kept(c)'
BY DEF Kept, Keeps

(* A step that changes nothing of the channel but who is to end it.          *)
LEMMA KeptAlone ==
    ASSUME NEW c \in Channels, Kept(c),
           dataState'[c] = dataState[c], refCount'[c] = refCount[c],
           cpc'[c] = cpc[c], inHand'[c] = inHand[c], queue'[c] = queue[c],
           Ends(c) => Ends(c)',
           MainPrepares(c) => MainPrepares(c)' \/ Ends(c)',
           Reserved(c) => Reserved(c)' \/ Ends(c)',
           Noticed(c) => Noticed(c)' \/ Ends(c)'
    PROVE  Kept(c)'
<1>1. CASE Ends(c)'
  BY <1>1, EndsKept
<1>2. CASE ~Ends(c)'
  <2>1. (Keeps(c) => Keeps(c)') /\ (IsCall(c) => IsCall(c)')
    BY <1>2 DEF Keeps, IsCall
  <2>2. Stage(c)' = Stage(c)
    BY DEF Stage
  <2> QED BY <1>2, <2>1, <2>2 DEF Kept
<1> QED BY <1>1, <1>2

LEMMA TailKeeps ==
    ASSUME NEW q \in Seq(Channels), q # << >>
    PROVE  \A d : In(q, d) => d = Head(q) \/ In(Tail(q), d)
<1> SUFFICES ASSUME NEW d, NEW i \in 1 .. Len(q), q[i] = d, d # Head(q)
             PROVE  In(Tail(q), d)
  BY DEF In
<1>1. Len(q) \in Nat /\ Len(Tail(q)) = Len(q) - 1 /\ Head(q) = q[1]
  OBVIOUS
<1>2. i # 1 /\ i - 1 \in 1 .. Len(Tail(q))
  BY <1>1
<1>3. Tail(q)[i - 1] = q[i]
  <2>1. \A j \in 1 .. Len(Tail(q)) : Tail(q)[j] = q[j + 1]
    OBVIOUS
  <2>2. (i - 1) + 1 = i
    BY <1>1
  <2> QED BY <1>2, <2>1, <2>2
<1> QED BY <1>2, <1>3 DEF In

LEMMA InitKept == Init => KeptInv
BY ThreadsDiffer, DataCallsAssumption
   DEF Init, KeptInv, UrcFree, IsDown, NotDown, Found, Channels

(* A DataConfigDown begins where none is in progress.                       *)
LEMMA BeginsEnds ==
    ASSUME TypeInv, NEW t \in Threads, NEW c \in Channels, Begins(t, c), IsDown(t)
    PROVE  /\ \E u \in Threads : DownOn(u, c)'
           /\ \A d \in Channels, u \in Threads : DownOn(u, d) => DownOn(u, d)'
<1>1. /\ down'[t].at = "lookup" /\ down'[t].ch = c
      /\ \A u \in Threads \ {t} : down'[u] = down[u]
  BY BeginsThere
<1>2. DownOn(t, c)'
  BY <1>1 DEF DownOn
<1>3. \A d \in Channels, u \in Threads : DownOn(u, d) => DownOn(u, d)'
  BY <1>1 DEF DownOn, IsDown
<1> QED BY <1>2, <1>3

-----------------------------------------------------------------------------
(* The main thread.                                                         *)
LEMMA MainKept ==
    ASSUME TypeInv, ThreadsInv, KeptInv,
           \/ ReserveContext \/ RefuseSetup \/ SetIniting \/ QueueSetup
           \/ SetDeactivating \/ DeactivatedAtOnce
    PROVE  KeptInv'
<1> USE DEF channelVars, chainVars, deactVars, mainVars, noticeVars, historyVars
<1>1. UNCHANGED <<down, upc, uch, timers, refused, cpc, inHand, refCount>>
  BY DEF ReserveContext, RefuseSetup, SetIniting, QueueSetup, SetDeactivating,
         DeactivatedAtOnce
<1>2. UrcFree'
  BY <1>1 DEF KeptInv, UrcFree, IsDown
<1>3. CASE ReserveContext
  <2>1. PICK c \in Channels : /\ contextID' = [contextID EXCEPT ![c] = c]
                              /\ mpc = "idle" /\ mpc' = "reserved" /\ mch' = c
                              /\ UNCHANGED <<dataState, queue, deactQueue>>
    BY <1>3 DEF ReserveContext
  <2>2. Reserved(c)' /\ Keeps(c)'
    BY <2>1 DEF Reserved, Keeps, MainPrepares
  <2>3. Kept(c)'
    BY <2>2 DEF Kept
  <2>4. ASSUME NEW d \in Channels, d # c, Found(d)' PROVE Kept(d)'
    <3>1. Found(d) /\ Kept(d)
      BY <2>1, <2>4 DEF Found, TypeInv, TypeOK, KeptInv
    <3>2. ~MainPrepares(d) /\ ~Reserved(d) /\ (Ends(d) => Ends(d)')
      BY <1>1, <2>1 DEF MainPrepares, Reserved, Ends, DownOn
    <3>3. Noticed(d) => Noticed(d)'
      BY <1>1 DEF Noticed
    <3> QED BY <1>1, <2>1, <3>1, <3>2, <3>3, KeptAlone
  <2> QED BY <1>2, <2>3, <2>4 DEF KeptInv
<1>4. CASE RefuseSetup \/ DeactivatedAtOnce
  <2>1. /\ UNCHANGED <<contextID, dataState, queue, deactQueue, mch>>
        /\ mpc' = mpc \/ mpc = "down"
    BY <1>4 DEF RefuseSetup, DeactivatedAtOnce
  <2>2. ASSUME NEW d \in Channels, Found(d)' PROVE Kept(d)'
    <3>1. Kept(d)
      BY <2>1, <2>2 DEF Found, KeptInv
    <3>2. /\ MainPrepares(d) => MainPrepares(d)'
          /\ Reserved(d) => Reserved(d)'
          /\ Ends(d) => Ends(d)'
      BY <1>1, <2>1 DEF MainPrepares, Reserved, Ends, DownOn
    <3>3. Noticed(d) => Noticed(d)'
      BY <1>1 DEF Noticed
    <3> QED BY <1>1, <2>1, <3>1, <3>2, <3>3, KeptAlone
  <2> QED BY <1>2, <2>2 DEF KeptInv
<1>5. CASE SetIniting
  <2>1. PICK c \in Channels : c = mch
    BY <1>5 DEF SetIniting, TypeInv, TypeOK, LocalInv
  <2>2. /\ dataState' = [dataState EXCEPT ![c] = "initing"]
        /\ mpc = "reserved" /\ mpc' = "inited" /\ mch' = c /\ mch = c
        /\ UNCHANGED <<contextID, queue, deactQueue>>
    BY <1>5, <2>1 DEF SetIniting
  <2>3. Kept(c)'
    <3>1. Keeps(c)'
      BY <2>2 DEF Keeps, MainPrepares
    <3>2. dataState'[c] # "deactivating"
      BY <2>2 DEF TypeInv, TypeOK
    <3> QED BY <3>1, <3>2 DEF Kept
  <2>4. ASSUME NEW d \in Channels, d # c, Found(d)' PROVE Kept(d)'
    <3>1. Kept(d) /\ dataState'[d] = dataState[d]
      BY <2>2, <2>4 DEF Found, TypeInv, TypeOK, KeptInv
    <3>2. ~MainPrepares(d) /\ ~Reserved(d) /\ (Ends(d) => Ends(d)')
      BY <1>1, <2>2, <2>4 DEF MainPrepares, Reserved, Ends, DownOn
    <3>3. Noticed(d) => Noticed(d)'
      BY <1>1 DEF Noticed
    <3> QED BY <1>1, <2>2, <3>1, <3>2, <3>3, KeptAlone
  <2> QED BY <1>2, <2>3, <2>4 DEF KeptInv
<1>6. CASE QueueSetup
  <2>1. PICK c \in Channels : c = mch
    BY <1>6 DEF QueueSetup, TypeInv, TypeOK, LocalInv
  <2>2. /\ mpc = "inited" /\ mpc' = "idle"
        /\ UNCHANGED <<contextID, dataState, deactQueue>>
        /\ \A d \in Channels \ {c} : queue'[d] = queue[d]
        /\ Found(c) => queue'[c] = Append(queue[c], [req |-> mreq, stage |-> "define"])
    BY <1>6, <2>1 DEF QueueSetup, TypeInv, TypeOK
  <2>3. ASSUME Found(c)' PROVE Kept(c)'
    <3>1. Found(c) /\ Kept(c) /\ ~Reserved(c)
      BY <2>2, <2>3 DEF Found, KeptInv, Reserved
    <3>2. queue'[c] # << >>
      <4>1. ASSUME NEW q \in Seq(Command), NEW m PROVE Len(Append(q, m)) # Len(<< >>)
        OBVIOUS
      <4> QED BY <2>2, <3>1, <4>1 DEF TypeInv, TypeOK
    <3>3. Ends(c) => Ends(c)'
      BY <1>1, <2>2 DEF Ends, DownOn
    <3> QED BY <2>2, <3>1, <3>2, <3>3 DEF Kept, Keeps
  <2>4. ASSUME NEW d \in Channels, d # c, Found(d)' PROVE Kept(d)'
    <3>1. Kept(d)
      BY <2>2, <2>4 DEF Found, KeptInv
    <3>2. ~MainPrepares(d) /\ ~Reserved(d) /\ (Ends(d) => Ends(d)')
      BY <1>1, <2>1, <2>2, <2>4 DEF MainPrepares, Reserved, Ends, DownOn
    <3>3. Noticed(d) => Noticed(d)'
      BY <1>1 DEF Noticed
    <3> QED BY <1>1, <2>2, <2>4, <3>1, <3>2, <3>3, KeptAlone
  <2> QED BY <1>2, <2>3, <2>4 DEF KeptInv
<1>7. CASE SetDeactivating
  <2>1. PICK c \in Channels : c = mch
    BY <1>7 DEF SetDeactivating, TypeInv, TypeOK, LocalInv
  <2>2. /\ dataState' = [dataState EXCEPT ![c] = "deactivating"]
        /\ deactQueue' = Append(deactQueue, c) /\ deactQueue \in Seq(Channels)
        /\ mpc = "deactivating" /\ UNCHANGED <<contextID, queue>>
    BY <1>7, <2>1 DEF SetDeactivating, TypeInv, TypeOK
  <2>3. /\ In(deactQueue', c) /\ \A d : In(deactQueue, d) => In(deactQueue', d)
    BY <2>2, InAppend
  <2>4. Kept(c)'
    BY <2>3, EndsKept DEF Ends
  <2>5. ASSUME NEW d \in Channels, d # c, Found(d)' PROVE Kept(d)'
    <3>1. Kept(d) /\ dataState'[d] = dataState[d]
      BY <2>2, <2>5 DEF Found, TypeInv, TypeOK, KeptInv
    <3>2. ~MainPrepares(d) /\ ~Reserved(d) /\ (Ends(d) => Ends(d)')
      BY <1>1, <2>1, <2>2, <2>3, <2>5 DEF MainPrepares, Reserved, Ends, DownOn
    <3>3. Noticed(d) => Noticed(d)'
      BY <1>1 DEF Noticed
    <3> QED BY <1>1, <2>2, <3>1, <3>2, <3>3, KeptAlone
  <2> QED BY <1>2, <2>4, <2>5 DEF KeptInv
<1> QED BY <1>3, <1>4, <1>5, <1>6, <1>7

(* A deactivation of the framework or of a timer is passed on.              *)
LEMMA DeactivationsKept ==
    ASSUME TypeInv, ThreadsInv, KeptInv,
           TriggerDeactivate \/ \E c \in Channels : RequestDeactivate(c)
    PROVE  KeptInv'
<1> USE DEF channelVars, chainVars, noticeVars
<1>1. UNCHANGED <<channelVars, chainVars, noticeVars, refused>> /\ mpc = "idle"
  BY DEF TriggerDeactivate, RequestDeactivate, historyVars
<1>2. ASSUME \A d \in Channels : Ends(d) => Ends(d)', IsDown(Urc) => IsDown(Urc)'
      PROVE  KeptInv'
  <2>1. UrcFree'
    BY <1>1, <1>2 DEF KeptInv, UrcFree
  <2>2. ASSUME NEW d \in Channels, Found(d)' PROVE Kept(d)'
    <3>1. Kept(d) /\ ~MainPrepares(d) /\ ~Reserved(d)
      BY <1>1, <2>2 DEF Found, KeptInv, MainPrepares, Reserved
    <3>2. Noticed(d) => Noticed(d)'
      BY <1>1 DEF Noticed
    <3>3. Ends(d) => Ends(d)'
      BY <1>2
    <3> QED BY <1>1, <3>1, <3>2, <3>3, KeptAlone
  <2> QED BY <2>1, <2>2 DEF KeptInv
<1>3. CASE TriggerDeactivate
  <2> DEFINE h == Head(timers)
  <2>1. /\ timers \in Seq(Channels) /\ timers # << >> /\ deactQueue \in Seq(Channels)
        /\ deactQueue' = <<h>> \o deactQueue /\ timers' = Tail(timers)
        /\ UNCHANGED <<down, mpc, mch>>
    BY <1>3 DEF TriggerDeactivate, TypeInv, TypeOK, mainVars
  <2>2. h \in Channels
    BY <2>1, InTail
  <2>3. \A d : In(timers, d) => d = h \/ In(timers', d)
    BY <2>1, TailKeeps
  <2> HIDE DEF h
  <2>4. \A d : In(deactQueue', d) <=> In(deactQueue, d) \/ d = h
    BY <2>1, <2>2, InCons
  <2>5. \A d \in Channels : Ends(d) => Ends(d)'
    BY <1>1, <2>1, <2>3, <2>4 DEF Ends, DownOn
  <2>6. IsDown(Urc) => IsDown(Urc)'
    BY <2>1 DEF IsDown
  <2> QED BY <1>2, <2>5, <2>6
<1>4. ASSUME NEW c \in Channels, RequestDeactivate(c) PROVE KeptInv'
  <2>1. /\ deactQueue \in Seq(Channels) /\ timers' = timers
        /\ Begins(Main, c) \/ UNCHANGED down
        /\ deactQueue' \in {deactQueue, Append(deactQueue, c)}
    BY <1>4 DEF RequestDeactivate, TypeInv, TypeOK
  <2>2. \A d : In(deactQueue, d) => In(deactQueue', d)
    <3>1. \A d : In(deactQueue, d) => In(Append(deactQueue, c), d)
      BY <2>1, InAppend
    <3> QED BY <2>1, <3>1
  <2>3. IsDown(Main)
    BY <1>1, ThreadsDiffer DEF ThreadsInv, IsDown
  <2>4. \A d \in Channels, u \in Threads : DownOn(u, d) => DownOn(u, d)'
    <3>1. CASE Begins(Main, c)
      BY <2>3, <3>1, BeginsEnds, ThreadsDiffer
    <3>2. CASE UNCHANGED down
      BY <3>2 DEF DownOn
    <3> QED BY <2>1, <3>1, <3>2
  <2>5. IsDown(Urc) => IsDown(Urc)'
    <3>1. CASE Begins(Main, c)
      BY <3>1, BeginsThere, ThreadsDiffer DEF IsDown
    <3> QED BY <2>1, <3>1 DEF IsDown
  <2>6. ASSUME NEW d \in Channels, Ends(d) PROVE Ends(d)'
    BY <1>1, <2>1, <2>2, <2>4, <2>6 DEF Ends
  <2> QED BY <1>2, <2>5, <2>6
<1> QED BY <1>3, <1>4

-----------------------------------------------------------------------------
(* The command thread of a data channel.                                    *)
LEMMA ChainEnds ==
    ASSUME TypeInv, ThreadsInv, NEW c \in Channels, CommandThread(c)
    PROVE  /\ UNCHANGED <<contextID, mpc, mch, upc, uch>>
           /\ \A d \in Channels : Ends(d) => Ends(d)'
           /\ IsDown(Urc) => IsDown(Urc)'
<1> USE DEF channelVars, chainVars, deactVars, mainVars, noticeVars, historyVars
<1>1. /\ UNCHANGED <<contextID, mpc, mch, upc, uch, deactQueue, refused>>
      /\ timers' = timers \/ timers' = Append(timers, c)
      /\ UNCHANGED down \/ (Begins(Data(c), c) /\ cpc[c] = "failed")
  BY DEF CommandThread, AnswerCommand, ParseEnterDataState, BlockReadThread, PostHandler,
         SetStateAndQueue, SetupInterface, IncrementRefCount, ReportSuccess,
         HandleSetupFailure, FailedSetupDown, CompleteSetup
<1>2. \A d : In(timers, d) => In(timers', d)
  <2>1. timers \in Seq(Channels)
    BY DEF TypeInv, TypeOK
  <2>2. \A d : In(timers, d) => In(Append(timers, c), d)
    BY <2>1, InAppend
  <2> QED BY <1>1, <2>2
<1>3. /\ \A d \in Channels, u \in Threads : DownOn(u, d) => DownOn(u, d)'
      /\ IsDown(Urc) => IsDown(Urc)'
  <2>1. CASE UNCHANGED down
    BY <2>1 DEF DownOn, IsDown
  <2>2. CASE Begins(Data(c), c) /\ cpc[c] = "failed"
    <3>1. IsDown(Data(c)) /\ Data(c) \in Threads /\ Data(c) # Urc /\ Urc \in Threads
      BY <2>2, ThreadsDiffer DEF ThreadsInv, IsDown
    <3>2. \A d \in Channels, u \in Threads : DownOn(u, d) => DownOn(u, d)'
      BY <2>2, <3>1, BeginsEnds
    <3>3. down'[Urc] = down[Urc]
      BY <2>2, <3>1, BeginsThere
    <3> QED BY <3>2, <3>3 DEF IsDown
  <2> QED BY <1>1, <2>1, <2>2
<1>4. ASSUME NEW d \in Channels, Ends(d) PROVE Ends(d)'
  BY <1>1, <1>2, <1>3, <1>4 DEF Ends
<1> QED BY <1>1, <1>3, <1>4

LEMMA ChainKeptElsewhere ==
    ASSUME TypeInv, ThreadsInv, KeptInv, NEW c \in Channels, CommandThread(c),
           NEW d \in Channels, d # c, Found(d)'
    PROVE  Kept(d)'
<1>1. /\ \E x : cpc' = [cpc EXCEPT ![c] = x]
      /\ queue' = queue \/ \E x : queue' = [queue EXCEPT ![c] = x]
      /\ inHand' = inHand \/ \E x : inHand' = [inHand EXCEPT ![c] = x]
      /\ dataState' = dataState \/ \E x : dataState' = [dataState EXCEPT ![c] = x]
      /\ refCount' = refCount \/ \E x : refCount' = [refCount EXCEPT ![c] = x]
  BY DEF CommandThread, AnswerCommand, ParseEnterDataState, BlockReadThread, PostHandler,
         SetStateAndQueue, SetupInterface, IncrementRefCount, ReportSuccess,
         HandleSetupFailure, FailedSetupDown, CompleteSetup, Goes, Rests, QueueNext,
         channelVars, chainVars
<1>2. /\ queue'[d] = queue[d] /\ cpc'[d] = cpc[d] /\ inHand'[d] = inHand[d]
      /\ dataState'[d] = dataState[d] /\ refCount'[d] = refCount[d]
  BY <1>1 DEF TypeInv, TypeOK
<1>3. UNCHANGED <<contextID, mpc, mch, upc, uch>> /\ (Ends(d) => Ends(d)')
  BY ChainEnds
<1>4. Kept(d)
  BY <1>3 DEF Found, KeptInv
<1> QED BY <1>2, <1>3, <1>4, KeptAlone DEF MainPrepares, Reserved, Noticed

(* The channel is given back, or goes on to the next stage: ...             *)
LEMMA FailureKept ==
    ASSUME TypeInv, ThreadsInv, NEW c \in Channels, HandleSetupFailure(c), Found(c)
    PROVE  Kept(c)'
<1>1. /\ cpc[c] = "failed" /\ timers \in Seq(Channels)
      /\ Begins(Data(c), c) \/ timers' = Append(timers, c)
  BY DEF HandleSetupFailure, TypeInv, TypeOK
<1>2. CASE Begins(Data(c), c)
  <2>1. Data(c) \in Threads /\ IsDown(Data(c))
    BY <1>1, ThreadsDiffer DEF ThreadsInv, IsDown
  <2>2. \E u \in Threads : DownOn(u, c)'
    BY <1>2, <2>1, BeginsEnds
  <2>3. Ends(c)'
    BY <2>2 DEF Ends
  <2> QED BY <2>3, EndsKept
<1>3. CASE timers' = Append(timers, c)
  <2>1. In(timers', c)
    BY <1>1, <1>3, InAppend
  <2>2. Ends(c)'
    BY <2>1 DEF Ends
  <2> QED BY <2>2, EndsKept
<1> QED BY <1>1, <1>2, <1>3

(* ... every other step of the chain leaves behind what keeps the context.   *)
LEMMA ChainKeptHere ==
    ASSUME TypeInv, ThreadsInv, KeptInv, NEW c \in Channels, CommandThread(c), Found(c)'
    PROVE  Kept(c)'
<1> USE DEF channelVars, Goes
<1>1. /\ UNCHANGED <<contextID, mpc, mch, upc, uch>> /\ (Ends(c) => Ends(c)')
      /\ Found(c) /\ Kept(c)
  BY ChainEnds DEF Found, KeptInv
<1>2. /\ MainPrepares(c)' <=> MainPrepares(c)
      /\ Reserved(c)' <=> Reserved(c)
      /\ Noticed(c)' <=> Noticed(c)
  BY <1>1 DEF MainPrepares, Reserved, Noticed
<1>3. CASE AnswerCommand(c)
  <2>1. dataState' = dataState /\ cpc'[c] \in {"connect", "post", "failed"}
    BY <1>3 DEF AnswerCommand, TypeInv, TypeOK
  <2> QED BY <1>1, <1>2, <2>1 DEF Kept
<1>4. CASE ParseEnterDataState(c) \/ BlockReadThread(c)
  <2>1. dataState' = dataState /\ cpc'[c] \in {"block", "post", "failed"}
    BY <1>1, <1>4 DEF ParseEnterDataState, BlockReadThread, TypeInv, TypeOK
  <2> QED BY <1>1, <1>2, <2>1 DEF Kept
<1>5. CASE PostHandler(c)
  <2>1. /\ dataState' = dataState /\ inHand' = inHand /\ cpc'[c] \in {"go", "failed"}
        /\ cpc'[c] = "go" /\ Stage(c) = "enter" => dataState[c] = "active"
    BY <1>5 DEF PostHandler, TypeInv, TypeOK
  <2> QED BY <1>1, <1>2, <2>1 DEF Kept, Stage
<1>6. CASE SetStateAndQueue(c)
  <2>1. PICK m \in Command : queue' = [queue EXCEPT ![c] = <<m>> \o queue[c]]
    <3>1. PICK st \in Stages : QueueNext(c, st)
      BY <1>6 DEF SetStateAndQueue, Stages
    <3>2. [inHand[c] EXCEPT !.stage = st] \in Command
      BY <1>6, QueuedAreSetups DEF SetStateAndQueue, Command
    <3> QED BY <3>1, <3>2 DEF QueueNext
  <2>2. queue'[c] # << >>
    <3>1. ASSUME NEW q \in Seq(Command) PROVE <<m>> \o q # << >>
      <4>1. Len(<<m>> \o q) = 1 + Len(q) /\ Len(q) \in Nat
        OBVIOUS
      <4>2. Len(<<m>> \o q) # 0
        BY <4>1
      <4> QED BY <4>2
    <3> QED BY <2>1, <3>1 DEF TypeInv, TypeOK
  <2>3. /\ cpc'[c] = "idle"
        /\ dataState'[c] = dataState[c] \/ dataState'[c] \in {"activating", "active"}
    BY <1>6 DEF SetStateAndQueue, Rests, TypeInv, TypeOK
  <2> QED BY <1>1, <1>2, <2>2, <2>3 DEF Kept, Keeps
<1>7. CASE SetupInterface(c)
  <2>1. /\ UNCHANGED <<dataState, queue, inHand>>
        /\ cpc[c] = "go" /\ Stage(c) = "enter" /\ cpc'[c] \in {"count", "failed"}
    BY <1>7 DEF SetupInterface, TypeInv, TypeOK
  <2> QED BY <1>1, <1>2, <2>1 DEF Kept, Keeps
<1>8. CASE IncrementRefCount(c)
  <2>1. /\ UNCHANGED <<dataState, queue>>
        /\ cpc[c] = "count" /\ cpc'[c] = "report" /\ refCount'[c] > 0
    BY <1>8 DEF IncrementRefCount, TypeInv, TypeOK
  <2>2. IsCall(c)' \/ Keeps(c)'
    BY <1>1, <1>2, <2>1 DEF Kept, Keeps, IsCall
  <2> QED BY <1>1, <1>2, <2>1, <2>2 DEF Kept
<1>9. CASE ReportSuccess(c)
  <2>1. /\ UNCHANGED <<dataState, refCount, queue>>
        /\ cpc[c] = "report" /\ cpc'[c] = "success"
    BY <1>1, <1>9 DEF ReportSuccess, TypeInv, TypeOK
  <2>2. IsCall(c)' \/ Keeps(c)'
    BY <1>1, <1>2, <2>1 DEF Kept, Keeps, IsCall
  <2> QED BY <1>1, <1>2, <2>1, <2>2 DEF Kept
<1>10. CASE HandleSetupFailure(c)
  BY <1>1, <1>10, FailureKept
<1>11. CASE FailedSetupDown(c) \/ CompleteSetup(c)
  <2>1. /\ UNCHANGED <<dataState, refCount, queue>>
        /\ cpc[c] \in {"down", "success", "error"} /\ cpc'[c] \in {"error", "idle"}
    BY <1>11 DEF FailedSetupDown, CompleteSetup, Rests, TypeInv, TypeOK
  <2>2. /\ Keeps(c) => Keeps(c)'
        /\ IsCall(c) => IsCall(c)'
    BY <1>1, <1>2, <2>1 DEF Keeps, IsCall
  <2> QED BY <1>1, <1>2, <2>1, <2>2 DEF Kept
<1> QED BY <1>3, <1>4, <1>5, <1>6, <1>7, <1>8, <1>9, <1>10, <1>11 DEF CommandThread

LEMMA ChainKept ==
    ASSUME TypeInv, ThreadsInv, KeptInv, NEW c \in Channels, CommandThread(c)
    PROVE  KeptInv'
<1>1. UrcFree'
  BY ChainEnds DEF KeptInv, UrcFree
<1>2. \A d \in Channels : Found(d)' => Kept(d)'
  BY ChainKeptElsewhere, ChainKeptHere
<1> QED BY <1>1, <1>2 DEF KeptInv

-----------------------------------------------------------------------------
(* DLC2's command thread: a deactivation is carried out, or refused.        *)
LEMMA AnswerDeactivateKept ==
    ASSUME TypeInv, ThreadsInv, KeptInv, AnswerDeactivate
    PROVE  KeptInv'
<1> USE DEF channelVars, chainVars, mainVars, noticeVars
<1> DEFINE h == Head(deactQueue)
<1>1. /\ deactQueue \in Seq(Channels) /\ deactQueue # << >> /\ npc = "idle"
      /\ deactQueue' = Tail(deactQueue)
      /\ UNCHANGED <<channelVars, chainVars, timers, mainVars, noticeVars>>
      /\ \/ Begins(Dlc2, h) /\ UNCHANGED refused
         \/ /\ refused' = IF Found(h) THEN refused \cup {h} ELSE refused
            /\ UNCHANGED down
  BY DEF AnswerDeactivate, TypeInv, TypeOK
<1>2. h \in Channels
  BY <1>1, InTail
<1>3. \A d : In(deactQueue, d) => d = h \/ In(deactQueue', d)
  BY <1>1, TailKeeps
<1>4. PICK c \in Channels : c = h
  BY <1>2
<1> HIDE DEF h
<1>5. /\ IsDown(Urc) => IsDown(Urc)'
      /\ \A d \in Channels, u \in Threads : DownOn(u, d) => DownOn(u, d)'
      /\ Found(c) => c \in refused' \/ \E u \in Threads : DownOn(u, c)'
  <2>1. CASE Begins(Dlc2, c)
    <3>1. IsDown(Dlc2) /\ Dlc2 \in Threads /\ Urc \in Threads \ {Dlc2}
      BY <1>1, ThreadsDiffer DEF ThreadsInv, IsDown
    <3>2. /\ \E u \in Threads : DownOn(u, c)'
          /\ \A d \in Channels, u \in Threads : DownOn(u, d) => DownOn(u, d)'
      BY <2>1, <3>1, BeginsEnds
    <3>3. down'[Urc] = down[Urc]
      BY <2>1, <3>1, BeginsThere
    <3> QED BY <3>2, <3>3 DEF IsDown
  <2>2. CASE ~Begins(Dlc2, c)
    BY <1>1, <1>4, <2>2 DEF IsDown, DownOn
  <2> QED BY <2>1, <2>2
<1>6. refused \subseteq refused'
  BY <1>1
<1>7. ASSUME NEW d \in Channels, Found(d), Ends(d) PROVE Ends(d)'
  <2>1. CASE d = c
    BY <1>5, <1>7, <2>1 DEF Ends
  <2>2. CASE d # c
    BY <1>1, <1>3, <1>5, <1>6, <1>7, <1>4, <2>2 DEF Ends
  <2> QED BY <2>1, <2>2
<1>8. UrcFree'
  BY <1>1, <1>5 DEF KeptInv, UrcFree
<1>9. ASSUME NEW d \in Channels, Found(d)' PROVE Kept(d)'
  <2>1. Found(d) /\ Kept(d) /\ (Ends(d) => Ends(d)')
    BY <1>1, <1>7, <1>9 DEF Found, KeptInv
  <2> QED BY <1>1, <2>1, KeptAlone DEF MainPrepares, Reserved, Noticed
<1> QED BY <1>8, <1>9 DEF KeptInv

(* The response thread takes the context it was told of down, unless it is  *)
(* being deactivated already.                                               *)
LEMMA NoticeKept ==
    ASSUME TypeInv, ThreadsInv, KeptInv,
           \/ DeactivateDone \/ ModemDetaches \/ UrcThread
           \/ \E c \in Channels : ModemDeactivates(c)
    PROVE  KeptInv'
<1> USE DEF channelVars, chainVars, deactVars, mainVars, noticeVars, historyVars
<1>1. UNCHANGED <<contextID, refCount, chainVars, deactQueue, timers, mainVars, refused>>
  BY DEF DeactivateDone, ModemDetaches, ModemDeactivates, UrcThread, HearNotice,
         HandleDeactivation, CleanupNext, ListActiveCalls, SendCallList
<1>2. ASSUME NEW d \in Channels, Found(d)', dataState'[d] = dataState[d],
             \A u \in Threads : DownOn(u, d) => DownOn(u, d)',
             Noticed(d) => Noticed(d)' \/ Ends(d)'
      PROVE  Kept(d)'
  <2>1. Kept(d) /\ (Ends(d) => Ends(d)')
    BY <1>1, <1>2 DEF Found, KeptInv, Ends
  <2> QED BY <1>1, <1>2, <2>1, KeptAlone DEF MainPrepares, Reserved
<1>3. ASSUME UNCHANGED <<dataState, down>>,
             UNCHANGED <<upc, uch>> \/ upc \notin {"me", "nw"}
      PROVE  \A d \in Channels : Found(d)' => Kept(d)'
  BY <1>2, <1>3 DEF DownOn, Noticed
<1>4. CASE DeactivateDone \/ ModemDetaches \/ \E c \in Channels : ModemDeactivates(c)
  <2>1. UNCHANGED <<dataState, down, upc, uch>>
    BY <1>4 DEF DeactivateDone, ModemDetaches, ModemDeactivates
  <2>2. UrcFree'
    BY <2>1 DEF KeptInv, UrcFree, IsDown
  <2> QED BY <1>3, <2>1, <2>2 DEF KeptInv
<1>5. CASE HearNotice \/ ListActiveCalls \/ SendCallList
  <2>1. UNCHANGED <<dataState, down>> /\ upc \notin {"me", "nw"} /\ IsDown(Urc)
    BY <1>5 DEF HearNotice, ListActiveCalls, SendCallList, KeptInv, UrcFree
  <2>2. UrcFree'
    BY <2>1 DEF UrcFree, IsDown
  <2>3. \A d \in Channels : Found(d)' => Kept(d)'
    BY <1>3, <2>1
  <2> QED BY <2>2, <2>3 DEF KeptInv
<1>6. CASE CleanupNext
  <2>1. /\ UNCHANGED dataState /\ upc = "clean" /\ IsDown(Urc)
        /\ upc' = "clean" \/ UNCHANGED down
        /\ UNCHANGED down \/ (uch \in Channels /\ Begins(Urc, uch))
    <3>1. uch # 0 /\ ~(uch > NChannels) => uch \in Channels
      BY DataCallsAssumption DEF TypeInv, TypeOK, Channels
    <3> QED BY <1>6, <3>1 DEF CleanupNext, TypeInv, LocalInv
  <2>2. UrcFree'
    BY <2>1 DEF UrcFree, IsDown
  <2>3. CASE UNCHANGED down
    <3>1. \A d \in Channels : Found(d)' => Kept(d)'
      BY <1>3, <2>1, <2>3
    <3> QED BY <2>2, <3>1 DEF KeptInv
  <2>4. CASE uch \in Channels /\ Begins(Urc, uch)
    <3>1. \A d \in Channels, u \in Threads : DownOn(u, d) => DownOn(u, d)'
      BY <2>1, <2>4, BeginsEnds, ThreadsDiffer
    <3>2. \A d \in Channels : Found(d)' => Kept(d)'
      BY <1>2, <2>1, <3>1 DEF Noticed
    <3> QED BY <2>2, <3>2 DEF KeptInv
  <2> QED BY <2>1, <2>3, <2>4
<1>7. CASE HandleDeactivation
  <2>1. PICK c \in Channels : c = uch
    BY <1>7 DEF HandleDeactivation, TypeInv, LocalInv
  <2>2. upc \in {"me", "nw"} /\ IsDown(Urc)
    BY <1>7 DEF HandleDeactivation, KeptInv, UrcFree
  <2>3. CASE upc = "me" /\ dataState[c] = "deactivating"
    <3>1. UNCHANGED <<dataState, down>> /\ upc' = "idle"
      BY <1>7, <2>1, <2>3 DEF HandleDeactivation
    <3>2. UrcFree'
      BY <2>2, <3>1 DEF UrcFree, IsDown
    <3>3. ASSUME Found(c)' PROVE Kept(c)'
      <4>1. Kept(c)
        BY <1>1, <3>3 DEF Found, KeptInv
      <4>2. CASE Ends(c)
        <5>1. Ends(c)'
          BY <1>1, <3>1, <4>2 DEF Ends, DownOn
        <5> QED BY <5>1, EndsKept
      <4>3. CASE Reserved(c)
        <5>1. Reserved(c)' /\ Keeps(c)'
          BY <1>1, <4>3 DEF Reserved, Keeps, MainPrepares
        <5> QED BY <5>1 DEF Kept
      <4> QED BY <2>3, <4>1, <4>2, <4>3 DEF Kept
    <3>4. ASSUME NEW d \in Channels, d # c, Found(d)' PROVE Kept(d)'
      BY <1>2, <2>1, <3>1, <3>4 DEF DownOn, Noticed
    <3> QED BY <3>2, <3>3, <3>4 DEF KeptInv
  <2>4. CASE ~(upc = "me" /\ dataState[c] = "deactivating")
    <3>1. /\ dataState' = [dataState EXCEPT ![c] = "deactivated"]
          /\ Begins(Urc, c) /\ upc' = "down"
      BY <1>7, <2>1, <2>4 DEF HandleDeactivation
    <3>2. UrcFree'
      BY <3>1 DEF UrcFree
    <3>3. /\ \E u \in Threads : DownOn(u, c)'
          /\ \A d \in Channels, u \in Threads : DownOn(u, d) => DownOn(u, d)'
      BY <2>2, <3>1, BeginsEnds, ThreadsDiffer
    <3>4. Kept(c)'
      <4>1. Ends(c)'
        BY <3>3 DEF Ends
      <4> QED BY <4>1, EndsKept
    <3>5. ASSUME NEW d \in Channels, d # c, Found(d)' PROVE Kept(d)'
      <4>1. dataState'[d] = dataState[d]
        BY <3>1, <3>5 DEF TypeInv, TypeOK
      <4> QED BY <1>2, <2>1, <3>3, <3>5, <4>1 DEF Noticed
    <3> QED BY <3>2, <3>4, <3>5 DEF KeptInv
  <2> QED BY <2>3, <2>4
<1> QED BY <1>4, <1>5, <1>6, <1>7 DEF UrcThread

(* DataConfigDown goes on until the context is free.                        *)
LEMMA DownKept ==
    ASSUME TypeInv, ThreadsInv, KeptInv, NEW t \in Threads, DataConfigDown(t)
    PROVE  KeptInv'
<1> USE DEF chainVars, deactVars, mainVars, noticeVars
<1>1. /\ UNCHANGED <<chainVars, deactVars, mainVars, noticeVars>>
      /\ refused' = refused \/ refused' = refused \ {down[t].ch}
  BY DEF DataConfigDown, FreeContext
<1>2. PICK c \in Channels :
         /\ c = down[t].ch /\ down[t].at # "none"
         /\ contextID' = contextID \/ contextID' = [contextID EXCEPT ![c] = 0]
         /\ dataState' = dataState \/ dataState' = [dataState EXCEPT ![c] = "idle"]
         /\ refCount' = refCount \/ refCount' = [refCount EXCEPT ![c] = 0]
  BY DownSteps, DownOnChannel DEF channelVars
<1>3. \A u \in Threads \ {t} : down'[u] = down[u]
  <2>1. PICK d \in DownRecord : down' = [down EXCEPT ![t] = d]
    BY DownSteps
  <2> QED BY <2>1 DEF TypeInv, TypeOK
<1>4. UrcFree'
  <2>1. IsDown(Urc) => down'[Urc] = down[Urc]
    BY <1>2, <1>3, ThreadsDiffer DEF IsDown
  <2> QED BY <1>1, <2>1 DEF KeptInv, UrcFree, IsDown
<1>5. ASSUME Found(c)' PROVE Kept(c)'
  <2>1. down'[t].at # "none" /\ down'[t].ch = c
    <3>1. down[t] \in DownRecord /\ down[t].ch = c
      BY <1>2 DEF TypeInv, TypeOK, DownRecord
    <3>2. CASE DownLookup(t)
      <4>1. Found(down[t].ch)
        BY <1>2, <1>5, <3>2 DEF DownLookup, channelVars, Found
      <4>2. down' = [down EXCEPT ![t] = [down[t] EXCEPT !.at = "read"]]
        BY <3>2, <4>1 DEF DownLookup, TypeInv, TypeOK
      <4> QED BY <3>1, <4>2 DEF TypeInv, TypeOK, DownRecord
    <3>3. CASE DownRead(t) \/ RemoveInterface(t) \/ ResetDataState(t)
      BY <3>1, <3>3 DEF DownRead, RemoveInterface, ResetDataState, TypeInv, TypeOK,
                        DownRecord
    <3>4. CASE FreeContext(t)
      <4>1. contextID'[c] = 0
        BY <1>2, <3>4 DEF FreeContext, TypeInv, TypeOK
      <4> QED BY <1>5, <4>1 DEF Found, Channels
    <3> QED BY <3>2, <3>3, <3>4 DEF DataConfigDown
  <2>2. DownOn(t, c)'
    BY <2>1 DEF DownOn
  <2>3. Ends(c)'
    BY <2>2 DEF Ends
  <2> QED BY <2>3, EndsKept
<1>6. ASSUME NEW d \in Channels, d # c, Found(d)' PROVE Kept(d)'
  <2>1. /\ contextID'[d] = contextID[d] /\ dataState'[d] = dataState[d]
        /\ refCount'[d] = refCount[d]
    BY <1>2, <1>6 DEF TypeInv, TypeOK
  <2>2. \A u \in Threads : DownOn(u, d) => DownOn(u, d)'
    BY <1>2, <1>3, <1>6 DEF DownOn
  <2>3. Kept(d) /\ (Ends(d) => Ends(d)')
    BY <1>1, <1>2, <1>6, <2>1, <2>2 DEF Found, KeptInv, Ends
  <2> QED BY <1>1, <2>1, <2>3, KeptAlone DEF MainPrepares, Reserved, Noticed
<1> QED BY <1>4, <1>5, <1>6 DEF KeptInv

LEMMA StepKept == ASSUME TypeInv, ThreadsInv, KeptInv, [Next]_vars PROVE KeptInv'
<1>1. CASE UNCHANGED vars
  <2>1. UrcFree'
    BY <1>1 DEF vars, noticeVars, KeptInv, UrcFree, IsDown
  <2>2. ASSUME NEW d \in Channels, Found(d)' PROVE Kept(d)'
    BY <1>1, <2>2, KeptAlone
       DEF vars, channelVars, chainVars, deactVars, mainVars, noticeVars, historyVars,
           Found, KeptInv, Ends, DownOn, MainPrepares, Reserved, Noticed
  <2> QED BY <2>1, <2>2 DEF KeptInv
<1> QED BY <1>1, MainKept, DeactivationsKept, ChainKept, AnswerDeactivateKept, NoticeKept,
           DownKept DEF Next, MainThread, Dlc2Thread

(* A context that is taken is a call, is on its way to become one or to be   *)
(* given back, or is one that the modem refused to deactivate, whatever the  *)
(* notifications and failures in between.                                    *)
THEOREM NoneLost == Spec => []NoContextLost
<1>1. Init => TypeInv /\ OwnerInv /\ KeptInv
  BY InitTypes, InitOwner, InitKept
<1>2. TypeInv /\ OwnerInv /\ KeptInv /\ [Next]_vars => (TypeInv /\ OwnerInv /\ KeptInv)'
  BY StepTypes, StepOwner, StepKept DEF OwnerInv
<1>3. KeptInv => NoContextLost
  <2> SUFFICES ASSUME KeptInv, NEW c \in Channels, Found(c), ~IsCall(c), c \notin refused
               PROVE  Handled(c)
    BY DEF NoContextLost, IsCall
  <2>1. \/ Ends(c) \/ MainPrepares(c) \/ queue[c] # << >> \/ Noticed(c)
        \/ cpc[c] \in {"connect", "block", "post", "go", "count", "failed"}
    BY DEF KeptInv, Kept, Keeps
  <2>2. Ends(c) => Handled(c)
    BY DEF Ends, Handled, In, DownOn
  <2> QED BY <2>1, <2>2 DEF Handled, Noticed
<1> QED BY <1>1, <1>2, <1>3, PTL DEF Spec
=============================================================================
