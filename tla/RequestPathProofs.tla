------------------------- MODULE RequestPathProofs --------------------------
(***************************************************************************)
(* Proofs about the way of a request, for any set of requests and any       *)
(* length of history: the queue exists while the command thread runs, no    *)
(* command is slept over, and a request is held by one party at a time.     *)
(***************************************************************************)
EXTENDS RequestPath, ModemStopProofs

(* Every step of the path is one of the life cycle or leaves it alone: what *)
(* was proved of the life cycle holds here.                                 *)
LEMMA PathIsLifeCycle == PathSpec => Spec
<1>1. PathInit => Init
  BY DEF PathInit
<1>2. [PathNext]_allVars => [Next]_vars
  <2> SUFFICES ASSUME [PathNext]_allVars PROVE [Next]_vars
    OBVIOUS
  <2>1. CASE LifeCycle(Next)
    BY <2>1 DEF LifeCycle
  <2>2. ASSUME NEW r \in Requests, OnRequest(r) PROVE UNCHANGED vars
    BY <2>2 DEF OnRequest, MainFrame
  <2>3. CASE MainStep
    BY <2>3 DEF MainStep, RefuseRequest, AcceptRequest, CheckInitialized, EnqueueCommand,
                EnqueueNowhere, SignalTx, MainFrame
  <2>4. CASE CommandStep
    BY <2>4 DEF CommandStep, TestTxQueue, ResetTxEvent, TestTxQueueAgain, WakeOnCommand,
                WaitForever, WakeOnCancel, LookAtModem, ClearOne, QueueCleared, TakeCommand,
                RefuseCommand, AllowCommand, AllowDtmf, RefuseDtmf, SendCommand,
                CompleteIdentical, CmdFrame, ThreadFrame
  <2>5. CASE UNCHANGED allVars
    BY <2>5 DEF allVars
  <2> QED BY <2>1, <2>2, <2>3, <2>4, <2>5 DEF PathNext
<1> QED BY <1>1, <1>2, PTL DEF PathSpec, Spec
-----------------------------------------------------------------------------
(* The queue as a set: what joins it, and what leaves it.                   *)

Elements(s) == {s[i] : i \in 1..Len(s)}

Distinct(s) == \A i, j \in 1..Len(s) : s[i] = s[j] => i = j

LEMMA OneIn ==
    ASSUME NEW s \in Seq(Requests), NEW r \in Requests
    PROVE  /\ Append(s, r) \in Seq(Requests)
           /\ Elements(Append(s, r)) = Elements(s) \cup {r}
           /\ Distinct(s) /\ r \notin Elements(s) => Distinct(Append(s, r))
<1>1. /\ Append(s, r) \in Seq(Requests) /\ Len(Append(s, r)) = Len(s) + 1
      /\ Len(s) \in Nat
      /\ \A i \in 1..Len(s) : Append(s, r)[i] = s[i]
      /\ Append(s, r)[Len(s) + 1] = r
  BY AppendProperties
<1> HIDE DEF Elements
<1>2. Elements(Append(s, r)) = Elements(s) \cup {r}
  <2>1. \A i \in 1..(Len(s) + 1) : i \in 1..Len(s) \/ i = Len(s) + 1
    BY <1>1
  <2>2. \A i \in 1..Len(s) : i \in 1..(Len(s) + 1)
    BY <1>1
  <2>3. Len(s) + 1 \in 1..(Len(s) + 1)
    BY <1>1
  <2> QED BY <1>1, <2>1, <2>2, <2>3 DEF Elements
<1>3. ASSUME Distinct(s), r \notin Elements(s) PROVE Distinct(Append(s, r))
  <2>1. \A i \in 1..(Len(s) + 1) : i \in 1..Len(s) \/ i = Len(s) + 1
    BY <1>1
  <2>2. \A i \in 1..Len(s) : s[i] # r
    BY <1>3 DEF Elements
  <2> QED BY <1>1, <1>3, <2>1, <2>2 DEF Distinct
<1> QED BY <1>1, <1>2, <1>3

(* t is s without its element at i.                                         *)
Lacks(t, s, i) ==
    /\ Len(t) = Len(s) - 1
    /\ \A k \in 1..Len(t) : t[k] = IF k < i THEN s[k] ELSE s[k + 1]

LEMMA OneOut ==
    ASSUME NEW s \in Seq(Requests), NEW t \in Seq(Requests), NEW i \in 1..Len(s),
           Lacks(t, s, i), Distinct(s)
    PROVE  Distinct(t) /\ Elements(t) = Elements(s) \ {s[i]}
<1> USE DEF Lacks
<1>0. Len(s) \in Nat /\ Len(t) \in Nat
  BY LenProperties
<1>1. Distinct(t)
  <2> SUFFICES ASSUME NEW j \in 1..Len(t), NEW k \in 1..Len(t), t[j] = t[k]
               PROVE  j = k
    BY DEF Distinct
  <2>1. /\ j \in 1..Len(s) /\ j + 1 \in 1..Len(s)
        /\ k \in 1..Len(s) /\ k + 1 \in 1..Len(s)
    BY <1>0
  <2>2. (IF j < i THEN j ELSE j + 1) = (IF k < i THEN k ELSE k + 1)
    BY <2>1 DEF Distinct
  <2> QED BY <2>1, <2>2
<1>2. \A x : x \in Elements(t) => x \in Elements(s) /\ x # s[i]
  <2> SUFFICES ASSUME NEW k \in 1..Len(t) PROVE t[k] \in Elements(s) /\ t[k] # s[i]
    BY DEF Elements
  <2>1. k \in 1..Len(s) /\ k + 1 \in 1..Len(s)
    BY <1>0
  <2>2. CASE k < i
    BY <2>1, <2>2 DEF Distinct, Elements
  <2>3. CASE ~(k < i)
    <3>1. k + 1 # i
      BY <2>3
    <3> QED BY <2>1, <2>3, <3>1 DEF Distinct, Elements
  <2> QED BY <2>2, <2>3
<1>3. \A x : x \in Elements(s) /\ x # s[i] => x \in Elements(t)
  <2> SUFFICES ASSUME NEW k \in 1..Len(s), s[k] # s[i] PROVE s[k] \in Elements(t)
    BY DEF Elements
  <2>1. k # i
    OBVIOUS
  <2>2. CASE k < i
    <3>1. k \in 1..Len(t) /\ t[k] = s[k]
      BY <1>0, <2>2
    <3> QED BY <3>1 DEF Elements
  <2>3. CASE k > i
    <3>1. k - 1 \in 1..Len(t) /\ ~(k - 1 < i) /\ (k - 1) + 1 = k
      BY <1>0, <2>3
    <3>2. t[k - 1] = s[k]
      BY <3>1
    <3> QED BY <3>1, <3>2 DEF Elements
  <2> QED BY <2>1, <2>2, <2>3
<1> QED BY <1>1, <1>2, <1>3

LEMMA HeadOut ==
    ASSUME NEW s \in Seq(Requests), s # <<>>
    PROVE  /\ Tail(s) \in Seq(Requests) /\ Head(s) \in Requests
           /\ Distinct(s) => /\ Distinct(Tail(s))
                             /\ Elements(Tail(s)) = Elements(s) \ {Head(s)}
                             /\ Head(s) \in Elements(s)
<1> DEFINE t == Tail(s)
<1>1. /\ t \in Seq(Requests) /\ Head(s) \in Requests /\ Head(s) = s[1]
      /\ 1 \in 1..Len(s) /\ Len(t) = Len(s) - 1
      /\ \A k \in 1..Len(t) : t[k] = s[k + 1]
  BY HeadTailProperties, TailOf
<1> HIDE DEF t
<1>2. \A k \in 1..Len(t) : t[k] = IF k < 1 THEN s[k] ELSE s[k + 1]
  <2>1. \A k \in 1..Len(t) : ~(k < 1)
    BY <1>1, LenProperties
  <2> QED BY <1>1, <2>1
<1>3. ASSUME Distinct(s) PROVE Distinct(t) /\ Elements(t) = Elements(s) \ {s[1]}
  <2>1. Lacks(t, s, 1)
    BY <1>1, <1>2 DEF Lacks
  <2> QED BY <1>1, <1>3, <2>1, OneOut
<1>4. s[1] \in Elements(s)
  BY <1>1 DEF Elements
<1> QED BY <1>1, <1>3, <1>4 DEF t

(* What is before an element and what is after it, put together.            *)
LEMMA Rejoined ==
    ASSUME NEW s \in Seq(Requests), NEW i \in 1..Len(s),
           NEW a \in Seq(Requests), NEW b \in Seq(Requests),
           Len(a) = i - 1, \A k \in 1..(i - 1) : a[k] = s[k],
           Len(b) = Len(s) - i, \A k \in 1..(Len(s) - i) : b[k] = s[i + k]
    PROVE  a \o b \in Seq(Requests) /\ Lacks(a \o b, s, i)
<1> DEFINE c == a \o b
           n == Len(s)
<1>1. /\ c \in Seq(Requests) /\ Len(c) = Len(a) + Len(b)
      /\ \A k \in 1..(Len(a) + Len(b)) : c[k] = IF k <= Len(a) THEN a[k] ELSE b[k - Len(a)]
  BY ConcatProperties
<1>2. n \in Nat /\ i \in Nat /\ 1 <= i /\ i <= n /\ Len(a) = i - 1 /\ Len(b) = n - i
  BY LenProperties
<1> HIDE DEF c, n
<1>3. Len(c) = n - 1
  BY <1>1, <1>2
<1>4. ASSUME NEW k \in 1..(n - 1) PROVE c[k] = IF k < i THEN s[k] ELSE s[k + 1]
  <2>0. c[k] = IF k <= i - 1 THEN a[k] ELSE b[k - (i - 1)]
    <3>1. k \in 1..(Len(a) + Len(b))
      BY <1>2
    <3> QED BY <1>1, <1>2, <3>1
  <2>1. CASE k < i
    <3>1. k \in 1..(i - 1) /\ k <= i - 1
      BY <1>2, <2>1
    <3> QED BY <2>0, <2>1, <3>1
  <2>2. CASE ~(k < i)
    <3>1. k - (i - 1) \in 1..(n - i) /\ i + (k - (i - 1)) = k + 1 /\ ~(k <= i - 1)
      BY <1>2, <2>2
    <3>2. b[k - (i - 1)] = s[k + 1]
      BY <3>1 DEF n
    <3> QED BY <2>0, <2>2, <3>1, <3>2
  <2> QED BY <2>1, <2>2
<1> QED BY <1>1, <1>3, <1>4 DEF c, n, Lacks

Without(s, i) == SubSeq(s, 1, i - 1) \o SubSeq(s, i + 1, Len(s))

LEMMA MiddleOut ==
    ASSUME NEW s \in Seq(Requests), NEW i \in 1..Len(s)
    PROVE  /\ Without(s, i) \in Seq(Requests)
           /\ s[i] \in Requests /\ s[i] \in Elements(s)
           /\ Distinct(s) => /\ Distinct(Without(s, i))
                             /\ Elements(Without(s, i)) = Elements(s) \ {s[i]}
<1> DEFINE a == SubSeq(s, 1, i - 1)
           b == SubSeq(s, i + 1, Len(s))
<1>0. Len(s) \in Nat /\ i \in Nat /\ 1 <= i /\ i <= Len(s)
  BY LenProperties
<1>1. /\ a \in Seq(Requests) /\ Len(a) = i - 1
      /\ \A k \in 1..(i - 1) : a[k] = s[k]
  <2>1. \A k \in 1..(i - 1) : k \in 1..Len(s)
    BY <1>0
  <2>2. (IF 1 <= i - 1 THEN (i - 1) - 1 + 1 ELSE 0) = i - 1
    BY <1>0
  <2>3. \A k \in 1..((i - 1) - 1 + 1) : 1 + k - 1 = k
    BY <1>0
  <2> QED BY <1>0, <2>1, <2>2, <2>3, SubSeqProperties
<1>2. /\ b \in Seq(Requests) /\ Len(b) = Len(s) - i
      /\ \A k \in 1..(Len(s) - i) : b[k] = s[i + k]
  BY <1>0, SubSeqProperties
<1> HIDE DEF a, b
<1> DEFINE c == a \o b
<1>3. c \in Seq(Requests) /\ Lacks(c, s, i)
  BY <1>1, <1>2, Rejoined
<1>4. s[i] \in Requests /\ s[i] \in Elements(s)
  BY ElementOfSeq DEF Elements
<1>5. Without(s, i) = c
  BY DEF a, b, Without
<1> HIDE DEF c
<1>6. ASSUME Distinct(s) PROVE Distinct(c) /\ Elements(c) = Elements(s) \ {s[i]}
  BY <1>3, <1>6, OneOut
<1> QED BY <1>3, <1>4, <1>5, <1>6
-----------------------------------------------------------------------------
(* Types, and who has a request in hand at which step.                      *)

HandInv ==
    /\ mreq # NoRequest <=> mpc \in {"gate", "initialized", "enqueue"}
    /\ creq # NoRequest <=> cpc \in {"allowed", "dtmf", "send"}
    /\ cpc # "none" => threads

LEMMA InitPath == PathInit => PathTypeOK /\ HandInv
<1> SUFFICES ASSUME PathInit PROVE PathTypeOK /\ HandInv
  OBVIOUS
<1>1. <<>> \in Seq(Requests)
  BY EmptySeq
<1> QED BY <1>1 DEF PathInit, PathTypeOK, HandInv

LEMMA CompleteType ==
    ASSUME NEW rs, answers \in [Requests -> Nat], Complete(rs)
    PROVE  answers' \in [Requests -> Nat]
BY DEF Complete

(* Each step of the main thread.                                            *)
LEMMA MainTypes ==
    ASSUME TypeOK, PathTypeOK, HandInv, MainStep \/ \E r \in Requests : OnRequest(r)
    PROVE  PathTypeOK' /\ HandInv'
<1> USE RequestPathAssumption DEF MainFrame, cmdVars, txVars
<1>0. UNCHANGED <<cmdVars, lost, threads>>
  BY DEF MainStep, OnRequest, RefuseRequest, AcceptRequest, CheckInitialized, EnqueueCommand,
         EnqueueNowhere, SignalTx, vars, sysVars
<1>1. ASSUME NEW r \in Requests, OnRequest(r) PROVE PathTypeOK' /\ HandInv'
  BY <1>0, <1>1 DEF PathTypeOK, HandInv, OnRequest
<1>2. CASE RefuseRequest
  <2>1. answers' \in [Requests -> Nat]
    BY <1>2, CompleteType DEF RefuseRequest, PathTypeOK
  <2> QED BY <1>0, <1>2, <2>1 DEF PathTypeOK, HandInv, RefuseRequest
<1>3. CASE AcceptRequest
  BY <1>0, <1>3 DEF PathTypeOK, HandInv, AcceptRequest
<1>4. CASE CheckInitialized
  <2>1. answers' \in [Requests -> Nat]
    BY <1>4, CompleteType DEF CheckInitialized, PathTypeOK
  <2> QED BY <1>0, <1>4, <2>1 DEF PathTypeOK, HandInv, CheckInitialized
<1>5. CASE EnqueueCommand
  <2>1. mreq \in Requests
    BY <1>5 DEF PathTypeOK, HandInv, EnqueueCommand
  <2>2. txQueue' \in Seq(Requests)
    BY <1>5, <2>1, OneIn DEF PathTypeOK, EnqueueCommand
  <2> QED BY <1>0, <1>5, <2>2 DEF PathTypeOK, HandInv, EnqueueCommand
<1>6. CASE EnqueueNowhere
  BY <1>0, <1>6 DEF PathTypeOK, HandInv, EnqueueNowhere
<1>7. CASE SignalTx
  <2>1. txEvent' \in BOOLEAN
    BY <1>7 DEF SignalTx, TypeOK
  <2> QED BY <1>0, <1>7, <2>1 DEF PathTypeOK, HandInv, SignalTx
<1> QED BY <1>1, <1>2, <1>3, <1>4, <1>5, <1>6, <1>7 DEF MainStep

(* Each step of the command thread.                                         *)
LEMMA CommandTypes ==
    ASSUME PathTypeOK, HandInv, CommandStep
    PROVE  PathTypeOK' /\ HandInv'
<1> USE RequestPathAssumption DEF mainVars, txVars
<1>0. UNCHANGED <<mainVars, lost, dead, threads>>
  BY DEF CommandStep, TestTxQueue, ResetTxEvent, TestTxQueueAgain, WakeOnCommand,
         WaitForever, WakeOnCancel, LookAtModem, ClearOne, QueueCleared, TakeCommand,
         RefuseCommand, AllowCommand, AllowDtmf, RefuseDtmf, SendCommand,
         CompleteIdentical, CmdFrame, ThreadFrame, vars, sysVars
<1>1. CASE TestTxQueue \/ ResetTxEvent \/ TestTxQueueAgain \/ WakeOnCommand
           \/ WaitForever \/ WakeOnCancel \/ LookAtModem \/ QueueCleared
  BY <1>0, <1>1 DEF PathTypeOK, HandInv, TestTxQueue, ResetTxEvent, TestTxQueueAgain,
         WakeOnCommand, WaitForever, WakeOnCancel, LookAtModem, QueueCleared, CmdFrame
<1>2. CASE ClearOne
  <2>1. answers' \in [Requests -> Nat] /\ txQueue' \in Seq(Requests)
    BY <1>2, CompleteType, HeadOut DEF ClearOne, PathTypeOK
  <2> QED BY <1>0, <1>2, <2>1 DEF PathTypeOK, HandInv, ClearOne, CmdFrame
<1>3. CASE TakeCommand
  <2>1. CASE txQueue = <<>>
    BY <1>0, <1>3, <2>1 DEF PathTypeOK, HandInv, TakeCommand, CmdFrame
  <2>2. CASE txQueue # <<>>
    <3>1. txQueue' \in Seq(Requests) /\ creq' \in Requests
      BY <1>3, <2>2, HeadOut DEF TakeCommand, PathTypeOK
    <3> QED BY <1>0, <1>3, <2>2, <3>1 DEF PathTypeOK, HandInv, TakeCommand, CmdFrame
  <2> QED BY <2>1, <2>2
<1>4. CASE RefuseCommand
  <2>1. answers' \in [Requests -> Nat]
    BY <1>4, CompleteType DEF RefuseCommand, PathTypeOK
  <2> QED BY <1>0, <1>4, <2>1 DEF PathTypeOK, HandInv, RefuseCommand, CmdFrame
<1>5. CASE AllowCommand \/ AllowDtmf
  BY <1>0, <1>5 DEF PathTypeOK, HandInv, AllowCommand, AllowDtmf, CmdFrame
<1>6. CASE RefuseDtmf \/ SendCommand
  <2>1. answers' \in [Requests -> Nat]
    BY <1>6, CompleteType DEF RefuseDtmf, SendCommand, PathTypeOK
  <2>2. \A kind : CopyQueued(kind) /\ kind \subseteq Requests =>
            copy' \subseteq Requests /\ cpc' \in {"top", "identical"}
    BY DEF CopyQueued
  <2>3. copy' \subseteq Requests /\ cpc' \in {"top", "identical"} /\ threads
    BY <1>6, <2>2 DEF RefuseDtmf, SendCommand, HandInv
  <2> QED BY <1>0, <1>6, <2>1, <2>3 DEF PathTypeOK, HandInv, RefuseDtmf, SendCommand
<1>7. CASE CompleteIdentical
  <2>1. PICK i \in 1..Len(txQueue) :
            /\ Complete({txQueue[i]})
            /\ copy' = copy \ {txQueue[i]}
            /\ txQueue' = Without(txQueue, i)
    BY <1>7 DEF CompleteIdentical, Without
  <2>2. answers' \in [Requests -> Nat] /\ txQueue' \in Seq(Requests)
    BY <2>1, CompleteType, MiddleOut DEF PathTypeOK
  <2>3. copy' \subseteq Requests
    BY <2>1 DEF PathTypeOK
  <2>4. /\ cpc = "identical" /\ cpc' \in {"top", "identical"}
        /\ UNCHANGED <<creq, txEvent>>
    BY <1>7 DEF CompleteIdentical
  <2> QED BY <1>0, <2>2, <2>3, <2>4 DEF PathTypeOK, HandInv
<1> QED BY <1>1, <1>2, <1>3, <1>4, <1>5, <1>6, <1>7 DEF CommandStep

(* The life cycle starts a command thread where none runs, waits for it     *)
(* before it counts as stopped, and takes the queue away as a whole.        *)
LEMMA LifeCycleTypes ==
    ASSUME PathTypeOK, HandInv, TypeOK', FollowLifeCycle
    PROVE  PathTypeOK' /\ HandInv'
<1>1. UNCHANGED <<mpc, mreq, received, creq, copy, answers, dead>>
  BY DEF FollowLifeCycle, mainVars
<1>2. /\ lost' \subseteq Requests /\ txEvent' \in BOOLEAN
      /\ txQueue' \in Seq(Requests)
  <2>1. QueuedRequests \subseteq Requests /\ <<>> \in Seq(Requests)
    BY ElementOfSeq, EmptySeq DEF QueuedRequests, PathTypeOK
  <2> QED BY <2>1 DEF FollowLifeCycle, PathTypeOK, txVars
<1>3. /\ threads' \in BOOLEAN
      /\ cpc' = IF ~threads /\ threads' THEN "top" ELSE cpc
      /\ threads /\ ~threads' => cpc = "none"
  BY DEF FollowLifeCycle, TypeOK
<1> QED BY <1>1, <1>2, <1>3 DEF PathTypeOK, HandInv

LEMMA StepPathTypes ==
    ASSUME TypeOK, PathTypeOK, HandInv, TypeOK', [PathNext]_allVars
    PROVE  PathTypeOK' /\ HandInv'
<1>1. CASE LifeCycle(Next)
  BY <1>1, LifeCycleTypes DEF LifeCycle
<1>2. CASE UNCHANGED allVars
  BY <1>2 DEF allVars, pathVars, mainVars, txVars, cmdVars, vars, sysVars, PathTypeOK, HandInv
<1> QED BY <1>1, <1>2, MainTypes, CommandTypes DEF PathNext

(* Types, for any number of requests and events.                            *)
THEOREM PathTypeCorrect == PathSpec => [](PathTypeOK /\ HandInv)
<1>1. PathSpec => [](TypeOK /\ DeferInv)
  BY PathIsLifeCycle, LifeCycleTypeCorrect, PTL
<1> QED BY <1>1, InitPath, StepPathTypes, PTL DEF PathSpec
-----------------------------------------------------------------------------
(* One holder at a time.                                                    *)

One(b) == IF b THEN 1 ELSE 0

(* What is known of r: its answers and the parties that hold it.            *)
Account(r) ==
    answers[r] + One(mreq = r) + One(creq = r) + One(r \in QueuedRequests) + One(r \in lost)
        = One(r \in received)

HolderInv ==
    /\ Distinct(txQueue)
    /\ \A r \in Requests : Account(r)

LEMMA InitHolder == PathInit => HolderInv
<1> SUFFICES ASSUME PathInit PROVE HolderInv
  OBVIOUS
<1>1. Len(txQueue) = 0 /\ QueuedRequests = {}
  BY DEF PathInit, QueuedRequests
<1>2. Distinct(txQueue)
  BY <1>1 DEF Distinct
<1>3. ASSUME NEW r \in Requests PROVE Account(r)
  BY <1>1, <1>3, RequestPathAssumption DEF PathInit, Account, One
<1> QED BY <1>2, <1>3 DEF HolderInv

(* The answer of a request that nobody holds twice.                         *)
LEMMA Answered ==
    ASSUME NEW q, Complete({q}), PathTypeOK, NEW r \in Requests
    PROVE  answers'[r] = answers[r] + One(r = q) /\ answers[r] \in Nat
BY DEF Complete, PathTypeOK, One

(* The holder of a request is its only one, and it has no answer yet.       *)
LEMMA OnlyHolder ==
    ASSUME PathTypeOK, HolderInv, NEW r \in Requests,
           mreq = r \/ creq = r \/ r \in QueuedRequests
    PROVE  /\ answers[r] = 0 /\ r \in received /\ r \notin lost
           /\ mreq = r => creq # r /\ r \notin QueuedRequests
           /\ creq = r => mreq # r /\ r \notin QueuedRequests
<1>1. answers[r] \in Nat /\ Account(r)
  BY DEF PathTypeOK, HolderInv
<1> QED BY <1>1 DEF Account, One

LEMMA MainHolder ==
    ASSUME PathTypeOK, HandInv, HolderInv, MainStep \/ \E r \in Requests : OnRequest(r)
    PROVE  HolderInv'
<1> USE RequestPathAssumption DEF MainFrame, cmdVars, txVars
<1>0. UNCHANGED <<creq, lost>>
  BY DEF MainStep, OnRequest, RefuseRequest, AcceptRequest, CheckInitialized, EnqueueCommand,
         EnqueueNowhere, SignalTx
<1>1. ASSUME NEW q \in Requests, OnRequest(q) PROVE HolderInv'
  <2>1. QueuedRequests' = QueuedRequests /\ Distinct(txQueue)' = Distinct(txQueue)
    BY <1>1 DEF OnRequest, QueuedRequests, Distinct
  <2>2. /\ mreq = NoRequest /\ mreq' = q /\ answers' = answers
        /\ received' = received \cup {q} /\ q \notin received
    BY <1>1 DEF OnRequest, HandInv
  <2>3. ASSUME NEW r \in Requests PROVE Account(r)'
    <3>1. answers[r] \in Nat /\ Account(r)
      BY DEF PathTypeOK, HolderInv
    <3> QED BY <1>0, <2>1, <2>2, <3>1 DEF Account, One
  <2> QED BY <2>1, <2>3 DEF HolderInv
<1>2. CASE RefuseRequest \/ (CheckInitialized /\ ~initOk)
  <2>1. QueuedRequests' = QueuedRequests /\ Distinct(txQueue)' = Distinct(txQueue)
    BY <1>2 DEF RefuseRequest, CheckInitialized, QueuedRequests, Distinct
  <2>2. /\ Complete({mreq}) /\ mreq' = NoRequest /\ received' = received
    BY <1>2 DEF RefuseRequest, CheckInitialized
  <2>3. ASSUME NEW r \in Requests PROVE Account(r)'
    <3>1. answers[r] \in Nat /\ Account(r) /\ answers'[r] = answers[r] + One(r = mreq)
      BY <2>2, Answered DEF HolderInv
    <3> QED BY <1>0, <2>1, <2>2, <3>1 DEF Account, One
  <2> QED BY <2>1, <2>3 DEF HolderInv
<1>3. CASE AcceptRequest \/ (CheckInitialized /\ initOk) \/ EnqueueNowhere \/ SignalTx
  BY <1>0, <1>3 DEF AcceptRequest, CheckInitialized, EnqueueNowhere, SignalTx,
         HolderInv, Account, QueuedRequests, Distinct
<1>4. CASE EnqueueCommand
  <2>1. /\ mreq \in Requests /\ mreq' = NoRequest
        /\ txQueue' = Append(txQueue, mreq) /\ UNCHANGED <<answers, received>>
    BY <1>4 DEF PathTypeOK, HandInv, EnqueueCommand
  <2>2. mreq \notin QueuedRequests
    BY <2>1, OnlyHolder
  <2>3. QueuedRequests' = QueuedRequests \cup {mreq} /\ Distinct(txQueue')
    BY <2>1, <2>2, OneIn DEF QueuedRequests, Elements, HolderInv, PathTypeOK
  <2>4. ASSUME NEW r \in Requests PROVE Account(r)'
    <3>1. answers[r] \in Nat /\ Account(r)
      BY DEF PathTypeOK, HolderInv
    <3> QED BY <1>0, <2>1, <2>2, <2>3, <3>1 DEF Account, One
  <2> QED BY <2>3, <2>4 DEF HolderInv
<1> QED BY <1>1, <1>2, <1>3, <1>4 DEF MainStep

(* A tone is left out: its tests complete it whatever the others decided.   *)
LEMMA CommandHolder ==
    ASSUME Dtmf = {}, PathTypeOK, HandInv, HolderInv, cpc # "dtmf", CommandStep
    PROVE  HolderInv' /\ cpc' # "dtmf"
<1> USE RequestPathAssumption DEF mainVars, txVars
<1>0. UNCHANGED <<mreq, received, lost>>
  BY DEF CommandStep, TestTxQueue, ResetTxEvent, TestTxQueueAgain, WakeOnCommand,
         WaitForever, WakeOnCancel, LookAtModem, ClearOne, QueueCleared, TakeCommand,
         RefuseCommand, AllowCommand, AllowDtmf, RefuseDtmf, SendCommand,
         CompleteIdentical, CmdFrame, ThreadFrame
<1>1. CASE TestTxQueue \/ ResetTxEvent \/ TestTxQueueAgain \/ WakeOnCommand
           \/ WaitForever \/ WakeOnCancel \/ LookAtModem \/ QueueCleared
           \/ AllowCommand \/ AllowDtmf
  <2>1. UNCHANGED <<creq, txQueue, answers>> /\ cpc' # "dtmf"
    BY <1>1 DEF TestTxQueue, ResetTxEvent, TestTxQueueAgain, WakeOnCommand, WaitForever,
           WakeOnCancel, LookAtModem, QueueCleared, AllowCommand, AllowDtmf
  <2> QED BY <1>0, <2>1 DEF HolderInv, Account, QueuedRequests, Distinct
<1>2. CASE ClearOne
  <2>1. /\ txQueue # <<>> /\ Complete({Head(txQueue)}) /\ txQueue' = Tail(txQueue)
        /\ UNCHANGED <<cpc, creq>>
    BY <1>2 DEF ClearOne
  <2>2. /\ QueuedRequests' = QueuedRequests \ {Head(txQueue)} /\ Distinct(txQueue')
        /\ Head(txQueue) \in QueuedRequests
    BY <2>1, HeadOut DEF QueuedRequests, Elements, HolderInv, PathTypeOK
  <2>3. ASSUME NEW r \in Requests PROVE Account(r)'
    <3>1. answers[r] \in Nat /\ Account(r) /\ answers'[r] = answers[r] + One(r = Head(txQueue))
      BY <2>1, Answered DEF HolderInv
    <3> QED BY <1>0, <2>1, <2>2, <3>1 DEF Account, One
  <2> QED BY <2>1, <2>2, <2>3 DEF HolderInv
<1>3. CASE TakeCommand /\ txQueue = <<>>
  BY <1>0, <1>3 DEF TakeCommand, HolderInv, Account, QueuedRequests, Distinct
<1>4. CASE TakeCommand /\ txQueue # <<>>
  <2>1. /\ creq = NoRequest /\ creq' = Head(txQueue) /\ txQueue' = Tail(txQueue)
        /\ answers' = answers /\ cpc' # "dtmf"
    BY <1>4 DEF TakeCommand, HandInv
  <2>2. /\ QueuedRequests' = QueuedRequests \ {Head(txQueue)} /\ Distinct(txQueue')
        /\ Head(txQueue) \in QueuedRequests
    BY <1>4, <2>1, HeadOut DEF QueuedRequests, Elements, HolderInv, PathTypeOK
  <2>3. ASSUME NEW r \in Requests PROVE Account(r)'
    <3>1. answers[r] \in Nat /\ Account(r)
      BY DEF PathTypeOK, HolderInv
    <3> QED BY <1>0, <2>1, <2>2, <3>1 DEF Account, One
  <2> QED BY <2>1, <2>2, <2>3 DEF HolderInv
<1>5. CASE RefuseCommand \/ SendCommand
  <2>1. /\ Complete({creq}) /\ creq' = NoRequest /\ txQueue' = txQueue /\ cpc' # "dtmf"
    BY <1>5 DEF RefuseCommand, SendCommand, CopyQueued
  <2>2. QueuedRequests' = QueuedRequests /\ Distinct(txQueue')
    BY <2>1 DEF QueuedRequests, HolderInv
  <2>3. ASSUME NEW r \in Requests PROVE Account(r)'
    <3>1. answers[r] \in Nat /\ Account(r) /\ answers'[r] = answers[r] + One(r = creq)
      BY <2>1, Answered DEF HolderInv
    <3> QED BY <1>0, <2>1, <2>2, <3>1 DEF Account, One
  <2> QED BY <2>1, <2>2, <2>3 DEF HolderInv
<1>6. CASE CompleteIdentical
  <2>1. PICK i \in 1..Len(txQueue) :
            Complete({txQueue[i]}) /\ txQueue' = Without(txQueue, i)
    BY <1>6 DEF CompleteIdentical, Without
  <2>2. creq' = creq /\ cpc' # "dtmf"
    BY <1>6 DEF CompleteIdentical
  <2>3. /\ QueuedRequests' = QueuedRequests \ {txQueue[i]} /\ Distinct(txQueue')
        /\ txQueue[i] \in QueuedRequests
    BY <2>1, MiddleOut DEF QueuedRequests, Elements, HolderInv, PathTypeOK
  <2>4. ASSUME NEW r \in Requests PROVE Account(r)'
    <3>1. answers[r] \in Nat /\ Account(r) /\ answers'[r] = answers[r] + One(r = txQueue[i])
      BY <2>1, Answered DEF HolderInv
    <3> QED BY <1>0, <2>2, <2>3, <3>1 DEF Account, One
  <2> QED BY <2>2, <2>3, <2>4 DEF HolderInv
<1>7. ~RefuseDtmf
  BY DEF RefuseDtmf
<1> QED BY <1>1, <1>2, <1>3, <1>4, <1>5, <1>6, <1>7 DEF CommandStep

(* The deleted queue takes its requests along.                              *)
LEMMA LifeCycleHolder ==
    ASSUME PathTypeOK, HandInv, HolderInv, cpc # "dtmf", FollowLifeCycle
    PROVE  HolderInv' /\ cpc' # "dtmf"
<1>1. UNCHANGED <<mreq, received, creq, answers>> /\ cpc' # "dtmf"
  BY DEF FollowLifeCycle, mainVars
<1>2. CASE UNCHANGED <<lost, txQueue>>
  BY <1>1, <1>2 DEF HolderInv, Account, QueuedRequests, Distinct
<1>3. CASE lost' = lost \cup QueuedRequests /\ txQueue' = <<>>
  <2>1. Len(txQueue') = 0 /\ QueuedRequests' = {}
    BY <1>3 DEF QueuedRequests
  <2>2. Distinct(txQueue')
    BY <2>1 DEF Distinct
  <2>3. ASSUME NEW r \in Requests PROVE Account(r)'
    <3>1. answers[r] \in Nat /\ Account(r)
      BY DEF PathTypeOK, HolderInv
    <3> QED BY <1>1, <1>3, <2>1, <3>1 DEF Account, One
  <2> QED BY <1>1, <2>2, <2>3 DEF HolderInv
<1> QED BY <1>2, <1>3 DEF FollowLifeCycle, txVars

LEMMA StepHolder ==
    ASSUME Dtmf = {}, PathTypeOK, HandInv, HolderInv, cpc # "dtmf", [PathNext]_allVars
    PROVE  HolderInv' /\ cpc' # "dtmf"
<1>1. CASE LifeCycle(Next)
  BY <1>1, LifeCycleHolder DEF LifeCycle
<1>2. CASE MainStep \/ \E r \in Requests : OnRequest(r)
  <2>1. cpc' = cpc
    BY <1>2 DEF MainStep, OnRequest, RefuseRequest, AcceptRequest, CheckInitialized,
           EnqueueCommand, EnqueueNowhere, SignalTx, MainFrame, cmdVars
  <2> QED BY <1>2, <2>1, MainHolder
<1>3. CASE UNCHANGED allVars
  BY <1>3 DEF allVars, pathVars, mainVars, txVars, cmdVars,
         HolderInv, Account, QueuedRequests, Distinct
<1> QED BY <1>1, <1>2, <1>3, CommandHolder DEF PathNext

Sole == HolderInv /\ cpc # "dtmf"

(* The property, for the places of the queue where r is.                    *)
Places(r) == {i \in 1..Len(txQueue) : txQueue[i] = r}

HeldAt(r, places) ==
    /\ \A i, j \in places : i = j
    /\ answers[r] + ((IF mreq = r THEN 1 ELSE 0) + (IF creq = r THEN 1 ELSE 0)
                      + (IF places # {} THEN 1 ELSE 0) + (IF r \in lost THEN 1 ELSE 0))
           = IF r \in received THEN 1 ELSE 0

(* A request is answered at most once and until then held by one party: the *)
(* main thread, one place of the queue, the command thread or the deleted   *)
(* queue, for any number of requests and any history of the modem, tones    *)
(* left out.                                                                *)
THEOREM HeldOnce == ASSUME Dtmf = {} PROVE PathSpec => []OneHolder
<1>1. PathSpec => [](PathTypeOK /\ HandInv)
  BY PathTypeCorrect
<1>2. PathInit => Sole
  BY InitHolder DEF PathInit, Sole
<1>3. PathTypeOK /\ Sole => OneHolder
  <2> SUFFICES ASSUME PathTypeOK, HolderInv PROVE OneHolder
    BY DEF Sole
  <2>1. ASSUME NEW r \in Requests PROVE HeldAt(r, Places(r))
    <3>1. Places(r) # {} <=> r \in QueuedRequests
      BY DEF Places, QueuedRequests
    <3>2. \A i, j \in Places(r) : i = j
      BY DEF Places, HolderInv, Distinct
    <3>3. answers[r] \in Nat /\ Account(r)
      BY DEF PathTypeOK, HolderInv
    <3>4. answers[r] + (One(mreq = r) + One(creq = r) + One(Places(r) # {})
                        + One(r \in lost)) = One(r \in received)
      BY <3>1, <3>3 DEF Account, One
    <3> QED BY <3>2, <3>4 DEF HeldAt, One
  <2> QED BY <2>1 DEF OneHolder, HeldAt, Places
<1>4. PathTypeOK /\ HandInv /\ Sole /\ [PathNext]_allVars => Sole'
  BY StepHolder DEF Sole
<1> QED BY <1>1, <1>2, <1>3, <1>4, PTL DEF PathSpec
-----------------------------------------------------------------------------
(* The queue and the cancel event of a running thread.                      *)

QueueInv == threads => queues /\ cancel # "none"

LEMMA StepQueue ==
    ASSUME CleanInv, StopInv, QueueInv, [Next]_vars
    PROVE  QueueInv'
<1>1. ASSUME NEW t \in Executors, NodeStep(t) PROVE QueueInv'
  <2>0. Placed(t) /\ Stopped(t)
    BY DEF CleanInv, StopInv
  <2>1. CASE SignalCancel(t) \/ CloseChannelPorts(t) \/ CreateQueues(t)
    BY <2>1 DEF SignalCancel, CloseChannelPorts, CreateQueues, QueueInv
  <2>2. CASE ResetChannelInfo(t)
    BY <2>0, <2>2 DEF ResetChannelInfo, At, Stopped, QueueInv
  <2>3. CASE StartThreads(t)
    BY <2>0, <2>3 DEF StartThreads, At, Placed, QueueInv
  <2>4. CASE \/ SpoofOn(t) \/ ResetSystemState(t) \/ FinishNode(t) \/ SpoofOff(t)
             \/ OpenPort(t) \/ OpenFails(t) \/ SetSystemInitialized(t)
             \/ InitializeModem(t) \/ InitializeModemFails(t)
    BY <2>4 DEF SpoofOn, ResetSystemState, FinishNode, SpoofOff, OpenPort, OpenFails,
           SetSystemInitialized, InitializeModem, InitializeModemFails, sysVars, QueueInv
  <2> QED BY <1>1, <2>1, <2>2, <2>3, <2>4 DEF NodeStep
<1>2. ASSUME NEW t \in Restarters, RestartStep(t) PROVE QueueInv'
  BY <1>2 DEF RestartStep, IgnoreRestart, TestAndSetSpoof, SetInitializationUnsuccessful,
         SendRequestModemRecovery, RestartFrame, QueueInv
<1>3. CASE \/ \E e \in Events : ReceiveEvent(e)
           \/ HandlerStep \/ WorkerStep \/ RequestPlatformShutdown \/ UNCHANGED vars
  BY <1>3 DEF ReceiveEvent, HandlerStep, QueueToWorker, StartWorker, ExecuteInline, InlineDone,
         WorkerStep, WorkerDequeues, WorkerFinishes, NodeDone, RequestPlatformShutdown,
         vars, sysVars, QueueInv
<1> QED BY <1>1, <1>2, <1>3 DEF Next

(* The command thread runs only while its queue and the cancel event exist, *)
(* for any number of events and requests, as long as the MMGR announces     *)
(* that an up modem goes: MODEM_UP deletes them after the thread has left.  *)
THEOREM QueueOutlivesThread == ASSUME ~DownUnannounced PROVE PathSpec => []ThreadHasQueue
<1>1. Spec => []CleanInv /\ []StopInv
  BY InitStop, StepStop, LifeCycleTypeCorrect, SystemIsCleaned, PTL DEF Spec
<1>2. Init => QueueInv
  BY DEF Init, QueueInv
<1>3. Spec => []QueueInv
  BY <1>1, <1>2, StepQueue, PTL DEF Spec
<1>4. HandInv /\ QueueInv => ThreadHasQueue
  BY DEF HandInv, QueueInv, ThreadHasQueue
<1> QED BY <1>3, <1>4, PathIsLifeCycle, PathTypeCorrect, PTL
-----------------------------------------------------------------------------
(* The command thread against the main thread, over queue and event.        *)
LEMMA StepSlept ==
    ASSUME ThreadHasQueue, NoCommandSleptOver, [PathNext]_allVars
    PROVE  NoCommandSleptOver'
<1>1. CASE LifeCycle(Next)
  <2>1. /\ mpc' = mpc /\ cpc' \in {cpc, "top"}
        /\ UNCHANGED <<txQueue, txEvent>> \/ txQueue' = <<>>
    BY <1>1 DEF LifeCycle, FollowLifeCycle, mainVars, txVars
  <2> QED BY <2>1 DEF NoCommandSleptOver
<1>2. ASSUME NEW r \in Requests, OnRequest(r) PROVE NoCommandSleptOver'
  BY <1>2 DEF OnRequest, MainFrame, cmdVars, txVars, NoCommandSleptOver
<1>3. CASE MainStep
  <2>1. CASE RefuseRequest \/ AcceptRequest \/ CheckInitialized \/ EnqueueNowhere
    BY <2>1 DEF RefuseRequest, AcceptRequest, CheckInitialized, EnqueueNowhere,
           MainFrame, cmdVars, txVars, NoCommandSleptOver
  <2>2. CASE EnqueueCommand
    BY <2>2 DEF EnqueueCommand, NoCommandSleptOver
  <2>3. CASE SignalTx
    BY <2>3 DEF SignalTx, MainFrame, cmdVars, ThreadHasQueue, NoCommandSleptOver
  <2> QED BY <1>3, <2>1, <2>2, <2>3 DEF MainStep
<1>4. CASE CommandStep
  <2>0. mpc' = mpc
    BY <1>4 DEF CommandStep, TestTxQueue, ResetTxEvent, TestTxQueueAgain, WakeOnCommand,
           WaitForever, WakeOnCancel, LookAtModem, ClearOne, QueueCleared, TakeCommand,
           RefuseCommand, AllowCommand, AllowDtmf, RefuseDtmf, SendCommand,
           CompleteIdentical, CmdFrame, ThreadFrame, mainVars
  <2>1. CASE TestTxQueueAgain
    BY <2>0, <2>1 DEF TestTxQueueAgain, txVars, NoCommandSleptOver
  <2>2. CASE WaitForever
    BY <2>0, <2>2 DEF WaitForever, txVars, NoCommandSleptOver
  <2>3. CASE \/ TestTxQueue \/ ResetTxEvent \/ WakeOnCommand \/ WakeOnCancel \/ LookAtModem
             \/ ClearOne \/ QueueCleared \/ TakeCommand \/ RefuseCommand \/ AllowCommand
             \/ AllowDtmf \/ RefuseDtmf \/ SendCommand \/ CompleteIdentical
    <3>1. cpc' \notin {"register", "wait"}
      BY <2>3 DEF TestTxQueue, ResetTxEvent, WakeOnCommand, WakeOnCancel, LookAtModem,
             ClearOne, QueueCleared, TakeCommand, RefuseCommand, AllowCommand, AllowDtmf,
             RefuseDtmf, SendCommand, CompleteIdentical, CopyQueued
    <3> QED BY <3>1 DEF NoCommandSleptOver
  <2> QED BY <1>4, <2>1, <2>2, <2>3 DEF CommandStep
<1>5. CASE UNCHANGED allVars
  BY <1>5 DEF allVars, pathVars, mainVars, txVars, cmdVars, NoCommandSleptOver
<1> QED BY <1>1, <1>2, <1>3, <1>4, <1>5 DEF PathNext

(* The command thread never sleeps over a command, although it resets the   *)
(* event between its two tests of the queue; a signal is lost only on an    *)
(* event that is gone, and then the thread is too.                          *)
THEOREM NothingSleptOver == ASSUME ~DownUnannounced PROVE PathSpec => []NoCommandSleptOver
<1>1. PathInit => NoCommandSleptOver
  BY DEF PathInit, NoCommandSleptOver
<1> QED BY <1>1, StepSlept, QueueOutlivesThread, PTL DEF PathSpec
=============================================================================
