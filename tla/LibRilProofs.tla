---------------------------- MODULE LibRilProofs ----------------------------
(***************************************************************************)
(* What libril keeps for any number of threads, timers, requests and        *)
(* connections: the wake lock has a timer as long as it is held, requests   *)
(* are answered at most once, and those of an earlier connection are marked.*)
(***************************************************************************)
EXTENDS LibRil, TLAPS

(* Who is inside of grabPartialWakeLock owns the mutex.                     *)
OwnerInside == \A t \in Senders : gpc[t] # "out" <=> lockOwner = t

(* The timer a sender has just made is its own: nobody tracks it yet, so    *)
(* nobody calls it off, and when it fires its callback waits for the mutex. *)
MineIsFresh ==
    \A t \in Senders : gpc[t] # "out" =>
        /\ mine[t] \in Timers
        /\ mine[t] # tracked
        /\ gpc[t] = "counted" => seen[t] # mine[t]
        /\ WillRelease(mine[t])

(* One timer at most has fired: the one whose callback runs.                *)
OneFires ==
    /\ fpc # "none" => firing \in Timers
    /\ \A i \in Timers : timer[i] = "fired" <=> fpc # "none" /\ firing = i
    /\ fpc = "free" => tracked # firing

UnusedIsUnknown ==
    \A i \in Timers : timer[i] = "unused" =>
        /\ ~calledOff[i] /\ i # tracked
        /\ \A t \in Senders : gpc[t] = "counted" => seen[t] # i

(* Inside of the mutex the lock is held, and counted in the second step.    *)
CountInside ==
    \A t \in Senders : /\ gpc[t] # "out" => held
                       /\ gpc[t] = "counted" => count > 0

(* The thread that has read no event is not in the event loop's callback.   *)
LoopIsOne == fpc # "none" => gpc["loop"] = "out"

WakeInv ==
    /\ WakeTypeOK
    /\ OwnerInside
    /\ MineIsFresh
    /\ OneFires
    /\ UnusedIsUnknown
    /\ CountInside
    /\ LoopIsOne
    /\ HeldIsTimed
    /\ CountTellsLock
    /\ TrackedTimerLives

LEMMA NobodyIsNoSender == "nobody" \notin Senders
  BY WakeLockAssumption DEF Senders

LEMMA WakeInitInv == WakeInit => WakeInv
<1> SUFFICES ASSUME WakeInit PROVE WakeInv
  OBVIOUS
<1> USE WakeLockAssumption, NobodyIsNoSender DEF WakeInit, Timers
<1>1. WakeTypeOK
  BY DEF WakeTypeOK
<1>2. OwnerInside /\ MineIsFresh /\ CountInside /\ LoopIsOne
  BY DEF OwnerInside, MineIsFresh, CountInside, LoopIsOne, Senders
<1>3. OneFires /\ UnusedIsUnknown
  BY DEF OneFires, UnusedIsUnknown
<1>4. HeldIsTimed /\ CountTellsLock /\ TrackedTimerLives
  BY DEF HeldIsTimed, CountTellsLock, TrackedTimerLives
<1> QED
  BY <1>1, <1>2, <1>3, <1>4 DEF WakeInv

(* The lock is taken with a fresh timer, which will let go of it.           *)
LEMMA GrabKeeps ==
  ASSUME WakeInv, NEW t \in Senders, GrabPartialWakeLock(t)
  PROVE  WakeInv'
<1> USE WakeLockAssumption DEF Timers, fireVars
<1>1. PICK i \in Timers :
         /\ timer[i] = "unused"
         /\ timer' = [timer EXCEPT ![i] = "armed"]
         /\ mine' = [mine EXCEPT ![t] = i]
  BY DEF GrabPartialWakeLock
<1>2. /\ gpc[t] = "out" /\ lockOwner = "nobody" /\ held' = TRUE /\ lockOwner' = t
      /\ gpc' = [gpc EXCEPT ![t] = "made"]
      /\ t = "loop" => fpc = "none"
      /\ UNCHANGED <<count, tracked, calledOff, seen, fpc, firing, param>>
  BY DEF GrabPartialWakeLock
<1>3. \A u \in Senders : gpc[u] = "out"
  BY <1>2 DEF WakeInv, OwnerInside, WakeTypeOK, Senders
<1>4. i # tracked /\ ~calledOff[i]
  BY <1>1 DEF WakeInv, UnusedIsUnknown
<1>5. WakeTypeOK'
  BY <1>1, <1>2 DEF WakeInv, WakeTypeOK
<1>6. OwnerInside'
  BY <1>2, <1>3 DEF WakeInv, WakeTypeOK, OwnerInside
<1>7. timer'[i] = "armed" /\ ~calledOff'[i]
  BY <1>1, <1>2, <1>4 DEF WakeInv, WakeTypeOK
<1>8. WillRelease(i)'
  BY <1>7 DEF WillRelease
<1>9. MineIsFresh'
  BY <1>1, <1>2, <1>3, <1>4, <1>8 DEF WakeInv, WakeTypeOK, MineIsFresh
<1>10. OneFires'
  BY <1>1, <1>2 DEF WakeInv, WakeTypeOK, OneFires
<1>11. UnusedIsUnknown'
  BY <1>1, <1>2, <1>3 DEF WakeInv, WakeTypeOK, UnusedIsUnknown
<1>12. CountInside'
  BY <1>2, <1>3 DEF WakeInv, WakeTypeOK, CountInside
<1>13. HeldIsTimed' /\ LoopIsOne'
  BY <1>2, <1>8 DEF HeldIsTimed, LoopIsOne, WakeInv, WakeTypeOK
<1>14. CountTellsLock'
  BY <1>2 DEF CountTellsLock, Senders
<1>15. TrackedTimerLives'
  BY <1>1, <1>2, <1>4 DEF WakeInv, WakeTypeOK, TrackedTimerLives
<1> QED
  BY <1>5, <1>6, <1>9, <1>10, <1>11, <1>12, <1>13, <1>14, <1>15 DEF WakeInv

LEMMA CountMessageKeeps ==
  ASSUME WakeInv, NEW t \in Senders, CountMessage(t)
  PROVE  WakeInv'
<1> USE WakeLockAssumption, NobodyIsNoSender DEF Timers, fireVars
<1>1. /\ gpc[t] = "made" /\ lockOwner = t /\ count \in Nat
      /\ count' = count + 1
      /\ seen' = [seen EXCEPT ![t] = tracked]
      /\ gpc' = [gpc EXCEPT ![t] = "counted"]
      /\ UNCHANGED <<held, lockOwner, tracked, timer, calledOff, mine,
                     fpc, firing, param>>
  BY DEF CountMessage, WakeInv, WakeTypeOK, OwnerInside
<1>2. \A u \in Senders : u # t => gpc[u] = "out"
  BY <1>1 DEF WakeInv, OwnerInside
<1>3. WakeTypeOK'
  BY <1>1 DEF WakeInv, WakeTypeOK
<1>4. OwnerInside' /\ LoopIsOne'
  BY <1>1 DEF WakeInv, WakeTypeOK, OwnerInside, LoopIsOne
<1>5. MineIsFresh'
  BY <1>1, <1>2 DEF WakeInv, WakeTypeOK, MineIsFresh, WillRelease
<1>6. OneFires' /\ TrackedTimerLives' /\ HeldIsTimed'
  BY <1>1 DEF WakeInv, OneFires, TrackedTimerLives, HeldIsTimed, WillRelease
<1>7. UnusedIsUnknown'
  BY <1>1, <1>2 DEF WakeInv, WakeTypeOK, UnusedIsUnknown
<1>8. CountInside' /\ CountTellsLock'
  BY <1>1, <1>2 DEF WakeInv, WakeTypeOK, CountInside, CountTellsLock
<1> QED
  BY <1>3, <1>4, <1>5, <1>6, <1>7, <1>8 DEF WakeInv

(* Whatever is called off, it is not the sender's own timer.                *)
LEMMA TrackTimerKeeps ==
  ASSUME WakeInv, NEW t \in Senders, TrackTimer(t)
  PROVE  WakeInv'
<1> USE WakeLockAssumption, NobodyIsNoSender DEF Timers, fireVars
<1>1. /\ gpc[t] = "counted" /\ lockOwner = t
      /\ tracked' = mine[t] /\ lockOwner' = "nobody"
      /\ gpc' = [gpc EXCEPT ![t] = "out"]
      /\ mine' = [mine EXCEPT ![t] = 0]
      /\ seen' = [seen EXCEPT ![t] = 0]
      /\ UNCHANGED <<held, count, timer, fpc, firing, param>>
  BY DEF TrackTimer, WakeInv, OwnerInside
<1>2. /\ calledOff' \in [Timers -> BOOLEAN]
      /\ \A i \in Timers : \/ calledOff'[i] = calledOff[i]
                           \/ i \in {seen[t], tracked}
  BY DEF TrackTimer, WakeInv, WakeTypeOK
<1>3. PICK m \in Timers : /\ m = mine[t] /\ m # tracked /\ m # seen[t]
                         /\ WillRelease(m)
  BY <1>1 DEF WakeInv, MineIsFresh
<1>4. WillRelease(m)'
  BY <1>1, <1>2, <1>3 DEF WillRelease
<1>5. \A u \in Senders : u # t => gpc[u] = "out"
  BY <1>1 DEF WakeInv, OwnerInside
<1>6. WakeTypeOK'
  BY <1>1, <1>2, <1>3 DEF WakeInv, WakeTypeOK
<1>7. OwnerInside' /\ LoopIsOne' /\ MineIsFresh'
  BY <1>1, <1>5 DEF WakeInv, WakeTypeOK, OwnerInside, LoopIsOne, MineIsFresh
<1>8. OneFires' /\ TrackedTimerLives'
  BY <1>1, <1>3 DEF WakeInv, WakeTypeOK, OneFires, TrackedTimerLives, WillRelease
<1>9. HeldIsTimed'
  BY <1>3, <1>4, <1>1 DEF HeldIsTimed
<1>10. UnusedIsUnknown'
  BY <1>1, <1>2, <1>3, <1>5
  DEF WakeInv, WakeTypeOK, UnusedIsUnknown, WillRelease
<1>11. CountInside' /\ CountTellsLock'
  BY <1>1, <1>5 DEF WakeInv, WakeTypeOK, CountInside, CountTellsLock
<1> QED
  BY <1>6, <1>7, <1>8, <1>9, <1>10, <1>11 DEF WakeInv

LEMMA ReleaseKeeps ==
  ASSUME WakeInv, NEW t \in Senders, ReleaseWakeLock(t)
  PROVE  WakeInv'
<1> USE WakeLockAssumption, NobodyIsNoSender DEF Timers, fireVars, grabVars
<1>1. /\ lockOwner = "nobody"
      /\ \/ /\ count > 1 /\ count' = count - 1
            /\ held' = held /\ calledOff' = calledOff
         \/ /\ count' = 0 /\ held' = FALSE
            /\ calledOff' = [i \in Timers |-> calledOff[i] \/ i = tracked]
      /\ UNCHANGED <<lockOwner, tracked, timer, gpc, mine, seen,
                     fpc, firing, param>>
  BY DEF ReleaseWakeLock
<1>2. \A u \in Senders : gpc[u] = "out"
  BY <1>1 DEF WakeInv, OwnerInside, WakeTypeOK
<1>3. WakeTypeOK'
  <2>1. count' \in Nat
    BY <1>1 DEF WakeInv, WakeTypeOK
  <2>0. held' \in BOOLEAN
    BY <1>1, Zenon DEF WakeInv, WakeTypeOK
  <2>2. calledOff' \in [Timers -> BOOLEAN]
    BY <1>1, Zenon DEF WakeInv, WakeTypeOK
  <2> QED
    BY <1>1, <2>0, <2>1, <2>2 DEF WakeInv, WakeTypeOK
<1>4. OwnerInside' /\ LoopIsOne' /\ MineIsFresh' /\ CountInside'
  BY <1>1, <1>2
  DEF WakeInv, OwnerInside, LoopIsOne, MineIsFresh, CountInside
<1>5. OneFires' /\ TrackedTimerLives'
  BY <1>1 DEF WakeInv, OneFires, TrackedTimerLives
<1>6. UnusedIsUnknown'
  BY <1>1 DEF WakeInv, WakeTypeOK, UnusedIsUnknown
<1>7. HeldIsTimed'
  BY <1>1 DEF WakeInv, HeldIsTimed, WillRelease
<1>8. CountTellsLock'
  BY <1>1 DEF WakeInv, WakeTypeOK, CountTellsLock
<1> QED
  BY <1>3, <1>4, <1>5, <1>6, <1>7, <1>8 DEF WakeInv

LEMMA FireTimerKeeps == ASSUME WakeInv, FireTimer PROVE WakeInv'
<1> USE WakeLockAssumption, NobodyIsNoSender DEF Timers, grabVars
<1>1. PICK i \in Timers :
         /\ timer[i] = "armed" /\ timer' = [timer EXCEPT ![i] = "fired"]
         /\ firing' = i /\ param' = calledOff[i]
  BY DEF FireTimer
<1>2. /\ fpc = "none" /\ gpc["loop"] = "out" /\ fpc' = "called"
      /\ UNCHANGED <<held, count, lockOwner, tracked, calledOff,
                     gpc, mine, seen>>
  BY DEF FireTimer
<1>3. \A j \in Timers : WillRelease(j) => WillRelease(j)'
  BY <1>1, <1>2 DEF WakeInv, WakeTypeOK, WillRelease
<1>4. WakeTypeOK'
  BY <1>1, <1>2 DEF WakeInv, WakeTypeOK
<1>5. OwnerInside' /\ LoopIsOne' /\ CountInside' /\ CountTellsLock'
  BY <1>2 DEF WakeInv, OwnerInside, LoopIsOne, CountInside, CountTellsLock
<1>6. MineIsFresh'
  BY <1>2, <1>3 DEF WakeInv, MineIsFresh
<1>7. OneFires' /\ TrackedTimerLives'
  BY <1>1, <1>2 DEF WakeInv, WakeTypeOK, OneFires, TrackedTimerLives
<1>8. UnusedIsUnknown'
  BY <1>1, <1>2 DEF WakeInv, WakeTypeOK, UnusedIsUnknown
<1>9. HeldIsTimed'
  BY <1>2, <1>3 DEF WakeInv, HeldIsTimed
<1> QED
  BY <1>4, <1>5, <1>6, <1>7, <1>8, <1>9 DEF WakeInv

(* A timer that was not called off lets go of the lock; one that was, was   *)
(* not what kept the lock from being held for ever.                         *)
LEMMA WakeTimeoutKeeps == ASSUME WakeInv, WakeTimeout PROVE WakeInv'
<1> USE WakeLockAssumption, NobodyIsNoSender DEF Timers, grabVars
<1>1. /\ fpc = "called" /\ fpc' = "tested"
      /\ \/ param /\ held' = held /\ count' = count
         \/ ~param /\ lockOwner = "nobody" /\ held' = FALSE /\ count' = 0
      /\ UNCHANGED <<lockOwner, tracked, timer, calledOff, gpc, mine, seen,
                     firing, param>>
  BY DEF WakeTimeout
<1>2. WakeTypeOK' /\ OwnerInside' /\ LoopIsOne'
  <2>1. held' \in BOOLEAN
    BY <1>1, Zenon DEF WakeInv, WakeTypeOK
  <2>2. count' \in Nat
    BY <1>1 DEF WakeInv, WakeTypeOK
  <2> QED
    BY <1>1, <2>1, <2>2 DEF WakeInv, WakeTypeOK, OwnerInside, LoopIsOne
<1>3. OneFires' /\ TrackedTimerLives' /\ UnusedIsUnknown'
  BY <1>1 DEF WakeInv, OneFires, TrackedTimerLives, UnusedIsUnknown
<1>4. CASE param
  <2>1. \A j \in Timers : WillRelease(j) => WillRelease(j)'
    BY <1>1, <1>4 DEF WillRelease
  <2>2. MineIsFresh' /\ HeldIsTimed'
    BY <1>1, <1>4, <2>1 DEF WakeInv, MineIsFresh, HeldIsTimed
  <2>3. CountInside' /\ CountTellsLock'
    BY <1>1, <1>4 DEF WakeInv, CountInside, CountTellsLock
  <2> QED
    BY <1>2, <1>3, <2>2, <2>3 DEF WakeInv
<1>5. CASE ~param
  <2>1. \A u \in Senders : gpc[u] = "out"
    BY <1>1, <1>5 DEF WakeInv, OwnerInside, WakeTypeOK
  <2>2. MineIsFresh' /\ HeldIsTimed' /\ CountInside' /\ CountTellsLock'
    BY <1>1, <1>5, <2>1
    DEF MineIsFresh, HeldIsTimed, CountInside, CountTellsLock
  <2> QED
    BY <1>2, <1>3, <2>2 DEF WakeInv
<1> QED
  BY <1>4, <1>5

LEMMA CallbackEndKeeps ==
  ASSUME WakeInv, TestTracked \/ ClearTracked \/ FreeTimer
  PROVE  WakeInv'
<1> USE WakeLockAssumption, NobodyIsNoSender DEF Timers, grabVars
<1>1. /\ fpc \in {"tested", "clear", "free"} /\ fpc' # "called"
      /\ fpc' \in {"clear", "free", "none"}
      /\ UNCHANGED <<held, count, lockOwner, calledOff, gpc, mine, seen>>
  BY DEF TestTracked, ClearTracked, FreeTimer
<1>2. \A i \in Timers : WillRelease(i) => timer[i] = "armed" /\ ~calledOff[i]
  BY <1>1 DEF WillRelease
<1>3. \A i \in Timers : timer[i] = "armed" => timer'[i] = "armed"
  BY <1>1 DEF TestTracked, ClearTracked, FreeTimer, WakeInv, WakeTypeOK, OneFires
<1>4. \A i \in Timers : WillRelease(i) => WillRelease(i)'
  BY <1>1, <1>2, <1>3 DEF WillRelease
<1>5. tracked' \in {tracked, 0}
  BY DEF TestTracked, ClearTracked, FreeTimer
<1>6. WakeTypeOK' /\ OwnerInside' /\ LoopIsOne'
  BY <1>1 DEF WakeInv, WakeTypeOK, OwnerInside, LoopIsOne,
              TestTracked, ClearTracked, FreeTimer
<1>7. MineIsFresh'
  BY <1>1, <1>4, <1>5 DEF WakeInv, MineIsFresh
<1>8. OneFires' /\ TrackedTimerLives'
  BY <1>1 DEF WakeInv, WakeTypeOK, OneFires, TrackedTimerLives,
              TestTracked, ClearTracked, FreeTimer
<1>9. UnusedIsUnknown'
  BY <1>1, <1>5 DEF WakeInv, WakeTypeOK, OneFires, UnusedIsUnknown,
                    TestTracked, ClearTracked, FreeTimer
<1>10. HeldIsTimed' /\ CountInside' /\ CountTellsLock'
  BY <1>1, <1>4 DEF WakeInv, HeldIsTimed, CountInside, CountTellsLock
<1> QED
  BY <1>6, <1>7, <1>8, <1>9, <1>10 DEF WakeInv

(* What does not touch the wake lock keeps its invariant.                   *)
LEMMA WakeStutterKeeps == ASSUME WakeInv, UNCHANGED wakeVars PROVE WakeInv'
<1> USE DEF wakeVars, grabVars, fireVars
<1>1. WakeTypeOK' /\ OwnerInside' /\ LoopIsOne' /\ CountInside'
  BY DEF WakeInv, WakeTypeOK, OwnerInside, LoopIsOne, CountInside
<1>2. MineIsFresh' /\ OneFires' /\ UnusedIsUnknown'
  BY DEF WakeInv, MineIsFresh, OneFires, UnusedIsUnknown, WillRelease
<1>3. HeldIsTimed' /\ CountTellsLock' /\ TrackedTimerLives'
  BY DEF WakeInv, HeldIsTimed, CountTellsLock, TrackedTimerLives, WillRelease
<1> QED
  BY <1>1, <1>2, <1>3 DEF WakeInv

LEMMA WakeStepKeeps == ASSUME WakeInv, [WakeNext]_wakeVars PROVE WakeInv'
  BY GrabKeeps, CountMessageKeeps, TrackTimerKeeps, ReleaseKeeps,
     FireTimerKeeps, WakeTimeoutKeeps, CallbackEndKeeps, WakeStutterKeeps
  DEF WakeNext, GrabStep, CallbackStep
-----------------------------------------------------------------------------
(* The wake lock as libril uses it: the steps of LibRil take the lock's own *)
(* steps, or leave it alone.                                                *)
LEMMA LoopIsSender == "loop" \in Senders
  BY DEF Senders

LEMMA StepMapsToWake == ASSUME [Next]_vars PROVE [WakeNext]_wakeVars
<1> USE LoopIsSender DEF WakeNext, GrabStep
<1>1. CASE TimerStep
  BY <1>1 DEF TimerStep
<1>2. CASE SocketStep
  BY <1>2 DEF SocketStep, ListenCallback, ListenCallbackRefuses,
      OnNewCommandConnect, SelectFails, SelectReadable, ProcessCommandBuffer,
      IssueLocalRequest, ProcessAcknowledgement, ReadAgain, CloseCommandSocket,
      ListenAgain, OnCommandsSocketClosed
<1>3. CASE FrameworkDies
  BY <1>3 DEF FrameworkDies
<1>4. ASSUME NEW t \in Senders, SendStep(t) PROVE [WakeNext]_wakeVars
  BY <1>4 DEF SendStep, OnRequestComplete, TestCancelled, OnUnsolicitedResponse,
      GrabGoesOn, BuildMessage, SendResponseRaw, BlockingWrite
<1>5. CASE UNCHANGED vars
  BY <1>5 DEF vars
<1> QED
  BY <1>1, <1>2, <1>3, <1>4, <1>5 DEF Next

(* libril's threads implement the protocol of the wake lock.                *)
THEOREM ImplementsWakeLock == Spec => WakeSpec
<1>1. Init => WakeInit
  BY DEF Init
<1>2. [Next]_vars => [WakeNext]_wakeVars
  BY StepMapsToWake
<1> QED
  BY <1>1, <1>2, PTL DEF Spec, WakeSpec

THEOREM WakeInvariant == WakeSpec => []WakeInv
<1>1. WakeInv /\ [WakeNext]_wakeVars => WakeInv'
  BY WakeStepKeeps
<1> QED
  BY WakeInitInv, <1>1, PTL DEF WakeSpec

(* A held wake lock has a timer that will let go of it (grabPartialWakeLock,*)
(* releaseWakeLock and userTimerCallback).                                  *)
THEOREM LockIsTimed == Spec => []HeldIsTimed
  BY ImplementsWakeLock, WakeInvariant, PTL DEF WakeInv

(* The count and the lock agree outside of s_wakeLockCountMutex.            *)
THEOREM CountAndLock == Spec => []CountTellsLock
  BY ImplementsWakeLock, WakeInvariant, PTL DEF WakeInv

(* s_last_wake_timeout_info never names a freed timer.                      *)
THEOREM TrackedLives == Spec => []TrackedTimerLives
  BY ImplementsWakeLock, WakeInvariant, PTL DEF WakeInv
-----------------------------------------------------------------------------
(* The socket and the list of pending requests.                             *)

(* The descriptor, the watch table and the step of the event thread agree.  *)
SocketInv ==
    /\ watched <=> fdCommand # 0
    /\ listening => fdCommand = 0
    /\ lpc \in {"closed", "mark"} => fdCommand = 0
    /\ lpc \in {"read", "greet"} => watched

(* Until it is answered a request is in the list or held by one thread.     *)
Unanswered(r) == answers[r] = <<>>

HolderInv ==
    /\ \A t \in Senders :
          /\ pc[t] = "idle" => cur[t] = "nothing"
          /\ pc[t] = "taken" => cur[t] \in Requests
          /\ pc[t] # "idle" => cur[t] # "nothing"
    /\ \A t \in Senders : cur[t] \in Requests =>
          /\ cur[t] \notin pending
          /\ Unanswered(cur[t])
          /\ \A u \in Senders : cur[u] = cur[t] => u = t
    /\ \A r \in pending : Unanswered(r)
    /\ \A r \in Requests : issued[r] = 0 /\ r \notin local =>
          /\ r \notin pending
          /\ Unanswered(r)
          /\ \A t \in Senders : cur[t] # r

ListInv ==
    /\ SocketTypeOK
    /\ SocketInv
    /\ HolderInv
    /\ AnsweredAtMostOnce
    /\ EarlierMarked

LEMMA ListInitInv == Init => ListInv
<1> USE LibRilAssumption DEF Init, Conns
<1>1. Init => SocketTypeOK
  <2> SUFFICES ASSUME Init PROVE SocketTypeOK
    OBVIOUS
  <2>1. answers \in [Requests -> Seq(Conns)]
    OBVIOUS
  <2>2. pc \in [Senders -> {"idle", "taken", "grab", "built", "send", "write"}]
    OBVIOUS
  <2>3. cur \in [Senders -> Requests \cup {"message", "nothing"}]
    OBVIOUS
  <2>4. fd \in [Senders -> Conns \cup {0}] /\ issued \in [Requests -> Conns \cup {0}]
    OBVIOUS
  <2>5. greetings \in 0 .. 2 /\ twice \in Nat /\ acksDue \in Nat
    OBVIOUS
  <2>6. open \in BOOLEAN /\ watched \in BOOLEAN /\ listening \in BOOLEAN
        /\ dead \in BOOLEAN
    BY Zenon
  <2>7. fdCommand \in Conns \cup {0} /\ conns \in Conns \cup {0}
    OBVIOUS
  <2>8. pending \subseteq Requests /\ cancelled \subseteq Requests
        /\ local \subseteq Requests /\ owned \subseteq Requests
    OBVIOUS
  <2>9. peer \in {"up", "gone"}
        /\ lpc \in {"select", "greet", "read", "closed", "mark"}
    OBVIOUS
  <2> QED
    BY ONLY <2>1, <2>2, <2>3, <2>4, <2>5, <2>6, <2>7, <2>8, <2>9
    DEF SocketTypeOK
<1>2. Init => SocketInv /\ HolderInv
  BY DEF SocketInv, HolderInv, Unanswered
<1>3. Init => AnsweredAtMostOnce /\ EarlierMarked
  BY DEF AnsweredAtMostOnce, EarlierMarked
<1> QED
  BY <1>1, <1>2, <1>3 DEF ListInv

(* The steps that concern neither the list nor the senders.                 *)
SocketOnly ==
    \/ TimerStep \/ FrameworkDies \/ SelectFails \/ SelectReadable
    \/ ReadAgain \/ CloseCommandSocket \/ ListenAgain \/ ListenCallback
    \/ ProcessAcknowledgement

LEMMA SocketOnlyKeeps == ASSUME ListInv, SocketOnly PROVE ListInv'
<1> USE LibRilAssumption DEF Conns, listVars, sendVars, sockVars, SocketOnly
<1>1. UNCHANGED <<pending, cancelled, issued, local, owned, twice,
                  pc, cur, fd, answers>>
  BY DEF TimerStep, FrameworkDies, SelectFails, SelectReadable, ReadAgain,
         CloseCommandSocket, ListenAgain, ListenCallback, ProcessAcknowledgement
<1>2. HolderInv' /\ AnsweredAtMostOnce'
  BY <1>1 DEF ListInv, HolderInv, Unanswered, AnsweredAtMostOnce
<1>3. SocketTypeOK'
  <2>1. /\ fdCommand' \in Conns \cup {0} /\ conns' \in Conns \cup {0}
        /\ greetings' \in 0 .. 2 /\ acksDue' \in Nat
    BY DEF ListInv, SocketTypeOK, TimerStep, FrameworkDies, SelectFails,
           SelectReadable, ReadAgain, CloseCommandSocket, ListenAgain,
           ListenCallback, ProcessAcknowledgement
  <2>2. /\ peer' \in {"up", "gone"}
        /\ lpc' \in {"select", "greet", "read", "closed", "mark"}
    BY DEF ListInv, SocketTypeOK, TimerStep, FrameworkDies, SelectFails,
           SelectReadable, ReadAgain, CloseCommandSocket, ListenAgain,
           ListenCallback, ProcessAcknowledgement
  <2>3. open' \in BOOLEAN /\ watched' \in BOOLEAN /\ listening' \in BOOLEAN
        /\ dead' \in BOOLEAN
    BY DEF ListInv, SocketTypeOK, TimerStep, FrameworkDies, SelectFails,
           SelectReadable, ReadAgain, CloseCommandSocket, ListenAgain,
           ListenCallback, ProcessAcknowledgement
  <2> QED
    BY <1>1, <2>1, <2>2, <2>3 DEF ListInv, SocketTypeOK
<1>4. SocketInv'
  BY DEF ListInv, SocketTypeOK, SocketInv, TimerStep, FrameworkDies, SelectFails,
      SelectReadable, ReadAgain, CloseCommandSocket, ListenAgain,
      ListenCallback, ProcessAcknowledgement
<1>5. EarlierMarked'
  <2>1. CASE ListenCallback
    <3>1. fdCommand = 0 /\ lpc = "select"
      BY <2>1 DEF ListenCallback, ListInv, SocketInv
    <3>2. \A r \in pending \ local : issued[r] # 0
      BY DEF ListInv, SocketTypeOK, HolderInv
    <3>3. \A r \in pending \ local : r \in cancelled
      BY <3>1, <3>2 DEF ListInv, EarlierMarked
    <3> QED
      BY <1>1, <3>3 DEF EarlierMarked
  <2>2. CASE ~ListenCallback
    BY <1>1, <2>2
    DEF ListInv, SocketInv, EarlierMarked, TimerStep, FrameworkDies,
        SelectFails, SelectReadable, ReadAgain, CloseCommandSocket, ListenAgain,
        ProcessAcknowledgement
  <2> QED
    BY <2>1, <2>2
<1> QED
  BY <1>2, <1>3, <1>4, <1>5 DEF ListInv

(* A request is listed once: its connection or its origin tells that it was *)
(* made.                                                                    *)
LEMMA NewRequestKeeps ==
  ASSUME ListInv, NEW r \in Requests,
         ProcessCommandBuffer(r) \/ IssueLocalRequest(r)
  PROVE  ListInv'
<1> USE LibRilAssumption DEF Conns, listVars, sendVars, sockVars
<1>1. /\ issued[r] = 0 /\ r \notin local
      /\ pending' = pending \cup {r} /\ owned' = owned \cup {r}
      /\ UNCHANGED <<fdCommand, open, peer, watched, listening, conns, lpc,
                     greetings, cancelled, twice, pc, cur, fd, answers,
                     acksDue, dead>>
  BY DEF ProcessCommandBuffer, IssueLocalRequest
<1>2. \/ /\ lpc = "read" /\ fdCommand # 0 /\ local' = local
         /\ issued' = [issued EXCEPT ![r] = fdCommand]
      \/ local' = local \cup {r} /\ issued' = issued
  BY DEF ProcessCommandBuffer, IssueLocalRequest, ListInv, SocketInv
<1>3. SocketTypeOK'
  <2>1. issued' \in [Requests -> Conns \cup {0}]
    BY <1>2 DEF ListInv, SocketTypeOK
  <2>2. /\ pending' \subseteq Requests /\ owned' \subseteq Requests
        /\ local' \subseteq Requests
    BY <1>1, <1>2 DEF ListInv, SocketTypeOK
  <2> QED
    BY <1>1, <2>1, <2>2 DEF ListInv, SocketTypeOK
<1>4. SocketInv' /\ AnsweredAtMostOnce'
  BY <1>1 DEF ListInv, SocketInv, AnsweredAtMostOnce
<1>5. r \notin pending /\ answers[r] = <<>> /\ \A t \in Senders : cur[t] # r
  BY <1>1 DEF ListInv, HolderInv, Unanswered
<1>6. HolderInv'
  BY <1>1, <1>2, <1>5 DEF ListInv, SocketTypeOK, HolderInv, Unanswered
<1>7. EarlierMarked'
  BY <1>1, <1>2 DEF ListInv, SocketTypeOK, EarlierMarked
<1> QED
  BY <1>3, <1>4, <1>6, <1>7 DEF ListInv

LEMMA MarkKeeps ==
  ASSUME ListInv, OnCommandsSocketClosed \/ ListenCallbackRefuses
  PROVE  ListInv'
<1> USE LibRilAssumption DEF Conns, listVars, sendVars, sockVars
<1>1. /\ cancelled' = cancelled \cup pending
      /\ lpc' = "select"
      /\ UNCHANGED <<fdCommand, open, peer, watched, listening, conns,
                     greetings, pending, issued, local, owned, twice, pc, cur,
                     fd, answers, acksDue, dead>>
  BY DEF OnCommandsSocketClosed, ListenCallbackRefuses
<1>2. SocketTypeOK' /\ SocketInv'
  BY <1>1 DEF ListInv, SocketTypeOK, SocketInv
<1>3. HolderInv' /\ AnsweredAtMostOnce' /\ EarlierMarked'
  BY <1>1 DEF ListInv, HolderInv, Unanswered, AnsweredAtMostOnce, EarlierMarked
<1> QED
  BY <1>2, <1>3 DEF ListInv

(* A request leaves the list into the hands of one thread.                  *)
LEMMA CompleteKeeps ==
  ASSUME ListInv, NEW t \in Senders, NEW r \in Requests, OnRequestComplete(t, r)
  PROVE  ListInv'
<1> USE LibRilAssumption DEF Conns, listVars, sendVars, sockVars
<1>1. /\ pc[t] = "idle"
      /\ owned' = owned \ {r} /\ twice' \in {twice, twice + 1}
      /\ UNCHANGED <<fdCommand, open, peer, watched, listening, conns, lpc,
                     greetings, cancelled, issued, local, fd, answers,
                     acksDue, dead>>
  BY DEF OnRequestComplete
<1>2. SocketInv' /\ AnsweredAtMostOnce'
  BY <1>1 DEF ListInv, SocketInv, AnsweredAtMostOnce
<1>3. CASE r \in pending
  <2>1. /\ pending' = pending \ {r}
        /\ pc' = [pc EXCEPT ![t] = "taken"]
        /\ cur' = [cur EXCEPT ![t] = r]
    BY <1>3 DEF OnRequestComplete
  <2>2. SocketTypeOK'
    BY <1>1, <2>1 DEF ListInv, SocketTypeOK
  <2>3. \A u \in Senders : cur[u] # r
    BY <1>3 DEF ListInv, SocketTypeOK, HolderInv
  <2>4. Unanswered(r) /\ (issued[r] # 0 \/ r \in local)
    BY <1>3 DEF ListInv, SocketTypeOK, HolderInv
  <2>5. HolderInv'
    BY <1>1, <2>1, <2>3, <2>4 DEF ListInv, SocketTypeOK, HolderInv, Unanswered
  <2>6. EarlierMarked'
    BY <1>1, <2>1 DEF ListInv, EarlierMarked
  <2> QED
    BY <1>2, <2>2, <2>5, <2>6 DEF ListInv
<1>4. CASE r \notin pending
  <2>1. UNCHANGED <<pending, pc, cur>>
    BY <1>4 DEF OnRequestComplete
  <2>2. SocketTypeOK'
    BY <1>1, <2>1 DEF ListInv, SocketTypeOK
  <2>3. HolderInv' /\ EarlierMarked'
    BY <1>1, <2>1 DEF ListInv, HolderInv, Unanswered, EarlierMarked
  <2> QED
    BY <1>2, <2>2, <2>3 DEF ListInv
<1> QED
  BY <1>3, <1>4

(* A sender goes on with what it holds, or lets go of it unanswered.        *)
SenderOnly(t) ==
    /\ \/ cur' = cur
       \/ cur[t] = "nothing" /\ cur' = [cur EXCEPT ![t] = "message"]
       \/ cur' = [cur EXCEPT ![t] = "nothing"]
    /\ \E p \in {"idle", "taken", "grab", "built", "send", "write"} :
          /\ pc' = [pc EXCEPT ![t] = p]
          /\ p = "idle" <=> cur'[t] = "nothing"
          /\ p # "taken"
    /\ UNCHANGED <<fdCommand, peer, watched, listening, conns, lpc,
                   pending, cancelled, issued, local, owned, twice, dead>>

LEMMA SenderOnlyKeeps ==
  ASSUME ListInv, NEW t \in Senders, SenderOnly(t),
         UNCHANGED answers,
         open' \in BOOLEAN, greetings' \in 0 .. 2, acksDue' \in Nat,
         fd' \in [Senders -> Conns \cup {0}]
  PROVE  ListInv'
<1> USE LibRilAssumption
<1>1. /\ cur' \in [Senders -> Requests \cup {"message", "nothing"}]
      /\ pc' \in [Senders -> {"idle", "taken", "grab", "built", "send", "write"}]
  BY DEF ListInv, SocketTypeOK, SenderOnly
<1>2. SocketTypeOK'
  BY <1>1 DEF ListInv, SocketTypeOK, SenderOnly
<1>3. SocketInv' /\ AnsweredAtMostOnce' /\ EarlierMarked'
  BY DEF ListInv, SocketInv, AnsweredAtMostOnce, EarlierMarked, SenderOnly
<1>4. \A u \in Senders : cur'[u] \in Requests => cur'[u] = cur[u]
  BY DEF ListInv, SocketTypeOK, SenderOnly
<1>5. \A u \in Senders :
          /\ pc'[u] = "idle" => cur'[u] = "nothing"
          /\ pc'[u] = "taken" => cur'[u] \in Requests
          /\ pc'[u] # "idle" => cur'[u] # "nothing"
  BY DEF ListInv, SocketTypeOK, HolderInv, SenderOnly
<1>6. HolderInv'
  BY <1>4, <1>5 DEF ListInv, HolderInv, Unanswered, SenderOnly
<1> QED
  BY <1>2, <1>3, <1>6 DEF ListInv

LEMMA SendersGoOn ==
  ASSUME ListInv, NEW t \in Senders,
         \/ TestCancelled(t) \/ OnUnsolicitedResponse(t) \/ GrabGoesOn(t)
         \/ BuildMessage(t) \/ SendResponseRaw(t)
  PROVE  ListInv'
<1> USE LibRilAssumption DEF sockVars, listVars
<1>1. /\ UNCHANGED answers
      /\ open' \in BOOLEAN /\ greetings' \in 0 .. 2 /\ acksDue' \in Nat
  BY DEF ListInv, SocketTypeOK, TestCancelled, OnUnsolicitedResponse,
         GrabGoesOn, BuildMessage, SendResponseRaw
<1>2. fd' \in [Senders -> Conns \cup {0}]
  BY DEF ListInv, SocketTypeOK, TestCancelled, OnUnsolicitedResponse,
         GrabGoesOn, BuildMessage, SendResponseRaw
<1>3. SenderOnly(t)
  <2>1. CASE TestCancelled(t)
    BY <2>1 DEF TestCancelled, SenderOnly, ListInv, HolderInv, SocketTypeOK
  <2>2. CASE OnUnsolicitedResponse(t)
    BY <2>2 DEF OnUnsolicitedResponse, SenderOnly, ListInv, HolderInv, SocketTypeOK
  <2>3. CASE GrabGoesOn(t)
    BY <2>3 DEF GrabGoesOn, SenderOnly, ListInv, HolderInv, SocketTypeOK
  <2>4. CASE BuildMessage(t)
    BY <2>4 DEF BuildMessage, SenderOnly, ListInv, HolderInv, SocketTypeOK
  <2>5. CASE SendResponseRaw(t)
    BY <2>5 DEF SendResponseRaw, SenderOnly, ListInv, HolderInv, SocketTypeOK
  <2> QED
    BY <2>1, <2>2, <2>3, <2>4, <2>5
<1> QED
  BY <1>1, <1>2, <1>3, SenderOnlyKeeps

LEMMA GreetingKeeps == ASSUME ListInv, OnNewCommandConnect PROVE ListInv'
<1> USE LibRilAssumption DEF listVars
<1>1. CASE pc' = pc
  <2>1. /\ greetings' = 0 /\ lpc' = "select" /\ lpc = "greet"
        /\ UNCHANGED <<fdCommand, open, peer, watched, listening, conns, pending,
             cancelled, issued, local, owned, twice, pc, cur, fd, answers,
             acksDue, dead>>
    BY <1>1, LoopIsSender DEF OnNewCommandConnect, ListInv, SocketTypeOK
  <2>2. SocketTypeOK' /\ SocketInv'
    BY <2>1 DEF ListInv, SocketTypeOK, SocketInv
  <2>3. HolderInv' /\ AnsweredAtMostOnce' /\ EarlierMarked'
    BY <2>1
    DEF ListInv, HolderInv, Unanswered, AnsweredAtMostOnce, EarlierMarked
  <2> QED
    BY <2>2, <2>3 DEF ListInv
<1>2. CASE pc' # pc
  <2>1. /\ UNCHANGED <<answers, open, acksDue, fd>> /\ greetings' \in 0 .. 2
    BY <1>2 DEF OnNewCommandConnect, ListInv, SocketTypeOK
  <2>2. SenderOnly("loop")
    BY <1>2, LoopIsSender
    DEF OnNewCommandConnect, SenderOnly, ListInv, HolderInv, SocketTypeOK
  <2> QED
    BY <2>1, <2>2, LoopIsSender, SenderOnlyKeeps DEF ListInv, SocketTypeOK
<1> QED
  BY <1>1, <1>2

(* The answer of a request is written by the thread that took it, which     *)
(* lets go of it.                                                           *)
LEMMA WriteKeeps ==
  ASSUME ListInv, NEW t \in Senders, BlockingWrite(t) PROVE ListInv'
<1> USE LibRilAssumption DEF listVars
<1>1. /\ pc[t] = "write" /\ cur[t] # "nothing"
      /\ SenderOnly(t) /\ cur' = [cur EXCEPT ![t] = "nothing"]
      /\ fd' \in [Senders -> Conns \cup {0}]
      /\ greetings' \in 0 .. 2 /\ UNCHANGED <<peer, lpc>>
  BY DEF BlockingWrite, SenderOnly, ListInv, HolderInv, SocketTypeOK
<1>2. CASE UNCHANGED answers
  <2>1. open' \in BOOLEAN
    BY Zenon DEF BlockingWrite, WriteFails, Delivered, ListInv, SocketTypeOK
  <2>2. acksDue' \in Nat
    BY DEF BlockingWrite, WriteFails, Delivered, ListInv, SocketTypeOK
  <2> QED
    BY <1>1, <1>2, <2>1, <2>2, SenderOnlyKeeps
<1>3. CASE answers' # answers
  <2>1. PICK c \in Conns : Delivered(t, c) /\ cur[t] # "message"
    BY <1>3 DEF BlockingWrite, WriteFails, Delivered
  <2>2. /\ answers' = [answers EXCEPT ![cur[t]] = Append(@, c)]
        /\ UNCHANGED <<acksDue, open>>
    BY <2>1 DEF Delivered
  <2>3. PICK q \in Requests : q = cur[t]
    BY <1>1, <2>1 DEF ListInv, SocketTypeOK
  <2>4. /\ answers[q] = <<>> /\ q \notin pending
        /\ \A u \in Senders : cur[u] = q => u = t
        /\ issued[q] # 0 \/ q \in local
    BY <2>3 DEF ListInv, HolderInv, Unanswered, SocketTypeOK
  <2>5. /\ answers' \in [Requests -> Seq(Conns)]
        /\ Len(answers'[q]) <= 1
        /\ \A p \in Requests : p # q => answers'[p] = answers[p]
    BY <2>2, <2>3, <2>4 DEF ListInv, SocketTypeOK
  <2>6. SocketTypeOK'
    BY <1>1, <2>2, <2>5 DEF ListInv, SocketTypeOK, SenderOnly
  <2>7. SocketInv' /\ EarlierMarked'
    BY <1>1 DEF ListInv, SocketInv, EarlierMarked, SenderOnly
  <2>8. AnsweredAtMostOnce'
    <3> SUFFICES ASSUME NEW p \in Requests PROVE Len(answers'[p]) <= 1
      BY DEF AnsweredAtMostOnce
    <3>1. CASE p = q
      BY <2>5, <3>1
    <3>2. CASE p # q
      BY <2>5, <3>2 DEF ListInv, AnsweredAtMostOnce
    <3> QED
      BY <3>1, <3>2
  <2>9. \A u \in Senders : u # t => cur'[u] = cur[u] /\ cur[u] # q
    BY <1>1, <2>4 DEF ListInv, SocketTypeOK
  <2>10. cur'[t] = "nothing" /\ "nothing" \notin Requests
    BY <1>1 DEF ListInv, SocketTypeOK
  <2>11. \A u \in Senders :
          /\ pc'[u] = "idle" => cur'[u] = "nothing"
          /\ pc'[u] = "taken" => cur'[u] \in Requests
          /\ pc'[u] # "idle" => cur'[u] # "nothing"
    BY <1>1 DEF ListInv, SocketTypeOK, HolderInv, SenderOnly
  <2>12. UNCHANGED <<pending, issued, local>>
    BY <1>1 DEF SenderOnly
  <2>13. \A u \in Senders : cur'[u] \in Requests =>
            u # t /\ cur[u] = cur'[u] /\ answers'[cur'[u]] = answers[cur[u]]
    BY <2>5, <2>9, <2>10
  <2>14. \A u \in Senders : cur'[u] \in Requests =>
            /\ cur'[u] \notin pending'
            /\ answers'[cur'[u]] = <<>>
            /\ \A v \in Senders : cur'[v] = cur'[u] => v = u
    BY <2>9, <2>10, <2>12, <2>13 DEF ListInv, HolderInv, Unanswered
  <2>15. \A p \in pending' : answers'[p] = <<>>
    BY <2>4, <2>5, <2>12 DEF ListInv, SocketTypeOK, HolderInv, Unanswered
  <2>16. \A p \in Requests : issued'[p] = 0 /\ p \notin local' =>
            /\ p \notin pending'
            /\ answers'[p] = <<>>
            /\ \A u \in Senders : cur'[u] # p
    BY <2>4, <2>5, <2>9, <2>10, <2>12
    DEF ListInv, SocketTypeOK, HolderInv, Unanswered
  <2>17. HolderInv'
    BY <2>11, <2>14, <2>15, <2>16 DEF HolderInv, Unanswered
  <2> QED
    BY <2>6, <2>7, <2>8, <2>17 DEF ListInv
<1> QED
  BY <1>2, <1>3

THEOREM ListInvariant == Spec => []ListInv
<1>1. ListInv /\ [Next]_vars => ListInv'
  <2> SUFFICES ASSUME ListInv, [Next]_vars PROVE ListInv'
    OBVIOUS
  <2>1. CASE TimerStep \/ FrameworkDies
    BY <2>1, SocketOnlyKeeps DEF SocketOnly
  <2>2. CASE SocketStep
    BY <2>2, SocketOnlyKeeps, NewRequestKeeps, MarkKeeps, GreetingKeeps
    DEF SocketStep, SocketOnly
  <2>3. ASSUME NEW t \in Senders, SendStep(t) PROVE ListInv'
    BY <2>3, CompleteKeeps, SendersGoOn, WriteKeeps DEF SendStep
  <2>4. CASE UNCHANGED vars
    <3>1. SocketTypeOK' /\ SocketInv'
      BY <2>4 DEF vars, sockVars, listVars, sendVars, ListInv, SocketTypeOK,
                  SocketInv
    <3>2. HolderInv' /\ AnsweredAtMostOnce' /\ EarlierMarked'
      BY <2>4 DEF vars, sockVars, listVars, sendVars, ListInv, HolderInv,
                  Unanswered, AnsweredAtMostOnce, EarlierMarked
    <3> QED
      BY <3>1, <3>2 DEF ListInv
  <2> QED
    BY <2>1, <2>2, <2>3, <2>4 DEF Next
<1> QED
  BY ListInitInv, <1>1, PTL DEF Spec

(* The types of libril's state.                                             *)
THEOREM LibRilTypeCorrect == Spec => []TypeOK
<1>1. WakeInv /\ ListInv => TypeOK
  BY DEF WakeInv, ListInv, TypeOK
<1> QED
  BY <1>1, ImplementsWakeLock, WakeInvariant, ListInvariant, PTL

(* RIL_onRequestComplete answers a request at most once, though tokens are  *)
(* completed by several threads and may be completed again.                 *)
THEOREM OneAnswer == Spec => []AnsweredAtMostOnce
<1>1. ListInv => AnsweredAtMostOnce
  BY DEF ListInv
<1> QED
  BY <1>1, ListInvariant, PTL

(* onCommandsSocketClosed leaves no request of an earlier connection        *)
(* unmarked when the event thread is back at select.                        *)
THEOREM EarlierAreMarked == Spec => []EarlierMarked
<1>1. ListInv => EarlierMarked
  BY DEF ListInv
<1> QED
  BY <1>1, ListInvariant, PTL

=============================================================================
