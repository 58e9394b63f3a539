------------------------------ MODULE WakeLock ------------------------------
(***************************************************************************)
(* The wake lock of libril (libril/ril.cpp).  A message the framework must  *)
(* act upon is sent under a partial wake lock: the framework acknowledges   *)
(* the message and libril lets go of the lock, or a timer of 200 ms does.   *)
(* Any thread takes the lock; timers run on the event thread.  The last     *)
(* timer is remembered in s_last_wake_timeout_info so that the next message *)
(* can call it off; that variable has no mutex of its own, and the event    *)
(* thread clears it, and frees the timer, without the mutex of the count.   *)
(*                                                                          *)
(* This is the protocol of RIL version 13 and later, which counts.          *)
(***************************************************************************)
EXTENDS Naturals

CONSTANTS
    Threads,   \* the threads of the RIL that send messages
    MaxTimers  \* bound: messages sent under the lock

(* The event thread sends messages too, when the framework connects.        *)
Senders == Threads \cup {"loop"}
Timers  == 1 .. MaxTimers

ASSUME WakeLockAssumption ==
    /\ {"loop", "nobody"} \cap Threads = {}
    /\ MaxTimers \in Nat

VARIABLES
    held,        \* the kernel's wake lock is held
    count,       \* s_wakelock_count
    lockOwner,   \* the owner of s_wakeLockCountMutex
    tracked,     \* s_last_wake_timeout_info: a timer, or 0 for NULL
    timer,       \* per timer: "unused", "armed", "fired" or "freed"
    calledOff,   \* per timer: its userParam is not NULL
    gpc,         \* per sender: its step of grabPartialWakeLock
    mine,        \* per sender: the timer it has made
    seen,        \* per sender: what it read of tracked
    fpc,         \* the step of userTimerCallback
    firing,      \* the timer whose callback runs
    param        \* the userParam the callback was called with

grabVars == <<gpc, mine, seen>>
fireVars == <<fpc, firing, param>>
wakeVars == <<held, count, lockOwner, tracked, timer, calledOff,
              grabVars, fireVars>>

WakeInit ==
    /\ held = FALSE
    /\ count = 0
    /\ lockOwner = "nobody"
    /\ tracked = 0
    /\ timer = [i \in Timers |-> "unused"]
    /\ calledOff = [i \in Timers |-> FALSE]
    /\ gpc = [t \in Senders |-> "out"]
    /\ mine = [t \in Senders |-> 0]
    /\ seen = [t \in Senders |-> 0]
    /\ fpc = "none"
    /\ firing = 0
    /\ param = FALSE
-----------------------------------------------------------------------------
(* grabPartialWakeLock.                                                     *)

(* The lock is acquired and its timer started, under the mutex.             *)
GrabPartialWakeLock(t) ==
    /\ gpc[t] = "out"
    /\ t = "loop" => fpc = "none"
    /\ lockOwner = "nobody"
    /\ \E i \in Timers :
          /\ timer[i] = "unused"
          /\ \A j \in Timers : j < i => timer[j] # "unused"
          /\ timer' = [timer EXCEPT ![i] = "armed"]
          /\ mine' = [mine EXCEPT ![t] = i]
    /\ held' = TRUE
    /\ lockOwner' = t
    /\ gpc' = [gpc EXCEPT ![t] = "made"]
    /\ UNCHANGED <<count, tracked, calledOff, seen, fireVars>>

(* The count, and the test for a timer to call off.                         *)
CountMessage(t) ==
    /\ gpc[t] = "made"
    /\ count' = count + 1
    /\ seen' = [seen EXCEPT ![t] = tracked]
    /\ gpc' = [gpc EXCEPT ![t] = "counted"]
    /\ UNCHANGED <<held, lockOwner, tracked, timer, calledOff, mine, fireVars>>

(* Mutant: the timer of this message is called off, not the previous one.   *)
TrackTimerOwn(t) ==
    /\ gpc[t] = "counted"
    /\ calledOff' = [calledOff EXCEPT ![mine[t]] = TRUE]
    /\ tracked' = mine[t]
    /\ lockOwner' = "nobody"
    /\ gpc' = [gpc EXCEPT ![t] = "out"]
    /\ mine' = [mine EXCEPT ![t] = 0]
    /\ seen' = [seen EXCEPT ![t] = 0]
    /\ UNCHANGED <<held, count, timer, fireVars>>

(* Calls the previous timer off and remembers its own.  The event thread    *)
(* may have cleared the pointer after it was tested: the build may use the  *)
(* value it read or read it again.  (A NULL read again ends the process, of *)
(* which nothing is said here; a write into a freed timer has no effect.)   *)
TrackTimer(t) ==
    /\ gpc[t] = "counted"
    /\ \/ /\ seen[t] = 0
          /\ UNCHANGED calledOff
       \/ \E i \in {seen[t], tracked} \ {0} :
             /\ seen[t] # 0
             /\ calledOff' = [calledOff EXCEPT ![i] = TRUE]
    /\ tracked' = mine[t]
    /\ lockOwner' = "nobody"
    /\ gpc' = [gpc EXCEPT ![t] = "out"]
    /\ mine' = [mine EXCEPT ![t] = 0]
    /\ seen' = [seen EXCEPT ![t] = 0]
    /\ UNCHANGED <<held, count, timer, fireVars>>

(* Mutant: the count is taken down whatever it is.                          *)
ReleaseWakeLockUnder(t) ==
    /\ gpc[t] = "out"
    /\ t = "loop" => fpc = "none"
    /\ lockOwner = "nobody"
    /\ count' = count - 1
    /\ held' = (count > 1)
    /\ UNCHANGED <<calledOff, lockOwner, tracked, timer, grabVars, fireVars>>

(* Mutant: the lock outlives the count.                                     *)
ReleaseWakeLockLate(t) ==
    /\ gpc[t] = "out"
    /\ lockOwner = "nobody"
    /\ count' = IF count > 0 THEN count - 1 ELSE 0
    /\ UNCHANGED <<held, calledOff, lockOwner, tracked, timer, grabVars, fireVars>>

(* releaseWakeLock: the last acknowledgement lets go of the lock and calls  *)
(* its timer off.                                                           *)
ReleaseWakeLock(t) ==
    /\ gpc[t] = "out"
    /\ t = "loop" => fpc = "none"
    /\ lockOwner = "nobody"
    /\ \/ /\ count > 1
          /\ count' = count - 1
          /\ UNCHANGED <<held, calledOff>>
       \/ /\ count <= 1
          /\ count' = 0
          /\ held' = FALSE
          /\ calledOff' = [i \in Timers |-> calledOff[i] \/ i = tracked]
    /\ UNCHANGED <<lockOwner, tracked, timer, grabVars, fireVars>>
-----------------------------------------------------------------------------
(* userTimerCallback, on the event thread.                                  *)

(* Timers all run 200 ms: they expire in the order they were started.       *)
FireTimer ==
    /\ fpc = "none"
    /\ gpc["loop"] = "out"
    /\ \E i \in Timers :
          /\ timer[i] = "armed"
          /\ \A j \in Timers : j < i => timer[j] # "armed"
          /\ timer' = [timer EXCEPT ![i] = "fired"]
          /\ firing' = i
          /\ param' = calledOff[i]
    /\ fpc' = "called"
    /\ UNCHANGED <<held, count, lockOwner, tracked, calledOff, grabVars>>

(* Mutant: a timer that was called off is forgotten in the list.            *)
WakeTimeoutForgets ==
    /\ fpc = "called"
    /\ fpc' = "tested"
    /\ UNCHANGED <<held, count, lockOwner, tracked, timer, calledOff, grabVars,
                   firing, param>>

(* wakeTimeoutCallback lets go of the lock unless it was called off when    *)
(* the timer fired.                                                         *)
WakeTimeout ==
    /\ fpc = "called"
    /\ \/ /\ param
          /\ UNCHANGED <<held, count>>
       \/ /\ ~param
          /\ lockOwner = "nobody"
          /\ held' = FALSE
          /\ count' = 0
    /\ fpc' = "tested"
    /\ UNCHANGED <<lockOwner, tracked, timer, calledOff, grabVars,
                   firing, param>>

(* Mutant: the timer is freed without a look at the pointer to it.          *)
TestTrackedNever ==
    /\ fpc = "tested"
    /\ fpc' = "free"
    /\ UNCHANGED <<held, count, lockOwner, tracked, timer, calledOff, grabVars,
                   firing, param>>

TestTracked ==
    /\ fpc = "tested"
    /\ fpc' = IF tracked = firing THEN "clear" ELSE "free"
    /\ UNCHANGED <<held, count, lockOwner, tracked, timer, calledOff, grabVars,
                   firing, param>>

(* The pointer may be another thread's by now.                              *)
ClearTracked ==
    /\ fpc = "clear"
    /\ tracked' = 0
    /\ fpc' = "free"
    /\ UNCHANGED <<held, count, lockOwner, timer, calledOff, grabVars,
                   firing, param>>

FreeTimer ==
    /\ fpc = "free"
    /\ timer' = [timer EXCEPT ![firing] = "freed"]
    /\ fpc' = "none"
    /\ firing' = 0
    /\ param' = FALSE
    /\ UNCHANGED <<held, count, lockOwner, tracked, calledOff, grabVars>>
-----------------------------------------------------------------------------
GrabStep(t) == GrabPartialWakeLock(t) \/ CountMessage(t) \/ TrackTimer(t)

CallbackStep == WakeTimeout \/ TestTracked \/ ClearTracked \/ FreeTimer

WakeNext ==
    \/ \E t \in Senders : GrabStep(t) \/ ReleaseWakeLock(t)
    \/ FireTimer
    \/ CallbackStep

WakeSpec == WakeInit /\ [][WakeNext]_wakeVars

WakeTypeOK ==
    /\ held \in BOOLEAN
    /\ count \in Nat
    /\ lockOwner \in Senders \cup {"nobody"}
    /\ tracked \in Timers \cup {0}
    /\ timer \in [Timers -> {"unused", "armed", "fired", "freed"}]
    /\ calledOff \in [Timers -> BOOLEAN]
    /\ gpc \in [Senders -> {"out", "made", "counted"}]
    /\ mine \in [Senders -> Timers \cup {0}]
    /\ seen \in [Senders -> Timers \cup {0}]
    /\ fpc \in {"none", "called", "tested", "clear", "free"}
    /\ firing \in Timers \cup {0}
    /\ param \in BOOLEAN

(* A timer will let go of the lock: it is armed and was not called off, or  *)
(* its callback is about to do so.                                          *)
WillRelease(i) ==
    \/ timer[i] = "armed" /\ ~calledOff[i]
    \/ timer[i] = "fired" /\ fpc = "called" /\ firing = i /\ ~param

(* The phone is never kept awake by a message the framework does not        *)
(* acknowledge: whatever the senders, the acknowledgements and the event    *)
(* thread interleave, a held lock has a timer that will let go of it.       *)
HeldIsTimed == held => \E i \in Timers : WillRelease(i)

(* The count tells the lock: outside of the mutex it is positive exactly    *)
(* while the lock is held (grab, release and timeout all write both).       *)
CountTellsLock == lockOwner = "nobody" => (held <=> count > 0)

(* s_last_wake_timeout_info never names a freed timer, though it is set     *)
(* after the timer was started and cleared without a mutex.                 *)
TrackedTimerLives == tracked # 0 => timer[tracked] \in {"armed", "fired"}
=============================================================================
