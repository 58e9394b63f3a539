# A TLA+ model of the Rapid RIL (Motorola smi)

The repository is an Android device tree. Most of it is configuration, prebuilt
libraries and thin HAL wrappers; its one large program is the *Rapid RIL*
(`src/modules/ril/rapid_ril`), the radio daemon's vendor part: it takes requests
from the telephony framework through `libril`, turns them into AT commands on a
set of multiplexed serial channels, and follows the modem manager (MMGR) through
the modem's resets. It runs two threads per channel, the framework's thread, the
MMGR's event thread and a worker of its own, and these share queues, events and
flags. `libril` itself (`src/modules/ril/libril`) adds an event thread, a list of
pending requests and a wake lock that any of these threads takes. That is what
these modules are about.

Paths below are relative to `src/modules/ril/rapid_ril/CORE/` unless they begin
with `libril/`.

## Inventory

| component | state it keeps | operations | hard behaviour | what makes it correct |
|---|---|---|---|---|
| AT channel (`ND/channel_nd.cpp`, `channelbase.*`) | Rx queue and event, `m_bCmdThreadBlockedOnRxQueue`, response buffer | `SendCommand`, `GetResponse`, `HandleTimeout`, `WaitForResponse`, `ReadQueue`, `ProcessResponse` | two threads, timeouts, retries, late answers | one completion per command, its own answer, no sleep over a response |
| modem life cycle (`ND/reset.cpp`, `ND/systemmanager.cpp`, `ND/MODEMS/initializer.cpp`) | last event, spoof mode, initialised flag, queues, ports, worker and its queue | `ModemManagerEventHandler`, `QueueWork`, the nodes' `Execute`, `RequestModemRestart` | three kinds of threads, failing initialisation, events in bursts | events in order, acknowledged after closing, the RIL ends up serving, spoofing or recovering |
| request path (`ND/rildmain.cpp`, `ND/te.cpp`, `command.cpp`, `channelbase.cpp`) | Tx queue and event, the command in hand, the token | `onRequest`, `HandleRequest`, `AddCmdToQueue`, `CommandThread`, `IsRequestAllowed`, `CompleteIdenticalRequests` | check-then-use of the initialisation, queues deleted and made again | one completion per token, no command left lying |
| radio power (`ND/te_base.cpp`, `ND/radio_state.cpp`, `callbacks.cpp`) | radio state, pending and requested power, off reason, three events | `CoreRadioPower`, `HandleShutdownReq`, `PostRadioPower`, `triggerRadioOffInd`, the basic initialisation | waits without a timeout on the only request thread, on events that other threads reset, signal and delete | the request thread comes back; ON means this modem was powered on |
| data calls (`channel_data.*`, `ND/MODEMS/te_xmm6260.cpp`, `ND/te_base.cpp`, `ND/silo_network.cpp`) | context ID, state, reference count, interface and blocked read thread per data channel; queues, timers | setup (four chained commands), deactivate, `DataConfigDown`, `ParseCGEV` | five kinds of threads, each of which finds its channel anew by an ID that is used again | one setup per channel, no context lost, a reported call is up, one completion per token |
| `libril` (`libril/ril.cpp`, `ril_event.cpp`) | pending requests, sockets, wake lock, its count and timers | dispatch, `RIL_onRequestComplete`, `RIL_onUnsolicitedResponse`, `grabPartialWakeLock`, `userTimerCallback`, connect and disconnect | any thread sends while the event thread closes the socket, fires and frees timers | one answer per request, the wake lock always let go |
| queue (`rilqueue.h`) | linked list, mutex | `Enqueue`, `Dequeue`, `DequeueByObj`, `MakeEmpty` | a return with the mutex held | a sequence with priorities, no duplicate |
| events (`ND/sync_ops.cpp`) | signalled flag, waiters | `Signal`, `Reset`, `Wait`, `WaitForAnyEvent` | a signal between registration and wait, a timeout against a signal | no signal lost, except by a `Reset` |
| modem initialisation (`ND/MODEMS/initializer.cpp`, `cmdcontext.cpp`) | completed stages per channel, four startup events | `SendModemInitCommands`, `TriggerInitStringCompleteEvent`, init thread | all channels complete at once, thread not joined | each stage continued once |
| DTMF (`ND/te.cpp`) | tone state, queued tones | `IsRequestAllowed`, post handlers | state changed by two threads | start and stop alternate |
| USAT state machine (`usat_*.cpp`) | current state object | `PassToNextEvent` | objects deleted in their own handler | - |
| PIN cache (`ND/reset.cpp`) | system properties | store, decrypt, clear | retries after a modem crash | - |
| silos, parsers, request handlers | none to speak of | text in, structures out | formats | - |

They interact by shared state more than by messages: the MMGR's events change
spoof mode and the initialised flag, which the request path tests; the life cycle
creates and deletes the queues and events between which the request path, the radio
power and the channels work; every thread that meets a failure calls
`RequestModemRestart` (`DO_REQUEST_CLEAN_UP`), which changes the same two flags and
asks the MMGR for a recovery, which comes back as events. Data calls are chains of
ordinary commands over the same queues. Every completion and notification ends in
`libril`, on the thread that has it.

`PROJECT.json` lists every component with its status, and the hazards each at its
line.

## Modules

| module | what it is |
|---|---|
| `AtChannel` | one channel: command thread, response thread, port, modem |
| `ChannelService` | what a channel promises: commands taken once, written a bounded number of times, completed once |
| `AtChannelMC` | `AtChannel` for TLC |
| `AtChannelProofs` | theorems about `AtChannel`, among them that it implements `ChannelService` |
| `ModemReset` | the modem's life cycle: MMGR events, worker, nodes, clean-up requests |
| `ModemResetProofs` | types and order of the life cycle, what is cleaned up after a modem that leaves the up state, and that an up modem is served or recovered |
| `ModemStopProofs` | that the threads are stopped before the queues are freed and before the MMGR is answered |
| `RequestPath` | a request's way, composed with `ModemReset` |
| `RequestPathProofs` | theorems about `RequestPath` |
| `RadioPower` | `RADIO_POWER` and `SHUTDOWN`, composed with `ModemReset` |
| `RadioPowerProofs` | theorems about `RadioPower`, and that those about the life cycle survive in it |
| `WakeLock` | the wake lock of `libril`, with its timers: a specification of its own |
| `LibRil` | `libril`: connections, requests, messages; its steps include those of `WakeLock` |
| `LibRilProofs` | theorems about `LibRil`, among them that it implements `WakeLock` |
| `DataCalls` | packet data calls on an XMM6260 |
| `DataCallsProofs` | types, tokens and owners of contexts |
| `DataKeptProofs` | that no context is lost |

### AtChannel

`pc` is where the command thread is. `ReadQueue` is called from five places; its
four steps (`check`, `register`/`wait`, `dequeue`, `reset`) are actions of their
own, because the response thread may step in between, and `stage` says which call
it is; `ReadReturns` hands the outcome back to that caller. `rt` is where the
response thread is: from `claimed` on it holds `m_pResponseObjectAccessMutex`, which
on the other side only the preparation of the first write takes. `Retry`, `WaitOn`,
`NoRetryLeft` and `AttemptEnds` are the four ways out of an attempt.

What the model keeps exactly because the code depends on it:

- the Rx event is auto-reset, is reset again after a successful read only, and is
  not reset when the queue is emptied;
- a failed read leaves `rpResponse` as it was (`ReadResponse`), and both
  `GetResponse` and `WaitForResponse` look at that old response;
- `WaitForAnyEvent` looks at the events in order when it registers, but when it
  sleeps the first signal wins; its timeout may win against a signal, which stays.

Abstracted: a line is a record, complete when read; the modem answers lines in
order, with success or failure, or ignores one. The text, the corrupt-response flag
and read errors are left out.

### ModemReset

`hpc` and `hnode` are the event thread, `worker`, `running`, `startLock` and
`resetQueue` are `CDeferThread`, `xpc[t]` is the step of the node that executor `t`
(event thread or worker) executes, `rpc[t]` the step of thread `t` in
`RequestModemRestart`. A node is what `ModemManagerEventHandler` built it with
(`NodeFor`): the decision is taken when the event comes, from the previous event,
and executed later. Each change of shared state inside a node is one action.
`m_pSystemManagerMutex` and the ports mutex need no variable: only nodes take them,
and `InEventOrder` shows that two nodes never execute at once.

### RequestPath

`mpc` is libril's request thread (there is one), `cpc` the command thread of one
channel. Each step of `ModemReset` is taken together with `FollowLifeCycle`: what it
does to this channel's queue and thread. `FollowLifeCycle` lets a step that stops
the threads wait until the command thread has left. `lost` collects the commands
deleted with their queue; `dead` is the process that used a queue that is gone
(`EnqueueNowhere`). `SendCommand` is one step, which the refinement of
`ChannelService` and `EveryCommandEnds` justify. The ids in `Identical` stand for the
requests whose handler completes the queued commands of the same kind: from a copy of the
queue (`CopyQueued`), one by one (`CompleteIdentical`), while the main thread queues
others. A copied command is always still queued, because no other thread takes from the
queue; the code's test for it (`channel_nd.cpp:879`) needs no branch.

### RadioPower

`RADIO_POWER` and `SHUTDOWN` do not leave the thread that brings them: it decides by
the modem's last event (`DecideOn`, `DecideOff`, `DecideShutdown`), may wait 20 s for
the basic initialisation, queues its command in front (`AddCmdToQueue`) and waits,
without a timeout, for the radio state to change or for the cancel event of the
modem's life (`WaitRadioState`); a shutdown waits for the ModemPoweredOff event
instead. `cpc` is the command thread, whose `PostCommand` sets the radio state and
signals. Every step of `ModemReset` that touches what is waited for has a version of
its own (`ResetRadio`, `SignalCancelEvent`, ...); the others are taken as they are.
`FlightModeOff` is `GetModemOffInFlightModeState`, `Sent` the events the MMGR sends in
a run.

What the code does and the model keeps: `RADIO_POWER` on skips the wait for the basic
initialisation when the system is initialised already; `PostRadioPower` ignores the
result of its command; the wait of `WaitForModemPowerOffEvent` resets the event first,
so that a MODEM_DOWN handled before is lost; the cancel event is read after the command
was queued, so that a modem that went and came between leaves the thread waiting for the
next life's event (`stranded`).

`OwnCommandWakes` and `OnMeansPoweredOn` leave out the time after the platform has asked
for its shutdown. The main thread then closes the ports itself, possibly over a MODEM_UP
in progress: that life goes into service with its cancel event set, so that every request
returns before its command was executed, and three requests are enough for the command of
one to wake a later one. Nothing in the code tells the two apart; the platform is about
to cut the power, and no request is expected any more.

### WakeLock and LibRil

`WakeLock` is `grabPartialWakeLock`, `releaseWakeLock` and `userTimerCallback` for
protocol version 13 and later: a count and a kernel lock under
`s_wakeLockCountMutex`, and `s_last_wake_timeout_info`, which the sender reads and
replaces under that mutex while the event thread clears it and frees the timer
without. `gpc[t]` is where sender `t` is, `fpc` where the timer callback is; a timer is
unused, armed, fired or freed.

`LibRil` extends it with the rest: `lpc` is the event thread (select, accept, greet,
read, close, mark), `fdCommand` the descriptor that senders read without a lock, `open`
what is behind it, `peer` the framework's end, `pending` the list, `cancelled` the marks
`onCommandsSocketClosed` sets. A sender takes its request from the list
(`OnRequestComplete`), looks at the mark (`TestCancelled`), reads the descriptor
(`SendResponseRaw`) and writes (`BlockingWrite`) in four steps. A descriptor's number is
used again by the next connection, so a late write may reach it (`Delivered`). A writer
that fails closes the descriptor and leaves `fdCommand`; the event thread that then
selects on it ends the process (`SelectFails`, `dead`).

### DataCalls

A data channel is its context ID (its own number or 0), its state, reference count,
whether its interface is up and whether its read thread is blocked. The threads: the main
thread (`mpc`: `SETUP_DATA_CALL`, `DEACTIVATE_DATA_CALL` and the timers of libril), the
command thread of each data channel (`cpc[c]`), that of DLC2, where deactivations are
queued (`npc`), and the response thread that reads `+CGEV` (`upc`). `DataConfigDown` runs
on any of them; `down[t]` is its step there: it looks the channel up, reads the state,
removes the interface (unblocking the read thread by the state it read), resets the state
and frees the context ID, and between any two of these another thread may step.

Setting up is four commands (`define`, `activate`, `query`, `enter`), each queued in front
by the post handler of the one before. Merged into one step where no other thread can see
the difference: taking a command and its answer; a handler's lookup and its test of the
state (only that thread sets ACTIVE); `SetDataState(DEACTIVATING)` and the queueing of the
command. Outside: the modem's `context`s, the notices on their way, and what the framework
takes for calls (`believed`). History: `status` of the setups (`dropped` is a token nobody
completes, `te.cpp:2823`), `disturbed` (contexts a notification was handled for), and
`refused` (contexts in use that the modem did not deactivate, which stay DEACTIVATING).

The properties about a single call leave the disturbed contexts out. A context ID is
used again as soon as it is free, so a notification, or the `DataConfigDown` it started,
may hit the next call of the same ID; what remains true then is that no context is lost
(`NoContextLost`) and no token doubled (`TokenHeldOnce`), which hold for all.

## Runs

Every bound is a constant of the cfg or a guard named in the module.

| run | asks | bounds | result |
|---|---|---|---|
| `at_timeout` | does the channel implement `ChannelService` under timeouts, ABORT, PING, retries and second strings? | two commands | holds (3.5 M states) |
| `at_special` | is each command completed once, with its own answer, and does it end? | three commands, one without a string, one waited for indefinitely; unsolicited lines, failing writes | holds (360 k) |
| `modem_reset` | do events and clean-up requests leave the RIL in the right state? | five events, one clean-up request, two ports | holds |
| `request_path` | is each request held by one party? | two identical requests, four events | holds (5.1 M) |
| `request_live` | is what a running command thread has in its queue completed? | a request and a tone, two events | holds |
| `request_lost` | is every request completed? | one request, four events | violated |
| `radio_power` | does the request thread come back, woken by its own command, is what wakes it always still to come, and does ON mean a powered modem? | two requests; UP, SHUTDOWN, DOWN, four events | holds (954 k) |
| `radio_stuck` | is the waiting request cancelled by every event that ends the modem's life? | one request; UP, OUT_OF_SERVICE, REBOOT, two events | violated |
| `libril` | is the wake lock let go, each request answered once, and may the framework return? | two threads, two timers, one request, two connections, one token completed twice | holds |
| `libril_stale` | does an answer go to the connection that asked? | the same | violated |
| `data_calls` | one setup per channel, no context lost, reported calls up, one holder per token? | two channels, two setups, two deactivations, one notification | holds (3.7 M) |
| `data_blocked` | does a free channel read? | one channel, one setup, one notification | violated |

Why the bounds are enough:

- A channel serves one command at a time and what one leaves for the next is at most a
  stale event, a stale line and the flag, so two commands show every inheritance. That it
  does not accumulate over more of them is proved (`LateAnswersDoNotPileUp`).
- Four events are the shortest history in which queues are created, orphaned and deleted
  (UP, a closing event, DOWN, UP); the fifth puts an event behind a busy worker during the
  second UP. One clean-up request per outside thread suffices to meet every step of a node,
  because spoof mode swallows the others.
- Two requests for the radio are what it takes for one to meet the event, the command or
  the pending flag another left behind; four events are a life of the modem and the
  beginning of the next. That more requests and more lives show nothing else is proved of
  the three safety properties.
- Two timers are one to be called off and one to call it off; two connections one to close
  and one to be mistaken for it; with two threads a third sender, the event thread, is
  there too.
- Two channels and two setups give both a setup beside another and a setup after another on
  the same channel. The invariants were also checked while building with one channel, three
  setups, two deactivations and two notifications (10.9 M states), and that every setup ends
  with one channel, three setups, two deactivations and one notification (492 k states);
  the first is proved now, and `TokenHeldOnce` stands for the second.

The mutants in `PROJECT.json` give, for every property of a passing run, a plausible
slip in one operation that the run detects.

### What the violated runs show

1. **A lost request** (`EveryRequestCompleted`, `channelbase.cpp:439`). A command that
   is queued when the command thread has left is deleted at the next MODEM_UP, and its
   token is never completed.
2. **A radio request that is not cancelled** (`CancelledOnModemEvents`,
   `te_base.cpp:2593`). `RADIO_POWER` waits for the radio state or the cancel event
   ("Cancel event is signalled on modem events.", 2566), but the nodes of OUT_OF_SERVICE and REBOOT do not
   signal it: the thread that brings all requests waits until the modem comes and goes
   again.
3. **An answer on the wrong connection** (`NoStaleAnswer`, `libril/ril.cpp:4868`). The
   socket's closing is to "mark pending requests as "cancelled" so we dont report responses"
   (3963), but a request whose completion has begun is not in the list any more (4844); its answer is written on the framework's next connection, under a serial number
   that may mean another request there.
4. **A free channel that does not read** (`FreeChannelReads`, `te_xmm6260.cpp:966`).
   `ParseEnterDataState` looks the channel up and blocks its read thread in two steps. A
   deactivation by the network in between frees the channel; nobody unblocks it, and the
   next setup takes it and times out.

### Behaviours found that no run is about

The models have them as the code does; they are named here because a reader would want to
know.

- **A stale Rx event** (`channel_nd.cpp:1130`). An answer that arrives between the timeout
  and the emptying of the queue leaves the event signalled. The next read finds the event,
  then an empty queue, and fails: a command fails although its answer is under way, or a
  PING is taken for unanswered and the modem is reset. The commented-out `Reset` calls
  around the wait show that the spot was known to be delicate.
- **ABORT timeout** (`channel_nd.cpp:643`, `672`). The comment says clean up and quit; the
  code goes on to the PING.
- **Waiting past the cancel** (`channel_nd.cpp:1320`). The loop of `WaitForResponse` looks at
  the old timed-out response, which a cancelled read leaves in place, and spins: the command
  thread of a command without a timeout does not end. `EveryCommandEnds` leaves these
  commands out (`SpecialPing`).
- **A DTMF request completed twice** (`te.cpp:8445`). The tests of the tone follow a refusal
  by the tests before them, which has completed the request. `OneHolder` is checked without
  tones; the second completion is refused by `libril` ("invalid RIL_Token"), unless the
  token was freed and allocated again.
- **Radio ON over a flight mode without modem off**. With `FlightModeOff = FALSE`,
  `OnMeansPoweredOn` fails: SHUTDOWN, DOWN, UP never make the radio UNAVAILABLE
  (`reset.cpp:269-296`), and the end of the basic initialisation sets OFF only if it is.
- **A token dropped** (`te.cpp:2823`): `QueueSetup` with the channel gone.

## Fairness

- `AtChannel` (`FairSpec`): both threads are scheduled and a timed wait ends (every wait
  of `ReadQueue` has a timeout). Nothing is assumed of the modem or of the closing of the
  ports.
- `ModemReset` and `RequestPath`: every thread is scheduled, and a call of
  `RequestModemRestart` that began returns. What an environment chooses (`ReceiveEvent`,
  `OnRequest`, `ModemAnswers`, `CloseChannelPorts`) has no fairness: the MMGR need not
  send, the framework need not ask, and the platform need not shut down.
- `RadioPower` (`FairRadioSpec`): the threads are scheduled, the timer that ends in
  `triggerRadioOffInd` fires, and a modem that is up ends a command with an answer or a
  timeout, which is what `EveryCommandEnds` of `AtChannel` shows of the channel.
- `LibRil` (`Fairness`): the event thread goes on with what it has begun, each sender
  goes on, a timer that is due again and again is served (strong fairness, because
  `select` may find another descriptor first), and a dead peer is noticed in the same way.
- `DataCalls` states safety only and has no fairness.

## Assumptions about what is outside

- The MMGR announces MODEM_UP only for a modem that was down or unknown, and does
  not send MODEM_DOWN directly after MODEM_UP: a closing event comes between
  (`DownUnannounced = FALSE`). With `DownUnannounced = TRUE`, UP, DOWN, UP leads
  `ResetChannelInfo` to free queues and the cancel event under running channel
  threads (`FreedAfterStop` fails): the code relies on the MMGR for this.
- `StopChannelThreads` waits 15 s per thread and then goes on whatever happened; the
  models take the thread to have ended. The spinning of `WaitForResponse`
  (`channel_nd.cpp:1320`) is one path on which it has not.
- Memory allocation, thread creation and writes to a pipe succeed.
- The modem answers lines in the order in which they were written.
- `SendRequestModemShutdown` succeeds: the MMGR takes the request.
- In `LibRil` a write to a closed descriptor fails and does not raise a signal. The
  remembered timer is read twice by the callback (`libril/ril.cpp:4400`); that the second
  read finds what the first found is taken for granted.

## Proofs

Eight modules hold theorems; each assumes the named assumption on the constants of the
module it is about, and nothing else, except where an `ASSUME` in the statement adds what
is taken from outside (see above) or the configuration the property is about.

`AtChannelProofs`, for any set of commands and any of their attributes
(`AtChannelAssumption`):

| theorem | statement |
|---|---|
| `TypeCorrect` | `Spec => [](TypeOK /\ CmdInv)` |
| `CompletedOnce` | `Spec => []CompletedExactlyOnce` |
| `NothingSleptThrough` | `Spec => []NoLostWakeup` |
| `FlagDownOutside` | `Spec => []LateAnswerDropped` |
| `ChannelImplementsService` | `Spec => ImplementsService` |
| `LateAnswersDoNotPileUp` | `Spec => []RxQueueBounded` |
| `AnswersAreOwn` | `Spec => []OwnAnswer` |

`TypeOK` is not inductive by itself: that `cmd` is a command, and not `NoCmd`, is known
only from `pc`, so `CmdInv` adds that a command is in hand exactly when the thread is
outside `idle`, and that it is no longer among those offered. `NoLostWakeup` is inductive
on top of that: a step either leaves the Rx variables alone, or is one of the few that
look at the queue, enqueue or signal. `LateAnswerDropped` holds for every step because
each way out of `GetResponse` lowers the flag. The other two need `QuietSteps`, which says
which steps leave a command's history alone, and the refinement needs `AttemptInv`: a
command that sends something was written as often as its attempts minus the retries that
remain, minus one while a write is still to come; a command that sends nothing goes
straight to its completion. The lemmas `ReadEnds` and `WriteType` say what the four ways
out of `ReadQueue` and the writes can do, so that the proof of each step is a mapping to
`Take`, `Attempt`, `Complete` or a stutter.

`RxQueueBounded` follows from `PendingInv`, which bounds the responses in the queue, the
one the response thread has claimed and the one it may still claim (`Pending`) by what
the step of `SendCommand` allows (`Room`): one in an exchange, two once a PING is under
way. A special command may find three, for `WaitForResponse` raises the flag without
emptying the queue; TLC finds such a state with two special commands and one that is not,
so the bound is the least one. `OwnAnswer` follows from `CleanInv`: until a read is given
up, the line or its answer is in one place (`AtModem`, `OnTheWay`, `InBuffer`, `InQueue`)
while `SendCommand` waits, and nowhere when it does not, so what it reads is its own and
nothing is left for the next command. Both were checked with TLC on the bounds of the
channel's runs before they were proved.

`ModemResetProofs`, for any number of events, ports and calling threads, and for both
values of `DownUnannounced` (`ModemResetAssumption`):

| theorem | statement |
|---|---|
| `LifeCycleTypeCorrect` | `Spec => [](TypeOK /\ DeferInv)` |
| `NoNodeStranded` | `Spec => []NoWorkStranded` |
| `NodesInOrder` | `Spec => []InEventOrder` |

`DeferInv` is the strengthening: `running` exactly when there is a worker; without a
worker an empty queue; the start lock held exactly while the event thread executes a node
itself, and then no worker; a node in execution only by the thread whose turn it is; a
clean-up request of the worker only out of its node. The second part, on which
`NoWorkStranded` rests, holds because the worker tests the queue and declares itself
finished under the lock that `QueueWork` takes, one step in the model; a worker that
finishes without the test (`WorkerFinishesBlindly`) strands a node. `InEventOrder` needs
`DeferInv` at the two steps that begin a node: `ExecuteInline` finds an empty queue
because no worker exists, and `WorkerDequeues` finds nothing in execution
(`NothingExecutes`, `BeginsAlone`). The fourteen steps inside a node and the four of
`RequestModemRestart` are reduced by `NodeSteps` and `RestartSteps` to what these
invariants can see of them.

Its second half, under the same assumption and for both values of `DownUnannounced`:

| theorem | statement |
|---|---|
| `SystemIsCleaned` | `Spec => []CleanInv` |
| `InitialisedHasQueues` | `Spec => []QueuesLive` |
| `DownIsSpoofed` | `Spec => []DownMeansSpoofed` |
| `UpIsServedOrRecovers` | `Spec => []UpServesOrRecovers` |

A node is built when its event comes and executed later, so both properties turn on what
is waiting. `CleanInv` looks at the nodes as one chain, the one in execution and those
behind it (`Chain`, `Waiting`): the node that follows an up node resets the system
(`NextCleans`), because the event after MODEM_UP is never another MODEM_UP; the last
event is that of the last node (`Placed`); and when nothing is in execution and nothing
waits, the system was reset unless the modem is up (`AtRestCleans`). For
`UpServesOrRecovers` there is `ServeInv`, which says how far the last up node has brought
the system (`Served`), that an up node is the last of the chain while the modem is up
(`UpIsLast`), and that what can undo its work, a failing step or `RequestModemRestart`
of another thread, is on its way to asking for a recovery or has asked (`Recovering`).
Both invariants were checked with TLC, on one port and up to five events, before they were
proved.

`ModemStopProofs`, for any number of events, ports and threads; the first under the
assumption that the MMGR announces that an up modem goes:

| theorem | statement |
|---|---|
| `FreedAfterTheStop` | `ASSUME ~DownUnannounced PROVE Spec => FreedAfterStop` |
| `AcknowledgedAfterClose` | `Spec => AckAfterClose` |

`StopInv` follows the chain once more: between an up node and the next there is one that
closes the ports, or the event was the last one the event thread will handle (`Departed`:
after OUT_OF_SERVICE and REBOOT it sleeps for ever), so running threads are always stopped
before the next up node begins. Without the assumption UP, DOWN, UP refutes it. `AckInv` counts: the
acknowledgements owed are those sent and those of the nodes not executed to their end
(`Owing`), whose numbers are distinct by `InEventOrder`; and a node that acknowledges has
closed the ports when it comes to its end.

`RequestPathProofs`, for any set of requests and any attributes (`RequestPathAssumption`):

| theorem | statement |
|---|---|
| `PathTypeCorrect` | `PathSpec => [](PathTypeOK /\ HandInv)` |
| `HeldOnce` | `ASSUME Dtmf = {} PROVE PathSpec => []OneHolder` |
| `QueueOutlivesThread` | `ASSUME ~DownUnannounced PROVE PathSpec => []ThreadHasQueue` |
| `NothingSleptOver` | `ASSUME ~DownUnannounced PROVE PathSpec => []NoCommandSleptOver` |

Every step of the composition is a step of the life cycle or leaves it alone
(`PathIsLifeCycle`), so all that is proved of `ModemReset` holds here; `ThreadHasQueue`
is `StopInv` seen from the command thread. `HandInv` says at which steps a thread has a
request in hand, and that a command thread runs only while the life cycle counts it as
started. `OneHolder` is inductive with it when written as an account per request
(`Account`) over a queue without repetition (`Distinct`); the lemmas `OneIn`, `HeadOut`
and `MiddleOut` say what appending, taking the head and taking out of the middle do to
the queue seen as a set. Tones are excluded because the property is false of them (see
above). `NoCommandSleptOver` needs `ThreadHasQueue` at one place: the signal of a
command is lost when the event is gone, and then no thread waits for it.

`RadioPowerProofs`, for any number of requests, events, ports and calling threads, and any
choice of the events the MMGR sends (`RadioPowerAssumption`):

| theorem | statement |
|---|---|
| `LifeCycleSurvives` | `RadioSpec => [](TypeOK /\ InEventOrder /\ QueuesLive /\ DownMeansSpoofed)` |
| `FreedAfterStopSurvives` | `ASSUME ~DownUnannounced PROVE RadioSpec => FreedAfterStop` |
| `AcknowledgedSurvives` | `RadioSpec => AckAfterClose` |
| `RadioTypeCorrect` | `RadioSpec => []RadioTypeOK` |
| `WokenByOwnCommand` | `ASSUME ~DownUnannounced PROVE RadioSpec => []OwnCommandWakes` |
| `OnIsPoweredOn` | `ASSUME ~DownUnannounced, FlightModeOff PROVE RadioSpec => []OnMeansPoweredOn` |
| `NobodyWaitsInVain` | `ASSUME ~DownUnannounced PROVE RadioSpec => []WaitIsWatched` |

The composition is not a step of the life cycle at a time, as `RequestPath` is: the main
thread signals the cancel event, closes the ports and stops the threads itself, and a
basic initialisation that fails withdraws `initOk`. `LifeSteps` shows that every step is
one of `ModemReset` or such an interference (`Beside`), and `BesideLife`, `BesideStop` and
`BesideAck` that no interference breaks the invariants of the life cycle: it starts and
ends no node, and it only ever closes, stops and withdraws. `UpServesOrRecovers` is the
one that is not carried over: a basic initialisation that fails withdraws the system after
its node has ended, and the request for a recovery that follows (`cmdcontext.cpp:90`) is
one of the `Callers`', a step later.

- *The request's own command.* `ChannelInv` ties the queue and the command thread to the
  queues and the threads of the life cycle, and `NumberInv` says that the command of the
  last request is queued, executed or was executed, once. A command of an earlier request
  can still be there: its request returned when the cancel event was signalled, while the
  command thread executes it. What keeps it from waking a later one is in `AwaitInv`: a
  command nobody waits for is of a life that is over (`Over`: not initialised, nothing
  about to declare it so, no end of its basic initialisation signalled), while the main
  thread comes to reset its event only in a life that is not. That the end of the basic
  initialisation is not signalled late needs `BasicInv`, which follows the chain of
  nodes: the node after an up node resets the startup events before anything else.
- *ON means powered on.* A radio state may be ON from the life before (`StaleOn`) while
  the last up node is in progress, or while a thread is in `RequestModemRestart`, which
  sets it UNAVAILABLE; `OnInv` says that one of the two is still to correct it
  (`Corrected`), and `LastInv` that the node in execution is that of the last event when
  nothing waits. `FlightModeOff` is needed because without it the property is false (see
  above).
- *No wait in vain.* `WatchInv` is the reason why a dropped command is not a lost wakeup:
  the command thread drops a command only when it finds the modem gone, and then the node
  that closes the ports is still before its `SetEvent` (`Closing`), unless that event was
  the last one (`Departed`). It needs `StopInv` at the step that frees the queues. This is
  the safety part of `WaitEnds`: the property says that what will wake the main thread
  exists, the run that it comes.

The properties and these invariants were checked with TLC before they were proved, with
three requests and four events, with a calling thread, and with all the MMGR's events
(3.5 M, 7.5 M and 10.4 M states); three requests were what showed that `OwnCommandWakes`
does not hold in a shutdown of the platform.

`LibRilProofs`, for any number of threads, timers, connections and requests
(`LibRilAssumption`, `WakeLockAssumption`):

| theorem | statement |
|---|---|
| `ImplementsWakeLock` | `Spec => WakeSpec`: every step is one of the wake lock's or leaves it alone |
| `LockIsTimed`, `CountAndLock`, `TrackedLives` | the three properties of the wake lock, proved of its protocol and carried over |
| `LibRilTypeCorrect` | `Spec => []TypeOK` |
| `OneAnswer` | `Spec => []AnsweredAtMostOnce` |
| `EarlierAreMarked` | `Spec => []EarlierMarked` |

`WakeInvariant` is inductive because the sender's exchange of the remembered timer is
under a mutex, and because the callback, which takes none, frees a timer only after it
has ceased to be remembered. `ListInvariant` follows a request: in the list, or in the
hands of one thread, or answered.

`DataCallsProofs` and `DataKeptProofs`, for any number of channels, setups, deactivations
and notifications (`DataCallsAssumption`):

| theorem | statement |
|---|---|
| `DataCallsTypeCorrect` | `Spec => []TypeOK` |
| `TokensHeldOnce` | `Spec => []TokenHeldOnce` |
| `ContextsOwned` | `Spec => [](TypeInv /\ OwnerInv)` |
| `SetupsApart` | `Spec => []OneSetupPerChannel` |
| `CallsAreUp` | `Spec => []BelievedIsUp` |
| `NoneLost` | `Spec => []NoContextLost` |

`TypeInv` adds to `TypeOK` which locals are set at which step. `TokenInv` speaks of sets
of the places a token may be in (`Reqs`, `EachOnce`) rather than of numbers, so that a
step moves one element; `CountedOnce` turns it into the cardinalities of the property.
`OwnerInv` says that an undisturbed context has at most one owner of any kind (`Kinds`)
and none while it is free; the two properties of a single call follow from it, the second
with `ValueInv`, which relates the owner's step to the channel's state, count, interface
and read thread. `NoContextLost` is about disturbed contexts too, where owners may be
several: `KeptInv` says of every taken context that somebody is left who will free it
(`Keeps`) or that it is a call (`IsCall`). `OwnerInv` and `ValueInv` were checked with TLC
on the bounds of `data_calls`, `KeptInv` also with one channel, three setups, two
deactivations and two notifications (9.7 M states).

Model-checked only: liveness (`EveryCommandEnds`, `EveryEventAcked`, `LiveQueueServed`,
`LockReleased`, `FrameworkMayReturn`, `WaitEnds`), which is out of the prover's reach.
Every other property of a run that holds is proved.

## What is left

- The stages of the modem initialisation: two channels that complete a stage at once
  (`ND/MODEMS/initializer.cpp:343`) may both find all channels complete and continue twice.
- The linked list and mutex of `rilqueue.h`, with its priorities and its return with the
  mutex held (line 194).
- A modem reset under a data call, which would join `DataCalls` and `ModemReset`.
- The USAT state machine and the PIN cache.

## Not modelled

- Of the radio power: the release of the modem for airplane mode (`HandleReleaseModemReq`),
  a shutdown request the MMGR refuses, the clean-up asked for through `gsm.radioreset`,
  restricted mode, the powered-on event and the initialisation thread; the basic
  initialisation of all channels is one step.
- Of `libril`: the stored NITZ, `RIL_onRequestAck` (never called by the Rapid RIL), the
  debug and SAP sockets, and protocol versions before 13, which do not count their locks.
- Of the data calls: a modem reset or the radio going off under a call, NO CARRIER
  (`silo_data.cpp:68-101`), the default PDN of LTE and the HSI channels of later modems, a
  refusal by `IsRequestAllowed` (which completes the token and does not free the context,
  `te.cpp:8414`), a PDP type that is not known (which loses the context too,
  `te_xmm6260.cpp:405`).
- Parsing and formatting of AT strings, notifications to the framework and recovery causes:
  sequential code whose correctness is a matter of formats.
- The PIN cache, the USAT state machine, the stages of the modem initialisation after the
  basic one, and the linked list behind the queues.
- The HAL wrappers, applications, shims, configuration and prebuilt files: see
  `PROJECT.json` for the reason of each.
