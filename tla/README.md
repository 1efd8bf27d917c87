# Verification of the OnSIP TAPI service provider

TLA+ models of the part of jn-tapi that has concurrency, ordering and failure
in it: the code that turns what an OnSIP server publishes over XMPP, and what
Windows applications ask for over TAPI, into the life of phone calls. TLC
checks the models on small instances; TLAPS proves the main properties for
every value of the constants.

## 1. The system

jn-tapi is a TAPI service provider (a DLL that the Windows telephony service
loads). A call is *click-to-call*: the program asks the server over XMPP to
create it, the server first rings the user's own phone and then, once the user
has answered, the number. For every call of the user the server publishes
PubSub items (one for each phone that rings: a *branch*), changes their dialog
state and retracts them. The program never handles media; it follows calls by
these messages and reports them to TAPI.

### Components

| component | state | operations | properties that make it correct |
|---|---|---|---|
| Call state handlers (`OnSipCore/OnSipCallStateMachine.cpp`: MakeCall, Incoming, Outgoing) | state, state data (item, call id, type, call-setup-id), branches, outgoing id, contexts of requests, clock of the state | `PreExecute`, `IsYourEvent`, `IsStillExist`, `CheckDropRequestEvent`, `CheckDroppedCall`, `AddBranch` | a call keeps its identity over its branches; moves forward only; connects only when answered; ends with its last branch, or by a time limit |
| Call state machine and queues (`OnSipCallStateMachine.cpp`, `OnSipStateMachineBase.h`, `StateMachine.h`) | list of handlers, queue of handler requests, queue of drop requests, id counter | `SignalEvent`, `PollStateHandlers`, `MakeCallAsync`, `DropCallAsync`, `AddStateHandler`, `RemoveStateHandlers` | ids are unique; every notification is true and every call that is notified is ended once; nothing asked for gets lost |
| XMPP events (`OnSipXmppEvents.cpp`) | none | makes typed events from stanzas | - |
| XMPP client wrapper (`OnSipXmpp.cpp`, `OnSipXmppBase.cpp`) | gloox client, handlers, poll time | `Start`, `Poll` (recv + 250 ms poll of the machines), `Cleanup`, sends | events and polls come on one thread; no call survives a reconnect by mistake |
| Init state machine and workers (`OnSipInitStateMachine.cpp`, `OnSipWorkers.cpp`) | login state, time of the last authorisation, worker in progress | login, authorise, subscribe, re-authorise, ping, shutdown | a login or a renewal reaches OK, an error or a time limit; a connection is given up only when the server is silent |
| OnSipTapi and device thread (`OnSipTapi.cpp`, `device.cpp`) | event lists, last init state, thread handles | `Connect`, `Poll`, `InitOnSipTapi`, `OpenDevice`, `ConnectionThread`, `_killThreads` | reconnects; knows whether it is connected; reports the loss of the service; stops when closed |
| TAPI line (`line.cpp`, `makecall.cpp`, `dropcall.cpp`, `unsolicited.cpp`, and the requests and call appearances of TSP++ below it) | call appearances, queue of asynchronous requests | make call, drop call, close call, `ReceiveData`, `CompleteRequest`, `SetCallState`, timer | every call id has one appearance; every request is answered, and truly; the line shows no more than the machine has notified |
| Thread pool of TSP++ (`PoolMgr.h`) | list of events, keys in work, auto-reset event, worker threads | `Add`, `GetNextAvailableRequest`, `Runner`, shutdown and destructor | each event is handled once, those of one line in order; no thread sleeps while there is work |
| Thread helpers (`Threads.cpp`) | unique id counter, critical sections | `UniqueId_ts::InterlockedIncrement` | ids are unique over threads |

Settings, registry, logging, the XML printer, the configuration dialog, the
installers, the console test program, gloox and the parts of TspLib3 that the
line does not use have no behaviour of this kind, or are libraries of others,
and are listed in PROJECT.json as not modelled.

### Interactions and what is hard about them

Two kinds of thread meet. *TAPI threads* call `MakeCallAsync` and
`DropCallAsync`, which only put an entry into a queue under a critical section.
The *XMPP thread* runs `OnSipXmppBase::AsyncPolling`: it receives (gloox calls
`SignalEvent` for each message) and, every 250 ms, calls `PollStateHandlers`,
which empties both queues and checks the time limits. Notifications go back
through `OnStateChange` to `OnSipTapi` and the line.

* A drop may be asked for before the call has a handler, between the two polls
  of the queues, or after the call has gone.
* The server's answers to requests and its messages about calls come in any
  order; messages of several phones and of both legs interleave.
* A time limit, a drop request, an answer and a retract race for a call.
* A handler that runs out of time is dropped in one check and removed by the
  next; whatever comes in between meets a dead handler.
* When the connection is lost, the handlers are deleted without a notice while
  the queues and the id counter live on.

The XMPP thread is the device's *connection thread*. Around `AsyncPolling` it
runs the login (`InitOnSipTapi`), the reconnect loop and the shutdown, and it
shares two events with the TAPI threads that open and close the device:
`m_hevtStop` and `m_hOpenDevice`. It learns how the connection fares in three
ways that need not agree: the return value of `Poll`, the notifications of the
init state machine, and the last notified state, which outlives a login.

* A connection may end by a broken socket (`recv` fails at once), by a
  disconnection of gloox's own (`recv` fails one call later) or by a time limit
  of the init handler (`recv` never fails).
* A connect that fails leaves a handler in the queue and the old state behind.
* A stop may come in a login, a poll, a wait, a renewal or a shutdown.

The notices of calls go from the connection thread into the *thread pool* of the
device, whose threads give them to the line by `ReceiveData`. The line has a
queue of requests of which the first is in work. Threads of TAPI that queue a
request, the *interval timer* and the pool all call `ReceiveData`, and whoever
completes a request starts the next one.

* A call id is known to the line only when `DRV_MakeCall` has returned; notices
  of the call may be faster.
* The event that a request waits for, its time limit and the first state of its
  call race to answer it.
* The state of a request is tested in one step and set in another.
* A request that waits for an event uses it up; then nobody sets the state of
  the call by it.
* The pool's event wakes one thread however often it is set, and that thread may
  find that the only events left belong to a line that is in work.

The hazards are in PROJECT.json, each at its line, with the properties that
would catch it.

## 2. Modules

| module | what it models |
|---|---|
| `CallEvents` | published items, dialog states and the events made of messages (OnSipXmppEvents) |
| `CallHandlers` | the three handler classes as a record and pure operators: constructors, `Owns` and `HandleEvent` (which event `IsYourEvent` accepts and what it does), `IsStillExist`, branches |
| `CallStateMachine` | the handler list, the queues, the poll, TAPI threads, the server and the connection (EXTENDS CallHandlers) |
| `TapiCallView` | the abstract specification: what TAPI is promised of each call |
| `CallHandlers_proofs` | lemmas about the handlers, of which `HandleEventKeeps` is the main one |
| `CallStateMachine_proofs` | the inductive invariant and the theorems |
| `CallBranches_proofs` | lemmas about the branches of one handler, of which `HandleEventMoves` is the main one |
| `CallLegs_proofs` | which published items belong to which call, and which calls hear of a retract: two further invariants and five theorems |
| `InitHandler` | `OnSipInitStateHandler` and the worker that renews authorisation and subscription, as pure operators |
| `XmppSession` | an `OnSipTapi` object below the thread: the init state machine with its queues, the last state, the list of notifications, the link (EXTENDS InitHandler) |
| `DeviceConnection` | TAPI's open and close, the connection thread with `InitOnSipTapi`, `Poll` and `Disconnect`, the time limits (EXTENDS XmppSession) |
| `DeviceView` | the abstract specification of the device: what opening it, its service and its end mean to TAPI |
| `XmppSession_proofs` | lemmas about sessions: their types, and what polls and receipts preserve of them |
| `DeviceConnection_proofs` | three invariants of the device: reported losses, types, and that a connection is real; and that it implements `DeviceView` |
| `TapiLine` | the line: call appearances, the queue of requests and the threads that work on it, above the promise of the call state machine (INSTANCE TapiCallView) |
| `TapiLine_proofs` | the invariants of the line, one on top of the other, and the theorems that all its safety properties follow from |
| `KeyedQueue` | the abstract specification of the pool: one key at a time and in order |
| `ThreadPool` | the pool: its list, its event, its worker threads |
| `ThreadPool_proofs` | the inductive invariant of the pool, and that it implements `KeyedQueue` |

The modules form three layers that are joined by abstract specifications. The
call state machine and the init state machine are separate systems on the same
generic code: calls do not influence the login, and what a loss of the
connection means for calls is in `CallStateMachine` (`Disconnect`, `Connect`).
`TapiLine` does not contain the call state machine. It lets notices happen as
`TapiCallView` permits, which is proved of `CallStateMachine` for every value of
the constants. Nor does it contain the pool: there is one line, hence one key,
and `KeyedQueue`, which is proved of `ThreadPool`, then says that notices arrive
one at a time and in order, which is what the action `PoolTakes` does.

### State and code

* `stateHandlers` is `m_stateHandlers`, a function from places to handlers. A
  place is never used twice (`pushed` counts them), so the order of the places
  is the order of the list. Each handler is a record with the members that the
  control depends on; names, tags, addresses and times are left out.
* `expired` of a handler stands for the clock: it becomes TRUE at any time
  (`TimePasses`) and FALSE when `AssignNewState` restarts the clock.
* `nextId` is the one counter of `UniqueId_ts`: call ids and IQ contexts come
  from it.
* `making`, `handlerRequests`, `lstRequests`, `events`, `lstEvents` are the two
  thread-safe queues and the local lists that one poll has taken from them.
* `phase` says where the XMPP thread is: receiving, in the loop over the handler
  requests or in the loop over the drop requests. TAPI threads run between any
  two steps.
* `clock` is `clock()` as far as two call-setup-ids can tell: polls have
  different values, the requests of one poll may share one.
* `told` is the last notification of each call.
* `items`, `dials`, `iqs`, `online` belong to the server and the network, which
  are external and modelled from what the code expects: the server rings phones,
  has one of them answer, retracts items, may send odd messages (`PublishOther`),
  may accept or refuse a request before, between or after the messages about its
  call, or stay silent.

In `DeviceConnection`:

* `pc` is the place of the connection thread, `fConnected` and `initStateType`
  are its local variables; `stop` and `opened` are the two events.
* `app` is the TAPI thread that opens or closes the device.
* `session` is `m_OnSipTapi`: `stateHandlers` and `handlerRequests` are the list
  and the queue of the init state machine, `shutdownQueued` its event queue,
  `lastInitState` is `m_lastInitState`, `initEvents` is `m_lstInitEvents`,
  `link` is gloox's connection and `unanswered` what the server owes.
* `inService` is the argument of the last `SetDeviceStatus`; TspLib3 marks a line
  in service when it is created, so it starts TRUE. `forcedClose` says that the
  line was told to close.
* A call of `Poll` is a number of `Turn`s and its end (`...PollOver`), which
  needs one turn with a poll of the machines: `Poll` takes 1 s, the machines are
  polled every 250 ms. TAPI threads and time limits run between any two turns.

In `TapiLine`:

* `calls` and `requests` are all appearances and requests that were ever made;
  an appearance is `listed` until `RemoveCallAppearance`, and `queue` holds the
  requests that are in `m_lstAsynchRequests`, as positions in `requests`.
* `thread` says for each thread how far it is in `ReceiveData`, `CompleteRequest`
  or `AddAsynchRequest`, with the local variables that live across a point where
  it holds no lock. The threads of TAPI, the timer and the pool (one thread: see
  above) run the same code.
* `notices` are the events in the pool, `kind` and `view` belong to the call
  state machine: which calls exist, and what it last notified of each.
* A notice of the end may come twice (the last state and the removal), once (a
  time limit) or never (the handlers are deleted): `EndNotices`.
* The steps are cut where the code unlocks: between the test of a request's
  state and setting it (`Fetched`, `BeginRequest`), between `DRV_MakeCall` and
  `SetCallID`, between the two halves of `CompleteRequest`, between answering a
  request and setting the state of its call. `lineMakeCall` keeps the line locked
  through all of it and is one step when the queue is empty.
* A request that is completed with an error calls `Failed` (`Request.cpp:203`),
  whoever completes it: the thread that handles it, `lineMakeCall` itself, a drop
  that succeeds and takes the other requests of its call with it, or the end of
  the call. It removes the appearance of a call whose first state was never set
  (`RTMakeCall::Failed`) and takes the mark of `lineDrop` off the call
  (`RTDropCall::Failed`), so that TAPI may drop it again.

In `ThreadPool`:

* `list`, `busy`, `signal`, `threads`, `running` are the members of
  `CThreadPoolMgr`; `worker` is the place of each worker thread and the event it
  has; `adder` is the connection thread inside `Add`.
* `deleted` are events that `TPM_DelEvent` has deleted, `leaked` those whose
  handling raised an exception: `Runner` then goes on without deleting them.
* The steps are cut at the critical section and at the waits.

One action is one step of the thread that runs it: `SignalEvent` includes the
following `_checkStateHandlersExist` (the operator `Settle`) with its removal
notices. The poll is split at the places where another thread can get at the
queues: taking the requests, each request, taking the drop requests, each drop
request, and the last check.

Definitions marked *Mutation* are not part of the model. They are slips that a
programmer could make at that place; PROJECT.json pairs each with a property
that TLC finds violated when the slip replaces the definition.

### The abstract specification

`TapiCallView` knows nothing of handlers: each call id has a TAPI call state; a
call appears as OFFERING, DIALTONE or PROCEEDING, moves forward by rank, and
ends with one notification that is IDLE and removed at the same time. After
that nothing is said of it, and its id is not used again. `CallStateMachine` implements it
under the mapping `toldView`, which is `OnSipTapiCall::GetTapiCallState`. The
property `ImplementsView` is checked by three runs and proved.

`KeyedQueue` knows nothing of threads: an event waits, is handled while no other
event with its key is, and is over. `ThreadPool` implements it with the list as
what waits and the events that threads hold as what is handled
(`ImplementsQueue`, checked and proved).

`DeviceView` knows nothing of sessions, states and polls: the device has no
thread, one that tries to connect, or one that is connected. Opening it succeeds
exactly when a connection was made; the thread then lives until it is told to
stop; and the line goes out of service with each loss and into service with each
later connection, and at no other time. It says that the line is in service again
only of *later* connections, because the first one does not report it (finding 3).
`DeviceConnection` implements it with `fConnected` as the state of the connection
(`ImplementsDevice`, checked and proved). The abstraction leaves the loss itself
free: that the belief `fConnected` is true is `ConnectedIsReal`.

## 3. Runs

| run | bounds | states | question |
|---|---|---|---|
| `dialled_call` | 1 dialled call, 2 phones, 1 drop, 1 odd message | 490 000 | messages of both legs, answers, time limits and a drop in every order |
| `published_calls` | 1 incoming and 1 physical call, 2 phones, 1 drop, 1 odd message | 360 000 | calls that the server announces, next to each other |
| `lost_connection` | 2 dialled calls, 1 phone, 1 loss of the connection, no time limits | 300 000 | two threads' requests, each before, during or after an outage |
| `calls_end` | 1 dialled call, 1 phone, 1 drop, 1 loss | 37 000 | liveness |
| `device` | 2 openings, 1 loss of the link, 1 server out of reach, 1 renewal, slow connects and fast logins | 56 000 | safety, liveness and refinement of the connection thread |
| `tapi_line` | 1 call made, 1 drop, 1 incoming call; each end notified once | 338 000 | safety and liveness of the line's requests |
| `thread_pool` | 2 keys with 2 events each, 2 threads, 1 thread that cannot be created | 424 000 | safety, liveness and refinement of the pool |
| `foreign_retract`, `drop_without_branch`, `reopened`, `ended_call`, `dials_twice` | smallest instance that shows it | - | findings, section 6 |

Why the bounds are enough for their questions: two phones are the fewest for
which a call can lose a branch and live on, change the item it is shown as, or
be answered on one phone while another still rings. One incoming and one
physical call give a list of two handlers with an event for either and for
none. Two dialled calls are the fewest for which two threads can race for an id
and for which one poll executes two requests. One odd message (an error, an
unknown dialog state) covers every state of the call in which it can come, since
the run explores all of them. `lost_connection` switches the time limits off
(`DisableTimeout`, a registry switch of the program) so that each disappearance
of a handler is an effect of the connection or of a message; the other runs have
them on. Handlers of different kinds do not interact except by accepting each
other's events, which is what `foreign_retract` is about; the dialled call is
therefore checked apart from the published ones.

`device`: two openings are the fewest for which something of the first can
reach the second; one loss and one failed attempt, which may also be the first,
meet every place of the thread, since the run explores all of them; one renewal
can be answered, refused, left unanswered, or overtaken by a loss or a stop.
`SlowConnect` lets gloox's connect last longer than the handler's 15 s and the
10 s of `_killThreads`; `FastLogin` lets a login finish before the machines'
first poll. With two failed attempts a login may give itself up (section 6), so
the passing run has one; `reopened` switches both off, because its counterexample
needs neither.

`tapi_line`: the line has at most one call that is being made (TSP++ refuses a
second), so one make request and one drop request are two requests that can
stand in the queue in either order, next to each other or alone. The drop may be
for the call that is made or for the incoming one; the second call is there so
that an event can be taken for the wrong one. Three threads are the fewest that
race for one request: two find it, the third has completed the one before. The
only state that is notified before the end is DIALTONE, for the line looks at
IDLE and at everything else alike. The end is notified once, which is the harder
case for the requests (nobody comes to help a request that has missed it) and
what a time limit does. With both notices of an end (`EndNotices = {2}`) the
state graph has 960 000 states, and with CONNECTED in addition 5.03 million;
the invariants hold in both (run by hand: checking the liveness property costs
four times as much as the invariants, so the run is kept small). With one drop, the
run tells whether a call keeps its mark when the drop fails; that the second drop goes
as the first was checked by hand too, all properties of requests included (an incoming
call, two threads of TAPI, two drops, 123 000 states). That nothing
depends on these bounds is what the theorems say: the invariants of this run are
proved for any number of threads, calls, requests, states and notices.

`thread_pool`: two keys and two threads are the fewest for which a thread can
find nothing that it can run while there is something in the list, and for which
two threads can run at once; two events of a key are the fewest that have an
order. A third thread adds nothing but another one that waits; the theorems hold
for any number. `CreationThreshold` is exceeded by three events in the list.

Properties, and what each would catch:

* `ReportInSync`: what TAPI was last told of a call is what its handler says,
  except that a handler which has just run out of time is dropped one check
  before it is reported; no handler outlives its removal notice.
* `ImplementsView`: see above.
* `UniqueCallIds`: call ids stay unique over threads, queues and reconnects.
* `IdentityKept`: replacing the data of a call by that of another branch keeps
  its id, type and call-setup-id.
* `ShownItemIsBranch`: the item a call is shown as is one of its branches; no
  branch twice; a call that was published has something to terminate.
* `LegsBelongToDial`: the legs of a dialled call never make a second call
  appear while the dialled one lives.
* `ConnectedWasAnswered`: CONNECTED is reported only when the other side (for a
  dialled call the number, not the user's phone) has answered.
* `LiveCallHasLiveItem`: while the connection holds, a call that is alive for
  TAPI has an item the server has not retracted.
* `EveryStateTimed`: no handler gets into a state without a time limit.
* `EveryCallEnds`, `EveryRequestReported`: liveness.
* `ConnectedIsReal`: when the thread goes on as connected, the link is up, a
  handler is OK and both records of the state agree, however the last `Poll` or
  login went.
* `LossIsReported`: no lost connection that TAPI was not told of.
* `FirstServiceIsTrue`: until the device is opened a second time, the service of
  the line is exactly what the thread knows of its connection (how far the
  promise that finding 3 shows to fail does reach).
* `ImplementsDevice`: the service of the line and the life of the thread follow
  the connection; no notification of the init state machine changes the one
  without the other.
* `LoginEnds`, `RenewalEnds`, `StopEnds`: liveness with a server that may fall
  silent at any point: the thread is never in a login, a renewal or a stop for
  good, so it leaves each of them (`[]<>`).
* `OneAppearance`: a call of the machine is never two calls on the line, though
  the line learns its id late.
* `StateAfterReply`: no thread sets the state of a call that is being made while
  its request is in the queue and not answered; TAPI drops such a state.
* `RepliesAreTrue`: no request is answered with success because of another
  call's event, or by a time limit.
* `LineFollowsMachine`: the line is never ahead of the machine for a call.
  (A call that was dialled twice, finding 5, is left out of both.)
* `MarkedCallIsDropped`: a call that goes on and is marked as dropped has a request
  to drop it that has not been refused. `lineDrop` of a marked call returns at once,
  so a mark that outlives the failure of its request (it may fail in four places)
  would leave a call that cannot be dropped. The converse, that a call has at most one
  request to drop it on its way, is not claimed: a thread that takes a request for
  one that is not in work (finding 5) may start a drop that has failed.
* `EveryRequestReplied`: the liveness of the queue; only its first request has a
  clock, the others depend on it. It says that again and again no request waits
  for its answer (`[]<>`), which, as no answer is taken back and requests are
  finitely many, is that each is answered.
* `NoLostWakeup`: an auto-reset event that was set twice has still woken one
  thread only.
* `EachEventOnce`: no event lost, handled twice or deleted twice.
* `ImplementsQueue`: order and exclusion by key.
* `EveryEventHandled`, and `StopEnds` of the pool: liveness; with no thread at all
  (each creation failed) an event waits for the next `Add`. That an event is handled
  and not just gone is for `EachEventOnce` and `ImplementsQueue` to say.

### Fairness

`FairSpec` assumes only what the code schedules:

* with a connection, a poll begins again and again (`AsyncPolling` runs in a
  loop and polls every 250 ms), and a poll that has begun is finished;
* without one, nothing is assumed to be polled: `InitOnSipTapi` returns before
  its first poll when the connection cannot be made;
* the connection thread (`device.cpp`, `ConnectionThread`) tries again every
  30 s, so that an outage that ends is followed by a login: `WF(Connect)`. This
  takes for granted that outages end and that the login is not refused;
* a TAPI thread that has an id also queues its request, and time passes.

For the device, `FairSpec` assumes that

* the thread takes its next step when it has one (`WF(ThreadStep)`), and inside
  a `Poll` the machines are polled even if nothing arrives
  (`WF(PollTurn(Nothing, TRUE))`): `recv(100)` returns, and the 250 ms timer
  expires several times in the second a `Poll` takes;
* gloox's connect returns in the end (the operating system's time limit), which
  is part of `ThreadStep`;
* time passes: a handler that stays in a timed state, a renewal that goes on and
  the 5 s of a shutdown reach their limits.

For the line, `FairSpec` assumes that a thread that is at work goes on, that the
timer fires while there is a request (TSP++ calls `ReceiveData` each second), that
the pool takes what was added (`EveryEventHandled`), and that time passes for a
request that waits. Nothing is assumed of TAPI or of the call state machine: no
notice need ever come. For the pool it assumes that every thread goes on, which
includes that `ReceiveData` returns, and that the destructor runs in the end.

In all specifications nothing is assumed of the server, which may fall silent
at any point, nor of what TAPI applications ask for. `EveryCallEnds` leaves out behaviours in which
the connection was lost: then `RemoveStateHandlers` deletes the handlers and
nothing is reported to TAPI. `EveryRequestReported` holds in them too, because
the queue outlives the client.

## 4. Proofs

For all values of the constants (any number of calls, phones, drops, losses,
odd messages, with or without time limits) from the named assumptions
`BoundsAssumption`, `FaultAssumption`, `SwitchAssumption` (types) and
`AddressAssumption` (the user does not dial the own address):

| theorem | states |
|---|---|
| `Invariant` | `Spec => []IInv` |
| `TypeCorrect` | `Spec => []TypeOK` |
| `CallIdsUnique` | `Spec => []UniqueCallIds` |
| `ReportsInSync` | `Spec => []ReportInSync` |
| `IdentityIsKept` | `Spec => []IdentityKept` |
| `StatesTimed` | `Spec => []EveryStateTimed` |
| `Implementation` | `Spec => ImplementsView` |
| `ShownItemsAreBranches` (CallLegs_proofs) | `Spec => []ShownItemIsBranch` |
| `DialsKeepTheirLegs` (CallLegs_proofs) | `Spec => []LegsBelongToDial` |
| `AnsweredBeforeConnected` (CallLegs_proofs) | `Spec => []ConnectedWasAnswered` |
| `FrontCallsAreLive` (CallLegs_proofs) | no call in front of the first dialled one keeps a retracted item |
| `LiveUntilDialled` (CallLegs_proofs) | `Spec => [](dials = <<>> => LiveCallHasLiveItem)` |
| `HandleEventKeeps` (CallHandlers_proofs) | what any accepted event does to a well-formed handler |
| `LossReported` (DeviceConnection_proofs) | `Spec => []LossIsReported` |
| `FirstServiceTrue` (DeviceConnection_proofs) | `Spec => []FirstServiceIsTrue` |
| `TypeCorrect` (DeviceConnection_proofs) | `Spec => []TypeOK` |
| `ConnectionIsReal` (DeviceConnection_proofs) | `Spec => []ConnectedIsReal` |
| `Implementation` (DeviceConnection_proofs) | `Spec => ImplementsDevice` |
| `Consistent` (TapiLine_proofs) | `Spec => []Bound` |
| `TypeCorrect` (TapiLine_proofs) | `Spec => []TypeOK` |
| `AnsweredBeforeState` (TapiLine_proofs) | `Spec => []StateAfterReply` |
| `OneAppearanceEach` (TapiLine_proofs) | `Spec => []OneAppearance` |
| `IdFirst` (TapiLine_proofs) | a call that is being dialled is untouched |
| `SuccessIsReal` (TapiLine_proofs) | `Spec => []RepliesAreTrue` |
| `LineFollows` (TapiLine_proofs) | `Spec => []LineFollowsMachine` |
| `DropMayBeRepeated` (TapiLine_proofs) | `Spec => []MarkedCallIsDropped` |
| `LineMovesForward` (TapiLine_proofs) | `Spec => [][MovesForward]_vars`: no call on the line goes back |
| `MachineAsPromised` (TapiLine_proofs) | `Spec => ViewSpec` |
| `TypeCorrect` (ThreadPool_proofs) | `Spec => []TypeOK` |
| `WakeupKept` (ThreadPool_proofs) | `Spec => []NoLostWakeup` |
| `EventsKept` (ThreadPool_proofs) | `Spec => []EachEventOnce` |
| `Implementation` (ThreadPool_proofs) | `Spec => ImplementsQueue` |

None of the properties is inductive alone. `IInv == MachineInv /\ QueueInv /\
RestInv`:

* `MachineInv` says of every handler in the list that it is well formed
  (`HandlerOK`: its branches agree with its data, its state belongs to its
  class), that it is in step with the last notification (`InSync`, which names
  the one exception, a handler that has run out of time silently), that ids in
  the list differ and are below `nextId`, and of every notification that it is
  one TAPI has a state for (`ToldOK`).
* `QueueInv` says that the ids of calls on their way (with a thread, in the
  queue, taken by the poll) are reserved: each once, below `nextId`, never told
  of and not in the list. Uniqueness is not preserved without it.
* `RestInv` types the server and the counters.

The argument: `HandleEventKeeps` shows, for one handler, that every event leaves
it well formed, with the same identity, in a state that the view may show next
(`Follows`). `SettleTells`, `SettleView` and `SettleStep` lift this to the whole
list and to the notifications, `SignalEventStep` to any event with or without an
owner. `QueueStep` reduces every step of the XMPP thread to what it does to the
reserved ids. One lemma per action (`MakeCallAsyncStep` ... `ConnectStep`) shows
that it keeps `IInv` and is a step or a stutter of the view; `NextOK` puts them
together, so invariance and refinement come from one induction.

The theorems of `CallLegs_proofs` relate the handlers to what the server has
published. The first three rest on `LegsInv`, which is inductive together with
`IInv`:

* `BranchesOK`: the branches of a handler are items, each listed once, and the
  item it shows to TAPI is one of them (a dialled call may show none yet).
* `Announced`: the branches of a call that TAPI did not dial are items that the
  server has published.
* `Answered`: a handler in Connected has an answered item: of a dialled call, a
  leg to the number with the call's call-setup-id; of another, an item of the
  same leg.
* `Apart`: no handler of another class has a branch that is a leg of a dialled
  call whose handler is in the list.
* `ServerInv`: published legs belong to requests that were sent, with a
  call-setup-id of at most `clock`, and below it while the poll still has
  requests to handle. So the call-setup-id of a new request differs from that of
  every leg that is already published, though two requests of one poll may share
  theirs.

`HandleEventMoves` says for one handler what an event can do to its branches
(the old ones less what was retracted, and the item of the event) and that a
handler that becomes Connected does so by a confirmed message. Two facts about
recognition do the rest. `DialOwnsLeg`: the handler of a dialled call accepts
every message of its legs, and owners come before new handlers, so a leg whose
call lives never starts a call of its own. And a handler of another class accepts
messages only of the SIP call that it shows, so one that has no leg of the dialled
call gets none. `AddressAssumption`
tells the leg to the number from the leg to the user's phone.

`LiveCallHasLiveItem` is false in general: the handler of a dialled call accepts
every retract, those of other calls too, and takes it from a call behind it in the
list (finding 1). The last two theorems say how far the property reaches. A call
is `InFront` as long as it stands in front of the first call that TAPI ever
dialled, or is that call; handlers are added at the end, so that such a call has
never had the handler of another dialled call before it. `LiveInv`, inductive with
`IInv` and `LegsInv`, adds to the claim what decides who gets a retract:

* `OneCallEach`: two handlers that the server's messages created are of different
  SIP calls, so at most one of them lists an item.
* `DialLegs`: the branches of a dialled call are legs of a request with its
  call-setup-id, and by `Apart` no other kind of handler lists those.
* `FirstDial`: among the handlers of dialled calls in the list the first that was
  dialled stands first.

From these, `RetractFindsCall`: the first owner of a retract is the call in front
that lists the item, and by `RetractedGoes` that call then no longer lists it, or
is dropped and leaves the list in the same step. The claim stops with the first
lost connection, after which the server retracts items unheard. It is about the
first dialled call of all, and not about those that are in the list now, because a
dialled call that has gone may have taken a retract while it was there.

`LossReported` needs no invariant of the session: it rests on `ThreadInv`,
which adds to `LossIsReported` that the thread is in the `Poll` of its loop only
while `fConnected` holds. That is what makes the report of a loss certain at the
only places where `fConnected` is cleared while the thread lives on (`RunTurn`
and `HandleInitEvents`), whatever the init state machine says. The proof has one
step for each action, for any number of openings, losses, failures
and renewals.

`ConnectionIsReal` is the one that needs to know what the init state machine
does, whose list may hold any number of handlers of earlier attempts (a failed
connect leaves its handler in the queue, and only a reconnect empties the list).
`XmppSession_proofs` says of a session, not of the thread:

* `Calm`: at most one handler has taken the login, every other one has not begun
  or has been given up, and none that stands before it could still take the
  login. It needs the link: without one nobody has taken it.
* `OkIsReal`: the last notified state is OK only with the link up and a handler
  in OK.
* `Established`: the login is over, so that all that can still be notified is the
  loss of the connection.

Polls and receipts keep `Calm` and `OkIsReal` (`PollKeepsCalm`,
`ReceiveKeepsCalm`), and `Established` with what it says of notifications
(`PollKeepsEstablished`, `ReceiveKeepsEstablished`). `RealInv` joins them to the
place of the thread: where it waits or connects, the last state is not OK; in its
`Poll` the login is established, and the last state is OK or a notification of a
loss waits to be fetched, which `HandleInitEvents` does before the head of the
loop is reached. A receipt that fails leaves the link down, so that by `OkIsReal`
the last state says so. During a shutdown nothing is claimed of the session:
there the handler that took the login goes through states of its own. The types
are proved first; `RealInv` is inductive only with them.

The refinement of `DeviceView` uses `TypeOK /\ RealInv` and has one lemma per group
of actions. Most steps are stutters. The one that is not obvious is
`RunPollOverPromised`: the code sets the service by the type of the last state and
clears `fConnected` only for one of the types, so that the two go together only
because an established session has no other types than OK and DISCONNECTED left
to notify.

`FirstServiceTrue` uses the refinement: what a step does to the line and to the
connection is a step of `DeviceView` (`StepPromised`), so that only four kinds of
step are left to consider. `FirstInv` adds that the line is in service before the
first connection is made. Only a second opening during an outage makes that
untrue, which is what finding 3 does.

The theorems of the pool hold for any keys, events, failures and any number of
threads, which is at least one (`PoolAssumption`). They rest on `Inv`, which adds
to the types that threads which were not created are nowhere (`NotCreated`:
otherwise creating the next thread might overwrite one that has an event), that
the key of every event a thread has is busy (`HeldBusy`), and that two threads
that have an event have different keys (`KeysApart`: otherwise the first to end
would free the key of the other). `KeysApart` is what makes `Release` keep
`HeldBusy`, and `HeldBusy` is what makes `FindRequest` keep `KeysApart`. With it,
`FindRequest` is `Take` of `KeyedQueue`, `Handle` is `Complete`, `Destroy` is
`ThrowAway`, and all other steps of threads are stutters. `EachEventOnce` is
inductive only with the identity of events in the list, in threads and gone taken
together (`Once`); the lemma `RemovedSequence` says what removing a place from a
sequence does to the places of the others. `NoLostWakeup` is inductive in `Inv`:
the one step that could break it is `FindNothing`, of a thread that has used up
the signal; at that moment no event can run. What makes one able to run again is
`Release`, and the thread that does it looks for more before it waits.

The theorems of the line hold for any number of threads of TAPI, calls,
requests and notices (`LineAssumption` gives the constants their types). `Failed`
changes calls in the steps that answer requests; what it may do to one call is
`CallFailed` (lemmas `FailedType`, `FailedCall`), and every proof about such a step
uses that. Four invariants carry most of the theorems, each proved with those before
it:

* `Bound`: what refers to something refers to a thing that exists. It adds to the
  types that an event which is in the pool or with a thread was notified by the
  machine (`NoticeTrue`: the machine has since only gone further), that a thread
  which handles a request has one of the right command (`ThreadBound`), and that
  an id on the line is one of the machine. A step of one thread must leave this
  true of what the other threads hold, which is why requests never leave
  `requests` and commands never change (`CommandsKept`, `ViewKept`).
* `Replying` adds to `StateAfterReply` that the flag `m_fResponseSent` says that
  there is an answer, and that a thread which goes to `reply` without sending has
  seen that flag. Without the second part a thread that was told "somebody else
  answers" could set a state before anybody did. It also says that a call has one
  request that makes it, so that a failure which removes a call is its own.
* `IdsApart` adds to `OneAppearance` the ids that threads have got from
  `DRV_MakeCall` and not yet put on an appearance (`setCallID`): they are ids of
  calls that TAPI makes, no appearance has them, and no two threads have the same
  one. `UnsolicitedCallEvent` adds no appearance for a call of that kind, which
  is what keeps a fast notice of the new call from making a second one.
* `DialOrder`: until a call that TAPI makes has its id, nothing else is done for it
  (`Untouched`), unless its request has failed and it is IDLE. Its exception is a request that has dialled twice (finding 5): two
  threads then hold an id for one call, and the second to come may replace an id
  for which a success has been told. `Faithful`, of which `RepliesAreTrue` and
  `LineFollowsMachine` are consequences, is false without that exception
  (`Redialled`), and not inductive without `DialOrder`: a thread that puts an id on
  a call of which TAPI has been told something would make that untrue.

`Faithful` then says that what was told of a request (`Truthful`), what a thread
is about to tell or to set (`FollowsUp`), and what the line shows (`ShownTruly`) is
true of the call in the machine. `FaithfulStep` reduces it to two questions about
a step: does every call keep its id until it is over (`CallKept`), and is what the
step adds true? `NextKept` gives the rest: nothing that the machine has notified,
and no dial, is ever taken back.

`DropMayBeRepeated` has an invariant of its own, which is the property for every call
that is not IDLE (`MarksTrue`) and is inductive with `Bound`. `MarksStep` reduces a step
that marks no call to this: the calls that it leaves marked keep every request that
drops them. A request is refused in two kinds of steps. In `ReplyToTapi` it is one of
those for which `Failed` is called (`Failing`), so its call loses the mark. In
`SetCallState` only the end of a call refuses requests, and then the call is IDLE
(`DropsAfter`). An answer of success refuses nothing (`RefusedBefore`).

`LineMovesForward` is an action property: no step takes a call that the line shows
back to an earlier state or out of IDLE. It needs a fifth invariant, `InOrder`, about
the notices on their way: those of one call wait in the order of their states; only
the thread of the pool has one, and never two that differ; and none is of an earlier
state than its call shows. It also needs `Faithful`: what the machine adds is at least
as far as all it has notified, and by `Faithful` the line shows no more than that.
`CallsFollow` says what a step may do to the line's calls: set the state of a notice
that the pool's thread has, or nothing that shows. A call that is dialled twice is
again left out: it shows two calls of the machine in turn, and does go back. No run
checks this property, because it says something only if two states besides IDLE are
notified, and then `TapiLine` has millions of states; `InOrder` and the property were
checked by TLC on such an instance (DIALTONE and CONNECTED, one dialled and one physical
call, 2.8 million states) before they were proved.

`MachineAsPromised` says that the machine part of `TapiLine` keeps `TapiCallView`,
the specification that `CallStateMachine` implements: so the theorems about the line
do not come from a machine that does what it may not do.

The queue of requests is changed by `Without`, a recursive function. What it
returns cannot be proved by induction in the form in which the library offers it
(a theorem with an operator parameter), but by its contraposition: a set of numbers
that is not empty has a least element (`LeastNatural`), so if the function went wrong
there would be a first place where it does (`WithoutType`, `WithoutKeeps`).

Only model-checked: `LiveCallHasLiveItem` behind the first dialled call, where it
is false (run `foreign_retract`, finding 1), and liveness, for the prover does not
handle liveness under fairness or ENABLED. No module needs a RECURSIVE operator.

## 5. What is abstracted

Display names, tags, caller ids and number formats; wording of errors; the
length of time limits (a limit is reached or not); `ExecuteState` context data
of the answers to requests other than what decides about a handler. A message
that gloox receives is delivered while the thread is in `recv`, never inside a
poll, for it is the same thread. Sends fail only by the connection: without one
they are lost; with one that is not subscribed yet they may get through. Login
as such is not modelled in `CallStateMachine`: `Connect` stands for all of it.

In `DeviceConnection`: the keep-alive ping and the question for all
subscriptions change nothing and are left out; call events are the subject of
the other group. Passing events to the thread pool of the line and the line's
reaction to a fatal one are one step. An answer to a worker's step that is gone,
and opening the device while a thread that `_killThreads` has given up is still
running, are undefined behaviour in the code (a deleted object is used) and are
left out; both are listed as hazards. The wait after a failed attempt (30 s) is
longer than the 15 s a handler may stay in a state, so handlers that wait in the
queue are overdue when it ends (`RetryWaitOver`).

In `TapiLine`: caller ids, call data, dialled digits (there is something to dial
or not) and the locks of TSP++, which appear as the places where a step ends.
Not modelled: closing the line while calls exist, `DRV_MakeCall` and
`DRV_DropCall` without a session (by `DeviceView` an open device has its thread, and
with it its session, until it is told to stop) or while the session is out of
service (the request is then queued and meets its time limit), `EnterState` when the
lock is not got within 50 ms, `OnDial` (no application of a click-to-call line uses
it), transfers, conferences and all that TSP++ offers and this provider leaves at its
defaults, more than one line (the provider makes one).

In `ThreadPool`: the count of a key in `m_mapRunning`, which the default
`TPM_CanRunEvent` keeps at 1; what a thread does that ends after the destructor has
given up waiting (10 s), which uses a deleted lock.

## 6. Findings

1. `ForeignRetract`: a handler of a dialled call accepts the retract of every
   item it does not know (`OnSipCallStateMachine.cpp:942`), so a handler after
   it in the list never hears that its call has ended.
2. `DropWithoutBranch`: a drop request may reach a dialled call that has no
   branch yet; the assertion at line 380 fails, or nothing is sent.
3. `Reopened`: the first login of a thread does not mark the line in service
   (`device.cpp:392`), so a line that was closed during an outage stays out of
   service after it is opened again. Until that second opening the service is right
   (`FirstServiceTrue`).
4. `EndedCall`: a drop that waits uses up the IDLE event of its call
   (`dropcall.cpp:84`). A call that a time limit ends has no second one, so the
   drop succeeds, the call stays active on the line, and the line refuses to make
   another one.
5. `DialsTwice`: `ReceiveData` tests whether a request has been started and marks it
   as started in two steps (`Conn.cpp:880`), so the timer and the thread that has
   completed the request before may both start a make call request behind a drop.

Each is a run (a configuration of that name) that TLC ends with a counterexample;
PROJECT.json quotes the lines that say otherwise.

Behaviour that no run asks about, because no line of the repository promises
otherwise or the models only touch it:

* An answer (CONFIRMED) that is on its way when an incoming call is dropped takes
  the call out of PreDropCall and out of its 10 s limit
  (`OnSipCallStateMachine.cpp:625`; line 498 for calls placed on the phone). The
  call still ends by its 3 hours.
* Two calls dialled by one poll may have the same call-setup-id (`clock()`,
  `OnSipCallStateMachine.cpp:742`); then the first takes the legs of the second.
* A connect that fails leaves its handler in the queue (`OnSipXmpp.cpp:367`;
  `Start` empties the list only). After two of them, the handlers of earlier
  attempts take the login, and the handler of this one tears the connection down
  after 15 s.
* The last notified state outlives a login that broke, and the next attempt may
  take it for a refusal and force the line to close (`OnSipTapi.cpp:261`).
* A request may be answered twice: whether it was is read under a lock and
  written after it (`Conn.cpp:395` to 428).
* `OnMakeCall` tells TAPI that a call is made and sets its first state afterwards,
  with the request still waiting (`makecall.cpp:110` to 119). If its time limit passes
  in between, the timer fails the request; TAPI is told nothing more, as it has its
  answer, but `RTMakeCall::Failed` (`Request.cpp:379`) takes the call off the line.
  TLC shows it in 12 steps.
* A call that TAPI closes between the two notices of its end comes back as a new
  one (`unsolicited.cpp:86`).

## 7. Plan

Done: CallEvents, CallHandlers, CallStateMachine, TapiCallView and their proofs,
the legs, branches and retracts of calls included;
InitHandler, XmppSession, DeviceConnection, DeviceView and their proofs;
TapiLine over TapiCallView and its proofs; KeyedQueue, ThreadPool and their proofs.

What could follow: `TapiLine` with a line that is closed and opened, a device that
is not connected, and the loss of the connection as `DeviceView` reports it.
