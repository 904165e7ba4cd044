# A TLA+ model of event_bus

`event_bus` is an asyncio event bus for Python: publishers hand events to a
queue, one dispatch loop takes them out and starts a handler task for every
handler routed for the event's name, middlewares wrap the publishing, and a
library of templates (mailboxes, requests, pipes, idempotent handlers, queues
over a broker) is built on top.  This directory models the part that carries the
logic, checks it with TLC on small instances and proves the main results with
TLAPS for every value of the constants.

All of it runs in one thread.  asyncio switches coroutines only at an `await`, so
throughout **an action is the code between two awaits**, and the interleavings
are those of coroutines at their awaits.  Where nothing awaits (router, handler
registry) an action is one call, or one hook of a loop that calls application code.

## Inventory

| Component | State | Operations | Interacts with | What is hard | What makes it correct |
| - | - | - | - | - | - |
| `EventBus` (`bus.py`) | `_running`, `_enable_publish`, `_state_lock`, dispatch task, active tasks, semaphore | `start`, `stop`, `publish`, dispatch loop, handler tasks, error reports | queue, router, registry, chain | start and stop race with publishes, handlers and each other's failures; a publish passes the gate and waits; timeouts; cancellation | permits conserved, drain kept, failed start leaves nothing behind, running means dispatching, errors reported once, every call ends |
| `EventQueue` (`queue.py`) | queue, unfinished count | `put`, `get`, `task_done`, `join` | bus | back-pressure, `join` against `task_done` | count equals queue, order, at most once |
| `EventRegistry` (`event.py`) | declarations, version | `register`, `unregister` | router | makes the router's table stale | every change moves the version |
| `Router`, `Subscriptions` (`router.py`) | route table, patterns, version, dispatch table | `subscribe`, `unsubscribe`, `clear`, `match`; `add`, `remove`, `replace` | handlers, event registry | a cache invalidated by three parties | `match` answers as if it had no cache |
| `EventHandlerRegistry` (`handler.py`) | handlers by id, bus | `register`, `unregister`, `activate`, `deactivate`, `clear` | handlers' hooks, router | hooks raise half way and call back into the registry | activated is the same as routed |
| `MiddlewareChain` (`middleware.py`) | list, bus, three cached chains | `add`, `insert`, `remove`, `clear`, `setup`, `teardown`, `build_*` | bus, middlewares' hooks | every operation awaits a hook in the middle of its change | cached chain equals list, hooks in pairs |
| `MailboxHandler` (`templates/handlers/mailbox.py`) | queue, task, deactivated flag | `put`, `get`, process loop, activation hooks | registry | late puts, restart, reactivation | no event left with nobody to read it, one process task |
| `expect`, `request` (`templates/expect.py`, `request.py`) | future, active flag | match, filter, timeout | registry, bus | late answers, awaiting filters | one answer, to the right attempt, and an end |
| `InProcessPipe`, `open_pipe`, `expect_pipe` (`templates/pipe.py`) | queue, closed flag, allocator | `send`, `receive`, `open`, `close`, handshake | request, expect | two sides open and close one pipe | what is sent is received, a closed pipe ends its readers |
| Idempotency (`templates/idempotency.py`) | processed set | check, handle, mark | broker queue | redelivery, concurrent duplicates | handled once if it did not fail |
| `RabbitFanoutQueue` (`templates/queues/rabbit/queue.py`) | inbound, unacked, binding, consumer | `put`, `get`, `task_done`, `join`, `resume` | broker | acknowledgements, crash, restart | at least once |
| Forwarding (`middlewares/event_forward.py`) | counters | forward, filter | two buses | loops | every event arrives and stops |
| Rate limit (`middlewares/rate_limit.py`) | window of time stamps | admit or drop | chain | window boundary | never more than the limit in a window |
| Recursion guard (`middlewares/recursion_guard.py`) | none | admit or raise | events' sources | the bounds | chains end |
| `ServiceHandler`, module registers, metrics | processors; collected classes; counters | dispatch, batch registration, counting | request, registry, chain | failure half way | a response to each request; all or nothing; totals add up |
| Codec, block, transform, logging, `simple_handler` | none that is read later | conversions and filters | | | |

`PROJECT.json` lists, at their lines, the hazards behind the column "what is hard".

## What is modelled

### `EventBus.tla`: life cycle and event path

The actors are external publishers inside `_publish`, the dispatch loop, one
handler task per event and routed handler, and the one call of `start()` or
`stop()` that holds `_state_lock`.

* `running`, `enable`, `bound`: the two flags and "the handler registry is
  activated here".  `call` and `at` are the method that holds the lock and the
  await it is suspended in; `dispatch` is the state of the dispatch task.
* `queue`, `unfinished`: the asyncio queue and the count that `join()` watches.
* `waiting`, `handling`, `reporting`: the active handler tasks, before they hold a
  permit, while they do, and while they publish a TaskError after giving it back;
  `sem` is the semaphore.
* `inflight`: publishes past the gate, by stage: in the `before_publish`
  middlewares, blocked in `put`, in the `on_publish` middlewares.
* `calls`, `promised`, `timedOut`, `accepted` are history variables that only the
  properties read.

`Admit` is the test of `_enable_publish`; `MiddlewarePasses`, `Put`, `PublishEnds`
are the awaits of a publish; `Dispatch` is a turn of the loop, with `task_done` in
it; `Acquire`, `HandlerReturns`, `HandlerRaises`, `ReportEnds` are
`_handler_wrapper`; `Start`, `SetupReturns`, `SetupRaises`, `Stop`,
`ShutdownPublished`, `JoinEnds`, `DispatchGone`, `WaitReturns`, `WaitTimesOut`,
`CancelTask`, `WaitRaises`, `TeardownReturns` follow `start`, `_abort_start`,
`stop` and `_wait_all_tasks_done` from await to await.  A handler may publish while
it runs, raise, be cancelled, answer a cancellation with another exception
(`RaisesOnCancel`) or never return (`Hanging`); the caller of `start()` or `stop()`
may be cancelled at any await (`CallerMayCancel`).

Abstracted: payload validation is one of the ways in which a publish fails; event
sources are reduced to the count of the error reporter, which is all that
`_handler_wrapper` reads; the router is the constant `Route`; the chain is awaits
that pass, swallow or reject.  A cancelled handler that does not raise ends in one step.

### `EventDelivery.tla` and `BusDelivers.tla`: what the bus promises

`EventDelivery` has no queue, lock, permit or timeout: events are accepted at most
once, delivered in order of acceptance, at most once, to the handlers routed for
their names; nothing executes while the bus is stopped.  `BusDelivers` maps the
state of `EventBus` to it (`phaseMap`, `channelMap`, `liveMap`) and the property
`Delivers` says that `EventBus` implements it.

### `Router.tla`: routing table, bundles and event declarations

`patterns` and `bound` are the bundles (`Subscriptions`), `routes` the route table
in dict order, `names` and `eventVersion` the event registry, `version`, `table`,
`seen` the router's version, dispatch table and the versions it was built from.  A
pattern is a kind and a text, `FullMatch` the names a regular expression matches.
`TableOf` is `_rebuild` as the code does it: a scan of the entries for each kind of pattern
(`Scan`, `Hits`), exact hits first, then expressions, without repeats (`AppendUnseen`).
`Match` rebuilds when `Fresh` fails.

### `HandlerRegistry.tla`: registration and routes

`key` is `_handlers` inverted, `hid` the id each handler remembers, `hasBus` whether
the registry has a bus, `routed` the ids it has in the route table, `frame`, `todo`,
`visited` the hook loop that is running.  Every hook may raise before or after it
calls `super()`, and hooks may call `register` and `unregister`; in which loops they
do is a constant (`RegistersIn`, `UnregistersIn`).  Hooks that call `activate`,
`deactivate` or `clear` are left out.  The registry's version is left out: nothing
reads it.  `leaked` is history: ids whose own `on_deactivate` raised, for which the
code promises nothing but a report.

### `MiddlewareChain.tla`: the chain between buses, callers and publishes

`list`, `bus`, `cache` are the fields; `op` holds, for each calling task, the call it
is in and the middlewares whose hooks are still to run.  `Add`, `Insert`,
`RemoveCall`, `Clear`, `Start`, `Stop` are the code up to the first await, `Added`,
`AddFails`, `Undone`, `Removed`, `ClearedOne`, `SetUpOne`, `StartFails`,
`RolledBackOne`, `Abort`, `TornDownOne` what follows each await; `Cancel` is a
cancellation of the caller, which no `except Exception` of the chain catches;
`Build` is a publish that builds a chain.  Which calls may overlap is a constant
(`Overlapping`), and no two concern the same middleware.  `live` and `missed` are
history variables.

### `Mailbox.tla`: a queue between handler tasks and a process loop

`queue` is `_queue`, `task` the life whose loop is `_task`, `deactivated` the flag of the
hook.  Every activation starts a loop of its own, and the loop of an earlier life may
still be ending, so `loop`, `hands` and `cancelled` are kept for each life: a
cancellation is a flag until the task runs again.  `Activate` and `Deactivate` are the
hooks, `Dispatch`, `Put`, `GiveUp` the handler tasks (a blocked put may time out or be
cancelled; `AfterPut` is the test of `_deactivated` after it), `Take` to `Cancelled` the
process loop with crashes, restarts and `StopMailbox`.  `process()` is the usual loop of
`get` and work; one that answers its cancellation with another exception is
recorded in `shielded`.  The restart delay has no length.

### `RabbitQueue.tla` and `AtLeastOnce.tla`: a queue over a broker

One member; the others are publishers.  The broker and the reconnecting client are
external and modelled by what the queue relies on: a routed message stays `ready` or
`unsettled` until it is acknowledged, and what a lost connection leaves unacknowledged is
delivered again (`Requeue`).  A copy of an event is named by its connection, because an
acknowledgement over an old one fails in silence (`Arrives`).  `inbound` and `acks` are
`_inbound` and the acknowledgement tasks; `Dispatch` is `get`, the start of the handler
task and `task_done`, between which the dispatch loop does not let anything of this queue
happen.  `Check`, `Handle`, `Mark` are `IdempotentHandler`; `Fails` is whatever raises in
it or is cut off by `handle_timeout`, the mark included.  `Stop` to
`GiveUp` are the awaits of `join()` in both strategies with their deadlines; `Resume`,
`Bound` and `Consumed` are the awaits of a `resume()` of the application, since the bus
makes none.  `bound` and `consuming` are the flags of the queue and `routes` and
`consumer` what the broker has: an unbind or a cancel that fails is swallowed
(`Unbinds`, `Cancels`), a bind or a consume that fails ends the resume (`ResumeFails`), and
flags and broker then disagree.  A count of the backlog that fails is an answer of zero
(`Answer`).  `Close`, `Crash` and `Create` end and
restart the process; a `close()` whose requests fail is taken to lose the connection
all the same.  Queues are sets: no property of the module is about order.

`AtLeastOnce` knows events that are accepted, given and settled, each only after the one
before; it has no copies, connections or acknowledgements.  The property
`AtLeastOnceDelivery` says that `RabbitQueue` implements it with `accepted` as `routed`.

### `Forwarding.tla`: two buses, forwarding and the filters before it

What `make_bidirectional_forward` builds, on two buses with `RateLimit`,
`RecursionGuard`, `EventBlock` and `Metrics` in the documented order before the queue.
An event is its bus and its chain of `sources`; a publish is a record in `calls` whose
stage is the await it is at, and `waiting` is an `on_publish` that awaits the nested
publish on the other bus.  From the enabling test to the put nothing awaits, so
`Verdict` and `Pass` are that part in one step: who drops or rejects the event, and what
the rate limit (its loop drops the stamps in `Expired`) and the counters remember of it.
`Put`, `Skip`, `Forward`, `Return` are the rest.  `Cancel` is the end of a task in a put
that waits, by the `stop()` of its bus, by `handle_timeout` or by its owner: the put and
the forwarding it is nested in (`Stack`) are gone together.  Buses in `Reacting` have a
handler that publishes each event once more.  Buses in `Stopping` close their gate, go
on to dispatch, wait for their handler tasks (`Handling`) and may start again; the
ShutdownEvent that `stop()` publishes and the reports of failed handlers are left out.
The clock is a counter.  Payloads, and with them
the transform middleware, are left out, as is a target provider of the application.

### `Exchange.tla`: requests, expectations and services

A user (`Callers` of `request`, `Watchers` of `expect` with a filter that awaits and may
raise) makes calls one after the other; a one-shot handler is a user and the number of
the call.  `active` is `_active`, `future` the future, `Registered` the handlers that are
routed because their call is not left.  `Begin`, `Put`, `Published`, `Return`, `Timeout`,
`Abandon` are the call; `DispatchRequest`, `DispatchResponse`, `Stop` the bus, with one
life, a queue of `Capacity` places and `Permits` handlers at a time; `Run`, `Respond`,
`NoResponse` a service; `Skip`, `Handle`, `BeginFilter`, `EndFilter` a one-shot
handler's task, with the second look at `_active` in `Decide`, and `CancelJob` its
cancellation by `stop()`.  Services that run, filters that await and users in `Inside`,
which call from a handler, hold a permit (`PermitFree`).  A user in `Patient` waits
without a timeout, and one that is also in `Inside` has a handler without
`handle_timeout`, whose permit nothing takes back.

### `Pipe.tla`: the handshake and the pipe

`stage` is where each context manager is, `requested`, `replies`, `answer` the handshake
in the bus, `allocated` the allocator.  `Exchange` shows what requests do; here the
request reaches whoever expects it when it is dispatched.  `closed` and `queue` are the
fields of `InProcessPipe`.  A `send` that finds the queue full waits (`sending`) and
looks at the room only (`SendOn`).  A `receive` is a get task and a wait for the close
(`receiving`, `got`): cancelling it leaves the get task behind (`orphans`).  `Opens` is
`open()`, which empties a pipe it finds closed.  Servers outside `Sharing` have another
allocator and refuse.

## The runs

| Run | Shows | Instance |
| - | - | - |
| `bus_lifecycle` | queue accounting, clean stop, running means dispatching, no task outlives the activation, the drain promise, and `Delivers` | 2 publishers, 2 handlers, queue of 1, 1 permit, 2 user events, 3 calls |
| `bus_failures` | what survives handlers that raise when cancelled and callers that are cancelled: permits, and no error of an error | 1 publisher, 3 user events, 2 calls |
| `bus_liveness` | every `start` and `stop` ends and every queued event is dispatched while the loop runs, although a handler hangs with the only permit, raises when cancelled, or a caller is cancelled | 1 publisher, 2 events, 2 calls |
| `bus_zombie` (violation) | a handler that raises when cancelled leaves a bus that "runs" without a dispatch loop | 1 publisher, 2 events, 3 calls |
| `router_cache` | `match` is never stale, and the table is what a direct reading of the patterns gives | 2 handlers, 3 bundles, 3 patterns, 2 names |
| `registry_failures` | registered and routed agree between calls, also after an activate that failed | 3 handlers, every hook may raise, 4 ids |
| `chain_calls` | cached chains follow the list, hooks come in pairs, none is set up twice, a running bus has its chain | 3 middlewares, 2 callers, 1 bus |
| `mailbox` | nothing stays or is worked on offline, one loop at a time, each event once and in order, what is queued is served and blocked puts end | mailbox of 1, 3 events, 3 lives |
| `rabbit` | `AtLeastOnceDelivery`, the broker's accounts, repeats only for the known causes, and dispatch of what is routed in the end, through requests that fail | 1 event and 1 undecodable one, both strategies, lasting recorder, prefetch 2, 3 connections, 1 stop and restart |
| `forwarding` | no echo, bounded chains, every counter adds up but for cancelled publishes, the rate limit in every window, and everything ends | 2 publishers, queues of 1, limit of 3 in a window of 1 tick, 2 ticks, chains of 3, 1 stop |
| `exchange` | answers find their own attempt, one match for each handler, no answer passes its call by, a call with a timeout ends, and an answered one without | 2 callers and 1 watcher; the watcher and one caller in handlers and without timeout; 1 service, 3 calls, queue of 1, 2 permits, 1 stop |
| `pipe` | open means accepted, messages in order and once, none lost without a known cause, a close ends the receives | 1 client, 2 servers, one with another allocator, queue of 1, 3 messages, 1 cancelled receive |

**Bounds.** `MaxEvents` bounds what the application publishes: two events fill a
queue of one place with a second publish blocked behind it, which is what
back-pressure, late puts and the drain need; three give the whole error path (a
failure, its report, a failure of the report's handler, a failure of what that
handler published).  `MaxCalls` = 3 is start, stop, start, so leftovers of one life
meet the next; with failed starts it is a retry after a retry.  One permit with two
handlers makes every wait for the semaphore happen.  `MaxVersion` = 3 lets a router
change, be rebuilt, change twice and be asked again.  `MaxIds` = 4 with three
handlers lets one be registered again.  The chain needs no bound.

Three lives of a mailbox let a blocked put meet a deactivation and the next
activation, and a shielded loop stand beside its successor twice; three events are one at
work, one queued, one blocked.  Three connections are a crash, a loss and the redelivery
of what both left, with a join before, between or after them whose requests may fail, and a
resume that may have to be repeated; the undecodable event takes one place of a window of
two, and with a second one nothing would be dispatched any more (Divergences).  In
`forwarding`, three requests in a window with two ticks put stamps on both edges;
`MaxChain` = 3 is a publish, a forward and a reaction on the other bus, and the next
reaction is beyond both limits.  Three calls of an exchange are an attempt, its retry and
a call of somebody else; two permits let two calls from handlers hold them all, and one
such call share them with the service and the one-shot handlers.  Three messages over a
pipe of one place are one queued, one blocked and one taken, from either side.

**Deadlock.** Every configuration says `CHECK_DEADLOCK FALSE`: a stopped bus with
nobody calling really stops, and the bounds above end every behaviour.

**Fairness.**  asyncio runs every ready coroutine, so throughout each step that needs
nobody outside the loop is weakly fair, and what applications and brokers decide is not.

* `bus_liveness`: the dispatch loop, each publish that
  has room, acquiring a permit (the semaphore is first come, first served, but weak
  fairness of *some* waiter is all that is used), and each step of a call.  `setup`,
  `teardown` and the handlers with a timeout end by fairness because `handle_timeout`
  ends a handler and the middlewares' hooks are assumed to return; a handler in
  `Hanging` is given none.  `WaitTimesOut` is fair because `tasks_timeout` is finite;
  `stop()` may always give up on `join()`, because its timeout is finite.
* `Mailbox`: puts that have room, each loop's get, and that `process()` ends its work on
  an event somehow (it finishes, fails or stops).  No activation and no event is fair.
* `RabbitQueue`: the broker delivers to a consumer with room, the loop runs its
  tasks, and, because nothing else would, the application starts, creates and resumes.
  Two steps are strongly fair: the deadline of the offline drain (`Deadline`), which asks
  and is answered in turn, because 15 s end however often it asks; and `Consumed`,
  because an application that resumes again and again meets a broker that accepts its
  consumer in the end.  Crashes, lost connections, failing requests and stops are not
  fair; crashes, lost connections and stops are bounded.
* `Forwarding`: handler tasks, calls that can go on, and the dispatch of a bus that is
  up or drains.  A stopped bus need not start again, and no cancellation is fair:
  `AllEnds` does not count on them.
* `Exchange`: returns, timeouts of users that have one, the dispatch, a put that has
  room, one-shot handlers that get a permit and filters, which are assumed to end because
  a one-shot handler has no `handle_timeout`.  The step of a service is fair because a
  `ServiceHandler` has the default `handle_timeout` of 32 s; it need not answer.
  `CallsEnd` asks nothing of a call without a timeout until somebody has answered it.  Nor
  does it if the bus stops (it may end before it dispatches the answer), or if calls
  from handlers without any timeout hold every permit for good (`Starved`), in which case
  the job that hears the answer never runs.  The publish of a request is outside its
  timeout (`request.py:99`): a call with a timeout is excused if the bus ends
  with a full queue.  Without either excuse the property fails.
* `Pipe`: the steps of a receive only.  No side has to send, receive or leave.

## Proofs

TLAPS checks eight modules.

* `EventBusProofs`: `TypeCorrect`, `QueueCorrect`, `PermitsCorrect`, `DrainCorrect`
  and `NoCascade` hold for all constants.  The permits need that a task is in one of
  the three states only, and that needs ids to be unique across queue, publishes and
  tasks (`IdsUnique`); the drain needs, beyond the property, that at the moment
  `join()` is woken no promised event is queued and that only fresh events enter
  (`DrainInv`).  `StopsClean` and `RunsWhenRunning` follow from one
  invariant of the life cycle (`Lifecycle`: for each await, what the flags, the
  dispatch task and the set of tasks are) under `WellBehaved`: no handler answers a
  cancellation with another exception, and callers are not cancelled.  `bus_zombie`
  shows that the assumption is needed.  `TasksBound` needs less: callers may be cancelled
  at every await (`HandlersEnd`), because whatever deactivates the handlers finds a dead
  loop and no task (`Attached`).  `DeliversCorrect` is the refinement under the same
  assumption: the initial states of `EventBus` are initial states of `EventDelivery` and
  each step is one of its steps or a stutter.  It needs `IdsUnique`, that two tasks with
  one id are of one event (`TasksNamed`), and `Attached`.
* `RoutingProofs`, of the router: `TypeCorrect`; and under `BundlesAreOwn` (no bundle is
  given to two handlers) `BoundCorrect`, `TableCorrect` and `MatchCorrect`.  The invariant
  behind them says that a bundle knows the router exactly if it is routed, so every change
  of a routed bundle moves the version, and that a table built from the current versions
  was built from the current routes.  That such a table has exactly the handlers that match
  is a fact about `TableOf` and not about steps: its folds are shown to take one entry after
  the other (`FoldExists`, `ScanSteps`), and what they contain and how often then follows
  by taking the first entry at which it fails (`Least`), for routes of any length.
* `RoutingProofs`, of the handler registry: `RegistryTypeCorrect`, and `RegistryCorrect` under
  `Orderly`, the discipline of hooks that the divergences below break: hooks of an
  activate that may fail, of deactivate and of clear register nobody, the rollback
  unregisters nobody, and a handler that keeps its id when it is unregistered is not
  unregistered inside an activate.  The invariant follows the loop: what has been visited
  is routed (or withdrawn), what is still to do is not (or is).  The theorem is wider than
  the run: it includes hooks of `activate` that register and unregister.
* `MiddlewareChainProofs`: `TypeCorrect` for all constants; `HooksCorrect`, `SetUpCorrect`
  and, for one bus, `FollowsCorrect` under `OnlyChangesOverlap` (only adds, their
  undoing and removes overlap or are cancelled).  A walk over the whole list is then
  alone: the invariant (`Alone`) says how far it is, and while changes overlap (`Together`)
  each middleware is set up exactly if it is listed on a bound chain or some call is
  in the middle of its hook.  `CacheCorrect` needs no assumption at all, whatever overlaps
  or is cancelled: at every moment a cached chain is the list but for the middlewares in
  `missed` and those of changes that are still in a hook (`Doubtful`), in the same order.
* `MailboxProofs`: `TypeCorrect`, `BacklogCorrect`, `ConsumerCorrect`.  Beyond the
  properties the invariant says that a handler is never active and deactivated and that
  it is active exactly if it has a task, so an activation always finds none.
  `OrderCorrect` (`OnceInOrder`) follows the events along their way: what was worked on
  comes before what is in the queue, that before what waits to enter, without repeats.
* `RabbitQueueProofs`: `TypeCorrect`, which counts that an event is handled at most once
  over each connection; `BrokerCorrect`, `DrainCorrect`, `RepeatsCorrect` and
  `DeliveryCorrect`, the refinement.  `DrainCorrect` speaks of a broker without a
  consumer, and not of a flag: a cancel that failed leaves the consumer, and the broker
  goes on to deliver.  The refinement needs that what is acknowledged was
  dispatched (`GivenFirst`) and that a copy of the present connection is of an event that
  is out: a copy of an older one may be of an event that is settled, and giving it
  again is a stutter because it was given before.
* `ForwardingProofs`: `TypeCorrect`, `EchoCorrect`, `BoundCorrect`, `ForwardsCorrect`,
  `PublishesCorrect` and `WindowCorrect`, for any publishers, names, limits, reacting and
  stopping buses.  `ChainsSound` says of every event, also of those still on their way in a
  queue or a nested publish, that its chain is within both bounds and that the forwarding of
  its own bus is not in it, from which the absence of echoes follows.  The counters add up
  only because no event is published twice: `CallsApart` says that an event is in
  one call, one queue or one task, and that what it will yet give rise to (its copy,
  its reaction) does not exist before; `Counted` then relates each counter to a set of
  events and to the calls that were cancelled, each of which is one of a kind
  (`LostApart`).  A cancelled `on_publish` is in none of the three counters of the
  forwarding, and a cancelled put is in the total and not in the errors: both theorems
  say so.  For the rate limit `Rated` says that the bucket is the end of all
  admissions, that what it has dropped is out of the window, and that of any limit + 1
  successive admissions the first and the last are more than a window apart.
* `ExchangeProofs`: `TypeCorrect`, `AnswerCorrect`, `MatchCorrect`, `KeptCorrect`.  A
  handler that has matched is not active, and cannot become so again because attempts are
  numbered.  That no answer passes its call by (`Heard`) needs that the bus knows of no
  call that has not begun (`BeganInv`), so that a new call has no answers yet, and that a
  call which has nothing is still listened for (`Listens`), so that the job of its answer
  accepts and never skips.  That the guard on the sum of all attempts bounds each of them
  (`SumBounds`) needs finitely many users, which `ExchangeAssumption` says.
* `PipeProofs`: `TypeCorrect`, with the limit of the queue (`Limits`); `OpenCorrect`,
  `OrderCorrect`, `KeepsCorrect`.  The invariant orders the
  messages of one sender along their way: what was received comes before what a get task
  holds, that before the queue, that before what waits to enter.

Every safety property, action property and refinement of the passing runs is a theorem now,
under the assumptions named above; the divergences below show what happens where hooks,
handlers or bundles are outside them.  Left to TLC: liveness and fairness, which TLAPS cannot
do (`ENABLED`), that is the temporal properties of `bus_liveness`, `mailbox`, `rabbit`,
`forwarding`, `exchange` and `pipe`; and `bus_zombie`, which is a violation.  The library's
induction theorems take an operator as a parameter and cannot be used, so the lemmas about
folds and about windows of sequences argue by the least counterexample.

Some invariants are stated and left out of the runs, because a theorem has them for all
constants or because they say little about the code: the type invariants (proved for every
module), `BoundIsRouted`, `NothingRoutedOffline`, `NothingLocalAfterJoin`.
No module that a proof reaches declares a recursive operator.

## Divergences from what the repository says

One is a run (`bus_zombie`) and is recorded, with the lines quoted, in `PROJECT.json`:
`stop()` fails half way and leaves a bus that nothing can stop or start.  The models
contain the others.  Those of the first table can be seen by running a property, some of
them defined in the modules and false, on a small instance; those of the second were
met while reading and are either steps of the models or outside them.

| Where | What happens | How to see it |
| - | - | - |
| `bus.py:278` | the gate is read on entry only: a publish that waits behind it puts its event after `stop()` closed it, although `docs/en-US/bus.md:126` says no new event enters | `bus_lifecycle` with the property `NoPutWhileStopping` |
| `bus.py:235` | a caller cancelled in `start()` gets no rollback, since CancelledError is no Exception, and one cancelled in `stop()` leaves it half done: the bus says it runs and does not | `bus_lifecycle` with `CallerMayCancel` = TRUE: `RunningDispatches` |
| `bus.py:259` | a failed start logs an exception of a cancelled handler and leaves the tasks after it alive on deactivated handlers | `bus_lifecycle` with `RaisesOnCancel` = {h1}, `Route` <- `RoutePair`: `StoppedIsClean` |
| `bus.py:298` | `is_running` turns false before the teardown, which `docs/en-US/bus.md:97` says it does not | `Stop` to `TeardownReturns` |
| `bus.py:384` | an event is acknowledged when its handler tasks exist: one whose handler fails is not delivered again, although `templates/idempotency.py:22` counts on it | `rabbit` with the invariant `AckedIsHandled` |
| `router.py:222` | exact hits come before regular expressions, although the docstring of `match` (`router.py:191`) and `docs/en-US/router.md:78` promise the order of subscription | `router_cache` with the invariant `MatchInSubscriptionOrder` |
| `router.py:164` | one bundle under two ids: withdrawing one silences the other | `router_cache` with one bundle for both handlers: `TableIsCurrent` |
| `handler.py:176` | the rollback of a failed activate walks those it tried, not those a hook registered (`:161`), which stay routed, although `:164` promises no ghost routes | `registry_failures` with `RegistersIn` = {"activate"}: `NothingRoutedOffline` |
| `handler.py:175` | a rollback hook that unregisters a handler not yet rolled back leaves its route | the same with `UnregistersIn` = {"rollback"} |
| `handler.py:201` | a hook of `deactivate` that registers a handler leaves it routed | the same with `RegistersIn` = {"deactivate"} |
| `middleware.py:127`, `:120` | an add that fails or is cancelled does not drop the cached chains: the rejected middleware stays in them, or the listed one stays out | `missed` in `CacheCurrent` |
| `middleware.py:188` | clear forgets, without teardown, a middleware that is added while it awaits a hook | `chain_calls` with `Overlapping` = {"add", "clear"}: `HooksPaired` |
| `middleware.py:218` | a failing setup does not tear down a middleware added meanwhile | the same with {"add", "setup", "rollback"} |
| `middleware.py:252` | a chain that moves to a second bus keeps its cached handler and publishes into the first | `chain_calls` with two buses: `EndsInOwnBus` |
| `middleware.py:233` | the rollback of a second bus that is given the chain of a running one tears that chain down | `chain_calls` with two buses: `ChainFollowsBus` |
| `mailbox.py:159` | a `process()` that answers its cancellation with another exception is restarted and goes on beside the next life's, which `docs/en-US/templates/handlers/mailbox.md:16` calls strictly serial | `mailbox` with `OneConsumer` without `shielded` |
| `queue.py:256` of Rabbit | the offline drain looks at what is local and then awaits the broker's count; a message delivered in between is in neither, and `join()` returns with it undispatched | `Ask`, `Deliver`, `Answer` of `RabbitQueue` |
| `pipe.py:318` | a server opens after it has answered: a client that sent and closed by then finds its data thrown away, and the server waits for ever | `pipe` with `NothingLost` without `reopened` |
| `pipe.py:113` | the get task of a cancelled receive takes the next message, which is lost | `pipe` with `NothingLost` without `cancels` |

| Where | What the code does | What it is said to do |
| - | - | - |
| `event_forward.py:132` | awaits the nested publish, including a put that waits for room | "asynchronous and non-blocking" (`event_forward.md:261`) |
| `event_forward.py:131` | a cancelled `on_publish` is in none of the three counters (`Cancel` in `Forwarding`) | forwarded, failed or skipped |
| `metrics.py:214` | a cancelled publish is in `publish_total` and not in `publish_errors_total` (`Cancel`) | failed publishes count toward both (`metrics.md:121`) |
| `request.py:99` | the publish is outside the timeout and may wait on a full queue; a bus that stops does not dispatch the answer (`CallsEnd` in `Exchange`) | a timeout of the call |
| `bus.py:339` | a handler that awaits `request()` holds its permit, which the service and the one-shot handler need too (`Starved`) | nothing |
| `event_forward.py:133` | counts as forwarded what the target drops on the way | a count of forwarded events |
| `event_forward.py:259` | what a handler publishes through its proxy in reaction to a forwarded event carries the chain of sources, and is not forwarded back | "will still be forwarded normally" (`event_forward.md:242`) |
| `metrics.py:212` | never sees a rate-limited event, which is dropped before it | counts them in `publish_total` (`metrics.md:217`) |
| `metrics.py:103` | counts each value in one bucket | buckets of upper bounds, cumulative in Prometheus |
| `rate_limit.py:77` | spends quota on events that a later middleware or the core rejects | a limit of publishes |
| `recursion_guard.py:88` | `max_depth=0` rejects every chained event | unlimited (`recursion_guard.md:133`) |
| Rabbit `queue.py:212` | join stops consuming and only `resume()` starts it, which the bus never calls: a restarted bus gets nothing unless the application resumes its queue | restart "resumes" |
| Rabbit `queue.py:217` | `_bound` is set before the bind: one that fails is never tried again (`ResumeFails`) | restart "resumes" |
| Rabbit `queue.py:203`, `:236` | an unbind or a cancel that fails is swallowed with its flag cleared: the broker goes on to route or to deliver (`Unbinds`, `Cancels`) | nothing |
| Rabbit `queue.py:266` | a count of the backlog that fails ends the drain as if it were zero (`Answer`) | nothing |
| Rabbit `queue.py:151` | an undecodable message is never acknowledged and keeps its place in the prefetch window | nothing |
| `request.py:34` | `raise_if_failed` does not raise for a failure without a message | raises if the response failed |
| `pipe.py:38` | one queue for both sides: a side may receive its own message | bidirectional |
| `pipe.py:105` | `send` on a full pipe waits, and is not woken by `close` | raises when full (`pipe.md:73`; `pipe.md:345` says it blocks) |
| `pipe.py:249` | a client that times out leaves a server that answered with an open pipe and nobody at its other end | a handshake |
| `service.py:129` | a subclass that overrides a method for another request keeps the parent's registration, which then calls the new method | overriding replaces it |
| `register.py:165` | an unregister that raises ends the rollback of an atomic batch and replaces its exception | all or nothing (`register.md:226`) |

Two documentation snippets are out of date without consequences for the models:
`docs/en-US/router.md` shows an `on_activate` that skips empty bundles, which the code
does not, and `docs/en-US/bus.md:92` says `is_running` is false during `start()`, which
sets the flag before it awaits the middlewares.

## Plan

Every component that keeps state across awaits is modelled.  What is left, in this order:

1. A handler that calls `bus.stop()` from its own task, in `EventBus`, and the proofs
   about its life cycle with it.
2. The mailbox and the idempotent handler composed with `EventBus`, instead of with
   the part of it that each module has now.

## Not modelled

* `templates/register.py`: `register_all_handlers` is a sequence of the calls of
  `register` and `unregister` that `HandlerRegistry` has as actions in any order; the
  collected classes are filled at import.
* `templates/queues/codec.py`: it converts one event at a time, and what it converts is
  pydantic's.  That a message may not decode is in `RabbitQueue`.
* `middlewares/logging.py`: output, with no state that a later publish reads.
* `templates/simple_handler.py`: it makes a class.
* The table that `ServiceHandler.__init_subclass__` collects, once, when a class is
  made; the histogram of the metrics and their bridges to Prometheus and OpenTelemetry;
  the functions of the transform middleware, which change data that the model does
  not tell apart.
* `asyncio` itself, the abstract broker behind the queue and the file of the SQLite
  recorder, which are outside the repository; the queue's use of the broker is an
  external definition.
* A handler that calls `bus.stop()` waits for itself until `tasks_timeout`; `stop()` is
  modelled as called from outside.
