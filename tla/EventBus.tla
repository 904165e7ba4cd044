------------------------------- MODULE EventBus -------------------------------
(***************************************************************************)
(* The life cycle and the event path of EventBus (event_bus/bus.py) over   *)
(* an EventQueue (event_bus/queue.py).                                     *)
(*                                                                         *)
(* asyncio runs one coroutine at a time and switches only at an await, so  *)
(* an action is the code between two awaits.  The coroutines are           *)
(*                                                                         *)
(*   - external publishers inside EventBus._publish,                       *)
(*   - the dispatch loop,                                                  *)
(*   - one handler task (_handler_wrapper) per event and routed handler,   *)
(*   - the holder of _state_lock, inside start() or stop().                *)
(*                                                                         *)
(* The router and the handler registry are reduced to the constant Route   *)
(* and to bound, "the registry is activated on this bus"; the middleware   *)
(* chain to awaits that may pass, swallow or reject a publish.             *)
(***************************************************************************)
EXTENDS Naturals, Sequences, FiniteSets

CONSTANTS
  Publishers,       \* external coroutines that publish
  Handlers,         \* the registered handlers
  UserNames,        \* event names the application publishes
  Shutdown,         \* ShutdownEvent.name
  TaskError,        \* TaskErrorEvent.name
  Route,            \* Route[n]: the handlers Router.match(n) resolves to
  MaxQueue,         \* capacity of the queue, 0 for unbounded
  MaxSem,           \* max_handler_semaphore
  MaxEvents,        \* bound: no user event is published after this many events
  MaxCalls,         \* bound: calls of start() and stop() that do something
  RaisesOnCancel,   \* handlers that answer a cancellation with another exception
  Hanging,          \* handlers with handle_timeout = None that may never return
  CallerMayCancel,  \* may the caller of start()/stop() be cancelled while it waits?
  Bus               \* stop() as the publisher of the Shutdown event

Names == UserNames \cup {Shutdown, TaskError}

ASSUME NamesAssumption ==
  /\ Shutdown \notin UserNames
  /\ TaskError \notin UserNames
  /\ Shutdown # TaskError
ASSUME RouteAssumption == Route \in [Names -> SUBSET Handlers]
ASSUME BoundsAssumption ==
  /\ MaxQueue \in Nat
  /\ MaxSem \in Nat \ {0}
  /\ MaxEvents \in Nat
  /\ MaxCalls \in Nat
ASSUME HandlersAssumption ==
  /\ IsFiniteSet(Handlers)
  /\ RaisesOnCancel \subseteq Handlers
  /\ Hanging \subseteq Handlers
  /\ CallerMayCancel \in BOOLEAN

(* reports counts 'EventBusErrorReporter' in Event.sources, which an event  *)
(* inherits from the event whose handler publishes it.                      *)
Event == [id : Nat, name : Names, reports : Nat]
Task == [event : Event, handler : Handlers]

(* stop() is no application coroutine and no handler task.                  *)
ASSUME BusAssumption == Bus \notin Publishers /\ Bus \notin Task

VARIABLES
  running,     \* _running
  enable,      \* _enable_publish
  bound,       \* the handler registry is activated on this bus
  call,        \* which method holds _state_lock: "none", "start", "stop"
  at,          \* the await that method is suspended in
  dispatch,    \* the dispatch task: "none", "running", "cancelling", "dead"
  queue,       \* the events in _queue
  unfinished,  \* the queue's count of events without a task_done
  sem,         \* free permits of _handler_semaphore
  waiting,     \* handler tasks waiting for a permit
  handling,    \* handler tasks inside handler(bus, event), holding a permit
  reporting,   \* handler tasks publishing a TaskError, permit released
  inflight,    \* publishes past the gate: [by, stage, event]
  issued,      \* events built so far (their ids are 1..issued)
  calls,       \* history: calls of start() and stop() so far
  promised,    \* history: ids queued when stop() closed the gate
  timedOut,    \* history: that stop() gave up waiting for the queue to drain
  accepted     \* history: ids ever put into the queue

opVars == <<call, at>>
taskVars == <<sem, waiting, handling, reporting>>
queueVars == <<queue, unfinished>>
flagVars == <<running, enable, bound>>
callVars == <<calls, promised, timedOut>>
histVars == <<callVars, accepted>>
vars == <<flagVars, opVars, dispatch, queueVars, taskVars, inflight, issued, histVars>>

Stages == {"before", "put", "after"}
Awaits == {"idle", "setup", "publish", "join", "joined", "dispatch", "wait",
           "cancel", "failing", "teardown"}

Active == waiting \cup handling \cup reporting       \* _active_tasks
QueueIds == {queue[i].id : i \in DOMAIN queue}
Publishing(x) == \E f \in inflight : f.by = x
DropOf(x) == {f \in inflight : f.by # x}
HasRoom == MaxQueue = 0 \/ Len(queue) < MaxQueue     \* ~asyncio.Queue.full()

Init ==
  /\ running = FALSE /\ enable = FALSE /\ bound = FALSE
  /\ call = "none" /\ at = "idle"
  /\ dispatch = "none"
  /\ queue = <<>> /\ unfinished = 0
  /\ sem = MaxSem /\ waiting = {} /\ handling = {} /\ reporting = {}
  /\ inflight = {} /\ issued = 0
  /\ calls = 0 /\ promised = {} /\ timedOut = FALSE /\ accepted = {}

-------------------------------------------------------------------------------
(* Publishing: _publish and _core_publish                                   *)

(* Past the gate: the publish enters the before_publish chain.              *)
Admit(others, x, name, reports) ==
  /\ issued' = issued + 1
  /\ inflight' = others \cup
       {[by |-> x, stage |-> "before",
         event |-> [id |-> issued + 1, name |-> name, reports |-> reports]]}

(* An application coroutine publishes; when the gate is closed the call     *)
(* raises and changes nothing.                                              *)
Publish(p, n) ==
  /\ enable
  /\ ~Publishing(p)
  /\ issued < MaxEvents
  /\ Admit(inflight, p, n, 0)
  /\ UNCHANGED <<flagVars, opVars, dispatch, queueVars, taskVars, histVars>>

(* The chain reaches _core_publish, which validates and builds the event.   *)
MiddlewarePasses(f) ==
  /\ f.stage = "before"
  /\ inflight' = (inflight \ {f}) \cup {[f EXCEPT !.stage = "put"]}
  /\ UNCHANGED <<flagVars, opVars, dispatch, queueVars, taskVars, issued, histVars>>

(* The publish moves on to the on_publish chain.                            *)
(* Mutant for Delivers: put is retried although it has succeeded.           *)
StillPutting(f) == UNCHANGED inflight
PutDone(f) == inflight' = (inflight \ {f}) \cup {[f EXCEPT !.stage = "after"]}

(* queue.put waits for room, then appends.                                  *)
Put(f) ==
  /\ f.stage = "put"
  /\ HasRoom
  /\ queue' = Append(queue, f.event)
  /\ unfinished' = unfinished + 1
  /\ accepted' = accepted \cup {f.event.id}
  /\ PutDone(f)
  /\ UNCHANGED <<flagVars, opVars, dispatch, taskVars, issued, callVars>>

(* A publish of an external publisher or of a handler body ends: the        *)
(* on_publish chain is done; or a middleware swallowed the event or raised, *)
(* or validation failed.  After an error the on_publish_error chain runs    *)
(* and the publisher gets the exception; what a handler body then does is   *)
(* its own step.                                                            *)
PublishEnds(f) ==
  /\ f.by \in Publishers \cup handling
  /\ f.stage \in {"before", "after"}
  /\ inflight' = inflight \ {f}
  /\ UNCHANGED <<flagVars, opVars, dispatch, queueVars, taskVars, issued, histVars>>

-------------------------------------------------------------------------------
(* The dispatch loop                                                        *)

(* task_done; bringing the count to 0 wakes a stop() inside join().         *)
(* Mutant for QueueAccounted: only for an event with a handler.             *)
Woken(left) == IF at = "join" /\ unfinished' = left THEN "joined" ELSE at
TaskDoneIfRouted ==
  /\ unfinished' = IF Route[Head(queue).name] = {} THEN unfinished ELSE unfinished - 1
  /\ at' = Woken(0)
TaskDone == unfinished' = unfinished - 1 /\ at' = Woken(0)

(* Mutant for QueuedIsDispatched: the loop waits for a free permit.         *)
HasEventAndPermit == dispatch = "running" /\ running /\ queue # <<>> /\ sem > 0
HasEvent == dispatch = "running" /\ running /\ queue # <<>>

(* One turn of _dispatch_loop: the body after queue.get has no await.       *)
Dispatch ==
  /\ HasEvent
  /\ LET e == Head(queue) IN
       waiting' = waiting \cup {[event |-> e, handler |-> h] : h \in Route[e.name]}
  /\ queue' = Tail(queue)
  /\ TaskDone
  /\ UNCHANGED <<flagVars, call, dispatch, sem, handling, reporting,
                 inflight, issued, histVars>>

(* The cancelled loop ends at its await of queue.get.                       *)
DispatchDies ==
  /\ dispatch = "cancelling"
  /\ dispatch' = "dead"
  /\ UNCHANGED <<flagVars, opVars, queueVars, taskVars, inflight, issued, histVars>>

-------------------------------------------------------------------------------
(* Handler tasks: _handler_wrapper and _on_task_done                        *)

Acquire(t) ==
  /\ t \in waiting
  /\ sem > 0
  /\ sem' = sem - 1
  /\ waiting' = waiting \ {t}
  /\ handling' = handling \cup {t}
  /\ UNCHANGED <<flagVars, opVars, dispatch, queueVars, reporting, inflight,
                 issued, histVars>>

(* The body publishes through its Proxy: the new event inherits sources.    *)
HandlerPublishes(t, n) ==
  /\ t \in handling
  /\ enable
  /\ ~Publishing(t)
  /\ issued < MaxEvents
  /\ Admit(inflight, t, n, t.event.reports)
  /\ UNCHANGED <<flagVars, opVars, dispatch, queueVars, taskVars, histVars>>

(* async with: the permit goes back however the body is left.               *)
(* Mutant for PermitsConserved: the permit of a cancelled body is lost.     *)
PermitBackUnlessCancelled(t) == sem' = IF t \in handling /\ at # "cancel" THEN sem + 1 ELSE sem
PermitBack(t) == sem' = IF t \in handling THEN sem + 1 ELSE sem
Leave(t) ==
  /\ t \in handling
  /\ PermitBack(t)
  /\ handling' = handling \ {t}

(* The body returns, or lets BusShuttingDown escape, which is swallowed.    *)
HandlerReturns(t) ==
  /\ Leave(t)
  /\ ~Publishing(t)
  /\ UNCHANGED <<flagVars, opVars, dispatch, queueVars, waiting, reporting,
                 inflight, issued, histVars>>

(* Only the failure of an event no reporter has touched is reported.        *)
(* Mutant for NoErrorCascade: the test looks at the event's own name.       *)
ReportableByName(t) == t.event.name # TaskError
Reportable(t) == t.event.reports = 0

(* The body raises or handle_timeout expires, wherever it waits: a          *)
(* TaskError is published if the event is reportable and the gate is open.  *)
HandlerRaises(t) ==
  /\ Leave(t)
  /\ IF Reportable(t) /\ enable
       THEN /\ Admit(DropOf(t), t, TaskError, t.event.reports + 1)
            /\ reporting' = reporting \cup {t}
       ELSE /\ inflight' = DropOf(t)
            /\ UNCHANGED <<issued, reporting>>
  /\ UNCHANGED <<flagVars, opVars, dispatch, queueVars, waiting, histVars>>

(* The TaskError publish returns or fails; the task ends with the           *)
(* handler's exception, which _on_task_done logs.                           *)
ReportEnds(f) ==
  /\ f.by \in reporting
  /\ f.stage \in {"before", "after"}
  /\ inflight' = inflight \ {f}
  /\ reporting' = reporting \ {f.by}
  /\ UNCHANGED <<flagVars, opVars, dispatch, queueVars, sem, waiting, handling,
                 issued, histVars>>

-------------------------------------------------------------------------------
(* start() and stop(), one holder of _state_lock at a time                  *)

Await(point) == at' = point /\ UNCHANGED call
Unlock == call' = "none" /\ at' = "idle"

(* start() on a stopped bus: activates the handlers, creates the dispatch   *)
(* task, raises both flags, then awaits the middleware chain's setup.       *)
Start ==
  /\ call = "none" /\ ~running /\ ~bound
  /\ calls < MaxCalls
  /\ calls' = calls + 1
  /\ call' = "start" /\ at' = "setup"
  /\ bound' = TRUE /\ running' = TRUE /\ enable' = TRUE
  /\ dispatch' = "running"
  /\ UNCHANGED <<queueVars, taskVars, inflight, issued, promised, timedOut, accepted>>

SetupReturns ==
  /\ at = "setup"
  /\ Unlock
  /\ UNCHANGED <<flagVars, dispatch, queueVars, taskVars, inflight, issued, histVars>>

(* A middleware's on_setup raises: _abort_start cancels the dispatch task.  *)
(* Mutant for RunningDispatches: the exception leaves start() at once.      *)
SetupRaisesUnhandled ==
  /\ at = "setup"
  /\ Unlock
  /\ dispatch' = "cancelling"
  /\ UNCHANGED <<flagVars, queueVars, taskVars, inflight, issued, histVars>>
SetupRaises ==
  /\ at = "setup"
  /\ Await("dispatch")
  /\ dispatch' = "cancelling"
  /\ UNCHANGED <<flagVars, queueVars, taskVars, inflight, issued, histVars>>

(* stop() publishes the Shutdown event through the same _publish.           *)
Stop ==
  /\ call = "none" /\ running
  /\ enable
  /\ calls < MaxCalls
  /\ calls' = calls + 1
  /\ call' = "stop" /\ at' = "publish"
  /\ Admit(inflight, Bus, Shutdown, 0)
  /\ UNCHANGED <<flagVars, dispatch, queueVars, taskVars, promised, timedOut, accepted>>

(* join() returns at once if nothing is unfinished.                         *)
(* Mutant for DrainKept: join() is not awaited.                             *)
NoJoin == "joined"
JoinPoint == IF unfinished = 0 THEN "joined" ELSE "join"

(* The publish returns (a middleware may have swallowed the event): the     *)
(* gate closes and stop() awaits join().                                    *)
ShutdownPublished(f) ==
  /\ f.by = Bus /\ f.stage \in {"before", "after"}
  /\ inflight' = inflight \ {f}
  /\ enable' = FALSE
  /\ promised' = QueueIds
  /\ timedOut' = FALSE
  /\ Await(JoinPoint)
  /\ UNCHANGED <<running, bound, dispatch, queueVars, taskVars, issued, calls, accepted>>

(* The publish raises, and so does stop(): the bus goes on running.         *)
ShutdownFails(f) ==
  /\ f.by = Bus /\ f.stage \in {"before", "after"}
  /\ inflight' = inflight \ {f}
  /\ Unlock
  /\ UNCHANGED <<flagVars, dispatch, queueVars, taskVars, issued, histVars>>

(* join() has returned, or its timeout expired: the dispatch task is        *)
(* cancelled.                                                               *)
JoinEnds ==
  /\ at \in {"join", "joined"}
  /\ timedOut' = (at = "join")
  /\ dispatch' = "cancelling"
  /\ Await("dispatch")
  /\ UNCHANGED <<flagVars, queueVars, taskVars, inflight, issued, calls, promised, accepted>>

(* What _wait_all_tasks_done looks at.                                      *)
(* Mutant for TasksOnlyWhileBound: only the tasks that hold a permit count. *)
SomeHandling == handling # {}
TasksPending == Active # {}

(* What follows _wait_all_tasks_done: stop() clears running, deactivates    *)
(* the handlers and awaits the chain's teardown; _abort_start deactivates,  *)
(* finds the chain unbound by its failed setup, and start() re-raises.      *)
(* Mutant for StoppedIsClean: _abort_start forgets to deactivate.           *)
ProceedWith(active) ==
  /\ running' = FALSE
  /\ bound' = active
  /\ IF call = "stop" THEN Await("teardown") ELSE Unlock
TasksGoneStillBound == ProceedWith(call = "start")
TasksGone == ProceedWith(FALSE)

(* The dispatch task is dead; an aborted start clears both flags at once.   *)
(* _wait_all_tasks_done waits only if there are tasks.                      *)
DispatchGone ==
  /\ at = "dispatch" /\ dispatch = "dead"
  /\ enable' = FALSE
  /\ IF TasksPending
       THEN /\ running' = (call = "stop")
            /\ Await("wait")
            /\ UNCHANGED bound
       ELSE TasksGone
  /\ UNCHANGED <<dispatch, queueVars, taskVars, inflight, issued, histVars>>

WaitReturns ==
  /\ at \in {"wait", "cancel"}
  /\ ~TasksPending
  /\ TasksGone
  /\ UNCHANGED <<enable, dispatch, queueVars, taskVars, inflight, issued, histVars>>

(* tasks_timeout expires: the pending tasks are cancelled one by one.       *)
(* Mutant for CallsEnd: asyncio.wait without a timeout.                     *)
WaitNeverTimesOut == FALSE
WaitTimesOut ==
  /\ at = "wait" /\ TasksPending
  /\ Await("cancel")
  /\ UNCHANGED <<flagVars, dispatch, queueVars, taskVars, inflight, issued, histVars>>

(* One pending task is cancelled and awaited.  A body in RaisesOnCancel     *)
(* ends with another exception (the gate is closed: nothing is reported),   *)
(* which leaves the loop; any other lets CancelledError through or returns. *)
CancelTask(t) ==
  /\ at = "cancel"
  /\ t \in Active
  /\ waiting' = waiting \ {t}
  /\ handling' = handling \ {t}
  /\ reporting' = reporting \ {t}
  /\ PermitBack(t)
  /\ inflight' = DropOf(t)
  /\ Await(IF t \in handling /\ t.handler \in RaisesOnCancel THEN "failing" ELSE "cancel")
  /\ UNCHANGED <<flagVars, dispatch, queueVars, issued, histVars>>

(* The exception of a cancelled task: stop() raises it there and then,      *)
(* _abort_start logs it and goes on.                                        *)
WaitRaises ==
  /\ at = "failing"
  /\ Unlock
  /\ bound' = (bound /\ call = "stop")
  /\ UNCHANGED <<running, enable, dispatch, queueVars, taskVars, inflight, issued, histVars>>

TeardownReturns ==
  /\ at = "teardown"
  /\ Unlock
  /\ UNCHANGED <<flagVars, dispatch, queueVars, taskVars, inflight, issued, histVars>>

(* The caller of start() or stop() is cancelled at an await that lets the   *)
(* CancelledError through.                                                  *)
CallerCancelled ==
  /\ CallerMayCancel
  /\ at \in {"setup", "publish", "join", "joined", "wait", "teardown"}
  /\ Unlock
  /\ inflight' = DropOf(Bus)
  /\ UNCHANGED <<flagVars, dispatch, queueVars, taskVars, issued, histVars>>

-------------------------------------------------------------------------------
PublishStep(x) ==
  \E f \in inflight : f.by = x /\
    (MiddlewarePasses(f) \/ Put(f) \/ PublishEnds(f) \/ ReportEnds(f)
       \/ ShutdownPublished(f) \/ ShutdownFails(f))
HandlerStep(t) ==
  \/ Acquire(t)
  \/ \E n \in UserNames : HandlerPublishes(t, n)
  \/ HandlerReturns(t)
  \/ HandlerRaises(t)
  \/ CancelTask(t)
ControlStep ==
  \/ Start \/ SetupReturns \/ SetupRaises
  \/ Stop \/ JoinEnds \/ DispatchGone \/ WaitReturns \/ WaitTimesOut
  \/ WaitRaises \/ TeardownReturns \/ CallerCancelled

Next ==
  \/ \E p \in Publishers, n \in UserNames : Publish(p, n)
  \/ \E x \in Publishers \cup {Bus} \cup Active : PublishStep(x)
  \/ \E t \in Active : HandlerStep(t)
  \/ Dispatch
  \/ DispatchDies
  \/ ControlStep

Spec == Init /\ [][Next]_vars

(* The event loop runs every coroutine that is ready; a middleware hook and *)
(* a handler with a handle_timeout end; wait_for and asyncio.wait observe   *)
(* their timeouts; a cancelled task ends.  A handler in Hanging owes        *)
(* nothing, nor does anybody owe a call or a publish.                       *)
HandlerEnds(t) == HandlerReturns(t) \/ HandlerRaises(t)
Fairness ==
  /\ WF_vars(Dispatch)
  /\ WF_vars(DispatchDies)
  /\ \A x \in Publishers \cup {Bus} : WF_vars(PublishStep(x))
  /\ WF_vars(\E t \in Active : PublishStep(t))
  /\ WF_vars(\E t \in waiting : Acquire(t))
  /\ WF_vars(\E t \in handling : t.handler \notin Hanging /\ HandlerEnds(t))
  /\ WF_vars(SetupReturns \/ SetupRaises)
  /\ WF_vars(JoinEnds)
  /\ WF_vars(DispatchGone)
  /\ WF_vars(WaitReturns \/ WaitTimesOut)
  /\ WF_vars(\E t \in Active : CancelTask(t))
  /\ WF_vars(WaitRaises)
  /\ WF_vars(TeardownReturns)

FairSpec == Spec /\ Fairness

-------------------------------------------------------------------------------
(* Properties                                                               *)

(* Every variable has its type; task sets are disjoint.                     *)
TypeOK ==
  /\ running \in BOOLEAN /\ enable \in BOOLEAN /\ bound \in BOOLEAN
  /\ call \in {"none", "start", "stop"} /\ at \in Awaits
  /\ dispatch \in {"none", "running", "cancelling", "dead"}
  /\ queue \in Seq(Event) /\ unfinished \in Nat
  /\ sem \in Nat
  /\ waiting \subseteq Task /\ handling \subseteq Task /\ reporting \subseteq Task
  /\ inflight \subseteq [by : Publishers \cup {Bus} \cup Task, stage : Stages, event : Event]
  /\ issued \in Nat /\ calls \in Nat
  /\ promised \subseteq Nat /\ accepted \subseteq Nat /\ timedOut \in BOOLEAN

(* No permit of the handler semaphore is lost or invented, whichever way a  *)
(* task leaves it: return, exception, timeout, cancellation by stop().      *)
PermitsConserved == sem + Cardinality(handling) = MaxSem

(* The queue never exceeds its capacity, and its unfinished count, on which *)
(* stop() waits in join(), is exactly the number of queued events.          *)
QueueAccounted ==
  /\ unfinished = Len(queue)
  /\ MaxQueue # 0 => Len(queue) <= MaxQueue

(* A task error never breeds another one: no event carries the reporter     *)
(* twice in its sources, so a failing TaskError handler, or a failing       *)
(* handler of what a TaskError handler published, is not reported again.    *)
EventsAlive ==
  {queue[i] : i \in DOMAIN queue} \cup {f.event : f \in inflight}
    \cup {t.event : t \in Active}
NoErrorCascade == \A e \in EventsAlive : e.reports <= 1

(* A handler task lives only while the registry is activated on the bus:    *)
(* stop() and a failed start() deactivate the handlers after the last task. *)
TasksOnlyWhileBound == Active # {} => bound

(* Between calls a bus that is not running has nothing left over: gate      *)
(* closed, no dispatch loop, handlers deactivated, no handler task.  This   *)
(* is what start() needs to be retryable.                                   *)
StoppedIsClean ==
  call = "none" /\ ~running =>
    ~enable /\ ~bound /\ dispatch \in {"none", "dead"} /\ Active = {}

(* Between calls a running bus dispatches and accepts publishes.            *)
RunningDispatches ==
  call = "none" /\ running => enable /\ bound /\ dispatch = "running"

(* stop() keeps the promise of join(): unless its timeout expired, no event *)
(* that was queued when the gate closed is still queued once the dispatch   *)
(* task is cancelled, even if late puts refill the queue meanwhile.         *)
DrainKept ==
  call = "stop" /\ at \in {"joined", "dispatch", "wait", "cancel", "teardown"} /\ ~timedOut
    => promised \cap QueueIds = {}

(* Every call of start() and stop() ends, with a blocked put, a handler     *)
(* that never returns, or both.                                             *)
CallsEnd == call # "none" ~> call = "none"

(* A queued event is dispatched unless the loop is cancelled first: neither *)
(* a full queue, nor handlers that hold every permit, nor publishers        *)
(* blocked in put keep the loop from the next event.                        *)
EventIds == 1..(MaxEvents * (1 + Cardinality(Handlers)) + MaxCalls)
QueuedIsDispatched ==
  \A i \in EventIds : i \in QueueIds ~> (i \notin QueueIds \/ dispatch # "running")

-------------------------------------------------------------------------------
(* What the documentation says and the code does not do                     *)

(* Once stop() has closed the gate no new event enters the queue            *)
(* (docs/en-US/bus.md, is_publishing_enabled).  A publish that passed the   *)
(* gate earlier and still waits in a middleware or in put does enter.       *)
NoPutWhileStopping ==
  [][call = "stop" /\ ~enable => Len(queue') <= Len(queue)]_vars
=============================================================================
