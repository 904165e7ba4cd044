------------------------------ MODULE RabbitQueue ------------------------------
(***************************************************************************)
(* RabbitFanoutQueue (templates/queues/rabbit/queue.py) of one member,     *)
(* between the broker that holds its durable queue and the bus that        *)
(* dispatches from it to an IdempotentHandler (templates/idempotency.py).  *)
(*                                                                         *)
(* The other members are the publishers of the environment.  The broker    *)
(* and the reconnecting client are modelled by what the queue uses of      *)
(* them: messages are kept until acknowledged, and those a lost connection *)
(* or a crash leaves unacknowledged are delivered again.  A delivered copy *)
(* of an event is named by the connection it came over.  Order plays no    *)
(* part in the properties: queues are sets.                                *)
(***************************************************************************)
EXTENDS Naturals, FiniteSets

CONSTANTS
  Events,
  Poison,          \* events whose message this member cannot decode
  Strategies,      \* join strategies the member may be created with
  Durable,         \* does the recorder survive a crash (SQLite)?
  Prefetch,        \* set_qos: unacknowledged messages the broker sends
  MaxConnections,  \* bound: connections, over all incarnations of the member
  MaxStops         \* bound: stops of the bus

ASSUME PoisonAssumption == Poison \subseteq Events
ASSUME StrategyAssumption == Strategies \subseteq {"restart", "offline"}
ASSUME DurableAssumption == Durable \in BOOLEAN
ASSUME BoundsAssumption ==
  /\ Prefetch \in Nat \ {0} /\ MaxConnections \in Nat \ {0} /\ MaxStops \in Nat

Connections == 1..MaxConnections
Copies == Events \X Connections

VARIABLES
  strategy,    \* _strategy, which never changes
  ready,       \* broker: events in the member's queue, not delivered
  unsettled,   \* broker: events delivered over this connection, not acknowledged
  routes,      \* broker: is the queue bound to the exchange?
  consumer,    \* broker: has the queue a consumer?
  connection,  \* number of the present connection
  bound,       \* _bound
  consuming,   \* _consuming
  resuming,    \* where the resume() of the application is
  phase,       \* of the member's bus, and of the join in its stop
  inbound,     \* _inbound: copies decoded and not dispatched
  acks,        \* copies whose _ack task has not run
  job,         \* the handler task of each copy
  recorded,    \* processed marks of the recorder
  stops,       \* stops so far
  clean,       \* did the last _drain_local see everything drained?
  routed,      \* history: events the exchange put into the queue
  given,       \* history: events dispatched to the handler
  settled,     \* history: events acknowledged
  handled,     \* history: completed calls of handle() for each event
  excused      \* history: events whose repetition the recorder could not prevent

links == <<routes, consumer, bound, consuming, resuming>>
queueVars == <<ready, unsettled, connection, links>>
busVars == <<strategy, phase, inbound, acks, stops, clean>>
handlerVars == <<job, recorded, handled, excused>>
vars == <<queueVars, busVars, handlerVars, routed, given, settled>>

(* create() declares and binds the queue and starts to consume.              *)
Init ==
  /\ ready = {} /\ unsettled = {} /\ connection = 1
  /\ routes = TRUE /\ consumer = TRUE /\ bound = TRUE /\ consuming = TRUE /\ resuming = "no"
  /\ strategy \in Strategies
  /\ phase = "running" /\ inbound = {} /\ acks = {} /\ stops = 0 /\ clean = FALSE
  /\ job = [c \in Copies |-> "none"] /\ recorded = {}
  /\ handled = [e \in Events |-> 0] /\ excused = {}
  /\ routed = {} /\ given = {} /\ settled = {}

Up == phase # "down"
Dispatching == phase \in {"running", "unbinding", "draining", "asking", "cancelling"}

-------------------------------------------------------------------------------
(* Broker                                                                    *)

(* put() of any member.                                                      *)
Put(e) ==
  /\ e \notin routed /\ routes
  /\ ready' = ready \cup {e} /\ routed' = routed \cup {e}
  /\ UNCHANGED <<unsettled, connection, links, busVars, handlerVars, given, settled>>

(* Mutant for AtLeastOnceDelivery: the queue consumes without acknowledging. *)
DeliverSettled(e) ==
  /\ Up /\ consumer /\ e \in ready /\ Cardinality(unsettled) < Prefetch
  /\ ready' = ready \ {e} /\ settled' = settled \cup {e}
  /\ inbound' = inbound \cup ({<<e, connection>>} \ (Poison \X Connections))
  /\ UNCHANGED <<unsettled, connection, links, strategy, phase, acks, stops, clean,
                 handlerVars, routed, given>>

(* _on_message: a message that cannot be decoded never reaches inbound.      *)
Deliver(e) ==
  /\ Up /\ consumer /\ e \in ready /\ Cardinality(unsettled) < Prefetch
  /\ ready' = ready \ {e} /\ unsettled' = unsettled \cup {e}
  /\ inbound' = inbound \cup ({<<e, connection>>} \ (Poison \X Connections))
  /\ UNCHANGED <<connection, links, strategy, phase, acks, stops, clean, handlerVars,
                 routed, given, settled>>

Requeue ==
  /\ ready' = ready \cup unsettled /\ unsettled' = {}
  /\ connection' = connection + 1

(* The client reconnects and consumes again; what it holds of the old        *)
(* connection stays, and is delivered again.                                 *)
LoseConnection ==
  /\ Up /\ connection < MaxConnections
  /\ Requeue
  /\ UNCHANGED <<links, busVars, handlerVars, routed, given, settled>>

-------------------------------------------------------------------------------
(* Dispatch: get(), the handler task and task_done() in one step of the      *)
(* dispatch loop; the acknowledgement is a task of its own.                  *)

Dispatch(c) ==
  /\ Dispatching /\ c \in inbound
  /\ inbound' = inbound \ {c}
  /\ job' = [job EXCEPT ![c] = "checking"]
  /\ given' = given \cup {c[1]}
  /\ acks' = acks \cup {c}
  /\ UNCHANGED <<queueVars, strategy, phase, stops, clean, recorded, handled, excused, routed, settled>>

(* An acknowledgement over a connection that is gone fails in silence.       *)
(* Mutant for BrokerKeeps: it counts for the connection of now.              *)
ArrivesAnyway(c) == TRUE
Arrives(c) == c[2] = connection

Ack(c) ==
  /\ c \in acks
  /\ acks' = acks \ {c}
  /\ LET done == {e \in unsettled : e = c[1] /\ Arrives(c)}
     IN unsettled' = unsettled \ done /\ settled' = settled \cup done
  /\ UNCHANGED <<ready, connection, links, strategy, phase, inbound, stops, clean,
                 handlerVars, routed, given>>

-------------------------------------------------------------------------------
(* IdempotentHandler.__call__                                                *)

Becomes(c, stage) == job' = [job EXCEPT ![c] = stage]
Overlaps(c) == \E d \in Copies \ {c} : d[1] = c[1] /\ job[d] \in {"handling", "marking"}

(* Mutant for RepeatsAreExcused: is_processed() misses its marks.            *)
Forgotten(e) == FALSE
Seen(e) == e \in recorded

Check(c) ==
  /\ job[c] = "checking"
  /\ IF Seen(c[1])
       THEN Becomes(c, "ended") /\ UNCHANGED excused
       ELSE /\ Becomes(c, "handling")
            /\ excused' = excused \cup {e \in {c[1]} : Overlaps(c)}
  /\ UNCHANGED <<queueVars, busVars, recorded, handled, routed, given, settled>>

Handle(c) ==
  /\ job[c] = "handling"
  /\ Becomes(c, "marking")
  /\ handled' = [handled EXCEPT ![c[1]] = @ + 1]
  /\ UNCHANGED <<queueVars, busVars, recorded, excused, routed, given, settled>>

Mark(c) ==
  /\ job[c] = "marking"
  /\ Becomes(c, "ended")
  /\ recorded' = recorded \cup {c[1]}
  /\ UNCHANGED <<queueVars, busVars, handled, excused, routed, given, settled>>

(* The recorder or handle() raises, or the timeout of the handler cuts them  *)
(* off; the insert that a thread had begun is done nevertheless.             *)
Fails(c) ==
  /\ job[c] \in {"checking", "handling", "marking"}
  /\ Becomes(c, "ended")
  /\ LET marking == {e \in {c[1]} : job[c] = "marking"}
     IN recorded' \in {recorded, recorded \cup marking} /\ excused' = excused \cup marking
  /\ UNCHANGED <<queueVars, busVars, handled, routed, given, settled>>

Unmarked == {c[1] : c \in {d \in Copies : job[d] = "marking"}}

-------------------------------------------------------------------------------
(* join() as the stop of the bus awaits it.                                  *)

Goes(next) == phase' = next
Queued == <<strategy, ready, unsettled, connection, inbound, acks, stops, handlerVars,
            routed, given, settled>>

(* A request that fails is passed over: the flag says that it was done.      *)
Unbinds == bound' = FALSE /\ routes' \in (IF bound THEN {FALSE, routes} ELSE {routes})
Cancels == consuming' = FALSE /\ consumer' \in (IF consuming THEN {FALSE, consumer} ELSE {consumer})

FirstStep == IF strategy = "offline" THEN "unbinding" ELSE "cancelling"

Stop ==
  /\ phase = "running" /\ stops < MaxStops
  /\ stops' = stops + 1 /\ clean' = FALSE
  /\ Goes(FirstStep)
  /\ UNCHANGED <<queueVars, strategy, inbound, acks, handlerVars, routed, given, settled>>

Unbind ==
  /\ phase = "unbinding" /\ Goes("draining")
  /\ Unbinds
  /\ UNCHANGED <<Queued, consuming, consumer, resuming, clean>>

LocalEmpty == inbound = {}

(* _drain_all looks at what is local, then asks the broker what it holds.    *)
Ask ==
  /\ phase = "draining" /\ strategy = "offline" /\ LocalEmpty
  /\ Goes("asking")
  /\ UNCHANGED <<Queued, links, clean>>

(* A question that fails counts as an answer of zero.                        *)
Answer ==
  /\ phase = "asking"
  /\ \/ Goes("cancelling")
     \/ ready # {} /\ Goes("draining")
  /\ UNCHANGED <<Queued, links, clean>>

CancelConsumer ==
  /\ phase = "cancelling"
  /\ Cancels
  /\ Goes(IF strategy = "offline" THEN "joined" ELSE "draining")
  /\ UNCHANGED <<Queued, bound, routes, resuming, clean>>

DrainLocal ==
  /\ phase = "draining" /\ strategy = "restart" /\ LocalEmpty
  /\ Goes("joined") /\ clean' = TRUE
  /\ UNCHANGED <<Queued, links>>

(* _drain_all gives up after 15 s, whatever is left, and goes on to cancel   *)
(* the consumer.                                                             *)
Deadline ==
  /\ phase = "draining" /\ strategy = "offline"
  /\ Goes("cancelling")
  /\ UNCHANGED <<Queued, links, clean>>

(* _drain_local gives up, or the stop of the bus gives the whole join up; a  *)
(* request that was sent may be done nevertheless.                           *)
GiveUp ==
  /\ phase \in {"unbinding", "draining", "asking", "cancelling"}
  /\ Goes("joined")
  /\ IF phase = "unbinding" THEN Unbinds ELSE UNCHANGED <<bound, routes>>
  /\ IF phase = "cancelling" THEN Cancels ELSE UNCHANGED <<consuming, consumer>>
  /\ UNCHANGED <<Queued, resuming, clean>>

(* The dispatch loop is over; handler tasks end by themselves or are         *)
(* cancelled.                                                                *)
Stopped ==
  /\ phase = "joined" /\ Goes("stopped")
  /\ job' = [c \in Copies |-> IF job[c] = "none" THEN "none" ELSE "ended"]
  /\ excused' = excused \cup Unmarked
  /\ UNCHANGED <<queueVars, strategy, inbound, acks, stops, clean, recorded, handled, routed, given, settled>>

Start ==
  /\ phase = "stopped" /\ Goes("running")
  /\ UNCHANGED <<Queued, links, clean>>

(* resume() is the application's to call: the bus does not.  _bound is set   *)
(* before the bind and _consuming after the consume: a bind that fails is    *)
(* not tried again.                                                          *)
Resume ==
  /\ phase \in {"stopped", "running"} /\ resuming = "no" /\ ~(bound /\ consuming)
  /\ bound' = TRUE
  /\ resuming' = IF bound THEN "consuming" ELSE "binding"
  /\ UNCHANGED <<Queued, phase, routes, consumer, consuming, clean>>

Bound ==
  /\ resuming = "binding"
  /\ routes' = TRUE
  /\ resuming' = IF consuming THEN "no" ELSE "consuming"
  /\ UNCHANGED <<Queued, phase, consumer, bound, consuming, clean>>

(* Mutant for RoutedIsDispatched: _consuming is set before the consume, as   *)
(* _bound is before the bind.                                                *)
ResumeFailsConsuming ==
  /\ resuming # "no" /\ resuming' = "no"
  /\ consuming' = (consuming \/ resuming = "consuming")
  /\ UNCHANGED <<Queued, phase, routes, consumer, bound, clean>>
Consumed ==
  /\ resuming = "consuming" /\ resuming' = "no"
  /\ consumer' = TRUE /\ consuming' = TRUE
  /\ UNCHANGED <<Queued, phase, routes, bound, clean>>

ResumeFails ==
  /\ resuming # "no" /\ resuming' = "no"
  /\ UNCHANGED <<Queued, phase, routes, consumer, bound, consuming, clean>>

-------------------------------------------------------------------------------
(* close() of a stopped member, or the end of its process, and create() of   *)
(* the next one.  Handler tasks and local copies are gone with the process,  *)
(* and the consumer with the connection.                                     *)

Leave(marks) ==
  /\ connection < MaxConnections
  /\ Requeue /\ Goes("down")
  /\ consumer' = FALSE /\ consuming' = FALSE /\ resuming' = "no"
  /\ inbound' = {} /\ acks' = {}
  /\ job' = [c \in Copies |-> IF job[c] = "none" THEN "none" ELSE "ended"]
  /\ recorded' = marks
  /\ excused' = excused \cup Unmarked \cup (recorded \ marks)
  /\ UNCHANGED <<routes, bound, strategy, stops, clean, handled, routed, given, settled>>

(* The marks a new process finds: those in the table, but not those in memory.*)
Surviving == IF Durable THEN recorded ELSE {}

Close == phase = "stopped" /\ Leave(recorded)
Crash == Up /\ Leave(Surviving)

Create ==
  /\ phase = "down" /\ Goes("running")
  /\ routes' = TRUE /\ consumer' = TRUE /\ bound' = TRUE /\ consuming' = TRUE
  /\ UNCHANGED <<Queued, resuming, clean>>

-------------------------------------------------------------------------------
Job(c) == Check(c) \/ Handle(c) \/ Mark(c) \/ Fails(c)

Join == Unbind \/ Ask \/ Answer \/ CancelConsumer \/ DrainLocal \/ Deadline \/ GiveUp \/ Stopped

Resumption == Resume \/ Bound \/ Consumed \/ ResumeFails

Next ==
  \/ \E e \in Events : Put(e) \/ Deliver(e)
  \/ \E c \in Copies : Dispatch(c) \/ Ack(c) \/ Job(c)
  \/ LoseConnection \/ Stop \/ Join \/ Start \/ Resumption \/ Close \/ Crash \/ Create

(* The broker delivers, the event loop runs its tasks, a drain that asks     *)
(* again and again meets its deadline, and the application brings a stopped  *)
(* or closed member back and resumes its queue, until the broker accepts the *)
(* consumer.                                                                 *)
Fairness ==
  /\ \A e \in Events : WF_vars(Deliver(e))
  /\ \A c \in Copies : WF_vars(Dispatch(c)) /\ WF_vars(Ack(c)) /\ WF_vars(Job(c))
  /\ WF_vars(Join) /\ SF_vars(Deadline) /\ WF_vars(Start) /\ WF_vars(Create)
  /\ WF_vars(Resume) /\ WF_vars(Bound \/ Consumed \/ ResumeFails) /\ SF_vars(Consumed)

Spec == Init /\ [][Next]_vars /\ Fairness

-------------------------------------------------------------------------------
(* The state has its type.                                                   *)
TypeOK ==
  /\ ready \subseteq Events /\ unsettled \subseteq Events
  /\ {routes, consumer, bound, consuming} \subseteq BOOLEAN
  /\ resuming \in {"no", "binding", "consuming"} /\ connection \in Connections
  /\ phase \in {"running", "unbinding", "draining", "asking", "cancelling", "joined",
                "stopped", "down"}
  /\ inbound \subseteq Copies /\ acks \subseteq Copies
  /\ job \in [Copies -> {"none", "checking", "handling", "marking", "ended"}]
  /\ strategy \in Strategies
  /\ recorded \subseteq Events /\ excused \subseteq Events
  /\ stops \in 0..MaxStops /\ clean \in BOOLEAN
  /\ routed \subseteq Events /\ given \subseteq Events /\ settled \subseteq Events
  /\ handled \in [Events -> 0..MaxConnections]

(* The queue keeps the promise of at-least-once delivery: no event is lost   *)
(* to the broker before the bus dispatched it, through reconnections,        *)
(* crashes, stops and restarts (queue.py 149-182).                           *)
Promise == INSTANCE AtLeastOnce WITH accepted <- routed
AtLeastOnceDelivery == Promise!Spec

(* The broker holds every routed event that is not acknowledged, once, and   *)
(* every local copy of this connection belongs to one that is out            *)
(* (queue.py 149-182, 218-222).                                              *)
BrokerKeeps ==
  /\ routed = ready \cup unsettled \cup settled
  /\ ready \cap unsettled = {} /\ (ready \cup unsettled) \cap settled = {}
  /\ \A c \in inbound \cup acks : c[2] = connection => c[1] \in unsettled

(* An idempotent handler handles an event once, however often it is          *)
(* delivered, except where two copies were between their check and their     *)
(* mark together, or the mark was not written or was lost                    *)
(* (idempotency.py 138-143).                                                 *)
RepeatsAreExcused == \A e \in Events : handled[e] > 1 => e \in excused

(* With the restart strategy a join that met no deadline leaves something    *)
(* local only where the broker kept a consumer, because its cancel failed,   *)
(* or the application resumed meanwhile (queue.py 212-213, 234-250).         *)
NothingLocalAfterJoin == clean /\ phase = "joined" /\ ~consumer => inbound = {}

(* Every event that was routed and can be decoded is dispatched, as long as  *)
(* messages that cannot be decoded leave a place in the prefetch window      *)
(* (queue.py 140, 149-152, 215-222).                                         *)
RoutedIsDispatched == \A e \in Events \ Poison : e \in routed ~> e \in given

(* Redelivery is what retries an event whose handler failed                  *)
(* (idempotency.py 22-23, 117-118): one that is acknowledged was handled, or *)
(* a copy of it is still being handled.                                      *)
AckedIsHandled ==
  \A e \in settled : handled[e] > 0 \/ e \in recorded
                     \/ \E k \in Connections : job[<<e, k>>] \in {"checking", "handling"}
===============================================================================
