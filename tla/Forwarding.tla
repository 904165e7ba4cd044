------------------------------- MODULE Forwarding -------------------------------
(***************************************************************************)
(* Two buses joined by make_bidirectional_forward (templates/middlewares/  *)
(* event_forward.py), each with the middlewares of the documented order    *)
(* before it: RateLimit, RecursionGuard, EventBlock and Metrics, then the  *)
(* queue, then the forwarding in on_publish.                               *)
(*                                                                         *)
(* Forwarding awaits a whole publish on the other bus, so a publish is a   *)
(* call that may wait for a nested one.  Between the enabling test and the *)
(* put nothing awaits: that part of a publish is one step.  An event is    *)
(* named by its bus and its chain of sources, the first of which publishes *)
(* only once.                                                              *)
(***************************************************************************)
EXTENDS Integers, SequencesExt, FiniteSets

CONSTANTS
  Publishers,   \* tasks of the application, each of which publishes once
  At,           \* the bus each of them publishes on
  NamesOf,      \* and the names its event may have
  System,       \* names with the prefix of system events
  Blocked,      \* names the block predicate of each bus holds for
  Declared,     \* names in the event registry of each bus
  Reacting,     \* buses with a handler that publishes the event once more
  Stopping,     \* buses that may be stopped
  Capacity,     \* maxsize of the queues
  MaxRequests,  \* of the rate limit, on the buses that have one
  Window,       \* window_seconds, in ticks
  MaxChain,     \* max_chain_length
  MaxDepth,     \* max_depth
  MaxTime,      \* bound: ticks of the clock
  MaxStops      \* bound: stops

Buses == {"A", "B"}
Other(b) == CHOOSE o \in Buses : o # b
Via(b) == IF b = "A" THEN "a_to_b" ELSE "b_to_a"     \* source_name of the middleware on b
Handler(b) == IF b = "A" THEN "handler_a" ELSE "handler_b"
Limited == DOMAIN MaxRequests

ASSUME PublishersAssumption ==
  /\ Publishers \cap {"a_to_b", "b_to_a", "handler_a", "handler_b"} = {}
  /\ At \in [Publishers -> Buses]
ASSUME NamesAssumption == DOMAIN NamesOf = Publishers /\ {DOMAIN Declared, DOMAIN Blocked} = {Buses}
ASSUME BoundsAssumption ==
  /\ {Capacity, MaxChain, MaxDepth, Window} \subseteq Nat \ {0}
  /\ DOMAIN MaxRequests \subseteq Buses /\ \A b \in Limited : MaxRequests[b] \in Nat
  /\ {MaxTime, MaxStops} \subseteq Nat
  /\ Reacting \subseteq Buses /\ Stopping \subseteq Buses

VARIABLES
  idle,       \* publishers that have not published
  phase,      \* of each bus and its stop
  stops,      \* stops so far
  clock,      \* time.monotonic()
  bucket,     \* _buckets of the rate limit of each bus: time stamps
  queue,      \* queue of each bus
  tasks,      \* events whose handler task is to publish
  calls,      \* publishes in progress
  forwarded, failed, skipped,  \* counters of the forwarding middleware on each bus
  total, errors,               \* publish_total and publish_errors_total of each bus
  published,  \* history: events that entered a queue
  cancelled,  \* history: calls that were cancelled, at the await that raised it
  admitted    \* history: times at which the rate limit of each bus let a publish pass

counters == <<forwarded, failed, skipped, total, errors>>
vars == <<idle, phase, stops, clock, bucket, queue, tasks, calls, counters, published, cancelled, admitted>>

up == {b \in Buses : phase[b] = "up"}   \* buses that accept publishes

Event(b, n, s) == [bus |-> b, name |-> n, sources |-> s]
Call(e, stage) == [event |-> e, stage |-> stage]
Zero == [b \in Buses |-> 0]
Plus(counter, b) == [counter EXCEPT ![b] = @ + 1]

Init ==
  /\ idle = Publishers /\ phase = [b \in Buses |-> "up"] /\ stops = 0 /\ clock = 0
  /\ bucket = [b \in Limited |-> <<>>] /\ queue = [b \in Buses |-> <<>>]
  /\ tasks = {} /\ calls = {}
  /\ forwarded = Zero /\ failed = Zero /\ skipped = Zero
  /\ total = Zero /\ errors = Zero
  /\ published = {} /\ cancelled = {} /\ admitted = [b \in Limited |-> <<>>]

-------------------------------------------------------------------------------
(* The part of _publish before the queue                                     *)

(* RateLimit: the stamps that are left when the first ones, as long as they  *)
(* are out of the window, have been taken from the bucket.                   *)
(* Mutant for WindowRespected: a stamp leaves the window a tick early.       *)
Expiring(b) == {n \in 0..Len(bucket[b]) : \A i \in 1..n : bucket[b][i] <= clock - Window}
Expired(b) == {n \in 0..Len(bucket[b]) : \A i \in 1..n : bucket[b][i] < clock - Window}
Recent(b) == SubSeq(bucket[b], Max(Expired(b)) + 1, Len(bucket[b]))

Exhausted(b) == b \in Limited /\ Len(Recent(b)) >= MaxRequests[b]

(* RecursionGuard: of a chained event, the new source included.              *)
Occurs(source, s) == Cardinality({i \in 1..Len(s) : s[i] = source})
TooLong(s) == Len(s) > MaxChain
(* Mutant for ChainsBounded: the event itself is not counted.                *)
TooOftenBefore(s) == Occurs(Last(s), Front(s)) > MaxDepth
TooOften(s) == Occurs(Last(s), s) > MaxDepth
Looping(s) == Len(s) > 1 /\ (TooLong(s) \/ TooOften(s))

Verdict(e) ==
  CASE e.bus \notin up                              -> "down"
    [] Exhausted(e.bus)                             -> "limited"
    [] Looping(e.sources)                           -> "looping"
    [] e.name \in Blocked[e.bus]                    -> "blocked"
    [] e.name \notin Declared[e.bus]                -> "undeclared"
    [] OTHER                                        -> "enters"

Raises(verdict) == verdict \in {"down", "looping", "undeclared"}

(* Metrics: verdicts of the core, which are counted when they are reached.   *)
(* Mutant for PublishesCounted: a publish that raises is no publish.         *)
Uncounted == {}
Unregistered == {"undeclared"}

(* What the middlewares on the way remember: the rate limit comes first, and *)
(* the metrics see only what reaches the end of the chain.                   *)
Pass(e) ==
  LET b == e.bus IN
  /\ IF b \in Limited \cap up
       THEN LET now == IF Exhausted(b) THEN <<>> ELSE <<clock>> IN
            /\ bucket' = [bucket EXCEPT ![b] = Recent(b) \o now]
            /\ admitted' = [admitted EXCEPT ![b] = @ \o now]
       ELSE UNCHANGED <<bucket, admitted>>
  /\ total' = IF Verdict(e) \in Unregistered THEN Plus(total, b) ELSE total
  /\ errors' = IF Verdict(e) = "undeclared" THEN Plus(errors, b) ELSE errors

Entering(e) == IF Verdict(e) = "enters" THEN {Call(e, "putting")} ELSE {}

Publish(p, n) ==
  LET e == Event(At[p], n, <<p>>) IN
  /\ p \in idle /\ idle' = idle \ {p}
  /\ Pass(e)
  /\ calls' = calls \cup Entering(e)
  /\ UNCHANGED <<phase, stops, clock, queue, tasks, forwarded, failed, skipped, published, cancelled>>

React(e) ==
  LET again == Event(e.bus, e.name, Append(e.sources, Handler(e.bus))) IN
  /\ e \in tasks /\ tasks' = tasks \ {e}
  /\ Pass(again)
  /\ calls' = calls \cup Entering(again)
  /\ UNCHANGED <<idle, phase, stops, clock, queue, forwarded, failed, skipped, published, cancelled>>

-------------------------------------------------------------------------------
(* The rest of a call                                                        *)

Moves(c, stage) == (calls \ {c}) \cup {Call(c.event, stage)}

HasRoom(b) == Len(queue[b]) < Capacity

Put(c) ==
  LET b == c.event.bus IN
  /\ c.stage = "putting" /\ HasRoom(b)
  /\ queue' = [queue EXCEPT ![b] = Append(@, c.event)]
  /\ published' = published \cup {c.event}
  /\ calls' = Moves(c, "forwarding")
  /\ UNCHANGED <<idle, phase, stops, clock, bucket, tasks, counters, admitted, cancelled>>

(* _compose_filter skips what came over the opposite direction.              *)
(* Mutant for NoEcho: anti_recursion is off.                                 *)
FromAnywhere(e) == FALSE
FromOther(e) == Contains(e.sources, Via(Other(e.bus)))
Skips(e) == e.name \in System \/ FromOther(e)
Copy(e) == Event(Other(e.bus), e.name, Append(e.sources, Via(e.bus)))

Skip(c) ==
  /\ c.stage = "forwarding" /\ Skips(c.event)
  /\ skipped' = Plus(skipped, c.event.bus)
  /\ calls' = Moves(c, "returning")
  /\ UNCHANGED <<idle, phase, stops, clock, bucket, queue, tasks, forwarded, failed, total, errors,
                 published, cancelled, admitted>>

(* Mutant for ForwardsCounted: a publish that is dropped is not counted.     *)
ForwardUncounted(c) ==
  LET copy == Copy(c.event)
      b == c.event.bus
  IN
  /\ c.stage = "forwarding" /\ ~Skips(c.event)
  /\ Pass(copy)
  /\ failed' = IF Raises(Verdict(copy)) THEN Plus(failed, b) ELSE failed
  /\ calls' = Entering(copy) \cup Moves(c, IF Verdict(copy) = "enters" THEN "waiting" ELSE "returning")
  /\ UNCHANGED <<idle, phase, stops, clock, queue, tasks, forwarded, skipped, published, cancelled>>

(* A nested publish that is dropped on its way returns, and counts as done.  *)
Forward(c) ==
  LET copy == Copy(c.event)
      b == c.event.bus
  IN
  /\ c.stage = "forwarding" /\ ~Skips(c.event)
  /\ Pass(copy)
  /\ failed' = IF Raises(Verdict(copy)) THEN Plus(failed, b) ELSE failed
  /\ forwarded' = IF Verdict(copy) \in {"limited", "blocked"} THEN Plus(forwarded, b) ELSE forwarded
  /\ calls' = Entering(copy) \cup Moves(c, IF Verdict(copy) = "enters" THEN "waiting" ELSE "returning")
  /\ UNCHANGED <<idle, phase, stops, clock, queue, tasks, skipped, published, cancelled>>

(* The publish returns, to the forwarding it is nested in if there is one.   *)
(* Mutant for AllEnds: the forwarding does not hear of it.                   *)
NestingNone(c) == {}
Nesting(c) == {d \in calls : d.stage = "waiting" /\ Copy(d.event) = c.event}

Return(c) ==
  /\ c.stage = "returning"
  /\ total' = Plus(total, c.event.bus)
  /\ forwarded' = [b \in Buses |-> forwarded[b] + Cardinality({d \in Nesting(c) : d.event.bus = b})]
  /\ calls' = (calls \ ({c} \cup Nesting(c))) \cup {Call(d.event, "returning") : d \in Nesting(c)}
  /\ UNCHANGED <<idle, phase, stops, clock, bucket, queue, tasks, failed, skipped, errors,
                 published, cancelled, admitted>>

Step(c) == Put(c) \/ Skip(c) \/ Forward(c) \/ Return(c)

(* The task is cancelled, or its timeout ends, in a put that waits: the      *)
(* publish and the forwarding it is nested in are gone.  The metrics count   *)
(* both, in their finally; the forwarding counts nothing.                    *)
On(S, b) == {c \in S : c.event.bus = b}
Stack(c) == {c} \cup Nesting(c)

Cancel(c) ==
  /\ c.stage = "putting"
  /\ calls' = calls \ Stack(c) /\ cancelled' = cancelled \cup Stack(c)
  /\ total' = [b \in Buses |-> total[b] + Cardinality(On(Stack(c), b))]
  /\ UNCHANGED <<idle, phase, stops, clock, bucket, queue, tasks, forwarded, failed, skipped, errors,
                 published, admitted>>

(* A handler raises or is cancelled before it publishes.                     *)
NeverReacts(e) ==
  /\ e \in tasks /\ tasks' = tasks \ {e}
  /\ UNCHANGED <<idle, phase, stops, clock, bucket, queue, calls, counters, published, cancelled, admitted>>

-------------------------------------------------------------------------------
(* The buses, and time                                                       *)

Dispatch(b) ==
  /\ phase[b] \in {"up", "closing"} /\ queue[b] # <<>>
  /\ queue' = [queue EXCEPT ![b] = Tail(@)]
  /\ tasks' = tasks \cup {e \in {Head(queue[b])} : b \in Reacting}
  /\ UNCHANGED <<idle, phase, stops, clock, bucket, calls, counters, published, cancelled, admitted>>

Moved(b, next) ==
  /\ phase' = [phase EXCEPT ![b] = next]
  /\ UNCHANGED <<idle, clock, bucket, queue, tasks, calls, counters, published, cancelled, admitted>>

(* stop() closes the gate, lets the dispatch loop empty the queue or ends it *)
(* at queue_timeout, and waits for the handler tasks, which end by           *)
(* themselves or are cancelled at tasks_timeout.                             *)
Stop(b) ==
  /\ phase[b] = "up" /\ b \in Stopping /\ stops < MaxStops
  /\ Moved(b, "closing") /\ stops' = stops + 1

EndDispatch(b) == phase[b] = "closing" /\ Moved(b, "ending") /\ UNCHANGED stops

Handling(b) == {e \in tasks : e.bus = b}
               \cup {c \in On(calls, b) : Last(c.event.sources) = Handler(b)}

Stopped(b) == phase[b] = "ending" /\ Handling(b) = {} /\ Moved(b, "down") /\ UNCHANGED stops

Start(b) == phase[b] = "down" /\ Moved(b, "up") /\ UNCHANGED stops

Tick ==
  /\ clock < MaxTime /\ clock' = clock + 1
  /\ UNCHANGED <<idle, phase, stops, bucket, queue, tasks, calls, counters, published, cancelled, admitted>>

Next ==
  \/ \E p \in Publishers : \E n \in NamesOf[p] : Publish(p, n)
  \/ \E e \in tasks : React(e) \/ NeverReacts(e)
  \/ \E c \in calls : Step(c) \/ Cancel(c)
  \/ \E b \in Buses : Dispatch(b) \/ Stop(b) \/ EndDispatch(b) \/ Stopped(b) \/ Start(b)
  \/ Tick

(* The event loop runs the handler tasks and every call that can go on, and  *)
(* a bus dispatches until its stop ends that.  A stopped bus need not start  *)
(* again.                                                                    *)
Fairness ==
  /\ WF_vars(\E e \in tasks : React(e))
  /\ WF_vars(\E c \in calls : Step(c))
  /\ \A b \in Buses : WF_vars(Dispatch(b))

Spec == Init /\ [][Next]_vars /\ Fairness

-------------------------------------------------------------------------------
(* The state has its type.                                                   *)
TypeOK ==
  /\ idle \subseteq Publishers /\ phase \in [Buses -> {"up", "closing", "ending", "down"}]
  /\ stops \in 0..MaxStops /\ clock \in 0..MaxTime
  /\ \A b \in Buses : Len(queue[b]) <= Capacity /\ \A e \in ToSet(queue[b]) : e.bus = b
  /\ \A c \in calls \cup cancelled : c.stage \in {"putting", "forwarding", "waiting", "returning"}
  /\ {forwarded, failed, skipped, total, errors} \subseteq [Buses -> Nat]

(* An event that was forwarded one way is not forwarded back, nor is one     *)
(* that handlers publish in reaction to it (event_forward.py 259-262).       *)
NoEcho == \A e \in published : ~({"a_to_b", "b_to_a"} \subseteq ToSet(e.sources))

(* A chain of events ends at the length the guards allow, over both buses    *)
(* together, and no source comes up in it too often (recursion_guard.py      *)
(* 78-94).                                                                   *)
ChainsBounded ==
  \A e \in published : Len(e.sources) <= MaxChain
                       /\ \A i \in 1..Len(e.sources) : Occurs(e.sources[i], e.sources) <= MaxDepth

(* Each call of on_publish ends in one of the three counters of the          *)
(* forwarding middleware, and one that is cancelled in the nested publish in *)
(* none of them (event_forward.py 62-64, 97-146).                            *)
ForwardsCounted ==
  \A b \in Buses :
    forwarded[b] + failed[b] + skipped[b]
      = Cardinality({e \in published : e.bus = b})
        - Cardinality({c \in On(calls, b) : c.stage \in {"forwarding", "waiting"}})
        - Cardinality({c \in On(cancelled, b) : c.stage = "waiting"})

(* publish_total counts the publishes that ended past the metrics, of which  *)
(* publish_errors_total counts those that raised an Exception: what is left  *)
(* are the events of the bus and the publishes cancelled in the put          *)
(* (metrics.py 212-224).                                                     *)
PublishesCounted ==
  \A b \in Buses :
    total[b] - errors[b]
      = Cardinality({e \in published : e.bus = b})
        - Cardinality({c \in On(calls, b) : c.stage # "putting"})
        + Cardinality({c \in On(cancelled, b) : c.stage = "putting"})

(* In no window of time does the rate limit let more pass than it may, also  *)
(* across its boundaries (rate_limit.py 77-91).                              *)
WindowRespected ==
  \A b \in Limited : \A t \in 0..MaxTime :
    Cardinality({i \in 1..Len(admitted[b]) : admitted[b][i] \in t..(t + Window)}) <= MaxRequests[b]

(* All that a publish sets off comes to an end: forwarding and handlers that *)
(* publish do not keep each other going, and no publish waits for ever for   *)
(* the other bus, unless that is stopped with a full queue                   *)
(* (event_forward.py 259-291, recursion_guard.py 78-94).                     *)
AllEnds ==
  <>[](\/ calls = {} /\ tasks = {}
       \/ \E b \in Buses : phase[b] \in {"ending", "down"} /\ ~HasRoom(b))
===============================================================================
