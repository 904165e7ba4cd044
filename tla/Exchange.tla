-------------------------------- MODULE Exchange --------------------------------
(***************************************************************************)
(* Requests and responses over the bus: expect() with its one-shot handler *)
(* and future (templates/expect.py), request() (templates/request.py), and *)
(* the services that answer (templates/handlers/service.py).               *)
(*                                                                         *)
(* A caller keeps its session and asks again when it gave up, so answers   *)
(* to an earlier attempt may arrive while it waits for a later one.        *)
(* Watchers use expect() directly, with a filter that awaits.  The bus is  *)
(* its queue and one task for each handler an event is dispatched to: a    *)
(* task runs with a permit of the semaphore only, and a user inside a      *)
(* handler keeps the permit of that handler while it calls.                *)
(***************************************************************************)
EXTENDS Naturals, FiniteSets, SequencesExt

CONSTANTS
  Callers,        \* sessions that call request()
  Watchers,       \* coroutines that use expect() on the response event
  Patient,        \* users that wait without a timeout
  Inside,         \* users that call from a handler, also without one if they are patient
  Services,       \* service handlers of the request event
  Capacity,       \* maxsize of the queue
  Permits,        \* of the handler semaphore
  MayStop,        \* whether the bus may be stopped
  MaxCalls        \* bound: calls of all callers and watchers together

ASSUME ExchangeAssumption ==
  /\ Patient \cup Inside \subseteq Callers \cup Watchers /\ Callers \cap Watchers = {}
  /\ {Capacity, Permits, MaxCalls} \subseteq Nat \ {0} /\ MayStop \in BOOLEAN
  /\ IsFiniteSet(Callers \cup Watchers)

Users == Callers \cup Watchers
OneShots == Users \X (1..MaxCalls)
Requests == Callers \X (1..MaxCalls)        \* session_id, request_id
Responses == [to : Requests, by : Services, success : BOOLEAN]

Pending == <<"pending">>
Failed == <<"failed">>
Cancelled == <<"cancelled">>
Result(r) == <<"result", r>>

VARIABLES
  stage,     \* where each user's present call is
  attempt,   \* number of its present or last call
  active,    \* one-shot handlers whose _active is set
  future,    \* the future of each one-shot handler
  phase,     \* of the bus: up, closing (it still dispatches) or ended
  queue,     \* requests and responses on their way
  serving,   \* tasks of the services, and whether they have their permit
  jobs,      \* tasks of the one-shot handlers
  answers,   \* history: responses published
  matches    \* history: calls of on_match

vars == <<stage, attempt, active, future, phase, queue, serving, jobs, answers, matches>>
calls == <<stage, attempt>>
bus == <<phase, queue, serving, answers>>

Init ==
  /\ stage = [u \in Users |-> "idle"]
  /\ attempt = [u \in Users |-> 0]
  /\ active = {}
  /\ future = [o \in OneShots |-> Pending]
  /\ phase = "up" /\ queue = <<>> /\ serving = {} /\ jobs = {}
  /\ answers = {} /\ matches = {}

Current(u) == <<u, attempt[u]>>

(* temporary_handler: the handler is routed from before the publish until    *)
(* the call is left.                                                         *)
(* Mutant for CallsEnd: the request is published first.                      *)
RegisteredLate == {Current(u) : u \in {v \in Users : stage[v] = "waiting"}}
Registered == {Current(u) : u \in {v \in Users : stage[v] # "idle"}}

(* Permits are held by users in a handler, by services that run and by       *)
(* filters that await.                                                       *)
Calling == {u \in Inside : stage[u] # "idle"}
PermitFree ==
  Cardinality(Calling) + Cardinality({t \in serving : t.runs}) + Cardinality({j \in jobs : j.filtering})
    < Permits

HasRoom == Len(queue) < Capacity

-------------------------------------------------------------------------------
(* The calls.                                                                *)

Goes(u, to) == stage' = [stage EXCEPT ![u] = to]

(* A request to a bus whose gate is closed raises before anything happens.   *)
MayBegin(u) ==
  /\ stage[u] = "idle" /\ SumFunction(attempt) < MaxCalls
  /\ u \in Callers => phase = "up"
  /\ u \in Inside => PermitFree

Begin(u) ==
  /\ MayBegin(u)
  /\ attempt' = [attempt EXCEPT ![u] = @ + 1]
  /\ active' = active \cup {<<u, attempt[u] + 1>>}
  /\ Goes(u, IF u \in Callers THEN "publishing" ELSE "waiting")
  /\ UNCHANGED <<future, bus, jobs, matches>>

(* The request waits for room, which is not part of the timeout of the call, *)
(* and is in the queue before publish() returns.                             *)
Put(c) ==
  /\ stage[c] = "publishing" /\ HasRoom /\ Goes(c, "published")
  /\ queue' = Append(queue, [request |-> Current(c)])
  /\ UNCHANGED <<attempt, active, future, phase, serving, jobs, answers, matches>>

Published(c) ==
  /\ stage[c] = "published" /\ Goes(c, "waiting")
  /\ UNCHANGED <<attempt, active, future, bus, jobs, matches>>

(* The future holds a response or the exception of the filter.               *)
Return(u) ==
  /\ stage[u] = "waiting" /\ future[Current(u)] # Pending
  /\ Goes(u, "idle")
  /\ UNCHANGED <<attempt, active, future, bus, jobs, matches>>

(* The call is left without a result: the future is cancelled, unless it is  *)
(* done and nobody will look at it.                                          *)
Leave(u) ==
  /\ Goes(u, "idle")
  /\ future' = [future EXCEPT ![Current(u)] = IF @ = Pending THEN Cancelled ELSE @]
  /\ UNCHANGED <<attempt, active, bus, jobs, matches>>

(* wait_for may time out although the future is done.                        *)
Timeout(u) == stage[u] = "waiting" /\ u \notin Patient /\ Leave(u)

(* The publish fails, or the user is cancelled.                              *)
Abandon(u) == stage[u] # "idle" /\ Leave(u)

-------------------------------------------------------------------------------
(* The bus and the services.                                                 *)

Task(s, c) == [by |-> s, call |-> c, runs |-> FALSE]

DispatchRequest ==
  /\ phase # "ended" /\ queue # <<>> /\ "request" \in DOMAIN Head(queue)
  /\ queue' = Tail(queue)
  /\ serving' = serving \cup {Task(s, Head(queue).request) : s \in Services}
  /\ UNCHANGED <<calls, active, future, phase, jobs, answers, matches>>

(* Every one-shot handler listens to the one response event.                 *)
DispatchResponse ==
  /\ phase # "ended" /\ queue # <<>> /\ "response" \in DOMAIN Head(queue)
  /\ queue' = Tail(queue)
  /\ jobs' = jobs \cup [of : Registered, response : {Head(queue).response}, filtering : {FALSE}]
  /\ UNCHANGED <<calls, active, future, phase, serving, answers, matches>>

Run(t) ==
  /\ ~t.runs /\ PermitFree
  /\ serving' = (serving \ {t}) \cup {[t EXCEPT !.runs = TRUE]}
  /\ UNCHANGED <<calls, active, future, phase, queue, jobs, answers, matches>>

(* A processor returns a dict or raises a ServiceError, and its response     *)
(* waits for room.                                                           *)
Respond(t) ==
  /\ t.runs /\ HasRoom
  /\ serving' = serving \ {t}
  /\ \E success \in BOOLEAN :
       LET response == [to |-> t.call, by |-> t.by, success |-> success]
       IN /\ queue' = Append(queue, [response |-> response])
          /\ answers' = answers \cup {response}
  /\ UNCHANGED <<calls, active, future, phase, jobs, matches>>

(* It returns None, raises anything else, finds the gate closed or runs into *)
(* handle_timeout; or stop() cancels its task, also while that has no permit.*)
NoResponse(t) ==
  /\ t.runs \/ phase = "ended"
  /\ serving' = serving \ {t}
  /\ UNCHANGED <<calls, active, future, phase, queue, jobs, answers, matches>>

(* stop() closes the gate, and ends the dispatch loop when the queue is empty*)
(* or its timeout is over.                                                   *)
Stop ==
  /\ MayStop
  /\ \/ phase = "up" /\ phase' = "closing"
     \/ phase = "closing" /\ phase' = "ended"
  /\ UNCHANGED <<calls, active, future, queue, serving, jobs, answers, matches>>

-------------------------------------------------------------------------------
(* OneShotEventHandler.handle.                                               *)

(* request() accepts the response to its own request.  A watcher's filter is *)
(* its own business: here, it wants successes and raises on a failure.       *)
(* Mutant for AnswerIsOwn: any response of the session is accepted.          *)
VerdictBySession(o, r) ==
  IF o[1] \in Callers THEN IF r.to[1] = o[1] THEN "accept" ELSE "reject"
                      ELSE IF r.success THEN "accept" ELSE "raise"
Verdict(o, r) ==
  IF o[1] \in Callers THEN IF r.to = o THEN "accept" ELSE "reject"
                      ELSE IF r.success THEN "accept" ELSE "raise"

Resolve(o, value) == future' = [future EXCEPT ![o] = IF @ = Pending THEN value ELSE @]

Match(j) ==
  /\ matches' = matches \cup {<<j.of, j.response>>}
  /\ Resolve(j.of, Result(j.response))

(* After the filter: the first job to get here ends the handler.             *)
(* Mutant for MatchedOnce: _active is not looked at again.                   *)
DecideAnyway(j) ==
  LET verdict == Verdict(j.of, j.response)
  IN  /\ jobs' = jobs \ {j}
      /\ active' = IF verdict = "reject" THEN active ELSE active \ {j.of}
      /\ CASE verdict = "accept" -> Match(j)
           [] verdict = "raise" -> Resolve(j.of, Failed) /\ UNCHANGED matches
           [] OTHER -> UNCHANGED <<future, matches>>
(* Mutant for AnswerKept: an event that is rejected uses the handler up.     *)
DecideForGood(j) ==
  LET verdict == IF j.of \in active THEN Verdict(j.of, j.response) ELSE "late"
  IN  /\ jobs' = jobs \ {j}
      /\ active' = active \ {j.of}
      /\ CASE verdict = "accept" -> Match(j)
           [] verdict = "raise" -> Resolve(j.of, Failed) /\ UNCHANGED matches
           [] OTHER -> UNCHANGED <<future, matches>>
Decide(j) ==
  LET verdict == IF j.of \in active THEN Verdict(j.of, j.response) ELSE "late"
  IN  /\ jobs' = jobs \ {j}
      /\ active' = IF verdict \in {"accept", "raise"} THEN active \ {j.of} ELSE active
      /\ CASE verdict = "accept" -> Match(j)
           [] verdict = "raise" -> Resolve(j.of, Failed) /\ UNCHANGED matches
           [] OTHER -> UNCHANGED <<future, matches>>

Skip(j) ==
  /\ ~j.filtering /\ PermitFree /\ j.of \notin active
  /\ jobs' = jobs \ {j}
  /\ UNCHANGED <<calls, active, future, bus, matches>>

(* The filter of request() does not await.                                   *)
Handle(j) ==
  /\ ~j.filtering /\ PermitFree /\ j.of \in active /\ j.of[1] \in Callers
  /\ Decide(j)
  /\ UNCHANGED <<calls, bus>>

BeginFilter(j) ==
  /\ ~j.filtering /\ PermitFree /\ j.of \in active /\ j.of[1] \in Watchers
  /\ jobs' = (jobs \ {j}) \cup {[j EXCEPT !.filtering = TRUE]}
  /\ UNCHANGED <<calls, active, future, bus, matches>>

EndFilter(j) == j.filtering /\ Decide(j) /\ UNCHANGED <<calls, bus>>

(* stop() cancels the task: CancelledError passes `except Exception`, and    *)
(* the handler stays active.                                                 *)
CancelJob(j) ==
  /\ phase = "ended" /\ jobs' = jobs \ {j}
  /\ UNCHANGED <<calls, active, future, bus, matches>>

-------------------------------------------------------------------------------
Job(j) == Skip(j) \/ Handle(j) \/ BeginFilter(j) \/ EndFilter(j)
Serve(t) == Run(t) \/ Respond(t) \/ NoResponse(t)
Dispatch == DispatchRequest \/ DispatchResponse

Next ==
  \/ \E u \in Users : Begin(u) \/ Return(u) \/ Timeout(u) \/ Abandon(u)
  \/ \E c \in Callers : Put(c) \/ Published(c)
  \/ Dispatch \/ Stop
  \/ \E t \in serving : Serve(t)
  \/ \E j \in jobs : Job(j) \/ CancelJob(j)

(* The event loop runs the coroutines that can go on, timeouts go off, those *)
(* of the services included, and filters end.  Nothing makes a user call or  *)
(* ends a call without a timeout.                                            *)
Fairness ==
  /\ WF_vars(\E u \in Users : Return(u) \/ Timeout(u))
  /\ WF_vars(\E c \in Callers : Put(c))
  /\ WF_vars(\E c \in Callers : Published(c))
  /\ WF_vars(Dispatch)
  /\ WF_vars(\E t \in serving : Serve(t))
  /\ WF_vars(\E j \in jobs : Job(j))

Spec == Init /\ [][Next]_vars /\ Fairness

-------------------------------------------------------------------------------
(* Every variable has its type.                                              *)
TypeOK ==
  /\ stage \in [Users -> {"idle", "publishing", "published", "waiting"}]
  /\ attempt \in [Users -> 0..MaxCalls]
  /\ active \subseteq OneShots
  /\ future \in [OneShots -> {Pending, Failed, Cancelled} \cup {Result(r) : r \in Responses}]
  /\ phase \in {"up", "closing", "ended"}
  /\ queue \in Seq([request : Requests] \cup [response : Responses])
  /\ serving \subseteq [by : Services, call : Requests, runs : BOOLEAN]
  /\ jobs \subseteq [of : OneShots, response : Responses, filtering : BOOLEAN]
  /\ answers \subseteq Responses /\ matches \subseteq OneShots \X Responses

(* A call returns the response to its own request, never one to an earlier   *)
(* attempt of its session or to another caller, however late those arrive    *)
(* (request.py 92); and a watcher nothing its filter raised on.              *)
AnswerIsOwn ==
  \A o \in OneShots : future[o][1] = "result" =>
    IF o[1] \in Callers THEN future[o][2].to = o ELSE future[o][2].success

(* A one-shot handler calls on_match at most once, although several events   *)
(* may be inside its filter at the same time (expect.py 60-80).              *)
MatchedOnce ==
  \A m, n \in matches : m[1] = n[1] => m = n

(* No answer passes a call by: as long as the call has nothing, its handler  *)
(* listens, whatever else it heard of, and each answer to it is in the queue *)
(* or at that handler, unless the bus does not dispatch any more             *)
(* (request.py 94-99, expect.py 60-80).                                      *)
Reaching(r, o) ==
  \/ [response |-> r] \in ToSet(queue)
  \/ [of |-> o, response |-> r, filtering |-> FALSE] \in jobs
AnswerKept ==
  \A c \in Callers : stage[c] # "idle" /\ future[Current(c)] = Pending =>
    /\ Current(c) \in active
    /\ phase # "ended" => \A r \in answers : r.to = Current(c) => Reaching(r, Current(c))

(* A call with a timeout ends, unless the bus stops with a full queue while  *)
(* it publishes; and one without ends once any service has answered it,      *)
(* unless the bus stops or such calls hold every permit from then on         *)
(* (request.py 94-104, bus.py 339).                                          *)
Waits(u) == stage[u] = "waiting"
Answered(u) == \E r \in answers : r.to = Current(u)
Starved == Cardinality(Calling \cap Patient) = Permits
CallsEnd ==
  /\ \A u \in Users \ Patient :
       \/ stage[u] # "idle" ~> stage[u] = "idle"
       \/ <>[](phase = "ended" /\ ~HasRoom)
  /\ \A u \in Patient :
       \/ Waits(u) /\ Answered(u) ~> ~Waits(u)
       \/ <>[](phase = "ended" \/ Starved)
===============================================================================
