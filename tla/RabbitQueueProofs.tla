--------------------------- MODULE RabbitQueueProofs ---------------------------
(***************************************************************************)
(* The queue keeps every event until it is acknowledged and implements     *)
(* at-least-once delivery, for any number of events and connections, any   *)
(* prefetch window, either join strategy and any recorder.                 *)
(***************************************************************************)
EXTENDS RabbitQueue, FiniteSetTheorems, TLAPS

(* Every event that is known here went through the exchange.                 *)
OnlyRouted ==
  /\ routed = ready \cup unsettled \cup settled
  /\ ready \cap unsettled = {} /\ (ready \cup unsettled) \cap settled = {}

(* What the copies say of their event.  Copies of an earlier connection may  *)
(* be of an event that is delivered again, or settled by now.                *)
CopiesInv ==
  /\ inbound \subseteq Copies /\ acks \subseteq Copies /\ inbound \cap acks = {}
  /\ \A c \in inbound \cup acks : c[1] \in routed /\ c[2] <= connection
  /\ \A c \in inbound \cup acks : c[2] = connection => c[1] \in unsettled

(* What is acknowledged, or is about to be, was dispatched.                  *)
GivenFirst == settled \subseteq given /\ \A c \in acks : c[1] \in given

KeepInv == connection \in Connections /\ OnlyRouted /\ CopiesInv /\ GivenFirst

LEMMA KeepInit == Init => KeepInv
<1> SUFFICES ASSUME Init PROVE KeepInv
  OBVIOUS
<1>1. connection \in Connections
  BY BoundsAssumption DEF Init, Connections
<1> QED
  BY <1>1 DEF Init, KeepInv, OnlyRouted, CopiesInv, GivenFirst

(* Requeue starts a connection no copy belongs to.                           *)
LEMMA RequeueKeeps ==
  ASSUME KeepInv, connection < MaxConnections, Requeue,
         inbound' \subseteq inbound, acks' \subseteq acks,
         UNCHANGED <<routed, given, settled>>
  PROVE  KeepInv'
<1>1. connection' \in Connections /\ \A n \in Connections : n <= connection => n < connection'
  BY BoundsAssumption DEF KeepInv, Connections, Requeue
<1>2. OnlyRouted'
  BY DEF KeepInv, OnlyRouted, Requeue
<1>3. \A c \in inbound' \cup acks' : c[2] \in Connections /\ c[1] \in routed' /\ c[2] < connection'
  BY <1>1 DEF KeepInv, CopiesInv, Copies
<1>4. CopiesInv'
  BY <1>1, <1>3 DEF KeepInv, CopiesInv, Copies, Connections
<1> QED
  BY <1>1, <1>2, <1>4 DEF KeepInv, GivenFirst

LEMMA KeepStep == KeepInv /\ [Next]_vars => KeepInv'
<1> SUFFICES ASSUME KeepInv, [Next]_vars PROVE KeepInv'
  OBVIOUS
<1> USE DEF KeepInv, OnlyRouted, CopiesInv, GivenFirst
<1>1. ASSUME NEW e \in Events, Put(e) PROVE KeepInv'
  BY <1>1 DEF Put, busVars, handlerVars
<1>2. ASSUME NEW e \in Events, Deliver(e) PROVE KeepInv'
  <2>1. connection' = connection /\ connection \in Connections
    BY <1>2 DEF Deliver
  <2>2. OnlyRouted'
    BY <1>2 DEF Deliver
  <2>3. \A c \in inbound' \cup acks' : c \in inbound \cup acks \/ c = <<e, connection>>
    BY <1>2 DEF Deliver
  <2>4. CopiesInv'
    BY <1>2, <2>1, <2>3 DEF Deliver, Copies, Connections
  <2> QED
    BY <1>2, <2>1, <2>2, <2>4 DEF Deliver
<1>3. ASSUME NEW c \in Copies, Dispatch(c) PROVE KeepInv'
  BY <1>3 DEF Dispatch, queueVars
<1>4. ASSUME NEW c \in Copies, Ack(c) PROVE KeepInv'
  <2> DEFINE done == {e \in unsettled : e = c[1] /\ Arrives(c)}
  <2>1. unsettled' = unsettled \ done /\ settled' = settled \cup done /\ acks' = acks \ {c}
        /\ UNCHANGED <<ready, connection, inbound, routed, given>>
    BY <1>4 DEF Ack, handlerVars
  <2>2. OnlyRouted'
    BY <2>1
  <2>3. GivenFirst'
    BY <1>4, <2>1 DEF Ack
  <2>4. \A d \in inbound' \cup acks' : d \in (inbound \cup acks) \ {c}
    BY <1>4, <2>1 DEF Ack
  <2>5. \A d \in inbound' \cup acks' : d[2] = connection /\ c[2] = connection => d[1] # c[1]
    BY <1>4, <2>4 DEF Copies
  <2>6. CopiesInv'
    BY <2>1, <2>4, <2>5 DEF Arrives
  <2> QED
    BY <2>1, <2>2, <2>3, <2>6
<1>5. ASSUME NEW c \in Copies, Job(c) PROVE KeepInv'
  BY <1>5 DEF Job, Check, Handle, Fails, Mark, queueVars, busVars
<1>6. ASSUME LoseConnection PROVE KeepInv'
  BY <1>6, RequeueKeeps DEF LoseConnection, busVars
<1>7. ASSUME NEW marks, Leave(marks) PROVE KeepInv'
  BY <1>7, RequeueKeeps DEF Leave
<1>8. CASE Close \/ Crash
  BY <1>7, <1>8 DEF Close, Crash
<1>9. CASE Stop \/ Join \/ Start \/ Resumption \/ Create
  BY <1>9 DEF Stop, Join, Unbind, Ask, Answer, CancelConsumer, DrainLocal, Deadline, GiveUp,
              Stopped, Start, Resumption, Resume, Bound, Consumed, ResumeFails, Create, Queued, queueVars, handlerVars
<1>10. CASE UNCHANGED vars
  BY <1>10 DEF vars, queueVars, busVars
<1> QED
  BY <1>1, <1>2, <1>3, <1>4, <1>5, <1>6, <1>8, <1>9, <1>10 DEF Next

(* The broker holds every routed event that is not acknowledged, exactly     *)
(* once, through reconnections, crashes, joins and restarts.                 *)
THEOREM BrokerCorrect == Spec => []BrokerKeeps
<1>1. KeepInv => BrokerKeeps
  BY DEF KeepInv, OnlyRouted, CopiesInv, BrokerKeeps
<1> QED
  BY <1>1, KeepInit, KeepStep, PTL DEF Spec

-------------------------------------------------------------------------------
LEMMA InitDelivers == Init => Promise!Init
BY DEF Init, Promise!Init

(* Put accepts, Dispatch gives, Ack settles, and every other step, the       *)
(* repeated dispatch of an event and the acknowledgement that does not       *)
(* arrive among them, is a stutter.                                          *)
LEMMA StepDelivers ==
  KeepInv /\ [Next]_vars =>
    [\E e \in Events : Promise!Accept(e) \/ Promise!Give(e) \/ Promise!Settle(e)]_(Promise!vars)
<1> SUFFICES ASSUME KeepInv, [Next]_vars,
                    \A e \in Events : ~(Promise!Accept(e) \/ Promise!Give(e) \/ Promise!Settle(e))
             PROVE  UNCHANGED <<routed, given, settled>>
  BY DEF Promise!vars
<1>1. ASSUME NEW e \in Events, Put(e) PROVE FALSE
  <2>1. Promise!Accept(e)
    BY <1>1 DEF Put, Promise!Accept
  <2> QED
    BY <2>1
<1>2. ASSUME NEW c \in Copies, Dispatch(c) PROVE UNCHANGED <<routed, given, settled>>
  <2>1. c[1] \in Events /\ c[1] \in routed
    BY <1>2 DEF Dispatch, KeepInv, CopiesInv, Copies
  <2>2. CASE c[1] \in settled
    BY <1>2, <2>2 DEF Dispatch, KeepInv, GivenFirst
  <2>3. CASE c[1] \notin settled
    <3>1. Promise!Give(c[1])
      BY <1>2, <2>1, <2>3 DEF Dispatch, Promise!Give
    <3> QED
      BY <2>1, <3>1
  <2> QED
    BY <2>2, <2>3
<1>3. ASSUME NEW c \in Copies, Ack(c) PROVE UNCHANGED <<routed, given, settled>>
  <2>1. c[1] \in Events /\ c[1] \in given
    BY <1>3 DEF Ack, KeepInv, GivenFirst, Copies
  <2>2. CASE c[1] \in unsettled /\ Arrives(c)
    <3>1. Promise!Settle(c[1])
      BY <1>3, <2>1, <2>2 DEF Ack, Promise!Settle
    <3> QED
      BY <2>1, <3>1
  <2>3. CASE ~(c[1] \in unsettled /\ Arrives(c))
    BY <1>3, <2>3 DEF Ack
  <2> QED
    BY <2>2, <2>3
<1>4. CASE \E e \in Events : Deliver(e)
  BY <1>4 DEF Deliver
<1>5. CASE \E c \in Copies : Job(c)
  BY <1>5 DEF Job, Check, Handle, Fails, Mark
<1>6. CASE LoseConnection \/ Close \/ Crash
  BY <1>6 DEF LoseConnection, Close, Crash, Leave
<1>7. CASE Stop \/ Join \/ Start \/ Resumption \/ Create
  BY <1>7 DEF Stop, Join, Unbind, Ask, Answer, CancelConsumer, DrainLocal, Deadline, GiveUp,
              Stopped, Start, Resumption, Resume, Bound, Consumed, ResumeFails, Create, Queued
<1>8. CASE UNCHANGED vars
  BY <1>8 DEF vars
<1> QED
  BY <1>1, <1>2, <1>3, <1>4, <1>5, <1>6, <1>7, <1>8 DEF Next

(* The queue implements at-least-once delivery: the bus has dispatched every *)
(* event before the broker forgets it.                                       *)
THEOREM DeliveryCorrect == Spec => AtLeastOnceDelivery
BY KeepInit, KeepStep, InitDelivers, StepDelivers, PTL DEF Spec, AtLeastOnceDelivery, Promise!Spec

-------------------------------------------------------------------------------
(* Until a restart join has drained, clean is not set; what comes after it   *)
(* has drained comes through a consumer.                                     *)
DrainInv ==
  /\ clean /\ phase = "joined" /\ ~consumer => inbound = {}
  /\ clean => phase \notin {"unbinding", "draining", "asking", "cancelling"}
  /\ strategy = "restart" => phase \notin {"unbinding", "asking"}
  /\ strategy \in {"restart", "offline"}

LEMMA DrainInit == Init => DrainInv
BY StrategyAssumption DEF Init, DrainInv

LEMMA DrainStep == DrainInv /\ [Next]_vars => DrainInv'
<1> SUFFICES ASSUME DrainInv, [Next]_vars PROVE DrainInv'
  OBVIOUS
<1> USE DEF DrainInv
<1>1. CASE \E e \in Events : Put(e) \/ Deliver(e)
  BY <1>1 DEF Put, Deliver, busVars, links
<1>2. CASE \E c \in Copies : Dispatch(c) \/ Ack(c)
  BY <1>2 DEF Dispatch, Ack, queueVars, links
<1>3. CASE \E c \in Copies : Job(c)
  BY <1>3 DEF Job, Check, Handle, Fails, Mark, queueVars, busVars, links
<1>4. CASE LoseConnection
  BY <1>4 DEF LoseConnection, busVars, links
<1>5. CASE Stop
  BY <1>5 DEF Stop, FirstStep, Goes, queueVars, links
<1>6. CASE Unbind \/ Ask \/ Answer \/ Deadline
  BY <1>6 DEF Unbind, Ask, Answer, Deadline, Goes, Queued, links
<1>7. CASE CancelConsumer
  BY <1>7 DEF CancelConsumer, Goes, Queued, Cancels
<1>8. CASE DrainLocal
  BY <1>8 DEF DrainLocal, LocalEmpty, Goes, Queued, links
<1>9. CASE GiveUp
  BY <1>9 DEF GiveUp, Goes, Queued
<1>10. CASE Stopped
  BY <1>10 DEF Stopped, Goes, queueVars, links
<1>11. CASE Start \/ Resumption \/ Create
  BY <1>11 DEF Start, Resumption, Resume, Bound, Consumed, ResumeFails, Create, Goes, Queued, links
<1>12. CASE Close \/ Crash
  BY <1>12 DEF Close, Crash, Leave, Goes
<1>13. CASE UNCHANGED vars
  BY <1>13 DEF vars, queueVars, busVars, links
<1> QED
  BY <1>1, <1>2, <1>3, <1>4, <1>5, <1>6, <1>7, <1>8, <1>9, <1>10, <1>11, <1>12, <1>13
  DEF Next, Join

(* A restart join that met no deadline leaves nothing local behind, unless   *)
(* the broker still has a consumer, because the cancel failed or the         *)
(* application resumed the queue; whatever is delivered while it runs.       *)
THEOREM DrainCorrect == Spec => []NothingLocalAfterJoin
<1>1. DrainInv => NothingLocalAfterJoin
  BY DEF DrainInv, NothingLocalAfterJoin
<1> QED
  BY <1>1, DrainInit, DrainStep, PTL DEF Spec

-------------------------------------------------------------------------------
(* A copy has a handler task once at most, and none while it is inbound.     *)
Stages == {"none", "checking", "handling", "marking", "ended"}
JobsInv ==
  /\ job \in [Copies -> Stages] /\ handled \in [Events -> Nat]
  /\ \A c \in inbound : job[c] = "none"
  /\ \A c \in Copies : job[c] # "none" =>
       c[2] <= connection /\ (c[2] = connection => c[1] \in unsettled \cup settled)

(* Of an event without an excuse, one copy at most is between its check and  *)
(* its mark, and it is the first; once it is handled, it is marked or about  *)
(* to be.                                                                    *)
Busy(c) == job[c] \in {"handling", "marking"}
OnceInv ==
  \A e \in Events \ excused :
    /\ \A c, d \in Copies : c[1] = e /\ d[1] = e /\ Busy(c) /\ Busy(d) => c = d
    /\ \A c \in Copies : c[1] = e /\ job[c] = "handling" => handled[e] = 0
    /\ \A c \in Copies : c[1] = e /\ Busy(c) => e \notin recorded
    /\ handled[e] > 0 => handled[e] = 1 /\ (e \in recorded \/ e \in Unmarked)

RepeatInv == KeepInv /\ JobsInv /\ OnceInv

LEMMA RepeatInit == Init => RepeatInv
<1> SUFFICES ASSUME Init PROVE JobsInv /\ OnceInv
  BY KeepInit DEF RepeatInv
<1>1. JobsInv
  BY DEF Init, JobsInv, Stages
<1>2. OnceInv
  BY DEF Init, OnceInv, Busy
<1> QED
  BY <1>1, <1>2

(* Tasks that end without a mark take the excuse of their event with them.   *)
LEMMA EndAllKeeps ==
  ASSUME JobsInv, OnceInv, NEW marks, marks \subseteq recorded,
         job' = [c \in Copies |-> IF job[c] = "none" THEN "none" ELSE "ended"],
         recorded' = marks, excused' = excused \cup Unmarked \cup (recorded \ marks),
         UNCHANGED handled
  PROVE  OnceInv'
<1>1. ASSUME NEW e \in Events \ excused' PROVE handled[e] > 0 => handled[e] = 1 /\ e \in recorded'
  BY <1>1 DEF OnceInv
<1>2. \A c \in Copies : ~Busy(c)' /\ job'[c] # "handling"
  BY DEF Busy
<1> QED
  BY <1>1, <1>2 DEF OnceInv

LEMMA JobsStep == KeepInv /\ JobsInv /\ [Next]_vars => JobsInv'
<1> SUFFICES ASSUME KeepInv, JobsInv, [Next]_vars PROVE JobsInv'
  OBVIOUS
<1> USE DEF JobsInv
<1>1. ASSUME NEW e \in Events, Put(e) PROVE JobsInv'
  BY <1>1 DEF Put, busVars, handlerVars
<1>2. ASSUME NEW e \in Events, Deliver(e) PROVE JobsInv'
  <2>1. connection \in Connections /\ e \notin unsettled \cup settled
    BY <1>2 DEF Deliver, KeepInv, OnlyRouted
  <2>2. <<e, connection>> \in Copies /\ job[<<e, connection>>] = "none"
    BY <2>1 DEF Copies
  <2> QED
    BY <1>2, <2>2 DEF Deliver, handlerVars
<1>3. ASSUME NEW c \in Copies, Dispatch(c) PROVE JobsInv'
  <2>1. c[2] <= connection /\ (c[2] = connection => c[1] \in unsettled)
    BY <1>3 DEF Dispatch, KeepInv, CopiesInv
  <2>2. c \notin inbound' /\ inbound' \subseteq inbound
    BY <1>3 DEF Dispatch
  <2>3. job' = [job EXCEPT ![c] = "checking"] /\ UNCHANGED <<handled, connection, unsettled, settled>>
    BY <1>3 DEF Dispatch, queueVars
  <2> QED
    BY <2>1, <2>2, <2>3 DEF Stages
<1>4. ASSUME NEW c \in Copies, Ack(c) PROVE JobsInv'
  BY <1>4 DEF Ack, handlerVars
<1>5. ASSUME NEW c \in Copies, Job(c) PROVE JobsInv'
  <2>1. c[1] \in Events /\ job[c] # "none" /\ c \notin inbound
    BY <1>5 DEF Job, Check, Handle, Fails, Mark, Copies
  <2>2. UNCHANGED <<inbound, connection, unsettled, settled>>
    BY <1>5 DEF Job, Check, Handle, Fails, Mark, queueVars, busVars
  <2>3. \E stage \in Stages : job' = [job EXCEPT ![c] = stage]
    BY <1>5 DEF Job, Check, Handle, Fails, Mark, Becomes, Stages
  <2>4. handled' \in [Events -> Nat]
    BY <1>5, <2>1 DEF Job, Check, Handle, Fails, Mark
  <2> QED
    BY <2>1, <2>2, <2>3, <2>4
<1>6. \A c \in Copies : job[c] # "none" /\ Requeue => c[2] < connection'
  BY BoundsAssumption DEF KeepInv, Requeue, Copies, Connections
<1>7. CASE LoseConnection
  BY <1>6, <1>7 DEF LoseConnection, busVars, handlerVars, KeepInv, Copies, Connections, Requeue
<1>8. CASE Close \/ Crash
  BY <1>6, <1>8 DEF Close, Crash, Leave, KeepInv, Copies, Connections, Requeue, Stages
<1>9. CASE Stopped
  <2>1. UNCHANGED <<inbound, connection, unsettled, settled, handled>>
    BY <1>9 DEF Stopped, queueVars
  <2>2. job' = [c \in Copies |-> IF job[c] = "none" THEN "none" ELSE "ended"]
    BY <1>9 DEF Stopped
  <2>3. job' \in [Copies -> Stages] /\ \A c \in Copies : job'[c] = "none" <=> job[c] = "none"
    BY <2>2 DEF Stages
  <2>4. \A c \in inbound : c \in Copies
    BY DEF KeepInv, CopiesInv
  <2> QED
    BY <2>1, <2>3, <2>4
<1>10. CASE Stop \/ (Join /\ ~Stopped) \/ Start \/ Resumption \/ Create
  BY <1>10 DEF Stop, Join, Unbind, Ask, Answer, CancelConsumer, DrainLocal, Deadline, GiveUp,
               Start, Resumption, Resume, Bound, Consumed, ResumeFails, Create, Queued, queueVars, handlerVars
<1>11. CASE UNCHANGED vars
  BY <1>11 DEF vars, queueVars, busVars, handlerVars
<1> QED
  BY <1>1, <1>2, <1>3, <1>4, <1>5, <1>7, <1>8, <1>9, <1>10, <1>11 DEF Next, Join

LEMMA OnceStep == JobsInv /\ OnceInv /\ [Next]_vars => OnceInv'
<1> SUFFICES ASSUME JobsInv, OnceInv, [Next]_vars PROVE OnceInv'
  OBVIOUS
<1>1. ASSUME NEW c \in Copies, Dispatch(c) PROVE OnceInv'
  <2>1. job' = [job EXCEPT ![c] = "checking"] /\ UNCHANGED <<recorded, handled, excused>>
    BY <1>1 DEF Dispatch
  <2>2. \A d \in Copies : Busy(d)' <=> Busy(d)
    BY <1>1, <2>1 DEF Dispatch, JobsInv, Busy
  <2>3. Unmarked' = Unmarked /\ \A d \in Copies : job'[d] = "handling" => job[d] = "handling"
    BY <1>1, <2>1 DEF Dispatch, JobsInv, Unmarked
  <2> QED
    BY <2>1, <2>2, <2>3 DEF OnceInv
<1>2. ASSUME NEW c \in Copies, Check(c) PROVE OnceInv'
  <2>1. c[1] \in Events /\ job[c] = "checking" /\ UNCHANGED <<recorded, handled>>
    BY <1>2 DEF Check, Copies
  <2>2. CASE Seen(c[1])
    <3>1. job' = [job EXCEPT ![c] = "ended"] /\ excused' = excused
      BY <1>2, <2>2 DEF Check, Becomes
    <3>2. Unmarked' = Unmarked /\ \A d \in Copies : (Busy(d)' <=> Busy(d)) /\ (job'[d] = "handling" => job[d] = "handling")
      BY <2>1, <3>1 DEF JobsInv, Unmarked, Busy
    <3> QED
      BY <2>1, <3>1, <3>2 DEF OnceInv
  <2>3. CASE ~Seen(c[1])
    <3>1. job' = [job EXCEPT ![c] = "handling"] /\ excused' = excused \cup {e \in {c[1]} : Overlaps(c)}
      BY <1>2, <2>3 DEF Check, Becomes
    <3>2. \A d \in Copies : d # c => job'[d] = job[d]
      BY <3>1 DEF JobsInv
    <3>3. job'[c] = "handling" /\ Unmarked' = Unmarked
      BY <2>1, <3>1 DEF JobsInv, Unmarked
    <3>4. ASSUME NEW e \in Events \ excused', e # c[1]
          PROVE  /\ \A a, d \in Copies : a[1] = e /\ d[1] = e /\ Busy(a)' /\ Busy(d)' => a = d
                 /\ \A d \in Copies : d[1] = e /\ job'[d] = "handling" => handled[e] = 0
                 /\ \A d \in Copies : d[1] = e /\ Busy(d)' => e \notin recorded
                 /\ handled[e] > 0 => handled[e] = 1 /\ (e \in recorded \/ e \in Unmarked)
      BY <3>1, <3>2, <3>4 DEF OnceInv, Busy
    <3>5. ASSUME c[1] \notin excused'
          PROVE  /\ \A d \in Copies : d[1] = c[1] /\ Busy(d)' => d = c
                 /\ c[1] \notin recorded /\ handled[c[1]] = 0
      <4>1. \A d \in Copies \ {c} : d[1] = c[1] => ~Busy(d)
        BY <3>1, <3>5 DEF Overlaps, Busy
      <4>2. c[1] \notin recorded /\ c[1] \notin Unmarked
        BY <2>1, <2>3, <4>1 DEF Seen, Unmarked, Busy
      <4>3. handled[c[1]] = 0
        BY <2>1, <3>1, <3>5, <4>2 DEF OnceInv, JobsInv
      <4> QED
        BY <3>2, <4>1, <4>2, <4>3 DEF Busy
    <3> QED
      BY <2>1, <3>3, <3>4, <3>5 DEF OnceInv
  <2> QED
    BY <2>2, <2>3
<1>3. ASSUME NEW c \in Copies, Handle(c) PROVE OnceInv'
  <2>1. c[1] \in Events /\ job[c] = "handling" /\ job' = [job EXCEPT ![c] = "marking"]
        /\ handled' = [handled EXCEPT ![c[1]] = @ + 1] /\ UNCHANGED <<recorded, excused>>
    BY <1>3 DEF Handle, Becomes, Copies
  <2>2. \A d \in Copies : (Busy(d)' <=> Busy(d)) /\ (job'[d] = "handling" => d # c /\ job[d] = "handling")
    BY <2>1 DEF JobsInv, Busy
  <2>3. Unmarked' = Unmarked \cup {c[1]}
    BY <2>1 DEF JobsInv, Unmarked
  <2>4. c[1] \notin excused => handled[c[1]] = 0 /\ handled'[c[1]] = 1
    BY <2>1 DEF OnceInv, JobsInv
  <2>5. \A e \in Events : e # c[1] => handled'[e] = handled[e]
    BY <2>1 DEF JobsInv
  <2>6. \A d \in Copies : d[1] = c[1] /\ job'[d] = "handling" => c[1] \in excused
    BY <2>1, <2>2 DEF OnceInv, Busy
  <2> QED
    BY <2>1, <2>2, <2>3, <2>4, <2>5, <2>6 DEF OnceInv
<1>4. ASSUME NEW c \in Copies, Fails(c) PROVE OnceInv'
  <2>1. /\ c[1] \in Events /\ job[c] \in {"checking", "handling", "marking"}
        /\ job' = [job EXCEPT ![c] = "ended"] /\ handled' = handled
    BY <1>4 DEF Fails, Becomes, Copies
  <2>2. \A d \in Copies : (Busy(d)' => Busy(d)) /\ (job'[d] = "handling" => job[d] = "handling")
    BY <2>1 DEF JobsInv, Busy
  <2>3. CASE job[c] = "marking"
    <3>1. recorded' \in {recorded, recorded \cup {c[1]}} /\ excused' = excused \cup {c[1]}
      BY <1>4, <2>3 DEF Fails
    <3>2. Unmarked \subseteq Unmarked' \cup {c[1]}
      BY <2>1 DEF JobsInv, Unmarked
    <3> QED
      BY <2>1, <2>2, <3>1, <3>2 DEF OnceInv
  <2>4. CASE job[c] # "marking"
    <3>1. UNCHANGED <<recorded, excused>>
      BY <1>4, <2>4 DEF Fails
    <3>2. Unmarked' = Unmarked
      BY <2>1, <2>4 DEF JobsInv, Unmarked
    <3> QED
      BY <2>1, <2>2, <3>1, <3>2 DEF OnceInv
  <2> QED
    BY <2>3, <2>4
<1>5. ASSUME NEW c \in Copies, Mark(c) PROVE OnceInv'
  <2>1. c[1] \in Events /\ job[c] = "marking" /\ job' = [job EXCEPT ![c] = "ended"]
        /\ recorded' = recorded \cup {c[1]} /\ UNCHANGED <<handled, excused>>
    BY <1>5 DEF Mark, Becomes, Copies
  <2>2. \A d \in Copies : (Busy(d)' => Busy(d) /\ d # c) /\ (job'[d] = "handling" => job[d] = "handling")
    BY <2>1 DEF JobsInv, Busy
  <2>3. Unmarked \subseteq Unmarked' \cup {c[1]}
    BY <2>1 DEF JobsInv, Unmarked
  <2>4. \A d \in Copies : d[1] = c[1] /\ Busy(d)' => c[1] \in excused
    BY <2>1, <2>2 DEF OnceInv, Busy
  <2> QED
    BY <2>1, <2>2, <2>3, <2>4 DEF OnceInv
<1>6. CASE Close
  BY <1>6, EndAllKeeps DEF Close, Leave
<1>7. CASE Crash
  BY <1>7, EndAllKeeps DEF Crash, Leave, Surviving
<1>8. CASE Stopped
  <2>1. excused' = excused \cup Unmarked \cup (recorded \ recorded)
    BY <1>8 DEF Stopped
  <2> QED
    BY <1>8, <2>1, EndAllKeeps DEF Stopped
<1>9. ASSUME UNCHANGED handlerVars PROVE OnceInv'
  BY <1>9 DEF handlerVars, OnceInv, Busy, Unmarked
<1>10. CASE \E e \in Events : Put(e) \/ Deliver(e)
  BY <1>9, <1>10 DEF Put, Deliver
<1>11. CASE \E c \in Copies : Ack(c)
  BY <1>9, <1>11 DEF Ack
<1>12. CASE LoseConnection \/ Stop \/ (Join /\ ~Stopped) \/ Start \/ Resumption \/ Create
  BY <1>9, <1>12 DEF LoseConnection, Stop, Join, Unbind, Ask, Answer, CancelConsumer, DrainLocal,
                     Deadline, GiveUp, Start, Resumption, Resume, Bound, Consumed, ResumeFails, Create, Queued
<1>13. CASE UNCHANGED vars
  BY <1>9, <1>13 DEF vars
<1> QED
  BY <1>1, <1>2, <1>3, <1>4, <1>5, <1>6, <1>7, <1>8, <1>10, <1>11, <1>12, <1>13 DEF Next, Job, Join

LEMMA RepeatStep == RepeatInv /\ [Next]_vars => RepeatInv'
BY KeepStep, JobsStep, OnceStep DEF RepeatInv

(* An idempotent handler handles an event more than once only if two copies  *)
(* were between check and mark together, or a mark was not written or lost.  *)
THEOREM RepeatsCorrect == Spec => []RepeatsAreExcused
<1>1. RepeatInv => RepeatsAreExcused
  BY DEF RepeatInv, JobsInv, OnceInv, RepeatsAreExcused
<1> QED
  BY <1>1, RepeatInit, RepeatStep, PTL DEF Spec

-------------------------------------------------------------------------------
(* Over one connection an event is handled once at most, whatever is         *)
(* delivered again: the connections whose copy has come past its handle().   *)
Past(e) == {n \in Connections : job[<<e, n>>] \in {"marking", "ended"}}
CountInv == \A e \in Events : handled[e] <= Cardinality(Past(e))

Phases == {"running", "unbinding", "draining", "asking", "cancelling", "joined", "stopped", "down"}
FieldsOK ==
  /\ routes \in BOOLEAN /\ consumer \in BOOLEAN
  /\ bound \in BOOLEAN /\ consuming \in BOOLEAN /\ clean \in BOOLEAN
  /\ resuming \in {"no", "binding", "consuming"}
  /\ phase \in Phases /\ strategy \in Strategies /\ stops \in 0..MaxStops
SetsOK ==
  /\ routed \subseteq Events /\ given \subseteq Events
  /\ recorded \subseteq Events /\ excused \subseteq Events
TypeInv == KeepInv /\ JobsInv /\ CountInv /\ FieldsOK /\ SetsOK

(* Of the connections, finitely many.                                        *)
LEMMA Finite ==
  ASSUME NEW T \in SUBSET Connections
  PROVE  IsFiniteSet(T) /\ Cardinality(T) \in Nat /\ Cardinality(T) <= MaxConnections
<1>1. IsFiniteSet(1..MaxConnections) /\ Cardinality(1..MaxConnections) = MaxConnections
  BY BoundsAssumption, FS_Interval
<1>2. IsFiniteSet(T) /\ Cardinality(T) <= Cardinality(1..MaxConnections)
  BY <1>1, FS_Subset DEF Connections
<1> QED
  BY <1>1, <1>2, FS_CardinalityType

LEMMA TypeInit == Init => TypeInv
<1> SUFFICES ASSUME Init PROVE CountInv /\ FieldsOK /\ SetsOK
  BY RepeatInit DEF TypeInv, RepeatInv
<1>1. CountInv
  <2> SUFFICES ASSUME NEW e \in Events PROVE handled[e] <= Cardinality(Past(e))
    BY DEF CountInv
  <2>1. handled[e] = 0 /\ Past(e) \in SUBSET Connections
    BY DEF Init, Past
  <2> QED
    BY <2>1, Finite
<1>2. FieldsOK
  <2>1. stops \in 0..MaxStops
    BY BoundsAssumption DEF Init
  <2> QED
    BY <2>1 DEF Init, FieldsOK, Phases
<1> QED
  BY <1>1, <1>2 DEF Init, SetsOK

(* What is past its handle() stays past it.                                  *)
LEMMA PastGrows ==
  ASSUME JobsInv, CountInv, UNCHANGED handled,
         \A c \in Copies : job[c] \in {"marking", "ended"} => job'[c] \in {"marking", "ended"}
  PROVE  CountInv'
<1> SUFFICES ASSUME NEW e \in Events PROVE handled'[e] <= Cardinality(Past(e)')
  BY DEF CountInv
<1>1. Past(e) \in SUBSET Past(e)' /\ Past(e)' \in SUBSET Connections
  BY DEF Past, Copies
<1>2. IsFiniteSet(Past(e)') /\ Cardinality(Past(e)') \in Nat
  BY <1>1, Finite
<1>3. Cardinality(Past(e)) <= Cardinality(Past(e)') /\ Cardinality(Past(e)) \in Nat
  BY <1>1, <1>2, FS_Subset, FS_CardinalityType
<1>4. handled[e] <= Cardinality(Past(e)) /\ handled[e] \in Nat /\ handled'[e] = handled[e]
  BY DEF JobsInv, CountInv
<1> QED
  BY <1>2, <1>3, <1>4

LEMMA CountStep == JobsInv /\ CountInv /\ [Next]_vars => CountInv'
<1> SUFFICES ASSUME JobsInv, CountInv, [Next]_vars PROVE CountInv'
  OBVIOUS
<1>1. ASSUME NEW c \in Copies, Handle(c) PROVE CountInv'
  <2> SUFFICES ASSUME NEW e \in Events PROVE handled'[e] <= Cardinality(Past(e)')
    BY DEF CountInv
  <2>1. c[1] \in Events /\ c[2] \in Connections /\ c = <<c[1], c[2]>> /\ job[c] = "handling"
        /\ job' = [job EXCEPT ![c] = "marking"] /\ handled' = [handled EXCEPT ![c[1]] = @ + 1]
    BY <1>1 DEF Handle, Becomes, Copies
  <2>2. handled[e] \in Nat /\ handled[e] <= Cardinality(Past(e))
    BY DEF JobsInv, CountInv
  <2>3. Past(e) \in SUBSET Connections /\ Past(e)' \in SUBSET Connections
    BY DEF Past
  <2>4. CASE e = c[1]
    <3>1. Past(e)' = Past(e) \cup {c[2]} /\ c[2] \notin Past(e)
      BY <2>1, <2>4 DEF Past, JobsInv, Copies
    <3>2. Cardinality(Past(e)') = Cardinality(Past(e)) + 1
      BY <2>3, <3>1, Finite, FS_AddElement
    <3>3. handled'[e] = handled[e] + 1
      BY <2>1, <2>4 DEF JobsInv
    <3> QED
      BY <2>2, <2>3, <3>2, <3>3, Finite
  <2>5. CASE e # c[1]
    <3>1. Past(e)' = Past(e)
      BY <2>1, <2>5 DEF Past, JobsInv, Copies
    <3>2. handled'[e] = handled[e]
      BY <2>1, <2>5 DEF JobsInv
    <3> QED
      BY <2>2, <3>1, <3>2
  <2> QED
    BY <2>4, <2>5
<1>2. ASSUME NEW c \in Copies, Dispatch(c) PROVE CountInv'
  <2>1. job[c] = "none" /\ job' = [job EXCEPT ![c] = "checking"] /\ handled' = handled
    BY <1>2 DEF Dispatch, JobsInv
  <2> QED
    BY <2>1, PastGrows DEF JobsInv
<1>3. ASSUME NEW c \in Copies, Check(c) \/ Fails(c) \/ Mark(c) PROVE CountInv'
  <2>1. job[c] \in {"checking", "handling"} \/ job' = [job EXCEPT ![c] = "ended"]
    BY <1>3 DEF Check, Fails, Mark, Becomes
  <2>2. (\E stage \in Stages : job' = [job EXCEPT ![c] = stage]) /\ handled' = handled
    BY <1>3 DEF Check, Fails, Mark, Becomes, Stages
  <2> QED
    BY <2>1, <2>2, PastGrows DEF JobsInv
<1>4. CASE Close \/ Crash \/ Stopped
  <2>1. job' = [c \in Copies |-> IF job[c] = "none" THEN "none" ELSE "ended"] /\ handled' = handled
    BY <1>4 DEF Close, Crash, Leave, Stopped
  <2> QED
    BY <2>1, PastGrows DEF JobsInv
<1>5. ASSUME UNCHANGED <<job, handled>> PROVE CountInv'
  BY <1>5, PastGrows
<1>6. CASE (\E e \in Events : Put(e) \/ Deliver(e)) \/ (\E c \in Copies : Ack(c))
  BY <1>5, <1>6 DEF Put, Deliver, Ack, handlerVars
<1>7. CASE LoseConnection \/ Stop \/ (Join /\ ~Stopped) \/ Start \/ Resumption \/ Create
  BY <1>5, <1>7 DEF LoseConnection, Stop, Join, Unbind, Ask, Answer, CancelConsumer, DrainLocal,
                    Deadline, GiveUp, Start, Resumption, Resume, Bound, Consumed, ResumeFails, Create, Queued, handlerVars
<1>8. CASE UNCHANGED vars
  BY <1>5, <1>8 DEF vars, handlerVars
<1> QED
  BY <1>1, <1>2, <1>3, <1>4, <1>6, <1>7, <1>8 DEF Next, Job, Join

LEMMA FieldsStep == FieldsOK /\ [Next]_vars => FieldsOK'
<1> SUFFICES ASSUME FieldsOK, [Next]_vars PROVE FieldsOK'
  OBVIOUS
<1> USE DEF FieldsOK, Phases, links
<1>1. ASSUME UNCHANGED <<links, clean, phase, strategy, stops>> PROVE FieldsOK'
  BY <1>1
<1>2. CASE \E e \in Events : Put(e) \/ Deliver(e)
  BY <1>1, <1>2 DEF Put, Deliver, busVars
<1>3. CASE \E c \in Copies : Dispatch(c) \/ Ack(c)
  BY <1>1, <1>3 DEF Dispatch, Ack, queueVars
<1>4. CASE \E c \in Copies : Job(c)
  BY <1>1, <1>4 DEF Job, Check, Handle, Fails, Mark, queueVars, busVars
<1>5. CASE Stop
  <2>1. stops' \in 0..MaxStops
    BY <1>5, BoundsAssumption DEF Stop
  <2> QED
    BY <1>5, <2>1 DEF Stop, FirstStep, Goes, queueVars
<1>6. CASE Unbind \/ Ask \/ Answer \/ CancelConsumer \/ DrainLocal \/ Deadline \/ GiveUp
  BY <1>6 DEF Unbind, Ask, Answer, CancelConsumer, DrainLocal, Deadline, GiveUp, Goes, Queued,
             Unbinds, Cancels
<1>7. CASE Stopped \/ Start \/ Resumption \/ Create
  BY <1>7 DEF Stopped, Start, Resumption, Resume, Bound, Consumed, ResumeFails, Create, Goes, Queued, queueVars
<1>8. CASE LoseConnection \/ Close \/ Crash
  BY <1>8 DEF LoseConnection, Close, Crash, Leave, Goes, busVars
<1>9. CASE UNCHANGED vars
  BY <1>1, <1>9 DEF vars, queueVars, busVars
<1> QED
  BY <1>2, <1>3, <1>4, <1>5, <1>6, <1>7, <1>8, <1>9 DEF Next, Join

LEMMA SetsStep == KeepInv /\ SetsOK /\ [Next]_vars => SetsOK'
<1> SUFFICES ASSUME KeepInv, SetsOK, [Next]_vars PROVE SetsOK'
  OBVIOUS
<1> USE DEF SetsOK
<1>1. ASSUME UNCHANGED <<routed, given, recorded, excused>> PROVE SetsOK'
  BY <1>1
<1>2. ASSUME NEW c \in Copies PROVE c[1] \in Events
  BY DEF Copies
<1>3. Unmarked \subseteq Events
  BY <1>2 DEF Unmarked
<1>4. CASE \E e \in Events : Put(e) \/ Deliver(e)
  BY <1>4 DEF Put, Deliver, handlerVars
<1>5. CASE \E c \in Copies : Dispatch(c) \/ Ack(c)
  BY <1>2, <1>5 DEF Dispatch, Ack, handlerVars
<1>6. CASE \E c \in Copies : Job(c)
  BY <1>2, <1>6 DEF Job, Check, Handle, Fails, Mark
<1>7. CASE LoseConnection \/ Stop \/ Start \/ Resumption \/ Create
  BY <1>1, <1>7 DEF LoseConnection, Stop, Start, Resumption, Resume, Bound, Consumed, ResumeFails, Create, Queued, handlerVars
<1>8. CASE Join
  BY <1>3, <1>8 DEF Join, Unbind, Ask, Answer, CancelConsumer, DrainLocal, Deadline, GiveUp, Stopped,
                    Queued, handlerVars
<1>9. CASE Close \/ Crash
  BY <1>3, <1>9 DEF Close, Crash, Leave, Surviving
<1>10. CASE UNCHANGED vars
  BY <1>1, <1>10 DEF vars, handlerVars
<1> QED
  BY <1>4, <1>5, <1>6, <1>7, <1>8, <1>9, <1>10 DEF Next

(* Every variable has its type; in particular, an event is handled once at   *)
(* most over each connection (templates/queues/rabbit/queue.py 149-182).     *)
THEOREM TypeCorrect == Spec => []TypeOK
<1>1. TypeInv /\ [Next]_vars => TypeInv'
  BY KeepStep, JobsStep, CountStep, FieldsStep, SetsStep DEF TypeInv
<1>2. TypeInv => TypeOK
  <2> SUFFICES ASSUME TypeInv PROVE TypeOK
    OBVIOUS
  <2>1. ASSUME NEW e \in Events PROVE handled[e] \in 0..MaxConnections
    <3>1. handled[e] \in Nat /\ handled[e] <= Cardinality(Past(e)) /\ Past(e) \in SUBSET Connections
      BY DEF TypeInv, JobsInv, CountInv, Past
    <3> QED
      BY <3>1, Finite, BoundsAssumption
  <2>2. handled \in [Events -> 0..MaxConnections]
    BY <2>1 DEF TypeInv, JobsInv
  <2>3. /\ ready \subseteq Events /\ unsettled \subseteq Events /\ settled \subseteq Events
        /\ inbound \subseteq Copies /\ acks \subseteq Copies /\ connection \in Connections
    BY DEF TypeInv, KeepInv, OnlyRouted, CopiesInv, SetsOK
  <2> QED
    BY <2>2, <2>3 DEF TypeOK, TypeInv, JobsInv, Stages, FieldsOK, Phases, SetsOK
<1> QED
  BY <1>1, <1>2, TypeInit, PTL DEF Spec
===============================================================================
