----------------------------- MODULE EventDelivery -----------------------------
(***************************************************************************)
(* What the bus promises to those who publish and to those who handle,     *)
(* without queues, locks, permits or timeouts: an event is accepted at     *)
(* most once; accepted events are delivered in the order of acceptance, at *)
(* most once, to every handler routed for their name; nothing is delivered *)
(* and nothing executes while the bus is stopped, and events accepted but  *)
(* not delivered are kept for the next time it opens.                      *)
(***************************************************************************)
EXTENDS Naturals, Sequences

CONSTANT Route    \* Route[n]: the handlers of the events named n

VARIABLES
  phase,    \* "stopped", "open" (accepts publishes) or "draining"
  channel,  \* accepted and not yet delivered: a sequence of [id, name]
  live,     \* executions in progress: [id, handler]
  used      \* ids ever accepted

vars == <<phase, channel, live, used>>

Init == phase = "stopped" /\ channel = <<>> /\ live = {} /\ used = {}

Open ==
  /\ phase = "stopped"
  /\ phase' = "open"
  /\ UNCHANGED <<channel, live, used>>

Close ==
  /\ phase = "open"
  /\ phase' = "draining"
  /\ UNCHANGED <<channel, live, used>>

(* A bus stops only when nothing executes.                                  *)
Halt ==
  /\ phase # "stopped"
  /\ live = {}
  /\ phase' = "stopped"
  /\ UNCHANGED <<channel, live, used>>

(* An event is accepted in any phase: a publish that began while the bus    *)
(* was open may complete after it closed.                                   *)
Accept ==
  /\ Len(channel') = Len(channel) + 1
  /\ LET e == channel'[Len(channel')] IN
       /\ channel' = Append(channel, e)
       /\ e.id \notin used
       /\ used' = used \cup {e.id}
  /\ UNCHANGED <<phase, live>>

Deliver ==
  /\ phase # "stopped"
  /\ channel # <<>>
  /\ channel' = Tail(channel)
  /\ live' = live \cup {[id |-> Head(channel).id, handler |-> h] :
                          h \in Route[Head(channel).name]}
  /\ UNCHANGED <<phase, used>>

Finish(x) ==
  /\ x \in live
  /\ live' = live \ {x}
  /\ UNCHANGED <<phase, channel, used>>

Next ==
  \/ Open \/ Close \/ Halt
  \/ Accept \/ Deliver
  \/ \E x \in live : Finish(x)

Spec == Init /\ [][Next]_vars
=============================================================================
