------------------------------ MODULE BusDelivers ------------------------------
(* EventBus implements EventDelivery, as long as a cancelled handler ends.  *)
EXTENDS EventBus

phaseMap == IF ~bound THEN "stopped" ELSE IF enable THEN "open" ELSE "draining"
channelMap == [i \in DOMAIN queue |-> [id |-> queue[i].id, name |-> queue[i].name]]
liveMap == {[id |-> t.event.id, handler |-> t.handler] : t \in Active}

Promise == INSTANCE EventDelivery
  WITH phase <- phaseMap, channel <- channelMap, live <- liveMap, used <- accepted

(* Every behaviour of the bus is one of EventDelivery: no interleaving of   *)
(* publishers, dispatch loop, handler tasks, start() and stop() duplicates  *)
(* or reorders an event, drops one from the queue, or runs a handler while  *)
(* the bus is stopped.                                                      *)
Delivers == Promise!Spec
=============================================================================
