\* A member with a lasting recorder that is stopped and started again: three connections,
\* one undecodable event, requests to the broker that fail.
SPECIFICATION Spec
CONSTANTS
  Events = {e1, bad}
  Poison = {bad}
  Strategies = {"restart", "offline"}
  Durable = TRUE
  Prefetch = 2
  MaxConnections = 3
  MaxStops = 1
INVARIANTS BrokerKeeps RepeatsAreExcused
PROPERTIES AtLeastOnceDelivery RoutedIsDispatched
CHECK_DEADLOCK FALSE
