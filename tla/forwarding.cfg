\* A handler of B that reacts, a rate limit on B, and a stop of B.
SPECIFICATION Spec
CONSTANTS
  p1 = p1
  p2 = p2
  order = order
  audit = audit
  noise = noise
  ping = ping
  Publishers = {p1, p2}
  At <- Sides
  NamesOf <- Names
  System = {ping}
  Blocked <- NoiseOnA
  Declared <- Known
  Reacting = {"B"}
  Stopping = {"B"}
  Capacity = 1
  MaxRequests <- FewOnB
  Window = 1
  MaxChain = 3
  MaxDepth = 1
  MaxTime = 2
  MaxStops = 1
INVARIANTS NoEcho ChainsBounded ForwardsCounted PublishesCounted WindowRespected
PROPERTIES AllEnds
CHECK_DEADLOCK FALSE
