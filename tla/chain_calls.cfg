\* Adds, inserts and removes overlap and may be cancelled; every on_setup may raise.
SPECIFICATION Spec
CONSTANTS
  Middlewares = {m1, m2, m3}
  Callers = {c1, c2}
  Buses = {b1}
  NoBus = NoBus
  Chains = {"before", "on"}
  Overlapping = {"add", "undo", "remove"}
  Cancellable = {"add", "undo", "remove"}
  AddRaises = TRUE
  StartRaises = TRUE
INVARIANTS CacheCurrent HooksPaired ChainFollowsBus
PROPERTIES SetUpOnce
CHECK_DEADLOCK FALSE
