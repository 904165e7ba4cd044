\* A handler that answers the cancellation by stop() with another exception.
SPECIFICATION Spec
CONSTANTS
  p1 = p1  p2 = p2  h1 = h1  h2 = h2
  u = u  shutdown = shutdown  task_error = task_error  bus = bus
  Publishers = {p1}
  Handlers = {h1, h2}
  UserNames = {u}
  Shutdown = shutdown
  TaskError = task_error
  Route <- RoutePair
  MaxQueue = 1
  MaxSem = 1
  MaxEvents = 2
  MaxCalls = 3
  RaisesOnCancel = {h1}
  Hanging = {}
  CallerMayCancel = FALSE
  Bus = bus
INVARIANTS
  RunningDispatches
CHECK_DEADLOCK FALSE
