\* Failing handlers up to the reports of their failures, handlers that answer a
\* cancellation with another exception, and callers of start() and stop() that
\* may be cancelled: what still holds.
SPECIFICATION Spec
CONSTANTS
  p1 = p1  p2 = p2  h1 = h1  h2 = h2
  u = u  shutdown = shutdown  task_error = task_error  bus = bus
  Publishers = {p1}
  Handlers = {h1, h2}
  UserNames = {u}
  Shutdown = shutdown
  TaskError = task_error
  Route <- RouteSplit
  MaxQueue = 1
  MaxSem = 1
  MaxEvents = 3
  MaxCalls = 2
  RaisesOnCancel = {h1}
  Hanging = {}
  CallerMayCancel = TRUE
  Bus = bus
INVARIANTS PermitsConserved NoErrorCascade
CHECK_DEADLOCK FALSE
