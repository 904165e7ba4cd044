\* Fair coroutines, except a handler without a timeout that may hang for ever while it
\* holds the only permit; it may answer a cancellation with another exception, and callers
\* of start() and stop() may be cancelled.
SPECIFICATION FairSpec
CONSTANTS
  p1 = p1  p2 = p2  h1 = h1  h2 = h2
  u = u  shutdown = shutdown  task_error = task_error  bus = bus
  Publishers = {p1}
  Handlers = {h1, h2}
  UserNames = {u}
  Shutdown = shutdown
  TaskError = task_error
  Route <- RouteSplit
  MaxQueue = 1
  MaxSem = 1
  MaxEvents = 2
  MaxCalls = 2
  RaisesOnCancel = {h1}
  Hanging = {h1}
  CallerMayCancel = TRUE
  Bus = bus
PROPERTIES CallsEnd QueuedIsDispatched
CHECK_DEADLOCK FALSE
