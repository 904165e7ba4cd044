\* Two publishers over a queue of one place and a single handler permit: a first
\* and a second life of the bus, with failed starts and failed stops.
SPECIFICATION Spec
CONSTANTS
  p1 = p1  p2 = p2  h1 = h1  h2 = h2
  u = u  shutdown = shutdown  task_error = task_error  bus = bus
  Publishers = {p1, p2}
  Handlers = {h1, h2}
  UserNames = {u}
  Shutdown = shutdown
  TaskError = task_error
  Route <- RouteSplit
  MaxQueue = 1
  MaxSem = 1
  MaxEvents = 2
  MaxCalls = 3
  RaisesOnCancel = {}
  Hanging = {}
  CallerMayCancel = FALSE
  Bus = bus
SYMMETRY Symmetry
INVARIANTS
  QueueAccounted TasksOnlyWhileBound
  StoppedIsClean RunningDispatches DrainKept
PROPERTIES
  Delivers
CHECK_DEADLOCK FALSE
