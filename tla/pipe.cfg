\* Two servers wait for one client, one of them with another allocator, and the
\* sides send and receive over a queue of one place.
SPECIFICATION Spec
CONSTANTS
  Client = c
  Servers = {s, t}
  Sharing = {s}
  MaxSize = 1
  MaxSends = 3
  MaxCancels = 1
INVARIANTS OpenIsAccepted InOrder NothingLost
PROPERTIES ReceivesEnd
CHECK_DEADLOCK FALSE
