\* A mailbox of one place through three lives, with crashes, stops and put timeouts.
SPECIFICATION Spec
CONSTANTS
  Events = {e1, e2, e3}
  MaxSize = 1
  MaxLives = 3
INVARIANTS NoBacklogOffline OneConsumer OnceInOrder
PROPERTIES QueuedIsServed PutsEnd
CHECK_DEADLOCK FALSE
