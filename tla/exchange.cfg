\* A caller that times out and retries, one that waits for ever and a watcher, the last two
\* inside handlers that can hold both permits; one place in the queue, and a stop.
SPECIFICATION Spec
CONSTANTS
  Callers = {c1, c2}
  Watchers = {w}
  Patient = {c2, w}
  Inside = {c2, w}
  Services = {s1}
  Capacity = 1
  Permits = 2
  MayStop = TRUE
  MaxCalls = 3
INVARIANTS AnswerIsOwn MatchedOnce AnswerKept
PROPERTIES CallsEnd
CHECK_DEADLOCK FALSE
