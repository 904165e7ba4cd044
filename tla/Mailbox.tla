-------------------------------- MODULE Mailbox --------------------------------
(***************************************************************************)
(* MailboxHandler (templates/handlers/mailbox.py): the handler tasks of    *)
(* the bus put events into a queue, and a background task, one for each    *)
(* life of the handler on a bus, takes them out in its process() loop.     *)
(*                                                                         *)
(* The registry activates and deactivates the handler between any two      *)
(* steps of these tasks.  A cancellation is a flag until the task it hits  *)
(* runs again, so the loop of an earlier life may still be ending when the *)
(* next one starts.                                                        *)
(***************************************************************************)
EXTENDS Naturals, SequencesExt, FiniteSets

CONSTANTS
  Events,
  MaxSize,        \* max_queue_size, 0 for no limit
  MaxLives        \* bound: activations

ASSUME SizeAssumption == MaxSize \in Nat /\ MaxLives \in Nat \ {0}

Lives == 1..MaxLives
None == 0
Free == "free"
ASSUME FreeAssumption == Free \notin Events

VARIABLES
  active,       \* is the handler registered at a running bus?
  deactivated,  \* _deactivated
  task,         \* the life whose loop is _task, or None
  loop,         \* where the loop of each life is
  hands,        \* the event each loop got and works on, or Free
  cancelled,    \* lives whose loop is to be thrown a CancelledError
  putting,      \* events whose handler task has not put them yet
  queue,        \* _queue
  entered,      \* history: events put into the queue, in order
  taken,        \* history: events a loop got, in order
  shielded      \* history: lives whose process() turned a cancellation into another exception

vars == <<active, deactivated, task, loop, hands, cancelled, putting, queue, entered, taken, shielded>>

Init ==
  /\ active = FALSE /\ deactivated = FALSE
  /\ task = None
  /\ loop = [t \in Lives |-> "none"]
  /\ hands = [t \in Lives |-> Free]
  /\ cancelled = {} /\ putting = {} /\ queue = <<>>
  /\ entered = <<>> /\ taken = <<>> /\ shielded = {}

Alive(t) == loop[t] \in {"getting", "busy", "sleeping"}
Runs(t) == Alive(t) /\ t \notin cancelled

-------------------------------------------------------------------------------
(* The registry's side: hooks without an await.                              *)

Activate ==
  /\ ~active
  /\ active' = TRUE /\ deactivated' = FALSE
  /\ IF task = None \/ ~Alive(task)
       THEN \E t \in Lives : /\ loop[t] = "none" /\ \A u \in 1..(t - 1) : loop[u] # "none"
                             /\ task' = t
                             /\ loop' = [loop EXCEPT ![t] = "getting"]
       ELSE UNCHANGED <<task, loop>>
  /\ UNCHANGED <<hands, cancelled, putting, queue, entered, taken, shielded>>

(* Mutant for OneConsumer: the task is forgotten and goes on.                *)
NotCancelled == {}
ToCancel == {t \in Lives : t = task /\ Alive(t)}

(* Mutant for PutsEnd: the backlog is left for the next life.                *)
Undrained == queue
Drained == <<>>

Deactivate ==
  /\ active
  /\ active' = FALSE /\ deactivated' = TRUE
  /\ task' = None
  /\ cancelled' = cancelled \cup ToCancel
  /\ queue' = Drained
  /\ UNCHANGED <<loop, hands, putting, entered, taken, shielded>>

-------------------------------------------------------------------------------
(* The handler tasks of the bus.                                             *)

Dispatch(e) ==
  /\ active
  /\ e \notin putting /\ ~Contains(entered, e)
  /\ putting' = putting \cup {e}
  /\ UNCHANGED <<active, deactivated, task, loop, hands, cancelled, queue, entered, taken, shielded>>

HasRoom == MaxSize = 0 \/ Len(queue) < MaxSize

(* What a put leaves in the queue: a handler that went offline meanwhile     *)
(* takes the first event back out.                                           *)
(* Mutant for NoBacklogOffline: the put stays.                               *)
Kept(q) == q
AfterPut(q) == IF deactivated THEN Tail(q) ELSE q

Put(e) ==
  /\ e \in putting /\ HasRoom
  /\ putting' = putting \ {e}
  /\ queue' = AfterPut(Append(queue, e))
  /\ entered' = Append(entered, e)
  /\ UNCHANGED <<active, deactivated, task, loop, hands, cancelled, taken, shielded>>

(* A put that blocks may end by queue_put_timeout, or because the stopping   *)
(* bus cancels its handler task; the event is not put again.                 *)
GiveUp(e) ==
  /\ e \in putting /\ ~HasRoom
  /\ putting' = putting \ {e}
  /\ UNCHANGED <<active, deactivated, task, loop, hands, cancelled, queue, entered, taken, shielded>>

-------------------------------------------------------------------------------
(* _process_loop around a process() that gets one event after the other.     *)

Take(t) ==
  /\ Runs(t) /\ loop[t] = "getting" /\ queue # <<>>
  /\ hands' = [hands EXCEPT ![t] = Head(queue)]
  /\ queue' = Tail(queue)
  /\ taken' = Append(taken, Head(queue))
  /\ loop' = [loop EXCEPT ![t] = "busy"]
  /\ UNCHANGED <<active, deactivated, task, cancelled, putting, entered, shielded>>

Goes(t, state) ==
  /\ loop' = [loop EXCEPT ![t] = state]
  /\ hands' = [hands EXCEPT ![t] = Free]

Finish(t) ==
  /\ Runs(t) /\ loop[t] = "busy" /\ Goes(t, "getting")
  /\ UNCHANGED <<active, deactivated, task, cancelled, putting, queue, entered, taken, shielded>>

(* Mutant for QueuedIsServed: an exception ends the loop.                    *)
Ends == "done"
AfterException == "sleeping"

(* Mutant for OnceInOrder: the event goes back into the queue.               *)
CrashAndRepeat(t) ==
  /\ Runs(t) /\ loop[t] = "busy" /\ Goes(t, AfterException)
  /\ queue' = <<hands[t]>> \o queue
  /\ UNCHANGED <<active, deactivated, task, cancelled, putting, entered, taken, shielded>>

Crash(t) ==
  /\ Runs(t) /\ loop[t] = "busy" /\ Goes(t, AfterException)
  /\ UNCHANGED <<active, deactivated, task, cancelled, putting, queue, entered, taken, shielded>>

Stop(t) ==
  /\ Runs(t) /\ loop[t] = "busy" /\ Goes(t, "stopped")
  /\ UNCHANGED <<active, deactivated, task, cancelled, putting, queue, entered, taken, shielded>>

Restart(t) ==
  /\ Runs(t) /\ loop[t] = "sleeping" /\ Goes(t, "getting")
  /\ UNCHANGED <<active, deactivated, task, cancelled, putting, queue, entered, taken, shielded>>

(* A CancelledError ends the loop, unless process() raises another exception *)
(* in its place: then the loop restarts process() like after any crash, and  *)
(* nothing will end it.                                                      *)
Cancelled(t) ==
  /\ Alive(t) /\ t \in cancelled
  /\ cancelled' = cancelled \ {t}
  /\ \/ Goes(t, "done") /\ UNCHANGED shielded
     \/ /\ loop[t] # "sleeping" /\ Goes(t, AfterException)
        /\ shielded' = shielded \cup {t}
  /\ UNCHANGED <<active, deactivated, task, putting, queue, entered, taken>>

Step(t) == Take(t) \/ Finish(t) \/ Crash(t) \/ Restart(t) \/ Cancelled(t) \/ Stop(t)

Next ==
  \/ Activate \/ Deactivate
  \/ \E e \in Events : Dispatch(e) \/ Put(e) \/ GiveUp(e)
  \/ \E t \in Lives : Step(t)

(* The event loop runs every task that can go on.  Nothing makes a bus start *)
(* or stop, an event arrive, or process() fail or stop.                      *)
Fairness ==
  /\ \A e \in Events : WF_vars(Put(e))
  /\ \A t \in Lives : WF_vars(Take(t)) /\ WF_vars(Finish(t) \/ Crash(t) \/ Stop(t))
                      /\ WF_vars(Restart(t)) /\ WF_vars(Cancelled(t))

Spec == Init /\ [][Next]_vars /\ Fairness

-------------------------------------------------------------------------------
(* The state has its type, and the queue its limit.                          *)
TypeOK ==
  /\ active \in BOOLEAN /\ deactivated \in BOOLEAN
  /\ task \in Lives \cup {None}
  /\ loop \in [Lives -> {"none", "getting", "busy", "sleeping", "stopped", "done"}]
  /\ hands \in [Lives -> Events \cup {Free}]
  /\ cancelled \subseteq Lives /\ putting \subseteq Events /\ shielded \subseteq Lives
  /\ {queue, entered, taken} \subseteq Seq(Events)
  /\ MaxSize # 0 => Len(queue) <= MaxSize

(* A deactivated mailbox holds nothing: what a put that was blocked adds     *)
(* later is taken out again by itself (mailbox.py 89-103, 138-145).          *)
NoBacklogOffline == deactivated => queue = <<>>

(* Events are handled one at a time: of the loops of all lives, only the     *)
(* present task's goes on, and none does once the handler is deactivated,    *)
(* save those whose process() answered its cancellation with an exception of *)
(* its own (mailbox.py 86, 93-96, 153, 159).                                 *)
OneConsumer == \A t \in Lives : Runs(t) => (active /\ t = task) \/ t \in shielded

(* Each event is handled at most once and in the order of the queue, also    *)
(* across crashes, restarts and lives (mailbox.py 178, 159-164).             *)
OnceInOrder ==
  /\ IsInjective(taken)
  /\ \A i, j \in 1..Len(taken) : i < j =>
       \E k, l \in 1..Len(entered) : k < l /\ entered[k] = taken[i] /\ entered[l] = taken[j]

(* An event that is in the queue is handled, however often process() crashes *)
(* before, unless the handler goes offline or process() asked to stop        *)
(* (mailbox.py 150-167).                                                     *)
Stopped == task # None /\ loop[task] = "stopped"
QueuedIsServed ==
  \A e \in Events : Contains(queue, e) ~> Contains(taken, e) \/ ~active \/ Stopped

(* No handler task stays blocked on a full mailbox while the handler is      *)
(* offline or its loop runs; only a stopped loop leaves it so                *)
(* (mailbox.py 97-102, 135, 156-158).                                        *)
PutsEnd == \A e \in Events : e \in putting ~> e \notin putting \/ (active /\ Stopped)
===============================================================================
