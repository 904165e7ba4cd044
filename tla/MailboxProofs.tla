------------------------------ MODULE MailboxProofs ------------------------------
(***************************************************************************)
(* A handler that is offline keeps no events and no loop, for any number   *)
(* of events and lives and any size of the queue.                          *)
(***************************************************************************)
EXTENDS Mailbox, SequenceTheorems, TLAPS

USE SizeAssumption DEF Lives, None

LoopsOK ==
  /\ active \in BOOLEAN /\ deactivated \in BOOLEAN
  /\ task \in Lives \cup {None}
  /\ loop \in [Lives -> {"none", "getting", "busy", "sleeping", "stopped", "done"}]
  /\ cancelled \subseteq Lives /\ shielded \subseteq Lives
EventsOK ==
  /\ hands \in [Lives -> Events \cup {Free}]
  /\ putting \subseteq Events
  /\ queue \in Seq(Events) /\ entered \in Seq(Events) /\ taken \in Seq(Events)
  /\ MaxSize # 0 => Len(queue) <= MaxSize

LEMMA TypeParts == LoopsOK /\ EventsOK => TypeOK
BY DEF LoopsOK, EventsOK, TypeOK

(* A handler is never active and deactivated; an offline one has no task.    *)
LifeInv ==
  /\ deactivated => ~active /\ queue = <<>>
  /\ active <=> task # None
  /\ OneConsumer

Inv == LoopsOK /\ EventsOK /\ LifeInv

LEMMA InvInit == Init => Inv
<1> SUFFICES ASSUME Init PROVE LoopsOK /\ EventsOK /\ LifeInv
  BY DEF Inv
<1>1. LoopsOK
  BY DEF Init, LoopsOK
<1>2. EventsOK
  BY DEF Init, EventsOK
<1>3. LifeInv
  BY DEF Init, LifeInv, OneConsumer, Runs, Alive
<1> QED
  BY <1>1, <1>2, <1>3

(* A step of one loop of a life leaves the others where they are.            *)
LEMMA GoesKeeps ==
  ASSUME Inv, NEW t \in Lives,
         NEW state \in {"getting", "busy", "sleeping", "stopped", "done"},
         loop' = [loop EXCEPT ![t] = state],
         Runs(t) \/ state \notin {"getting", "busy", "sleeping"} \/ t \in shielded',
         cancelled \ {t} \subseteq cancelled', cancelled' \subseteq cancelled,
         Runs(t) => cancelled' = cancelled,
         shielded \subseteq shielded', shielded' \subseteq Lives,
         UNCHANGED <<active, deactivated, task>>
  PROVE  LoopsOK' /\ OneConsumer' /\ (active <=> task # None)'
<1>1. LoopsOK'
  BY DEF Inv, LoopsOK
<1>2. ASSUME NEW u \in Lives, Runs(u)' PROVE Runs(u) \/ u \in shielded'
  BY <1>2 DEF Inv, LoopsOK, Runs, Alive
<1>3. OneConsumer'
  BY <1>2 DEF Inv, LifeInv, OneConsumer
<1> QED
  BY <1>1, <1>3 DEF Inv, LifeInv

LEMMA InvStep == Inv /\ [Next]_vars => Inv'
<1> SUFFICES ASSUME Inv, [Next]_vars PROVE LoopsOK' /\ EventsOK' /\ LifeInv'
  BY DEF Inv
<1>1. CASE Activate
  <2>1. EventsOK'
    BY <1>1 DEF Activate, Inv, EventsOK
  <2>2. ~active /\ task = None /\ active' = TRUE /\ deactivated' = FALSE
        /\ UNCHANGED <<cancelled, shielded, queue>>
    BY <1>1 DEF Activate, Inv, LifeInv
  <2>3. PICK t \in Lives : task' = t /\ loop' = [loop EXCEPT ![t] = "getting"]
    BY <1>1, <2>2 DEF Activate
  <2>4. LoopsOK'
    BY <2>2, <2>3 DEF Inv, LoopsOK
  <2>5. \A u \in Lives : u # t /\ Runs(u)' => Runs(u)
    BY <2>2, <2>3 DEF Inv, LoopsOK, Runs, Alive
  <2>6. LifeInv'
    BY <2>2, <2>3, <2>5 DEF Inv, LifeInv, OneConsumer
  <2> QED
    BY <2>1, <2>4, <2>6
<1>2. CASE Deactivate
  <2>1. active /\ active' = FALSE /\ deactivated' = TRUE /\ task' = None /\ queue' = <<>>
        /\ cancelled' = cancelled \cup ToCancel /\ UNCHANGED <<loop, shielded>>
    BY <1>2 DEF Deactivate, Drained
  <2>2. EventsOK'
    BY <1>2, <2>1 DEF Deactivate, Inv, EventsOK
  <2>3. LoopsOK'
    BY <2>1 DEF Inv, LoopsOK, ToCancel
  <2>4. \A t \in Lives : Runs(t)' => Runs(t) /\ t # task
    BY <2>1 DEF Runs, Alive, ToCancel
  <2>5. LifeInv'
    BY <2>1, <2>4 DEF Inv, LifeInv, OneConsumer
  <2> QED
    BY <2>2, <2>3, <2>5
<1>3. ASSUME NEW e \in Events, Dispatch(e) \/ GiveUp(e) PROVE LoopsOK' /\ EventsOK' /\ LifeInv'
  <2>1. UNCHANGED <<active, deactivated, task, loop, hands, cancelled, queue, entered, taken, shielded>>
        /\ putting' \subseteq Events
    BY <1>3 DEF Dispatch, GiveUp, Inv, EventsOK
  <2>2. LoopsOK' /\ OneConsumer'
    BY <2>1 DEF Inv, LoopsOK, LifeInv, OneConsumer, Runs, Alive
  <2> QED
    BY <2>1, <2>2 DEF Inv, EventsOK, LifeInv
<1>4. ASSUME NEW e \in Events, Put(e) PROVE LoopsOK' /\ EventsOK' /\ LifeInv'
  <2>1. LoopsOK' /\ OneConsumer'
    BY <1>4 DEF Put, Inv, LoopsOK, LifeInv, OneConsumer, Runs, Alive
  <2>2. queue \in Seq(Events) /\ queue' = AfterPut(Append(queue, e))
    BY <1>4 DEF Put, Inv, EventsOK
  <2>3. CASE deactivated
    <3>1. queue' = <<>>
      <4>1. Len(Append(<<>>, e)) = 1
        OBVIOUS
      <4>2. Tail(Append(<<>>, e)) = <<>>
        BY <4>1
      <4> QED
        BY <2>2, <2>3, <4>2 DEF AfterPut, Inv, LifeInv
    <3>2. EventsOK'
      BY <1>4, <3>1 DEF Put, Inv, EventsOK
    <3> QED
      BY <1>4, <2>1, <3>1, <3>2 DEF Put, Inv, LifeInv
  <2>4. CASE ~deactivated
    <3>1. queue' = Append(queue, e) /\ Len(queue') = Len(queue) + 1 /\ queue' \in Seq(Events)
      BY <2>2, <2>4 DEF AfterPut
    <3>2. EventsOK'
      BY <1>4, <3>1 DEF Put, HasRoom, Inv, EventsOK
    <3> QED
      BY <1>4, <2>1, <2>4, <3>2 DEF Put, Inv, LifeInv
  <2> QED
    BY <2>3, <2>4
<1>5. ASSUME NEW t \in Lives, Take(t) PROVE LoopsOK' /\ EventsOK' /\ LifeInv'
  <2>6. /\ loop' = [loop EXCEPT ![t] = "busy"] /\ Runs(t)
        /\ UNCHANGED <<active, deactivated, task, cancelled, shielded>> /\ shielded \subseteq Lives
    BY <1>5 DEF Take, Inv, LoopsOK
  <2>1. LoopsOK' /\ OneConsumer' /\ (active <=> task # None)'
    BY <2>6, GoesKeeps
  <2>2. queue \in Seq(Events) /\ queue # <<>> /\ queue' = Tail(queue)
    BY <1>5 DEF Take, Inv, EventsOK
  <2>3. Head(queue) \in Events /\ queue' \in Seq(Events) /\ Len(queue') = Len(queue) - 1
    BY <2>2
  <2>4. EventsOK'
    BY <1>5, <2>2, <2>3 DEF Take, Inv, EventsOK
  <2>5. ~deactivated /\ deactivated' = deactivated
    BY <1>5, <2>2 DEF Take, Inv, LifeInv
  <2> QED
    BY <2>1, <2>4, <2>5 DEF LifeInv
<1>6. ASSUME NEW t \in Lives, Finish(t) \/ Crash(t) \/ Stop(t) \/ Restart(t)
      PROVE  LoopsOK' /\ EventsOK' /\ LifeInv'
  <2>1. LoopsOK' /\ OneConsumer' /\ (active <=> task # None)'
    BY <1>6, GoesKeeps DEF Finish, Crash, Stop, Restart, Goes, AfterException, Inv, LoopsOK
  <2>2. EventsOK'
    BY <1>6 DEF Finish, Crash, Stop, Restart, Goes, Inv, EventsOK
  <2> QED
    BY <1>6, <2>1, <2>2 DEF Finish, Crash, Stop, Restart, Inv, LifeInv
<1>7. ASSUME NEW t \in Lives, Cancelled(t) PROVE LoopsOK' /\ EventsOK' /\ LifeInv'
  <2>1. t \in cancelled /\ cancelled' = cancelled \ {t} /\ UNCHANGED <<active, deactivated, task, queue>>
        /\ ~Runs(t)
    BY <1>7 DEF Cancelled, Runs
  <2>2. EventsOK'
    BY <1>7 DEF Cancelled, Goes, Inv, EventsOK
  <2>3. CASE Goes(t, "done") /\ UNCHANGED shielded
    <3>1. LoopsOK' /\ OneConsumer' /\ (active <=> task # None)'
      BY <2>1, <2>3, GoesKeeps DEF Goes, Inv, LoopsOK
    <3> QED
      BY <2>1, <2>2, <3>1 DEF Inv, LifeInv
  <2>4. CASE Goes(t, AfterException) /\ shielded' = shielded \cup {t}
    <3>1. LoopsOK' /\ OneConsumer' /\ (active <=> task # None)'
      BY <2>1, <2>4, GoesKeeps DEF Goes, AfterException, Inv, LoopsOK
    <3> QED
      BY <2>1, <2>2, <3>1 DEF Inv, LifeInv
  <2> QED
    BY <1>7, <2>3, <2>4 DEF Cancelled
<1>8. CASE UNCHANGED vars
  BY <1>8 DEF vars, Inv, LoopsOK, EventsOK, LifeInv, OneConsumer, Runs, Alive
<1> QED
  BY <1>1, <1>2, <1>3, <1>4, <1>5, <1>6, <1>7, <1>8 DEF Next, Step

(* Every variable has its type, and the queue its limit.                     *)
THEOREM TypeCorrect == Spec => []TypeOK
<1>1. Inv => TypeOK
  BY TypeParts DEF Inv
<1> QED
  BY <1>1, InvInit, InvStep, PTL DEF Spec

(* A deactivated mailbox holds nothing, whatever blocked puts go on later.   *)
THEOREM BacklogCorrect == Spec => []NoBacklogOffline
<1>1. Inv => NoBacklogOffline
  BY DEF Inv, LifeInv, NoBacklogOffline
<1> QED
  BY <1>1, InvInit, InvStep, PTL DEF Spec

(* Of the loops of all lives only the present task's goes on, save those     *)
(* that answered their cancellation with another exception.                  *)
THEOREM ConsumerCorrect == Spec => []OneConsumer
<1>1. Inv => OneConsumer
  BY DEF Inv, LifeInv
<1> QED
  BY <1>1, InvInit, InvStep, PTL DEF Spec

-------------------------------------------------------------------------------
(* Once and in order                                                         *)

(* In the sequence s, a comes before b.                                      *)
Before(s, a, b) == \E k, l \in DOMAIN s : k < l /\ s[k] = a /\ s[l] = b
Has(s, a) == \E k \in DOMAIN s : s[k] = a

(* What was taken and what is still queued came in one after the other, each *)
(* event once, and what a handler task has yet to put did not come in.       *)
OrderInv ==
  /\ \A k, l \in DOMAIN entered : entered[k] = entered[l] => k = l
  /\ \A e \in putting : ~Has(entered, e)
  /\ \A i \in DOMAIN taken : Has(entered, taken[i])
  /\ \A i \in DOMAIN queue : Has(entered, queue[i])
  /\ \A i, j \in DOMAIN taken : i < j => Before(entered, taken[i], taken[j])
  /\ \A i \in DOMAIN taken, j \in DOMAIN queue : Before(entered, taken[i], queue[j])
  /\ \A i, j \in DOMAIN queue : i < j => Before(entered, queue[i], queue[j])

LEMMA OrderInit == Init => OrderInv
BY DEF Init, OrderInv, Before, Has

LEMMA OrderStep == Inv /\ Inv' /\ OrderInv /\ [Next]_vars => OrderInv'
<1> SUFFICES ASSUME Inv, Inv', OrderInv, [Next]_vars PROVE OrderInv'
  OBVIOUS
<1>a. queue \in Seq(Events) /\ entered \in Seq(Events) /\ taken \in Seq(Events)
  BY DEF Inv, EventsOK
<1>1. ASSUME UNCHANGED <<queue, entered, taken>>, putting' \subseteq putting PROVE OrderInv'
  BY <1>1 DEF OrderInv, Before, Has
<1>2. CASE Deactivate
  BY <1>2 DEF Deactivate, Drained, OrderInv, Before, Has
<1>3. ASSUME NEW e \in Events, Dispatch(e) PROVE OrderInv'
  <2>1. ~Has(entered, e)
    BY <1>3, <1>a DEF Dispatch, Contains, Has
  <2> QED
    BY <1>3, <2>1 DEF Dispatch, OrderInv, Before, Has
<1>4. ASSUME NEW e \in Events, Put(e) PROVE OrderInv'
  <2>1. /\ entered' = Append(entered, e) /\ UNCHANGED taken
        /\ putting' = putting \ {e} /\ ~Has(entered, e)
    BY <1>4 DEF Put, OrderInv
  <2>2. /\ DOMAIN entered' = 1..(Len(entered) + 1) /\ DOMAIN entered = 1..Len(entered)
        /\ Len(entered) \in Nat
        /\ entered'[Len(entered) + 1] = e
        /\ \A k \in DOMAIN entered : entered'[k] = entered[k]
    BY <1>a, <2>1
  <2>3. \A a, b : Before(entered, a, b) => Before(entered', a, b)
    BY <2>2 DEF Before
  <2>4. \A a : Has(entered, a) => Has(entered', a) /\ Before(entered', a, e)
    BY <2>2 DEF Has, Before
  <2>5. Has(entered', e) /\ \A x \in putting' : ~Has(entered', x)
    BY <2>1, <2>2 DEF Has, OrderInv
  <2>6. \A k, l \in DOMAIN entered' : entered'[k] = entered'[l] => k = l
    BY <2>1, <2>2 DEF Has, OrderInv
  <2>7. CASE deactivated
    <3>1. queue' = <<>>
      BY <1>4, <2>7 DEF Put, Inv, LifeInv
    <3> QED
      BY <2>1, <2>3, <2>4, <2>5, <2>6, <3>1 DEF OrderInv
  <2>8. CASE ~deactivated
    <3>1. queue' = Append(queue, e)
      BY <1>4, <2>8 DEF Put, AfterPut
    <3>2. /\ DOMAIN queue' = 1..(Len(queue) + 1) /\ DOMAIN queue = 1..Len(queue)
          /\ Len(queue) \in Nat
          /\ queue'[Len(queue) + 1] = e
          /\ \A i \in DOMAIN queue : queue'[i] = queue[i]
      BY <1>a, <3>1
    <3>3. \A i \in DOMAIN queue' : Has(entered', queue'[i])
      BY <2>4, <2>5, <3>2 DEF OrderInv
    <3>4. \A i, j \in DOMAIN queue' : i < j => Before(entered', queue'[i], queue'[j])
      BY <2>3, <2>4, <3>2 DEF OrderInv
    <3>5. \A i \in DOMAIN taken, j \in DOMAIN queue' : Before(entered', taken[i], queue'[j])
      BY <2>3, <2>4, <3>2 DEF OrderInv
    <3> QED
      BY <2>1, <2>3, <2>4, <2>5, <2>6, <3>3, <3>4, <3>5 DEF OrderInv
  <2> QED
    BY <2>7, <2>8
<1>5. ASSUME NEW t \in Lives, Take(t) PROVE OrderInv'
  <2>1. /\ taken' = Append(taken, Head(queue)) /\ queue' = Tail(queue) /\ queue # <<>>
        /\ UNCHANGED <<entered, putting>>
    BY <1>5 DEF Take
  <2>2. /\ DOMAIN taken' = 1..(Len(taken) + 1) /\ DOMAIN taken = 1..Len(taken)
        /\ Len(taken) \in Nat
        /\ taken'[Len(taken) + 1] = queue[1]
        /\ \A i \in DOMAIN taken : taken'[i] = taken[i]
    BY <1>a, <2>1
  <2>3. /\ 1 \in DOMAIN queue
        /\ \A i \in DOMAIN queue' : i + 1 \in DOMAIN queue /\ queue'[i] = queue[i + 1] /\ 1 < i + 1
    BY <1>a, <2>1
  <2>4. \A i, j \in DOMAIN taken' : i < j => Before(entered, taken'[i], taken'[j])
    BY <2>2, <2>3 DEF OrderInv
  <2>5. \A i \in DOMAIN taken', j \in DOMAIN queue' : Before(entered, taken'[i], queue'[j])
    BY <2>2, <2>3 DEF OrderInv
  <2>6. \A i, j \in DOMAIN queue' : i < j => Before(entered, queue'[i], queue'[j])
    BY <1>a, <2>1, <2>3 DEF OrderInv
  <2>7. (\A i \in DOMAIN taken' : Has(entered, taken'[i])) /\ (\A i \in DOMAIN queue' : Has(entered, queue'[i]))
    BY <2>2, <2>3 DEF OrderInv
  <2>8. (\A a, b : Before(entered, a, b) => Before(entered', a, b)) /\ (\A a : Has(entered, a) <=> Has(entered', a))
    BY <2>1 DEF Before, Has
  <2> QED
    BY <2>1, <2>4, <2>5, <2>6, <2>7, <2>8 DEF OrderInv
<1> QED
  BY <1>1, <1>2, <1>3, <1>4, <1>5
     DEF Next, Step, vars, Activate, GiveUp, Finish, Crash, Stop, Restart, Cancelled

(* Each event is worked on at most once and in the order of the queue,       *)
(* whatever crashes, cancellations, restarts and lives come between          *)
(* (mailbox.py 159-178).                                                     *)
THEOREM OrderCorrect == Spec => []OnceInOrder
<1>1. Inv /\ OrderInv => OnceInOrder
  <2> SUFFICES ASSUME Inv, OrderInv PROVE OnceInOrder
    OBVIOUS
  <2>1. DOMAIN taken = 1..Len(taken) /\ DOMAIN entered = 1..Len(entered) /\ Len(taken) \in Nat
    BY DEF Inv, EventsOK
  <2>2. \A i, j \in DOMAIN taken : taken[i] = taken[j] => i = j
    <3>1. \A i, j \in DOMAIN taken : i < j => taken[i] # taken[j]
      BY <2>1 DEF OrderInv, Before
    <3> QED
      BY <2>1, <3>1
  <2> QED
    BY <2>1, <2>2 DEF OrderInv, Before, OnceInOrder, IsInjective
<1> QED
  BY <1>1, InvInit, InvStep, OrderInit, OrderStep, PTL DEF Spec
===============================================================================
