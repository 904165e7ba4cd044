---------------------------- MODULE EventBusProofs ----------------------------
(***************************************************************************)
(* Theorems about EventBus for every value of its constants: any number of *)
(* publishers, handlers, permits and queue places, any route.              *)
(***************************************************************************)
EXTENDS BusDelivers, FiniteSetTheorems, TLAPS

USE DEF Names, Await, Unlock, TasksGone, ProceedWith, TasksPending, JoinPoint,
        PutDone, TaskDone, Woken, HasEvent, PermitBack

LEMMA NewEventTyped ==
  ASSUME TypeOK, NEW x \in Publishers \cup {Bus} \cup Task, NEW n \in Names,
         NEW r \in Nat, NEW others \in SUBSET inflight, Admit(others, x, n, r)
  PROVE  /\ issued' \in Nat
         /\ inflight' \subseteq
              [by : Publishers \cup {Bus} \cup Task, stage : Stages, event : Event]
  BY DEF TypeOK, Admit, Event, Stages

(* The fields of a publish in flight.                                       *)
LEMMA InflightTyped ==
  ASSUME TypeOK, NEW f \in inflight
  PROVE  f \in [by : Publishers \cup {Bus} \cup Task, stage : Stages, event : Event]
  BY DEF TypeOK

LEMMA QueueTyped ==
  ASSUME TypeOK
  PROVE  /\ DOMAIN queue = 1..Len(queue)
         /\ Len(queue) \in Nat
         /\ \A i \in DOMAIN queue : queue[i] \in Event
  BY DEF TypeOK

LEMMA StageTyped ==
  ASSUME TypeOK, NEW f \in inflight, NEW s \in Stages
  PROVE  (inflight \ {f}) \cup {[f EXCEPT !.stage = s]} \subseteq
           [by : Publishers \cup {Bus} \cup Task, stage : Stages, event : Event]
  BY DEF TypeOK

LEMMA TypeInit == Init => TypeOK
<1> SUFFICES ASSUME Init PROVE TypeOK
  OBVIOUS
<1>1. queue \in Seq(Event)
  BY DEF Init
<1>2. sem \in Nat
  BY BoundsAssumption DEF Init
<1> QED
  BY <1>1, <1>2 DEF Init, TypeOK, Awaits

(* The count is what makes the unfinished of a dispatch a natural number.   *)
Counted == unfinished = Len(queue)

LEMMA TypeStep == TypeOK /\ Counted /\ [Next]_vars => TypeOK'
<1> SUFFICES ASSUME TypeOK, Counted, [Next]_vars PROVE TypeOK'
  OBVIOUS
<1> USE DEF vars, flagVars, opVars, queueVars, taskVars, histVars, callVars
<1>1. ASSUME NEW p \in Publishers, NEW n \in UserNames, Publish(p, n) PROVE TypeOK'
  <2>1. issued' \in Nat /\ inflight' \subseteq
          [by : Publishers \cup {Bus} \cup Task, stage : Stages, event : Event]
    BY <1>1, NewEventTyped DEF Publish
  <2> QED BY <1>1, <2>1 DEF Publish, TypeOK
<1>2. ASSUME NEW f \in inflight, MiddlewarePasses(f) PROVE TypeOK'
  BY <1>2, StageTyped DEF MiddlewarePasses, TypeOK, Stages
<1>3. ASSUME NEW f \in inflight, Put(f) PROVE TypeOK'
  <2>1. f.event \in Event /\ f.event.id \in Nat
    BY InflightTyped DEF Event
  <2>2. queue' \in Seq(Event)
    BY <1>3, <2>1 DEF Put, TypeOK
  <2> QED BY <1>3, <2>1, <2>2, StageTyped DEF Put, TypeOK, Stages
<1>4. ASSUME NEW f \in inflight, PublishEnds(f) PROVE TypeOK'
  BY <1>4 DEF PublishEnds, TypeOK
<1>5. CASE Dispatch
  <2>1. Head(queue) \in Event /\ Tail(queue) \in Seq(Event)
    BY <1>5 DEF Dispatch, TypeOK
  <2>2. Route[Head(queue).name] \subseteq Handlers
    BY <2>1, RouteAssumption DEF Event
  <2>3. waiting' \subseteq Task
    BY <1>5, <2>1, <2>2 DEF Dispatch, TypeOK, Task
  <2>4. unfinished' \in Nat
    <3>1. Len(queue) \in Nat \ {0}
      BY <1>5 DEF Dispatch, TypeOK
    <3> QED BY <1>5, <3>1 DEF Dispatch, Counted
  <2> QED BY <1>5, <2>1, <2>3, <2>4 DEF Dispatch, TypeOK, Awaits
<1>6. CASE DispatchDies
  BY <1>6 DEF DispatchDies, TypeOK
<1>7. ASSUME NEW t \in Active, Acquire(t) PROVE TypeOK'
  BY <1>7 DEF Acquire, TypeOK
<1>8. ASSUME NEW t \in Active, NEW n \in UserNames, HandlerPublishes(t, n) PROVE TypeOK'
  <2>1. t \in Task /\ t.event.reports \in Nat
    BY <1>8 DEF HandlerPublishes, TypeOK, Task, Event
  <2>2. issued' \in Nat /\ inflight' \subseteq
          [by : Publishers \cup {Bus} \cup Task, stage : Stages, event : Event]
    BY <1>8, <2>1, NewEventTyped DEF HandlerPublishes
  <2> QED BY <1>8, <2>2 DEF HandlerPublishes, TypeOK
<1>9. ASSUME NEW t \in Active, HandlerReturns(t) PROVE TypeOK'
  BY <1>9 DEF HandlerReturns, Leave, TypeOK
<1>10. ASSUME NEW t \in Active, HandlerRaises(t) PROVE TypeOK'
  <2>1. t \in Task /\ t.event.reports + 1 \in Nat
    BY <1>10 DEF HandlerRaises, Leave, TypeOK, Task, Event
  <2>2. CASE Reportable(t) /\ enable
    <3>1. DropOf(t) \in SUBSET inflight
      BY DEF DropOf
    <3>2. issued' \in Nat /\ inflight' \subseteq
            [by : Publishers \cup {Bus} \cup Task, stage : Stages, event : Event]
      BY <1>10, <2>1, <2>2, <3>1, NewEventTyped DEF HandlerRaises
    <3> QED BY <1>10, <2>1, <2>2, <3>2 DEF HandlerRaises, Leave, TypeOK
  <2>3. CASE ~(Reportable(t) /\ enable)
    BY <1>10, <2>3 DEF HandlerRaises, Leave, TypeOK, DropOf
  <2> QED BY <2>2, <2>3
<1>11. ASSUME NEW f \in inflight, ReportEnds(f) PROVE TypeOK'
  BY <1>11 DEF ReportEnds, TypeOK
<1>12. ASSUME NEW t \in Active, CancelTask(t) PROVE TypeOK'
  BY <1>12 DEF CancelTask, TypeOK, DropOf, Awaits
<1>13. CASE Start
  BY <1>13 DEF Start, TypeOK, Awaits
<1>14. CASE Stop
  <2>1. issued' \in Nat /\ inflight' \subseteq
          [by : Publishers \cup {Bus} \cup Task, stage : Stages, event : Event]
    BY <1>14, NewEventTyped DEF Stop
  <2> QED BY <1>14, <2>1 DEF Stop, TypeOK, Awaits
<1>15. ASSUME NEW f \in inflight, ShutdownPublished(f) PROVE TypeOK'
  <2>1. QueueIds \subseteq Nat
    BY QueueTyped DEF QueueIds, Event
  <2> QED BY <1>15, <2>1 DEF ShutdownPublished, TypeOK, Awaits
<1>16. ASSUME NEW f \in inflight, ShutdownFails(f) PROVE TypeOK'
  BY <1>16 DEF ShutdownFails, TypeOK, Awaits
<1>17. CASE SetupReturns \/ SetupRaises \/ JoinEnds \/ DispatchGone \/ WaitReturns
  BY <1>17 DEF SetupReturns, SetupRaises, JoinEnds, DispatchGone, WaitReturns,
       TypeOK, Awaits
<1>18. CASE WaitTimesOut \/ WaitRaises \/ TeardownReturns \/ CallerCancelled
  BY <1>18 DEF WaitTimesOut, WaitRaises, TeardownReturns, CallerCancelled, TypeOK,
       Awaits, DropOf
<1>19. CASE UNCHANGED vars
  BY <1>19 DEF TypeOK
<1> QED
  BY <1>1, <1>2, <1>3, <1>4, <1>5, <1>6, <1>7, <1>8, <1>9, <1>10, <1>11, <1>12,
     <1>13, <1>14, <1>15, <1>16, <1>17, <1>18, <1>19
     DEF Next, PublishStep, HandlerStep, ControlStep

LEMMA CountedStep == TypeOK /\ Counted /\ [Next]_vars => Counted'
<1> SUFFICES ASSUME TypeOK, Counted, [Next]_vars PROVE Counted'
  OBVIOUS
<1>1. CASE Dispatch
  BY <1>1 DEF Dispatch, TypeOK, Counted
<1>2. ASSUME NEW f \in inflight, Put(f) PROVE Counted'
  <2>1. f.event \in Event
    BY InflightTyped
  <2> QED BY <1>2, <2>1 DEF Put, TypeOK, Counted
<1>3. CASE UNCHANGED queueVars
  BY <1>3 DEF queueVars, Counted
<1> QED
  BY <1>1, <1>2, <1>3
     DEF Next, PublishStep, HandlerStep, ControlStep, vars, Publish, MiddlewarePasses,
         PublishEnds, ReportEnds, ShutdownPublished, ShutdownFails, Acquire,
         HandlerPublishes, HandlerReturns, HandlerRaises, CancelTask, DispatchDies,
         Start, SetupReturns, SetupRaises, Stop, JoinEnds, DispatchGone, WaitReturns,
         WaitTimesOut, WaitRaises, TeardownReturns, CallerCancelled

LEMMA Typed == Spec => [](TypeOK /\ Counted)
<1>1. Init => TypeOK /\ Counted
  BY TypeInit DEF Init, Counted
<1>2. TypeOK /\ Counted /\ [Next]_vars => (TypeOK /\ Counted)'
  BY TypeStep, CountedStep
<1> QED
  BY <1>1, <1>2, PTL DEF Spec

(* Every reachable state is well typed (the state of event_bus/bus.py and   *)
(* the queue it owns).                                                      *)
THEOREM TypeCorrect == Spec => []TypeOK
  BY Typed, PTL

(* join() waits for exactly the queued events, and the bound of the queue   *)
(* holds (queue.py, asyncio.Queue).                                         *)
Bounded == MaxQueue # 0 => Len(queue) <= MaxQueue

THEOREM QueueCorrect == Spec => []QueueAccounted
<1>1. Init => Bounded
  BY BoundsAssumption DEF Init, Bounded
<1>2. TypeOK /\ Counted /\ Bounded /\ [Next]_vars => Bounded'
  <2> SUFFICES ASSUME TypeOK, Bounded, [Next]_vars PROVE Bounded'
    OBVIOUS
  <2>1. CASE Dispatch
    BY <2>1, BoundsAssumption DEF Dispatch, TypeOK, Bounded
  <2>2. ASSUME NEW f \in inflight, Put(f) PROVE Bounded'
    <3>1. f.event \in Event
      BY InflightTyped
    <3> QED BY <2>2, <3>1, BoundsAssumption DEF Put, HasRoom, TypeOK, Bounded
  <2>3. CASE UNCHANGED queueVars
    BY <2>3 DEF queueVars, Bounded
  <2> QED
    BY <2>1, <2>2, <2>3
       DEF Next, PublishStep, HandlerStep, ControlStep, vars, Publish, MiddlewarePasses,
           PublishEnds, ReportEnds, ShutdownPublished, ShutdownFails, Acquire,
           HandlerPublishes, HandlerReturns, HandlerRaises, CancelTask, DispatchDies,
           Start, SetupReturns, SetupRaises, Stop, JoinEnds, DispatchGone, WaitReturns,
           WaitTimesOut, WaitRaises, TeardownReturns, CallerCancelled
<1>3. Counted /\ Bounded => QueueAccounted
  BY DEF Counted, Bounded, QueueAccounted
<1> QED
  BY <1>1, <1>2, <1>3, Typed, PTL DEF Spec

-------------------------------------------------------------------------------
(* Identity of events                                                       *)

(* What one step does to the events: it admits a publish, moves one to put, *)
(* puts it, dispatches one, or only abandons publishes and ends tasks.      *)
AdmitShape ==
  \E others \in SUBSET inflight, x \in Publishers \cup {Bus} \cup Task, n \in Names, r \in Nat :
    /\ Admit(others, x, n, r)
    /\ UNCHANGED <<queue, accepted>>
    /\ Active' \subseteq Active
    /\ r \in {0, 1} \/ \E t \in Active : r = t.event.reports
DropShape ==
  /\ inflight' \subseteq inflight
  /\ Active' \subseteq Active
  /\ UNCHANGED <<queue, accepted, issued>>
PassShape == \E f \in inflight : MiddlewarePasses(f)
PutShape == \E f \in inflight : Put(f)

LEMMA StepShapes ==
  ASSUME TypeOK, [Next]_vars
  PROVE  AdmitShape \/ PassShape \/ PutShape \/ Dispatch \/ DropShape
<1> USE DEF vars, flagVars, opVars, queueVars, taskVars, histVars, callVars, Active
<1>1. ASSUME NEW p \in Publishers, NEW n \in UserNames, Publish(p, n) PROVE AdmitShape
  BY <1>1 DEF Publish, AdmitShape
<1>2. ASSUME NEW t \in Active, NEW n \in UserNames, HandlerPublishes(t, n) PROVE AdmitShape
  <2>1. t \in Task /\ t.event.reports \in Nat
    BY <1>2 DEF HandlerPublishes, TypeOK, Task, Event
  <2> QED BY <1>2, <2>1 DEF HandlerPublishes, AdmitShape
<1>3. ASSUME NEW t \in Active, HandlerRaises(t) PROVE AdmitShape \/ DropShape
  <2>1. t \in Task /\ t.event.reports + 1 \in Nat
    BY <1>3 DEF HandlerRaises, Leave, TypeOK, Task, Event
  <2>2. DropOf(t) \in SUBSET inflight
    BY DEF DropOf
  <2>3. CASE Reportable(t) /\ enable
    BY <1>3, <2>1, <2>2, <2>3 DEF HandlerRaises, Leave, Reportable, AdmitShape
  <2>4. CASE ~(Reportable(t) /\ enable)
    BY <1>3, <2>2, <2>4 DEF HandlerRaises, Leave, DropShape
  <2> QED BY <2>3, <2>4
<1>4. CASE Stop
  BY <1>4 DEF Stop, AdmitShape
<1>5. ASSUME NEW f \in inflight,
             PublishEnds(f) \/ ReportEnds(f) \/ ShutdownPublished(f) \/ ShutdownFails(f)
      PROVE  DropShape
  BY <1>5 DEF PublishEnds, ReportEnds, ShutdownPublished, ShutdownFails, DropShape
<1>6. ASSUME NEW t \in Active, Acquire(t) \/ HandlerReturns(t) \/ CancelTask(t)
      PROVE  DropShape
  BY <1>6 DEF Acquire, HandlerReturns, Leave, CancelTask, DropOf, DropShape
<1>7. CASE DispatchDies \/ Start \/ SetupReturns \/ SetupRaises \/ JoinEnds \/ DispatchGone
  BY <1>7 DEF DispatchDies, Start, SetupReturns, SetupRaises, JoinEnds, DispatchGone, DropShape
<1>8. CASE WaitReturns \/ WaitTimesOut \/ WaitRaises \/ TeardownReturns
             \/ CallerCancelled \/ UNCHANGED vars
  BY <1>8 DEF WaitReturns, WaitTimesOut, WaitRaises, TeardownReturns, CallerCancelled,
              DropOf, DropShape
<1> QED
  BY <1>1, <1>2, <1>3, <1>4, <1>5, <1>6, <1>7, <1>8
     DEF Next, PublishStep, HandlerStep, ControlStep, PassShape, PutShape

(* An id is given once: what was accepted was issued, what waits to be put  *)
(* is new, the queue holds an id once and none that a task already handles. *)
InflightFresh ==
  \A f \in inflight :
    /\ f.event.id <= issued
    /\ f.stage # "after" =>
         /\ f.event.id \notin accepted
         /\ \A g \in inflight : g.stage # "after" /\ g.event.id = f.event.id => g = f
AcceptedIssued == \A i \in accepted : i <= issued
QueueOnce ==
  \A i \in DOMAIN queue :
    /\ queue[i].id \in accepted
    /\ \A j \in DOMAIN queue : queue[i].id = queue[j].id => i = j
TasksOnce ==
  \A t \in Active :
    /\ t.event.id \in accepted
    /\ \A i \in DOMAIN queue : queue[i].id # t.event.id
IdsUnique == InflightFresh /\ AcceptedIssued /\ QueueOnce /\ TasksOnce

LEMMA IdsInit == Init => IdsUnique
  BY DEF Init, IdsUnique, InflightFresh, AcceptedIssued, QueueOnce, TasksOnce, Active

LEMMA IdsStep == TypeOK /\ IdsUnique /\ [Next]_vars => IdsUnique'
<1> SUFFICES ASSUME TypeOK, IdsUnique, [Next]_vars PROVE IdsUnique'
  OBVIOUS
<1> USE DEF IdsUnique
<1>a. issued \in Nat /\ accepted \subseteq Nat
  BY DEF TypeOK
<1>b. \A f \in inflight : f.event.id \in Nat
  BY InflightTyped DEF Event
<1>1. CASE AdmitShape
  <2>1. PICK others \in SUBSET inflight, x \in Publishers \cup {Bus} \cup Task,
             n \in Names, r \in Nat :
          Admit(others, x, n, r) /\ UNCHANGED <<queue, accepted>> /\ Active' \subseteq Active
    BY <1>1 DEF AdmitShape
  <2>2. InflightFresh'
    BY <1>a, <1>b, <2>1 DEF InflightFresh, AcceptedIssued, Admit
  <2>3. AcceptedIssued'
    BY <1>a, <2>1 DEF AcceptedIssued, Admit
  <2>4. QueueOnce' /\ TasksOnce'
    BY <2>1 DEF QueueOnce, TasksOnce
  <2> QED BY <2>2, <2>3, <2>4
<1>2. CASE PassShape
  <2>1. PICK f \in inflight : MiddlewarePasses(f)
    BY <1>2 DEF PassShape
  <2>2. f \in [by : Publishers \cup {Bus} \cup Task, stage : Stages, event : Event]
    BY InflightTyped
  <2>3. InflightFresh'
    BY <2>1, <2>2 DEF InflightFresh, MiddlewarePasses, histVars
  <2>4. AcceptedIssued' /\ QueueOnce' /\ TasksOnce'
    BY <2>1 DEF AcceptedIssued, QueueOnce, TasksOnce, MiddlewarePasses, histVars,
                queueVars, taskVars, Active
  <2> QED BY <2>3, <2>4
<1>3. CASE PutShape
  <2>1. PICK f \in inflight : Put(f)
    BY <1>3 DEF PutShape
  <2>2. f \in [by : Publishers \cup {Bus} \cup Task, stage : Stages, event : Event]
    BY InflightTyped
  <2>3. f.event.id \notin accepted /\ f.event.id <= issued
    BY <2>1 DEF InflightFresh, Put
  <2>4. InflightFresh'
    BY <2>1, <2>2, <2>3 DEF InflightFresh, Put
  <2>5. AcceptedIssued'
    BY <2>1, <2>3 DEF AcceptedIssued, Put
  <2>6. /\ DOMAIN queue' = 1..(Len(queue) + 1)
        /\ \A i \in DOMAIN queue : queue'[i] = queue[i]
        /\ queue'[Len(queue) + 1] = f.event
        /\ DOMAIN queue = 1..Len(queue) /\ Len(queue) \in Nat
    BY <2>1, <2>2, QueueTyped DEF Put, TypeOK
  <2>7. QueueOnce'
    BY <2>1, <2>3, <2>6 DEF QueueOnce, Put
  <2>8. TasksOnce'
    BY <2>1, <2>3, <2>6 DEF TasksOnce, Put, taskVars, Active
  <2> QED BY <2>4, <2>5, <2>7, <2>8
<1>4. CASE Dispatch
  <2>1. InflightFresh' /\ AcceptedIssued'
    BY <1>4 DEF InflightFresh, AcceptedIssued, Dispatch, histVars
  <2>2. /\ Len(queue) \in Nat \ {0}
        /\ Head(queue) = queue[1]
        /\ DOMAIN queue = 1..Len(queue)
        /\ DOMAIN queue' = 1..(Len(queue) - 1)
        /\ \A i \in DOMAIN queue' : queue'[i] = queue[i + 1]
    BY <1>4, QueueTyped DEF Dispatch, TypeOK
  <2>3. QueueOnce'
    BY <1>4, <2>2 DEF QueueOnce, Dispatch, histVars
  <2>4. \A t \in Active' : t \in Active \/ t.event = queue[1]
    BY <1>4, <2>2 DEF Dispatch, Active
  <2>5. TasksOnce'
    BY <1>4, <2>2, <2>4 DEF QueueOnce, TasksOnce, Dispatch, histVars
  <2> QED BY <2>1, <2>3, <2>5
<1>5. CASE DropShape
  BY <1>5 DEF DropShape, InflightFresh, AcceptedIssued, QueueOnce, TasksOnce
<1> QED
  BY <1>1, <1>2, <1>3, <1>4, <1>5, StepShapes

LEMMA Identified == Spec => [](TypeOK /\ Counted /\ IdsUnique)
<1>1. Init => IdsUnique
  BY IdsInit
<1>2. TypeOK /\ IdsUnique /\ [Next]_vars => IdsUnique'
  BY IdsStep
<1> QED
  BY <1>1, <1>2, Typed, PTL DEF Spec

-------------------------------------------------------------------------------
(* The semaphore                                                            *)

Permits ==
  /\ IsFiniteSet(handling)
  /\ sem + Cardinality(handling) = MaxSem
  /\ waiting \cap handling = {}

LEMMA ReleaseKeeps ==
  ASSUME TypeOK, Permits, NEW t \in handling,
         sem' = sem + 1, handling' = handling \ {t}, waiting' \subseteq waiting
  PROVE  Permits'
<1>1. IsFiniteSet(handling') /\ Cardinality(handling') = Cardinality(handling) - 1
  BY FS_RemoveElement DEF Permits
<1>2. Cardinality(handling) \in Nat
  BY FS_CardinalityType DEF Permits
<1> QED
  BY <1>1, <1>2, BoundsAssumption DEF Permits, TypeOK

LEMMA PermitsStep ==
  TypeOK /\ IdsUnique /\ Permits /\ [Next]_vars => Permits'
<1> SUFFICES ASSUME TypeOK, IdsUnique, Permits, [Next]_vars PROVE Permits'
  OBVIOUS
<1> USE DEF vars, taskVars
<1>1. ASSUME NEW t \in Active, Acquire(t) PROVE Permits'
  <2>1. t \notin handling
    BY <1>1 DEF Acquire, Permits
  <2>2. IsFiniteSet(handling') /\ Cardinality(handling') = Cardinality(handling) + 1
    BY <1>1, <2>1, FS_AddElement DEF Acquire, Permits
  <2>3. Cardinality(handling) \in Nat
    BY FS_CardinalityType DEF Permits
  <2> QED
    BY <1>1, <2>2, <2>3, BoundsAssumption DEF Acquire, Permits, TypeOK
<1>2. ASSUME NEW t \in Active, HandlerReturns(t) \/ HandlerRaises(t) PROVE Permits'
  BY <1>2, ReleaseKeeps DEF HandlerReturns, HandlerRaises, Leave
<1>3. ASSUME NEW t \in Active, CancelTask(t) PROVE Permits'
  <2>1. CASE t \in handling
    <3>1. waiting' \subseteq waiting /\ sem' = sem + 1 /\ handling' = handling \ {t}
      BY <1>3, <2>1 DEF CancelTask
    <3> QED BY <2>1, <3>1, ReleaseKeeps
  <2>2. CASE t \notin handling
    <3>1. handling' = handling /\ sem' = sem /\ waiting' \subseteq waiting
      BY <1>3, <2>2 DEF CancelTask
    <3> QED BY <3>1 DEF Permits
  <2> QED BY <2>1, <2>2
<1>4. CASE Dispatch
  <2>1. 1 \in DOMAIN queue /\ Head(queue) = queue[1]
    BY <1>4 DEF Dispatch, TypeOK
  <2>2. \A t \in handling : t.event.id # queue[1].id
    BY <2>1 DEF IdsUnique, TasksOnce, Active
  <2>3. \A t \in waiting' : t \in waiting \/ t.event = queue[1]
    BY <1>4, <2>1 DEF Dispatch
  <2>4. waiting' \cap handling = {}
    BY <2>2, <2>3 DEF Permits
  <2> QED BY <1>4, <2>4 DEF Dispatch, Permits
<1>5. ASSUME NEW f \in inflight, ReportEnds(f) PROVE Permits'
  BY <1>5 DEF ReportEnds, Permits
<1>6. CASE UNCHANGED taskVars
  BY <1>6 DEF Permits
<1> QED
  BY <1>1, <1>2, <1>3, <1>4, <1>5, <1>6
     DEF Next, PublishStep, HandlerStep, ControlStep, Publish, MiddlewarePasses, Put,
         PublishEnds, ShutdownPublished, ShutdownFails, HandlerPublishes, DispatchDies,
         Start, SetupReturns, SetupRaises, Stop, JoinEnds, DispatchGone, WaitReturns,
         WaitTimesOut, WaitRaises, TeardownReturns, CallerCancelled

(* No path out of a handler task loses or duplicates a permit of the        *)
(* semaphore (bus.py, _handler_wrapper).                                    *)
THEOREM PermitsCorrect == Spec => []PermitsConserved
<1>1. Init => Permits
  BY FS_EmptySet, BoundsAssumption DEF Init, Permits
<1>2. TypeOK /\ IdsUnique /\ Permits /\ [Next]_vars => Permits'
  BY PermitsStep
<1>3. Permits => PermitsConserved
  BY DEF Permits, PermitsConserved
<1> QED
  BY <1>1, <1>2, <1>3, Identified, PTL DEF Spec

-------------------------------------------------------------------------------
(* join()                                                                   *)

PastJoin == at \in {"joined", "dispatch", "wait", "cancel", "teardown"}
Drained == call = "stop" /\ PastJoin /\ ~timedOut => promised \cap QueueIds = {}
DrainInv ==
  /\ promised \subseteq accepted
  /\ at = "setup" => call = "start"
  /\ at \in {"join", "joined"} => ~timedOut
  /\ Drained

LEMMA DrainStep ==
  TypeOK /\ Counted /\ IdsUnique /\ DrainInv /\ [Next]_vars => DrainInv'
<1> SUFFICES ASSUME TypeOK, Counted, IdsUnique, DrainInv, [Next]_vars PROVE DrainInv'
  OBVIOUS
<1> USE DEF vars, queueVars, opVars, histVars, callVars, DrainInv, Drained, PastJoin
<1>1. ASSUME NEW f \in inflight, Put(f) PROVE DrainInv'
  <2>1. f.event \in Event /\ f.event.id \notin accepted
    BY <1>1, InflightTyped DEF Put, IdsUnique, InflightFresh
  <2>2. QueueIds' \subseteq QueueIds \cup {f.event.id}
    BY <1>1, <2>1 DEF Put, QueueIds, TypeOK
  <2>3. UNCHANGED <<call, at, timedOut, promised>> /\ promised' \subseteq accepted'
    BY <1>1 DEF Put
  <2> QED BY <2>1, <2>2, <2>3
<1>2. CASE Dispatch
  <2>1. QueueIds' \subseteq QueueIds
    BY <1>2 DEF Dispatch, QueueIds, TypeOK
  <2>2. ASSUME at = "join", at' = "joined" PROVE QueueIds' = {}
    <3>1. Len(queue) = 1
      BY <1>2, <2>2 DEF Dispatch, Counted, TypeOK
    <3>2. DOMAIN queue' = {}
      BY <1>2, <3>1, QueueTyped DEF Dispatch, TypeOK
    <3> QED BY <3>2 DEF QueueIds
  <2>3. UNCHANGED <<call, timedOut, promised, accepted>> /\ (at' = at \/ (at = "join" /\ at' = "joined"))
    BY <1>2 DEF Dispatch
  <2> QED BY <2>1, <2>2, <2>3
<1>3. ASSUME NEW f \in inflight, ShutdownPublished(f) PROVE DrainInv'
  <2>1. QueueIds \subseteq accepted /\ QueueIds' = QueueIds
    BY <1>3 DEF ShutdownPublished, QueueIds, IdsUnique, QueueOnce
  <2>2. ASSUME unfinished = 0 PROVE QueueIds = {}
    BY <2>2, QueueTyped DEF Counted, QueueIds
  <2> QED BY <1>3, <2>1, <2>2 DEF ShutdownPublished
<1>4. CASE JoinEnds
  BY <1>4 DEF JoinEnds, QueueIds
<1>5. CASE DispatchGone \/ WaitReturns \/ WaitTimesOut \/ TeardownReturns \/ WaitRaises
  BY <1>5 DEF DispatchGone, WaitReturns, WaitTimesOut, TeardownReturns, WaitRaises, QueueIds
<1>6. ASSUME NEW t \in Active, CancelTask(t) PROVE DrainInv'
  BY <1>6 DEF CancelTask, QueueIds
<1>7. CASE Start \/ SetupReturns \/ SetupRaises \/ Stop \/ CallerCancelled
  BY <1>7 DEF Start, SetupReturns, SetupRaises, Stop, CallerCancelled, QueueIds
<1>8. ASSUME NEW f \in inflight, ShutdownFails(f) PROVE DrainInv'
  BY <1>8 DEF ShutdownFails, QueueIds
<1>9. CASE UNCHANGED <<opVars, queueVars, histVars>>
  BY <1>9 DEF QueueIds
<1> QED
  BY <1>1, <1>2, <1>3, <1>4, <1>5, <1>6, <1>7, <1>8, <1>9
     DEF Next, PublishStep, HandlerStep, ControlStep, Publish, MiddlewarePasses,
         PublishEnds, ReportEnds, Acquire, HandlerPublishes, HandlerReturns,
         HandlerRaises, DispatchDies

(* Unless stop() gives up waiting, what was queued when it closed the gate  *)
(* has been dispatched when it cancels the loop (bus.py, stop).             *)
THEOREM DrainCorrect == Spec => []DrainKept
<1>1. Init => DrainInv
  BY DEF Init, DrainInv, Drained, PastJoin
<1>2. TypeOK /\ Counted /\ IdsUnique /\ DrainInv /\ [Next]_vars => DrainInv'
  BY DrainStep
<1>3. DrainInv => DrainKept
  BY DEF DrainInv, Drained, PastJoin, DrainKept
<1> QED
  BY <1>1, <1>2, <1>3, Identified, PTL DEF Spec

-------------------------------------------------------------------------------
(* Error reports                                                            *)

OneReport ==
  /\ \A f \in inflight : f.event.reports <= 1
  /\ \A i \in DOMAIN queue : queue[i].reports <= 1
  /\ \A t \in Active : t.event.reports <= 1

LEMMA OneReportStep == TypeOK /\ OneReport /\ [Next]_vars => OneReport'
<1> SUFFICES ASSUME TypeOK, OneReport, [Next]_vars PROVE OneReport'
  OBVIOUS
<1>1. CASE AdmitShape
  BY <1>1 DEF AdmitShape, Admit, OneReport
<1>2. CASE PassShape
  <2>1. PICK f \in inflight : MiddlewarePasses(f)
    BY <1>2 DEF PassShape
  <2>2. f \in [by : Publishers \cup {Bus} \cup Task, stage : Stages, event : Event]
    BY InflightTyped
  <2> QED BY <2>1, <2>2 DEF MiddlewarePasses, OneReport, queueVars, taskVars, Active
<1>3. CASE PutShape
  <2>1. PICK f \in inflight : Put(f)
    BY <1>3 DEF PutShape
  <2>2. f \in [by : Publishers \cup {Bus} \cup Task, stage : Stages, event : Event]
    BY InflightTyped
  <2>3. \A i \in DOMAIN queue' : (i \in DOMAIN queue /\ queue'[i] = queue[i]) \/ queue'[i] = f.event
    BY <2>1, <2>2 DEF Put, TypeOK
  <2> QED BY <2>1, <2>2, <2>3 DEF Put, OneReport, taskVars, Active
<1>4. CASE Dispatch
  <2>1. /\ 1 \in DOMAIN queue /\ Head(queue) = queue[1]
        /\ \A i \in DOMAIN queue' : i + 1 \in DOMAIN queue /\ queue'[i] = queue[i + 1]
    BY <1>4 DEF Dispatch, TypeOK
  <2>2. \A t \in Active' : t \in Active \/ t.event = queue[1]
    BY <1>4, <2>1 DEF Dispatch, Active
  <2> QED BY <1>4, <2>1, <2>2 DEF Dispatch, OneReport
<1>5. CASE DropShape
  BY <1>5 DEF DropShape, OneReport
<1> QED
  BY <1>1, <1>2, <1>3, <1>4, <1>5, StepShapes

(* The failure of a handler is never reported for an event that descends    *)
(* from a report (bus.py, the test of event.sources in _handler_wrapper).   *)
THEOREM NoCascade == Spec => []NoErrorCascade
<1>1. Init => OneReport
  BY DEF Init, OneReport, Active
<1>2. TypeOK /\ OneReport /\ [Next]_vars => OneReport'
  BY OneReportStep
<1>3. OneReport => NoErrorCascade
  BY DEF OneReport, NoErrorCascade, EventsAlive
<1> QED
  BY <1>1, <1>2, <1>3, Typed, PTL DEF Spec

-------------------------------------------------------------------------------
(* Life cycle, when a cancelled handler ends and callers wait               *)

WellBehaved == RaisesOnCancel = {} /\ CallerMayCancel = FALSE

(* At most one publish of stop(), and only while stop() awaits it.          *)
ShutdownInflight ==
  \A f \in inflight : f.by = Bus =>
    /\ at = "publish"
    /\ \A g \in inflight : g.by = Bus => g = f

(* What holds of the flags, the loop and the tasks at each await.           *)
Lifecycle ==
  /\ at # "failing"
  /\ at = "idle" <=> call = "none"
  /\ Active # {} => bound
  /\ at = "idle" /\ running => enable /\ bound /\ dispatch = "running"
  /\ at = "idle" /\ ~running =>
       ~enable /\ ~bound /\ dispatch \in {"none", "dead"}
  /\ at = "setup" => call = "start"
  /\ at \in {"publish", "join", "joined", "teardown"} => call = "stop"
  /\ at \in {"setup", "publish"} => running /\ enable /\ bound /\ dispatch = "running"
  /\ at \in {"join", "joined"} => running /\ ~enable /\ bound /\ dispatch = "running"
  /\ at = "dispatch" =>
       running /\ bound /\ dispatch \in {"cancelling", "dead"} /\ enable = (call = "start")
  /\ at \in {"wait", "cancel"} =>
       running = (call = "stop") /\ ~enable /\ bound /\ dispatch = "dead"
  /\ at = "teardown" => ~running /\ ~enable /\ ~bound /\ dispatch = "dead"

LEMMA LifecycleInit == Init => Lifecycle /\ ShutdownInflight
  BY DEF Init, Lifecycle, ShutdownInflight, Active

LEMMA ShutdownInflightStep ==
  ASSUME TypeOK, Lifecycle, ShutdownInflight, [Next]_vars
  PROVE  ShutdownInflight'
<1> USE DEF vars, flagVars, opVars, queueVars, taskVars, histVars, callVars
<1>1. ASSUME NEW p \in Publishers, NEW n \in UserNames, Publish(p, n) PROVE ShutdownInflight'
  BY <1>1, BusAssumption DEF Publish, Admit, ShutdownInflight
<1>2. ASSUME NEW f \in inflight, MiddlewarePasses(f) \/ Put(f) PROVE ShutdownInflight'
  BY <1>2, InflightTyped DEF MiddlewarePasses, Put, ShutdownInflight
<1>3. ASSUME NEW f \in inflight, PublishEnds(f) \/ ReportEnds(f) PROVE ShutdownInflight'
  BY <1>3 DEF PublishEnds, ReportEnds, ShutdownInflight
<1>4. ASSUME NEW f \in inflight, ShutdownPublished(f) \/ ShutdownFails(f)
      PROVE  ShutdownInflight'
  BY <1>4 DEF ShutdownPublished, ShutdownFails, ShutdownInflight
<1>5. ASSUME NEW t \in Active, NEW n \in UserNames, HandlerPublishes(t, n)
      PROVE  ShutdownInflight'
  <2>1. t \in Task
    BY <1>5 DEF HandlerPublishes, TypeOK
  <2> QED BY <1>5, <2>1, BusAssumption DEF HandlerPublishes, Admit, ShutdownInflight
<1>6. ASSUME NEW t \in Active, HandlerRaises(t) PROVE ShutdownInflight'
  <2>1. t \in Task
    BY <1>6 DEF HandlerRaises, Leave, TypeOK
  <2> QED BY <1>6, <2>1, BusAssumption DEF HandlerRaises, DropOf, Admit, ShutdownInflight
<1>7. ASSUME NEW t \in Active, Acquire(t) \/ HandlerReturns(t) \/ CancelTask(t)
      PROVE  ShutdownInflight'
  BY <1>7 DEF Acquire, HandlerReturns, CancelTask, DropOf, ShutdownInflight
<1>8. CASE Stop
  <2>1. \A f \in inflight : f.by # Bus
    BY <1>8 DEF Stop, Lifecycle, ShutdownInflight
  <2> QED BY <1>8, <2>1 DEF Stop, Admit, ShutdownInflight
<1>9. CASE Dispatch \/ DispatchDies \/ Start \/ SetupReturns \/ SetupRaises \/ JoinEnds
  BY <1>9 DEF Dispatch, DispatchDies, Start, SetupReturns, SetupRaises, JoinEnds,
              Lifecycle, ShutdownInflight
<1>10. CASE DispatchGone \/ WaitReturns \/ WaitTimesOut \/ WaitRaises \/ TeardownReturns
              \/ CallerCancelled \/ UNCHANGED vars
  BY <1>10 DEF DispatchGone, WaitReturns, WaitTimesOut, WaitRaises, TeardownReturns,
               CallerCancelled, DropOf, ShutdownInflight
<1> QED
  BY <1>1, <1>2, <1>3, <1>4, <1>5, <1>6, <1>7, <1>8, <1>9, <1>10
     DEF Next, PublishStep, HandlerStep, ControlStep

LEMMA LifecycleStep ==
  ASSUME WellBehaved, TypeOK, Lifecycle, ShutdownInflight, [Next]_vars
  PROVE  Lifecycle'
<1> USE DEF vars, flagVars, opVars, queueVars, taskVars, histVars, callVars, Lifecycle
<1>1. ASSUME UNCHANGED <<flagVars, opVars, dispatch>>, Active' \subseteq Active
      PROVE  Lifecycle'
  BY <1>1
<1>2. ASSUME NEW t \in Active,
             \/ \E n \in UserNames : HandlerPublishes(t, n)
             \/ Acquire(t) \/ HandlerReturns(t) \/ HandlerRaises(t)
      PROVE  Lifecycle'
  <2>1. UNCHANGED <<flagVars, opVars, dispatch>> /\ Active' \subseteq Active
    BY <1>2 DEF HandlerPublishes, Acquire, HandlerReturns, HandlerRaises, Leave, Active
  <2> QED BY <1>1, <2>1
<1>3. ASSUME NEW f \in inflight,
             MiddlewarePasses(f) \/ Put(f) \/ PublishEnds(f) \/ ReportEnds(f)
      PROVE  Lifecycle'
  <2>1. UNCHANGED <<flagVars, opVars, dispatch>> /\ Active' \subseteq Active
    BY <1>3 DEF MiddlewarePasses, Put, PublishEnds, ReportEnds, Active
  <2> QED BY <1>1, <2>1
<1>4. ASSUME NEW f \in inflight, ShutdownPublished(f) \/ ShutdownFails(f) PROVE Lifecycle'
  <2>1. at = "publish"
    BY <1>4 DEF ShutdownPublished, ShutdownFails, ShutdownInflight
  <2> QED BY <1>4, <2>1 DEF ShutdownPublished, ShutdownFails, Active
<1>5. CASE Dispatch
  BY <1>5 DEF Dispatch, TypeOK, Awaits
<1>6. ASSUME NEW t \in Active, CancelTask(t) PROVE Lifecycle'
  BY <1>6 DEF CancelTask, WellBehaved, Active
<1>7. CASE Start \/ SetupReturns \/ SetupRaises \/ Stop \/ JoinEnds \/ DispatchDies
  BY <1>7 DEF Start, SetupReturns, SetupRaises, Stop, JoinEnds, DispatchDies, Active,
              TypeOK, Awaits
<1>8. CASE DispatchGone \/ WaitReturns
  BY <1>8 DEF DispatchGone, WaitReturns, Active, TypeOK
<1>9. CASE WaitTimesOut \/ WaitRaises \/ TeardownReturns \/ CallerCancelled
  BY <1>9 DEF WaitTimesOut, WaitRaises, TeardownReturns, CallerCancelled, WellBehaved, Active
<1>10. CASE (\E p \in Publishers, n \in UserNames : Publish(p, n)) \/ UNCHANGED vars
  BY <1>1, <1>10 DEF Publish, Active
<1> QED
  BY <1>2, <1>3, <1>4, <1>5, <1>6, <1>7, <1>8, <1>9, <1>10
     DEF Next, PublishStep, HandlerStep, ControlStep

LEMMA Lifecycles ==
  ASSUME WellBehaved
  PROVE  Spec => [](Lifecycle /\ ShutdownInflight)
<1>1. Init => Lifecycle /\ ShutdownInflight
  BY LifecycleInit
<1>2. TypeOK /\ Lifecycle /\ ShutdownInflight /\ [Next]_vars => (Lifecycle /\ ShutdownInflight)'
  BY LifecycleStep, ShutdownInflightStep
<1> QED
  BY <1>1, <1>2, Typed, PTL DEF Spec

(* A failed start() and every stop() leave a bus that can be started again, *)
(* with no handler task behind (bus.py, _abort_start and stop).             *)
THEOREM StopsClean ==
  ASSUME WellBehaved
  PROVE  Spec => []StoppedIsClean
<1>1. Lifecycle => StoppedIsClean
  BY DEF Lifecycle, StoppedIsClean
<1> QED
  BY <1>1, Lifecycles, PTL

(* A bus that says it runs does run (bus.py, start).                        *)
THEOREM RunsWhenRunning ==
  ASSUME WellBehaved
  PROVE  Spec => []RunningDispatches
<1>1. Lifecycle => RunningDispatches
  BY DEF Lifecycle, RunningDispatches
<1> QED
  BY <1>1, Lifecycles, PTL

-------------------------------------------------------------------------------
(* The bus implements EventDelivery                                         *)

(* A cancelled handler ends; the callers of start() and stop() may be       *)
(* cancelled while they wait.                                               *)
HandlersEnd == RaisesOnCancel = {}

(* The loop and the tasks live only while the handlers are bound: what      *)
(* deactivates them finds a dead loop and no task.                          *)
Attached ==
  /\ at # "failing"
  /\ Active # {} \/ (running /\ dispatch = "running") => bound
  /\ at \in {"wait", "cancel"} => dispatch = "dead"

LEMMA AttachedStep ==
  HandlersEnd /\ TypeOK /\ Attached /\ [Next]_vars => Attached'
<1> SUFFICES ASSUME HandlersEnd, TypeOK, Attached, [Next]_vars PROVE Attached'
  OBVIOUS
<1> USE DEF vars, flagVars, opVars, queueVars, taskVars, histVars, callVars, Attached
<1>1. ASSUME UNCHANGED <<flagVars, at, dispatch>>, Active' \subseteq Active
      PROVE  Attached'
  BY <1>1
<1>2. ASSUME NEW t \in Active, HandlerStep(t) PROVE Attached'
  <2>1. CASE CancelTask(t)
    BY <2>1 DEF CancelTask, HandlersEnd, Active
  <2>2. CASE ~CancelTask(t)
    <3>1. UNCHANGED <<flagVars, at, dispatch>> /\ Active' \subseteq Active
      BY <1>2, <2>2 DEF HandlerStep, HandlerPublishes, Acquire, HandlerReturns, HandlerRaises,
                        Leave, Active
    <3> QED BY <1>1, <3>1
  <2> QED BY <2>1, <2>2
<1>3. ASSUME NEW f \in inflight,
             MiddlewarePasses(f) \/ Put(f) \/ PublishEnds(f) \/ ReportEnds(f)
      PROVE  Attached'
  <2>1. UNCHANGED <<flagVars, at, dispatch>> /\ Active' \subseteq Active
    BY <1>3 DEF MiddlewarePasses, Put, PublishEnds, ReportEnds, Active
  <2> QED BY <1>1, <2>1
<1>4. ASSUME NEW f \in inflight, ShutdownPublished(f) \/ ShutdownFails(f) PROVE Attached'
  BY <1>4 DEF ShutdownPublished, ShutdownFails, Active
<1>5. CASE Dispatch
  BY <1>5 DEF Dispatch
<1>6. CASE Start \/ SetupReturns \/ SetupRaises \/ Stop \/ JoinEnds \/ DispatchDies
  BY <1>6 DEF Start, SetupReturns, SetupRaises, Stop, JoinEnds, DispatchDies, Active
<1>7. CASE DispatchGone \/ WaitReturns
  BY <1>7 DEF DispatchGone, WaitReturns, Active
<1>8. CASE WaitTimesOut \/ WaitRaises \/ TeardownReturns \/ CallerCancelled
  BY <1>8 DEF WaitTimesOut, WaitRaises, TeardownReturns, CallerCancelled, Active
<1>9. CASE (\E p \in Publishers, n \in UserNames : Publish(p, n)) \/ UNCHANGED vars
  BY <1>1, <1>9 DEF Publish, Active
<1> QED
  BY <1>2, <1>3, <1>4, <1>5, <1>6, <1>7, <1>8, <1>9 DEF Next, PublishStep, ControlStep

LEMMA AttachedAlways ==
  ASSUME HandlersEnd
  PROVE  Spec => []Attached
<1>1. Init => Attached
  BY DEF Init, Attached, Active
<1>2. TypeOK /\ Attached /\ [Next]_vars => Attached'
  BY AttachedStep
<1> QED
  BY <1>1, <1>2, Typed, PTL DEF Spec

(* No handler runs after its registry is deactivated, whoever gives up      *)
(* waiting for start() and stop() (bus.py, stop and _abort_start).          *)
THEOREM TasksBound ==
  ASSUME HandlersEnd
  PROVE  Spec => []TasksOnlyWhileBound
<1>1. Attached => TasksOnlyWhileBound
  BY DEF Attached, TasksOnlyWhileBound
<1> QED
  BY <1>1, AttachedAlways, PTL


(* The tasks of one event carry the same event, so that the pair of id and  *)
(* handler names one task.                                                  *)
TasksNamed == \A t, u \in Active : t.event.id = u.event.id => t.event = u.event

LEMMA TasksNamedStep == TypeOK /\ IdsUnique /\ TasksNamed /\ [Next]_vars => TasksNamed'
<1> SUFFICES ASSUME TypeOK, IdsUnique, TasksNamed, [Next]_vars PROVE TasksNamed'
  OBVIOUS
<1>1. CASE Dispatch
  <2>1. 1 \in DOMAIN queue /\ Head(queue) = queue[1]
    BY <1>1 DEF Dispatch, TypeOK
  <2>2. \A t \in Active' : t \in Active \/ t.event = queue[1]
    BY <1>1, <2>1 DEF Dispatch, Active
  <2>3. \A t \in Active : t.event.id # queue[1].id
    BY <2>1 DEF IdsUnique, TasksOnce
  <2> QED BY <2>2, <2>3 DEF TasksNamed
<1>2. CASE Active' \subseteq Active
  BY <1>2 DEF TasksNamed
<1>3. PassShape \/ PutShape => Active' = Active
  BY DEF PassShape, PutShape, MiddlewarePasses, Put, taskVars, Active
<1> QED
  BY <1>1, <1>2, <1>3, StepShapes DEF AdmitShape, DropShape

Visible == <<enable, bound, queue, accepted>>

LEMMA Stutters ==
  ASSUME UNCHANGED Visible, Active' = Active
  PROVE  UNCHANGED Promise!vars
BY DEF Visible, Promise!vars, phaseMap, channelMap, liveMap

(* A handler task that ends is the end of one execution.                    *)
LEMMA EndsOne ==
  ASSUME TypeOK, TasksNamed, UNCHANGED Visible, NEW t \in Active, Active' = Active \ {t}
  PROVE  Promise!Next
<1> DEFINE x == [id |-> t.event.id, handler |-> t.handler]
<1>1. x \in liveMap
  BY DEF liveMap
<1>2. Active \subseteq Task
  BY DEF TypeOK, Active
<1>3. ASSUME NEW u \in Active, u # t PROVE [id |-> u.event.id, handler |-> u.handler] # x
  <2>1. u \in Task /\ t \in Task
    BY <1>2
  <2>2. u.event # t.event \/ u.handler # t.handler
    BY <1>3, <2>1 DEF Task
  <2> QED BY <2>2 DEF TasksNamed
<1>4. liveMap' = liveMap \ {x}
  BY <1>3 DEF liveMap
<1>5. UNCHANGED <<phaseMap, channelMap, accepted>>
  BY DEF Visible, phaseMap, channelMap
<1>6. Promise!Finish(x)
  BY <1>1, <1>4, <1>5 DEF Promise!Finish
<1> QED
  BY <1>1, <1>6 DEF Promise!Next

LEMMA DeliversInit == Init => Promise!Init
<1> SUFFICES ASSUME Init PROVE Promise!Init
  OBVIOUS
<1>1. channelMap = <<>>
  BY DEF Init, channelMap
<1> QED
  BY <1>1 DEF Init, Promise!Init, phaseMap, liveMap, Active

LEMMA ChannelTyped ==
  ASSUME TypeOK
  PROVE  channelMap \in Seq([id : Nat, name : Names]) /\ Len(channelMap) = Len(queue)
<1>1. DOMAIN queue = 1..Len(queue) /\ Len(queue) \in Nat
  BY QueueTyped
<1>2. \A i \in DOMAIN queue : [id |-> queue[i].id, name |-> queue[i].name] \in [id : Nat, name : Names]
  BY QueueTyped DEF Event
<1> QED
  BY <1>1, <1>2 DEF channelMap

(* queue.put is the acceptance of a new event.                              *)
LEMMA PutAccepts ==
  ASSUME TypeOK, IdsUnique, NEW f \in inflight, Put(f)
  PROVE  Promise!Next
<1> DEFINE e == [id |-> f.event.id, name |-> f.event.name]
<1>1. f.event \in Event /\ f.event.id \notin accepted
  BY InflightTyped DEF Put, IdsUnique, InflightFresh
<1>2. /\ queue' = Append(queue, f.event) /\ queue \in Seq(Event)
      /\ DOMAIN queue = 1..Len(queue) /\ Len(queue) \in Nat
  BY QueueTyped DEF Put, TypeOK
<1>3. /\ DOMAIN queue' = 1..(Len(queue) + 1)
      /\ \A i \in DOMAIN queue : queue'[i] = queue[i]
      /\ queue'[Len(queue) + 1] = f.event
  BY <1>1, <1>2
<1>4. channelMap' = Append(channelMap, e)
  <2>1. channelMap' = [i \in 1..(Len(queue) + 1) |-> [id |-> queue'[i].id, name |-> queue'[i].name]]
    BY <1>3 DEF channelMap
  <2>2. channelMap = [i \in 1..Len(queue) |-> [id |-> queue[i].id, name |-> queue[i].name]]
    BY <1>2 DEF channelMap
  <2>3. Len(channelMap) = Len(queue)
    BY <1>2, <2>2
  <2> QED
    BY <1>2, <1>3, <2>1, <2>2, <2>3
<1>5. e \in [id : Nat, name : Names] /\ channelMap \in Seq([id : Nat, name : Names])
  BY <1>1, ChannelTyped DEF Event
<1>6. Len(channelMap') = Len(channelMap) + 1 /\ channelMap'[Len(channelMap')] = e
  BY <1>4, <1>5
<1>7. UNCHANGED <<phaseMap, liveMap>> /\ accepted' = accepted \cup {e.id}
  BY DEF Put, flagVars, taskVars, phaseMap, liveMap, Active
<1>8. Promise!Accept
  BY <1>1, <1>4, <1>6, <1>7 DEF Promise!Accept
<1> QED
  BY <1>8 DEF Promise!Next

(* A turn of the dispatch loop delivers the first event.                    *)
LEMMA DispatchDelivers ==
  ASSUME TypeOK, Attached, Dispatch
  PROVE  Promise!Next
<1>1. /\ queue \in Seq(Event) /\ queue # <<>> /\ queue' = Tail(queue)
      /\ Len(queue) \in Nat \ {0} /\ DOMAIN queue = 1..Len(queue)
      /\ Head(queue) = queue[1]
  BY QueueTyped DEF Dispatch, TypeOK
<1>2. bound
  BY DEF Dispatch, Attached
<1>3. channelMap \in Seq([id : Nat, name : Names]) /\ Len(channelMap) = Len(queue)
  BY ChannelTyped
<1>4. channelMap' = Tail(channelMap)
  <2>1. /\ DOMAIN queue' = 1..(Len(queue) - 1)
        /\ \A i \in DOMAIN queue' : queue'[i] = queue[i + 1] /\ i + 1 \in DOMAIN queue
    BY <1>1
  <2>2. channelMap' = [i \in 1..(Len(queue) - 1) |-> [id |-> queue[i + 1].id, name |-> queue[i + 1].name]]
    BY <2>1 DEF channelMap
  <2>3. \A i \in DOMAIN queue : channelMap[i] = [id |-> queue[i].id, name |-> queue[i].name]
    BY DEF channelMap
  <2>4. /\ Tail(channelMap) \in Seq([id : Nat, name : Names])
        /\ Len(Tail(channelMap)) = Len(queue) - 1
        /\ \A i \in 1..(Len(queue) - 1) : Tail(channelMap)[i] = channelMap[i + 1]
    BY <1>1, <1>3
  <2>5. Tail(channelMap) = [i \in 1..(Len(queue) - 1) |-> Tail(channelMap)[i]]
    <3> DEFINE rest == Tail(channelMap)
    <3>1. rest \in Seq([id : Nat, name : Names]) /\ Len(rest) = Len(queue) - 1
      BY <2>4
    <3> HIDE DEF rest
    <3>2. DOMAIN rest = 1..(Len(queue) - 1) /\ rest = [i \in DOMAIN rest |-> rest[i]]
      BY <3>1
    <3> QED
      BY <3>2 DEF rest
  <2> QED
    BY <2>1, <2>2, <2>3, <2>4, <2>5
<1>5. Head(channelMap) = [id |-> queue[1].id, name |-> queue[1].name]
  BY <1>1, <1>3 DEF channelMap
<1>6. liveMap' = liveMap \cup {[id |-> Head(channelMap).id, handler |-> h] :
                                 h \in Route[Head(channelMap).name]}
  <2>1. Active' = Active \cup {[event |-> queue[1], handler |-> h] : h \in Route[queue[1].name]}
    BY <1>1 DEF Dispatch, Active
  <2>2. \A h : [event |-> queue[1], handler |-> h].event.id = queue[1].id
              /\ [event |-> queue[1], handler |-> h].handler = h
    OBVIOUS
  <2>3. liveMap' = liveMap \cup {[id |-> queue[1].id, handler |-> h] : h \in Route[queue[1].name]}
    BY <2>1, <2>2 DEF liveMap
  <2> QED
    BY <1>5, <2>3
<1>7. channelMap # <<>> /\ phaseMap # "stopped"
  BY <1>1, <1>2, <1>3 DEF phaseMap
<1>8. UNCHANGED <<phaseMap, accepted>>
  BY DEF Dispatch, flagVars, histVars, phaseMap
<1>9. Promise!Deliver
  BY <1>4, <1>6, <1>7, <1>8 DEF Promise!Deliver
<1> QED
  BY <1>9 DEF Promise!Next

(* Every other step of a task leaves the task or ends it.                   *)
LEMMA TaskSteps ==
  ASSUME TypeOK, TasksNamed, NEW t \in Active, HandlerStep(t)
  PROVE  Promise!Next \/ UNCHANGED Promise!vars
<1> USE DEF Visible, flagVars, queueVars, histVars, Active
<1>1. UNCHANGED Visible
  BY DEF HandlerStep, Acquire, HandlerPublishes, HandlerReturns, HandlerRaises, CancelTask
<1>2. Active' = Active \/ Active' = Active \ {t}
  <2>1. CASE \E n \in UserNames : HandlerPublishes(t, n)
    BY <2>1 DEF HandlerPublishes, taskVars
  <2>2. CASE Acquire(t)
    BY <2>2 DEF Acquire
  <2>3. CASE HandlerReturns(t)
    BY <2>3 DEF HandlerReturns, Leave
  <2>4. CASE HandlerRaises(t)
    BY <2>4 DEF HandlerRaises, Leave
  <2>5. CASE CancelTask(t)
    BY <2>5 DEF CancelTask
  <2> QED BY <2>1, <2>2, <2>3, <2>4, <2>5 DEF HandlerStep
<1> QED
  BY <1>1, <1>2, Stutters, EndsOne

(* start() opens the bus, stop() and a failed start() close and halt it.    *)
LEMMA ControlSteps ==
  ASSUME TypeOK, Attached, ControlStep
  PROVE  Promise!Next \/ UNCHANGED Promise!vars
<1> USE DEF flagVars, queueVars, taskVars, histVars, callVars
<1>1. ASSUME UNCHANGED <<queue, waiting, handling, reporting, accepted>>
      PROVE  /\ UNCHANGED <<channelMap, liveMap, accepted>>
             /\ Active = {} => liveMap = {}
  BY <1>1 DEF channelMap, liveMap, Active
<1>2. CASE Start
  BY <1>1, <1>2 DEF Start, phaseMap, Promise!Next, Promise!Open
<1>3. CASE DispatchGone
  <2>1. enable' = FALSE /\ UNCHANGED <<channelMap, liveMap, accepted>>
    BY <1>1, <1>3 DEF DispatchGone
  <2>2. CASE Active # {}
    BY <1>3, <2>1, <2>2 DEF DispatchGone, phaseMap, Promise!Next, Promise!Close, Promise!vars
  <2>3. CASE Active = {}
    <3>1. liveMap = {} /\ ~bound'
      BY <1>1, <1>3, <2>3 DEF DispatchGone
    <3> QED BY <2>1, <3>1 DEF phaseMap, Promise!Next, Promise!Halt, Promise!vars
  <2> QED BY <2>2, <2>3
<1>4. CASE WaitReturns
  <2>1. ~bound' /\ liveMap = {} /\ UNCHANGED <<channelMap, liveMap, accepted>>
    BY <1>1, <1>4 DEF WaitReturns
  <2> QED
    BY <2>1 DEF phaseMap, Promise!Next, Promise!Halt, Promise!vars
<1>5. CASE SetupReturns \/ SetupRaises \/ Stop \/ JoinEnds \/ WaitTimesOut \/ TeardownReturns
             \/ CallerCancelled
  <2>1. UNCHANGED Visible /\ UNCHANGED taskVars
    BY <1>5 DEF SetupReturns, SetupRaises, Stop, JoinEnds, WaitTimesOut, TeardownReturns,
                CallerCancelled, Visible
  <2> QED BY <2>1, Stutters DEF Active
<1>6. CASE WaitRaises
  BY <1>6 DEF WaitRaises, Attached
<1> QED
  BY <1>2, <1>3, <1>4, <1>5, <1>6 DEF ControlStep

LEMMA DeliversStep ==
  ASSUME TypeOK, IdsUnique, Attached, TasksNamed, [Next]_vars
  PROVE  [Promise!Next]_(Promise!vars)
<1> USE DEF flagVars, queueVars, taskVars, histVars, callVars, Visible
<1>1. CASE \E p \in Publishers, n \in UserNames : Publish(p, n)
  BY <1>1, Stutters DEF Publish, Active
<1>2. ASSUME NEW f \in inflight, MiddlewarePasses(f) \/ PublishEnds(f) \/ ShutdownFails(f)
      PROVE  UNCHANGED Promise!vars
  BY <1>2, Stutters DEF MiddlewarePasses, PublishEnds, ShutdownFails, Active
<1>3. ASSUME NEW f \in inflight, Put(f) PROVE Promise!Next
  BY <1>3, PutAccepts
<1>4. ASSUME NEW f \in inflight, ReportEnds(f) PROVE Promise!Next \/ UNCHANGED Promise!vars
  <2>1. f.by \in Active /\ UNCHANGED Visible
        /\ (Active' = Active \/ Active' = Active \ {f.by})
    BY <1>4 DEF ReportEnds, Active
  <2> QED BY <2>1, Stutters, EndsOne
<1>5. ASSUME NEW f \in inflight, ShutdownPublished(f)
      PROVE  Promise!Next \/ UNCHANGED Promise!vars
  <2>1. ~enable' /\ bound' = bound /\ UNCHANGED <<channelMap, liveMap, accepted>>
    BY <1>5 DEF ShutdownPublished, channelMap, liveMap, Active
  <2> QED
    BY <2>1 DEF phaseMap, Promise!Next, Promise!Close, Promise!vars
<1>6. CASE Dispatch
  BY <1>6, DispatchDelivers
<1>7. CASE DispatchDies \/ UNCHANGED vars
  BY <1>7, Stutters DEF DispatchDies, vars, Active
<1> QED
  BY <1>1, <1>2, <1>3, <1>4, <1>5, <1>6, <1>7, TaskSteps, ControlSteps DEF Next, PublishStep

(* As long as a cancelled handler ends, whoever gives up waiting for        *)
(* start() and stop(), the bus is an EventDelivery: each event is accepted  *)
(* once and delivered at most once, in order, to the handlers of its name,  *)
(* and none while the bus is stopped (bus.py, _core_publish, _dispatch_loop,*)
(* _on_task_done, start and stop).                                          *)
THEOREM DeliversCorrect ==
  ASSUME HandlersEnd
  PROVE  Spec => Delivers
<1>1. Init => Promise!Init /\ TasksNamed
  BY DeliversInit DEF Init, TasksNamed, Active
<1>2. TypeOK /\ IdsUnique /\ TasksNamed /\ [Next]_vars => TasksNamed'
  BY TasksNamedStep
<1>3. TypeOK /\ IdsUnique /\ Attached /\ TasksNamed /\ [Next]_vars
        => [Promise!Next]_(Promise!vars)
  BY DeliversStep
<1> QED
  BY <1>1, <1>2, <1>3, Identified, AttachedAlways, PTL DEF Spec, Delivers, Promise!Spec
=============================================================================
