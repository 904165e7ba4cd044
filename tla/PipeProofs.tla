------------------------------- MODULE PipeProofs -------------------------------
(***************************************************************************)
(* What goes into a pipe comes out of it in order, once, and unless        *)
(* somebody cancels or opens a closed pipe again, at all; for any number   *)
(* of servers, messages and cancellations and any size of the queue.       *)
(***************************************************************************)
EXTENDS Pipe, SequenceTheorems, TLAPS

USE PipeAssumption

Stages == {"idle", "calling", "asking", "expecting", "matched", "accepting",
           "refusing", "linked", "open", "left", "failed"}

Types ==
  /\ closed \in BOOLEAN /\ reopened \in BOOLEAN
  /\ sent \in [Sides -> Nat] /\ sending \in [Sides -> Messages \cup {Nothing}]
  /\ receiving \in [Sides -> {"no", "starting", "waiting"}]
  /\ got \in [Sides -> Messages \cup {Nothing}]
  /\ orphans \in Nat /\ cancels \in Nat
  /\ queue \in Seq(Messages) /\ entered \in Seq(Messages)
  /\ received \in [Sides -> Seq(Messages)]

LEMMA MessageIsSomething == Nothing \notin Messages
BY DEF Messages, Nothing

(* What Append and Tail do to the elements of a sequence.                    *)
LEMMA AppendRange ==
  ASSUME NEW S, NEW s \in Seq(S), NEW e \in S
  PROVE  /\ Append(s, e) \in Seq(S)
         /\ DOMAIN Append(s, e) = 1..(Len(s) + 1)
         /\ Range(Append(s, e)) = Range(s) \cup {e}
<1>1. Append(s, e) \in Seq(S) /\ Len(Append(s, e)) = Len(s) + 1
      /\ \A i \in 1..Len(s) : Append(s, e)[i] = s[i]
      /\ Append(s, e)[Len(s) + 1] = e
  BY AppendProperties
<1>2. DOMAIN Append(s, e) = 1..(Len(s) + 1) /\ DOMAIN s = 1..Len(s) /\ Len(s) \in Nat
  BY <1>1, LenProperties
<1>3. \A m : m \in Range(Append(s, e)) <=> m \in Range(s) \/ m = e
  <2> SUFFICES ASSUME NEW m PROVE m \in Range(Append(s, e)) <=> m \in Range(s) \/ m = e
    OBVIOUS
  <2>1. \A i \in 1..(Len(s) + 1) : i \in 1..Len(s) \/ i = Len(s) + 1
    BY <1>2
  <2>2. 1..Len(s) \subseteq 1..(Len(s) + 1) /\ Len(s) + 1 \in 1..(Len(s) + 1)
    BY <1>2
  <2> QED
    BY <1>1, <1>2, <2>1, <2>2 DEF Range
<1> QED
  BY <1>1, <1>2, <1>3

LEMMA TailRange ==
  ASSUME NEW S, NEW s \in Seq(S), s # <<>>
  PROVE  /\ Head(s) \in S /\ Tail(s) \in Seq(S)
         /\ DOMAIN Tail(s) = 1..(Len(s) - 1)
         /\ \A i \in 1..(Len(s) - 1) : Tail(s)[i] = s[i + 1]
         /\ Head(s) = s[1] /\ Len(s) > 0
         /\ Range(s) = Range(Tail(s)) \cup {Head(s)}
<1>1. Head(s) \in S /\ Tail(s) \in Seq(S) /\ Len(Tail(s)) = Len(s) - 1
      /\ (\A i \in 1..Len(Tail(s)) : Tail(s)[i] = s[i + 1])
  BY HeadTailProperties
<1>2. DOMAIN s = 1..Len(s) /\ Len(s) \in Nat /\ Len(s) > 0 /\ Head(s) = s[1]
      /\ DOMAIN Tail(s) = 1..(Len(s) - 1)
  BY <1>1, LenProperties, EmptySeq
<1>3. \A m : m \in Range(s) <=> m \in Range(Tail(s)) \/ m = Head(s)
  <2> SUFFICES ASSUME NEW m PROVE m \in Range(s) <=> m \in Range(Tail(s)) \/ m = Head(s)
    OBVIOUS
  <2>1. ASSUME NEW i \in 1..Len(s), m = s[i] PROVE m \in Range(Tail(s)) \/ m = Head(s)
    <3>1. CASE i = 1
      BY <2>1, <3>1, <1>2
    <3>2. CASE i # 1
      <4>1. i - 1 \in 1..(Len(s) - 1) /\ (i - 1) + 1 = i
        BY <3>2, <1>2
      <4> QED
        BY <2>1, <4>1, <1>1, <1>2 DEF Range
    <3> QED
      BY <3>1, <3>2
  <2>2. \A i \in 1..(Len(s) - 1) : i + 1 \in 1..Len(s)
    BY <1>2
  <2>3. 1 \in 1..Len(s)
    BY <1>2
  <2> QED
    BY <1>1, <1>2, <2>1, <2>2, <2>3 DEF Range
<1> QED
  BY <1>1, <1>2, <1>3

LEMMA RangeIn ==
  ASSUME NEW S, NEW s \in Seq(S)
  PROVE  Range(s) \subseteq S /\ DOMAIN s = 1..Len(s) /\ Len(s) \in Nat
BY LenProperties, ElementOfSeq DEF Range

-------------------------------------------------------------------------------
(* The handshake: an answer of success was given by a server that accepted.  *)
Handshake ==
  /\ stage \in [Sides -> Stages] /\ replies \subseteq BOOLEAN
  /\ TRUE \in replies => accepted # {}
  /\ answer = "success" => accepted # {}
  /\ OpenIsAccepted

LEMMA HandshakeInit == Init => Handshake
BY DEF Init, Handshake, OpenIsAccepted, Stages, Sides

LEMMA HandshakeStep == Handshake /\ [Next]_vars => Handshake'
<1> SUFFICES ASSUME Handshake, [Next]_vars PROVE Handshake'
  OBVIOUS
<1> USE DEF Handshake, OpenIsAccepted, Goes, Sides, Stages
<1>1. CASE Allocate
  BY <1>1 DEF Allocate
<1>2. CASE Ask
  BY <1>2 DEF Ask
<1>3. CASE Link
  BY <1>3 DEF Link, Agreed, handshake
<1>4. CASE GiveUp
  BY <1>4 DEF GiveUp
<1>5. CASE DispatchRequest
  BY <1>5 DEF DispatchRequest
<1>6. CASE DispatchReply
  BY <1>6 DEF DispatchReply
<1>7. ASSUME NEW s \in Servers, Expect(s) \/ Miss(s) \/ Find(s) \/ Reply(s) \/ Open(s)
      PROVE Handshake'
  BY <1>7 DEF Expect, Miss, Find, Reply, Open, handshake
<1>8. ASSUME NEW x \in Sides, Leave(x) PROVE Handshake'
  BY <1>8 DEF Leave
<1>9. CASE UNCHANGED <<stage, handshake>>
  BY <1>9 DEF handshake
<1>10. ASSUME NEW x \in Sides, Send(x) \/ SendOn(x) \/ CancelSend(x) PROVE UNCHANGED <<stage, handshake>>
  BY <1>10 DEF Send, SendOn, CancelSend, handshake
<1>11. ASSUME NEW x \in Sides,
              Receive(x) \/ Get(x) \/ Return(x) \/ EndReceive(x) \/ CancelReceive(x)
       PROVE UNCHANGED <<stage, handshake>>
  BY <1>11 DEF Receive, Get, Return, EndReceive, CancelReceive, handshake
<1>12. OrphanGet \/ UNCHANGED vars => UNCHANGED <<stage, handshake>>
  BY DEF OrphanGet, vars, handshake
<1> QED
  BY <1>1, <1>2, <1>3, <1>4, <1>5, <1>6, <1>7, <1>8, <1>9, <1>10, <1>11, <1>12 DEF Next

(* The client opens its pipe only after a server that found it in the        *)
(* allocator has said so (pipe.py 254-261).                                  *)
THEOREM OpenCorrect == Spec => []OpenIsAccepted
<1>1. Handshake => OpenIsAccepted
  BY DEF Handshake
<1> QED
  BY <1>1, HandshakeInit, HandshakeStep, PTL DEF Spec

-------------------------------------------------------------------------------
(* The way of a message: it enters the queue, a get task takes it, a receive *)
(* returns it.                                                               *)

EnterStep(x) ==
  /\ \/ sending[x] = Nothing /\ sent' = [sent EXCEPT ![x] = @ + 1] /\ UNCHANGED sending
     \/ sending[x] # Nothing /\ sending' = [sending EXCEPT ![x] = Nothing] /\ UNCHANGED sent
  /\ LET m == IF sending[x] = Nothing THEN <<x, sent[x] + 1>> ELSE sending[x]
     IN queue' = Append(queue, m) /\ entered' = Append(entered, m)
  /\ UNCHANGED <<got, received, closed, reopened, cancels, orphans, receiving>>

WaitStep(x) ==
  /\ sending[x] = Nothing
  /\ sent' = [sent EXCEPT ![x] = @ + 1]
  /\ sending' = [sending EXCEPT ![x] = <<x, sent[x] + 1>>]
  /\ UNCHANGED <<queue, entered, got, received, closed, reopened, cancels, orphans, receiving>>

TakeStep(x) ==
  /\ got[x] = Nothing /\ queue # <<>>
  /\ got' = [got EXCEPT ![x] = Head(queue)] /\ queue' = Tail(queue)
  /\ UNCHANGED <<sent, sending, entered, received, closed, reopened, cancels, orphans>>

ReturnStep(x) ==
  /\ got[x] # Nothing
  /\ got' = [got EXCEPT ![x] = Nothing]
  /\ received' = [received EXCEPT ![x] = Append(@, got[x])]
  /\ UNCHANGED <<queue, sent, sending, entered, closed, reopened, cancels, orphans>>

(* Messages may be dropped, but not out of their order.                      *)
DropStep ==
  /\ \/ queue' \in {queue, <<>>}
     \/ queue # <<>> /\ queue' = Tail(queue)
  /\ got' = got \/ \E x \in Sides : got' = [got EXCEPT ![x] = Nothing]
  /\ sending' = sending \/ \E x \in Sides : sending' = [sending EXCEPT ![x] = Nothing]
  /\ UNCHANGED <<sent, entered, received>>
  /\ cancels' \in Nat /\ orphans' \in Nat
  /\ closed' \in BOOLEAN /\ reopened' \in BOOLEAN
  /\ orphans <= cancels => orphans' <= cancels'
  /\ (cancels' = 0 /\ ~reopened' /\ orphans <= cancels) =>
       cancels = 0 /\ ~reopened /\ queue' = queue /\ got' = got

StepTyped == receiving' \in [Sides -> {"no", "starting", "waiting"}]

LEMMA NextSteps ==
  ASSUME Types, [Next]_vars
  PROVE  StepTyped /\ (DropStep \/ \E x \in Sides : EnterStep(x) \/ WaitStep(x) \/ TakeStep(x) \/ ReturnStep(x))
<1> USE DEF Types, StepTyped, handshake, sends, receives
<1>1. ASSUME NEW x \in Sides, Send(x)
      PROVE  StepTyped /\ (EnterStep(x) \/ WaitStep(x))
  <2>1. CASE HasRoom
    BY <1>1, <2>1 DEF Send, EnterStep
  <2>2. CASE ~HasRoom
    BY <1>1, <2>2 DEF Send, WaitStep
  <2> QED
    BY <2>1, <2>2
<1>2. ASSUME NEW x \in Sides, SendOn(x) PROVE StepTyped /\ EnterStep(x)
  BY <1>2 DEF SendOn, EnterStep
<1>3. ASSUME NEW x \in Sides, Get(x)
      PROVE  StepTyped /\ (TakeStep(x) \/ DropStep)
  BY <1>3 DEF Get, TakeStep, DropStep
<1>4. ASSUME NEW x \in Sides, Return(x) PROVE StepTyped /\ ReturnStep(x)
  BY <1>4 DEF Return, ReturnStep
<1>5. ASSUME NEW x \in Sides, EndReceive(x) PROVE StepTyped /\ DropStep
  <2>1. got' = got
    BY <1>5 DEF EndReceive, SeesOnlyClosed
  <2> QED
    BY <1>5, <2>1 DEF EndReceive, DropStep
<1>6. ASSUME NEW x \in Sides, CancelReceive(x) PROVE StepTyped /\ DropStep
  <2>1. cancels' = cancels + 1 /\ orphans' \in {orphans, orphans + 1}
        /\ UNCHANGED <<closed, queue, sends, received, reopened>>
        /\ receiving' = [receiving EXCEPT ![x] = "no"] /\ got' = [got EXCEPT ![x] = Nothing]
    BY <1>6 DEF CancelReceive
  <2>2. cancels' # 0 /\ (orphans <= cancels => orphans' <= cancels')
        /\ cancels' \in Nat /\ orphans' \in Nat
    BY <2>1
  <2> QED
    BY <2>1, <2>2 DEF DropStep
<1>7. ASSUME NEW x \in Sides, Receive(x) \/ Leave(x) \/ CancelSend(x) PROVE StepTyped /\ DropStep
  BY <1>7 DEF Receive, Leave, CancelSend, DropStep
<1>8. ASSUME OrphanGet PROVE StepTyped /\ DropStep
  BY <1>8 DEF OrphanGet, DropStep
<1>9. ASSUME NEW s \in Servers, Expect(s) \/ Miss(s) \/ Find(s) \/ Reply(s) PROVE StepTyped /\ DropStep
  BY <1>9 DEF Expect, Miss, Find, Reply, DropStep
<1>10. ASSUME Opens, UNCHANGED <<sends, receives>> PROVE StepTyped /\ DropStep
  BY <1>10 DEF Opens, DropStep
<1>11. ASSUME NEW s \in Servers, Open(s) PROVE StepTyped /\ DropStep
  BY <1>10, <1>11 DEF Open
<1>12. ASSUME Link PROVE StepTyped /\ DropStep
  BY <1>10, <1>12 DEF Link
<1>13. ASSUME Allocate \/ Ask \/ GiveUp \/ DispatchRequest \/ DispatchReply \/ UNCHANGED vars
       PROVE  StepTyped /\ DropStep
  BY <1>13 DEF Allocate, Ask, GiveUp, DispatchRequest, DispatchReply, vars, DropStep
<1> QED
  BY <1>1, <1>2, <1>3, <1>4, <1>5, <1>6, <1>7, <1>8, <1>9, <1>11, <1>12, <1>13 DEF Next

-------------------------------------------------------------------------------
(* The invariant behind InOrder: what is out of the queue comes before what  *)
(* is in it, and that before what has yet to enter.                          *)

Before(m, n) == m[1] = n[1] => m[2] < n[2]
Sorted(s) == \A i, j \in DOMAIN s : i < j => Before(s[i], s[j])

(* The last message of x that has entered the queue or was given up.         *)
LastIn(x) == IF sending[x] = Nothing THEN sent[x] ELSE sent[x] - 1
Out(m) == \E x \in Sides : m \in Range(received[x]) \/ got[x] = m

Sendings == \A x \in Sides : sending[x] # Nothing => sending[x] = <<x, sent[x]>>
Bounded == \A m \in Messages : m \in Range(queue) \/ Out(m) => m[2] <= LastIn(m[1])
QueueLater == \A m, n \in Messages : Out(m) /\ n \in Range(queue) => Before(m, n)
Distinct ==
  \A x, y \in Sides : x # y =>
    /\ Range(received[x]) \cap Range(received[y]) = {}
    /\ got[x] \notin Range(received[y])
    /\ got[x] = got[y] => got[x] = Nothing
Returned ==
  \A x \in Sides :
    /\ Sorted(received[x])
    /\ got[x] # Nothing => \A m \in Range(received[x]) : Before(m, got[x])

Kept ==
  /\ orphans <= cancels
  /\ (cancels = 0 /\ ~reopened) =>
       \A m \in Messages : m \in Range(entered) <=> Out(m) \/ m \in Range(queue)

Order == Sendings /\ Sorted(queue) /\ Bounded /\ QueueLater /\ Distinct /\ Returned
Inv == Types /\ Order /\ Kept

LEMMA InvInit == Init => Inv
<1> SUFFICES ASSUME Init PROVE Types /\ Order /\ Kept
  BY DEF Inv
<1>1. Types
  <2>1. <<>> \in Seq(Messages)
    BY EmptySeq
  <2> QED
    BY <2>1 DEF Init, Types
<1>2. Range(<<>>) = {} /\ DOMAIN <<>> = {}
  BY DEF Range
<1>3. \A m \in Messages : ~Out(m)
  BY <1>2, MessageIsSomething DEF Init, Out
<1>4. \A x \in Sides : got[x] = Nothing /\ sending[x] = Nothing /\ received[x] = <<>>
  BY DEF Init
<1>5. Order
  BY <1>2, <1>3, <1>4 DEF Init, Order, Sendings, Sorted, Bounded, QueueLater, Distinct, Returned
<1>6. Kept
  BY <1>2, <1>3 DEF Init, Kept
<1> QED
  BY <1>1, <1>5, <1>6

LEMMA EnterKeeps ==
  ASSUME Inv, NEW x \in Sides, EnterStep(x), StepTyped
  PROVE  Inv'
<1> DEFINE m == IF sending[x] = Nothing THEN <<x, sent[x] + 1>> ELSE sending[x]
<1>1. m = <<x, LastIn(x) + 1>> /\ m \in Messages /\ LastIn(x) \in Int
  BY DEF Inv, Types, Order, Sendings, LastIn, Messages
<1>2. LastIn(x)' = LastIn(x) + 1 /\ \A y \in Sides \ {x} : LastIn(y)' = LastIn(y)
  BY DEF EnterStep, Inv, Types, LastIn
<1>3. queue' = Append(queue, m) /\ entered' = Append(entered, m)
      /\ UNCHANGED <<got, received, closed, reopened, cancels, orphans>>
  BY DEF EnterStep
<1>4. queue \in Seq(Messages) /\ entered \in Seq(Messages)
  BY DEF Inv, Types
<1> HIDE DEF m
<1>5. Range(queue') = Range(queue) \cup {m} /\ queue' \in Seq(Messages)
      /\ DOMAIN queue' = 1..(Len(queue) + 1)
  BY <1>1, <1>3, <1>4, AppendRange
<1>6. Range(entered') = Range(entered) \cup {m} /\ entered' \in Seq(Messages)
  BY <1>1, <1>3, <1>4, AppendRange
<1>7. \A n : Out(n)' <=> Out(n)
  BY <1>3 DEF Out
<1>8. Types'
  <2>1. sent' \in [Sides -> Nat] /\ sending' \in [Sides -> Messages \cup {Nothing}]
    <3>1. \/ sent' = [sent EXCEPT ![x] = sent[x] + 1] /\ sending' = sending
          \/ sending' = [sending EXCEPT ![x] = Nothing] /\ sent' = sent
      BY DEF EnterStep
    <3>2. sent \in [Sides -> Nat] /\ sending \in [Sides -> Messages \cup {Nothing}]
      BY DEF Inv, Types
    <3>3. sent[x] + 1 \in Nat
      BY <3>2
    <3> QED
      BY <3>1, <3>2, <3>3
  <2> QED
    BY <2>1, <1>3, <1>5, <1>6 DEF Inv, Types, StepTyped
<1>9. Kept'
  BY <1>3, <1>5, <1>6, <1>7 DEF Inv, Kept
<1>10. Sendings'
  BY DEF EnterStep, Inv, Types, Order, Sendings
<1>11. \A n \in Messages : n[1] \in Sides /\ n[2] \in Nat
  BY DEF Messages
<1>12. \A y \in Sides : LastIn(y) \in Int /\ LastIn(y)' \in Int /\ LastIn(y) <= LastIn(y)'
  <2>1. \A y \in Sides : LastIn(y) \in Int
    BY DEF Inv, Types, LastIn
  <2>2. \A y \in Sides : LastIn(y)' \in {LastIn(y), LastIn(y) + 1}
    BY <1>2
  <2> QED
    BY <2>1, <2>2
<1>13. m[1] = x /\ m[2] = LastIn(x) + 1
  BY <1>1
<1>14. Bounded'
  <2> SUFFICES ASSUME NEW n \in Messages, n \in Range(queue') \/ Out(n)' PROVE n[2] <= LastIn(n[1])'
    BY DEF Bounded
  <2>1. CASE n = m
    BY <2>1, <1>1, <1>2, <1>13
  <2>2. CASE n # m
    <3>1. n[2] <= LastIn(n[1])
      BY <2>2, <1>5, <1>7 DEF Inv, Order, Bounded
    <3>2. n[1] \in Sides /\ n[2] \in Nat
      BY <1>11
    <3>3. LastIn(n[1]) \in Int /\ LastIn(n[1]) <= LastIn(n[1])' /\ LastIn(n[1])' \in Int
      BY <3>2, <1>12
    <3> QED
      BY <3>1, <3>2, <3>3
  <2> QED
    BY <2>1, <2>2
<1>15. \A n \in Messages : n \in Range(queue) \/ Out(n) => Before(n, m)
  BY <1>1, <1>11, <1>13 DEF Inv, Order, Bounded, Before
<1>16. QueueLater'
  BY <1>5, <1>7, <1>15 DEF Inv, Order, QueueLater
<1>17. Sorted(queue')
  <2> SUFFICES ASSUME NEW i \in 1..(Len(queue) + 1), NEW j \in 1..(Len(queue) + 1), i < j
               PROVE  Before(queue'[i], queue'[j])
    BY <1>5 DEF Sorted
  <2>1. DOMAIN queue = 1..Len(queue) /\ Len(queue) \in Nat /\ Range(queue) \subseteq Messages
    BY <1>4, RangeIn
  <2>2. i \in 1..Len(queue)
    BY <2>1
  <2>3. \A k \in 1..Len(queue) : queue'[k] = queue[k]
    BY <1>1, <1>3, <1>4, AppendProperties
  <2>4. queue'[Len(queue) + 1] = m
    BY <1>1, <1>3, <1>4, AppendProperties
  <2>5. CASE j = Len(queue) + 1
    <3>1. queue[i] \in Range(queue)
      BY <2>1, <2>2 DEF Range
    <3> QED
      BY <3>1, <2>1, <2>2, <2>3, <2>4, <2>5, <1>15
  <2>6. CASE j # Len(queue) + 1
    <3>1. j \in 1..Len(queue)
      BY <2>1, <2>6
    <3> QED
      BY <3>1, <2>1, <2>2, <2>3 DEF Inv, Order, Sorted
  <2> QED
    BY <2>5, <2>6
<1>18. Distinct' /\ Returned'
  BY <1>3 DEF Inv, Order, Distinct, Returned, Sorted
<1>19. Order'
  BY <1>10, <1>14, <1>16, <1>17, <1>18 DEF Order, Sorted
<1> QED
  BY <1>8, <1>9, <1>19 DEF Inv

LEMMA WaitKeeps ==
  ASSUME Inv, NEW x \in Sides, WaitStep(x), StepTyped
  PROVE  Inv'
<1>1. UNCHANGED <<queue, entered, got, received, closed, reopened, cancels, orphans>>
      /\ sending[x] = Nothing /\ sent' = [sent EXCEPT ![x] = sent[x] + 1]
      /\ sending' = [sending EXCEPT ![x] = <<x, sent[x] + 1>>]
  BY DEF WaitStep
<1>2. <<x, sent[x] + 1>> \in Messages
  BY DEF Inv, Types, Messages
<1>3. Types'
  BY <1>1, <1>2 DEF Inv, Types, StepTyped
<1>4. Sendings'
  BY <1>1 DEF Inv, Types, Order, Sendings
<1>5. \A y \in Sides : LastIn(y)' = LastIn(y)
  <2>1. sent \in [Sides -> Nat] /\ sending \in [Sides -> Messages \cup {Nothing}]
    BY DEF Inv, Types
  <2>2. LastIn(x)' = (sent[x] + 1) - 1 /\ LastIn(x) = sent[x]
    BY <1>1, <1>2, <2>1, MessageIsSomething DEF LastIn
  <2>3. \A y \in Sides \ {x} : LastIn(y)' = LastIn(y)
    BY <1>1, <2>1 DEF LastIn
  <2> QED
    BY <2>1, <2>2, <2>3
<1>6. \A n : Out(n)' <=> Out(n)
  BY <1>1 DEF Out
<1>7. \A n \in Messages : n[1] \in Sides
  BY DEF Messages
<1>8. Bounded'
  BY <1>1, <1>5, <1>6, <1>7 DEF Inv, Order, Bounded
<1>9. Kept' /\ QueueLater'
  BY <1>1, <1>6 DEF Inv, Kept, Order, QueueLater
<1>10. Sorted(queue') /\ Distinct' /\ Returned'
  BY <1>1 DEF Inv, Order, Distinct, Returned, Sorted
<1> QED
  BY <1>3, <1>4, <1>8, <1>9, <1>10 DEF Inv, Order, Sorted

LEMMA TakeKeeps ==
  ASSUME Inv, NEW x \in Sides, TakeStep(x), StepTyped
  PROVE  Inv'
<1> DEFINE h == Head(queue)
<1>1. got[x] = Nothing /\ queue # <<>> /\ got' = [got EXCEPT ![x] = h] /\ queue' = Tail(queue)
      /\ UNCHANGED <<sent, sending, entered, received, closed, reopened, cancels, orphans>>
  BY DEF TakeStep
<1>2. queue \in Seq(Messages)
  BY DEF Inv, Types
<1>3. h \in Messages /\ Tail(queue) \in Seq(Messages) /\ DOMAIN Tail(queue) = 1..(Len(queue) - 1)
      /\ (\A i \in 1..(Len(queue) - 1) : Tail(queue)[i] = queue[i + 1])
      /\ h = queue[1] /\ Len(queue) > 0 /\ Range(queue) = Range(Tail(queue)) \cup {h}
  BY <1>1, <1>2, TailRange
<1>4. DOMAIN queue = 1..Len(queue) /\ Len(queue) \in Nat
  BY <1>2, RangeIn
<1> HIDE DEF h
<1>5. Types'
  BY <1>1, <1>3 DEF Inv, Types, StepTyped
<1>6. \A y \in Sides : LastIn(y)' = LastIn(y)
  BY <1>1 DEF LastIn
<1>7. \A n \in Messages : Out(n)' <=> Out(n) \/ n = h
  BY <1>1, <1>3, MessageIsSomething DEF Out, Inv, Types
<1>8. \A n \in Range(queue') : Before(h, n)
  <2> SUFFICES ASSUME NEW i \in 1..(Len(queue) - 1) PROVE Before(h, queue'[i])
    BY <1>1, <1>3 DEF Range
  <2>1. i + 1 \in 1..Len(queue) /\ 1 \in 1..Len(queue) /\ 1 < i + 1
    BY <1>4
  <2> QED
    BY <2>1, <1>1, <1>3, <1>4 DEF Inv, Order, Sorted
<1>9. Sorted(queue')
  <2> SUFFICES ASSUME NEW i \in 1..(Len(queue) - 1), NEW j \in 1..(Len(queue) - 1), i < j
               PROVE  Before(queue'[i], queue'[j])
    BY <1>1, <1>3 DEF Sorted
  <2>1. i + 1 \in 1..Len(queue) /\ j + 1 \in 1..Len(queue) /\ i + 1 < j + 1
    BY <1>4
  <2> QED
    BY <2>1, <1>1, <1>3, <1>4 DEF Inv, Order, Sorted
<1>10. \A n \in Messages : n[1] \in Sides
  BY DEF Messages
<1>11. Bounded'
  BY <1>1, <1>3, <1>6, <1>7, <1>10 DEF Inv, Order, Bounded
<1>12. QueueLater'
  BY <1>1, <1>3, <1>7, <1>8 DEF Inv, Order, QueueLater
<1>13. h \in Range(queue)
  BY <1>3
<1>14. ~Out(h)
  <2>1. Out(h) => Before(h, h)
    BY <1>3, <1>13 DEF Inv, Order, QueueLater
  <2>2. h[2] \in Nat
    BY <1>3 DEF Messages
  <2> QED
    BY <2>1, <2>2 DEF Before
<1>15. Distinct'
  BY <1>1, <1>3, <1>14, MessageIsSomething DEF Inv, Types, Order, Distinct, Out
<1>16. \A n \in Range(received[x]) : Before(n, h)
  <2>1. Range(received[x]) \subseteq Messages
    BY RangeIn DEF Inv, Types
  <2> QED
    BY <2>1, <1>3, <1>13 DEF Inv, Order, QueueLater, Out
<1>17. Returned'
  BY <1>1, <1>16 DEF Inv, Types, Order, Returned, Sorted
<1>18. Sendings'
  BY <1>1 DEF Inv, Order, Sendings
<1>19. Kept'
  BY <1>1, <1>3, <1>7 DEF Inv, Kept
<1> QED
  BY <1>5, <1>9, <1>11, <1>12, <1>15, <1>17, <1>18, <1>19 DEF Inv, Order, Sorted

LEMMA ReturnKeeps ==
  ASSUME Inv, NEW x \in Sides, ReturnStep(x), StepTyped
  PROVE  Inv'
<1> DEFINE g == got[x]
<1>1. g # Nothing /\ got[x] = g /\ got' = [got EXCEPT ![x] = Nothing]
      /\ received' = [received EXCEPT ![x] = Append(received[x], g)]
      /\ UNCHANGED <<queue, sent, sending, entered, closed, reopened, cancels, orphans>>
  BY DEF ReturnStep
<1>2. g \in Messages /\ received[x] \in Seq(Messages)
  BY <1>1 DEF Inv, Types
<1> HIDE DEF g
<1>3. Append(received[x], g) \in Seq(Messages)
      /\ DOMAIN Append(received[x], g) = 1..(Len(received[x]) + 1)
      /\ Range(Append(received[x], g)) = Range(received[x]) \cup {g}
  BY <1>2, AppendRange
<1>4. received'[x] = Append(received[x], g) /\ got'[x] = Nothing
      /\ \A y \in Sides \ {x} : received'[y] = received[y] /\ got'[y] = got[y]
  BY <1>1 DEF Inv, Types
<1>5. Types'
  BY <1>1, <1>3 DEF Inv, Types, StepTyped
<1>6. \A n \in Messages : Out(n)' <=> Out(n)
  <2> SUFFICES ASSUME NEW n \in Messages PROVE Out(n)' <=> Out(n)
    OBVIOUS
  <2> QED
    BY <1>1, <1>3, <1>4, MessageIsSomething DEF Out
<1>7. \A y \in Sides : LastIn(y)' = LastIn(y)
  BY <1>1 DEF LastIn
<1>8. \A n \in Messages : n[1] \in Sides
  BY DEF Messages
<1>9. Bounded' /\ QueueLater'
  BY <1>1, <1>6, <1>7, <1>8 DEF Inv, Order, Bounded, QueueLater
<1>10. Sorted(received'[x])
  <2> DEFINE r == received[x]
             e == Append(received[x], g)
  <2>1. DOMAIN r = 1..Len(r) /\ Len(r) \in Nat
    BY <1>2, RangeIn
  <2>2. (\A k \in 1..Len(r) : e[k] = r[k]) /\ e[Len(r) + 1] = g
    BY <1>2, AppendProperties
  <2>3. \A k \in 1..Len(r) : Before(r[k], g)
    BY <1>1, <2>1 DEF Inv, Order, Returned, Range
  <2>4. Sorted(r)
    BY DEF Inv, Order, Returned
  <2>5. DOMAIN e = 1..(Len(r) + 1)
    BY <1>3
  <2> HIDE DEF r, e
  <2>6. Sorted(e)
    <3> SUFFICES ASSUME NEW i \in 1..(Len(r) + 1), NEW j \in 1..(Len(r) + 1), i < j
                 PROVE  Before(e[i], e[j])
      BY <2>5 DEF Sorted
    <3>1. i \in 1..Len(r) /\ (j \in 1..Len(r) \/ j = Len(r) + 1)
      BY <2>1
    <3> QED
      BY <3>1, <2>1, <2>2, <2>3, <2>4 DEF Sorted
  <2> QED
    BY <2>6, <1>4 DEF e
<1>11. Returned'
  BY <1>4, <1>10 DEF Inv, Order, Returned, Sorted
<1>12. Distinct'
  <2>1. \A y \in Sides : Nothing \notin Range(received[y])
    BY RangeIn, MessageIsSomething DEF Inv, Types
  <2>2. Range(received'[x]) = Range(received[x]) \cup {g}
    BY <1>3, <1>4
  <2> QED
    BY <1>1, <1>4, <2>1, <2>2 DEF Inv, Order, Distinct
<1>13. Sendings' /\ Sorted(queue')
  BY <1>1 DEF Inv, Order, Sendings, Sorted
<1>14. Kept'
  BY <1>1, <1>6 DEF Inv, Kept
<1> QED
  BY <1>5, <1>9, <1>11, <1>12, <1>13, <1>14 DEF Inv, Order, Sorted

LEMMA DropKeeps ==
  ASSUME Inv, DropStep, StepTyped
  PROVE  Inv'
<1>1. UNCHANGED <<sent, entered, received>>
      /\ \A y \in Sides : got'[y] \in {got[y], Nothing} /\ sending'[y] \in {sending[y], Nothing}
  BY DEF DropStep, Inv, Types
<1>2. queue \in Seq(Messages)
  BY DEF Inv, Types
<1>3. queue' \in Seq(Messages) /\ Range(queue') \subseteq Range(queue) /\ Sorted(queue')
  <2>1. CASE queue' = queue
    BY <2>1, <1>2 DEF Inv, Order, Sorted
  <2>2. CASE queue' = <<>>
    BY <2>2, EmptySeq DEF Sorted, Range
  <2>3. CASE queue # <<>> /\ queue' = Tail(queue)
    <3>1. Tail(queue) \in Seq(Messages) /\ DOMAIN Tail(queue) = 1..(Len(queue) - 1)
          /\ (\A i \in 1..(Len(queue) - 1) : Tail(queue)[i] = queue[i + 1])
          /\ Range(Tail(queue)) \subseteq Range(queue)
      BY <1>2, <2>3, TailRange
    <3>2. DOMAIN queue = 1..Len(queue) /\ Len(queue) \in Nat
      BY <1>2, RangeIn
    <3>3. ASSUME NEW i \in 1..(Len(queue) - 1), NEW j \in 1..(Len(queue) - 1), i < j
          PROVE  Before(queue'[i], queue'[j])
      <4>1. i + 1 \in 1..Len(queue) /\ j + 1 \in 1..Len(queue) /\ i + 1 < j + 1
        BY <3>2, <3>3
      <4> QED
        BY <4>1, <2>3, <3>1, <3>2 DEF Inv, Order, Sorted
    <3>4. Sorted(queue')
      BY <2>3, <3>1, <3>3 DEF Sorted
    <3> QED
      BY <2>3, <3>1, <3>4
  <2> QED
    BY <2>1, <2>2, <2>3 DEF DropStep
<1>4. Types'
  <2>1. got' \in [Sides -> Messages \cup {Nothing}] /\ sending' \in [Sides -> Messages \cup {Nothing}]
    BY DEF DropStep, Inv, Types
  <2>2. closed' \in BOOLEAN /\ reopened' \in BOOLEAN /\ cancels' \in Nat /\ orphans' \in Nat
    BY DEF DropStep
  <2> QED
    BY <2>1, <2>2, <1>1, <1>3 DEF Inv, Types, StepTyped
<1>5. \A n \in Messages : Out(n)' => Out(n)
  BY <1>1, MessageIsSomething DEF Out
<1>6. \A y \in Sides : LastIn(y) \in Int /\ LastIn(y)' \in Int /\ LastIn(y) <= LastIn(y)'
  <2>1. \A y \in Sides : sent[y] \in Nat /\ sent'[y] = sent[y]
    BY <1>1 DEF Inv, Types
  <2> QED
    BY <2>1, <1>1 DEF LastIn
<1>7. Bounded'
  <2> SUFFICES ASSUME NEW n \in Messages, n \in Range(queue') \/ Out(n)' PROVE n[2] <= LastIn(n[1])'
    BY DEF Bounded
  <2>1. n[1] \in Sides /\ n[2] \in Nat
    BY DEF Messages
  <2>2. n[2] <= LastIn(n[1])
    BY <1>3, <1>5 DEF Inv, Order, Bounded
  <2>3. LastIn(n[1]) \in Int /\ LastIn(n[1])' \in Int /\ LastIn(n[1]) <= LastIn(n[1])'
    BY <2>1, <1>6
  <2> QED
    BY <2>1, <2>2, <2>3
<1>8. QueueLater'
  BY <1>3, <1>5 DEF Inv, Order, QueueLater
<1>9. Distinct'
  <2>1. \A y \in Sides : Nothing \notin Range(received[y])
    BY RangeIn, MessageIsSomething DEF Inv, Types
  <2> QED
    BY <1>1, <2>1 DEF Inv, Order, Distinct
<1>10. Returned'
  BY <1>1 DEF Inv, Order, Returned, Sorted
<1>11. Sendings'
  BY <1>1 DEF Inv, Order, Sendings
<1>12. Kept'
  <2>1. orphans' <= cancels'
    BY DEF DropStep, Inv, Kept
  <2>2. ASSUME cancels' = 0, ~reopened'
        PROVE  cancels = 0 /\ ~reopened /\ queue' = queue /\ got' = got
    BY <2>2 DEF DropStep, Inv, Kept
  <2>3. (cancels' = 0 /\ ~reopened') => \A n \in Messages : Out(n)' <=> Out(n)
    BY <1>1, <2>2 DEF Out
  <2> QED
    BY <1>1, <2>1, <2>2, <2>3 DEF Inv, Kept
<1> QED
  BY <1>3, <1>4, <1>7, <1>8, <1>9, <1>10, <1>11, <1>12 DEF Inv, Order, Sorted

LEMMA InvStep == Inv /\ [Next]_vars => Inv'
<1> SUFFICES ASSUME Inv, [Next]_vars PROVE Inv'
  OBVIOUS
<1>1. StepTyped /\ (DropStep \/ \E x \in Sides : EnterStep(x) \/ WaitStep(x) \/ TakeStep(x) \/ ReturnStep(x))
  BY NextSteps DEF Inv
<1> QED
  BY <1>1, EnterKeeps, WaitKeeps, TakeKeeps, ReturnKeeps, DropKeeps

(* Each message is received at most once, on whichever side, and each        *)
(* receiver gets those of a sender in the order they entered the pipe        *)
(* (pipe.py 105-132).                                                        *)
THEOREM OrderCorrect == Spec => []InOrder
<1>1. Inv => InOrder
  <2> SUFFICES ASSUME Inv PROVE InOrder
    OBVIOUS
  <2>1. \A x, y \in Sides : x # y => Range(received[x]) \cap Range(received[y]) = {}
    BY DEF Inv, Order, Distinct
  <2>2. ASSUME NEW x \in Sides, NEW i \in DOMAIN received[x], NEW j \in DOMAIN received[x], i < j,
               received[x][i][1] = received[x][j][1]
        PROVE  received[x][i][2] < received[x][j][2]
    BY <2>2 DEF Inv, Order, Returned, Sorted, Before
  <2>3. ASSUME NEW x \in Sides, NEW i \in DOMAIN received[x], NEW j \in DOMAIN received[x],
               received[x][i] = received[x][j], i # j
        PROVE  FALSE
    <3>1. received[x] \in Seq(Messages)
      BY DEF Inv, Types
    <3>2. i \in Nat /\ j \in Nat /\ received[x][i] \in Messages
      BY <3>1, RangeIn DEF Range
    <3>3. received[x][i][2] \in Nat
      BY <3>2 DEF Messages
    <3>4. i < j \/ j < i
      BY <3>2, <2>3
    <3>5. received[x][i][2] < received[x][i][2]
      BY <3>4, <2>2, <2>3
    <3> QED
      BY <3>3, <3>5
  <2> QED
    BY <2>1, <2>2, <2>3 DEF InOrder, IsInjective
<1> QED
  BY <1>1, InvInit, InvStep, PTL DEF Spec

(* Nothing that entered the pipe is lost, also after close(), unless a       *)
(* receive was cancelled or an open() found the pipe closed                  *)
(* (pipe.py 113-132, 136-144).                                               *)
THEOREM KeepsCorrect == Spec => []NothingLost
<1>1. Inv => NothingLost
  <2> SUFFICES ASSUME Inv, cancels = 0, ~reopened
               PROVE  Range(entered) = (UNION {Range(received[x]) : x \in Sides})
                                         \cup Range(queue) \cup (Range(got) \ {Nothing})
    BY DEF NothingLost
  <2>1. \A m \in Messages : m \in Range(entered) <=> Out(m) \/ m \in Range(queue)
    BY DEF Inv, Kept
  <2>2. Range(entered) \subseteq Messages /\ Range(queue) \subseteq Messages
    BY RangeIn DEF Inv, Types
  <2>3. \A x \in Sides : Range(received[x]) \subseteq Messages
    BY RangeIn DEF Inv, Types
  <2>4. Range(got) = {got[x] : x \in Sides} /\ Range(got) \ {Nothing} \subseteq Messages
    BY DEF Inv, Types, Range
  <2>5. \A m \in Messages : Out(m) <=> m \in UNION {Range(received[x]) : x \in Sides}
                                     \/ m \in Range(got) \ {Nothing}
    BY <2>4, MessageIsSomething DEF Out
  <2>6. UNION {Range(received[x]) : x \in Sides} \subseteq Messages
    BY <2>3
  <2> DEFINE U == UNION {Range(received[x]) : x \in Sides}
             G == Range(got) \ {Nothing}
  <2>7. U \subseteq Messages /\ G \subseteq Messages /\ \A m \in Messages : Out(m) <=> m \in U \/ m \in G
    BY <2>4, <2>5, <2>6
  <2> HIDE DEF U, G
  <2>8. Range(entered) = U \cup Range(queue) \cup G
    BY <2>1, <2>2, <2>7, Zenon
  <2> QED
    BY <2>8, Zenon DEF U, G
<1> QED
  BY <1>1, InvInit, InvStep, PTL DEF Spec

-------------------------------------------------------------------------------
(* What Types leaves out: the handshake's flags, who accepts, and limits.    *)
Limits ==
  /\ requested \in BOOLEAN /\ allocated \in BOOLEAN
  /\ answer \in {"none", "success", "failure"}
  /\ accepted \subseteq Sharing
  /\ \A s \in Servers : stage[s] = "accepting" => s \in Sharing
  /\ cancels <= MaxCancels
  /\ MaxSize # 0 => Len(queue) <= MaxSize

LEMMA LimitsInit == Init => Limits
<1> SUFFICES ASSUME Init PROVE Limits
  OBVIOUS
<1>1. Len(queue) = 0 /\ cancels = 0
  BY DEF Init
<1>2. \A s \in Servers : stage[s] = "idle"
  BY DEF Init, Sides
<1>3. requested \in BOOLEAN /\ allocated \in BOOLEAN /\ answer \in {"none", "success", "failure"}
      /\ accepted \subseteq Sharing
  BY DEF Init
<1>4. cancels <= MaxCancels /\ (MaxSize # 0 => Len(queue) <= MaxSize)
  BY <1>1
<1> QED
  BY <1>2, <1>3, <1>4 DEF Limits

LEMMA PutKeeps ==
  ASSUME Types, Limits, HasRoom, NEW m \in Messages, queue' = Append(queue, m),
         UNCHANGED <<stage, handshake, cancels>>
  PROVE  Limits'
<1>1. Len(queue') = Len(queue) + 1 /\ Len(queue) \in Nat
  BY AppendProperties, LenProperties DEF Types
<1> QED
  BY <1>1 DEF HasRoom, Limits, handshake

LEMMA LimitsStep ==
  ASSUME Types, Handshake, Limits, [Next]_vars
  PROVE  Limits'
<1> USE DEF Limits, Goes, Sides
<1>1. stage \in [Sides -> Stages] /\ replies \subseteq BOOLEAN /\ queue \in Seq(Messages)
  BY DEF Handshake, Types
<1>2. ASSUME Opens PROVE MaxSize # 0 => Len(queue') <= MaxSize
  <2>1. Len(<<>>) = 0
    OBVIOUS
  <2> QED
    BY <1>2, <2>1 DEF Opens
<1>3. ASSUME queue # <<>>, queue' = Tail(queue) PROVE MaxSize # 0 => Len(queue') <= MaxSize
  <2>1. Len(queue') = Len(queue) - 1 /\ Len(queue) \in Nat
    BY <1>1, <1>3, HeadTailProperties, LenProperties
  <2> QED
    BY <2>1
<1>4. CASE Allocate \/ Ask \/ GiveUp
  BY <1>1, <1>4 DEF Allocate, Ask, GiveUp, receives
<1>5. CASE Link
  BY <1>1, <1>2, <1>5 DEF Link, handshake, receives
<1>6. CASE DispatchRequest
  BY <1>1, <1>6 DEF DispatchRequest, receives
<1>7. CASE DispatchReply
  BY <1>1, <1>7 DEF DispatchReply, receives
<1>8. ASSUME NEW s \in Servers, Expect(s) \/ Miss(s) \/ Find(s) PROVE Limits'
  BY <1>1, <1>8 DEF Expect, Miss, Find, handshake, receives
<1>9. ASSUME NEW s \in Servers, Reply(s) PROVE Limits'
  BY <1>1, <1>9 DEF Reply, receives
<1>10. ASSUME NEW s \in Servers, Open(s) PROVE Limits'
  BY <1>1, <1>2, <1>10 DEF Open, handshake, receives
<1>11. ASSUME NEW x \in Sides, Leave(x) PROVE Limits'
  BY <1>1, <1>11 DEF Leave, receives
<1>12. ASSUME NEW x \in Sides, Send(x) PROVE Limits'
  <2>1. CASE HasRoom
    <3>1. <<x, sent[x] + 1>> \in Messages
      BY DEF Types, Messages
    <3> HIDE DEF Limits
    <3> QED
      BY <1>12, <2>1, <3>1, PutKeeps DEF Send, receives
  <2>2. CASE ~HasRoom
    BY <1>12, <2>2 DEF Send, handshake, receives
  <2> QED
    BY <2>1, <2>2
<1>13. ASSUME NEW x \in Sides, SendOn(x) PROVE Limits'
  <2>1. sending[x] \in Messages
    BY <1>13 DEF SendOn, Types
  <2> HIDE DEF Limits
  <2> QED
    BY <1>13, <2>1, PutKeeps DEF SendOn, receives
<1>14. ASSUME NEW x \in Sides, CancelSend(x) \/ Receive(x) \/ Return(x) \/ EndReceive(x) PROVE Limits'
  BY <1>14 DEF CancelSend, Receive, Return, EndReceive, handshake, receives
<1>15. ASSUME NEW x \in Sides, Get(x) PROVE Limits'
  BY <1>3, <1>15 DEF Get, handshake
<1>16. ASSUME NEW x \in Sides, CancelReceive(x) PROVE Limits'
  BY <1>16 DEF CancelReceive, handshake, Types
<1>17. CASE OrphanGet
  BY <1>3, <1>17 DEF OrphanGet, handshake
<1>18. CASE UNCHANGED vars
  BY <1>18 DEF vars, handshake, receives
<1> HIDE DEF Limits
<1> QED
  BY <1>4, <1>5, <1>6, <1>7, <1>8, <1>9, <1>10, <1>11, <1>12, <1>13, <1>14, <1>15, <1>16,
     <1>17, <1>18 DEF Next

(* Every variable has its type.  The queue keeps its limit however many      *)
(* sends wait (pipe.py 105), and only a server that shares the client's      *)
(* allocator accepts (pipe.py 303).                                          *)
THEOREM TypeCorrect == Spec => []TypeOK
<1>1. Inv /\ Handshake /\ Limits => TypeOK
  BY DEF Inv, Types, Kept, Handshake, Stages, Limits, TypeOK
<1>2. Init => Inv /\ Handshake /\ Limits
  BY InvInit, HandshakeInit, LimitsInit
<1>3. Inv /\ Handshake /\ Limits /\ [Next]_vars => (Inv /\ Handshake /\ Limits)'
  BY InvStep, HandshakeStep, LimitsStep DEF Inv
<1> QED
  BY <1>1, <1>2, <1>3, PTL DEF Spec
===============================================================================
