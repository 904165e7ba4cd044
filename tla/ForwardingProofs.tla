--------------------------- MODULE ForwardingProofs ---------------------------
(***************************************************************************)
(* Two joined buses, with any number of publishers and any settings of the *)
(* middlewares: events do not echo, their chains are bounded, the counters *)
(* of the middlewares add up and the rate limit holds over every window.   *)
(***************************************************************************)
EXTENDS Forwarding, SequenceTheorems, FiniteSetTheorems, WellFoundedInduction, TLAPS

Sources == Publishers \cup {"a_to_b", "b_to_a", "handler_a", "handler_b"}
Names == UNION {NamesOf[p] : p \in Publishers}
Chains == Seq(Sources) \ {<<>>}
EventType == [bus : Buses, name : Names, sources : Chains]
Stages == {"putting", "forwarding", "waiting", "returning"}
CallType == [event : EventType, stage : Stages]

QueuesTyped ==
  /\ queue \in [Buses -> Seq(EventType)]
  /\ \A b \in Buses : Len(queue[b]) <= Capacity /\ \A e \in ToSet(queue[b]) : e.bus = b
StampsTyped == bucket \in [Limited -> Seq(Nat)] /\ admitted \in [Limited -> Seq(Nat)]
CallsTyped == calls \subseteq CallType /\ IsFiniteSet(calls)
CancelledTyped == cancelled \subseteq CallType /\ IsFiniteSet(cancelled)
Phases == {"up", "closing", "ending", "down"}
CountersTyped == {forwarded, failed, skipped} \subseteq [Buses -> Nat]
MetricsTyped == total \in [Buses -> Nat] /\ errors \in [Buses -> Nat]

Types ==
  /\ idle \subseteq Publishers /\ phase \in [Buses -> Phases]
  /\ stops \in 0..MaxStops /\ clock \in 0..MaxTime
  /\ StampsTyped /\ QueuesTyped
  /\ tasks \subseteq EventType /\ published \subseteq EventType
  /\ CallsTyped /\ CancelledTyped /\ CountersTyped /\ MetricsTyped

-------------------------------------------------------------------------------
Shift(b) == Stop(b) \/ EndDispatch(b) \/ Stopped(b) \/ Start(b)

(* Buses, events and chains                                                  *)

LEMMA BusFacts ==
  /\ Other("A") = "B" /\ Other("B") = "A"
  /\ \A b \in Buses : /\ Other(b) \in Buses /\ Other(Other(b)) = b
                      /\ Via(b) \in Sources /\ Handler(b) \in Sources
                      /\ Via(b) \notin Publishers /\ Handler(b) \notin Publishers
                      /\ Via(Other(b)) # Via(b) /\ \A d \in Buses : Handler(d) # Via(b)
<1>1. Other("A") = "B" /\ Other("B") = "A"
  BY DEF Other, Buses
<1> QED
  BY <1>1, PublishersAssumption DEF Buses, Via, Handler, Sources

(* A chain with one more source.                                             *)
LEMMA Longer ==
  ASSUME NEW s \in Chains, NEW x \in Sources
  PROVE  /\ Append(s, x) \in Chains /\ Len(s) \in Nat \ {0}
         /\ Len(Append(s, x)) = Len(s) + 1
         /\ \A i \in 1..Len(s) : Append(s, x)[i] = s[i]
         /\ Append(s, x)[Len(s) + 1] = x
         /\ Last(Append(s, x)) = x
         /\ ToSet(Append(s, x)) = ToSet(s) \cup {x}
<1> DEFINE a == Append(s, x)
<1>1. s \in Seq(Sources) /\ s # <<>>
  BY DEF Chains
<1>2. /\ a \in Seq(Sources) /\ a # <<>> /\ Len(a) = Len(s) + 1
      /\ \A i \in 1..Len(s) : a[i] = s[i]
      /\ a[Len(s) + 1] = x
  BY <1>1, AppendProperties
<1>3. Len(s) \in Nat /\ DOMAIN s = 1..Len(s) /\ DOMAIN a = 1..(Len(s) + 1)
  BY <1>1, <1>2, LenProperties
<1>4. Len(s) # 0
  BY <1>1, EmptySeq
<1> HIDE DEF a
<1>5. \A i \in 1..(Len(s) + 1) : i \in 1..Len(s) \/ i = Len(s) + 1
  BY <1>3
<1>6. 1..Len(s) \subseteq 1..(Len(s) + 1) /\ Len(s) + 1 \in 1..(Len(s) + 1)
  BY <1>3
<1>7. ToSet(a) = ToSet(s) \cup {x}
  BY <1>2, <1>3, <1>5, <1>6 DEF ToSet
<1>8. Last(a) = x
  BY <1>2 DEF Last
<1> QED
  BY <1>2, <1>3, <1>4, <1>7, <1>8 DEF a, Chains

LEMMA LongerInjective ==
  ASSUME NEW s \in Chains, NEW t \in Chains, NEW x \in Sources, NEW y \in Sources,
         Append(s, x) = Append(t, y)
  PROVE  s = t /\ x = y
<1> s \in Seq(Sources) /\ t \in Seq(Sources)
  BY DEF Chains
<1> QED
  BY AppendInjective

LEMMA FirstChain ==
  ASSUME NEW p \in Publishers
  PROVE  /\ <<p>> \in Chains /\ Len(<<p>>) = 1 /\ <<p>>[1] = p /\ ToSet(<<p>>) = {p}
<1>1. <<p>> \in Seq(Sources) /\ Len(<<p>>) = 1 /\ <<p>>[1] = p /\ <<p>> # <<>>
  BY DEF Sources
<1> QED
  BY <1>1 DEF Chains, ToSet

(* What an event becomes when it is published, once more or on the other bus. *)
First(p, n) == Event(At[p], n, <<p>>)
Again(e) == Event(e.bus, e.name, Append(e.sources, Handler(e.bus)))

LEMMA EventsTyped ==
  /\ \A p \in Publishers : \A n \in NamesOf[p] : First(p, n) \in EventType
  /\ \A e \in EventType : Again(e) \in EventType /\ Copy(e) \in EventType
<1>1. ASSUME NEW p \in Publishers, NEW n \in NamesOf[p] PROVE First(p, n) \in EventType
  BY FirstChain, PublishersAssumption, NamesAssumption DEF First, Event, EventType, Names
<1>2. ASSUME NEW e \in EventType PROVE Again(e) \in EventType /\ Copy(e) \in EventType
  <2>1. e.bus \in Buses /\ e.name \in Names /\ e.sources \in Chains
    BY DEF EventType
  <2>2. /\ Append(e.sources, Handler(e.bus)) \in Chains
        /\ Append(e.sources, Via(e.bus)) \in Chains
    BY <2>1, BusFacts, Longer
  <2> QED
    BY <2>1, <2>2, BusFacts DEF Again, Copy, Event, EventType
<1> QED
  BY <1>1, <1>2

-------------------------------------------------------------------------------
(* The rate limit                                                            *)

LEMMA Least ==
  ASSUME NEW T \in SUBSET Nat, T # {}
  PROVE  \E m \in T : \A k \in T : m <= k
<1> DEFINE R == OpToRel(<, Nat)
<1>1. IsWellFoundedOn(R, Nat)
  BY NatLessThanWellFounded
<1>2. \A x, y \in Nat : x < y => <<x, y>> \in R
  BY DEF OpToRel
<1> HIDE DEF R
<1>3. PICK m \in T : \A y \in T : <<y, m>> \notin R
  BY <1>1, WFMin
<1>4. \A k \in T : ~(k < m)
  BY <1>2, <1>3
<1> QED
  BY <1>4

LEMMA MaxOf ==
  ASSUME NEW n \in Nat, NEW S \in SUBSET (0..n), S # {}
  PROVE  Max(S) \in S
<1> DEFINE T == {n - x : x \in S}
<1>0. \A x \in S : n - x \in Nat
  OBVIOUS
<1>1. T \in SUBSET Nat /\ T # {}
  <2>1. \A y \in T : y \in Nat
    BY <1>0
  <2>2. PICK x \in S : TRUE
    OBVIOUS
  <2>3. n - x \in T
    OBVIOUS
  <2> QED
    BY <2>1, <2>3
<1>2. PICK m \in T : \A k \in T : m <= k
  BY <1>1, Least
<1>3. PICK x \in S : m = n - x
  BY <1>2
<1>4. \A y \in S : x >= y
  <2> TAKE y \in S
  <2>1. n - y \in T
    OBVIOUS
  <2>2. n - x <= n - y
    BY <1>2, <1>3, <2>1
  <2> QED
    BY <2>2
<1>5. \E z \in S : \A y \in S : z >= y
  BY <1>4
<1> QED
  BY <1>5 DEF Max

(* The rate limit drops n stamps, all of them out of the window.             *)
Drops(b, n) ==
  /\ n \in 0..Len(bucket[b])
  /\ Recent(b) \in Seq(Nat) /\ Len(Recent(b)) = Len(bucket[b]) - n
  /\ \A i \in 1..(Len(bucket[b]) - n) : Recent(b)[i] = bucket[b][n + i]
  /\ \A i \in 1..n : bucket[b][i] < clock - Window

LEMMA RecentFacts ==
  ASSUME StampsTyped, NEW b \in Limited
  PROVE  \E n : Drops(b, n)
<1> DEFINE k == bucket[b]
           n == Max(Expired(b))
<1>1. k \in Seq(Nat) /\ Len(k) \in Nat /\ \A i \in 1..Len(k) : k[i] \in Nat
  BY DEF StampsTyped
<1>2. Expired(b) \in SUBSET (0..Len(k)) /\ 0 \in Expired(b)
  BY <1>1 DEF Expired
<1>3. n \in Expired(b)
  BY <1>1, <1>2, MaxOf
<1>4. n \in 0..Len(k) /\ \A i \in 1..n : k[i] < clock - Window
  BY <1>3 DEF Expired
<1>5. Recent(b) = SubSeq(k, n + 1, Len(k))
  BY DEF Recent
<1> HIDE DEF n, k
<1>6. \A i \in (n + 1)..Len(k) : k[i] \in Nat
  BY <1>1, <1>4
<1>7. n + 1 \in Int /\ Len(k) \in Int
  BY <1>1, <1>4
<1>8. /\ Recent(b) \in Seq(Nat)
      /\ Len(Recent(b)) = IF n + 1 <= Len(k) THEN Len(k) - (n + 1) + 1 ELSE 0
      /\ \A i \in 1..(Len(k) - (n + 1) + 1) : Recent(b)[i] = k[(n + 1) + i - 1]
  BY <1>5, <1>6, <1>7, SubSeqProperties
<1>9. Len(Recent(b)) = Len(k) - n
  BY <1>1, <1>4, <1>8
<1>10. Len(k) - (n + 1) + 1 = Len(k) - n /\ \A i \in 1..(Len(k) - n) : (n + 1) + i - 1 = n + i
  BY <1>1, <1>4
<1>11. Drops(b, n)
  BY <1>1, <1>4, <1>8, <1>9, <1>10 DEF Drops, k
<1> QED
  BY <1>11

(* What a publish does to the rate limit of its bus.                         *)
Lets(b) == IF Exhausted(b) THEN <<>> ELSE <<clock>>
LEMMA PassStamps ==
  ASSUME StampsTyped, clock \in Nat, NEW e \in EventType, Pass(e)
  PROVE  /\ StampsTyped'
         /\ \A b \in Limited :
              \/ /\ b = e.bus
                 /\ bucket'[b] = Recent(b) \o Lets(b)
                 /\ admitted'[b] = admitted[b] \o Lets(b)
              \/ bucket'[b] = bucket[b] /\ admitted'[b] = admitted[b]
<1>1. CASE e.bus \in Limited \cap up
  <2>1. /\ bucket' = [bucket EXCEPT ![e.bus] = Recent(e.bus) \o Lets(e.bus)]
        /\ admitted' = [admitted EXCEPT ![e.bus] = admitted[e.bus] \o Lets(e.bus)]
    BY <1>1 DEF Pass, Lets
  <2>2. Recent(e.bus) \in Seq(Nat)
    BY <1>1, RecentFacts DEF Drops
  <2>3. Lets(e.bus) \in Seq(Nat) /\ admitted[e.bus] \in Seq(Nat)
    BY <1>1 DEF Lets, StampsTyped
  <2>4. Recent(e.bus) \o Lets(e.bus) \in Seq(Nat) /\ admitted[e.bus] \o Lets(e.bus) \in Seq(Nat)
    BY <2>2, <2>3, ConcatProperties
  <2> QED
    BY <1>1, <2>1, <2>4 DEF StampsTyped
<1>2. CASE e.bus \notin Limited \cap up
  BY <1>2 DEF Pass, StampsTyped
<1> QED
  BY <1>1, <1>2

LEMMA PassMetrics ==
  ASSUME MetricsTyped, NEW e \in EventType, Pass(e)
  PROVE  MetricsTyped' /\ \A b \in Buses : total'[b] - errors'[b] = total[b] - errors[b]
<1>1. e.bus \in Buses
  BY DEF EventType
<1>2. CASE Verdict(e) = "undeclared"
  BY <1>1, <1>2 DEF Pass, Unregistered, Plus, MetricsTyped
<1>3. CASE Verdict(e) # "undeclared"
  BY <1>3 DEF Pass, Unregistered, MetricsTyped
<1> QED
  BY <1>2, <1>3

-------------------------------------------------------------------------------
(* The queues                                                                *)

Queued == UNION {ToSet(queue[b]) : b \in Buses}
NoRepeat(s) == \A i, j \in 1..Len(s) : s[i] = s[j] => i = j
QueuesDistinct == \A b \in Buses : NoRepeat(queue[b])

LEMMA SeqFacts ==
  ASSUME NEW S, NEW s \in Seq(S)
  PROVE  /\ Len(s) \in Nat /\ DOMAIN s = 1..Len(s)
         /\ \A i \in 1..Len(s) : s[i] \in S /\ s[i] \in ToSet(s)
         /\ \A e \in ToSet(s) : e \in S /\ \E i \in 1..Len(s) : s[i] = e
<1>1. Len(s) \in Nat /\ DOMAIN s = 1..Len(s)
  BY LenProperties
<1>2. \A i \in 1..Len(s) : s[i] \in S
  BY <1>1, LenProperties
<1> QED
  BY <1>1, <1>2 DEF ToSet

LEMMA AppendFacts ==
  ASSUME NEW S, NEW s \in Seq(S), NEW e \in S
  PROVE  /\ Append(s, e) \in Seq(S) /\ Len(Append(s, e)) = Len(s) + 1
         /\ ToSet(Append(s, e)) = ToSet(s) \cup {e}
         /\ NoRepeat(s) /\ e \notin ToSet(s) => NoRepeat(Append(s, e))
<1> DEFINE a == Append(s, e)
<1>1. a \in Seq(S) /\ Len(a) = Len(s) + 1 /\ (\A i \in 1..Len(s) : a[i] = s[i]) /\ a[Len(s) + 1] = e
  BY AppendProperties
<1>2. DOMAIN s = 1..Len(s) /\ Len(s) \in Nat
  BY SeqFacts
<1>3. DOMAIN a = 1..(Len(s) + 1)
  BY <1>1, SeqFacts
<1> HIDE DEF a
<1>4. \A i \in 1..(Len(s) + 1) : i \in 1..Len(s) \/ i = Len(s) + 1
  BY <1>2
<1>5. 1..Len(s) \subseteq 1..(Len(s) + 1) /\ Len(s) + 1 \in 1..(Len(s) + 1)
  BY <1>2
<1>6. ToSet(a) = ToSet(s) \cup {e}
  BY <1>1, <1>2, <1>3, <1>4, <1>5 DEF ToSet
<1>7. NoRepeat(s) /\ e \notin ToSet(s) => NoRepeat(a)
  BY <1>1, <1>2, <1>3, <1>4 DEF NoRepeat, ToSet
<1> QED
  BY <1>1, <1>6, <1>7 DEF a

LEMMA TailFacts ==
  ASSUME NEW S, NEW s \in Seq(S), s # <<>>
  PROVE  /\ Head(s) \in ToSet(s) /\ Head(s) \in S
         /\ Tail(s) \in Seq(S) /\ Len(Tail(s)) = Len(s) - 1
         /\ ToSet(Tail(s)) \subseteq ToSet(s)
         /\ NoRepeat(s) => NoRepeat(Tail(s)) /\ Head(s) \notin ToSet(Tail(s))
<1> DEFINE t == Tail(s)
<1>1. Len(s) \in Nat \ {0}
  BY EmptySeq
<1>2. Head(s) = s[1] /\ 1 \in 1..Len(s)
  BY <1>1
<1>3. t \in Seq(S) /\ Len(t) = Len(s) - 1 /\ \A i \in 1..Len(t) : t[i] = s[i + 1]
  BY HeadTailProperties
<1> HIDE DEF t
<1>4. \A i \in 1..Len(t) : i + 1 \in 1..Len(s) /\ i + 1 # 1 /\ \A j \in 1..Len(t) : i + 1 = j + 1 => i = j
  BY <1>1, <1>3
<1>5. ToSet(t) \subseteq ToSet(s)
  <2>1. \A i \in 1..Len(t) : t[i] \in ToSet(s)
    BY <1>3, <1>4, SeqFacts
  <2> QED
    BY <1>3, <2>1, SeqFacts
<1>6. Head(s) \in ToSet(s) /\ Head(s) \in S
  BY <1>2, SeqFacts
<1>7. NoRepeat(s) => NoRepeat(t)
  BY <1>3, <1>4 DEF NoRepeat
<1>8. NoRepeat(s) => Head(s) \notin ToSet(t)
  BY <1>2, <1>3, <1>4, SeqFacts DEF NoRepeat
<1> QED
  BY <1>3, <1>5, <1>6, <1>7, <1>8 DEF t

LEMMA PutQueue ==
  ASSUME QueuesTyped, NEW e \in EventType, HasRoom(e.bus),
         queue' = [queue EXCEPT ![e.bus] = Append(@, e)]
  PROVE  /\ QueuesTyped' /\ Queued' = Queued \cup {e}
         /\ QueuesDistinct /\ e \notin Queued => QueuesDistinct'
<1> DEFINE b == e.bus
           q == Append(queue[b], e)
<1>1. b \in Buses /\ queue[b] \in Seq(EventType) /\ Len(queue[b]) < Capacity
  BY DEF QueuesTyped, EventType, HasRoom
<1>2. /\ q \in Seq(EventType) /\ Len(q) = Len(queue[b]) + 1 /\ ToSet(q) = ToSet(queue[b]) \cup {e}
      /\ NoRepeat(queue[b]) /\ e \notin ToSet(queue[b]) => NoRepeat(q)
  BY <1>1, AppendFacts
<1>3. Len(q) <= Capacity
  <2>1. Capacity \in Nat /\ Len(queue[b]) \in Nat
    BY <1>1, SeqFacts, BoundsAssumption
  <2> QED
    BY <1>1, <1>2, <2>1
<1> HIDE DEF q
<1>4. queue' = [queue EXCEPT ![b] = q]
  BY DEF q
<1>5. \A d \in Buses : queue'[d] = IF d = b THEN q ELSE queue[d]
  BY <1>4 DEF QueuesTyped
<1>6. QueuesTyped'
  BY <1>1, <1>2, <1>3, <1>4, <1>5 DEF QueuesTyped
<1>7. Queued' = Queued \cup {e}
  BY <1>1, <1>2, <1>5 DEF Queued
<1>8. ASSUME QueuesDistinct, e \notin Queued PROVE QueuesDistinct'
  BY <1>1, <1>2, <1>5, <1>8 DEF Queued, QueuesDistinct
<1> QED
  BY <1>6, <1>7, <1>8

LEMMA DispatchQueue ==
  ASSUME QueuesTyped, NEW b \in Buses, queue[b] # <<>>, queue' = [queue EXCEPT ![b] = Tail(@)]
  PROVE  /\ QueuesTyped' /\ Queued' \subseteq Queued
         /\ Head(queue[b]) \in Queued /\ Head(queue[b]) \in EventType
         /\ QueuesDistinct => QueuesDistinct' /\ Head(queue[b]) \notin Queued'
<1> DEFINE h == Head(queue[b])
           q == Tail(queue[b])
<1>1. queue[b] \in Seq(EventType) /\ Len(queue[b]) <= Capacity
  BY DEF QueuesTyped
<1>2. /\ h \in ToSet(queue[b]) /\ h \in EventType
      /\ q \in Seq(EventType) /\ Len(q) = Len(queue[b]) - 1
      /\ ToSet(q) \subseteq ToSet(queue[b])
      /\ NoRepeat(queue[b]) => NoRepeat(q) /\ h \notin ToSet(q)
  BY <1>1, TailFacts
<1>3. Len(q) <= Capacity
  <2>1. Capacity \in Nat /\ Len(queue[b]) \in Nat
    BY <1>1, SeqFacts, BoundsAssumption
  <2> QED
    BY <1>1, <1>2, <2>1
<1> HIDE DEF q, h
<1>4. queue' = [queue EXCEPT ![b] = q]
  BY DEF q
<1>5. \A d \in Buses : queue'[d] = IF d = b THEN q ELSE queue[d]
  BY <1>4 DEF QueuesTyped
<1>6. QueuesTyped'
  BY <1>1, <1>2, <1>3, <1>4, <1>5 DEF QueuesTyped
<1>7. Queued' \subseteq Queued /\ h \in Queued
  BY <1>2, <1>5 DEF Queued
<1>8. ASSUME QueuesDistinct PROVE QueuesDistinct'
  BY <1>2, <1>5, <1>8 DEF QueuesDistinct
<1>9. ASSUME QueuesDistinct, h \in Queued' PROVE FALSE
  <2>1. PICK d \in Buses : h \in ToSet(queue'[d])
    BY <1>9 DEF Queued
  <2>2. d # b
    BY <1>2, <1>5, <1>9, <2>1 DEF QueuesDistinct
  <2>3. h.bus = d /\ h.bus = b
    BY <1>2, <1>5, <2>1, <2>2 DEF QueuesTyped
  <2> QED
    BY <2>2, <2>3
<1> QED
  BY <1>2, <1>6, <1>7, <1>8, <1>9 DEF h

-------------------------------------------------------------------------------
(* Sizes                                                                     *)

Values(f, S) == {f[x] : x \in S}
OneToOne(f, S) == \A x, y \in S : f[x] = f[y] => x = y

LEMMA Image ==
  ASSUME NEW S, IsFiniteSet(S), NEW T, NEW f \in [S -> T]
  PROVE  /\ IsFiniteSet(Values(f, S))
         /\ OneToOne(f, S) => Cardinality(Values(f, S)) = Cardinality(S)
<1> DEFINE R == {f[x] : x \in S}
<1>1. f \in Surjection(S, R)
  BY DEF Surjection
<1>2. /\ IsFiniteSet(R)
      /\ Cardinality(R) = Cardinality(S) <=> f \in Injection(S, R)
  BY <1>1, FS_Surjection
<1>3. OneToOne(f, S) => f \in Injection(S, R)
  BY <1>1 DEF Injection, Surjection, IsInjective, OneToOne
<1> QED
  BY <1>2, <1>3 DEF Values

-------------------------------------------------------------------------------
(* Type correctness                                                          *)

LEMMA CallTyped ==
  /\ \A e \in EventType, s \in Stages :
       Call(e, s) \in CallType /\ Call(e, s).event = e /\ Call(e, s).stage = s
  /\ \A c \in CallType : c.event \in EventType /\ c.event.bus \in Buses /\ c.stage \in Stages
                         /\ c = Call(c.event, c.stage)
BY DEF Call, CallType, EventType

LEMMA EnteringTyped ==
  ASSUME NEW e \in EventType
  PROVE  Entering(e) \subseteq CallType /\ IsFiniteSet(Entering(e))
<1>1. Call(e, "putting") \in CallType
  BY CallTyped DEF Stages
<1> QED
  BY <1>1, FS_EmptySet, FS_Singleton DEF Entering

LEMMA MovesTyped ==
  ASSUME CallsTyped, NEW c \in calls, NEW s \in Stages
  PROVE  Moves(c, s) \subseteq CallType /\ IsFiniteSet(Moves(c, s))
<1>1. Call(c.event, s) \in CallType
  BY CallTyped DEF CallsTyped
<1>2. IsFiniteSet(calls \ {c})
  BY FS_RemoveElement DEF CallsTyped
<1>3. IsFiniteSet((calls \ {c}) \cup {Call(c.event, s)})
  BY <1>2, FS_AddElement
<1> QED
  BY <1>1, <1>3 DEF Moves, CallsTyped

LEMMA NestingTyped ==
  ASSUME CallsTyped, NEW c \in calls
  PROVE  /\ {Call(d.event, "returning") : d \in Nesting(c)} \subseteq CallType
         /\ IsFiniteSet({Call(d.event, "returning") : d \in Nesting(c)})
         /\ \A b \in Buses : IsFiniteSet({d \in Nesting(c) : d.event.bus = b})
<1> DEFINE N == Nesting(c)
           f == [d \in N |-> Call(d.event, "returning")]
<1>1. N \subseteq calls
  BY DEF Nesting
<1>2. IsFiniteSet(N)
  BY <1>1, FS_Subset DEF CallsTyped
<1>3. \A d \in N : Call(d.event, "returning") \in CallType
  BY <1>1, CallTyped DEF CallsTyped, Stages
<1>4. f \in [N -> CallType]
  BY <1>3
<1>5. \A d \in N : f[d] = Call(d.event, "returning")
  OBVIOUS
<1>6. \A b \in Buses : {d \in N : d.event.bus = b} \in SUBSET N
  OBVIOUS
<1> HIDE DEF N
<1>7. \A b \in Buses : IsFiniteSet({d \in N : d.event.bus = b})
  BY <1>2, <1>6, FS_Subset
<1> HIDE DEF f
<1>8. IsFiniteSet(Values(f, N))
  BY <1>2, <1>4, Image
<1>9. Values(f, N) = {Call(d.event, "returning") : d \in N}
  BY <1>5 DEF Values
<1> QED
  BY <1>3, <1>7, <1>8, <1>9 DEF N

LEMMA ReturnTyped ==
  ASSUME CallsTyped, NEW c \in calls,
         calls' = (calls \ ({c} \cup Nesting(c))) \cup {Call(d.event, "returning") : d \in Nesting(c)}
  PROVE  CallsTyped'
<1>1. IsFiniteSet(calls \ ({c} \cup Nesting(c)))
  BY FS_Difference DEF CallsTyped
<1>2. IsFiniteSet(calls')
  BY <1>1, NestingTyped, FS_Union
<1> QED
  BY <1>2, NestingTyped DEF CallsTyped

LEMMA TypesInit == Init => Types
<1> SUFFICES ASSUME Init PROVE Types
  OBVIOUS
<1>1. StampsTyped
  BY DEF Init, StampsTyped
<1>2. QueuesTyped
  BY BoundsAssumption DEF Init, QueuesTyped, ToSet
<1>3. MetricsTyped /\ CountersTyped
  BY DEF Init, Zero, MetricsTyped, CountersTyped
<1>4. CallsTyped
  BY FS_EmptySet DEF Init, CallsTyped
<1>5. stops \in 0..MaxStops /\ clock \in 0..MaxTime
  BY BoundsAssumption DEF Init
<1>6. CancelledTyped /\ phase \in [Buses -> Phases]
  BY FS_EmptySet DEF Init, CancelledTyped, Phases
<1> QED
  BY <1>1, <1>2, <1>3, <1>4, <1>5, <1>6 DEF Init, Types

LEMMA PlusTyped ==
  ASSUME NEW f \in [Buses -> Nat], NEW b \in Buses
  PROVE  /\ Plus(f, b) \in [Buses -> Nat]
         /\ \A d \in Buses : Plus(f, b)[d] = IF d = b THEN f[d] + 1 ELSE f[d]
BY DEF Plus

LEMMA PassTyped ==
  ASSUME Types, NEW e \in EventType, Pass(e)
  PROVE  StampsTyped' /\ MetricsTyped'
<1>1. StampsTyped /\ MetricsTyped /\ clock \in Nat
  BY BoundsAssumption DEF Types
<1> QED
  BY <1>1, PassStamps, PassMetrics

LEMMA PublishTyped ==
  ASSUME Types, NEW p \in Publishers, NEW n \in NamesOf[p], Publish(p, n)
  PROVE  Types'
<1> DEFINE e == First(p, n)
<1>1. e \in EventType /\ Pass(e) /\ calls' = calls \cup Entering(e)
  BY EventsTyped DEF Publish, First
<1> HIDE DEF e
<1>2. StampsTyped' /\ MetricsTyped'
  BY <1>1, PassTyped
<1>3. CallsTyped'
  BY <1>1, EnteringTyped, FS_Union DEF Types, CallsTyped
<1> QED
  BY <1>2, <1>3 DEF Publish, Types, QueuesTyped, CountersTyped, CancelledTyped

LEMMA ReactTyped ==
  ASSUME Types, NEW e \in tasks, React(e)
  PROVE  Types'
<1> DEFINE a == Again(e)
<1>1. e \in EventType
  BY DEF Types
<1>2. a \in EventType /\ Pass(a) /\ calls' = calls \cup Entering(a)
  BY <1>1, EventsTyped DEF React, Again
<1> HIDE DEF a
<1>3. StampsTyped' /\ MetricsTyped'
  BY <1>2, PassTyped
<1>4. CallsTyped'
  BY <1>2, EnteringTyped, FS_Union DEF Types, CallsTyped
<1> QED
  BY <1>3, <1>4 DEF React, Types, QueuesTyped, CountersTyped, CancelledTyped

LEMMA PutTyped ==
  ASSUME Types, NEW c \in calls, Put(c)
  PROVE  Types'
<1>1. c \in CallType /\ c.event \in EventType
  BY CallTyped DEF Types, CallsTyped
<1>2. QueuesTyped'
  BY <1>1, PutQueue DEF Put, Types
<1>3. CallsTyped'
  BY MovesTyped DEF Put, Types, CallsTyped, Stages
<1> QED
  BY <1>1, <1>2, <1>3 DEF Put, counters, Types, StampsTyped, CancelledTyped, CountersTyped, MetricsTyped

LEMMA SkipTyped ==
  ASSUME Types, NEW c \in calls, Skip(c)
  PROVE  Types'
<1>1. c.event.bus \in Buses
  BY CallTyped DEF Types, CallsTyped
<1>2. CallsTyped'
  BY MovesTyped DEF Skip, Types, CallsTyped, Stages
<1>3. CountersTyped'
  BY <1>1, PlusTyped DEF Skip, Types, CountersTyped
<1> QED
  BY <1>2, <1>3 DEF Skip, Types, StampsTyped, QueuesTyped, CancelledTyped, MetricsTyped

LEMMA ForwardTyped ==
  ASSUME Types, NEW c \in calls, Forward(c)
  PROVE  Types'
<1> DEFINE e == Copy(c.event)
           s == IF Verdict(e) = "enters" THEN "waiting" ELSE "returning"
<1>1. c.event \in EventType /\ c.event.bus \in Buses
  BY CallTyped DEF Types, CallsTyped
<1>2. e \in EventType /\ Pass(e) /\ calls' = Entering(e) \cup Moves(c, s)
  BY <1>1, EventsTyped DEF Forward
<1>3. s \in Stages
  BY DEF Stages
<1>4. CountersTyped'
  BY <1>1, PlusTyped DEF Forward, Types, CountersTyped
<1> HIDE DEF e, s
<1>5. StampsTyped' /\ MetricsTyped'
  BY <1>2, PassTyped
<1>6. CallsTyped'
  <2>1. Moves(c, s) \subseteq CallType /\ IsFiniteSet(Moves(c, s))
    BY <1>3, MovesTyped DEF Types
  <2>2. Entering(e) \subseteq CallType /\ IsFiniteSet(Entering(e))
    BY <1>2, EnteringTyped
  <2> QED
    BY <1>2, <2>1, <2>2, FS_Union DEF CallsTyped
<1> QED
  BY <1>4, <1>5, <1>6 DEF Forward, Types, QueuesTyped, CancelledTyped

LEMMA ReturnTypes ==
  ASSUME Types, NEW c \in calls, Return(c)
  PROVE  Types'
<1>1. CallsTyped /\ c.event.bus \in Buses
  BY CallTyped DEF Types, CallsTyped
<1>2. CallsTyped'
  BY <1>1, ReturnTyped DEF Return
<1>3. MetricsTyped'
  BY <1>1, PlusTyped DEF Return, Types, MetricsTyped
<1>4. \A b \in Buses : Cardinality({d \in Nesting(c) : d.event.bus = b}) \in Nat
  BY <1>1, NestingTyped, FS_CardinalityType
<1>5. CountersTyped'
  BY <1>4 DEF Return, Types, CountersTyped
<1> QED
  BY <1>2, <1>3, <1>5 DEF Return, Types, StampsTyped, QueuesTyped, CancelledTyped

(* The calls that are cancelled together.                                    *)
LEMMA StackTyped ==
  ASSUME CallsTyped, NEW c \in calls
  PROVE  /\ Stack(c) \subseteq calls /\ IsFiniteSet(Stack(c))
         /\ \A b \in Buses : IsFiniteSet(On(Stack(c), b)) /\ Cardinality(On(Stack(c), b)) \in Nat
<1>1. Stack(c) \in SUBSET calls
  BY DEF Stack, Nesting
<1>2. IsFiniteSet(Stack(c))
  BY <1>1, FS_Subset DEF CallsTyped
<1>3. \A b \in Buses : On(Stack(c), b) \in SUBSET Stack(c)
  BY DEF On
<1>4. \A b \in Buses : IsFiniteSet(On(Stack(c), b))
  BY <1>2, <1>3, FS_Subset
<1> QED
  BY <1>1, <1>2, <1>4, FS_CardinalityType

LEMMA CancelTyped ==
  ASSUME Types, NEW c \in calls, Cancel(c)
  PROVE  Types'
<1>1. CallsTyped /\ CancelledTyped /\ MetricsTyped
  BY DEF Types
<1>2. Stack(c) \subseteq calls /\ IsFiniteSet(Stack(c))
  BY <1>1, StackTyped
<1>3. CallsTyped'
  BY <1>1, <1>2, FS_Difference DEF Cancel, CallsTyped
<1>4. CancelledTyped'
  BY <1>1, <1>2, FS_Union DEF Cancel, CallsTyped, CancelledTyped
<1>5. MetricsTyped'
  BY <1>1, StackTyped DEF Cancel, MetricsTyped
<1> QED
  BY <1>3, <1>4, <1>5 DEF Cancel, Types, StampsTyped, QueuesTyped, CountersTyped

LEMMA DispatchTyped ==
  ASSUME Types, NEW b \in Buses, Dispatch(b)
  PROVE  Types'
<1>1. QueuesTyped' /\ Head(queue[b]) \in EventType
  BY DispatchQueue DEF Dispatch, Types
<1>2. tasks' \subseteq EventType
  BY <1>1 DEF Dispatch, Types
<1> QED
  BY <1>1, <1>2 DEF Dispatch, counters, Types, StampsTyped, CallsTyped, CancelledTyped, CountersTyped, MetricsTyped

LEMMA TypesNext == Types /\ [Next]_vars => Types'
<1> SUFFICES ASSUME Types, [Next]_vars PROVE Types'
  OBVIOUS
<1>1. ASSUME NEW p \in Publishers, NEW n \in NamesOf[p], Publish(p, n) PROVE Types'
  BY <1>1, PublishTyped
<1>2. ASSUME NEW e \in tasks, React(e) PROVE Types'
  BY <1>2, ReactTyped
<1>3. ASSUME NEW c \in calls, Step(c) PROVE Types'
  BY <1>3, PutTyped, SkipTyped, ForwardTyped, ReturnTypes DEF Step
<1>4. ASSUME NEW b \in Buses, Dispatch(b) PROVE Types'
  BY <1>4, DispatchTyped
<1>5. ASSUME NEW b \in Buses, Shift(b) PROVE Types'
  <2>1. stops' \in 0..MaxStops
    BY <1>5, BoundsAssumption DEF Shift, Stop, EndDispatch, Stopped, Start, Types
  <2>2. phase' \in [Buses -> Phases]
    BY <1>5 DEF Shift, Stop, EndDispatch, Stopped, Start, Moved, Phases, Types
  <2>3. UNCHANGED <<idle, clock, bucket, queue, tasks, calls, counters, published, cancelled, admitted>>
    BY <1>5 DEF Shift, Stop, EndDispatch, Stopped, Start, Moved
  <2> QED
    BY <2>1, <2>2, <2>3
       DEF counters, Types, StampsTyped, QueuesTyped, CallsTyped, CancelledTyped, CountersTyped, MetricsTyped
<1>8. ASSUME NEW e \in tasks, NeverReacts(e) PROVE Types'
  BY <1>8
     DEF NeverReacts, counters, Types, StampsTyped, QueuesTyped, CallsTyped, CancelledTyped, CountersTyped,
         MetricsTyped
<1>9. ASSUME NEW c \in calls, Cancel(c) PROVE Types'
  BY <1>9, CancelTyped
<1>6. CASE Tick
  BY <1>6, BoundsAssumption
     DEF Tick, counters, Types, StampsTyped, QueuesTyped, CallsTyped, CancelledTyped, CountersTyped, MetricsTyped
<1>7. CASE UNCHANGED vars
  BY <1>7
     DEF vars, counters, Types, StampsTyped, QueuesTyped, CallsTyped, CancelledTyped, CountersTyped, MetricsTyped
<1> QED
  BY <1>1, <1>2, <1>3, <1>4, <1>5, <1>6, <1>7, <1>8, <1>9 DEF Next, Shift

(* The state of two joined buses has its type.                               *)
THEOREM TypeCorrect == Spec => []TypeOK
<1>1. Types => TypeOK
  BY CallTyped DEF Types, TypeOK, QueuesTyped, CallsTyped, CancelledTyped, CountersTyped, MetricsTyped,
                   Stages, Phases
<1> QED
  BY <1>1, TypesInit, TypesNext, PTL DEF Spec

-------------------------------------------------------------------------------
(* Chains of events                                                          *)

(* What every event is that any bus accepts, and what is known of the events *)
(* that wait for a bus or for a handler.                                     *)
Sound(e) ==
  /\ Len(e.sources) <= MaxChain
  /\ \A x \in Sources : Occurs(x, e.sources) <= MaxDepth
  /\ Via(e.bus) \notin ToSet(e.sources)

Waiting == tasks \cup Queued
Underway == {c.event : c \in calls}

ChainsSound ==
  /\ \A e \in published \cup Underway : Sound(e)
  /\ Waiting \subseteq published

LEMMA OccursTyped ==
  ASSUME NEW s \in Chains, NEW x
  PROVE  Occurs(x, s) \in Nat
<1> DEFINE S == {i \in 1..Len(s) : s[i] = x}
<1>1. Len(s) \in Nat
  BY LenProperties DEF Chains
<1>2. IsFiniteSet(1..Len(s)) /\ S \in SUBSET (1..Len(s))
  BY <1>1, FS_Interval
<1> HIDE DEF S
<1>3. Cardinality(S) \in Nat
  BY <1>2, FS_Subset, FS_CardinalityType
<1> QED
  BY <1>3 DEF Occurs, S

LEMMA OccursLonger ==
  ASSUME NEW s \in Chains, NEW x \in Sources, NEW y \in Sources, y # x
  PROVE  Occurs(y, Append(s, x)) = Occurs(y, s)
<1>1. \A i \in 1..(Len(s) + 1) : Append(s, x)[i] = y <=> i \in 1..Len(s) /\ s[i] = y
  <2> SUFFICES ASSUME NEW i \in 1..(Len(s) + 1)
               PROVE  Append(s, x)[i] = y <=> i \in 1..Len(s) /\ s[i] = y
    OBVIOUS
  <2>1. i \in 1..Len(s) \/ i = Len(s) + 1
    BY Longer
  <2>2. Len(s) + 1 \notin 1..Len(s)
    BY Longer
  <2> QED
    BY <2>1, <2>2, Longer
<1>2. 1..Len(s) \subseteq 1..(Len(s) + 1)
  BY Longer
<1>3. {i \in 1..Len(Append(s, x)) : Append(s, x)[i] = y} = {i \in 1..Len(s) : s[i] = y}
  BY <1>1, <1>2, Longer
<1> QED
  BY <1>3 DEF Occurs

LEMMA SoundFirst ==
  ASSUME NEW p \in Publishers, NEW n
  PROVE  Sound(First(p, n))
<1> DEFINE e == First(p, n)
<1>1. e.sources = <<p>> /\ e.bus \in Buses
  BY PublishersAssumption DEF First, Event
<1>2. Len(e.sources) = 1 /\ ToSet(e.sources) = {p}
  BY <1>1, FirstChain
<1>3. \A x \in Sources : Occurs(x, e.sources) <= 1
  <2> TAKE x \in Sources
  <2> DEFINE S == {i \in 1..1 : e.sources[i] = x}
  <2>1. S \in SUBSET (1..1) /\ Occurs(x, e.sources) = Cardinality(S)
    BY <1>2 DEF Occurs
  <2>2. 1..1 = {1}
    OBVIOUS
  <2>3. IsFiniteSet(1..1) /\ Cardinality(1..1) = 1
    BY <2>2, FS_Singleton
  <2> HIDE DEF S
  <2> QED
    BY <2>1, <2>3, FS_Subset
<1>4. \A x \in Sources : Occurs(x, e.sources) <= MaxDepth
  <2> TAKE x \in Sources
  <2>1. Occurs(x, e.sources) \in Nat
    BY <1>1, FirstChain, OccursTyped
  <2>2. MaxDepth \in Nat \ {0}
    BY BoundsAssumption
  <2> QED
    BY <1>3, <2>1, <2>2
<1>5. 1 <= MaxChain
  BY BoundsAssumption
<1>6. Via(e.bus) # p
  BY <1>1, BusFacts
<1> QED
  BY <1>2, <1>4, <1>5, <1>6 DEF Sound

LEMMA SoundLonger ==
  ASSUME NEW e \in EventType, Sound(e), NEW x \in Sources, NEW b \in Buses, x # Via(b),
         ~Looping(Append(e.sources, x)), Via(b) \notin ToSet(e.sources)
  PROVE  Sound(Event(b, e.name, Append(e.sources, x)))
<1> DEFINE s == e.sources
           a == Append(s, x)
<1>1. s \in Chains
  BY DEF EventType
<1>2. Len(a) \in Nat /\ Len(a) > 1 /\ Last(a) = x /\ ToSet(a) = ToSet(s) \cup {x}
  BY <1>1, Longer
<1>3. ~(Len(a) > MaxChain) /\ ~(Occurs(x, a) > MaxDepth)
  BY <1>2 DEF Looping, TooLong, TooOften
<1>4. Len(a) <= MaxChain
  BY <1>2, <1>3, BoundsAssumption
<1>5. Occurs(x, a) <= MaxDepth
  <2>1. Occurs(x, a) \in Nat
    BY <1>1, Longer, OccursTyped
  <2> QED
    BY <1>3, <2>1, BoundsAssumption
<1>6. ASSUME NEW y \in Sources PROVE Occurs(y, a) <= MaxDepth
  BY <1>1, <1>5, OccursLonger DEF Sound
<1>7. Via(b) \notin ToSet(a)
  BY <1>2
<1> HIDE DEF a
<1> QED
  BY <1>4, <1>6, <1>7 DEF Sound, Event, a

(* What the actions do to the events that are known and to those that wait.  *)
LEMMA EnteringFacts ==
  ASSUME NEW e \in EventType
  PROVE  /\ Verdict(e) = "enters" => Entering(e) = {Call(e, "putting")} /\ ~Looping(e.sources)
         /\ Verdict(e) # "enters" => Entering(e) = {}
BY DEF Entering, Verdict

LEMMA PublishEffect ==
  ASSUME Types, NEW p \in Publishers, NEW n \in NamesOf[p], Publish(p, n)
  PROVE  /\ First(p, n) \in EventType /\ p \in idle /\ idle' = idle \ {p}
         /\ calls' = calls \cup Entering(First(p, n))
         /\ published' = published /\ cancelled' = cancelled /\ Waiting' = Waiting
BY EventsTyped DEF Publish, First, Waiting, Queued

LEMMA ReactEffect ==
  ASSUME Types, NEW e \in tasks, React(e)
  PROVE  /\ e \in EventType /\ Again(e) \in EventType /\ e \in Waiting
         /\ calls' = calls \cup Entering(Again(e))
         /\ published' = published /\ cancelled' = cancelled /\ Waiting' = (tasks \ {e}) \cup Queued /\ Queued' = Queued
BY EventsTyped DEF React, Again, Waiting, Queued, Types

LEMMA PutEffect ==
  ASSUME Types, NEW c \in calls, Put(c)
  PROVE  /\ c.event \in EventType /\ c.stage = "putting" /\ calls' = Moves(c, "forwarding")
         /\ published' = published \cup {c.event} /\ cancelled' = cancelled
         /\ tasks' = tasks /\ Queued' = Queued \cup {c.event}
         /\ QueuesDistinct /\ c.event \notin Queued => QueuesDistinct'
<1>1. c.event \in EventType
  BY CallTyped DEF Types, CallsTyped
<1> QED
  BY <1>1, PutQueue DEF Put, Types

LEMMA ForwardEffect ==
  ASSUME Types, NEW c \in calls, Forward(c)
  PROVE  /\ c.event \in EventType /\ Copy(c.event) \in EventType /\ c.stage = "forwarding"
         /\ ~Skips(c.event)
         /\ calls' = Entering(Copy(c.event)) \cup
              Moves(c, IF Verdict(Copy(c.event)) = "enters" THEN "waiting" ELSE "returning")
         /\ published' = published /\ cancelled' = cancelled /\ Waiting' = Waiting
<1>1. c.event \in EventType
  BY CallTyped DEF Types, CallsTyped
<1> QED
  BY <1>1, EventsTyped DEF Forward, Waiting, Queued

LEMMA DispatchEffect ==
  ASSUME Types, NEW b \in Buses, Dispatch(b)
  PROVE  /\ calls' = calls /\ published' = published /\ cancelled' = cancelled
         /\ Head(queue[b]) \in Queued /\ Queued' \subseteq Queued
         /\ tasks' \subseteq tasks \cup {Head(queue[b])}
         /\ QueuesDistinct => QueuesDistinct' /\ Head(queue[b]) \notin Queued'
<1>1. tasks' \subseteq tasks \cup {Head(queue[b])}
  BY DEF Dispatch
<1> QED
  BY <1>1, DispatchQueue DEF Dispatch, Types

LEMMA UnderwayMoves ==
  ASSUME NEW c \in calls, NEW s
  PROVE  {d.event : d \in Moves(c, s)} = Underway
<1>1. Call(c.event, s).event = c.event
  BY DEF Call
<1> QED
  BY <1>1 DEF Moves, Underway

LEMMA UnderwayGrows ==
  ASSUME NEW C, NEW x
  PROVE  {c.event : c \in C \cup {Call(x, "putting")}} = {c.event : c \in C} \cup {x}
<1> DEFINE L == {c.event : c \in C \cup {Call(x, "putting")}}
           R == {c.event : c \in C} \cup {x}
<1>1. Call(x, "putting").event = x
  BY DEF Call
<1>2. \A e \in L : e \in R
  BY <1>1
<1>3. \A e \in {c.event : c \in C} : e \in L
  OBVIOUS
<1>4. x \in L
  BY <1>1
<1> QED
  BY <1>2, <1>3, <1>4

LEMMA UnderwayReturns ==
  ASSUME NEW c \in calls, Return(c)
  PROVE  Underway' \subseteq Underway
<1>1. Nesting(c) \subseteq calls /\ \A d \in Nesting(c) : Call(d.event, "returning").event = d.event
  BY DEF Nesting, Call
<1>2. calls' = (calls \ ({c} \cup Nesting(c))) \cup {Call(d.event, "returning") : d \in Nesting(c)}
  BY DEF Return
<1> QED
  BY <1>1, <1>2 DEF Underway

-------------------------------------------------------------------------------

LEMMA ChainsInit == Init => ChainsSound
BY DEF Init, ChainsSound, Waiting, Underway, Queued, ToSet

LEMMA ChainsNext == Types /\ ChainsSound /\ [Next]_vars => ChainsSound'
<1> SUFFICES ASSUME Types, ChainsSound, [Next]_vars PROVE ChainsSound'
  OBVIOUS
<1>1. ASSUME NEW p \in Publishers, NEW n \in NamesOf[p], Publish(p, n) PROVE ChainsSound'
  <2>1. Underway' \subseteq Underway \cup {First(p, n)}
    BY <1>1, PublishEffect, EnteringFacts, CallTyped DEF Underway, Stages
  <2> QED
    BY <1>1, <2>1, PublishEffect, SoundFirst DEF ChainsSound
<1>2. ASSUME NEW e \in tasks, React(e) PROVE ChainsSound'
  <2>1. e \in EventType /\ Again(e) \in EventType /\ e \in Waiting /\ Sound(e) /\ e.bus \in Buses
    BY <1>2, ReactEffect DEF ChainsSound, EventType
  <2>2. CASE Verdict(Again(e)) = "enters"
    <3>1. ~Looping(Append(e.sources, Handler(e.bus)))
      BY <2>1, <2>2, EnteringFacts DEF Again, Event
    <3>2. Handler(e.bus) \in Sources /\ Handler(e.bus) # Via(e.bus) /\ Via(e.bus) \notin ToSet(e.sources)
      BY <2>1, BusFacts DEF Sound
    <3>3. Sound(Again(e))
      BY <2>1, <3>1, <3>2, SoundLonger DEF Again
    <3>4. Underway' \subseteq Underway \cup {Again(e)}
      BY <1>2, <2>1, ReactEffect, EnteringFacts, CallTyped DEF Underway, Stages
    <3> QED
      BY <1>2, <3>3, <3>4, ReactEffect DEF ChainsSound, Waiting
  <2>3. CASE Verdict(Again(e)) # "enters"
    <3>1. Underway' = Underway
      BY <1>2, <2>1, <2>3, ReactEffect, EnteringFacts DEF Underway
    <3> QED
      BY <1>2, <3>1, ReactEffect DEF ChainsSound, Waiting
  <2> QED
    BY <2>2, <2>3
<1>3. ASSUME NEW c \in calls, Put(c) PROVE ChainsSound'
  <2>1. Underway' = Underway
    BY <1>3, PutEffect, UnderwayMoves DEF Underway
  <2>2. c.event \in Underway
    BY DEF Underway
  <2> QED
    BY <1>3, <2>1, <2>2, PutEffect DEF ChainsSound, Waiting
<1>4. ASSUME NEW c \in calls, Skip(c) PROVE ChainsSound'
  <2>1. Underway' = Underway
    BY <1>4, UnderwayMoves DEF Underway, Skip
  <2> QED
    BY <1>4, <2>1 DEF ChainsSound, Waiting, Queued, Skip
<1>5. ASSUME NEW c \in calls, Forward(c) PROVE ChainsSound'
  <2> DEFINE e == c.event
  <2>1. e \in EventType /\ Copy(e) \in EventType /\ Sound(e) /\ e.bus \in Buses
    BY <1>5, ForwardEffect DEF ChainsSound, EventType, Underway
  <2>2. CASE Verdict(Copy(e)) = "enters"
    <3>1. ~Looping(Append(e.sources, Via(e.bus)))
      BY <2>1, <2>2, EnteringFacts DEF Copy, Event
    <3>2. Via(e.bus) \in Sources /\ Via(e.bus) # Via(Other(e.bus)) /\ Other(e.bus) \in Buses
      BY <2>1, BusFacts
    <3>3. Via(Other(e.bus)) \notin ToSet(e.sources)
      <4>1. ~Contains(e.sources, Via(Other(e.bus)))
        BY <1>5, ForwardEffect DEF Skips, FromOther
      <4>2. e.sources \in Seq(Sources)
        BY <2>1 DEF EventType, Chains
      <4> QED
        BY <4>1, <4>2, SeqFacts DEF Contains
    <3>4. Sound(Copy(e))
      BY <2>1, <3>1, <3>2, <3>3, SoundLonger DEF Copy
    <3>5. Underway' \subseteq Underway \cup {Copy(e)}
      <4>1. calls' = {Call(Copy(e), "putting")} \cup Moves(c, "waiting")
        BY <1>5, <2>1, <2>2, ForwardEffect, EnteringFacts
      <4>2. Call(Copy(e), "putting").event = Copy(e)
        BY DEF Call
      <4>3. \A d \in Moves(c, "waiting") : d.event \in Underway
        BY UnderwayMoves
      <4>4. \A d \in calls' : d.event \in Underway \cup {Copy(e)}
        BY <4>1, <4>2, <4>3
      <4> QED
        BY <4>4 DEF Underway
    <3> QED
      BY <1>5, <3>4, <3>5, ForwardEffect DEF ChainsSound
  <2>3. CASE Verdict(Copy(e)) # "enters"
    <3>1. calls' = Moves(c, "returning")
      BY <1>5, <2>1, <2>3, ForwardEffect, EnteringFacts
    <3>2. Underway' = Underway
      BY <3>1, UnderwayMoves DEF Underway
    <3> QED
      BY <1>5, <3>2, ForwardEffect DEF ChainsSound
  <2> QED
    BY <2>2, <2>3
<1>6. ASSUME NEW c \in calls, Return(c) PROVE ChainsSound'
  BY <1>6, UnderwayReturns DEF ChainsSound, Waiting, Queued, Return
<1>7. ASSUME NEW b \in Buses, Dispatch(b) PROVE ChainsSound'
  BY <1>7, DispatchEffect DEF ChainsSound, Waiting, Underway
<1>8. ASSUME NEW b \in Buses, Shift(b) PROVE ChainsSound'
  BY <1>8 DEF Shift, Stop, EndDispatch, Stopped, Start, Moved, ChainsSound, Waiting, Queued, Underway
<1>9. CASE Tick \/ UNCHANGED vars
  BY <1>9 DEF Tick, vars, ChainsSound, Waiting, Queued, Underway
<1>10. ASSUME NEW c \in calls, Cancel(c) PROVE ChainsSound'
  BY <1>10 DEF Cancel, ChainsSound, Waiting, Queued, Underway
<1>11. ASSUME NEW e \in tasks, NeverReacts(e) PROVE ChainsSound'
  BY <1>11 DEF NeverReacts, ChainsSound, Waiting, Queued, Underway
<1> QED
  BY <1>1, <1>2, <1>3, <1>4, <1>5, <1>6, <1>7, <1>8, <1>9, <1>10, <1>11 DEF Next, Step, Shift

(* An event does not go back where it came from, whatever the handlers on    *)
(* the way make of it (event_forward.py 259-262).                            *)
THEOREM EchoCorrect == Spec => []NoEcho
<1>1. Types /\ ChainsSound => NoEcho
  <2> SUFFICES ASSUME Types, ChainsSound, NEW e \in published PROVE ~({"a_to_b", "b_to_a"} \subseteq ToSet(e.sources))
    BY DEF NoEcho
  <2>1. e.bus \in Buses /\ Via(e.bus) \notin ToSet(e.sources)
    BY DEF Types, EventType, ChainsSound, Sound
  <2> QED
    BY <2>1 DEF Buses, Via
<1> QED
  BY <1>1, TypesInit, TypesNext, ChainsInit, ChainsNext, PTL DEF Spec

(* The chains of all events are as short as the guards promise, over both    *)
(* buses together (recursion_guard.py 78-94).                                *)
THEOREM BoundCorrect == Spec => []ChainsBounded
<1>1. Types /\ ChainsSound => ChainsBounded
  <2> SUFFICES ASSUME Types, ChainsSound, NEW e \in published
               PROVE  /\ Len(e.sources) <= MaxChain
                      /\ \A i \in 1..Len(e.sources) : Occurs(e.sources[i], e.sources) <= MaxDepth
    BY DEF ChainsBounded
  <2>1. e.sources \in Seq(Sources) /\ Sound(e)
    BY DEF Types, EventType, Chains, ChainsSound
  <2> QED
    BY <2>1, SeqFacts DEF Sound
<1> QED
  BY <1>1, TypesInit, TypesNext, ChainsInit, ChainsNext, PTL DEF Spec

-------------------------------------------------------------------------------
(* No event is published twice                                               *)

Lost == {c.event : c \in cancelled}
Known == published \cup Underway \cup Lost

OneCall(C) == \A c, d \in C : c.event = d.event => c = d
PutYet(C, P) == \A c \in C : c.stage = "putting" <=> c.event \notin P

(* A first publish is still to come, and so is every copy that a call or a   *)
(* handler has yet to make.                                                  *)
FirstsAhead(I, K) == \A e \in K : \A p \in I : e.sources # <<p>>
CopiesAhead(C, P, K) ==
  \A e \in EventType : Copy(e) \in K => e \in P /\ \A c \in C : c.event = e => c.stage # "forwarding"
AgainsAhead(W, P, K) == \A e \in EventType : Again(e) \in K => e \in P /\ e \notin W

CallsApart ==
  /\ OneCall(calls) /\ PutYet(calls, published)
  /\ FirstsAhead(idle, Known)
  /\ CopiesAhead(calls, published, Known)
  /\ AgainsAhead(Waiting, published, Known)
  /\ QueuesDistinct /\ tasks \cap Queued = {}

LEMMA MadeApart ==
  /\ \A e, f \in EventType : /\ Copy(e) = Copy(f) => e = f
                             /\ Again(e) = Again(f) => e = f
                             /\ Copy(e) # Again(f)
  /\ \A e \in EventType : \A p \in Publishers : /\ Copy(e).sources # <<p>>
                                                /\ Again(e).sources # <<p>>
<1>1. ASSUME NEW e \in EventType
      PROVE  /\ e.bus \in Buses /\ e.sources \in Chains
             /\ e = Event(e.bus, e.name, e.sources)
             /\ Copy(e).bus = Other(e.bus) /\ Copy(e).name = e.name
             /\ Copy(e).sources = Append(e.sources, Via(e.bus))
             /\ Again(e).bus = e.bus /\ Again(e).name = e.name
             /\ Again(e).sources = Append(e.sources, Handler(e.bus))
             /\ Via(e.bus) \in Sources /\ Handler(e.bus) \in Sources
  BY BusFacts DEF EventType, Event, Copy, Again
<1>2. ASSUME NEW e \in EventType, NEW f \in EventType, Copy(e) = Copy(f) PROVE e = f
  <2>1. e.sources = f.sources
    BY <1>1, <1>2, LongerInjective
  <2>2. e.bus = f.bus
    BY <1>1, <1>2, BusFacts
  <2> QED
    BY <1>1, <1>2, <2>1, <2>2
<1>3. ASSUME NEW e \in EventType, NEW f \in EventType, Again(e) = Again(f) PROVE e = f
  <2>1. e.sources = f.sources
    BY <1>1, <1>3, LongerInjective
  <2> QED
    BY <1>1, <1>3, <2>1
<1>4. ASSUME NEW e \in EventType, NEW f \in EventType, Copy(e) = Again(f) PROVE FALSE
  <2>1. Via(e.bus) = Handler(f.bus)
    BY <1>1, <1>4, LongerInjective
  <2> QED
    BY <1>1, <2>1, BusFacts
<1>5. ASSUME NEW e \in EventType, NEW p \in Publishers
      PROVE  Copy(e).sources # <<p>> /\ Again(e).sources # <<p>>
  <2>1. Len(Copy(e).sources) # 1 /\ Len(Again(e).sources) # 1
    BY <1>1, Longer
  <2>2. Len(<<p>>) = 1
    BY FirstChain
  <2> QED
    BY <2>1, <2>2, ZenonT(20)
<1> QED
  BY <1>2, <1>3, <1>4, <1>5

(* A call more, of an event that is new.                                     *)
LEMMA CallAdded ==
  ASSUME NEW C, NEW P, NEW x, OneCall(C), PutYet(C, P), x \notin P, \A c \in C : c.event # x
  PROVE  OneCall(C \cup {Call(x, "putting")}) /\ PutYet(C \cup {Call(x, "putting")}, P)
BY DEF OneCall, PutYet, Call

(* A call that goes on, past the queue.                                      *)
LEMMA CallMoved ==
  ASSUME NEW c \in calls, NEW s, s # "putting", OneCall(calls), PutYet(calls, published)
  PROVE  OneCall(Moves(c, s)) /\ PutYet(Moves(c, s), published \cup {c.event})
BY DEF OneCall, PutYet, Moves, Call

LEMMA CallReturned ==
  ASSUME NEW c \in calls, Return(c), OneCall(calls), PutYet(calls, published)
  PROVE  /\ OneCall(calls') /\ PutYet(calls', published)
         /\ \A d \in calls' : d.stage # "returning" => d \in calls
<1> DEFINE N == Nesting(c)
           R == {Call(d.event, "returning") : d \in N}
<1>1. calls' = (calls \ ({c} \cup N)) \cup R
  BY DEF Return
<1>2. \A d \in N : d \in calls /\ d.stage = "waiting"
  BY DEF Nesting
<1>3. \A r \in R : \E d \in N : r = Call(d.event, "returning") /\ r.event = d.event /\ r.stage = "returning"
  BY DEF Call
<1> HIDE DEF N, R
<1>4. OneCall(calls')
  <2> SUFFICES ASSUME NEW a \in calls', NEW b \in calls', a.event = b.event PROVE a = b
    BY DEF OneCall
  <2>1. CASE a \in R /\ b \in R
    BY <1>3, <2>1
  <2>2. CASE a \in R /\ b \in calls \ N
    BY <1>2, <1>3, <2>2 DEF OneCall
  <2>3. CASE a \in calls \ N /\ b \in R
    BY <1>2, <1>3, <2>3 DEF OneCall
  <2>4. CASE a \in calls /\ b \in calls
    BY <2>4 DEF OneCall
  <2> QED
    BY <1>1, <2>1, <2>2, <2>3, <2>4
<1>5. PutYet(calls', published)
  <2>1. \A r \in R : r.stage = "returning" /\ r.event \in published
    BY <1>2, <1>3 DEF PutYet
  <2> QED
    BY <1>1, <2>1 DEF PutYet
<1>6. \A d \in calls' : d.stage # "returning" => d \in calls
  BY <1>1, <1>3
<1> QED
  BY <1>4, <1>5, <1>6

LEMMA ApartInit == Init => CallsApart
BY DEF Init, CallsApart, OneCall, PutYet, FirstsAhead, CopiesAhead, AgainsAhead, Known, Underway, Lost,
       Waiting, Queued, QueuesDistinct, NoRepeat, ToSet

(* An event that is new enters a bus.                                        *)
NewIn(x, C, P, I, W, K) ==
  /\ x \notin K /\ \A p \in I : x.sources # <<p>>
  /\ \A f \in EventType : Copy(f) = x => f \in P /\ \A c \in C : c.event = f => c.stage # "forwarding"
  /\ \A f \in EventType : Again(f) = x => f \in P /\ f \notin W

LEMMA Enters ==
  ASSUME NEW C, NEW P, NEW I, NEW W, NEW K, P \subseteq K, \A c \in C : c.event \in K,
         OneCall(C), PutYet(C, P), FirstsAhead(I, K), CopiesAhead(C, P, K), AgainsAhead(W, P, K),
         NEW x, NewIn(x, C, P, I, W, K)
  PROVE  /\ OneCall(C \cup {Call(x, "putting")}) /\ PutYet(C \cup {Call(x, "putting")}, P)
         /\ FirstsAhead(I, K \cup {x}) /\ CopiesAhead(C \cup {Call(x, "putting")}, P, K \cup {x})
         /\ AgainsAhead(W, P, K \cup {x})
<1>1. OneCall(C \cup {Call(x, "putting")}) /\ PutYet(C \cup {Call(x, "putting")}, P)
  BY CallAdded DEF NewIn
<1>2. FirstsAhead(I, K \cup {x})
  BY DEF NewIn, FirstsAhead
<1>3. Call(x, "putting").stage = "putting"
  BY DEF Call
<1>4. CopiesAhead(C \cup {Call(x, "putting")}, P, K \cup {x})
  BY <1>3 DEF NewIn, CopiesAhead
<1>5. AgainsAhead(W, P, K \cup {x})
  BY DEF NewIn, AgainsAhead
<1> QED
  BY <1>1, <1>2, <1>4, <1>5

LEMMA KnownFacts ==
  published \subseteq Known /\ \A c \in calls : c.event \in Known
BY DEF Known, Underway

LEMMA EntersPublish ==
  ASSUME Types, CallsApart, NEW p \in Publishers, NEW n \in NamesOf[p], Publish(p, n)
  PROVE  NewIn(First(p, n), calls, published, idle', Waiting, Known)
<1>1. First(p, n).sources = <<p>>
  BY DEF First, Event
<1>2. First(p, n) \notin Known /\ p \in idle /\ idle' = idle \ {p} /\ idle \subseteq Publishers
  BY <1>1, PublishEffect DEF CallsApart, FirstsAhead, Types
<1>3. \A q \in idle' : <<q>> # <<p>>
  BY <1>2
<1> QED
  BY <1>1, <1>2, <1>3, MadeApart DEF NewIn

LEMMA EntersReact ==
  ASSUME Types, ChainsSound, CallsApart, NEW e \in tasks, React(e)
  PROVE  /\ NewIn(Again(e), calls, published, idle, Waiting', Known)
         /\ Waiting' = Waiting \ {e} /\ idle' = idle
<1>1. e \in EventType /\ e \in Waiting /\ e \in published
  BY ReactEffect DEF ChainsSound
<1>2. Waiting' = Waiting \ {e} /\ idle' = idle
  BY ReactEffect DEF CallsApart, Waiting, React
<1>3. Again(e) \notin Known
  BY <1>1 DEF CallsApart, AgainsAhead
<1>4. \A p \in idle : Again(e).sources # <<p>>
  BY <1>1, MadeApart DEF Types
<1> QED
  BY <1>1, <1>2, <1>3, <1>4, MadeApart DEF NewIn

LEMMA EntersForward ==
  ASSUME Types, CallsApart, NEW c \in calls, Forward(c), NEW s \in {"waiting", "returning"}
  PROVE  NewIn(Copy(c.event), Moves(c, s), published, idle, Waiting, Known)
<1>1. c.event \in EventType /\ c.stage = "forwarding"
  BY ForwardEffect
<1>2. Copy(c.event) \notin Known /\ c.event \in published
  BY <1>1 DEF CallsApart, CopiesAhead, PutYet
<1>3. \A d \in Moves(c, s) : d.event = c.event => d.stage # "forwarding"
  BY DEF CallsApart, OneCall, Moves, Call
<1>4. \A p \in idle : Copy(c.event).sources # <<p>>
  BY <1>1, MadeApart DEF Types
<1> QED
  BY <1>1, <1>2, <1>3, <1>4, MadeApart DEF NewIn

LEMMA MovedApart ==
  ASSUME CallsApart, NEW c \in calls, c.stage # "putting", NEW s \in {"waiting", "returning"}
  PROVE  /\ OneCall(Moves(c, s)) /\ PutYet(Moves(c, s), published)
         /\ CopiesAhead(Moves(c, s), published, Known) /\ \A d \in Moves(c, s) : d.event \in Known
<1>1. c.event \in published /\ published \cup {c.event} = published
  BY DEF CallsApart, PutYet
<1>2. OneCall(Moves(c, s)) /\ PutYet(Moves(c, s), published)
  BY <1>1, CallMoved DEF CallsApart
<1>3. CopiesAhead(Moves(c, s), published, Known)
  BY DEF CallsApart, CopiesAhead, Moves, Call
<1>4. \A d \in Moves(c, s) : d.event \in Known
  BY UnderwayMoves DEF Known
<1> QED
  BY <1>2, <1>3, <1>4

LEMMA ApartNext == Types /\ ChainsSound /\ CallsApart /\ [Next]_vars => CallsApart'
<1> SUFFICES ASSUME Types, ChainsSound, CallsApart, [Next]_vars PROVE CallsApart'
  OBVIOUS
<1>1. ASSUME NEW p \in Publishers, NEW n \in NamesOf[p], Publish(p, n) PROVE CallsApart'
  <2> DEFINE x == First(p, n)
  <2>1. /\ x \in EventType /\ idle' = idle \ {p} /\ calls' = calls \cup Entering(x)
        /\ published' = published /\ cancelled' = cancelled /\ Waiting' = Waiting /\ tasks' = tasks /\ queue' = queue
    BY <1>1, PublishEffect DEF Publish
  <2>2. NewIn(x, calls, published, idle', Waiting, Known)
    BY <1>1, EntersPublish
  <2>3. FirstsAhead(idle', Known)
    BY <2>1 DEF CallsApart, FirstsAhead
  <2> HIDE DEF x
  <2>4. QueuesDistinct' /\ tasks' \cap Queued' = {}
    BY <2>1 DEF CallsApart, QueuesDistinct, Queued
  <2>5. CASE Verdict(x) = "enters"
    <3>1. calls' = calls \cup {Call(x, "putting")}
      BY <2>1, <2>5, EnteringFacts
    <3>2. Known' = Known \cup {x}
      <4>1. Underway' = Underway \cup {x}
        BY <3>1, UnderwayGrows DEF Underway
      <4> QED
        BY <2>1, <4>1 DEF Known, Lost
    <3>3. /\ OneCall(calls') /\ PutYet(calls', published) /\ FirstsAhead(idle', Known')
          /\ CopiesAhead(calls', published, Known') /\ AgainsAhead(Waiting, published, Known')
      BY <2>2, <2>3, <3>1, <3>2, KnownFacts, Enters DEF CallsApart
    <3> QED
      BY <2>1, <2>4, <3>3 DEF CallsApart
  <2>6. CASE Verdict(x) # "enters"
    <3>1. calls' = calls /\ Known' = Known
      BY <2>1, <2>6, EnteringFacts DEF Known, Underway, Lost
    <3> QED
      BY <2>1, <2>3, <2>4, <3>1 DEF CallsApart
  <2> QED
    BY <2>5, <2>6
<1>2. ASSUME NEW e \in tasks, React(e) PROVE CallsApart'
  <2> DEFINE x == Again(e)
  <2>1. /\ x \in EventType /\ calls' = calls \cup Entering(x)
        /\ published' = published /\ cancelled' = cancelled /\ tasks' = tasks \ {e} /\ queue' = queue
    BY <1>2, ReactEffect DEF React
  <2>2. /\ NewIn(x, calls, published, idle, Waiting', Known)
        /\ Waiting' = Waiting \ {e} /\ idle' = idle
    BY <1>2, EntersReact
  <2>3. AgainsAhead(Waiting', published, Known)
    BY <2>2 DEF CallsApart, AgainsAhead
  <2> HIDE DEF x
  <2>4. QueuesDistinct' /\ tasks' \cap Queued' = {}
    BY <2>1 DEF CallsApart, QueuesDistinct, Queued
  <2>5. CASE Verdict(x) = "enters"
    <3>1. calls' = calls \cup {Call(x, "putting")}
      BY <2>1, <2>5, EnteringFacts
    <3>2. Known' = Known \cup {x}
      <4>1. Underway' = Underway \cup {x}
        BY <3>1, UnderwayGrows DEF Underway
      <4> QED
        BY <2>1, <4>1 DEF Known, Lost
    <3>3. /\ OneCall(calls') /\ PutYet(calls', published) /\ FirstsAhead(idle, Known')
          /\ CopiesAhead(calls', published, Known') /\ AgainsAhead(Waiting', published, Known')
      BY <2>2, <2>3, <3>1, <3>2, KnownFacts, Enters DEF CallsApart
    <3> QED
      BY <2>1, <2>2, <2>4, <3>3 DEF CallsApart
  <2>6. CASE Verdict(x) # "enters"
    <3>1. calls' = calls /\ Known' = Known
      BY <2>1, <2>6, EnteringFacts DEF Known, Underway, Lost
    <3> QED
      BY <2>1, <2>2, <2>3, <2>4, <3>1 DEF CallsApart
  <2> QED
    BY <2>5, <2>6
<1>3. ASSUME NEW c \in calls, Put(c) PROVE CallsApart'
  <2> DEFINE e == c.event
  <2>1. /\ c.stage = "putting" /\ calls' = Moves(c, "forwarding") /\ published' = published \cup {e}
        /\ tasks' = tasks /\ Queued' = Queued \cup {e} /\ UNCHANGED <<idle, cancelled>>
        /\ QueuesDistinct /\ e \notin Queued => QueuesDistinct'
    BY <1>3, PutEffect DEF Put
  <2>2. e \notin published /\ e \notin Waiting
    BY <2>1 DEF CallsApart, PutYet, ChainsSound
  <2>3. Known' = Known
    <3>1. Underway' = Underway /\ e \in Underway
      BY <2>1, UnderwayMoves DEF Underway
    <3> QED
      BY <2>1, <3>1 DEF Known, Lost
  <2>4. OneCall(calls') /\ PutYet(calls', published')
    BY <2>1, CallMoved DEF CallsApart
  <2>5. CopiesAhead(calls', published', Known)
    <3> SUFFICES ASSUME NEW f \in EventType, Copy(f) \in Known
                 PROVE  f \in published' /\ \A d \in calls' : d.event = f => d.stage # "forwarding"
      BY DEF CopiesAhead
    <3>1. f \in published /\ f # e /\ \A d \in calls : d.event = f => d.stage # "forwarding"
      BY <2>2 DEF CallsApart, CopiesAhead
    <3> QED
      BY <2>1, <3>1 DEF Moves, Call
  <2>6. AgainsAhead(Waiting', published', Known)
    BY <2>1, <2>2 DEF CallsApart, AgainsAhead, Waiting
  <2>7. QueuesDistinct' /\ tasks' \cap Queued' = {}
    BY <2>1, <2>2 DEF CallsApart, Waiting
  <2> QED
    BY <2>1, <2>3, <2>4, <2>5, <2>6, <2>7 DEF CallsApart
<1>4. ASSUME NEW c \in calls, Skip(c) PROVE CallsApart'
  <2>1. c.stage # "putting" /\ calls' = Moves(c, "returning") /\ UNCHANGED <<published, cancelled, tasks, queue, idle>>
    BY <1>4 DEF Skip
  <2>2. Known' = Known /\ Waiting' = Waiting /\ Queued' = Queued
    BY <2>1, UnderwayMoves DEF Known, Underway, Lost, Waiting, Queued
  <2> QED
    BY <2>1, <2>2, MovedApart DEF CallsApart, QueuesDistinct
<1>5. ASSUME NEW c \in calls, Forward(c) PROVE CallsApart'
  <2> DEFINE x == Copy(c.event)
             s == IF Verdict(x) = "enters" THEN "waiting" ELSE "returning"
             M == Moves(c, s)
  <2>1. /\ x \in EventType /\ c.stage # "putting" /\ calls' = Entering(x) \cup M
        /\ Waiting' = Waiting /\ UNCHANGED <<published, cancelled, tasks, queue, idle>>
    BY <1>5, ForwardEffect DEF Forward
  <2>2. s \in {"waiting", "returning"}
    OBVIOUS
  <2>3. NewIn(x, M, published, idle, Waiting, Known)
    BY <1>5, <2>2, EntersForward
  <2>4. /\ OneCall(M) /\ PutYet(M, published) /\ CopiesAhead(M, published, Known)
        /\ \A d \in M : d.event \in Known
    BY <2>1, <2>2, MovedApart
  <2>5. {d.event : d \in M} = Underway
    BY UnderwayMoves
  <2> HIDE DEF x, s, M
  <2>6. QueuesDistinct' /\ tasks' \cap Queued' = {}
    BY <2>1 DEF CallsApart, QueuesDistinct, Queued
  <2>7. CASE Verdict(x) = "enters"
    <3>1. calls' = M \cup {Call(x, "putting")}
      BY <2>1, <2>7, EnteringFacts
    <3>2. Underway' = Underway \cup {x}
      BY <2>5, <3>1, UnderwayGrows DEF Underway
    <3>3. Known' = Known \cup {x}
      BY <2>1, <3>2 DEF Known, Lost
    <3>4. /\ OneCall(calls') /\ PutYet(calls', published) /\ FirstsAhead(idle, Known')
          /\ CopiesAhead(calls', published, Known') /\ AgainsAhead(Waiting, published, Known')
      BY <2>3, <2>4, <3>1, <3>3, KnownFacts, Enters DEF CallsApart
    <3> QED
      BY <2>1, <2>6, <3>4 DEF CallsApart
  <2>8. CASE Verdict(x) # "enters"
    <3>1. calls' = M
      BY <2>1, <2>8, EnteringFacts
    <3>2. Known' = Known
      BY <2>1, <2>5, <3>1 DEF Known, Underway, Lost
    <3> QED
      BY <2>1, <2>4, <2>6, <3>1, <3>2 DEF CallsApart
  <2> QED
    BY <2>7, <2>8
<1>6. ASSUME NEW c \in calls, Return(c) PROVE CallsApart'
  <2>1. UNCHANGED <<published, cancelled, tasks, queue, idle>>
    BY <1>6 DEF Return
  <2>2. Known' \subseteq Known /\ Waiting' = Waiting /\ Queued' = Queued
    BY <1>6, <2>1, UnderwayReturns DEF Known, Lost, Waiting, Queued
  <2>3. OneCall(calls') /\ PutYet(calls', published) /\ \A d \in calls' : d.stage # "returning" => d \in calls
    BY <1>6, CallReturned DEF CallsApart
  <2>4. CopiesAhead(calls', published, Known')
    BY <2>2, <2>3 DEF CallsApart, CopiesAhead
  <2>5. FirstsAhead(idle, Known') /\ AgainsAhead(Waiting, published, Known')
    BY <2>2 DEF CallsApart, FirstsAhead, AgainsAhead
  <2> QED
    BY <2>1, <2>2, <2>3, <2>4, <2>5 DEF CallsApart, QueuesDistinct
<1>7. ASSUME NEW b \in Buses, Dispatch(b) PROVE CallsApart'
  <2>1. UNCHANGED <<calls, published, cancelled, idle>>
    BY <1>7 DEF Dispatch
  <2>2. Known' = Known
    BY <2>1 DEF Known, Underway, Lost
  <2>3. Waiting' \subseteq Waiting /\ QueuesDistinct' /\ tasks' \cap Queued' = {}
    BY <1>7, DispatchEffect DEF CallsApart, Waiting
  <2>4. AgainsAhead(Waiting', published, Known)
    BY <2>3 DEF CallsApart, AgainsAhead
  <2> QED
    BY <2>1, <2>2, <2>3, <2>4 DEF CallsApart
<1>8. ASSUME UNCHANGED <<idle, tasks, queue, calls, published, cancelled>> PROVE CallsApart'
  BY <1>8 DEF CallsApart, Known, Underway, Lost, Waiting, Queued, QueuesDistinct
<1>9. ASSUME NEW b \in Buses, Shift(b) PROVE CallsApart'
  BY <1>8, <1>9 DEF Shift, Stop, EndDispatch, Stopped, Start, Moved
<1>10. CASE Tick \/ UNCHANGED vars
  BY <1>8, <1>10 DEF Tick, vars
<1>11. ASSUME NEW c \in calls, Cancel(c) PROVE CallsApart'
  <2>1. /\ calls' = calls \ Stack(c) /\ cancelled' = cancelled \cup Stack(c) /\ Stack(c) \subseteq calls
        /\ UNCHANGED <<idle, tasks, queue, published>>
    BY <1>11 DEF Cancel, Stack, Nesting
  <2>2. Known' = Known
    BY <2>1 DEF Known, Underway, Lost
  <2>3. Queued' = Queued /\ Waiting' = Waiting /\ QueuesDistinct'
    BY <2>1 DEF Queued, Waiting, CallsApart, QueuesDistinct
  <2>4. OneCall(calls') /\ PutYet(calls', published) /\ CopiesAhead(calls', published, Known)
    BY <2>1 DEF CallsApart, OneCall, PutYet, CopiesAhead
  <2> QED
    BY <2>1, <2>2, <2>3, <2>4 DEF CallsApart
<1>12. ASSUME NEW e \in tasks, NeverReacts(e) PROVE CallsApart'
  <2>1. /\ tasks' = tasks \ {e} /\ UNCHANGED <<idle, queue, calls, published, cancelled>>
    BY <1>12 DEF NeverReacts
  <2>2. Known' = Known /\ Queued' = Queued /\ QueuesDistinct'
    BY <2>1 DEF Known, Underway, Lost, Queued, CallsApart, QueuesDistinct
  <2>3. Waiting' \subseteq Waiting
    BY <2>1, <2>2 DEF Waiting
  <2>4. AgainsAhead(Waiting', published, Known)
    BY <2>3 DEF CallsApart, AgainsAhead
  <2> QED
    BY <2>1, <2>2, <2>4 DEF CallsApart
<1> QED
  BY <1>1, <1>2, <1>3, <1>4, <1>5, <1>6, <1>7, <1>9, <1>10, <1>11, <1>12
  DEF Next, Step, Shift

(* A call that was cancelled is not made again, and was cancelled once.      *)
LostApart == OneCall(cancelled) /\ PutYet(cancelled, published) /\ Lost \cap Underway = {}

LEMMA LostInit == Init => LostApart
BY DEF Init, LostApart, OneCall, PutYet, Lost

LEMMA UnderwayEnters ==
  ASSUME NEW e \in EventType, NEW C
  PROVE  {c.event : c \in C \cup Entering(e)} \subseteq {c.event : c \in C} \cup {e}
<1>1. \A c \in Entering(e) : c.event = e
  BY CallTyped DEF Entering, Stages
<1> QED
  BY <1>1

LEMMA LostNext == Types /\ ChainsSound /\ CallsApart /\ LostApart /\ [Next]_vars => LostApart'
<1> SUFFICES ASSUME Types, ChainsSound, CallsApart, LostApart, [Next]_vars PROVE LostApart'
  OBVIOUS
<1>1. ASSUME NEW x, x \notin Known, UNCHANGED <<published, cancelled>>, Underway' \subseteq Underway \cup {x}
      PROVE  LostApart'
  BY <1>1 DEF LostApart, Known, Lost
<1>2. ASSUME UNCHANGED <<published, cancelled>>, Underway' \subseteq Underway PROVE LostApart'
  BY <1>2 DEF LostApart, Lost
<1>3. ASSUME NEW p \in Publishers, NEW n \in NamesOf[p], Publish(p, n) PROVE LostApart'
  <2> DEFINE x == First(p, n)
  <2>1. x \in EventType /\ calls' = calls \cup Entering(x) /\ UNCHANGED <<published, cancelled>>
    BY <1>3, PublishEffect
  <2>2. x \notin Known
    BY <1>3, EntersPublish DEF NewIn
  <2> HIDE DEF x
  <2>3. Underway' \subseteq Underway \cup {x}
    BY <2>1, UnderwayEnters DEF Underway
  <2> QED
    BY <1>1, <2>1, <2>2, <2>3
<1>4. ASSUME NEW e \in tasks, React(e) PROVE LostApart'
  <2> DEFINE x == Again(e)
  <2>1. x \in EventType /\ calls' = calls \cup Entering(x) /\ UNCHANGED <<published, cancelled>>
    BY <1>4, ReactEffect
  <2>2. x \notin Known
    BY <1>4, EntersReact DEF NewIn
  <2> HIDE DEF x
  <2>3. Underway' \subseteq Underway \cup {x}
    BY <2>1, UnderwayEnters DEF Underway
  <2> QED
    BY <1>1, <2>1, <2>2, <2>3
<1>5. ASSUME NEW c \in calls, Forward(c) PROVE LostApart'
  <2> DEFINE x == Copy(c.event)
             s == IF Verdict(x) = "enters" THEN "waiting" ELSE "returning"
             M == Moves(c, s)
  <2>1. x \in EventType /\ calls' = M \cup Entering(x) /\ UNCHANGED <<published, cancelled>>
    BY <1>5, ForwardEffect
  <2>2. NewIn(x, M, published, idle, Waiting, Known)
    BY <1>5, EntersForward
  <2>3. {d.event : d \in M} = Underway
    BY UnderwayMoves
  <2> HIDE DEF x, s, M
  <2>4. Underway' \subseteq Underway \cup {x}
    BY <2>1, <2>3, UnderwayEnters DEF Underway
  <2> QED
    BY <1>1, <2>1, <2>2, <2>4 DEF NewIn
<1>6. ASSUME NEW c \in calls, Put(c) PROVE LostApart'
  <2>1. /\ published' = published \cup {c.event} /\ cancelled' = cancelled /\ calls' = Moves(c, "forwarding")
        /\ c.event \in Underway
    BY <1>6, PutEffect DEF Underway
  <2>2. Underway' = Underway
    BY <2>1, UnderwayMoves DEF Underway
  <2>3. \A d \in cancelled : d.event # c.event
    BY <2>1 DEF LostApart, Lost
  <2> QED
    BY <2>1, <2>2, <2>3 DEF LostApart, Lost, PutYet
<1>7. ASSUME NEW c \in calls, Skip(c) PROVE LostApart'
  <2>1. Underway' = Underway
    BY <1>7, UnderwayMoves DEF Skip, Underway
  <2> QED
    BY <1>2, <1>7, <2>1 DEF Skip
<1>8. ASSUME NEW c \in calls, Return(c) PROVE LostApart'
  BY <1>2, <1>8, UnderwayReturns DEF Return
<1>9. ASSUME NEW c \in calls, Cancel(c) PROVE LostApart'
  <2>1. /\ calls' = calls \ Stack(c) /\ cancelled' = cancelled \cup Stack(c) /\ Stack(c) \subseteq calls
        /\ published' = published
    BY <1>9 DEF Cancel, Stack, Nesting
  <2>2. \A d \in cancelled : \A f \in calls : d.event # f.event
    BY DEF LostApart, Lost, Underway
  <2>3. OneCall(cancelled') /\ PutYet(cancelled', published)
    BY <2>1, <2>2 DEF LostApart, CallsApart, OneCall, PutYet
  <2>4. \A d \in cancelled' : \A f \in calls' : d.event # f.event
    BY <2>1, <2>2 DEF CallsApart, OneCall
  <2> QED
    BY <2>1, <2>3, <2>4 DEF LostApart, Lost, Underway
<1>10. ASSUME NEW b \in Buses, Dispatch(b) \/ Shift(b) PROVE LostApart'
  BY <1>2, <1>10 DEF Dispatch, Shift, Stop, EndDispatch, Stopped, Start, Moved, Underway
<1>11. ASSUME NEW e \in tasks, NeverReacts(e) PROVE LostApart'
  BY <1>2, <1>11 DEF NeverReacts, Underway
<1>12. CASE Tick \/ UNCHANGED vars
  BY <1>2, <1>12 DEF Tick, vars, Underway
<1> QED
  BY <1>3, <1>4, <1>5, <1>6, <1>7, <1>8, <1>9, <1>10, <1>11, <1>12 DEF Next, Step, Shift

-------------------------------------------------------------------------------
(* The counters                                                              *)

(* Events of a bus whose publish is over, and those that the forwarding is   *)
(* done with.                                                                *)
Finished(C, P, b) == {e \in P : e.bus = b /\ \A c \in C : c.event # e}
Done(C, e) == \A c \in C : c.event = e => c.stage = "returning"
Settled(C, P, b) == {e \in P : e.bus = b /\ Done(C, e)}

Here(e, b) == {x \in {e} : x.bus = b}
NestingOn(c, b) == {d \in Nesting(c) : d.event.bus = b}
EventsOf(C) == {c.event : c \in C}

(* Calls of a bus that were cancelled at one of their awaits.                *)
Cut(b, s) == {c \in On(cancelled, b) : c.stage = s}

Counted ==
  /\ IsFiniteSet(published)
  /\ \A b \in Buses : total[b] - errors[b]
                       = Cardinality(Finished(calls, published, b)) + Cardinality(Cut(b, "putting"))
  /\ \A b \in Buses : forwarded[b] + failed[b] + skipped[b]
                       = Cardinality(Settled(calls, published, b)) - Cardinality(Cut(b, "waiting"))

LEMMA CutTyped ==
  ASSUME CancelledTyped, NEW b, NEW s
  PROVE  IsFiniteSet(Cut(b, s)) /\ Cardinality(Cut(b, s)) \in Nat
<1>1. Cut(b, s) \in SUBSET cancelled
  BY DEF Cut, On
<1> QED
  BY <1>1, FS_Subset, FS_CardinalityType DEF CancelledTyped

LEMMA CutSame ==
  ASSUME cancelled' = cancelled, NEW b, NEW s
  PROVE  Cut(b, s)' = Cut(b, s)
BY DEF Cut, On

LEMMA CountsEnter ==
  ASSUME NEW C, NEW P, NEW x, x \notin P, NEW b
  PROVE  /\ Finished(C \cup {Call(x, "putting")}, P, b) = Finished(C, P, b)
         /\ Settled(C \cup {Call(x, "putting")}, P, b) = Settled(C, P, b)
<1>1. \A c \in {Call(x, "putting")} : c.event = x
  BY DEF Call
<1> QED
  BY <1>1 DEF Finished, Settled, Done

LEMMA CountsMove ==
  ASSUME NEW c \in calls, c.stage = "forwarding", c.event \in published, OneCall(calls), NEW b
  PROVE  /\ \A s : Finished(Moves(c, s), published, b) = Finished(calls, published, b)
         /\ Settled(Moves(c, "waiting"), published, b) = Settled(calls, published, b)
         /\ Settled(Moves(c, "returning"), published, b)
              = Settled(calls, published, b) \cup Here(c.event, b)
         /\ c.event \notin Settled(calls, published, b)
<1>1. \A s : Call(c.event, s).event = c.event /\ Call(c.event, s).stage = s
  BY DEF Call
<1>2. \A s : \A e : (\A d \in Moves(c, s) : d.event # e) <=> (\A d \in calls : d.event # e)
  BY <1>1 DEF Moves
<1>3. \A s : Finished(Moves(c, s), published, b) = Finished(calls, published, b)
  BY <1>2 DEF Finished
<1>4. ~Done(calls, c.event)
  BY DEF Done
<1>5. ASSUME NEW s PROVE \A e : e # c.event => (Done(Moves(c, s), e) <=> Done(calls, e))
  BY <1>1 DEF Moves, Done
<1>6. ASSUME NEW s PROVE Done(Moves(c, s), c.event) <=> s = "returning"
  BY <1>1 DEF Moves, OneCall, Done
<1>7. Settled(Moves(c, "waiting"), published, b) = Settled(calls, published, b)
  <2>1. \A e : Done(Moves(c, "waiting"), e) <=> Done(calls, e)
    BY <1>4, <1>5, <1>6
  <2> QED
    BY <2>1 DEF Settled
<1>8. Settled(Moves(c, "returning"), published, b)
        = Settled(calls, published, b) \cup Here(c.event, b)
  <2>1. \A e : Done(Moves(c, "returning"), e) <=> e = c.event \/ Done(calls, e)
    BY <1>5, <1>6
  <2> QED
    BY <2>1 DEF Settled, Here
<1>9. c.event \notin Settled(calls, published, b)
  BY <1>4 DEF Settled
<1> QED
  BY <1>3, <1>7, <1>8, <1>9

LEMMA CountsPut ==
  ASSUME NEW c \in calls, c.event \notin published, OneCall(calls), NEW b
  PROVE  /\ Finished(Moves(c, "forwarding"), published \cup {c.event}, b) = Finished(calls, published, b)
         /\ Settled(Moves(c, "forwarding"), published \cup {c.event}, b) = Settled(calls, published, b)
<1> DEFINE k == Call(c.event, "forwarding")
           M == Moves(c, "forwarding")
<1>1. k.event = c.event /\ k.stage # "returning" /\ M = (calls \ {c}) \cup {k}
  BY DEF Call, Moves
<1> HIDE DEF k, M
<1>2. \A e \in published : (\A d \in M : d.event # e) <=> (\A d \in calls : d.event # e)
  BY <1>1
<1>3. /\ \A e \in published : Done(M, e) <=> Done(calls, e)
      /\ ~Done(M, c.event)
  BY <1>1 DEF Done
<1>4. Finished(M, published \cup {c.event}, b) = Finished(calls, published, b)
  BY <1>1, <1>2 DEF Finished
<1>5. Settled(M, published \cup {c.event}, b) = Settled(calls, published, b)
  BY <1>1, <1>3 DEF Settled
<1> QED
  BY <1>4, <1>5 DEF M

LEMMA CountsReturn ==
  ASSUME NEW c \in calls, Return(c), OneCall(calls), PutYet(calls, published), NEW b
  PROVE  /\ Finished(calls', published, b)
              = Finished(calls, published, b) \cup Here(c.event, b)
         /\ c.event \notin Finished(calls, published, b)
         /\ Settled(calls', published, b)
              = Settled(calls, published, b) \cup EventsOf(NestingOn(c, b))
         /\ \A d \in Nesting(c) : d.event \notin Settled(calls, published, b)
<1> DEFINE N == Nesting(c)
           R == {Call(d.event, "returning") : d \in N}
           E == EventsOf(NestingOn(c, b))
<1>1. calls' = (calls \ ({c} \cup N)) \cup R /\ c.stage = "returning"
  BY DEF Return
<1>2. \A d \in N : d \in calls /\ d.stage = "waiting" /\ d.event \in published /\ d # c
  BY <1>1 DEF Nesting, PutYet
<1>3. /\ \A r \in R : r.stage = "returning" /\ \E d \in N : r.event = d.event
      /\ \A d \in N : \E r \in R : r.event = d.event
  <2>1. \A d \in N : Call(d.event, "returning").event = d.event
                     /\ Call(d.event, "returning").stage = "returning"
                     /\ Call(d.event, "returning") \in R
    BY DEF Call
  <2>2. \A r \in R : \E d \in N : r = Call(d.event, "returning")
    OBVIOUS
  <2> HIDE DEF R, N
  <2> QED
    BY <2>1, <2>2
<1>4. \A e : e \in E <=> \E d \in N : e = d.event /\ e.bus = b
  BY DEF EventsOf, NestingOn
<1>5. c.event \in published /\ c.event \notin Finished(calls, published, b)
  BY <1>1 DEF Finished, PutYet
<1>6. \A d \in N : d.event \notin Settled(calls, published, b)
  BY <1>2 DEF Settled, Done
<1> HIDE DEF N, R, E
<1>7. \A e : (\A d \in calls' : d.event # e) <=> e = c.event \/ \A d \in calls : d.event # e
  <2> SUFFICES ASSUME NEW e
               PROVE  (\A d \in calls' : d.event # e) <=> e = c.event \/ \A d \in calls : d.event # e
    OBVIOUS
  <2>1. CASE e = c.event
    <3>1. \A d \in calls : d.event = e => d = c
      BY <2>1 DEF OneCall
    <3> QED
      BY <1>1, <1>2, <1>3, <2>1, <3>1
  <2>2. CASE e # c.event
    BY <1>1, <1>2, <1>3, <2>2
  <2> QED
    BY <2>1, <2>2
<1>8. Finished(calls', published, b) = Finished(calls, published, b) \cup Here(c.event, b)
  BY <1>5, <1>7 DEF Finished, Here
<1>9. ASSUME NEW e
      PROVE  Done(calls', e) <=> (\E d \in N : e = d.event) \/ Done(calls, e)
  <2>1. CASE \E d \in N : e = d.event
    <3>1. PICK d \in N : e = d.event
      BY <2>1
    <3>2. \A f \in calls : f.event = e => f = d
      BY <1>2, <3>1 DEF OneCall
    <3> QED
      BY <1>1, <1>3, <2>1, <3>1, <3>2 DEF Done
  <2>2. CASE \A d \in N : e # d.event
    <3>1. \A d \in calls : d.event = e => d = c \/ d \in calls'
      BY <1>1, <2>2
    <3> QED
      BY <1>1, <1>2, <1>3, <2>2, <3>1 DEF Done
  <2> QED
    BY <2>1, <2>2
<1>10. Settled(calls', published, b) = Settled(calls, published, b) \cup E
  BY <1>2, <1>4, <1>9 DEF Settled
<1> QED
  BY <1>5, <1>6, <1>8, <1>10 DEF N, E

LEMMA CardAdd ==
  ASSUME NEW S, IsFiniteSet(S), NEW e, e \notin S, NEW b
  PROVE  /\ Cardinality(S \cup Here(e, b)) = Cardinality(S) + (IF e.bus = b THEN 1 ELSE 0)
         /\ Cardinality(S) \in Nat
<1>1. Cardinality(S) \in Nat
  BY FS_CardinalityType
<1>2. CASE e.bus = b
  <2>1. S \cup Here(e, b) = S \cup {e}
    BY <1>2 DEF Here
  <2>2. Cardinality(S \cup {e}) = Cardinality(S) + 1
    BY FS_AddElement
  <2> QED
    BY <1>1, <1>2, <2>1, <2>2
<1>3. CASE e.bus # b
  <2>1. S \cup Here(e, b) = S
    BY <1>3 DEF Here
  <2> QED
    BY <1>1, <1>3, <2>1
<1> QED
  BY <1>2, <1>3

(* The calls a call was nested in, and their events.                         *)
LEMMA CardNesting ==
  ASSUME CallsTyped, OneCall(calls), NEW c \in calls, NEW b \in Buses,
         NEW S, IsFiniteSet(S), \A d \in Nesting(c) : d.event \notin S
  PROVE  /\ Cardinality(S \cup EventsOf(NestingOn(c, b)))
              = Cardinality(S) + Cardinality(NestingOn(c, b))
         /\ Cardinality(S) \in Nat /\ Cardinality(NestingOn(c, b)) \in Nat
<1> DEFINE N == NestingOn(c, b)
           f == [d \in N |-> d.event]
           E == EventsOf(N)
<1>1. IsFiniteSet(N) /\ N \subseteq calls
  BY NestingTyped DEF Nesting, NestingOn
<1>2. \A d \in N : d.event \in EventType
  BY <1>1, CallTyped DEF CallsTyped
<1>3. f \in [N -> EventType] /\ E = Values(f, N) /\ \A d \in N : f[d] = d.event
  BY <1>2 DEF EventsOf, Values
<1>4. \A d \in N : d.event \notin S
  BY DEF NestingOn
<1> HIDE DEF N, f
<1>5. OneToOne(f, N)
  BY <1>1, <1>3 DEF OneCall, OneToOne
<1>6. IsFiniteSet(E) /\ Cardinality(E) = Cardinality(N)
  BY <1>1, <1>3, <1>5, Image
<1>7. S \cap E = {}
  BY <1>4 DEF EventsOf
<1> HIDE DEF E
<1>8. Cardinality(S \cup E) = Cardinality(S) + Cardinality(E) - Cardinality(S \cap E)
  BY <1>6, FS_Union
<1>9. Cardinality(S \cap E) = 0 /\ Cardinality(S) \in Nat /\ Cardinality(E) \in Nat
  BY <1>6, <1>7, FS_EmptySet, FS_CardinalityType
<1> QED
  BY <1>6, <1>8, <1>9 DEF E, N

LEMMA VerdictIn ==
  ASSUME NEW e
  PROVE  Verdict(e) \in {"down", "limited", "looping", "blocked", "undeclared", "enters"}
BY DEF Verdict

LEMMA CountedSets ==
  ASSUME Counted
  PROVE  \A b \in Buses : /\ IsFiniteSet(Finished(calls, published, b))
                          /\ IsFiniteSet(Settled(calls, published, b))
<1>1. \A b : Finished(calls, published, b) \in SUBSET published /\ Settled(calls, published, b) \in SUBSET published
  BY DEF Finished, Settled
<1> QED
  BY <1>1, FS_Subset DEF Counted

LEMMA CountedInit == Init => Counted
<1> SUFFICES ASSUME Init PROVE Counted
  OBVIOUS
<1>1. \A b \in Buses : Finished(calls, published, b) = {} /\ Settled(calls, published, b) = {}
  BY DEF Init, Finished, Settled
<1>2. \A b \in Buses : total[b] - errors[b] = 0 /\ forwarded[b] + failed[b] + skipped[b] = 0
  BY DEF Init, Zero
<1>3. \A b \in Buses : Cut(b, "putting") = {} /\ Cut(b, "waiting") = {}
  BY DEF Init, Cut, On
<1>4. Cardinality({}) = 0 /\ IsFiniteSet({})
  BY FS_EmptySet
<1>5. IsFiniteSet(published) /\ calls = {}
  BY <1>4 DEF Init
<1>6. \A b \in Buses :
        /\ total[b] - errors[b] = Cardinality(Finished(calls, published, b)) + Cardinality(Cut(b, "putting"))
        /\ forwarded[b] + failed[b] + skipped[b]
             = Cardinality(Settled(calls, published, b)) - Cardinality(Cut(b, "waiting"))
  BY <1>1, <1>2, <1>3, <1>4
<1> QED
  BY <1>5, <1>6 DEF Counted

(* A publish that may enter: nothing is counted but what the metrics count.  *)
LEMMA CountedEnters ==
  ASSUME Types, Counted, NEW e \in EventType, e \notin published, Pass(e),
         calls' = calls \cup Entering(e), UNCHANGED <<published, cancelled, forwarded, failed, skipped>>
  PROVE  Counted'
<1>1. \A b \in Buses : total'[b] - errors'[b] = total[b] - errors[b]
  BY PassMetrics DEF Types
<1>2. \A b \in Buses : /\ Finished(calls', published, b) = Finished(calls, published, b)
                       /\ Settled(calls', published, b) = Settled(calls, published, b)
  <2>1. CASE Verdict(e) = "enters"
    <3>1. calls' = calls \cup {Call(e, "putting")}
      BY <2>1, EnteringFacts
    <3> QED
      BY <3>1, CountsEnter
  <2>2. CASE Verdict(e) # "enters"
    <3>1. calls' = calls
      BY <2>2, EnteringFacts
    <3> QED
      BY <3>1
  <2> QED
    BY <2>1, <2>2
<1> QED
  BY <1>1, <1>2, CutSame DEF Counted

LEMMA CountedForward ==
  ASSUME Types, CallsApart, Counted, NEW c \in calls, Forward(c)
  PROVE  Counted'
<1> DEFINE x == Copy(c.event)
           v == Verdict(x)
<1>1. /\ x \in EventType /\ c.event.bus \in Buses /\ c.stage = "forwarding" /\ c.event \in published
      /\ published' = published /\ cancelled' = cancelled /\ Pass(x)
      /\ calls' = Entering(x) \cup Moves(c, IF v = "enters" THEN "waiting" ELSE "returning")
  BY ForwardEffect DEF Forward, EventType, CallsApart, PutYet
<1>2. OneCall(calls) /\ x \notin published
  BY EntersForward DEF CallsApart, NewIn, Known
<1>3. \A b \in Buses : total'[b] - errors'[b] = total[b] - errors[b]
  BY <1>1, PassMetrics DEF Types
<1>4. \A b \in Buses : {forwarded[b], failed[b], skipped[b]} \subseteq Nat
  BY DEF Types, CountersTyped
<1>5. /\ failed' = IF Raises(v) THEN Plus(failed, c.event.bus) ELSE failed
      /\ forwarded' = IF v \in {"limited", "blocked"} THEN Plus(forwarded, c.event.bus) ELSE forwarded
      /\ skipped' = skipped
  BY DEF Forward
<1>6. {forwarded, failed, skipped} \subseteq [Buses -> Nat]
  BY DEF Types, CountersTyped
<1>7. v \in {"down", "limited", "looping", "blocked", "undeclared", "enters"}
  BY VerdictIn
<1> HIDE DEF x, v
<1>8. CASE v = "enters"
  <2>1. calls' = Moves(c, "waiting") \cup {Call(x, "putting")}
    BY <1>1, <1>8, EnteringFacts DEF v
  <2>2. \A b \in Buses : /\ Finished(calls', published, b) = Finished(calls, published, b)
                         /\ Settled(calls', published, b) = Settled(calls, published, b)
    BY <1>1, <1>2, <2>1, CountsMove, CountsEnter
  <2>3. forwarded' = forwarded /\ failed' = failed /\ skipped' = skipped
    BY <1>5, <1>8 DEF Raises
  <2> QED
    BY <1>1, <1>3, <2>2, <2>3, CutSame DEF Counted
<1>9. CASE v # "enters"
  <2>1. calls' = Moves(c, "returning")
    BY <1>1, <1>9, EnteringFacts DEF v
  <2>2. \A b \in Buses :
          /\ Finished(calls', published, b) = Finished(calls, published, b)
          /\ Settled(calls', published, b) = Settled(calls, published, b) \cup Here(c.event, b)
          /\ c.event \notin Settled(calls, published, b)
    <3> TAKE b \in Buses
    <3> QED
      BY <1>1, <1>2, <2>1, CountsMove
  <2>3. \A b \in Buses :
          Cardinality(Settled(calls', published, b))
            = Cardinality(Settled(calls, published, b)) + (IF c.event.bus = b THEN 1 ELSE 0)
    <3> TAKE b \in Buses
    <3>1. IsFiniteSet(Settled(calls, published, b))
      BY CountedSets
    <3> QED
      BY <2>2, <3>1, CardAdd
  <2>4. ASSUME NEW b \in Buses
        PROVE  forwarded'[b] + failed'[b] + skipped'[b]
                 = forwarded[b] + failed[b] + skipped[b] + (IF c.event.bus = b THEN 1 ELSE 0)
    <3>1. CASE v \in {"limited", "blocked"}
      <4>1. failed' = failed /\ forwarded' = Plus(forwarded, c.event.bus)
        BY <1>5, <3>1 DEF Raises
      <4>2. forwarded'[b] = forwarded[b] + (IF c.event.bus = b THEN 1 ELSE 0)
        BY <1>1, <1>4, <1>6, <4>1, PlusTyped
      <4> QED
        BY <1>4, <1>5, <4>1, <4>2
    <3>2. CASE v \in {"down", "looping", "undeclared"}
      <4>1. failed' = Plus(failed, c.event.bus) /\ forwarded' = forwarded
        BY <1>5, <3>2 DEF Raises
      <4>2. failed'[b] = failed[b] + (IF c.event.bus = b THEN 1 ELSE 0)
        BY <1>1, <1>4, <1>6, <4>1, PlusTyped
      <4> QED
        BY <1>4, <1>5, <4>1, <4>2
    <3> QED
      BY <1>7, <1>9, <3>1, <3>2
  <2>7. \A b \in Buses : /\ Cardinality(Settled(calls, published, b)) \in Nat
                         /\ Cardinality(Cut(b, "waiting")) \in Nat
    BY CountedSets, CutTyped, FS_CardinalityType DEF Types
  <2>5. ASSUME NEW b \in Buses
        PROVE  forwarded'[b] + failed'[b] + skipped'[b] = Cardinality(Settled(calls', published, b)) - Cardinality(Cut(b, "waiting"))
    BY <2>3, <2>4, <2>7 DEF Counted
  <2>6. ASSUME NEW b \in Buses
        PROVE  total'[b] - errors'[b] = Cardinality(Finished(calls', published, b)) + Cardinality(Cut(b, "putting"))
    BY <1>3, <2>2 DEF Counted
  <2> QED
    BY <1>1, <2>5, <2>6, CutSame DEF Counted
<1> QED
  BY <1>8, <1>9

LEMMA CountedReturn ==
  ASSUME Types, CallsApart, Counted, NEW c \in calls, Return(c)
  PROVE  Counted'
<1>1. CallsTyped /\ OneCall(calls) /\ PutYet(calls, published) /\ c.event.bus \in Buses
  BY CallTyped DEF Types, CallsTyped, CallsApart
<1>2. /\ published' = published /\ cancelled' = cancelled /\ errors' = errors /\ failed' = failed /\ skipped' = skipped
      /\ total' = Plus(total, c.event.bus)
      /\ \A b \in Buses :
           forwarded'[b] = forwarded[b] + Cardinality(NestingOn(c, b))
  BY DEF Return, NestingOn
<1>3. \A b \in Buses : {forwarded[b], failed[b], skipped[b], total[b], errors[b]} \subseteq Nat
  BY DEF Types, CancelledTyped, CountersTyped, MetricsTyped
<1>4. ASSUME NEW b \in Buses
      PROVE  total'[b] - errors'[b]
               = Cardinality(Finished(calls', published, b)) + Cardinality(Cut(b, "putting"))
  <2>1. Cardinality(Finished(calls', published, b))
          = Cardinality(Finished(calls, published, b)) + (IF c.event.bus = b THEN 1 ELSE 0)
    <3>1. IsFiniteSet(Finished(calls, published, b))
      BY CountedSets
    <3>2. /\ Finished(calls', published, b) = Finished(calls, published, b) \cup Here(c.event, b)
          /\ c.event \notin Finished(calls, published, b)
      BY <1>1, CountsReturn
    <3> QED
      BY <3>1, <3>2, CardAdd
  <2>4. /\ Cardinality(Finished(calls, published, b)) \in Nat
        /\ Cardinality(Cut(b, "putting")) \in Nat
    BY CountedSets, CutTyped, FS_CardinalityType DEF Types
  <2>2. total'[b] = total[b] + (IF c.event.bus = b THEN 1 ELSE 0)
    BY <1>1, <1>2, <1>3, PlusTyped DEF Types, MetricsTyped
  <2>3. total[b] - errors[b] = Cardinality(Finished(calls, published, b)) + Cardinality(Cut(b, "putting"))
    BY DEF Counted
  <2> QED
    BY <1>2, <1>3, <2>1, <2>2, <2>3, <2>4
<1>5. ASSUME NEW b \in Buses
      PROVE  forwarded'[b] + failed'[b] + skipped'[b]
               = Cardinality(Settled(calls', published, b)) - Cardinality(Cut(b, "waiting"))
  <2> DEFINE S == Settled(calls, published, b)
             n == Cardinality(NestingOn(c, b))
             E == EventsOf(NestingOn(c, b))
             w == Cardinality(Cut(b, "waiting"))
  <2>1. Settled(calls', published, b) = S \cup E /\ \A d \in Nesting(c) : d.event \notin S
    BY <1>1, CountsReturn
  <2>2. IsFiniteSet(S) /\ w \in Nat
        /\ forwarded[b] + failed[b] + skipped[b] = Cardinality(S) - w
    BY CountedSets, CutTyped DEF Counted, Types
  <2>3. forwarded'[b] = forwarded[b] + n /\ failed' = failed /\ skipped' = skipped
    BY <1>2
  <2> HIDE DEF S
  <2>4. Cardinality(S \cup E) = Cardinality(S) + n /\ Cardinality(S) \in Nat /\ n \in Nat
    BY <1>1, <2>1, <2>2, CardNesting
  <2> HIDE DEF n, E, w
  <2> QED
    BY <1>3, <2>1, <2>2, <2>3, <2>4 DEF w
<1> QED
  BY <1>2, <1>4, <1>5, CutSame DEF Counted

(* A call is on one bus.                                                     *)
LEMMA CardOn ==
  ASSUME NEW S, IsFiniteSet(S), NEW c, c \notin S, NEW b
  PROVE  /\ Cardinality(S \cup On({c}, b)) = Cardinality(S) + (IF c.event.bus = b THEN 1 ELSE 0)
         /\ Cardinality(S) \in Nat
<1>1. Cardinality(S) \in Nat
  BY FS_CardinalityType
<1>2. CASE c.event.bus = b
  <2>1. S \cup On({c}, b) = S \cup {c}
    BY <1>2 DEF On
  <2>2. Cardinality(S \cup {c}) = Cardinality(S) + 1
    BY FS_AddElement
  <2> QED
    BY <1>1, <1>2, <2>1, <2>2
<1>3. CASE c.event.bus # b
  <2>1. S \cup On({c}, b) = S
    BY <1>3 DEF On
  <2>2. Cardinality(S \cup On({c}, b)) = Cardinality(S)
    BY <2>1
  <2> QED
    BY <1>1, <1>3, <2>2
<1> QED
  BY <1>2, <1>3

LEMMA CardApart ==
  ASSUME NEW S, IsFiniteSet(S), NEW T, IsFiniteSet(T), S \cap T = {}
  PROVE  Cardinality(S \cup T) = Cardinality(S) + Cardinality(T)
<1>1. /\ Cardinality(S \cup T) = Cardinality(S) + Cardinality(T) - Cardinality(S \cap T)
      /\ Cardinality(S \cap T) = 0
  BY FS_Union, FS_EmptySet
<1>2. Cardinality(S) \in Nat /\ Cardinality(T) \in Nat
  BY FS_CardinalityType
<1> QED
  BY <1>1, <1>2

(* What is counted of the calls that are cancelled together.                 *)
LEMMA CountsCancel ==
  ASSUME Types, CallsApart, LostApart, NEW c \in calls, Cancel(c), NEW b \in Buses
  PROVE  /\ Finished(calls', published, b)
              = Finished(calls, published, b) \cup EventsOf(NestingOn(c, b))
         /\ \A d \in Nesting(c) : d.event \notin Finished(calls, published, b)
         /\ Settled(calls', published, b)
              = Settled(calls, published, b) \cup EventsOf(NestingOn(c, b))
         /\ \A d \in Nesting(c) : d.event \notin Settled(calls, published, b)
         /\ On(Stack(c), b) = NestingOn(c, b) \cup On({c}, b) /\ c \notin NestingOn(c, b)
         /\ Cut(b, "putting")' = Cut(b, "putting") \cup On({c}, b) /\ c \notin Cut(b, "putting")
         /\ Cut(b, "waiting")' = Cut(b, "waiting") \cup NestingOn(c, b)
         /\ Cut(b, "waiting") \cap NestingOn(c, b) = {}
<1> DEFINE N == Nesting(c)
           E == EventsOf(NestingOn(c, b))
<1>1. /\ c.stage = "putting" /\ calls' = calls \ ({c} \cup N) /\ cancelled' = cancelled \cup {c} \cup N
      /\ c.event \notin published
  BY DEF Cancel, Stack, CallsApart, PutYet
<1>2. \A d \in N : d \in calls /\ d.stage = "waiting" /\ d.event \in published /\ d # c
  BY <1>1 DEF Nesting, CallsApart, PutYet
<1>3. \A e : e \in E <=> \E d \in N : e = d.event /\ e.bus = b
  BY DEF EventsOf, NestingOn
<1>4. \A d \in calls : \A f \in cancelled : d # f
  BY DEF LostApart, Lost, Underway
<1>5. /\ On(Stack(c), b) = NestingOn(c, b) \cup On({c}, b)
      /\ \A d \in NestingOn(c, b) : d \in N /\ d.event.bus = b
  BY DEF On, Stack, NestingOn
<1>6. Cut(b, "putting")' = Cut(b, "putting") \cup On({c}, b)
  BY <1>1, <1>2 DEF Cut, On
<1>7. Cut(b, "waiting")' = Cut(b, "waiting") \cup NestingOn(c, b)
  BY <1>1, <1>2 DEF Cut, On, NestingOn
<1>8. c \notin Cut(b, "putting") /\ Cut(b, "waiting") \cap NestingOn(c, b) = {} /\ c \notin NestingOn(c, b)
  BY <1>2, <1>4, <1>5 DEF Cut, On
<1>9. \A d \in N : d.event \notin Settled(calls, published, b) /\ d.event \notin Finished(calls, published, b)
  BY <1>2 DEF Settled, Finished, Done
<1> HIDE DEF N, E
<1>10. \A d \in N : \A f \in calls : f.event = d.event => f = d
  BY <1>2 DEF CallsApart, OneCall
<1>11. \A e \in published : (\A d \in calls' : d.event # e) <=> (\E d \in N : e = d.event) \/ \A d \in calls : d.event # e
  BY <1>1, <1>2, <1>10
<1>12. \A e \in published : Done(calls', e) <=> (\E d \in N : e = d.event) \/ Done(calls, e)
  BY <1>1, <1>2, <1>10 DEF Done
<1>13. Finished(calls', published, b) = Finished(calls, published, b) \cup E
  BY <1>2, <1>3, <1>11 DEF Finished
<1>14. Settled(calls', published, b) = Settled(calls, published, b) \cup E
  BY <1>2, <1>3, <1>12 DEF Settled
<1> QED
  BY <1>5, <1>6, <1>7, <1>8, <1>9, <1>13, <1>14 DEF N, E

LEMMA CountedCancel ==
  ASSUME Types, CallsApart, LostApart, Counted, NEW c \in calls, Cancel(c)
  PROVE  Counted'
<1>1. /\ UNCHANGED <<published, forwarded, failed, skipped, errors>>
      /\ \A b \in Buses : total'[b] = total[b] + Cardinality(On(Stack(c), b))
  BY DEF Cancel
<1>2. CallsTyped /\ CancelledTyped /\ OneCall(calls)
  BY DEF Types, CallsApart
<1>3. \A b \in Buses : {forwarded[b], failed[b], skipped[b], total[b], errors[b]} \subseteq Nat
  BY DEF Types, CountersTyped, MetricsTyped
<1>4. ASSUME NEW b \in Buses
      PROVE  /\ total'[b] - errors'[b]
                  = Cardinality(Finished(calls', published, b)) + Cardinality(Cut(b, "putting")')
             /\ forwarded'[b] + failed'[b] + skipped'[b]
                  = Cardinality(Settled(calls', published, b)) - Cardinality(Cut(b, "waiting")')
  <2> DEFINE S == Settled(calls, published, b)
             F == Finished(calls, published, b)
             N == NestingOn(c, b)
             P == Cut(b, "putting")
             W == Cut(b, "waiting")
             one == IF c.event.bus = b THEN 1 ELSE 0
  <2>1. /\ Finished(calls', published, b) = F \cup EventsOf(N) /\ \A d \in Nesting(c) : d.event \notin F
        /\ Settled(calls', published, b) = S \cup EventsOf(N) /\ \A d \in Nesting(c) : d.event \notin S
        /\ On(Stack(c), b) = N \cup On({c}, b) /\ c \notin N
        /\ Cut(b, "putting")' = P \cup On({c}, b) /\ c \notin P
        /\ Cut(b, "waiting")' = W \cup N /\ W \cap N = {}
    BY CountsCancel
  <2>2. IsFiniteSet(S) /\ IsFiniteSet(F) /\ IsFiniteSet(P) /\ IsFiniteSet(W) /\ Cardinality(P) \in Nat
        /\ Cardinality(W) \in Nat
    BY <1>2, CountedSets, CutTyped
  <2>3. IsFiniteSet(N)
    BY <1>2, NestingTyped DEF NestingOn
  <2>4. /\ total[b] - errors[b] = Cardinality(F) + Cardinality(P)
        /\ forwarded[b] + failed[b] + skipped[b] = Cardinality(S) - Cardinality(W)
    BY DEF Counted
  <2> HIDE DEF S, F, P, W
  <2>5. /\ Cardinality(F \cup EventsOf(N)) = Cardinality(F) + Cardinality(N) /\ Cardinality(F) \in Nat
        /\ Cardinality(S \cup EventsOf(N)) = Cardinality(S) + Cardinality(N) /\ Cardinality(S) \in Nat
        /\ Cardinality(N) \in Nat
    BY <1>2, <2>1, <2>2, CardNesting
  <2> HIDE DEF N
  <2>6. Cardinality(N \cup On({c}, b)) = Cardinality(N) + one /\ Cardinality(P \cup On({c}, b)) = Cardinality(P) + one
    BY <2>1, <2>2, <2>3, CardOn
  <2>7. Cardinality(W \cup N) = Cardinality(W) + Cardinality(N)
    BY <2>1, <2>2, <2>3, CardApart
  <2>8. one \in Nat
    OBVIOUS
  <2> HIDE DEF one
  <2>9. total'[b] - errors'[b] = Cardinality(F \cup EventsOf(N)) + Cardinality(P \cup On({c}, b))
    <3>1. total'[b] = total[b] + Cardinality(On(Stack(c), b))
      BY <1>1
    <3>2. Cardinality(On(Stack(c), b)) = Cardinality(N) + one
      BY <2>1, <2>6
    <3>3. total'[b] = total[b] + Cardinality(N) + one
      BY <1>3, <2>5, <2>8, <3>1, <3>2
    <3> QED
      BY <1>1, <1>3, <2>2, <2>4, <2>5, <2>6, <2>8, <3>3
  <2>10. forwarded'[b] + failed'[b] + skipped'[b] = Cardinality(S \cup EventsOf(N)) - Cardinality(W \cup N)
    BY <1>1, <1>3, <2>2, <2>4, <2>5, <2>7
  <2> QED
    BY <2>1, <2>9, <2>10
<1> QED
  BY <1>1, <1>4 DEF Counted

LEMMA CountedNext == Types /\ ChainsSound /\ CallsApart /\ LostApart /\ Counted /\ [Next]_vars => Counted'
<1> SUFFICES ASSUME Types, ChainsSound, CallsApart, LostApart, Counted, [Next]_vars PROVE Counted'
  OBVIOUS
<1>1. ASSUME NEW p \in Publishers, NEW n \in NamesOf[p], Publish(p, n) PROVE Counted'
  <2>1. First(p, n) \in EventType /\ First(p, n) \notin published
    BY <1>1, PublishEffect, EntersPublish DEF NewIn, Known
  <2>2. Pass(First(p, n)) /\ calls' = calls \cup Entering(First(p, n))
        /\ UNCHANGED <<published, cancelled, forwarded, failed, skipped>>
    BY <1>1 DEF Publish, First
  <2> QED
    BY <2>1, <2>2, CountedEnters
<1>2. ASSUME NEW e \in tasks, React(e) PROVE Counted'
  <2>1. Again(e) \in EventType /\ Again(e) \notin published
    BY <1>2, ReactEffect, EntersReact DEF NewIn, Known
  <2>2. Pass(Again(e)) /\ calls' = calls \cup Entering(Again(e))
        /\ UNCHANGED <<published, cancelled, forwarded, failed, skipped>>
    BY <1>2 DEF React, Again
  <2> QED
    BY <2>1, <2>2, CountedEnters
<1>3. ASSUME NEW c \in calls, Put(c) PROVE Counted'
  <2>1. /\ c.event \notin published /\ calls' = Moves(c, "forwarding") /\ OneCall(calls)
        /\ published' = published \cup {c.event} /\ UNCHANGED <<counters, cancelled>>
    BY <1>3 DEF Put, CallsApart, PutYet
  <2>2. IsFiniteSet(published')
    BY <2>1, FS_AddElement DEF Counted
  <2>3. \A b : /\ Finished(calls', published', b) = Finished(calls, published, b)
               /\ Settled(calls', published', b) = Settled(calls, published, b)
    BY <2>1, CountsPut
  <2> QED
    BY <2>1, <2>2, <2>3, CutSame DEF Counted, counters
<1>4. ASSUME NEW c \in calls, Skip(c) PROVE Counted'
  <2>1. /\ c.stage = "forwarding" /\ c.event \in published /\ OneCall(calls) /\ c.event.bus \in Buses
        /\ calls' = Moves(c, "returning") /\ skipped' = Plus(skipped, c.event.bus)
        /\ UNCHANGED <<published, cancelled, forwarded, failed, total, errors>>
    BY <1>4, CallTyped DEF Skip, CallsApart, PutYet, Types, CallsTyped
  <2>2. \A b \in Buses :
          /\ Finished(calls', published, b) = Finished(calls, published, b)
          /\ Settled(calls', published, b) = Settled(calls, published, b) \cup Here(c.event, b)
          /\ c.event \notin Settled(calls, published, b)
    BY <2>1, CountsMove
  <2>3. \A b \in Buses :
          Cardinality(Settled(calls', published, b))
            = Cardinality(Settled(calls, published, b)) + (IF c.event.bus = b THEN 1 ELSE 0)
    <3> TAKE b \in Buses
    <3>1. IsFiniteSet(Settled(calls, published, b))
      BY CountedSets
    <3> QED
      BY <2>2, <3>1, CardAdd
  <2>4. \A b \in Buses : skipped'[b] = skipped[b] + (IF c.event.bus = b THEN 1 ELSE 0)
    BY <2>1, PlusTyped DEF Types, CountersTyped
  <2>5. \A b \in Buses : {forwarded[b], failed[b], skipped[b]} \subseteq Nat
    BY DEF Types, CountersTyped
  <2>6. ASSUME NEW b \in Buses
        PROVE  forwarded'[b] + failed'[b] + skipped'[b]
                 = Cardinality(Settled(calls', published, b)) - Cardinality(Cut(b, "waiting"))
    <3>1. forwarded[b] + failed[b] + skipped[b]
            = Cardinality(Settled(calls, published, b)) - Cardinality(Cut(b, "waiting"))
      BY DEF Counted
    <3>2. Cardinality(Settled(calls, published, b)) \in Nat /\ Cardinality(Cut(b, "waiting")) \in Nat
      BY CountedSets, CutTyped, FS_CardinalityType DEF Types
    <3> QED
      BY <2>1, <2>3, <2>4, <2>5, <3>1, <3>2
  <2> QED
    BY <2>1, <2>2, <2>6, CutSame DEF Counted
<1>5. ASSUME NEW c \in calls, Forward(c) PROVE Counted'
  BY <1>5, CountedForward
<1>6. ASSUME NEW c \in calls, Return(c) PROVE Counted'
  BY <1>6, CountedReturn
<1>7. ASSUME UNCHANGED <<calls, published, cancelled, counters>> PROVE Counted'
  BY <1>7, CutSame DEF Counted, counters
<1>8. ASSUME NEW b \in Buses, Dispatch(b) \/ Shift(b) PROVE Counted'
  BY <1>7, <1>8 DEF Dispatch, Shift, Stop, EndDispatch, Stopped, Start, Moved
<1>9. CASE Tick \/ UNCHANGED vars
  BY <1>7, <1>9 DEF Tick, vars
<1>10. ASSUME NEW c \in calls, Cancel(c) PROVE Counted'
  BY <1>10, CountedCancel
<1>11. ASSUME NEW e \in tasks, NeverReacts(e) PROVE Counted'
  BY <1>7, <1>11 DEF NeverReacts
<1> QED
  BY <1>1, <1>2, <1>3, <1>4, <1>5, <1>6, <1>8, <1>9, <1>10, <1>11 DEF Next, Step, Shift

(* Events of a set that are in no call of another: what the sizes say.       *)
LEMMA CardWithout ==
  ASSUME CallsTyped, OneCall(calls), NEW A, A \subseteq calls,
         NEW F, IsFiniteSet(F), \A c \in A : c.event \in F
  PROVE  Cardinality(F \ EventsOf(A)) = Cardinality(F) - Cardinality(A)
<1> DEFINE f == [c \in A |-> c.event]
           E == EventsOf(A)
<1>1. IsFiniteSet(A)
  BY FS_Subset DEF CallsTyped
<1>2. f \in [A -> F] /\ \A c \in A : f[c] = c.event
  OBVIOUS
<1>3. E = Values(f, A) /\ F \cap E = E
  BY DEF EventsOf, Values
<1> HIDE DEF f, E
<1>4. OneToOne(f, A)
  BY <1>2 DEF OneCall, OneToOne
<1>5. Cardinality(E) = Cardinality(A)
  BY <1>1, <1>2, <1>3, <1>4, Image
<1>6. Cardinality(F \ E) = Cardinality(F) - Cardinality(F \cap E)
  BY FS_Difference
<1> QED
  BY <1>3, <1>5, <1>6 DEF E

LEMMA CountsCorrect ==
  ASSUME Types, CallsApart, Counted
  PROVE  ForwardsCounted /\ PublishesCounted
<1> SUFFICES ASSUME NEW b \in Buses
             PROVE  /\ forwarded[b] + failed[b] + skipped[b]
                         = Cardinality({e \in published : e.bus = b})
                           - Cardinality({c \in On(calls, b) : c.stage \in {"forwarding", "waiting"}})
                           - Cardinality(Cut(b, "waiting"))
                    /\ total[b] - errors[b]
                         = Cardinality({e \in published : e.bus = b})
                           - Cardinality({c \in On(calls, b) : c.stage # "putting"})
                           + Cardinality(Cut(b, "putting"))
  BY DEF ForwardsCounted, PublishesCounted, Cut
<1> DEFINE F == {e \in published : e.bus = b}
           A == {c \in On(calls, b) : c.stage \in {"forwarding", "waiting"}}
           B == {c \in On(calls, b) : c.stage # "putting"}
<1>1. CallsTyped /\ OneCall(calls) /\ PutYet(calls, published)
  BY DEF Types, CallsApart
<1>2. \A c \in calls : c.stage \in Stages
  BY <1>1, CallTyped DEF CallsTyped
<1>3. IsFiniteSet(F)
  <2>1. F \in SUBSET published
    OBVIOUS
  <2> QED
    BY <2>1, FS_Subset DEF Counted
<1>4. A \subseteq calls /\ B \subseteq calls
  BY DEF On
<1>5. \A c \in A \cup B : c.event \in F
  BY <1>1 DEF On, PutYet
<1>6. Settled(calls, published, b) = F \ EventsOf(A)
  <2>1. \A e \in F : e \in EventsOf(A) <=> \E c \in calls : c.event = e /\ c.stage \in {"forwarding", "waiting"}
    BY DEF EventsOf, On
  <2>2. \A e \in F : \A c \in calls : c.event = e => c.stage # "putting"
    BY <1>1 DEF PutYet
  <2>3. \A e \in F : Done(calls, e) <=> e \notin EventsOf(A)
    BY <1>2, <2>1, <2>2 DEF Done, Stages
  <2> QED
    BY <2>3 DEF Settled
<1>7. Finished(calls, published, b) = F \ EventsOf(B)
  <2>1. \A e \in F : e \in EventsOf(B) <=> \E c \in calls : c.event = e /\ c.stage # "putting"
    BY DEF EventsOf, On
  <2>2. \A e \in F : \A c \in calls : c.event = e => c.stage # "putting"
    BY <1>1 DEF PutYet
  <2> QED
    BY <2>1, <2>2 DEF Finished
<1> HIDE DEF F, A, B
<1>8. Cardinality(F \ EventsOf(A)) = Cardinality(F) - Cardinality(A)
  BY <1>1, <1>3, <1>4, <1>5, CardWithout
<1>9. Cardinality(F \ EventsOf(B)) = Cardinality(F) - Cardinality(B)
  BY <1>1, <1>3, <1>4, <1>5, CardWithout
<1>10. /\ forwarded[b] + failed[b] + skipped[b] = Cardinality(F) - Cardinality(A) - Cardinality(Cut(b, "waiting"))
       /\ total[b] - errors[b] = Cardinality(F) - Cardinality(B) + Cardinality(Cut(b, "putting"))
  BY <1>6, <1>7, <1>8, <1>9 DEF Counted
<1> QED
  BY <1>10 DEF F, A, B

(* Each call of on_publish that comes to its end is counted once, also when  *)
(* the publish it waits for is dropped or raises, and one that is cancelled  *)
(* in that publish is not counted (event_forward.py 97-146).                 *)
THEOREM ForwardsCorrect == Spec => []ForwardsCounted
<1>1. Types /\ CallsApart /\ Counted => ForwardsCounted
  BY CountsCorrect
<1> QED
  BY <1>1, TypesInit, TypesNext, ChainsInit, ChainsNext, ApartInit, ApartNext,
     LostInit, LostNext, CountedInit, CountedNext, PTL DEF Spec

(* The metrics count each publish that came so far once, and its error once; *)
(* one cancelled in its put is counted, and not as an error (metrics.py      *)
(* 212-224).                                                                 *)
THEOREM PublishesCorrect == Spec => []PublishesCounted
<1>1. Types /\ CallsApart /\ Counted => PublishesCounted
  BY CountsCorrect
<1> QED
  BY <1>1, TypesInit, TypesNext, ChainsInit, ChainsNext, ApartInit, ApartNext,
     LostInit, LostNext, CountedInit, CountedNext, PTL DEF Spec

-------------------------------------------------------------------------------
(* The window of the rate limit                                              *)

(* The bucket k ends the list a of what was admitted.  What it no longer has *)
(* is out of the window, and so is, for each entry, what lies as many places *)
(* before it as a window may hold.                                           *)
Rated(a, k, now, m) ==
  /\ \A i, j \in 1..Len(a) : i < j => a[i] <= a[j]
  /\ \A i \in 1..Len(a) : a[i] <= now
  /\ Len(k) <= Len(a)
  /\ \A i \in 1..Len(k) : k[i] = a[Len(a) - Len(k) + i]
  /\ \A i \in 1..(Len(a) - Len(k)) : a[i] < now - Window
  /\ \A i \in 1..Len(a) : i > m => a[i - m] < a[i] - Window

WindowKept == \A b \in Limited : Rated(admitted[b], bucket[b], clock, MaxRequests[b])

LEMMA SeqNat ==
  ASSUME NEW s \in Seq(Nat)
  PROVE  Len(s) \in Nat /\ \A i \in 1..Len(s) : s[i] \in Nat
BY SeqFacts

LEMMA RatedLater ==
  ASSUME NEW a \in Seq(Nat), NEW k \in Seq(Nat), NEW m \in Nat,
         NEW now \in Nat, NEW later \in Nat, now <= later, Rated(a, k, now, m)
  PROVE  Rated(a, k, later, m)
<1>1. Len(a) \in Nat /\ Len(k) \in Nat /\ Window \in Nat /\ \A i \in 1..Len(a) : a[i] \in Nat
  BY SeqNat, BoundsAssumption
<1>2. \A i \in 1..Len(a) : a[i] <= later
  BY <1>1 DEF Rated
<1>3. \A i \in 1..(Len(a) - Len(k)) : a[i] < later - Window
  <2> TAKE i \in 1..(Len(a) - Len(k))
  <2>1. i \in 1..Len(a) /\ a[i] < now - Window
    BY <1>1 DEF Rated
  <2> QED
    BY <1>1, <2>1
<1> QED
  BY <1>2, <1>3 DEF Rated

(* Stamps that are out of the window leave the bucket.                       *)
LEMMA RatedDrop ==
  ASSUME NEW a \in Seq(Nat), NEW k \in Seq(Nat), NEW m \in Nat, NEW now \in Nat, Rated(a, k, now, m),
         NEW r \in Seq(Nat), NEW n \in 0..Len(k), Len(r) = Len(k) - n,
         \A i \in 1..(Len(k) - n) : r[i] = k[n + i], \A i \in 1..n : k[i] < now - Window
  PROVE  Rated(a, r, now, m)
<1>1. Len(a) \in Nat /\ Len(k) \in Nat /\ n \in Nat /\ Len(k) <= Len(a) /\ n <= Len(k)
  BY SeqNat DEF Rated
<1>2. ASSUME NEW i \in 1..Len(r) PROVE r[i] = a[Len(a) - Len(r) + i]
  <2>1. n + i \in 1..Len(k) /\ i \in 1..(Len(k) - n)
    BY <1>1
  <2>2. r[i] = a[Len(a) - Len(k) + (n + i)]
    BY <2>1 DEF Rated
  <2>3. Len(a) - Len(k) + (n + i) = Len(a) - Len(r) + i
    BY <1>1
  <2> QED
    BY <2>2, <2>3
<1>3. ASSUME NEW i \in 1..(Len(a) - Len(r)) PROVE a[i] < now - Window
  <2>1. CASE i \in 1..(Len(a) - Len(k))
    BY <2>1 DEF Rated
  <2>2. CASE i \notin 1..(Len(a) - Len(k))
    <3> DEFINE j == i - (Len(a) - Len(k))
    <3>1. j \in 1..n /\ j \in 1..Len(k) /\ Len(a) - Len(k) + j = i
      BY <1>1, <2>2
    <3>2. k[j] = a[Len(a) - Len(k) + j] /\ k[j] < now - Window
      BY <3>1 DEF Rated
    <3> QED
      BY <3>1, <3>2
  <2> QED
    BY <2>1, <2>2
<1>4. Len(r) <= Len(a)
  BY <1>1
<1> QED
  BY <1>2, <1>3, <1>4 DEF Rated

(* A publish passes when the bucket is not full.                             *)
LEMMA RatedAdmit ==
  ASSUME NEW a \in Seq(Nat), NEW k \in Seq(Nat), NEW m \in Nat, NEW now \in Nat, Rated(a, k, now, m),
         Len(k) < m
  PROVE  Rated(a \o <<now>>, k \o <<now>>, now, m)
<1> DEFINE x == a \o <<now>>
           y == k \o <<now>>
<1>1. Len(a) \in Nat /\ Len(k) \in Nat /\ Window \in Nat \ {0} /\ Len(k) <= Len(a)
      /\ \A i \in 1..Len(a) : a[i] \in Nat
  BY SeqNat, BoundsAssumption DEF Rated
<1>2. x = Append(a, now) /\ y = Append(k, now)
  BY AppendIsConcat
<1>3. Len(x) = Len(a) + 1 /\ (\A i \in 1..Len(a) : x[i] = a[i]) /\ x[Len(a) + 1] = now
  BY <1>2, AppendProperties
<1>4. Len(y) = Len(k) + 1 /\ (\A i \in 1..Len(k) : y[i] = k[i]) /\ y[Len(k) + 1] = now
  BY <1>2, AppendProperties
<1> HIDE DEF x, y
<1>5. \A i \in 1..(Len(a) + 1) : i \in 1..Len(a) \/ i = Len(a) + 1
  BY <1>1
<1>6. ASSUME NEW i \in 1..Len(x) PROVE x[i] <= now /\ x[i] \in Nat
  <2>1. CASE i \in 1..Len(a)
    BY <1>1, <1>3, <2>1 DEF Rated
  <2>2. CASE i = Len(a) + 1
    BY <1>3, <2>2
  <2> QED
    BY <1>3, <1>5, <2>1, <2>2
<1>7. ASSUME NEW i \in 1..Len(x), NEW j \in 1..Len(x), i < j PROVE x[i] <= x[j]
  <2>1. i \in 1..Len(a)
    BY <1>1, <1>3, <1>7
  <2>2. CASE j \in 1..Len(a)
    BY <1>3, <1>7, <2>1, <2>2 DEF Rated
  <2>3. CASE j = Len(a) + 1
    BY <1>3, <1>6, <2>3
  <2> QED
    BY <1>3, <1>5, <2>2, <2>3
<1>8. ASSUME NEW i \in 1..Len(y) PROVE y[i] = x[Len(x) - Len(y) + i]
  <2>1. Len(x) - Len(y) + i = Len(a) - Len(k) + i
    BY <1>1, <1>3, <1>4
  <2>2. CASE i \in 1..Len(k)
    <3>1. Len(a) - Len(k) + i \in 1..Len(a)
      BY <1>1, <2>2
    <3> QED
      BY <1>3, <1>4, <2>1, <2>2, <3>1 DEF Rated
  <2>3. CASE i = Len(k) + 1
    <3>1. Len(a) - Len(k) + i = Len(a) + 1
      BY <1>1, <2>3
    <3> QED
      BY <1>3, <1>4, <2>1, <2>3, <3>1
  <2> QED
    BY <1>1, <1>4, <2>2, <2>3
<1>9. ASSUME NEW i \in 1..(Len(x) - Len(y)) PROVE x[i] < now - Window
  <2>1. i \in 1..Len(a) /\ i \in 1..(Len(a) - Len(k))
    BY <1>1, <1>3, <1>4
  <2> QED
    BY <1>3, <2>1 DEF Rated
<1>10. ASSUME NEW i \in 1..Len(x), i > m PROVE x[i - m] < x[i] - Window
  <2>1. CASE i \in 1..Len(a)
    <3>1. i - m \in 1..Len(a)
      BY <1>1, <1>10, <2>1
    <3> QED
      BY <1>3, <1>10, <2>1, <3>1 DEF Rated
  <2>2. CASE i = Len(a) + 1
    <3>1. i - m \in 1..(Len(a) - Len(k)) /\ i - m \in 1..Len(a)
      BY <1>1, <1>10, <2>2
    <3> QED
      BY <1>3, <2>2, <3>1 DEF Rated
  <2> QED
    BY <1>3, <1>5, <2>1, <2>2
<1>11. Len(y) <= Len(x)
  BY <1>1, <1>3, <1>4
<1>12. Rated(x, y, now, m)
  BY <1>6, <1>7, <1>8, <1>9, <1>10, <1>11 DEF Rated
<1> QED
  BY <1>12 DEF x, y

LEMMA WindowInit == Init => WindowKept
BY DEF Init, WindowKept, Rated

LEMMA WindowPass ==
  ASSUME Types, WindowKept, NEW e \in EventType, Pass(e), clock' = clock
  PROVE  WindowKept'
<1> SUFFICES ASSUME NEW b \in Limited
             PROVE  Rated(admitted'[b], bucket'[b], clock', MaxRequests[b])
  BY DEF WindowKept
<1> DEFINE a == admitted[b]
           k == bucket[b]
           r == Recent(b)
           m == MaxRequests[b]
<1>1. StampsTyped /\ a \in Seq(Nat) /\ k \in Seq(Nat) /\ clock \in Nat /\ m \in Nat
  BY BoundsAssumption DEF Types, StampsTyped
<1>2. Rated(a, k, clock, m)
  BY DEF WindowKept
<1>3. \/ bucket'[b] = r \o Lets(b) /\ admitted'[b] = a \o Lets(b)
      \/ bucket'[b] = k /\ admitted'[b] = a
  BY <1>1, PassStamps
<1>4. CASE bucket'[b] = r \o Lets(b) /\ admitted'[b] = a \o Lets(b)
  <2>1. PICK n : Drops(b, n)
    BY <1>1, RecentFacts
  <2>2. r \in Seq(Nat) /\ Rated(a, r, clock, m)
    BY <1>1, <1>2, <2>1, RatedDrop DEF Drops
  <2>3. CASE Exhausted(b)
    <3>1. Lets(b) = <<>>
      BY <2>3 DEF Lets
    <3>2. r \o <<>> = r /\ a \o <<>> = a
      BY <1>1, <2>2, ConcatEmptySeq
    <3> QED
      BY <1>4, <2>2, <3>1, <3>2
  <2>4. CASE ~Exhausted(b)
    <3>1. Lets(b) = <<clock>> /\ Len(r) < m
      BY <1>1, <2>2, <2>4, SeqNat DEF Lets, Exhausted
    <3> HIDE DEF a, r, m
    <3>2. Rated(a \o <<clock>>, r \o <<clock>>, clock, m)
      BY <1>1, <2>2, <3>1, RatedAdmit
    <3> QED
      BY <1>4, <3>1, <3>2 DEF m
  <2> QED
    BY <2>3, <2>4
<1>5. CASE bucket'[b] = k /\ admitted'[b] = a
  BY <1>2, <1>5
<1> QED
  BY <1>3, <1>4, <1>5

LEMMA WindowNext == Types /\ WindowKept /\ [Next]_vars => WindowKept'
<1> SUFFICES ASSUME Types, WindowKept, [Next]_vars PROVE WindowKept'
  OBVIOUS
<1>1. ASSUME NEW p \in Publishers, NEW n \in NamesOf[p], Publish(p, n) PROVE WindowKept'
  <2>1. First(p, n) \in EventType /\ Pass(First(p, n)) /\ clock' = clock
    BY <1>1, PublishEffect DEF Publish, First
  <2> QED
    BY <2>1, WindowPass
<1>2. ASSUME NEW e \in tasks, React(e) PROVE WindowKept'
  <2>1. Again(e) \in EventType /\ Pass(Again(e)) /\ clock' = clock
    BY <1>2, ReactEffect DEF React, Again
  <2> QED
    BY <2>1, WindowPass
<1>3. ASSUME NEW c \in calls, Forward(c) PROVE WindowKept'
  <2>1. Copy(c.event) \in EventType /\ Pass(Copy(c.event)) /\ clock' = clock
    BY <1>3, ForwardEffect DEF Forward
  <2> QED
    BY <2>1, WindowPass
<1>4. CASE Tick
  <2> SUFFICES ASSUME NEW b \in Limited
               PROVE  Rated(admitted'[b], bucket'[b], clock', MaxRequests[b])
    BY DEF WindowKept
  <2>1. /\ admitted[b] \in Seq(Nat) /\ bucket[b] \in Seq(Nat) /\ clock \in Nat /\ MaxRequests[b] \in Nat
        /\ admitted' = admitted /\ bucket' = bucket /\ clock' \in Nat /\ clock <= clock'
    BY <1>4, BoundsAssumption DEF Tick, Types, StampsTyped
  <2> QED
    BY <2>1, RatedLater DEF WindowKept
<1>5. ASSUME UNCHANGED <<bucket, admitted, clock>> PROVE WindowKept'
  BY <1>5 DEF WindowKept
<1>6. ASSUME NEW c \in calls, Put(c) \/ Skip(c) \/ Return(c) \/ Cancel(c) PROVE WindowKept'
  BY <1>5, <1>6 DEF Put, Skip, Return, Cancel
<1>7. ASSUME NEW b \in Buses, Dispatch(b) \/ Shift(b) PROVE WindowKept'
  BY <1>5, <1>7 DEF Dispatch, Shift, Stop, EndDispatch, Stopped, Start, Moved
<1>8. CASE UNCHANGED vars
  BY <1>5, <1>8 DEF vars
<1>9. ASSUME NEW e \in tasks, NeverReacts(e) PROVE WindowKept'
  BY <1>5, <1>9 DEF NeverReacts
<1> QED
  BY <1>1, <1>2, <1>3, <1>4, <1>6, <1>7, <1>8, <1>9 DEF Next, Step, Shift

LEMMA RatedWindow ==
  ASSUME NEW a \in Seq(Nat), NEW k \in Seq(Nat), NEW m \in Nat, NEW now \in Nat, Rated(a, k, now, m),
         NEW t \in Nat
  PROVE  Cardinality({i \in 1..Len(a) : a[i] \in t..(t + Window)}) <= m
<1> DEFINE S == {i \in 1..Len(a) : a[i] \in t..(t + Window)}
<1>1. Len(a) \in Nat /\ Window \in Nat /\ \A i \in 1..Len(a) : a[i] \in Nat
  BY SeqNat, BoundsAssumption
<1>2. CASE S = {}
  <2>1. Cardinality(S) = 0
    BY <1>2, FS_EmptySet
  <2> HIDE DEF S
  <2>2. Cardinality(S) <= m
    BY <2>1
  <2> QED
    BY <2>2 DEF S
<1>3. CASE S # {}
  <2>1. S \in SUBSET Nat
    BY <1>1
  <2>2. \A i \in S : i \in 1..Len(a) /\ t <= a[i] /\ a[i] <= t + Window
    BY <1>1
  <2> HIDE DEF S
  <2>3. PICK f \in S : \A i \in S : f <= i
    BY <1>3, <2>1, Least
  <2>4. ASSUME NEW i \in S, i >= f + m PROVE FALSE
    <3>1. i \in 1..Len(a) /\ f \in 1..Len(a) /\ i - m \in 1..Len(a) /\ i - m >= f
      BY <1>1, <2>2, <2>4
    <3>2. i > m
      BY <3>1
    <3>3. a[i - m] < a[i] - Window
      BY <3>1, <3>2 DEF Rated
    <3>4. a[f] <= a[i - m]
      BY <1>1, <3>1 DEF Rated
    <3>5. t <= a[f] /\ a[i] <= t + Window
      BY <2>2
    <3>6. a[f] \in Nat /\ a[i] \in Nat /\ a[i - m] \in Nat
      BY <1>1, <3>1
    <3> QED
      BY <1>1, <3>3, <3>4, <3>5, <3>6
  <2>5. f \in Nat /\ \A i \in S : i \in Nat
    BY <2>1
  <2>6. S \in SUBSET (f..(f + m - 1))
    BY <2>3, <2>4, <2>5
  <2>7. /\ IsFiniteSet(f..(f + m - 1))
        /\ Cardinality(f..(f + m - 1)) = IF f > f + m - 1 THEN 0 ELSE (f + m - 1) - f + 1
    <3>1. f \in Int /\ f + m - 1 \in Int
      BY <2>5
    <3> QED
      BY <3>1, FS_Interval
  <2>8. Cardinality(f..(f + m - 1)) = m
    BY <2>5, <2>7
  <2> QED
    BY <2>6, <2>7, <2>8, FS_Subset DEF S
<1> QED
  BY <1>2, <1>3

(* The rate limit holds over every window of time, not only over those it    *)
(* has looked at (rate_limit.py 77-91).                                      *)
THEOREM WindowCorrect == Spec => []WindowRespected
<1>1. Types /\ WindowKept => WindowRespected
  <2> SUFFICES ASSUME Types, WindowKept, NEW b \in Limited, NEW t \in 0..MaxTime
               PROVE  Cardinality({i \in 1..Len(admitted[b]) : admitted[b][i] \in t..(t + Window)})
                        <= MaxRequests[b]
    BY DEF WindowRespected
  <2>1. /\ admitted[b] \in Seq(Nat) /\ bucket[b] \in Seq(Nat) /\ clock \in Nat
        /\ MaxRequests[b] \in Nat /\ t \in Nat
    BY BoundsAssumption DEF Types, StampsTyped
  <2> QED
    BY <2>1, RatedWindow DEF WindowKept
<1> QED
  BY <1>1, TypesInit, TypesNext, WindowInit, WindowNext, PTL DEF Spec

===============================================================================
