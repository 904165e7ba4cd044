--------------------------- MODULE MiddlewareChainProofs ---------------------------
(***************************************************************************)
(* The hooks of a chain come in pairs, for any number of middlewares,      *)
(* callers and buses, if only adds, inserts and removes overlap or are     *)
(* cancelled; and a chain of one bus follows it.                           *)
(***************************************************************************)
EXTENDS MiddlewareChain, SequenceTheorems, TLAPS

USE NoBusAssumption

-------------------------------------------------------------------------------
(* What the operators on sequences do to the elements of a list.             *)

LEMMA SeqFacts ==
  ASSUME NEW S, NEW s \in Seq(S)
  PROVE  DOMAIN s = 1..Len(s) /\ Len(s) \in Nat /\ ToSet(s) \subseteq S /\ (s = <<>> <=> ToSet(s) = {})
<1>1. DOMAIN s = 1..Len(s) /\ Len(s) \in Nat
  BY LenProperties
<1>2. ToSet(s) \subseteq S
  BY <1>1, ElementOfSeq DEF ToSet
<1>3. s # <<>> => ToSet(s) # {}
  <2> SUFFICES ASSUME s # <<>> PROVE ToSet(s) # {}
    OBVIOUS
  <2>1. Len(s) > 0
    BY <1>1, EmptySeq
  <2>2. 1 \in DOMAIN s
    BY <1>1, <2>1
  <2> QED
    BY <2>2 DEF ToSet
<1>4. ToSet(<<>>) = {}
  BY DEF ToSet
<1> QED
  BY <1>1, <1>2, <1>3, <1>4

(* r is s with m put in at p: what is not m keeps its order.                 *)
PutIn(r, s, p, m) ==
  /\ Len(r) = Len(s) + 1 /\ p \in 1..Len(r) /\ r[p] = m
  /\ \A i \in 1..Len(s) : r[IF i < p THEN i ELSE i + 1] = s[i]

LEMMA PutInOrder ==
  ASSUME NEW S, NEW s \in Seq(S), NEW r \in Seq(S), NEW p, NEW m, PutIn(r, s, p, m)
  PROVE  SameBut({m}, r, s)
<1>1. /\ DOMAIN s = 1..Len(s) /\ Len(s) \in Nat /\ DOMAIN r = 1..(Len(s) + 1)
      /\ p \in 1..(Len(s) + 1)
  BY SeqFacts DEF PutIn
<1>2. \A i \in 1..Len(s) : /\ i < p => i \in 1..(Len(s) + 1) /\ r[i] = s[i]
                           /\ ~(i < p) => i + 1 \in 1..(Len(s) + 1) /\ r[i + 1] = s[i]
  BY <1>1 DEF PutIn
<1>3. \A i \in 1..(Len(s) + 1) : /\ i < p => i \in 1..Len(s)
                                 /\ i > p => i - 1 \in 1..Len(s) /\ ~(i - 1 < p) /\ (i - 1) + 1 = i
                                 /\ i = p \/ i < p \/ i > p
  BY <1>1
<1> SUFFICES ASSUME NEW a \in Middlewares \ {m}, NEW b \in Middlewares \ {m}
             PROVE  Precedes(r, a, b) <=> Precedes(s, a, b)
  BY DEF SameBut
<1>4. ASSUME Precedes(s, a, b) PROVE Precedes(r, a, b)
  <2>1. PICK i \in 1..Len(s), j \in 1..Len(s) : i <= j /\ s[i] = a /\ s[j] = b
    BY <1>1, <1>4 DEF Precedes
  <2> DEFINE k == IF i < p THEN i ELSE i + 1
             l == IF j < p THEN j ELSE j + 1
  <2>2. k \in 1..(Len(s) + 1) /\ r[k] = a /\ l \in 1..(Len(s) + 1) /\ r[l] = b
    BY <1>2, <2>1
  <2>3. k <= l
    BY <1>1, <2>1
  <2> QED
    BY <1>1, <2>2, <2>3 DEF Precedes
<1>5. ASSUME Precedes(r, a, b) PROVE Precedes(s, a, b)
  <2>1. PICK i \in 1..(Len(s) + 1), j \in 1..(Len(s) + 1) : i <= j /\ r[i] = a /\ r[j] = b
    BY <1>1, <1>5 DEF Precedes
  <2>2. i # p /\ j # p
    BY <2>1 DEF PutIn
  <2> DEFINE k == IF i < p THEN i ELSE i - 1
             l == IF j < p THEN j ELSE j - 1
  <2>3. k \in 1..Len(s) /\ s[k] = a
    BY <1>2, <1>3, <2>1, <2>2
  <2>4. l \in 1..Len(s) /\ s[l] = b
    BY <1>2, <1>3, <2>1, <2>2
  <2>5. k <= l
    BY <1>1, <2>1, <2>2
  <2> QED
    BY <1>1, <2>3, <2>4, <2>5 DEF Precedes
<1> QED
  BY <1>4, <1>5

LEMMA AppendFacts ==
  ASSUME NEW S, NEW s \in Seq(S), NEW e \in S
  PROVE  /\ Append(s, e) \in Seq(S) /\ ToSet(Append(s, e)) = ToSet(s) \cup {e}
         /\ NoRepeat(s) /\ e \notin ToSet(s) => NoRepeat(Append(s, e))
         /\ SameBut({e}, Append(s, e), s)
<1> DEFINE a == Append(s, e)
<1>1. a \in Seq(S) /\ Len(a) = Len(s) + 1 /\ (\A i \in 1..Len(s) : a[i] = s[i]) /\ a[Len(s) + 1] = e
  BY AppendProperties
<1>2. DOMAIN s = 1..Len(s) /\ Len(s) \in Nat
  BY SeqFacts
<1>3. DOMAIN a = 1..(Len(s) + 1)
  BY <1>1, SeqFacts
<1> HIDE DEF a
<1>4. \A i \in 1..(Len(s) + 1) : i \in 1..Len(s) \/ i = Len(s) + 1
  BY <1>2
<1>5. 1..Len(s) \subseteq 1..(Len(s) + 1) /\ Len(s) + 1 \in 1..(Len(s) + 1)
  BY <1>2
<1>6. ToSet(a) = ToSet(s) \cup {e}
  BY <1>1, <1>2, <1>3, <1>4, <1>5 DEF ToSet
<1>7. NoRepeat(s) /\ e \notin ToSet(s) => NoRepeat(a)
  BY <1>1, <1>2, <1>3, <1>4 DEF NoRepeat, ToSet
<1>8. PutIn(a, s, Len(s) + 1, e)
  BY <1>1, <1>2 DEF PutIn
<1>9. SameBut({e}, a, s)
  BY <1>1, <1>8, PutInOrder
<1> QED
  BY <1>1, <1>6, <1>7, <1>9 DEF a

LEMMA AppendElements ==
  ASSUME NEW S, NEW s \in Seq(S), NEW e \in S
  PROVE  /\ Append(s, e) \in Seq(S) /\ ToSet(Append(s, e)) = ToSet(s) \cup {e}
         /\ NoRepeat(s) /\ e \notin ToSet(s) => NoRepeat(Append(s, e))
BY AppendFacts

LEMMA TailElements ==
  ASSUME NEW S, NEW s \in Seq(S), s # <<>>
  PROVE  /\ Head(s) \in S /\ Tail(s) \in Seq(S) /\ ToSet(s) = {Head(s)} \cup ToSet(Tail(s))
         /\ NoRepeat(s) => NoRepeat(Tail(s)) /\ Head(s) \notin ToSet(Tail(s))
<1>1. Head(s) \in S /\ Tail(s) \in Seq(S) /\ Len(Tail(s)) = Len(s) - 1
      /\ (\A i \in 1..Len(Tail(s)) : Tail(s)[i] = s[i + 1])
  BY HeadTailProperties
<1>2. DOMAIN s = 1..Len(s) /\ Len(s) \in Nat /\ Head(s) = s[1]
  BY SeqFacts
<1>3. Len(s) > 0
  BY <1>2, EmptySeq
<1>4. DOMAIN Tail(s) = 1..(Len(s) - 1)
  BY <1>1, SeqFacts
<1> DEFINE t == Tail(s)
<1>5. \A i \in 1..(Len(s) - 1) : t[i] = s[i + 1] /\ i + 1 \in 1..Len(s) /\ i + 1 # 1
  BY <1>1, <1>2
<1>6. \A i \in 1..Len(s) : i = 1 \/ (i - 1 \in 1..(Len(s) - 1) /\ t[i - 1] = s[i])
  <2> SUFFICES ASSUME NEW i \in 1..Len(s), i # 1 PROVE i - 1 \in 1..(Len(s) - 1) /\ t[i - 1] = s[i]
    OBVIOUS
  <2>1. i - 1 \in 1..(Len(s) - 1) /\ (i - 1) + 1 = i
    BY <1>2
  <2> QED
    BY <2>1, <1>5
<1>7. 1 \in 1..Len(s)
  BY <1>2, <1>3
<1> HIDE DEF t
<1>8. DOMAIN t = 1..(Len(s) - 1)
  BY <1>4 DEF t
<1>9. ToSet(s) = {Head(s)} \cup ToSet(t)
  <2>1. \A m \in ToSet(t) : m \in ToSet(s)
    BY <1>2, <1>5, <1>8 DEF ToSet
  <2>2. \A m \in ToSet(s) : m = Head(s) \/ m \in ToSet(t)
    BY <1>2, <1>6, <1>8 DEF ToSet
  <2>3. Head(s) \in ToSet(s)
    BY <1>2, <1>7 DEF ToSet
  <2> QED
    BY <2>1, <2>2, <2>3
<1>10. ASSUME NoRepeat(s) PROVE NoRepeat(t) /\ Head(s) \notin ToSet(t)
  <2>1. NoRepeat(t)
    <3> SUFFICES ASSUME NEW i \in 1..(Len(s) - 1), NEW j \in 1..(Len(s) - 1), t[i] = t[j] PROVE i = j
      BY <1>8 DEF NoRepeat
    <3>1. i + 1 = j + 1
      BY <1>2, <1>5, <1>10 DEF NoRepeat
    <3> QED
      BY <3>1
  <2>2. Head(s) \notin ToSet(t)
    BY <1>2, <1>5, <1>7, <1>8, <1>10 DEF NoRepeat, ToSet
  <2> QED
    BY <2>1, <2>2
<1> QED
  BY <1>1, <1>9, <1>10 DEF t

LEMMA ReverseElements ==
  ASSUME NEW S, NEW s \in Seq(S)
  PROVE  Reverse(s) \in Seq(S) /\ ToSet(Reverse(s)) = ToSet(s)
<1>1. DOMAIN s = 1..Len(s) /\ Len(s) \in Nat
  BY SeqFacts
<1>2. \A i \in 1..Len(s) : (Len(s) - i) + 1 \in 1..Len(s) /\ (Len(s) - ((Len(s) - i) + 1)) + 1 = i
  BY <1>1
<1>3. \A i \in 1..Len(s) : s[i] \in S
  BY ElementOfSeq
<1>4. Reverse(s) = [i \in 1..Len(s) |-> s[(Len(s) - i) + 1]]
  BY DEF Reverse
<1>5. Reverse(s) \in Seq(S)
  BY <1>1, <1>2, <1>3, <1>4, IsASeq
<1>6. \A m : m \in ToSet(Reverse(s)) => m \in ToSet(s)
  BY <1>1, <1>2, <1>4 DEF ToSet
<1>7. ASSUME NEW i \in 1..Len(s) PROVE s[i] \in ToSet(Reverse(s))
  <2>1. Reverse(s)[(Len(s) - i) + 1] = s[i]
    BY <1>2, <1>4
  <2> QED
    BY <2>1, <1>2, <1>4 DEF ToSet
<1>8. ToSet(s) \subseteq ToSet(Reverse(s))
  BY <1>1, <1>7 DEF ToSet
<1> QED
  BY <1>5, <1>6, <1>8

LEMMA InsertFacts ==
  ASSUME NEW S, NEW s \in Seq(S), NEW e \in S, NEW p \in 1..Len(s)
  PROVE  /\ InsertAt(s, p, e) \in Seq(S) /\ ToSet(InsertAt(s, p, e)) = ToSet(s) \cup {e}
         /\ NoRepeat(s) /\ e \notin ToSet(s) => NoRepeat(InsertAt(s, p, e))
         /\ SameBut({e}, InsertAt(s, p, e), s)
<1> DEFINE before == SubSeq(s, 1, p - 1)
           after == SubSeq(s, p, Len(s))
           r == before \o <<e>> \o after
<1>1. DOMAIN s = 1..Len(s) /\ Len(s) \in Nat /\ \A i \in 1..Len(s) : s[i] \in S
  BY SeqFacts, ElementOfSeq
<1>2. p \in Nat /\ 1 <= p /\ p <= Len(s) /\ p - 1 \in Int
  BY <1>1
<1>3. before \in Seq(S) /\ Len(before) = p - 1 /\ \A i \in 1..(p - 1) : before[i] = s[i]
  <2>1. \A i \in 1..(p - 1) : s[i] \in S
    BY <1>1, <1>2
  <2>2. before \in Seq(S) /\ Len(before) = (IF 1 <= p - 1 THEN (p - 1) - 1 + 1 ELSE 0)
        /\ \A i \in 1..((p - 1) - 1 + 1) : before[i] = s[1 + i - 1]
    BY <2>1, <1>2, SubSeqProperties
  <2> QED
    BY <2>2, <1>2
<1>4. after \in Seq(S) /\ Len(after) = Len(s) - p + 1
      /\ \A i \in 1..(Len(s) - p + 1) : after[i] = s[p + i - 1]
  <2>1. \A i \in p..Len(s) : s[i] \in S
    BY <1>1, <1>2
  <2>2. after \in Seq(S) /\ Len(after) = (IF p <= Len(s) THEN Len(s) - p + 1 ELSE 0)
        /\ \A i \in 1..(Len(s) - p + 1) : after[i] = s[p + i - 1]
    BY <2>1, <1>1, <1>2, SubSeqProperties
  <2> QED
    BY <2>2, <1>2
<1> HIDE DEF before, after
<1>5. <<e>> \in Seq(S) /\ Len(<<e>>) = 1 /\ <<e>>[1] = e
  OBVIOUS
<1> DEFINE front == before \o <<e>>
<1>6. front \in Seq(S) /\ Len(front) = p
      /\ \A i \in 1..p : front[i] = IF i <= p - 1 THEN before[i] ELSE <<e>>[i - (p - 1)]
  BY <1>2, <1>3, <1>5, ConcatProperties
<1>7. (\A i \in 1..(p - 1) : front[i] = s[i]) /\ front[p] = e
  BY <1>2, <1>3, <1>5, <1>6
<1> HIDE DEF front
<1>8. r \in Seq(S) /\ Len(r) = Len(s) + 1
      /\ \A i \in 1..(Len(s) + 1) : r[i] = IF i <= p THEN front[i] ELSE after[i - p]
  <2>1. front \o after \in Seq(S) /\ Len(front \o after) = Len(front) + Len(after)
        /\ \A i \in 1..(Len(front) + Len(after)) :
             (front \o after)[i] = IF i <= Len(front) THEN front[i] ELSE after[i - Len(front)]
    BY <1>4, <1>6, ConcatProperties
  <2>2. Len(front) + Len(after) = Len(s) + 1
    BY <1>1, <1>2, <1>4, <1>6
  <2> QED
    BY <2>1, <2>2, <1>6 DEF front
<1> HIDE DEF r
<1>9. (\A i \in 1..(p - 1) : r[i] = s[i]) /\ r[p] = e /\ (\A i \in (p + 1)..(Len(s) + 1) : r[i] = s[i - 1])
  <2>1. \A i \in (p + 1)..(Len(s) + 1) : r[i] = after[i - p] /\ i - p \in 1..(Len(s) - p + 1)
                                       /\ p + (i - p) - 1 = i - 1
    BY <1>1, <1>2, <1>8
  <2>2. \A i \in (p + 1)..(Len(s) + 1) : r[i] = s[i - 1]
    BY <2>1, <1>4
  <2>3. \A i \in 1..p : i \in 1..(Len(s) + 1) /\ i <= p
    BY <1>1, <1>2
  <2>4. \A i \in 1..p : r[i] = front[i]
    BY <2>3, <1>8
  <2>5. p \in 1..p /\ \A i \in 1..(p - 1) : i \in 1..p
    BY <1>2
  <2> QED
    BY <2>2, <2>4, <2>5, <1>7
<1>10. DOMAIN r = 1..(Len(s) + 1)
  BY <1>8, SeqFacts
<1>11. \A i \in 1..(Len(s) + 1) :
         \/ i \in 1..(p - 1) /\ i \in 1..Len(s) /\ r[i] = s[i]
         \/ i = p
         \/ i > p /\ i - 1 \in 1..Len(s) /\ r[i] = s[i - 1]
  BY <1>1, <1>2, <1>9
<1>12. ToSet(r) = ToSet(s) \cup {e}
  <2>1. \A m \in ToSet(r) : m \in ToSet(s) \/ m = e
    BY <1>1, <1>9, <1>10, <1>11 DEF ToSet
  <2>2. e \in ToSet(r)
    BY <1>1, <1>2, <1>9, <1>10 DEF ToSet
  <2>3. ASSUME NEW i \in 1..Len(s) PROVE s[i] \in ToSet(r)
    <3>1. i < p => i \in 1..(p - 1) /\ i \in 1..(Len(s) + 1)
      BY <1>1, <1>2
    <3>2. i >= p => i + 1 \in (p + 1)..(Len(s) + 1) /\ i + 1 \in 1..(Len(s) + 1) /\ (i + 1) - 1 = i
      BY <1>1, <1>2
    <3>3. i < p \/ i >= p
      BY <1>1, <1>2
    <3> QED
      BY <3>1, <3>2, <3>3, <1>9, <1>10 DEF ToSet
  <2>4. \A m \in ToSet(s) : m \in ToSet(r)
    BY <2>3, <1>1 DEF ToSet
  <2> QED
    BY <2>1, <2>2, <2>4
<1>13. ASSUME NoRepeat(s), e \notin ToSet(s) PROVE NoRepeat(r)
  <2> SUFFICES ASSUME NEW i \in 1..(Len(s) + 1), NEW j \in 1..(Len(s) + 1), r[i] = r[j] PROVE i = j
    BY <1>10 DEF NoRepeat
  <2>1. \A k \in 1..Len(s) : s[k] # e
    BY <1>1, <1>13 DEF ToSet
  <2>2. \A k, l \in 1..Len(s) : s[k] = s[l] => k = l
    BY <1>1, <1>13 DEF NoRepeat
  <2>3. CASE i = p \/ j = p
    BY <2>1, <2>3, <1>9, <1>11
  <2>4. CASE i # p /\ j # p
    <3> DEFINE k == IF i > p THEN i - 1 ELSE i
               l == IF j > p THEN j - 1 ELSE j
    <3>1. k \in 1..Len(s) /\ r[i] = s[k] /\ l \in 1..Len(s) /\ r[j] = s[l]
      BY <2>4, <1>2, <1>11
    <3>2. k = l
      BY <3>1, <2>2
    <3> QED
      BY <3>2, <2>4, <1>1, <1>2
  <2> QED
    BY <2>3, <2>4
<1>14. InsertAt(s, p, e) = r
  BY DEF InsertAt, r, before, after
<1>15. PutIn(r, s, p, e)
  <2> SUFFICES ASSUME NEW i \in 1..Len(s) PROVE r[IF i < p THEN i ELSE i + 1] = s[i]
    BY <1>1, <1>2, <1>8, <1>9 DEF PutIn
  <2>1. i < p => i \in 1..(p - 1)
    BY <1>1, <1>2
  <2>2. ~(i < p) => i + 1 \in (p + 1)..(Len(s) + 1) /\ (i + 1) - 1 = i
    BY <1>1, <1>2
  <2> QED
    BY <1>9, <2>1, <2>2
<1>16. SameBut({e}, r, s)
  BY <1>8, <1>15, PutInOrder
<1> QED
  BY <1>8, <1>12, <1>13, <1>14, <1>16

LEMMA InsertElements ==
  ASSUME NEW S, NEW s \in Seq(S), NEW e \in S, NEW p \in 1..Len(s)
  PROVE  /\ InsertAt(s, p, e) \in Seq(S) /\ ToSet(InsertAt(s, p, e)) = ToSet(s) \cup {e}
         /\ NoRepeat(s) /\ e \notin ToSet(s) => NoRepeat(InsertAt(s, p, e))
<1> DEFINE r == InsertAt(s, p, e)
<1>1. /\ r \in Seq(S) /\ ToSet(r) = ToSet(s) \cup {e}
      /\ NoRepeat(s) /\ e \notin ToSet(s) => NoRepeat(r)
      /\ SameBut({e}, r, s)
  BY InsertFacts, ZenonT(20)
<1> QED
  BY <1>1

LEMMA RemoveElements ==
  ASSUME NEW S, NEW s \in Seq(S), NoRepeat(s), NEW m
  PROVE  /\ RemoveFirst(s, m) \in Seq(S) /\ NoRepeat(RemoveFirst(s, m))
         /\ ToSet(RemoveFirst(s, m)) = ToSet(s) \ {m}
         /\ SameBut({m}, s, RemoveFirst(s, m))
<1>1. DOMAIN s = 1..Len(s) /\ Len(s) \in Nat /\ \A i \in 1..Len(s) : s[i] \in S
  BY SeqFacts, ElementOfSeq
<1>2. CASE \A i \in 1..Len(s) : s[i] # m
  <2>1. RemoveFirst(s, m) = s
    BY <1>2 DEF RemoveFirst
  <2>2. m \notin ToSet(s)
    BY <1>1, <1>2 DEF ToSet
  <2>3. SameBut({m}, s, s)
    BY DEF SameBut
  <2> QED
    BY <2>1, <2>2, <2>3
<1>3. CASE \E i \in 1..Len(s) : s[i] = m
  <2>3. PICK p \in 1..Len(s) : s[p] = m
    BY <1>3
  <2>4. RemoveFirst(s, m) = RemoveAt(s, p)
    <3>1. {i \in 1..Len(s) : s[i] = m} = {p}
      BY <2>3, <1>1 DEF NoRepeat
    <3>2. Min({p}) = p
      BY DEF Min
    <3>3. SelectInSeq(s, LAMBDA v : v = m) = p
      BY <3>1, <3>2 DEF SelectInSeq
    <3> QED
      BY <1>3, <3>3 DEF RemoveFirst
  <2> DEFINE before == SubSeq(s, 1, p - 1)
             after == SubSeq(s, p + 1, Len(s))
             r == before \o after
  <2>5. p \in Nat /\ 1 <= p /\ p <= Len(s) /\ p - 1 \in Int
    BY <1>1, <2>3
  <2>6. before \in Seq(S) /\ Len(before) = p - 1 /\ \A i \in 1..(p - 1) : before[i] = s[i]
    <3>1. \A i \in 1..(p - 1) : s[i] \in S
      BY <1>1, <2>5
    <3>2. before \in Seq(S) /\ Len(before) = (IF 1 <= p - 1 THEN (p - 1) - 1 + 1 ELSE 0)
          /\ \A i \in 1..((p - 1) - 1 + 1) : before[i] = s[1 + i - 1]
      BY <3>1, <2>5, SubSeqProperties
    <3> QED
      BY <3>2, <2>5
  <2>7. after \in Seq(S) /\ Len(after) = Len(s) - p /\ \A i \in 1..(Len(s) - p) : after[i] = s[p + i]
    <3>1. (\A i \in (p + 1)..Len(s) : s[i] \in S) /\ p + 1 \in Int /\ Len(s) \in Int
      BY <1>1, <2>5
    <3>2. after \in Seq(S) /\ Len(after) = (IF p + 1 <= Len(s) THEN Len(s) - (p + 1) + 1 ELSE 0)
          /\ \A i \in 1..(Len(s) - (p + 1) + 1) : after[i] = s[(p + 1) + i - 1]
      BY <3>1, SubSeqProperties
    <3>3. Len(s) - (p + 1) + 1 = Len(s) - p /\ (p + 1 <= Len(s) \/ Len(s) - p = 0)
      <4>1. ASSUME NEW n \in Nat, NEW q \in Nat, q <= n
            PROVE  n - (q + 1) + 1 = n - q /\ (q + 1 <= n \/ n - q = 0)
        BY <4>1
      <4> QED
        BY <4>1, <1>1, <2>5
    <3>4. \A i \in 1..(Len(s) - p) : (p + 1) + i - 1 = p + i
      BY <1>1, <2>5
    <3> QED
      BY <3>2, <3>3, <3>4
  <2> HIDE DEF before, after
  <2>8. r \in Seq(S) /\ Len(r) = Len(s) - 1
        /\ \A i \in 1..(Len(s) - 1) : r[i] = IF i <= p - 1 THEN before[i] ELSE after[i - (p - 1)]
    <3>1. r \in Seq(S) /\ Len(r) = Len(before) + Len(after)
          /\ \A i \in 1..(Len(before) + Len(after)) :
               r[i] = IF i <= Len(before) THEN before[i] ELSE after[i - Len(before)]
      BY <2>6, <2>7, ConcatProperties
    <3>2. Len(before) + Len(after) = Len(s) - 1
      BY <1>1, <2>5, <2>6, <2>7
    <3> QED
      BY <3>1, <3>2, <2>6
  <2> HIDE DEF r
  <2>9. \A i \in 1..(Len(s) - 1) :
          \/ i < p /\ i \in 1..Len(s) /\ r[i] = s[i]
          \/ i >= p /\ i + 1 \in 1..Len(s) /\ r[i] = s[i + 1]
    <3> SUFFICES ASSUME NEW i \in 1..(Len(s) - 1)
                 PROVE  \/ i < p /\ i \in 1..Len(s) /\ r[i] = s[i]
                        \/ i >= p /\ i + 1 \in 1..Len(s) /\ r[i] = s[i + 1]
      OBVIOUS
    <3>1. CASE i < p
      <4>1. i \in 1..(p - 1) /\ i <= p - 1 /\ i \in 1..Len(s)
        BY <3>1, <1>1, <2>5
      <4> QED
        BY <3>1, <4>1, <2>6, <2>8
    <3>2. CASE i >= p
      <4>1. i - (p - 1) \in 1..(Len(s) - p) /\ p + (i - (p - 1)) = i + 1 /\ ~(i <= p - 1) /\ i + 1 \in 1..Len(s)
        BY <3>2, <1>1, <2>5
      <4> QED
        BY <3>2, <4>1, <2>7, <2>8
    <3> QED
      BY <3>1, <3>2, <2>5
  <2>10. DOMAIN r = 1..(Len(s) - 1)
    BY <2>8, SeqFacts
  <2>11. NoRepeat(r) /\ ToSet(r) = ToSet(s) \ {m}
    <3>1. \A k, l \in 1..Len(s) : s[k] = s[l] => k = l
      BY <1>1 DEF NoRepeat
    <3>2. NoRepeat(r)
      <4> SUFFICES ASSUME NEW i \in 1..(Len(s) - 1), NEW j \in 1..(Len(s) - 1), r[i] = r[j] PROVE i = j
        BY <2>10 DEF NoRepeat
      <4> DEFINE k == IF i < p THEN i ELSE i + 1
                 l == IF j < p THEN j ELSE j + 1
      <4>1. k \in 1..Len(s) /\ r[i] = s[k] /\ l \in 1..Len(s) /\ r[j] = s[l]
        BY <2>5, <2>9
      <4>2. k = l
        BY <4>1, <3>1
      <4> QED
        BY <4>2, <1>1, <2>5
    <3>3. \A i \in 1..(Len(s) - 1) : r[i] \in ToSet(s) /\ r[i] # m
      <4> SUFFICES ASSUME NEW i \in 1..(Len(s) - 1) PROVE r[i] \in ToSet(s) /\ r[i] # m
        OBVIOUS
      <4>1. PICK k \in 1..Len(s) : r[i] = s[k] /\ k # p
        BY <2>5, <2>9
      <4> QED
        BY <4>1, <2>3, <3>1, <1>1 DEF ToSet
    <3>4. ASSUME NEW k \in 1..Len(s), s[k] # m PROVE s[k] \in ToSet(r)
      <4>1. CASE k < p
        <5>1. k \in 1..(Len(s) - 1)
          BY <4>1, <1>1, <2>5
        <5> QED
          BY <4>1, <5>1, <2>5, <2>9, <2>10 DEF ToSet
      <4>2. CASE k > p
        <5>1. k - 1 \in 1..(Len(s) - 1) /\ k - 1 >= p /\ (k - 1) + 1 = k
          BY <4>2, <1>1, <2>5
        <5>2. r[k - 1] = s[k]
          BY <5>1, <2>5, <2>9
        <5> QED
          BY <5>1, <5>2, <2>10 DEF ToSet
      <4> QED
        BY <4>1, <4>2, <3>4, <2>3, <2>5
    <3>5. ToSet(r) \subseteq ToSet(s) \ {m}
      BY <3>3, <2>10 DEF ToSet
    <3>6. ToSet(s) \ {m} \subseteq ToSet(r)
      BY <3>4, <1>1 DEF ToSet
    <3> QED
      BY <3>2, <3>5, <3>6
  <2>12. RemoveAt(s, p) = r
    BY DEF RemoveAt, r, before, after
  <2>13. PutIn(s, r, p, m)
    <3>1. \A i \in 1..(Len(s) - 1) : s[IF i < p THEN i ELSE i + 1] = r[i]
      BY <2>5, <2>9
    <3>2. (Len(s) - 1) + 1 = Len(s)
      BY <1>1
    <3> QED
      BY <2>3, <2>8, <3>1, <3>2 DEF PutIn
  <2>14. SameBut({m}, s, r)
    BY <2>8, <2>13, PutInOrder
  <2> QED
    BY <2>4, <2>8, <2>11, <2>12, <2>14
<1> QED
  BY <1>2, <1>3

-------------------------------------------------------------------------------
(* Types: of the chain, and of the calls.                                    *)

Calls == [step : Steps \cup {"idle"}, bus : Buses \cup {NoBus},
          todo : Seq(Middlewares), tried : Seq(Middlewares)]

CallOK(call) ==
  /\ call \in Calls
  /\ call.step = "idle" => call = Idle
  /\ call.step \notin {"idle", "abort"} => call.todo # <<>>
  /\ call.step \in {"setup", "rollback", "abort"} => call.bus \in Buses

OpsOK == op \in [Callers -> Calls] /\ \A c \in Callers : CallOK(op[c])

ChainOK ==
  /\ list \in Seq(Middlewares) /\ NoRepeat(list)
  /\ bus \in Buses \cup {NoBus}
  /\ cache \in [Chains -> {None} \cup (Seq(Middlewares) \X (Buses \cup {NoBus}))]
  /\ running \subseteq started /\ started \subseteq Buses
  /\ live \subseteq Middlewares /\ missed \subseteq Middlewares

Types == OpsOK /\ ChainOK

LEMMA TypeInit == Init => Types
<1> SUFFICES ASSUME Init PROVE OpsOK /\ ChainOK
  BY DEF Types
<1>1. <<>> \in Seq(Middlewares) /\ NoRepeat(<<>>)
  BY EmptySeq DEF NoRepeat
<1>2. Idle \in Calls /\ CallOK(Idle)
  BY <1>1 DEF Idle, Call, Calls, CallOK, Steps
<1> QED
  BY <1>1, <1>2 DEF Init, OpsOK, ChainOK

(* A caller goes on: with the next hook of a loop, or back.                  *)
LEMMA OpsGo ==
  ASSUME OpsOK, NEW c \in Callers, NEW next, CallOK(next), Continue(c, next)
  PROVE  OpsOK'
BY DEF OpsOK, Continue, CallOK

LEMMA OpsReturn ==
  ASSUME OpsOK, NEW c \in Callers, Return(c)
  PROVE  OpsOK'
<1>1. <<>> \in Seq(Middlewares)
  BY EmptySeq
<1>2. CallOK(Idle)
  BY <1>1 DEF Idle, Call, Calls, CallOK, Steps
<1> QED
  BY <1>2, OpsGo DEF Return

LEMMA CallTyped ==
  ASSUME NEW step \in Steps, NEW b \in Buses \cup {NoBus}, NEW todo \in Seq(Middlewares),
         NEW tried \in Seq(Middlewares), step # "abort" => todo # <<>>,
         step \in {"setup", "rollback", "abort"} => b \in Buses
  PROVE  CallOK(Call(step, b, todo, tried))
BY DEF Call, Calls, CallOK, Steps

LEMMA FirstTyped ==
  ASSUME NEW s \in Seq(Middlewares)
  PROVE  First(s) \subseteq ToSet(s) /\ ToSet(s) \subseteq Middlewares
<1>1. ToSet(s) \subseteq Middlewares
  BY SeqFacts
<1>2. s # <<>> => Head(s) \in ToSet(s)
  BY TailElements
<1> QED
  BY <1>1, <1>2 DEF First

(* What the steps of a call may assume of it.                                *)
LEMMA CallFacts ==
  ASSUME Types, NEW c \in Callers
  PROVE  /\ op[c].step \in Steps \cup {"idle"} /\ op[c].bus \in Buses \cup {NoBus}
         /\ op[c].todo \in Seq(Middlewares) /\ op[c].tried \in Seq(Middlewares)
         /\ First(op[c].todo) \subseteq Middlewares
         /\ op[c].step \notin {"idle", "abort"} =>
              /\ op[c].todo # <<>> /\ Head(op[c].todo) \in Middlewares
              /\ Tail(op[c].todo) \in Seq(Middlewares)
              /\ First(op[c].todo) = {Head(op[c].todo)}
              /\ ToSet(op[c].todo) = {Head(op[c].todo)} \cup ToSet(Tail(op[c].todo))
         /\ op[c].step \in {"setup", "rollback", "abort"} => op[c].bus \in Buses
         /\ (op[c].step = "idle" <=> op[c] = Idle)
<1>1. CallOK(op[c]) /\ op[c] \in Calls
  BY DEF Types, OpsOK
<1>2. op[c].step \in Steps \cup {"idle"} /\ op[c].bus \in Buses \cup {NoBus}
      /\ op[c].todo \in Seq(Middlewares) /\ op[c].tried \in Seq(Middlewares)
  BY <1>1 DEF Calls
<1>3. First(op[c].todo) \subseteq Middlewares
  BY <1>2, FirstTyped
<1>4. op[c].step \notin {"idle", "abort"} => op[c].todo # <<>>
  BY <1>1 DEF CallOK
<1>5. op[c].todo # <<>> =>
        /\ Head(op[c].todo) \in Middlewares /\ Tail(op[c].todo) \in Seq(Middlewares)
        /\ First(op[c].todo) = {Head(op[c].todo)}
        /\ ToSet(op[c].todo) = {Head(op[c].todo)} \cup ToSet(Tail(op[c].todo))
  BY <1>2, TailElements DEF First
<1>6. op[c].step = "idle" <=> op[c] = Idle
  BY <1>1 DEF CallOK, Idle, Call
<1>7. op[c].step \in {"setup", "rollback", "abort"} => op[c].bus \in Buses
  BY <1>1 DEF CallOK
<1> QED
  BY <1>2, <1>3, <1>4, <1>5, <1>6, <1>7

Lists(s) == s \in Seq(Middlewares) /\ NoRepeat(s)

LEMMA EmptyList == Lists(<<>>) /\ ToSet(<<>>) = {}
BY EmptySeq DEF Lists, NoRepeat, ToSet

LEMMA TypeStep == Types /\ [Next]_vars => Types'
<1> SUFFICES ASSUME Types, [Next]_vars PROVE OpsOK' /\ ChainOK'
  BY DEF Types
<1> USE DEF Steps
<1>1. OpsOK /\ ChainOK
  BY DEF Types
<1>2. list \in Seq(Middlewares) /\ NoRepeat(list) /\ ToSet(list) \subseteq Middlewares /\ Lists(list)
      /\ First(list) \subseteq Middlewares /\ <<>> \in Seq(Middlewares)
  BY <1>1, FirstTyped, EmptySeq DEF ChainOK, Lists
<1>3. ASSUME NEW c \in Callers, NEW m \in Middlewares, NEW longer, Lists(longer), Enlist(c, m, longer)
      PROVE  OpsOK' /\ ChainOK'
  <2>1. <<m>> \in Seq(Middlewares) /\ <<m>> # <<>>
    OBVIOUS
  <2>2. CallOK(Call("add", NoBus, <<m>>, <<>>))
    BY <1>2, <2>1, CallTyped
  <2>3. op' = op \/ Continue(c, Call("add", NoBus, <<m>>, <<>>))
    BY <1>3 DEF Enlist
  <2>4. OpsOK'
    BY <1>1, <2>2, <2>3, OpsGo DEF OpsOK, CallOK
  <2>5. ChainOK'
    BY <1>1, <1>3 DEF Enlist, ChainOK, Lists, Invalidate
  <2> QED
    BY <2>4, <2>5
<1>4. ASSUME NEW c \in Callers, NEW m \in Middlewares, Add(c, m) PROVE OpsOK' /\ ChainOK'
  <2>1. m \notin ToSet(list)
    BY <1>4 DEF Add, Enlist, Unlisted
  <2>2. Lists(Append(list, m))
    BY <1>2, <2>1, AppendElements DEF Lists
  <2> QED
    BY <1>3, <1>4, <2>2 DEF Add
<1>5. ASSUME NEW c \in Callers, NEW m \in Middlewares, NEW i \in 1..Len(list), Insert(c, m, i)
      PROVE  OpsOK' /\ ChainOK'
  <2>1. m \notin ToSet(list)
    BY <1>5 DEF Insert, Enlist, Unlisted
  <2>2. Lists(InsertAt(list, i, m))
    BY <1>2, <2>1, InsertElements DEF Lists
  <2> QED
    BY <1>3, <1>5, <2>2 DEF Insert
<1>6. \A m : Lists(RemoveFirst(list, m))
  BY <1>2, RemoveElements DEF Lists
<1>7. ASSUME NEW c \in Callers, NEW m \in Middlewares, RemoveCall(c, m) PROVE OpsOK' /\ ChainOK'
  <2>1. <<m>> \in Seq(Middlewares) /\ <<m>> # <<>>
    OBVIOUS
  <2>2. CallOK(Call("remove", NoBus, <<m>>, <<>>))
    BY <1>2, <2>1, CallTyped
  <2>3. op' = op \/ Continue(c, Call("remove", NoBus, <<m>>, <<>>))
    BY <1>7 DEF RemoveCall
  <2>4. OpsOK'
    BY <1>1, <2>2, <2>3, OpsGo DEF OpsOK, CallOK
  <2>5. ChainOK'
    BY <1>1, <1>6, <1>7 DEF RemoveCall, ChainOK, Lists, Invalidate
  <2> QED
    BY <2>4, <2>5
<1>8. ASSUME NEW c \in Callers, Added(c) \/ Removed(c) PROVE OpsOK' /\ ChainOK'
  <2>1. OpsOK'
    BY <1>1, <1>8, OpsReturn DEF Added, Removed
  <2>2. First(op[c].todo) \subseteq Middlewares
    BY CallFacts
  <2>3. ChainOK'
    BY <1>1, <1>6, <1>8, <2>2 DEF Added, Removed, ChainOK, Lists, Invalidate
  <2> QED
    BY <2>1, <2>3
<1>9. ASSUME NEW c \in Callers, AddFails(c) PROVE OpsOK' /\ ChainOK'
  <2>1. CallOK([op[c] EXCEPT !.step = "undo"])
    BY <1>1, <1>9 DEF AddFails, OpsOK, CallOK, Calls
  <2>2. OpsOK'
    BY <1>1, <1>9, <2>1, OpsGo DEF AddFails
  <2>3. ChainOK'
    BY <1>1, <1>9 DEF AddFails, ChainOK
  <2> QED
    BY <2>2, <2>3
<1>10. ASSUME NEW c \in Callers, Undone(c) PROVE OpsOK' /\ ChainOK'
  <2>1. OpsOK'
    BY <1>1, <1>10, OpsReturn DEF Undone
  <2>2. First(op[c].todo) \subseteq Middlewares
    BY CallFacts
  <2>3. ChainOK'
    BY <1>1, <1>6, <1>10, <2>2 DEF Undone, ChainOK, Lists
  <2> QED
    BY <2>1, <2>3
<1>11. ASSUME NEW c \in Callers, NEW todo \in Seq(Middlewares), ClearFrom(c, todo),
              UNCHANGED <<bus, running, started>>, live' \subseteq live
       PROVE  OpsOK' /\ ChainOK'
  <2>1. CASE bus = NoBus \/ todo = <<>>
    BY <1>1, <1>11, <2>1, OpsReturn, EmptyList DEF ClearFrom, ChainOK, Lists, Invalidate
  <2>2. CASE ~(bus = NoBus \/ todo = <<>>)
    <3>1. CallOK(Call("clear", NoBus, todo, <<>>))
      BY <1>2, <2>2, CallTyped
    <3> QED
      BY <1>1, <1>11, <2>2, <3>1, OpsGo DEF ClearFrom, ChainOK
  <2> QED
    BY <2>1, <2>2
<1>12. ASSUME NEW c \in Callers, Clear(c) PROVE OpsOK' /\ ChainOK'
  BY <1>2, <1>11, <1>12 DEF Clear
<1>13. ASSUME NEW c \in Callers, ClearedOne(c) PROVE OpsOK' /\ ChainOK'
  <2>1. Tail(op[c].todo) \in Seq(Middlewares)
    BY <1>13, CallFacts DEF ClearedOne
  <2> QED
    BY <2>1, <1>11, <1>13 DEF ClearedOne
<1>14. ASSUME NEW c \in Callers, NEW b \in Buses, Start(c, b) PROVE OpsOK' /\ ChainOK'
  <2>1. CASE bus # NoBus
    <3>1. CallOK(Call("abort", b, <<>>, <<>>)) /\ Continue(c, Call("abort", b, <<>>, <<>>))
      BY <1>2, <1>14, <2>1, CallTyped DEF Start
    <3> QED
      BY <1>1, <1>14, <2>1, <3>1, OpsGo DEF Start, ChainOK
  <2>2. CASE bus = NoBus /\ list = <<>>
    <3>1. OpsOK'
      BY <1>1, <1>14, <2>2, OpsReturn DEF Start
    <3> QED
      BY <1>1, <1>2, <1>14, <2>2, <3>1 DEF Start, ChainOK
  <2>3. CASE bus = NoBus /\ list # <<>>
    <3>1. CallOK(Call("setup", b, list, <<>>)) /\ Continue(c, Call("setup", b, list, <<>>))
      BY <1>2, <1>14, <2>3, CallTyped DEF Start
    <3>2. OpsOK'
      BY <1>1, <3>1, OpsGo
    <3> QED
      BY <1>1, <1>2, <1>14, <2>3, <3>2 DEF Start, ChainOK
  <2> QED
    BY <2>1, <2>2, <2>3
<1>15. ASSUME NEW c \in Callers, SetUpOne(c) PROVE OpsOK' /\ ChainOK'
  <2> DEFINE m == Head(op[c].todo)
             rest == Tail(op[c].todo)
  <2>1. m \in Middlewares /\ rest \in Seq(Middlewares) /\ op[c].bus \in Buses /\ op[c].tried \in Seq(Middlewares)
    BY <1>15, CallFacts DEF SetUpOne
  <2>2. First(rest) \subseteq Middlewares /\ Append(op[c].tried, m) \in Seq(Middlewares)
    BY <2>1, FirstTyped, AppendElements
  <2>3. OpsOK'
    <3>1. CASE rest = <<>>
      BY <1>1, <1>15, <3>1, OpsReturn DEF SetUpOne
    <3>2. CASE rest # <<>>
      <4>1. CallOK(Call("setup", op[c].bus, rest, Append(op[c].tried, m)))
        BY <2>1, <2>2, <3>2, CallTyped
      <4> QED
        BY <1>1, <1>15, <3>2, <4>1, OpsGo DEF SetUpOne
    <3> QED
      BY <3>1, <3>2
  <2>4. ChainOK'
    BY <1>1, <1>15, <2>1, <2>2 DEF SetUpOne, ChainOK
  <2> QED
    BY <2>3, <2>4
<1>16. ASSUME NEW c \in Callers, StartFails(c) PROVE OpsOK' /\ ChainOK'
  <2>1. Head(op[c].todo) \in Middlewares /\ op[c].tried \in Seq(Middlewares) /\ op[c].bus \in Buses
    BY <1>16, CallFacts DEF StartFails
  <2>2. Append(op[c].tried, Head(op[c].todo)) \in Seq(Middlewares)
        /\ ToSet(Append(op[c].tried, Head(op[c].todo))) # {}
    BY <2>1, AppendElements
  <2>3. Attempted(op[c]) \in Seq(Middlewares) /\ ToSet(Attempted(op[c])) # {}
    BY <2>2, ReverseElements DEF Attempted
  <2>4. Attempted(op[c]) # <<>>
    BY <2>3, EmptyList
  <2>5. CallOK(Call("rollback", op[c].bus, Attempted(op[c]), <<>>))
    BY <1>2, <2>1, <2>3, <2>4, CallTyped
  <2>6. OpsOK'
    BY <1>1, <1>16, <2>5, OpsGo DEF StartFails
  <2>7. ChainOK'
    BY <1>1, <1>16 DEF StartFails, ChainOK
  <2> QED
    BY <2>6, <2>7
<1>17. ASSUME NEW c \in Callers, RolledBackOne(c) PROVE OpsOK' /\ ChainOK'
  <2> DEFINE rest == Tail(op[c].todo)
             step == IF rest = <<>> THEN "abort" ELSE "rollback"
  <2>1. rest \in Seq(Middlewares) /\ op[c].bus \in Buses
    BY <1>17, CallFacts DEF RolledBackOne
  <2>2. CallOK(Call(step, op[c].bus, rest, <<>>))
    <3>1. step \in Steps /\ (step # "abort" => rest # <<>>)
      OBVIOUS
    <3> HIDE DEF step
    <3> QED
      BY <1>2, <2>1, <3>1, CallTyped
  <2>3. OpsOK'
    BY <1>1, <1>17, <2>2, OpsGo DEF RolledBackOne
  <2>4. ChainOK'
    BY <1>1, <1>17 DEF RolledBackOne, ChainOK
  <2> QED
    BY <2>3, <2>4
<1>18. ASSUME NEW c \in Callers, NEW b \in Buses, Teardown(c, b), UNCHANGED <<list, cache, started, live, missed>>,
              running' \subseteq running
       PROVE  OpsOK' /\ ChainOK'
  <2>1. CASE bus = NoBus \/ list = <<>>
    BY <1>1, <1>18, <2>1, OpsReturn DEF Teardown, ChainOK
  <2>2. CASE ~(bus = NoBus \/ list = <<>>)
    <3>1. Reverse(list) \in Seq(Middlewares) /\ Reverse(list) # <<>>
      BY <1>2, <2>2, ReverseElements, SeqFacts, EmptyList
    <3>2. CallOK(Call("teardown", b, Reverse(list), <<>>))
      BY <1>2, <3>1, CallTyped
    <3> QED
      BY <1>1, <1>18, <2>2, <3>2, OpsGo DEF Teardown, ChainOK
  <2> QED
    BY <2>1, <2>2
<1>19. ASSUME NEW c \in Callers, Abort(c) PROVE OpsOK' /\ ChainOK'
  <2>1. op[c].bus \in Buses
    BY <1>19, CallFacts DEF Abort
  <2> QED
    BY <1>18, <1>19, <2>1 DEF Abort
<1>20. ASSUME NEW c \in Callers, NEW b \in Buses, Stop(c, b) PROVE OpsOK' /\ ChainOK'
  BY <1>18, <1>20 DEF Stop
<1>21. ASSUME NEW c \in Callers, TornDownOne(c) PROVE OpsOK' /\ ChainOK'
  <2>1. CASE Tail(op[c].todo) = <<>>
    BY <1>1, <1>21, <2>1, OpsReturn DEF TornDownOne, ChainOK
  <2>2. CASE Tail(op[c].todo) # <<>>
    <3>1. Tail(op[c].todo) \in Seq(Middlewares)
      BY <1>21, CallFacts DEF TornDownOne
    <3>2. CallOK([op[c] EXCEPT !.todo = Tail(op[c].todo)])
      BY <1>1, <1>21, <2>2, <3>1 DEF TornDownOne, OpsOK, CallOK, Calls
    <3> QED
      BY <1>1, <1>21, <2>2, <3>2, OpsGo DEF TornDownOne, ChainOK
  <2> QED
    BY <2>1, <2>2
<1>22. ASSUME NEW c \in Callers, Cancel(c) PROVE OpsOK' /\ ChainOK'
  <2>1. OpsOK'
    BY <1>1, <1>22, OpsReturn DEF Cancel
  <2>2. First(op[c].todo) \subseteq Middlewares
    BY CallFacts
  <2> QED
    BY <1>1, <1>22, <2>1, <2>2 DEF Cancel, ChainOK
<1>23. ASSUME NEW k \in Chains, NEW b \in Buses, Build(k, b) PROVE OpsOK' /\ ChainOK'
  <2>1. OpsOK'
    BY <1>1, <1>23 DEF Build, OpsOK, CallOK
  <2>2. <<list, IF k = "before" THEN b ELSE NoBus>> \in Seq(Middlewares) \X (Buses \cup {NoBus})
    BY <1>2
  <2>3. ChainOK'
    BY <1>1, <1>23, <2>2 DEF Build, ChainOK
  <2> QED
    BY <2>1, <2>3
<1>24. ASSUME UNCHANGED vars PROVE OpsOK' /\ ChainOK'
  BY <1>1, <1>24 DEF vars, OpsOK, ChainOK, CallOK
<1> QED
  BY <1>4, <1>5, <1>7, <1>8, <1>9, <1>10, <1>12, <1>13, <1>14, <1>15, <1>16, <1>17, <1>19, <1>20,
     <1>21, <1>22, <1>23, <1>24 DEF Next

(* Every variable has its type, no middleware is listed twice, and a call    *)
(* that is in a hook has the middleware whose hook it is, whichever calls    *)
(* overlap or are cancelled (middleware.py 112-245).                         *)
THEOREM TypeCorrect == Spec => []TypeOK
<1>1. Types => TypeOK
  <2> SUFFICES ASSUME Types PROVE TypeOK
    OBVIOUS
  <2>1. \A c \in Callers :
          /\ op[c].step \in Steps \cup {"idle"} /\ op[c].bus \in Buses \cup {NoBus}
          /\ op[c].todo \in Seq(Middlewares) /\ op[c].tried \in Seq(Middlewares)
          /\ op[c].step \notin {"idle", "abort"} => op[c].todo # <<>>
    BY CallFacts
  <2>2. \A k \in Chains : cache[k] = None \/ cache[k] \in Seq(Middlewares) \X (Buses \cup {NoBus})
    BY DEF Types, ChainOK
  <2> QED
    BY <2>1, <2>2 DEF Types, ChainOK, TypeOK
<1> QED
  BY <1>1, TypeInit, TypeStep, PTL DEF Spec

-------------------------------------------------------------------------------
(* Hooks.  Either the calls in progress are adds, inserts and removes, and   *)
(* what is set up is what a bound chain lists, or one call is alone in a     *)
(* loop and has set up or torn down what it went through.                    *)

Group == {"add", "undo", "remove"}

(* As in the run: no other calls overlap, and no other call is cancelled.    *)
OnlyChangesOverlap == Overlapping \subseteq Group /\ Cancellable \subseteq Group

Current == IF bus = NoBus THEN {} ELSE ToSet(list)

Together ==
  /\ live = Current
  /\ \A c \in Callers :
       /\ op[c].step \in Group \cup {"idle"}
       /\ op[c].step \in Group => bus # NoBus
       /\ op[c].step \in {"add", "undo"} => Head(op[c].todo) \in ToSet(list)
  /\ \A c, d \in Callers :
       c # d /\ op[c].step \in Group /\ op[d].step \in Group => Head(op[c].todo) # Head(op[d].todo)

Solo(call) ==
  \/ /\ call.step = "setup" /\ bus # NoBus
     /\ live = ToSet(call.tried) \cup {Head(call.todo)}
     /\ ToSet(call.tried) \cup ToSet(call.todo) = ToSet(list)
     /\ ToSet(call.tried) \cap ToSet(call.todo) = {} /\ NoRepeat(call.todo)
  \/ call.step \in {"rollback", "teardown"} /\ bus = NoBus /\ live \subseteq ToSet(call.todo)
  \/ call.step = "abort" /\ live = Current
  \/ call.step = "clear" /\ bus # NoBus /\ live \subseteq ToSet(call.todo)

Alone(c) == Solo(op[c]) /\ \A d \in Callers \ {c} : op[d] = Idle

HookInv == Together \/ \E c \in Callers : Alone(c)

Fresh == \A c \in Callers : SettingUp(op'[c]) \cap live \subseteq SettingUp(op[c])

LEMMA IdleFacts == Idle.step = "idle" /\ SettingUp(Idle) = {}
BY DEF Idle, Call, SettingUp

LEMMA IdleTogether ==
  ASSUME \A c \in Callers : op[c] = Idle, live = Current
  PROVE  Together
BY IdleFacts DEF Together, Group

LEMMA HookInit == Init => HookInv
<1> SUFFICES ASSUME Init PROVE Together
  BY DEF HookInv
<1> QED
  BY IdleTogether DEF Init, Current

LEMMA FreshGo ==
  ASSUME Types, NEW c \in Callers, NEW next, Continue(c, next),
         SettingUp(next) \cap live \subseteq SettingUp(op[c])
  PROVE  Fresh
BY DEF Types, OpsOK, Continue, Fresh

LEMMA FreshReturn ==
  ASSUME Types, NEW c \in Callers, Return(c)
  PROVE  Fresh
BY IdleFacts, FreshGo DEF Return

LEMMA FreshStays ==
  ASSUME UNCHANGED op
  PROVE  Fresh
BY DEF Fresh

(* Where a caller goes, the others stay.                                     *)
LEMMA Goes ==
  ASSUME Types, NEW c \in Callers, NEW next, Continue(c, next)
  PROVE  op'[c] = next /\ \A d \in Callers \ {c} : op'[d] = op[d]
BY DEF Types, OpsOK, Continue

(* A call that begins.                                                       *)
LEMMA BeginsAlone ==
  ASSUME Types, HookInv, OnlyChangesOverlap, NEW c \in Callers, NEW step, step \notin Group, MayCall(c, step)
  PROVE  live = Current /\ \A d \in Callers : op[d] = Idle
<1>1. \A d \in Callers : op[d] = Idle
  BY DEF MayCall, OnlyChangesOverlap, Busy
<1>2. \A d \in Callers : ~Alone(d)
  BY <1>1, IdleFacts DEF Alone, Solo
<1> QED
  BY <1>1, <1>2 DEF HookInv, Together

LEMMA BeginsTogether ==
  ASSUME Types, HookInv, OnlyChangesOverlap, NEW c \in Callers, NEW step, MayCall(c, step)
  PROVE  Together /\ op[c] = Idle
<1>1. op[c] = Idle
  BY DEF MayCall, Busy
<1>2. ASSUME NEW d \in Callers, Alone(d) PROVE FALSE
  <2>1. op[d].step \notin Group \cup {"idle"}
    BY <1>2 DEF Alone, Solo, Group
  <2>2. Busy(d)
    BY <2>1, IdleFacts DEF Busy
  <2>3. op[d].step \in Group
    BY <2>2 DEF MayCall, OnlyChangesOverlap
  <2> QED
    BY <2>1, <2>3
<1> QED
  BY <1>1, <1>2 DEF HookInv

(* A step of a call: alone in its loop, or with its like.                    *)
LEMMA StepsAlone ==
  ASSUME HookInv, NEW c \in Callers, op[c].step \notin Group \cup {"idle"}
  PROVE  Alone(c)
<1>1. ~Together
  BY DEF Together
<1>2. PICK d \in Callers : Alone(d)
  BY <1>1 DEF HookInv
<1>3. d = c
  BY <1>2, IdleFacts DEF Alone
<1> QED
  BY <1>2, <1>3

LEMMA StepsTogether ==
  ASSUME HookInv, NEW c \in Callers, op[c].step \in Group
  PROVE  Together
<1>1. ASSUME NEW d \in Callers, Alone(d) PROVE FALSE
  <2>1. op[d].step \notin Group
    BY <1>1 DEF Alone, Solo, Group
  <2>2. d # c
    BY <2>1
  <2> QED
    BY <1>1, <2>2, IdleFacts DEF Alone, Group
<1> QED
  BY <1>1 DEF HookInv

LEMMA ReturnTogether ==
  ASSUME Types, NEW c \in Callers, Return(c), \A d \in Callers \ {c} : op[d] = Idle, live' = Current'
  PROVE  HookInv'
<1>1. \A d \in Callers : op'[d] = Idle
  BY Goes DEF Return
<1> QED
  BY <1>1, IdleTogether, IdleFacts DEF HookInv, Together, Group

LEMMA GoAlone ==
  ASSUME Types, NEW c \in Callers, NEW next, Continue(c, next),
         \A d \in Callers \ {c} : op[d] = Idle, Solo(next)'
  PROVE  HookInv'
<1>1. op'[c] = next /\ \A d \in Callers \ {c} : op'[d] = Idle
  BY Goes
<1> QED
  BY <1>1 DEF HookInv, Alone, Solo

LEMMA ListFacts ==
  ASSUME Types
  PROVE  /\ list \in Seq(Middlewares) /\ NoRepeat(list) /\ bus \in Buses \cup {NoBus}
         /\ (list = <<>> <=> ToSet(list) = {}) /\ First(list) \subseteq ToSet(list)
         /\ list # <<>> => First(list) = {Head(list)} /\ Head(list) \in ToSet(list)
         /\ ToSet(Reverse(list)) = ToSet(list)
<1>1. list \in Seq(Middlewares) /\ NoRepeat(list) /\ bus \in Buses \cup {NoBus}
  BY DEF Types, ChainOK
<1>2. list # <<>> => First(list) = {Head(list)} /\ Head(list) \in ToSet(list)
  BY <1>1, TailElements DEF First
<1> QED
  BY <1>1, <1>2, SeqFacts, FirstTyped, ReverseElements

LEMMA EnlistHooks ==
  ASSUME Types, HookInv, OnlyChangesOverlap, NEW c \in Callers, NEW m \in Middlewares, NEW longer,
         Enlist(c, m, longer), ToSet(longer) = ToSet(list) \cup {m}
  PROVE  HookInv' /\ Fresh
<1>1. Together /\ op[c] = Idle
  BY BeginsTogether DEF Enlist
<1>2. list' = longer /\ bus' = bus /\ m \notin ToSet(list) /\ Untouched(m)
  BY DEF Enlist, Unlisted
<1>3. CASE bus = NoBus
  <2>1. UNCHANGED <<op, live>>
    BY <1>3 DEF Enlist
  <2>2. Together'
    BY <1>1, <1>2, <1>3, <2>1 DEF Together, Current
  <2> QED
    BY <2>1, <2>2, FreshStays DEF HookInv
<1>4. CASE bus # NoBus
  <2>1. PICK next : next = Call("add", NoBus, <<m>>, <<>>)
    OBVIOUS
  <2>2. next.step = "add" /\ Head(next.todo) = m /\ SettingUp(next) = {m}
    BY <2>1 DEF Call, SettingUp, First
  <2>3. Continue(c, next) /\ live' = live \cup {m}
    BY <1>4, <2>1 DEF Enlist
  <2>4. op'[c] = next /\ \A d \in Callers \ {c} : op'[d] = op[d]
    BY <2>3, Goes
  <2>5. \A d \in Callers : op[d].step \in Group => m # Head(op[d].todo)
    BY <1>2 DEF Untouched, Group
  <2>6. live = ToSet(list) /\ live' = Current'
    BY <1>1, <1>2, <1>4, <2>3 DEF Together, Current
  <2>7. ASSUME NEW d \in Callers
        PROVE  /\ op'[d].step \in Group \cup {"idle"}
               /\ op'[d].step \in Group => bus' # NoBus
               /\ op'[d].step \in {"add", "undo"} => Head(op'[d].todo) \in ToSet(list')
    BY <1>1, <1>2, <1>4, <2>2, <2>4 DEF Together, Group
  <2>8. ASSUME NEW d \in Callers, NEW e \in Callers, d # e, op'[d].step \in Group, op'[e].step \in Group
        PROVE  Head(op'[d].todo) # Head(op'[e].todo)
    BY <1>1, <2>2, <2>4, <2>5, <2>8 DEF Together
  <2>9. Together'
    BY <2>6, <2>7, <2>8 DEF Together
  <2>10. Fresh
    BY <1>2, <2>2, <2>3, <2>6, FreshGo
  <2> QED
    BY <2>9, <2>10 DEF HookInv
<1> QED
  BY <1>3, <1>4

(* A change that ends takes its middleware with it, or leaves it.            *)
LEMMA ChangeEnds ==
  ASSUME Types, HookInv, NEW c \in Callers, op[c].step \in Group, Return(c), bus' = bus,
         \/ list' = list /\ live' = live
         \/ list' = RemoveFirst(list, Head(op[c].todo)) /\ live' = live \ {Head(op[c].todo)}
  PROVE  HookInv' /\ Fresh
<1>1. Together
  BY StepsTogether
<1>2. op'[c] = Idle /\ \A d \in Callers \ {c} : op'[d] = op[d]
  BY Goes DEF Return
<1>3. bus # NoBus /\ live = ToSet(list)
  BY <1>1 DEF Together, Current
<1>4. ToSet(list') = live' /\ ToSet(list) \ {Head(op[c].todo)} \subseteq ToSet(list')
  BY <1>3, ListFacts, RemoveElements
<1>5. live' = Current'
  BY <1>3, <1>4 DEF Current
<1>6. ASSUME NEW d \in Callers
      PROVE  /\ op'[d].step \in Group \cup {"idle"}
             /\ op'[d].step \in Group => bus' # NoBus
             /\ op'[d].step \in {"add", "undo"} => Head(op'[d].todo) \in ToSet(list')
  <2>1. CASE d = c
    BY <1>2, <2>1, IdleFacts DEF Group
  <2>2. CASE d # c
    BY <1>1, <1>2, <1>4, <2>2 DEF Together, Group
  <2> QED
    BY <2>1, <2>2
<1>7. ASSUME NEW d \in Callers, NEW e \in Callers, d # e, op'[d].step \in Group, op'[e].step \in Group
      PROVE  Head(op'[d].todo) # Head(op'[e].todo)
  BY <1>1, <1>2, <1>7, IdleFacts DEF Together, Group
<1>8. Together'
  BY <1>5, <1>6, <1>7 DEF Together
<1>9. Fresh
  BY FreshReturn
<1> QED
  BY <1>8, <1>9 DEF HookInv

LEMMA ChangeHooks ==
  ASSUME Types, HookInv, OnlyChangesOverlap, NEW c \in Callers,
         Added(c) \/ AddFails(c) \/ Undone(c) \/ Removed(c)
  PROVE  HookInv' /\ Fresh
<1>1. op[c].step \in Group /\ First(op[c].todo) = {Head(op[c].todo)}
  BY CallFacts DEF Added, AddFails, Undone, Removed, Group
<1>2. Together
  BY <1>1, StepsTogether
<1>3. CASE Added(c)
  <2>1. Head(op[c].todo) \in live
    BY <1>1, <1>2, <1>3 DEF Added, Together, Current
  <2>2. live' = live /\ UNCHANGED <<list, bus>> /\ Return(c)
    BY <1>1, <1>3, <2>1 DEF Added
  <2> QED
    BY <1>1, <2>2, ChangeEnds
<1>4. CASE AddFails(c)
  <2>1. PICK next : next = [op[c] EXCEPT !.step = "undo"]
    OBVIOUS
  <2>2. next.step = "undo" /\ next.todo = op[c].todo
    BY <2>1 DEF Types, OpsOK, Calls
  <2>3. Continue(c, next) /\ UNCHANGED <<list, bus, live>> /\ op[c].step = "add"
    BY <1>4, <2>1 DEF AddFails
  <2>4. op'[c] = next /\ \A d \in Callers \ {c} : op'[d] = op[d]
    BY <2>3, Goes
  <2>5. \A d \in Callers : op'[d].todo = op[d].todo
    BY <2>2, <2>4
  <2>6. Together'
    BY <1>2, <2>2, <2>3, <2>4, <2>5 DEF Together, Current, Group
  <2>7. Fresh
    BY <2>2, <2>3, FreshGo DEF SettingUp
  <2> QED
    BY <2>6, <2>7 DEF HookInv
<1>5. CASE Undone(c)
  BY <1>1, <1>5, ChangeEnds DEF Undone
<1>6. CASE Removed(c)
  BY <1>1, <1>6, ChangeEnds DEF Removed
<1> QED
  BY <1>3, <1>4, <1>5, <1>6

LEMMA RemoveHooks ==
  ASSUME Types, HookInv, OnlyChangesOverlap, NEW c \in Callers, NEW m \in Middlewares, RemoveCall(c, m)
  PROVE  HookInv' /\ Fresh
<1>1. Together /\ op[c] = Idle
  BY BeginsTogether DEF RemoveCall
<1>2. UNCHANGED <<bus, live>> /\ Untouched(m)
  BY DEF RemoveCall
<1>3. CASE bus = NoBus
  <2>1. UNCHANGED op
    BY <1>3 DEF RemoveCall
  <2>2. Together'
    BY <1>1, <1>2, <1>3, <2>1 DEF Together, Current
  <2> QED
    BY <2>1, <2>2, FreshStays DEF HookInv
<1>4. CASE bus # NoBus
  <2>1. PICK next : next = Call("remove", NoBus, <<m>>, <<>>)
    OBVIOUS
  <2>2. next.step = "remove" /\ Head(next.todo) = m /\ SettingUp(next) = {}
    BY <2>1 DEF Call, SettingUp
  <2>3. Continue(c, next) /\ UNCHANGED list
    BY <1>4, <2>1 DEF RemoveCall
  <2>4. op'[c] = next /\ \A d \in Callers \ {c} : op'[d] = op[d]
    BY <2>3, Goes
  <2>5. \A d \in Callers : op[d].step \in Group => m # Head(op[d].todo)
    BY <1>2 DEF Untouched, Group
  <2>6. live' = Current'
    BY <1>1, <1>2, <2>3 DEF Together, Current
  <2>7. ASSUME NEW d \in Callers
        PROVE  /\ op'[d].step \in Group \cup {"idle"}
               /\ op'[d].step \in Group => bus' # NoBus
               /\ op'[d].step \in {"add", "undo"} => Head(op'[d].todo) \in ToSet(list')
    BY <1>1, <1>2, <1>4, <2>2, <2>3, <2>4 DEF Together, Group
  <2>8. ASSUME NEW d \in Callers, NEW e \in Callers, d # e, op'[d].step \in Group, op'[e].step \in Group
        PROVE  Head(op'[d].todo) # Head(op'[e].todo)
    BY <1>1, <2>2, <2>4, <2>5, <2>8 DEF Together
  <2>9. Together'
    BY <2>6, <2>7, <2>8 DEF Together
  <2> QED
    BY <2>2, <2>3, <2>9, FreshGo DEF HookInv
<1> QED
  BY <1>3, <1>4

LEMMA ClearHooks ==
  ASSUME Types, NEW c \in Callers, NEW todo \in Seq(Middlewares), ClearFrom(c, todo), bus' = bus,
         \A d \in Callers \ {c} : op[d] = Idle,
         bus = NoBus => live' = {}, live' \subseteq ToSet(todo)
  PROVE  HookInv' /\ Fresh
<1>1. CASE bus = NoBus \/ todo = <<>>
  <2>1. Return(c) /\ list' = <<>>
    BY <1>1 DEF ClearFrom
  <2>2. live' = {} /\ ToSet(list') = {}
    BY <1>1, <2>1, EmptyList
  <2>3. live' = Current'
    BY <2>2 DEF Current
  <2> QED
    BY <2>1, <2>3, ReturnTogether, FreshReturn
<1>2. CASE ~(bus = NoBus \/ todo = <<>>)
  <2>1. PICK next : next = Call("clear", NoBus, todo, <<>>)
    OBVIOUS
  <2>2. next.step = "clear" /\ next.todo = todo /\ SettingUp(next) = {}
    BY <2>1 DEF Call, SettingUp
  <2>3. Continue(c, next)
    BY <1>2, <2>1 DEF ClearFrom
  <2>4. Solo(next)'
    BY <1>2, <2>2 DEF Solo
  <2> QED
    BY <2>2, <2>3, <2>4, GoAlone, FreshGo
<1> QED
  BY <1>1, <1>2

LEMMA StartHooks ==
  ASSUME Types, HookInv, OnlyChangesOverlap, NEW c \in Callers, NEW b \in Buses, Start(c, b)
  PROVE  HookInv' /\ Fresh
<1>1. live = Current /\ \A d \in Callers : op[d] = Idle
  BY BeginsAlone DEF Start, Group
<1>2. list' = list
  BY DEF Start
<1>3. CASE bus # NoBus
  <2>1. PICK next : next = Call("abort", b, <<>>, <<>>)
    OBVIOUS
  <2>2. next.step = "abort" /\ SettingUp(next) = {}
    BY <2>1 DEF Call, SettingUp
  <2>3. Continue(c, next) /\ UNCHANGED <<bus, live>>
    BY <1>3, <2>1 DEF Start
  <2>4. Solo(next)'
    BY <1>1, <1>2, <2>2, <2>3 DEF Solo, Current
  <2> QED
    BY <1>1, <2>2, <2>3, <2>4, GoAlone, FreshGo
<1>4. CASE bus = NoBus
  <2>1. live = {} /\ bus' = b /\ b # NoBus /\ live' = First(list)
    BY <1>1, <1>4 DEF Start, Current
  <2>2. CASE list = <<>>
    <3>1. Return(c)
      BY <1>4, <2>2 DEF Start
    <3>2. live' = Current'
      BY <1>2, <2>1, <2>2, EmptyList DEF Current, First
    <3> QED
      BY <1>1, <3>1, <3>2, ReturnTogether, FreshReturn
  <2>3. CASE list # <<>>
    <3>1. PICK next : next = Call("setup", b, list, <<>>)
      OBVIOUS
    <3>2. next.step = "setup" /\ next.todo = list /\ next.tried = <<>>
      BY <3>1 DEF Call
    <3>3. Continue(c, next)
      BY <1>4, <2>3, <3>1 DEF Start
    <3>4. Solo(next)'
      <4>1. live' = {Head(list)} /\ NoRepeat(list)
        BY <2>1, <2>3, ListFacts
      <4> QED
        BY <4>1, <1>2, <2>1, <3>2, EmptyList DEF Solo
    <3> QED
      BY <1>1, <2>1, <3>3, <3>4, GoAlone, FreshGo
  <2> QED
    BY <2>2, <2>3
<1> QED
  BY <1>3, <1>4

LEMMA SetUpHooks ==
  ASSUME Types, HookInv, NEW c \in Callers, SetUpOne(c)
  PROVE  HookInv' /\ Fresh
<1> DEFINE call == op[c]
           m == Head(op[c].todo)
           rest == Tail(op[c].todo)
<1>1. call.step = "setup" /\ Alone(c)
  BY StepsAlone DEF SetUpOne, Group
<1>2. bus # NoBus /\ live = ToSet(call.tried) \cup {m} /\ NoRepeat(call.todo)
      /\ ToSet(call.tried) \cup ToSet(call.todo) = ToSet(list) /\ ToSet(call.tried) \cap ToSet(call.todo) = {}
  BY <1>1 DEF Alone, Solo
<1>3. call.todo # <<>> /\ call.todo \in Seq(Middlewares) /\ call.tried \in Seq(Middlewares)
  BY <1>1, CallFacts
<1>4. m \in Middlewares /\ rest \in Seq(Middlewares) /\ ToSet(call.todo) = {m} \cup ToSet(rest)
      /\ NoRepeat(rest) /\ m \notin ToSet(rest)
  BY <1>2, <1>3, TailElements
<1>5. UNCHANGED <<list, bus>> /\ live' = live \cup {m} \cup First(rest)
  BY DEF SetUpOne
<1>6. CASE rest = <<>>
  <2>1. Return(c)
    BY <1>6 DEF SetUpOne
  <2>2. First(rest) = {} /\ ToSet(rest) = {}
    BY <1>6, EmptyList DEF First
  <2>3. live' = Current'
    BY <1>2, <1>4, <1>5, <2>2 DEF Current
  <2> QED
    BY <1>1, <2>1, <2>3, ReturnTogether, FreshReturn DEF Alone
<1>7. CASE rest # <<>>
  <2>1. PICK next : next = Call("setup", call.bus, rest, Append(call.tried, m))
    OBVIOUS
  <2>2. next.step = "setup" /\ next.todo = rest /\ next.tried = Append(call.tried, m)
    BY <2>1 DEF Call
  <2>3. Continue(c, next)
    BY <1>7, <2>1 DEF SetUpOne
  <2>4. First(rest) = {Head(rest)} /\ Head(rest) \in ToSet(rest)
    <3>1. rest \in Seq(Middlewares) /\ rest # <<>>
      BY <1>4, <1>7
    <3> HIDE DEF rest
    <3>2. ToSet(rest) = {Head(rest)} \cup ToSet(Tail(rest))
      BY <3>1, TailElements
    <3> QED
      BY <3>1, <3>2 DEF First
  <2>5. ToSet(next.tried) = ToSet(call.tried) \cup {m}
    BY <1>3, <1>4, <2>2, AppendElements
  <2>6. Solo(next)'
    <3>1. live' = ToSet(next.tried) \cup {Head(next.todo)}
      BY <1>2, <1>5, <2>2, <2>4, <2>5
    <3>2. ToSet(next.tried) \cup ToSet(next.todo) = ToSet(list')
          /\ ToSet(next.tried) \cap ToSet(next.todo) = {} /\ NoRepeat(next.todo)
      BY <1>2, <1>4, <1>5, <2>2, <2>5
    <3> QED
      BY <1>2, <1>5, <2>2, <3>1, <3>2 DEF Solo
  <2>7. SettingUp(next) \cap live = {}
    BY <1>2, <1>4, <2>2, <2>4 DEF SettingUp
  <2> QED
    BY <1>1, <2>3, <2>6, <2>7, GoAlone, FreshGo DEF Alone
<1> QED
  BY <1>6, <1>7

LEMMA RollbackHooks ==
  ASSUME Types, HookInv, NEW c \in Callers, StartFails(c) \/ RolledBackOne(c)
  PROVE  HookInv' /\ Fresh
<1>1. CASE StartFails(c)
  <2>1. op[c].step = "setup" /\ Alone(c)
    BY <1>1, StepsAlone DEF StartFails, Group
  <2>2. Head(op[c].todo) \in Middlewares /\ op[c].tried \in Seq(Middlewares)
    BY <2>1, CallFacts
  <2>3. live = ToSet(op[c].tried) \cup {Head(op[c].todo)}
    BY <2>1 DEF Alone, Solo
  <2>4. ToSet(Attempted(op[c])) = live
    <3>1. Append(op[c].tried, Head(op[c].todo)) \in Seq(Middlewares)
          /\ ToSet(Append(op[c].tried, Head(op[c].todo))) = live
      BY <2>2, <2>3, AppendElements
    <3> QED
      BY <3>1, ReverseElements DEF Attempted
  <2>5. PICK next : next = Call("rollback", op[c].bus, Attempted(op[c]), <<>>)
    OBVIOUS
  <2>6. next.step = "rollback" /\ ToSet(next.todo) = live /\ SettingUp(next) = {}
    BY <2>4, <2>5 DEF Call, SettingUp
  <2>7. Continue(c, next) /\ bus' = NoBus /\ live' = live
    BY <1>1, <2>5 DEF StartFails
  <2>8. Solo(next)'
    BY <2>6, <2>7 DEF Solo
  <2> QED
    BY <2>1, <2>6, <2>7, <2>8, GoAlone, FreshGo DEF Alone
<1>2. CASE RolledBackOne(c)
  <2> DEFINE rest == Tail(op[c].todo)
  <2>1. op[c].step = "rollback" /\ Alone(c)
    BY <1>2, StepsAlone DEF RolledBackOne, Group
  <2>2. bus = NoBus /\ live \subseteq ToSet(op[c].todo)
    BY <2>1 DEF Alone, Solo
  <2>3. First(op[c].todo) = {Head(op[c].todo)} /\ ToSet(op[c].todo) = {Head(op[c].todo)} \cup ToSet(rest)
    BY <2>1, CallFacts
  <2>4. PICK next : next = Call(IF rest = <<>> THEN "abort" ELSE "rollback", op[c].bus, rest, <<>>)
    OBVIOUS
  <2>5. next.step = (IF rest = <<>> THEN "abort" ELSE "rollback") /\ next.todo = rest /\ SettingUp(next) = {}
    BY <2>4 DEF Call, SettingUp
  <2>6. Continue(c, next) /\ UNCHANGED <<list, bus>> /\ live' \subseteq ToSet(rest)
    BY <1>2, <2>2, <2>3, <2>4 DEF RolledBackOne
  <2>7. Solo(next)'
    BY <2>2, <2>5, <2>6, EmptyList DEF Solo, Current
  <2> QED
    BY <2>1, <2>5, <2>6, <2>7, GoAlone, FreshGo DEF Alone
<1> QED
  BY <1>1, <1>2

LEMMA TeardownHooks ==
  ASSUME Types, NEW c \in Callers, NEW b, Teardown(c, b), UNCHANGED <<list, live>>,
         live = Current, \A d \in Callers \ {c} : op[d] = Idle
  PROVE  HookInv' /\ Fresh
<1>1. bus' = NoBus
  BY DEF Teardown
<1>2. CASE bus = NoBus \/ list = <<>>
  <2>1. Return(c)
    BY <1>2 DEF Teardown
  <2>2. live' = Current'
    BY <1>1, <1>2, EmptyList DEF Current
  <2> QED
    BY <2>1, <2>2, ReturnTogether, FreshReturn
<1>3. CASE ~(bus = NoBus \/ list = <<>>)
  <2>1. PICK next : next = Call("teardown", b, Reverse(list), <<>>)
    OBVIOUS
  <2>2. next.step = "teardown" /\ ToSet(next.todo) = ToSet(list) /\ SettingUp(next) = {}
    BY <2>1, ListFacts DEF Call, SettingUp
  <2>3. Continue(c, next)
    BY <1>3, <2>1 DEF Teardown
  <2>4. Solo(next)'
    BY <1>1, <1>3, <2>2 DEF Solo, Current
  <2> QED
    BY <2>2, <2>3, <2>4, GoAlone, FreshGo
<1> QED
  BY <1>2, <1>3

LEMMA TornDownHooks ==
  ASSUME Types, HookInv, NEW c \in Callers, TornDownOne(c)
  PROVE  HookInv' /\ Fresh
<1> DEFINE rest == Tail(op[c].todo)
<1>1. op[c].step = "teardown" /\ Alone(c)
  BY StepsAlone DEF TornDownOne, Group
<1>2. bus = NoBus /\ live \subseteq ToSet(op[c].todo)
  BY <1>1 DEF Alone, Solo
<1>3. First(op[c].todo) = {Head(op[c].todo)} /\ ToSet(op[c].todo) = {Head(op[c].todo)} \cup ToSet(rest)
  BY <1>1, CallFacts
<1>4. UNCHANGED <<list, bus>> /\ live' \subseteq ToSet(rest)
  BY <1>2, <1>3 DEF TornDownOne
<1>5. CASE rest = <<>>
  <2>1. Return(c)
    BY <1>5 DEF TornDownOne
  <2>2. live' = Current'
    BY <1>2, <1>4, <1>5, EmptyList DEF Current
  <2> QED
    BY <1>1, <2>1, <2>2, ReturnTogether, FreshReturn DEF Alone
<1>6. CASE rest # <<>>
  <2>1. PICK next : next = [op[c] EXCEPT !.todo = rest]
    OBVIOUS
  <2>2. next.step = "teardown" /\ next.todo = rest /\ SettingUp(next) = {}
    BY <1>1, <2>1 DEF Types, OpsOK, Calls, SettingUp
  <2>3. Continue(c, next)
    BY <1>6, <2>1 DEF TornDownOne
  <2>4. Solo(next)'
    BY <1>2, <1>4, <2>2 DEF Solo
  <2> QED
    BY <1>1, <2>2, <2>3, <2>4, GoAlone, FreshGo DEF Alone
<1> QED
  BY <1>5, <1>6

LEMMA HookStep ==
  ASSUME OnlyChangesOverlap
  PROVE  Types /\ HookInv /\ [Next]_vars => HookInv' /\ Fresh
<1> SUFFICES ASSUME Types, HookInv, [Next]_vars PROVE HookInv' /\ Fresh
  OBVIOUS
<1>1. ASSUME NEW c \in Callers, NEW m \in Middlewares, Add(c, m) PROVE HookInv' /\ Fresh
  <2>1. ToSet(Append(list, m)) = ToSet(list) \cup {m}
    BY ListFacts, AppendElements
  <2> QED
    BY <1>1, <2>1, EnlistHooks DEF Add
<1>2. ASSUME NEW c \in Callers, NEW m \in Middlewares, NEW i \in 1..Len(list), Insert(c, m, i)
      PROVE  HookInv' /\ Fresh
  <2>1. ToSet(InsertAt(list, i, m)) = ToSet(list) \cup {m}
    BY ListFacts, InsertElements
  <2> QED
    BY <1>2, <2>1, EnlistHooks DEF Insert
<1>3. ASSUME NEW c \in Callers, Clear(c) PROVE HookInv' /\ Fresh
  <2>1. live = Current /\ (\A d \in Callers : op[d] = Idle) /\ live' = live /\ bus' = bus /\ ClearFrom(c, list)
    BY <1>3, BeginsAlone DEF Clear, Group
  <2>2. list \in Seq(Middlewares) /\ (bus = NoBus => live' = {}) /\ live' \subseteq ToSet(list)
    BY <2>1, ListFacts DEF Current
  <2> QED
    BY <2>1, <2>2, ClearHooks
<1>4. ASSUME NEW c \in Callers, ClearedOne(c) PROVE HookInv' /\ Fresh
  <2>1. op[c].step = "clear" /\ Alone(c)
    BY <1>4, StepsAlone DEF ClearedOne, Group
  <2>2. bus # NoBus /\ live \subseteq ToSet(op[c].todo)
    BY <2>1 DEF Alone, Solo
  <2>3. First(op[c].todo) = {Head(op[c].todo)} /\ ToSet(op[c].todo) = {Head(op[c].todo)} \cup ToSet(Tail(op[c].todo))
        /\ Tail(op[c].todo) \in Seq(Middlewares)
    BY <2>1, CallFacts
  <2>4. live' \subseteq ToSet(Tail(op[c].todo)) /\ ClearFrom(c, Tail(op[c].todo)) /\ bus' = bus
    BY <1>4, <2>2, <2>3 DEF ClearedOne
  <2> QED
    BY <2>1, <2>2, <2>3, <2>4, ClearHooks DEF Alone
<1>5. ASSUME NEW c \in Callers, Abort(c) PROVE HookInv' /\ Fresh
  <2>1. op[c].step = "abort" /\ Alone(c)
    BY <1>5, StepsAlone DEF Abort, Group
  <2>2. live = Current
    BY <2>1 DEF Alone, Solo
  <2> QED
    BY <1>5, <2>1, <2>2, TeardownHooks DEF Abort, Alone
<1>6. ASSUME NEW c \in Callers, NEW b \in Buses, Stop(c, b) PROVE HookInv' /\ Fresh
  <2>1. live = Current /\ \A d \in Callers : op[d] = Idle
    BY <1>6, BeginsAlone DEF Stop, Group
  <2> QED
    BY <1>6, <2>1, TeardownHooks DEF Stop
<1>7. ASSUME NEW c \in Callers, Cancel(c) PROVE HookInv' /\ Fresh
  <2>1. op[c].step \in Group /\ Return(c) /\ UNCHANGED <<list, bus, live>>
    BY <1>7 DEF Cancel, OnlyChangesOverlap
  <2> QED
    BY <2>1, ChangeEnds
<1>8. ASSUME UNCHANGED <<op, list, bus, live>> PROVE HookInv' /\ Fresh
  BY <1>8, FreshStays DEF HookInv, Together, Alone, Solo, Current
<1>9. ASSUME NEW k \in Chains, NEW b \in Buses, Build(k, b) PROVE HookInv' /\ Fresh
  BY <1>8, <1>9 DEF Build
<1>10. ASSUME UNCHANGED vars PROVE HookInv' /\ Fresh
  BY <1>8, <1>10 DEF vars
<1> QED
  BY <1>1, <1>2, <1>3, <1>4, <1>5, <1>6, <1>7, <1>9, <1>10, ChangeHooks, RemoveHooks, StartHooks, SetUpHooks,
     RollbackHooks, TornDownHooks DEF Next

(* If only adds, inserts and removes overlap or are cancelled, on_setup and  *)
(* on_teardown come in pairs (middleware.py 112-245).                        *)
THEOREM HooksCorrect == OnlyChangesOverlap /\ Spec => []HooksPaired
<1> SUFFICES ASSUME OnlyChangesOverlap PROVE Spec => []HooksPaired
  OBVIOUS
<1>1. Types /\ HookInv => HooksPaired
  <2> SUFFICES ASSUME HookInv, Quiet PROVE live = IF bus = NoBus THEN {} ELSE ToSet(list)
    BY DEF HooksPaired
  <2>1. \A c \in Callers : op[c] = Idle
    BY DEF Quiet, Busy
  <2>2. \A c \in Callers : ~Alone(c)
    BY <2>1, IdleFacts DEF Alone, Solo
  <2> QED
    BY <2>2 DEF HookInv, Together, Current
<1> QED
  BY <1>1, TypeInit, TypeStep, HookInit, HookStep, PTL DEF Spec

(* And on_setup is never called on a middleware that is already set up       *)
(* (middleware.py 112-131, 197-223).                                         *)
THEOREM SetUpCorrect == OnlyChangesOverlap /\ Spec => SetUpOnce
<1> SUFFICES ASSUME OnlyChangesOverlap PROVE Spec => SetUpOnce
  OBVIOUS
<1>1. Types /\ HookInv /\ [Next]_vars =>
        [\A c \in Callers : SettingUp(op'[c]) \cap live \subseteq SettingUp(op[c])]_vars
  BY HookStep DEF Fresh
<1> QED
  BY <1>1, TypeInit, TypeStep, HookInit, HookStep, PTL DEF Spec, SetUpOnce

-------------------------------------------------------------------------------
(* A chain that was given to one bus is bound to it while it runs, but for   *)
(* the start that is being rolled back.                                      *)

OneBus == \A a, b \in Buses : a = b

Undoing(call) == call.step \in {"rollback", "abort"}
FollowInv == \A b \in running : bus = b \/ \E c \in Callers : Undoing(op[c])

LEMMA FollowKeeps ==
  ASSUME Types, FollowInv, NEW c \in Callers, ~Undoing(op[c]), UNCHANGED <<running, bus>>,
         UNCHANGED op \/ \E next : Continue(c, next)
  PROVE  FollowInv'
<1>1. \A d \in Callers \ {c} : op'[d] = op[d]
  BY Goes
<1>2. \A d \in Callers : Undoing(op[d]) => Undoing(op'[d])
  BY <1>1
<1> QED
  BY <1>2 DEF FollowInv, Undoing

LEMMA FollowStep ==
  ASSUME OneBus, OnlyChangesOverlap
  PROVE  Types /\ FollowInv /\ [Next]_vars => FollowInv'
<1> SUFFICES ASSUME Types, FollowInv, [Next]_vars PROVE FollowInv'
  OBVIOUS
<1>1. running \subseteq Buses
  BY DEF Types, ChainOK
<1>2. ASSUME NEW c \in Callers, op[c] = Idle, UNCHANGED <<running, bus>>,
             UNCHANGED op \/ \E next : Continue(c, next)
      PROVE  FollowInv'
  <2>1. ~Undoing(op[c])
    BY <1>2, IdleFacts DEF Undoing
  <2> QED
    BY <1>2, <2>1, FollowKeeps
<1>3. ASSUME NEW c \in Callers, NEW step, MayCall(c, step) PROVE op[c] = Idle
  BY <1>3 DEF MayCall, Busy
<1>4. ASSUME NEW c \in Callers, NEW m \in Middlewares,
             \/ Add(c, m) \/ RemoveCall(c, m)
             \/ \E i \in 1..Len(list) : Insert(c, m, i)
      PROVE  FollowInv'
  <2>1. MayCall(c, "add") \/ MayCall(c, "remove")
    BY <1>4 DEF Add, Insert, Enlist, RemoveCall
  <2>2. UNCHANGED <<running, bus>> /\ (UNCHANGED op \/ \E next : Continue(c, next))
    BY <1>4 DEF Add, Insert, Enlist, RemoveCall
  <2> QED
    BY <2>1, <2>2, <1>2, <1>3
<1>5. ASSUME NEW c \in Callers, Clear(c) \/ ClearedOne(c) PROVE FollowInv'
  <2>1. UNCHANGED <<running, bus>> /\ (\E next : Continue(c, next))
    BY <1>5 DEF Clear, ClearedOne, ClearFrom, Return
  <2>2. op[c] = Idle \/ op[c].step = "clear"
    BY <1>3, <1>5 DEF Clear, ClearedOne
  <2>3. ~Undoing(op[c])
    BY <2>2, IdleFacts DEF Undoing
  <2> QED
    BY <2>1, <2>3, FollowKeeps
<1>6. ASSUME NEW c \in Callers,
             Added(c) \/ AddFails(c) \/ Undone(c) \/ Removed(c) \/ SetUpOne(c) \/ TornDownOne(c) \/ Cancel(c)
      PROVE  FollowInv'
  <2>1. UNCHANGED <<running, bus>>
    BY <1>6 DEF Added, AddFails, Undone, Removed, SetUpOne, TornDownOne, Cancel
  <2>2. \E next : Continue(c, next)
    <3>1. CASE SetUpOne(c)
      <4>1. Return(c) \/ Continue(c, Call("setup", op[c].bus, Tail(op[c].todo), Append(op[c].tried, Head(op[c].todo))))
        BY <3>1 DEF SetUpOne
      <4> QED
        BY <4>1 DEF Return
    <3>2. CASE TornDownOne(c)
      BY <3>2 DEF TornDownOne, Return
    <3>3. CASE Added(c) \/ AddFails(c) \/ Undone(c) \/ Removed(c) \/ Cancel(c)
      BY <3>3 DEF Added, AddFails, Undone, Removed, Cancel, Return
    <3> QED
      BY <1>6, <3>1, <3>2, <3>3
  <2>3. ~Undoing(op[c])
    BY <1>6 DEF Added, AddFails, Undone, Removed, SetUpOne, TornDownOne, Cancel, Undoing, OnlyChangesOverlap, Group
  <2> QED
    BY <2>1, <2>2, <2>3, FollowKeeps
<1>7. ASSUME NEW c \in Callers, NEW b \in Buses, Start(c, b) PROVE FollowInv'
  <2>1. running' = {b}
    BY <1>1, <1>7 DEF Start, OneBus
  <2>2. CASE bus = NoBus
    BY <1>7, <2>1, <2>2 DEF Start, FollowInv
  <2>3. CASE bus # NoBus
    <3>1. PICK next : next = Call("abort", b, <<>>, <<>>)
      OBVIOUS
    <3>2. Continue(c, next) /\ Undoing(next)
      BY <1>7, <2>3, <3>1 DEF Start, Call, Undoing
    <3>3. Undoing(op'[c])
      BY <3>2, Goes
    <3> QED
      BY <3>3 DEF FollowInv, Undoing
  <2> QED
    BY <2>2, <2>3
<1>8. ASSUME NEW c \in Callers, StartFails(c) \/ RolledBackOne(c) PROVE FollowInv'
  <2>1. \E step \in {"rollback", "abort"} : \E b, todo : Continue(c, Call(step, b, todo, <<>>))
    <3>1. CASE StartFails(c)
      BY <3>1 DEF StartFails
    <3>2. CASE RolledBackOne(c)
      <4>1. Tail(op[c].todo) = <<>> => Continue(c, Call("abort", op[c].bus, Tail(op[c].todo), <<>>))
        BY <3>2 DEF RolledBackOne
      <4>2. Tail(op[c].todo) # <<>> => Continue(c, Call("rollback", op[c].bus, Tail(op[c].todo), <<>>))
        BY <3>2 DEF RolledBackOne
      <4> QED
        BY <4>1, <4>2
    <3> QED
      BY <1>8, <3>1, <3>2
  <2>2. PICK step \in {"rollback", "abort"} : \E b, todo : Continue(c, Call(step, b, todo, <<>>))
    BY <2>1
  <2>3. PICK b, todo : Continue(c, Call(step, b, todo, <<>>))
    BY <2>2
  <2>4. op'[c] = Call(step, b, todo, <<>>)
    BY <2>3, Goes
  <2>5. Undoing(op'[c])
    BY <2>4 DEF Undoing, Call
  <2> QED
    BY <2>5 DEF FollowInv, Undoing
<1>9. ASSUME NEW b \in Buses, running' = running \ {b} PROVE FollowInv'
  <2>1. running' = {}
    BY <1>1, <1>9 DEF OneBus
  <2> QED
    BY <2>1 DEF FollowInv
<1>10. ASSUME NEW c \in Callers, Abort(c) PROVE FollowInv'
  <2>1. op[c].bus \in Buses
    BY <1>10, CallFacts DEF Abort
  <2> QED
    BY <1>9, <1>10, <2>1 DEF Abort
<1>11. ASSUME NEW c \in Callers, NEW b \in Buses, Stop(c, b) PROVE FollowInv'
  BY <1>9, <1>11 DEF Stop
<1>12. ASSUME UNCHANGED <<running, bus, op>> PROVE FollowInv'
  BY <1>12 DEF FollowInv, Undoing
<1>13. ASSUME NEW k \in Chains, NEW b \in Buses, Build(k, b) PROVE FollowInv'
  BY <1>12, <1>13 DEF Build
<1>14. UNCHANGED vars => FollowInv'
  BY <1>12 DEF vars
<1> QED
  BY <1>4, <1>5, <1>6, <1>7, <1>8, <1>10, <1>11, <1>13, <1>14 DEF Next

(* When no call is in progress, a running bus has its chain bound to it, if  *)
(* it does not share it and callers of start and stop are not cancelled      *)
(* (middleware.py 197-245).                                                  *)
THEOREM FollowsCorrect == OneBus /\ OnlyChangesOverlap /\ Spec => []ChainFollowsBus
<1> SUFFICES ASSUME OneBus, OnlyChangesOverlap PROVE Spec => []ChainFollowsBus
  OBVIOUS
<1>1. Init => FollowInv
  BY DEF Init, FollowInv
<1>2. FollowInv => ChainFollowsBus
  <2> SUFFICES ASSUME FollowInv, Quiet, NEW b \in running PROVE bus = b
    BY DEF ChainFollowsBus
  <2>1. \A c \in Callers : ~Undoing(op[c])
    BY IdleFacts DEF Quiet, Busy, Undoing
  <2> QED
    BY <2>1 DEF FollowInv
<1> QED
  BY <1>1, <1>2, TypeInit, TypeStep, FollowStep, PTL DEF Spec

-------------------------------------------------------------------------------
(* The cached chains.                                                        *)

(* The middlewares of which the list and the cached chains may disagree: the *)
(* adds that failed, and those whose hook is still awaited.                  *)
Pending(call) == IF call.step \in {"add", "undo"} THEN First(call.todo) ELSE {}
Doubtful == missed \cup UNION {Pending(op[c]) : c \in Callers}
CacheInv ==
  \A k \in Chains : cache[k] # None =>
    NoRepeat(cache[k][1]) /\ SameBut(Doubtful, cache[k][1], list)

LEMMA Dropped == Types /\ Invalidate => CacheInv'
BY DEF Invalidate, CacheInv, None

(* Nothing that was in doubt is settled while the cached chains stay.        *)
LEMMA CacheKeeps ==
  ASSUME CacheInv, UNCHANGED <<list, cache>>, Doubtful \subseteq Doubtful'
  PROVE  CacheInv'
<1> SUFFICES ASSUME NEW k \in Chains, cache'[k] # None
             PROVE  NoRepeat(cache'[k][1]) /\ SameBut(Doubtful', cache'[k][1], list')
  BY DEF CacheInv, SameBut
<1>1. NoRepeat(cache[k][1]) /\ SameBut(Doubtful, cache[k][1], list)
  BY DEF CacheInv
<1> QED
  BY <1>1 DEF SameBut

(* The list changes by a middleware that is in doubt.                        *)
LEMMA CacheStays ==
  ASSUME CacheInv, UNCHANGED cache, NEW m, SameBut({m}, list', list),
         Doubtful \subseteq Doubtful', m \in Doubtful'
  PROVE  CacheInv'
<1> SUFFICES ASSUME NEW k \in Chains, cache'[k] # None
             PROVE  NoRepeat(cache'[k][1]) /\ SameBut(Doubtful', cache'[k][1], list')
  BY DEF CacheInv, SameBut
<1>1. NoRepeat(cache[k][1]) /\ SameBut(Doubtful, cache[k][1], list)
  BY DEF CacheInv
<1> QED
  BY <1>1 DEF SameBut

(* A call other than an add goes on: what is in doubt stays so.              *)
LEMMA DoubtGoes ==
  ASSUME Types, NEW c \in Callers, NEW next, Continue(c, next), missed \subseteq missed',
         Pending(op[c]) \subseteq missed' \cup Pending(next)
  PROVE  /\ Doubtful \subseteq Doubtful'
         /\ missed' \cup Pending(next) \subseteq Doubtful'
<1>1. op'[c] = next /\ \A d \in Callers \ {c} : op'[d] = op[d]
  BY Goes
<1>2. Pending(op'[c]) = Pending(next) /\ \A d \in Callers \ {c} : Pending(op'[d]) = Pending(op[d])
  BY <1>1
<1>3. Doubtful' = missed' \cup UNION {Pending(op'[d]) : d \in Callers}
  BY DEF Doubtful, Pending, First
<1> QED
  BY <1>2, <1>3 DEF Doubtful

LEMMA PendingIdle == Pending(Idle) = {}
BY DEF Pending, Idle, Call

LEMMA CacheSteady ==
  ASSUME Types, CacheInv, NEW c \in Callers, op[c].step \notin {"add", "undo"},
         UNCHANGED <<list, cache, missed>>, UNCHANGED op \/ \E next : Continue(c, next)
  PROVE  CacheInv'
<1>1. Pending(op[c]) = {}
  BY DEF Pending
<1>2. CASE UNCHANGED op
  <2>1. Doubtful' = Doubtful
    BY <1>2 DEF Doubtful, Pending, First
  <2> QED
    BY <2>1, CacheKeeps
<1>3. ASSUME NEW next, Continue(c, next) PROVE CacheInv'
  <2>1. Doubtful \subseteq Doubtful'
    BY <1>1, <1>3, DoubtGoes
  <2> QED
    BY <2>1, CacheKeeps
<1> QED
  BY <1>2, <1>3

LEMMA CacheInit == Init => CacheInv
BY DEF Init, CacheInv, None

LEMMA CacheEnlist ==
  ASSUME Types, CacheInv, NEW c \in Callers, NEW m \in Middlewares, NEW longer,
         Enlist(c, m, longer), SameBut({m}, longer, list)
  PROVE  CacheInv'
<1>1. CASE bus = NoBus
  BY <1>1, Dropped DEF Enlist
<1>2. CASE bus # NoBus
  <2> DEFINE next == Call("add", NoBus, <<m>>, <<>>)
  <2>1. op[c] = Idle
    BY DEF Enlist, MayCall, Busy
  <2>2. Continue(c, next) /\ UNCHANGED <<cache, missed>> /\ list' = longer
    BY <1>2 DEF Enlist
  <2>3. m \in Pending(next)
    BY DEF Pending, Call, First
  <2> HIDE DEF next
  <2>4. Pending(op[c]) = {}
    BY <2>1, PendingIdle
  <2>5. Doubtful \subseteq Doubtful' /\ m \in Doubtful'
    BY <2>2, <2>3, <2>4, DoubtGoes
  <2> QED
    BY <2>2, <2>5, CacheStays
<1> QED
  BY <1>1, <1>2

LEMMA CacheUndone ==
  ASSUME Types, CacheInv, NEW c \in Callers, Undone(c)
  PROVE  CacheInv'
<1> DEFINE m == Head(op[c].todo)
<1>1. op[c].step = "undo" /\ First(op[c].todo) = {m}
  BY CallFacts DEF Undone
<1>2. /\ list' = RemoveFirst(list, m) /\ missed' = missed \cup {m}
      /\ UNCHANGED cache /\ Continue(c, Idle)
  BY <1>1 DEF Undone, Return
<1>3. Pending(op[c]) = {m}
  BY <1>1 DEF Pending
<1> HIDE DEF m
<1>4. Doubtful \subseteq Doubtful' /\ m \in Doubtful'
  BY <1>2, <1>3, DoubtGoes
<1>5. SameBut({m}, list, RemoveFirst(list, m))
  BY ListFacts, RemoveElements
<1>6. SameBut({m}, list', list)
  BY <1>2, <1>5 DEF SameBut
<1> QED
  BY <1>2, <1>4, <1>6, CacheStays

LEMMA CacheCancel ==
  ASSUME Types, CacheInv, NEW c \in Callers, Cancel(c)
  PROVE  CacheInv'
<1>1. UNCHANGED <<list, cache>> /\ Continue(c, Idle) /\ missed \subseteq missed'
      /\ Pending(op[c]) \subseteq missed'
  BY DEF Cancel, Return, Pending
<1>2. Doubtful \subseteq Doubtful'
  BY <1>1, DoubtGoes
<1> QED
  BY <1>1, <1>2, CacheKeeps

LEMMA CacheStep == Types /\ CacheInv /\ [Next]_vars => CacheInv'
<1> SUFFICES ASSUME Types, CacheInv, [Next]_vars PROVE CacheInv'
  OBVIOUS
<1>1. ASSUME NEW c \in Callers, NEW m \in Middlewares, Add(c, m) PROVE CacheInv'
  <2>1. SameBut({m}, Append(list, m), list)
    BY ListFacts, AppendFacts
  <2> QED
    BY <1>1, <2>1, CacheEnlist DEF Add
<1>2. ASSUME NEW c \in Callers, NEW m \in Middlewares, NEW i \in 1..Len(list), Insert(c, m, i)
      PROVE  CacheInv'
  <2>1. SameBut({m}, InsertAt(list, i, m), list)
    BY ListFacts, InsertFacts
  <2> QED
    BY <1>2, <2>1, CacheEnlist DEF Insert
<1>3. ASSUME NEW c \in Callers, NEW step, MayCall(c, step) PROVE op[c].step \notin {"add", "undo"}
  BY <1>3, IdleFacts DEF MayCall, Busy
<1>4. ASSUME NEW c \in Callers, NEW m \in Middlewares, RemoveCall(c, m) PROVE CacheInv'
  <2>1. CASE bus = NoBus
    BY <1>4, <2>1, Dropped DEF RemoveCall
  <2>2. CASE bus # NoBus
    BY <1>3, <1>4, <2>2, CacheSteady DEF RemoveCall
  <2> QED
    BY <2>1, <2>2
<1>5. ASSUME NEW c \in Callers, Added(c) \/ Removed(c) PROVE CacheInv'
  BY <1>5, Dropped DEF Added, Removed
<1>6. ASSUME NEW c \in Callers, AddFails(c) PROVE CacheInv'
  <2>1. Continue(c, [op[c] EXCEPT !.step = "undo"]) /\ UNCHANGED <<list, cache, missed>> /\ op[c].step = "add"
    BY <1>6 DEF AddFails
  <2>2. op[c] \in Calls
    BY DEF Types, OpsOK, CallOK
  <2>3. Pending([op[c] EXCEPT !.step = "undo"]) = Pending(op[c])
    BY <2>1, <2>2 DEF Pending, Calls
  <2>4. Doubtful \subseteq Doubtful'
    BY <2>1, <2>3, DoubtGoes
  <2> QED
    BY <2>1, <2>4, CacheKeeps
<1>7. ASSUME NEW c \in Callers, Clear(c) \/ ClearedOne(c) PROVE CacheInv'
  <2>1. op[c].step \notin {"add", "undo"}
    BY <1>3, <1>7 DEF Clear, ClearedOne
  <2>2. PICK todo : ClearFrom(c, todo)
    BY <1>7 DEF Clear, ClearedOne
  <2>3. CASE bus = NoBus \/ todo = <<>>
    BY <2>2, <2>3, Dropped DEF ClearFrom
  <2>4. CASE ~(bus = NoBus \/ todo = <<>>)
    BY <2>1, <2>2, <2>4, CacheSteady DEF ClearFrom
  <2> QED
    BY <2>3, <2>4
<1>8. ASSUME NEW c \in Callers, NEW b \in Buses, Start(c, b) \/ Stop(c, b) PROVE CacheInv'
  <2>1. op[c].step \notin {"add", "undo"}
    BY <1>3, <1>8 DEF Start, Stop
  <2>2. UNCHANGED <<list, cache, missed>> /\ \E next : Continue(c, next)
    BY <1>8 DEF Start, Stop, Teardown, Return
  <2> QED
    BY <2>1, <2>2, CacheSteady
<1>9. ASSUME NEW c \in Callers,
             SetUpOne(c) \/ StartFails(c) \/ RolledBackOne(c) \/ Abort(c) \/ TornDownOne(c)
      PROVE  CacheInv'
  <2>1. op[c].step \notin {"add", "undo"} /\ UNCHANGED <<list, cache, missed>>
    BY <1>9 DEF SetUpOne, StartFails, RolledBackOne, Abort, TornDownOne
  <2>2. \E next : Continue(c, next)
    <3>1. CASE SetUpOne(c)
      BY <3>1 DEF SetUpOne, Return
    <3>2. CASE StartFails(c) \/ RolledBackOne(c)
      BY <3>2 DEF StartFails, RolledBackOne
    <3>3. CASE Abort(c) \/ TornDownOne(c)
      BY <3>3 DEF Abort, Teardown, TornDownOne, Return
    <3> QED
      BY <1>9, <3>1, <3>2, <3>3
  <2> QED
    BY <2>1, <2>2, CacheSteady
<1>10. ASSUME NEW k \in Chains, NEW b \in Buses, Build(k, b) PROVE CacheInv'
  <2>1. Doubtful' = Doubtful
    BY <1>10 DEF Build, Doubtful, Pending, First
  <2>2. NoRepeat(list)
    BY ListFacts
  <2>3. cache \in [Chains -> {None} \cup (Seq(Middlewares) \X (Buses \cup {NoBus}))]
    BY DEF Types, ChainOK
  <2> SUFFICES ASSUME NEW j \in Chains, cache'[j] # None
               PROVE  NoRepeat(cache'[j][1]) /\ SameBut(Doubtful', cache'[j][1], list')
    BY DEF CacheInv, SameBut
  <2>4. CASE j = k
    <3>1. cache'[j][1] = list /\ list' = list
      BY <1>10, <2>3, <2>4 DEF Build
    <3> QED
      BY <2>2, <3>1 DEF SameBut
  <2>5. CASE j # k
    <3>1. cache'[j] = cache[j] /\ list' = list
      BY <1>10, <2>3, <2>5 DEF Build
    <3> QED
      BY <2>1, <3>1 DEF CacheInv, SameBut
  <2> QED
    BY <2>4, <2>5
<1>11. CASE UNCHANGED vars
  <2>1. Doubtful' = Doubtful /\ UNCHANGED <<list, cache>>
    BY <1>11 DEF vars, Doubtful, Pending, First
  <2> QED
    BY <2>1, CacheKeeps
<1> QED
  BY <1>1, <1>2, <1>4, <1>5, <1>6, <1>7, <1>8, <1>9, <1>10, <1>11, CacheUndone, CacheCancel DEF Next

(* Between calls, a cached chain is the list, apart from the middlewares of  *)
(* adds that failed or were cancelled, whatever calls overlapped and         *)
(* wherever they were cancelled (_invalidate_cache).                         *)
THEOREM CacheCorrect == Spec => []CacheCurrent
<1>1. Types /\ CacheInv => CacheCurrent
  <2> SUFFICES ASSUME Types, CacheInv, Quiet, NEW k \in Chains, cache[k] # None
               PROVE  NoRepeat(cache[k][1]) /\ SameBut(missed, cache[k][1], list)
    BY DEF CacheCurrent
  <2>1. \A c \in Callers : Pending(op[c]) = {}
    BY PendingIdle DEF Quiet, Busy
  <2>2. Doubtful = missed
    BY <2>1 DEF Doubtful
  <2> QED
    BY <2>2 DEF CacheInv
<1>2. Types /\ CacheInv /\ [Next]_vars => (Types /\ CacheInv)'
  BY TypeStep, CacheStep
<1>3. Init => Types /\ CacheInv
  BY TypeInit, CacheInit
<1> QED
  BY <1>1, <1>2, <1>3, PTL DEF Spec
===============================================================================
