----------------------------- MODULE ExchangeProofs -----------------------------
(***************************************************************************)
(* A call gets the answer to its own request, a one-shot handler matches   *)
(* once and no answer passes its call by, for any number of callers,       *)
(* watchers, services, attempts, permits and any room in the queue.        *)
(***************************************************************************)
EXTENDS Exchange, FiniteSetTheorems, WellFoundedInduction, TLAPS

Done == {Pending, Failed, Cancelled}
USE DEF Pending, Failed, Cancelled

(* Attempts are numbered, and no handler is ahead of its user's number.      *)
AttemptInv ==
  /\ attempt \in [Users -> Nat]
  /\ \A o \in active : o[1] \in Users /\ o[2] \in Nat /\ o[2] <= attempt[o[1]]

(* A handler that matched is not active, and never will be again.            *)
MatchInv ==
  /\ \A m \in matches :
       m[1] \notin active /\ m[1][1] \in Users /\ m[1][2] \in Nat /\ m[1][2] <= attempt[m[1][1]]
  /\ MatchedOnce

(* What a future may hold.                                                   *)
Own(o, r) == IF o[1] \in Callers THEN r.to = o ELSE r.success
FutureInv ==
  /\ DOMAIN future = OneShots
  /\ \A o \in OneShots : future[o] \in Done \/ \E r : future[o] = Result(r) /\ Own(o, r)

Inv == AttemptInv /\ MatchInv /\ FutureInv

LEMMA InvInit == Init => Inv
<1> SUFFICES ASSUME Init PROVE AttemptInv /\ MatchInv /\ FutureInv
  BY DEF Inv
<1> QED
  BY DEF Init, AttemptInv, MatchInv, MatchedOnce, FutureInv, Done

LEMMA DecideKeeps ==
  ASSUME Inv, NEW j \in jobs, Decide(j), UNCHANGED attempt
  PROVE  Inv'
<1> DEFINE o == j.of
           r == j.response
<1>1. CASE UNCHANGED <<active, future, matches>>
  BY <1>1 DEF Inv, AttemptInv, MatchInv, MatchedOnce, FutureInv
<1>2. CASE /\ o \in active /\ active' = active \ {o}
           /\ Resolve(o, Failed) /\ UNCHANGED matches
  BY <1>2 DEF Inv, AttemptInv, MatchInv, MatchedOnce, FutureInv, Resolve, Done
<1>3. CASE o \in active /\ active' = active \ {o} /\ Verdict(o, r) = "accept" /\ Match(j)
  <2>1. matches' = matches \cup {<<o, r>>} /\ Resolve(o, Result(r))
    BY <1>3 DEF Match
  <2>2. AttemptInv'
    BY <1>3 DEF Inv, AttemptInv
  <2>3. \A m \in matches : m[1] # o
    BY <1>3 DEF Inv, MatchInv
  <2>4. MatchInv'
    BY <1>3, <2>1, <2>3 DEF Inv, AttemptInv, MatchInv, MatchedOnce
  <2>5. Own(o, r)
    BY <1>3 DEF Verdict, Own
  <2>6. FutureInv'
    BY <2>1, <2>5 DEF Inv, FutureInv, Resolve, Done
  <2> QED
    BY <2>2, <2>4, <2>6 DEF Inv
<1>4. Verdict(o, r) \in {"accept", "reject", "raise"}
  BY DEF Verdict
<1> QED
  BY <1>1, <1>2, <1>3, <1>4 DEF Decide

LEMMA LeaveKeeps ==
  ASSUME Inv, NEW u \in Users, Leave(u)
  PROVE  Inv'
<1>1. UNCHANGED <<attempt, active, matches>> /\ future' = [future EXCEPT ![Current(u)] = IF @ = Pending THEN Cancelled ELSE @]
  BY DEF Leave
<1>2. AttemptInv' /\ MatchInv'
  BY <1>1 DEF Inv, AttemptInv, MatchInv, MatchedOnce
<1>3. FutureInv'
  BY <1>1 DEF Inv, FutureInv, Done
<1> QED
  BY <1>2, <1>3 DEF Inv

LEMMA InvStep == Inv /\ [Next]_vars => Inv'
<1> SUFFICES ASSUME Inv, [Next]_vars PROVE Inv'
  OBVIOUS
<1>1. ASSUME UNCHANGED <<attempt, active, future, matches>> PROVE Inv'
  BY <1>1 DEF Inv, AttemptInv, MatchInv, MatchedOnce, FutureInv
<1>2. ASSUME NEW u \in Users, Begin(u) PROVE Inv'
  <2>1. attempt' = [attempt EXCEPT ![u] = @ + 1] /\ active' = active \cup {<<u, attempt[u] + 1>>}
        /\ UNCHANGED <<future, matches>>
    BY <1>2 DEF Begin
  <2>2. \A v \in Users : attempt'[v] \in Nat /\ attempt[v] \in Nat /\ attempt'[v] >= attempt[v]
    BY <2>1 DEF Inv, AttemptInv
  <2>3. attempt'[u] = attempt[u] + 1
    BY <2>1 DEF Inv, AttemptInv
  <2>4. ASSUME NEW o \in active PROVE o[1] \in Users /\ o[2] \in Nat /\ o[2] <= attempt'[o[1]]
    BY <2>1, <2>4 DEF Inv, AttemptInv
  <2>5. AttemptInv'
    BY <2>1, <2>3, <2>4 DEF Inv, AttemptInv
  <2>6. ASSUME NEW m \in matches PROVE m[1] \notin active' /\ m[1][1] \in Users /\ m[1][2] \in Nat /\ m[1][2] <= attempt'[m[1][1]]
    <3>1. m[1] \notin active /\ m[1][1] \in Users /\ m[1][2] \in Nat /\ m[1][2] <= attempt[m[1][1]]
      BY <2>6 DEF Inv, MatchInv
    <3>2. m[1] # <<u, attempt[u] + 1>>
      BY <2>2, <3>1
    <3>3. m[1][2] <= attempt'[m[1][1]]
      BY <2>1, <3>1 DEF Inv, AttemptInv
    <3> QED
      BY <2>1, <3>1, <3>2, <3>3
  <2>7. MatchInv'
    BY <2>1, <2>6 DEF Inv, MatchInv, MatchedOnce
  <2>8. FutureInv'
    BY <2>1 DEF Inv, FutureInv
  <2> QED
    BY <2>5, <2>7, <2>8 DEF Inv
<1>3. ASSUME NEW u \in Users, Return(u) PROVE Inv'
  BY <1>1, <1>3 DEF Return
<1>4. ASSUME NEW u \in Users, Timeout(u) \/ Abandon(u) PROVE Inv'
  BY <1>4, LeaveKeeps DEF Timeout, Abandon
<1>5. ASSUME NEW c \in Callers, Put(c) \/ Published(c) PROVE Inv'
  BY <1>1, <1>5 DEF Put, Published
<1>6. CASE Dispatch
  BY <1>1, <1>6 DEF Dispatch, DispatchRequest, DispatchResponse, calls
<1>7. ASSUME NEW t \in serving, Serve(t) PROVE Inv'
  BY <1>1, <1>7 DEF Serve, Run, Respond, NoResponse, calls
<1>8. ASSUME NEW j \in jobs, Skip(j) \/ BeginFilter(j) \/ CancelJob(j) PROVE Inv'
  BY <1>1, <1>8 DEF Skip, BeginFilter, CancelJob, calls
<1>9. ASSUME NEW j \in jobs, Handle(j) \/ EndFilter(j) PROVE Inv'
  BY <1>9, DecideKeeps DEF Handle, EndFilter, calls
<1>10. CASE Stop
  BY <1>1, <1>10 DEF Stop, calls
<1>11. CASE UNCHANGED vars
  BY <1>1, <1>11 DEF vars
<1> QED
  BY <1>2, <1>3, <1>4, <1>5, <1>6, <1>7, <1>8, <1>9, <1>10, <1>11 DEF Next, Job

(* A caller gets the response to its own request and attempt, and a watcher  *)
(* none that its filter raised on.                                           *)
THEOREM AnswerCorrect == Spec => []AnswerIsOwn
<1>1. FutureInv => AnswerIsOwn
  <2> SUFFICES ASSUME FutureInv, NEW o \in OneShots, future[o][1] = "result"
               PROVE  Own(o, future[o][2])
    BY DEF AnswerIsOwn, Own
  <2>1. PICK r : future[o] = Result(r) /\ Own(o, r)
    BY DEF FutureInv, Done
  <2> QED
    BY <2>1 DEF Result
<1>2. Inv => AnswerIsOwn
  BY <1>1 DEF Inv
<1> QED
  BY <1>2, InvInit, InvStep, PTL DEF Spec

(* A one-shot handler calls on_match once at most, however many events are   *)
(* in its filter.                                                            *)
THEOREM MatchCorrect == Spec => []MatchedOnce
<1>1. Inv => MatchedOnce
  BY DEF Inv, MatchInv
<1> QED
  BY <1>1, InvInit, InvStep, PTL DEF Spec

-------------------------------------------------------------------------------
(* The number of calls                                                       *)

LEMMA Least ==
  ASSUME NEW T \in SUBSET Nat, T # {}
  PROVE  \E m \in T : \A k \in T : m <= k
<1> DEFINE R == OpToRel(<, Nat)
<1>1. IsWellFoundedOn(R, Nat)
  BY NatLessThanWellFounded
<1>2. \A x, y \in Nat : x < y => <<x, y>> \in R
  BY DEF OpToRel
<1> HIDE DEF R
<1>3. PICK m \in T : \A y \in T : <<y, m>> \notin R
  BY <1>1, WFMin
<1>4. \A k \in T : ~(k < m)
  BY <1>2, <1>3
<1> QED
  BY <1>4

(* The sum of f over the subsets of S with up to n elements.                 *)
Some(T) == CHOOSE x \in T : TRUE
SumStep(F, f, T) == IF T = {} THEN 0 ELSE f[Some(T)] + F[T \ {Some(T)}]
Small(S, n) == {T \in SUBSET S : Cardinality(T) <= n}
Sums(F, f, D) == F = [T \in D |-> SumStep(F, f, T)]

LEMMA SomeOf ==
  ASSUME NEW S, IsFiniteSet(S), NEW T \in SUBSET S, T # {}
  PROVE  /\ Some(T) \in T /\ T \ {Some(T)} \in SUBSET S
         /\ Cardinality(T) \in Nat /\ Cardinality(T \ {Some(T)}) = Cardinality(T) - 1
<1>1. Some(T) \in T
  BY DEF Some
<1>2. IsFiniteSet(T)
  BY FS_Subset
<1>3. Cardinality(T) \in Nat
  BY <1>2, FS_CardinalityType
<1>4. Cardinality(T \ {Some(T)}) = Cardinality(T) - 1
  BY <1>1, <1>2, FS_RemoveElement
<1> QED
  BY <1>1, <1>3, <1>4

LEMMA SumExtends ==
  ASSUME NEW S, IsFiniteSet(S), NEW f, NEW n \in Nat, NEW F, Sums(F, f, Small(S, n))
  PROVE  \E G : Sums(G, f, Small(S, n + 1))
<1> DEFINE G == [T \in Small(S, n + 1) |-> SumStep(F, f, T)]
<1>1. ASSUME NEW T \in Small(S, n + 1) PROVE SumStep(F, f, T) = SumStep(G, f, T)
  <2>1. CASE T = {}
    BY <2>1 DEF SumStep
  <2>2. CASE T # {}
    <3> DEFINE U == T \ {Some(T)}
    <3>1. T \in SUBSET S /\ Cardinality(T) <= n + 1
      BY DEF Small
    <3>2. U \in SUBSET S /\ Cardinality(T) \in Nat /\ Cardinality(U) = Cardinality(T) - 1
      BY <2>2, <3>1, SomeOf
    <3>3. U \in Small(S, n) /\ U \in Small(S, n + 1)
      BY <3>1, <3>2 DEF Small
    <3> HIDE DEF U
    <3>4. F[U] = SumStep(F, f, U)
      BY <3>3 DEF Sums
    <3>5. G[U] = SumStep(F, f, U)
      BY <3>3
    <3> QED
      BY <2>2, <3>4, <3>5 DEF SumStep, U
  <2> QED
    BY <2>1, <2>2
<1>2. G = [T \in Small(S, n + 1) |-> SumStep(G, f, T)]
  <2> DEFINE H == [T \in Small(S, n + 1) |-> SumStep(G, f, T)]
  <2> QED
    BY <1>1
<1> HIDE DEF G
<1> QED
  BY <1>2 DEF Sums

LEMMA SumExists ==
  ASSUME NEW S, IsFiniteSet(S), NEW f
  PROVE  \E F : Sums(F, f, SUBSET S)
<1> DEFINE Has(n) == \E F : Sums(F, f, Small(S, n))
           T == {n \in Nat : ~Has(n)}
<1>1. Has(0)
  <2>1. ASSUME NEW X \in Small(S, 0) PROVE X = {}
    <3>1. X \in SUBSET S /\ Cardinality(X) <= 0
      BY DEF Small
    <3>2. X # {} => Cardinality(X) \in Nat /\ Cardinality(X \ {Some(X)}) = Cardinality(X) - 1
                    /\ Cardinality(X \ {Some(X)}) \in Nat
      BY <3>1, SomeOf, FS_Subset, FS_CardinalityType
    <3> QED
      BY <3>1, <3>2
  <2> DEFINE F == [X \in Small(S, 0) |-> 0]
  <2>2. F = [X \in Small(S, 0) |-> SumStep(F, f, X)]
    BY <2>1 DEF SumStep
  <2> HIDE DEF F
  <2> QED
    BY <2>2 DEF Sums
<1>2. ASSUME NEW n \in Nat, Has(n) PROVE Has(n + 1)
  BY <1>2, SumExtends
<1>3. T = {}
  <2> SUFFICES ASSUME T # {} PROVE FALSE
    OBVIOUS
  <2>1. PICK m \in T : \A k \in T : m <= k
    BY Least
  <2>2. m \in Nat /\ m # 0 /\ ~Has(m)
    BY <1>1, <2>1
  <2> HIDE DEF Has
  <2>3. m - 1 \in Nat /\ (m - 1) + 1 = m /\ ~(m <= m - 1)
    BY <2>2
  <2>4. Has(m - 1)
    BY <2>1, <2>3
  <2> QED
    BY <1>2, <2>2, <2>3, <2>4
<1>4. Cardinality(S) \in Nat /\ \A X \in SUBSET S : Cardinality(X) <= Cardinality(S)
  BY FS_Subset, FS_CardinalityType
<1>5. Small(S, Cardinality(S)) = SUBSET S
  BY <1>4 DEF Small
<1>6. Has(Cardinality(S))
  <2> HIDE DEF Has
  <2> QED
    BY <1>3, <1>4
<1> QED
  BY <1>5, <1>6

(* A sum is as large as any of its terms.                                    *)
LEMMA SumBounds ==
  ASSUME NEW S, IsFiniteSet(S), NEW f \in [S -> Nat]
  PROVE  SumFunction(f) \in Nat /\ \A x \in S : f[x] <= SumFunction(f)
<1> DEFINE F == CHOOSE G : Sums(G, f, SUBSET S)
<1>1. Sums(F, f, SUBSET S)
  BY SumExists
<1>2. SumFunction(f) = F[S]
  BY DEF SumFunction, SumFunctionOnSet, FoldFunctionOnSet, MapThenFoldSet, Sums, SumStep, Some
<1> HIDE DEF F
<1>3. \A T \in SUBSET S : F[T] = SumStep(F, f, T)
  BY <1>1 DEF Sums
<1> DEFINE Good(T) == F[T] \in Nat /\ \A x \in T : f[x] <= F[T]
           B == {Cardinality(T) : T \in {X \in SUBSET S : ~Good(X)}}
<1>4. \A T \in SUBSET S : Cardinality(T) \in Nat
  BY FS_Subset, FS_CardinalityType
<1>5. B = {}
  <2> SUFFICES ASSUME B # {} PROVE FALSE
    OBVIOUS
  <2>1. B \in SUBSET Nat
    BY <1>4
  <2>2. PICK m \in B : \A k \in B : m <= k
    BY <2>1, Least
  <2>3. PICK T \in SUBSET S : ~Good(T) /\ m = Cardinality(T)
    BY <2>2
  <2>4. ASSUME T = {} PROVE FALSE
    <3>1. F[T] = 0
      BY <1>3, <2>4 DEF SumStep
    <3> QED
      BY <2>3, <2>4, <3>1
  <2> DEFINE x == Some(T)
             U == T \ {x}
  <2>5. x \in T /\ U \in SUBSET S /\ Cardinality(U) = m - 1 /\ m \in Nat
    BY <2>3, <2>4, SomeOf
  <2>6. Good(U)
    <3>1. ~(m <= Cardinality(U))
      BY <2>5
    <3> QED
      BY <2>2, <2>5, <3>1
  <2>7. F[T] = f[x] + F[U] /\ f[x] \in Nat
    BY <1>3, <2>4, <2>5 DEF SumStep
  <2>8. \A y \in T : f[y] \in Nat /\ (y = x \/ y \in U)
    OBVIOUS
  <2> HIDE DEF x, U
  <2> QED
    BY <2>3, <2>6, <2>7, <2>8
<1> QED
  BY <1>2, <1>5

-------------------------------------------------------------------------------
(* The types                                                                 *)

(* A call that began has its number.                                         *)
Numbered == \A u \in Users : stage[u] # "idle" => attempt[u] # 0
Types == TypeOK /\ Numbered

LEMMA TypesInit == Init => Types
<1> SUFFICES ASSUME Init PROVE TypeOK /\ Numbered
  BY DEF Types
<1>1. 0 \in 0..MaxCalls
  BY ExchangeAssumption
<1> QED
  BY <1>1 DEF Init, TypeOK, Numbered, OneShots

LEMMA CurrentType ==
  ASSUME Types, NEW u \in Users, stage[u] # "idle"
  PROVE  Current(u) \in OneShots /\ (u \in Callers => Current(u) \in Requests)
<1>1. attempt[u] \in 1..MaxCalls
  BY DEF Types, TypeOK, Numbered
<1> QED
  BY <1>1 DEF Current, OneShots, Requests

(* MayBegin bounds the number of the next call.                              *)
LEMMA NextNumber ==
  ASSUME Types, NEW u \in Users, MayBegin(u)
  PROVE  attempt[u] + 1 \in 1..MaxCalls
<1>1. attempt \in [Users -> Nat] /\ attempt[u] \in Nat /\ MaxCalls \in Nat
  BY ExchangeAssumption DEF Types, TypeOK
<1>2. IsFiniteSet(Users)
  BY ExchangeAssumption DEF Users
<1>3. SumFunction(attempt) \in Nat /\ attempt[u] <= SumFunction(attempt)
  BY <1>1, <1>2, SumBounds
<1> QED
  BY <1>1, <1>3 DEF MayBegin

LEMMA BeginTypes ==
  ASSUME Types, NEW u \in Users, Begin(u)
  PROVE  Types'
<1>1. attempt[u] + 1 \in 1..MaxCalls /\ attempt[u] + 1 \in 0..MaxCalls /\ attempt[u] + 1 # 0
  BY NextNumber DEF Begin
<1>2. attempt' = [attempt EXCEPT ![u] = attempt[u] + 1] /\ attempt' \in [Users -> 0..MaxCalls]
      /\ active' \subseteq OneShots
  BY <1>1 DEF Begin, Types, TypeOK, OneShots
<1>3. PICK s \in {"publishing", "waiting"} : stage' = [stage EXCEPT ![u] = s]
  BY DEF Begin, Goes
<1>4. stage' \in [Users -> {"idle", "publishing", "published", "waiting"}]
  BY <1>3 DEF Types, TypeOK
<1>5. TypeOK'
  BY <1>2, <1>4 DEF Begin, bus, Types, TypeOK
<1>6. Numbered'
  BY <1>1, <1>2, <1>3 DEF Types, TypeOK, Numbered
<1> QED
  BY <1>5, <1>6 DEF Types

(* The other steps of a call: it moves on, or its future is set.             *)
LEMMA CallTypes ==
  ASSUME Types, NEW u \in Users,
         NEW s \in {"idle", "published", "waiting"}, stage[u] # "idle", Goes(u, s),
         UNCHANGED <<attempt, active, jobs, phase, serving, answers, matches>>,
         \/ UNCHANGED future
         \/ future' = [future EXCEPT ![Current(u)] = IF @ = Pending THEN Cancelled ELSE @],
         UNCHANGED queue \/ (u \in Callers /\ queue' = Append(queue, [request |-> Current(u)]))
  PROVE  Types'
<1>1. stage' \in [Users -> {"idle", "publishing", "published", "waiting"}] /\ Numbered'
  BY DEF Goes, Types, TypeOK, Numbered
<1>2. future' \in [OneShots -> {Pending, Failed, Cancelled} \cup {Result(r) : r \in Responses}]
  BY CurrentType DEF Types, TypeOK
<1>3. queue' \in Seq([request : Requests] \cup [response : Responses])
  <2>1. CASE UNCHANGED queue
    BY <2>1 DEF Types, TypeOK
  <2>2. CASE u \in Callers /\ queue' = Append(queue, [request |-> Current(u)])
    <3>1. [request |-> Current(u)] \in [request : Requests]
      BY <2>2, CurrentType
    <3> QED
      BY <2>2, <3>1 DEF Types, TypeOK
  <2> QED
    BY <2>1, <2>2
<1> QED
  BY <1>1, <1>2, <1>3 DEF Types, TypeOK

LEMMA DispatchTypes ==
  ASSUME Types, Dispatch
  PROVE  Types'
<1> DEFINE Items == [request : Requests] \cup [response : Responses]
<1>1. queue \in Seq(Items) /\ queue # <<>> /\ queue' = Tail(queue)
  BY DEF Dispatch, DispatchRequest, DispatchResponse, Types, TypeOK
<1>2. Head(queue) \in Items /\ queue' \in Seq(Items)
  BY <1>1
<1>3. CASE DispatchRequest
  <2>1. Head(queue).request \in Requests
    BY <1>2, <1>3 DEF DispatchRequest
  <2>2. \A s \in Services : Task(s, Head(queue).request) \in [by : Services, call : Requests, runs : BOOLEAN]
    BY <2>1 DEF Task
  <2>3. serving' \subseteq [by : Services, call : Requests, runs : BOOLEAN]
    BY <1>3, <2>2 DEF DispatchRequest, Types, TypeOK
  <2> QED
    BY <1>2, <1>3, <2>3 DEF DispatchRequest, calls, Types, TypeOK, Numbered
<1>4. CASE DispatchResponse
  <2>1. Head(queue).response \in Responses
    BY <1>2, <1>4 DEF DispatchResponse
  <2>2. Registered \subseteq OneShots
    BY CurrentType DEF Registered
  <2>3. [of : Registered, response : {Head(queue).response}, filtering : {FALSE}]
          \subseteq [of : OneShots, response : Responses, filtering : BOOLEAN]
    BY <2>1, <2>2
  <2> QED
    BY <1>2, <1>4, <2>3 DEF DispatchResponse, calls, Types, TypeOK, Numbered
<1> QED
  BY <1>3, <1>4 DEF Dispatch

LEMMA ServeTypes ==
  ASSUME Types, NEW t \in serving, Serve(t)
  PROVE  Types'
<1>1. t \in [by : Services, call : Requests, runs : BOOLEAN]
  BY DEF Types, TypeOK
<1>2. CASE Respond(t)
  <2>1. PICK success \in BOOLEAN :
          /\ queue' = Append(queue, [response |-> [to |-> t.call, by |-> t.by, success |-> success]])
          /\ answers' = answers \cup {[to |-> t.call, by |-> t.by, success |-> success]}
    BY <1>2 DEF Respond
  <2>2. [to |-> t.call, by |-> t.by, success |-> success] \in Responses
    BY <1>1 DEF Responses
  <2>3. /\ queue' \in Seq([request : Requests] \cup [response : Responses])
        /\ answers' \subseteq Responses
    BY <2>1, <2>2 DEF Types, TypeOK
  <2> QED
    BY <1>2, <2>3 DEF Respond, calls, Types, TypeOK, Numbered
<1>3. CASE NoResponse(t)
  BY <1>3 DEF NoResponse, calls, Types, TypeOK, Numbered
<1>4. CASE Run(t)
  <2>1. [t EXCEPT !.runs = TRUE] \in [by : Services, call : Requests, runs : BOOLEAN]
    BY <1>1
  <2> QED
    BY <1>4, <2>1 DEF Run, calls, Types, TypeOK, Numbered
<1> QED
  BY <1>2, <1>3, <1>4 DEF Serve

LEMMA DecideTypes ==
  ASSUME Types, NEW j \in jobs, Decide(j), UNCHANGED <<calls, bus>>
  PROVE  Types'
<1>1. j \in [of : OneShots, response : Responses, filtering : BOOLEAN]
  BY DEF Types, TypeOK
<1>2. j.of \in OneShots /\ j.response \in Responses
  BY <1>1
<1>3. jobs' \subseteq jobs /\ active' \subseteq active
  BY DEF Decide
<1>4. matches' \subseteq OneShots \X Responses
  BY <1>2 DEF Decide, Match, Types, TypeOK
<1>5. UNCHANGED future \/ Resolve(j.of, Failed) \/ Resolve(j.of, Result(j.response))
  BY DEF Decide, Match
<1>6. future' \in [OneShots -> {Pending, Failed, Cancelled} \cup {Result(r) : r \in Responses}]
  BY <1>2, <1>5 DEF Resolve, Types, TypeOK
<1> QED
  BY <1>3, <1>4, <1>6 DEF calls, bus, Types, TypeOK, Numbered

LEMMA TypesStep == Types /\ [Next]_vars => Types'
<1> SUFFICES ASSUME Types, [Next]_vars PROVE Types'
  OBVIOUS
<1>1. ASSUME NEW u \in Users, Begin(u) PROVE Types'
  BY <1>1, BeginTypes
<1>2. ASSUME NEW u \in Users, Return(u) PROVE Types'
  BY <1>2, CallTypes DEF Return, bus
<1>3. ASSUME NEW u \in Users, Timeout(u) \/ Abandon(u) PROVE Types'
  BY <1>3, CallTypes DEF Timeout, Abandon, Leave, bus
<1>4. ASSUME NEW c \in Callers, Put(c) \/ Published(c) PROVE Types'
  <2>1. c \in Users
    BY DEF Users
  <2> QED
    BY <1>4, <2>1, CallTypes DEF Put, Published, bus
<1>5. CASE Dispatch
  BY <1>5, DispatchTypes
<1>6. ASSUME NEW t \in serving, Serve(t) PROVE Types'
  BY <1>6, ServeTypes
<1>7. ASSUME NEW j \in jobs, Job(j) PROVE Types'
  <2>1. CASE Skip(j)
    BY <2>1 DEF Skip, calls, bus, Types, TypeOK, Numbered
  <2>2. CASE Handle(j) \/ EndFilter(j)
    BY <2>2, DecideTypes DEF Handle, EndFilter
  <2>3. CASE BeginFilter(j)
    <3>1. [j EXCEPT !.filtering = TRUE] \in [of : OneShots, response : Responses, filtering : BOOLEAN]
      BY DEF Types, TypeOK
    <3> QED
      BY <2>3, <3>1 DEF BeginFilter, calls, bus, Types, TypeOK, Numbered
  <2> QED
    BY <1>7, <2>1, <2>2, <2>3 DEF Job
<1>8. ASSUME NEW j \in jobs, CancelJob(j) PROVE Types'
  BY <1>8 DEF CancelJob, calls, bus, Types, TypeOK, Numbered
<1>9. CASE Stop
  BY <1>9 DEF Stop, calls, Types, TypeOK, Numbered
<1>10. CASE UNCHANGED vars
  BY <1>10 DEF vars, Types, TypeOK, Numbered
<1> QED
  BY <1>1, <1>2, <1>3, <1>4, <1>5, <1>6, <1>7, <1>8, <1>9, <1>10 DEF Next

(* Every variable has its type: above all, a call that began has a number,   *)
(* and no number is above the bound of MayBegin.                             *)
THEOREM TypeCorrect == Spec => []TypeOK
<1>1. Types => TypeOK
  BY DEF Types
<1> QED
  BY <1>1, TypesInit, TypesStep, PTL DEF Spec

-------------------------------------------------------------------------------
(* No answer passes its call by                                              *)

(* The bus knows of no call that has not begun.                              *)
Began(o) == o[2] <= attempt[o[1]]
BeganInv ==
  /\ \A r \in answers : Began(r.to)
  /\ \A t \in serving : Began(t.call)
  /\ \A x \in ToSet(queue) : "request" \in DOMAIN x => Began(x.request)

(* A call that has nothing yet listens, and no answer to it is lost.         *)
Missing(u) == stage[u] # "idle" /\ future[Current(u)] = Pending
Listens == \A u \in Users : Missing(u) => Current(u) \in active
Kept ==
  phase # "ended" =>
    \A c \in Callers : Missing(c) => \A r \in answers : r.to = Current(c) => Reaching(r, Current(c))

Heard == BeganInv /\ Listens /\ Kept

Items == [request : Requests] \cup [response : Responses]

LEMMA AppendedItems ==
  ASSUME NEW q \in Seq(Items), NEW x \in Items
  PROVE  ToSet(Append(q, x)) = ToSet(q) \cup {x}
<1> DEFINE a == Append(q, x)
           n == Len(q)
<1>1. n \in Nat /\ DOMAIN q = 1..n /\ DOMAIN a = 1..(n + 1)
      /\ (\A i \in 1..n : a[i] = q[i]) /\ a[n + 1] = x
  OBVIOUS
<1> HIDE DEF a, n
<1>2. 1..(n + 1) = 1..n \cup {n + 1}
  BY <1>1
<1>3. ToSet(a) = ToSet(q) \cup {x}
  BY <1>1, <1>2 DEF ToSet
<1> QED
  BY <1>3 DEF a

LEMMA TailItems ==
  ASSUME NEW q \in Seq(Items), q # <<>>
  PROVE  /\ ToSet(Tail(q)) \subseteq ToSet(q) /\ Head(q) \in ToSet(q)
         /\ ToSet(q) \subseteq {Head(q)} \cup ToSet(Tail(q))
<1> DEFINE t == Tail(q)
           n == Len(q)
           h == Head(q)
<1>1. n \in Nat /\ n > 0 /\ DOMAIN q = 1..n /\ h = q[1]
  OBVIOUS
<1>2. DOMAIN t = 1..(n - 1) /\ \A i \in 1..(n - 1) : t[i] = q[i + 1]
  OBVIOUS
<1> HIDE DEF t, n, h
<1>3. \A i \in 1..(n - 1) : i + 1 \in 1..n
  BY <1>1
<1>4. \A i \in 1..n : i = 1 \/ (i - 1 \in 1..(n - 1) /\ (i - 1) + 1 = i)
  BY <1>1
<1>5. 1 \in 1..n
  BY <1>1
<1>6. \A y \in ToSet(t) : y \in ToSet(q)
  BY <1>1, <1>2, <1>3 DEF ToSet
<1>7. \A y \in ToSet(q) : y = h \/ y \in ToSet(t)
  <2> SUFFICES ASSUME NEW i \in 1..n PROVE q[i] = h \/ q[i] \in ToSet(t)
    BY <1>1 DEF ToSet
  <2>1. CASE i = 1
    BY <1>1, <2>1
  <2>2. CASE i # 1
    <3>1. i - 1 \in DOMAIN t /\ t[i - 1] = q[i]
      BY <1>2, <1>4, <2>2
    <3> QED
      BY <3>1 DEF ToSet
  <2> QED
    BY <2>1, <2>2
<1>8. h \in ToSet(q)
  BY <1>1, <1>5 DEF ToSet
<1> QED
  BY <1>6, <1>7, <1>8 DEF t, h

LEMMA HeardInit == Init => Heard
<1> SUFFICES ASSUME Init PROVE BeganInv /\ Listens /\ Kept
  BY DEF Heard
<1>1. ToSet(queue) = {}
  BY DEF Init, ToSet
<1> QED
  BY <1>1 DEF Init, BeganInv, Listens, Missing, Kept

(* Calls only begin.                                                         *)
LEMMA BeganStays ==
  ASSUME Types, NEW o \in Requests, Began(o), UNCHANGED attempt \/ \E u \in Users : Begin(u)
  PROVE  Began(o)'
<1>1. o[1] \in Users /\ o[2] \in Nat
  BY DEF Requests, Users
<1>2. CASE UNCHANGED attempt
  BY <1>2 DEF Began
<1>3. ASSUME NEW u \in Users, Begin(u) PROVE Began(o)'
  <2>1. attempt' = [attempt EXCEPT ![u] = @ + 1] /\ attempt \in [Users -> 0..MaxCalls]
    BY <1>3 DEF Begin, Types, TypeOK
  <2>2. attempt[o[1]] \in Nat /\ attempt'[o[1]] \in {attempt[o[1]], attempt[o[1]] + 1}
    BY <1>1, <2>1
  <2> QED
    BY <1>1, <2>2 DEF Began
<1> QED
  BY <1>2, <1>3

(* What leaves a call as it is, or ends it, and drops no answer keeps both.  *)
LEMMA HeardSame ==
  ASSUME Types, Heard, UNCHANGED <<attempt, answers>>, phase' # "ended" => phase # "ended",
         \A u \in Users : Missing(u)' => Missing(u),
         \A u \in Users : Missing(u)' /\ Current(u) \in active => Current(u) \in active',
         \A c \in Callers : \A r \in answers :
           phase' # "ended" /\ Missing(c)' /\ Current(c) \in active /\ r.to = Current(c) /\ Reaching(r, Current(c))
             => Reaching(r, Current(c))'
  PROVE  Listens' /\ Kept'
<1>1. \A u \in Users : Current(u)' = Current(u)
  BY DEF Current
<1>2. Callers \subseteq Users
  BY DEF Users
<1>3. Listens'
  BY <1>1 DEF Heard, Listens
<1>4. Kept'
  <2> SUFFICES ASSUME phase' # "ended", NEW c \in Callers, Missing(c)', NEW r \in answers', r.to = Current(c)'
               PROVE  Reaching(r, Current(c))'
    BY DEF Kept
  <2>1. r \in answers /\ r.to = Current(c) /\ Missing(c) /\ phase # "ended"
    BY <1>1, <1>2
  <2>2. Reaching(r, Current(c)) /\ Current(c) \in active
    BY <1>2, <2>1 DEF Heard, Kept, Listens
  <2> QED
    BY <2>1, <2>2
<1> QED
  BY <1>3, <1>4

LEMMA BeganStep == Types /\ BeganInv /\ [Next]_vars => BeganInv'
<1> SUFFICES ASSUME Types, BeganInv, [Next]_vars PROVE BeganInv'
  OBVIOUS
<1>1. /\ queue \in Seq(Items) /\ answers \subseteq Responses
      /\ \A t \in serving : t \in [by : Services, call : Requests, runs : BOOLEAN]
  BY DEF Types, TypeOK, Items
<1>2. /\ \A r \in answers : r.to \in Requests
      /\ \A t \in serving : t.call \in Requests
      /\ \A x \in ToSet(queue) : "request" \in DOMAIN x => x.request \in Requests
  <2>1. \A x \in ToSet(queue) : x \in Items
    BY <1>1 DEF ToSet
  <2> QED
    BY <1>1, <2>1 DEF Responses, Items
<1>3. ASSUME UNCHANGED attempt \/ \E u \in Users : Begin(u), NEW o \in Requests, Began(o) PROVE Began(o)'
  BY <1>3, BeganStays
<1>4. ASSUME UNCHANGED attempt \/ \E u \in Users : Begin(u), serving' \subseteq serving,
             UNCHANGED <<queue, answers>>
      PROVE  BeganInv'
  BY <1>2, <1>3, <1>4 DEF BeganInv
<1>5. ASSUME NEW c \in Callers, Put(c) PROVE BeganInv'
  <2>1. c \in Users /\ UNCHANGED <<attempt, serving, answers>> /\ queue' = Append(queue, [request |-> Current(c)])
        /\ stage[c] # "idle"
    BY <1>5 DEF Put, Users
  <2>2. Current(c) \in Requests /\ Began(Current(c))
    <3>1. attempt[c] \in Nat
      BY <2>1 DEF Types, TypeOK
    <3> QED
      BY <2>1, <3>1, CurrentType DEF Current, Began
  <2>3. ToSet(queue') = ToSet(queue) \cup {[request |-> Current(c)]}
    BY <1>1, <2>1, <2>2, AppendedItems DEF Items
  <2>4. \A x \in ToSet(queue') : "request" \in DOMAIN x => x.request \in Requests /\ Began(x.request)
    BY <1>2, <2>2, <2>3 DEF BeganInv
  <2> QED
    BY <1>2, <1>3, <2>1, <2>4 DEF BeganInv
<1>6. CASE Dispatch
  <2>1. queue # <<>> /\ queue' = Tail(queue) /\ UNCHANGED <<attempt, answers>>
    BY <1>6 DEF Dispatch, DispatchRequest, DispatchResponse, calls
  <2>2. ToSet(queue') \subseteq ToSet(queue) /\ Head(queue) \in ToSet(queue)
    BY <1>1, <2>1, TailItems
  <2>3. \A t \in serving' : t \in serving \/ ("request" \in DOMAIN Head(queue) /\ t.call = Head(queue).request)
    <3>1. \A s \in Services : Task(s, Head(queue).request).call = Head(queue).request
      BY DEF Task
    <3>2. CASE DispatchRequest
      BY <3>1, <3>2 DEF DispatchRequest
    <3>3. CASE DispatchResponse
      BY <3>3 DEF DispatchResponse
    <3> QED
      BY <1>6, <3>2, <3>3 DEF Dispatch
  <2>4. \A t \in serving' : t.call \in Requests /\ Began(t.call)
    BY <1>2, <2>2, <2>3 DEF BeganInv
  <2> QED
    BY <1>2, <1>3, <2>1, <2>2, <2>4 DEF BeganInv
<1>7. ASSUME NEW t \in serving, Run(t) PROVE BeganInv'
  <2>1. UNCHANGED <<attempt, queue, answers>> /\ serving' = (serving \ {t}) \cup {[t EXCEPT !.runs = TRUE]}
    BY <1>7 DEF Run, calls
  <2>2. [t EXCEPT !.runs = TRUE].call = t.call
    BY <1>1
  <2>3. \A k \in serving' : k.call \in Requests /\ Began(k.call)
    BY <1>2, <2>1, <2>2 DEF BeganInv
  <2> QED
    BY <1>2, <1>3, <2>1, <2>3 DEF BeganInv
<1>8. ASSUME NEW t \in serving, Respond(t) PROVE BeganInv'
  <2>1. PICK success \in BOOLEAN :
          /\ queue' = Append(queue, [response |-> [to |-> t.call, by |-> t.by, success |-> success]])
          /\ answers' = answers \cup {[to |-> t.call, by |-> t.by, success |-> success]}
    BY <1>8 DEF Respond
  <2> DEFINE r == [to |-> t.call, by |-> t.by, success |-> success]
  <2>2. r \in Responses /\ r.to = t.call
    BY <1>1 DEF Responses
  <2>3. ToSet(queue') = ToSet(queue) \cup {[response |-> r]} /\ answers' = answers \cup {r}
    BY <1>1, <2>1, <2>2, AppendedItems DEF Items
  <2>4. UNCHANGED attempt /\ serving' \subseteq serving
    BY <1>8 DEF Respond, calls
  <2> HIDE DEF r
  <2>5. \A x \in ToSet(queue') : "request" \in DOMAIN x => x \in ToSet(queue)
    BY <2>3
  <2>6. \A k \in answers' : k.to \in Requests /\ Began(k.to)
    BY <1>2, <2>2, <2>3 DEF BeganInv
  <2> QED
    BY <1>2, <1>3, <2>4, <2>5, <2>6 DEF BeganInv
<1>9. ASSUME NEW t \in serving, NoResponse(t) PROVE BeganInv'
  BY <1>4, <1>9 DEF NoResponse, calls
<1>10. ASSUME NEW u \in Users, Begin(u) PROVE BeganInv'
  BY <1>4, <1>10 DEF Begin, bus
<1>11. ASSUME NEW u \in Users, Return(u) \/ Timeout(u) \/ Abandon(u) PROVE BeganInv'
  BY <1>4, <1>11 DEF Return, Timeout, Abandon, Leave, bus
<1>12. ASSUME NEW c \in Callers, Published(c) PROVE BeganInv'
  BY <1>4, <1>12 DEF Published, bus
<1>13. ASSUME NEW j \in jobs, Job(j) \/ CancelJob(j) PROVE BeganInv'
  BY <1>4, <1>13 DEF Job, Skip, Handle, BeginFilter, EndFilter, CancelJob, calls, bus
<1>14. CASE Stop
  BY <1>4, <1>14 DEF Stop, calls
<1>15. CASE UNCHANGED vars
  BY <1>4, <1>15 DEF vars
<1> QED
  BY <1>5, <1>6, <1>7, <1>8, <1>9, <1>10, <1>11, <1>12, <1>13, <1>14, <1>15 DEF Next, Serve

(* A new call has no answers yet.                                            *)
LEMMA HeardBegin ==
  ASSUME Types, Heard, NEW u \in Users, Begin(u)
  PROVE  Listens' /\ Kept'
<1>1. attempt' = [attempt EXCEPT ![u] = @ + 1] /\ active' = active \cup {<<u, attempt[u] + 1>>}
      /\ UNCHANGED <<future, phase, queue, serving, answers, jobs>>
      /\ attempt \in [Users -> 0..MaxCalls] /\ attempt[u] \in Nat
  BY DEF Begin, bus, Types, TypeOK
<1>2. \A v \in Users : v # u => Current(v)' = Current(v) /\ stage'[v] = stage[v]
  BY <1>1 DEF Begin, Goes, Current, Types, TypeOK
<1>3. Current(u)' = <<u, attempt[u] + 1>>
  BY <1>1 DEF Current
<1>4. Listens'
  <2> SUFFICES ASSUME NEW v \in Users, Missing(v)' PROVE Current(v)' \in active'
    BY DEF Listens
  <2>1. CASE v = u
    BY <1>1, <1>3, <2>1
  <2>2. CASE v # u
    <3>1. Missing(v)
      BY <1>1, <1>2, <2>2 DEF Missing
    <3> QED
      BY <1>1, <1>2, <2>2, <3>1 DEF Heard, Listens
  <2> QED
    BY <2>1, <2>2
<1>5. Kept'
  <2> SUFFICES ASSUME phase' # "ended", NEW c \in Callers, Missing(c)', NEW r \in answers', r.to = Current(c)'
               PROVE  Reaching(r, Current(c))'
    BY DEF Kept
  <2>1. c \in Users /\ r \in answers /\ phase # "ended"
    BY <1>1 DEF Users
  <2>2. c # u
    <3> SUFFICES ASSUME c = u PROVE FALSE
      OBVIOUS
    <3>1. r.to[1] = u /\ r.to[2] = attempt[u] + 1
      BY <1>3
    <3>2. r.to[2] <= attempt[u]
      BY <2>1, <3>1 DEF Heard, BeganInv, Began
    <3> QED
      BY <1>1, <3>1, <3>2
  <2>3. Missing(c) /\ Current(c)' = Current(c)
    BY <1>1, <1>2, <2>1, <2>2 DEF Missing
  <2>4. Reaching(r, Current(c))
    BY <2>1, <2>3 DEF Heard, Kept
  <2> QED
    BY <1>1, <2>3, <2>4 DEF Reaching
<1> QED
  BY <1>4, <1>5

(* A job decides: it rejects what is no answer to its call, or the call has  *)
(* something from now on.                                                    *)
LEMMA HeardDecide ==
  ASSUME Types, Heard, NEW j \in jobs, Decide(j), UNCHANGED <<calls, bus>>
  PROVE  Listens' /\ Kept'
<1>1. UNCHANGED <<stage, attempt, phase, queue, answers>> /\ jobs' = jobs \ {j}
      /\ \A u \in Users : Current(u)' = Current(u)
  BY DEF calls, bus, Decide, Current
<1>2. j.of \in OneShots /\ DOMAIN future = OneShots
  BY DEF Types, TypeOK
<1>3. ASSUME j.of \in active, Verdict(j.of, j.response) \in {"accept", "raise"}
      PROVE  future'[j.of] # Pending /\ active' = active \ {j.of} /\ \A o \in OneShots : future'[o] = Pending => future[o] = Pending
  <2>1. Resolve(j.of, Failed) \/ Resolve(j.of, Result(j.response))
    BY <1>3 DEF Decide, Match
  <2>2. Result(j.response) # Pending /\ Failed # Pending
    BY DEF Result
  <2> QED
    BY <1>2, <1>3, <2>1, <2>2 DEF Decide, Resolve
<1>4. ASSUME ~(j.of \in active /\ Verdict(j.of, j.response) \in {"accept", "raise"})
      PROVE  UNCHANGED <<active, future>>
  BY <1>4 DEF Decide, Verdict
<1>5. \A u \in Users : Missing(u)' => Missing(u) /\ Current(u) \in OneShots
  <2> SUFFICES ASSUME NEW u \in Users, Missing(u)' PROVE Missing(u) /\ Current(u) \in OneShots
    OBVIOUS
  <2>1. stage[u] # "idle" /\ future'[Current(u)] = Pending
    BY <1>1 DEF Missing
  <2>2. Current(u) \in OneShots
    BY <2>1, CurrentType
  <2> QED
    BY <1>3, <1>4, <2>1, <2>2 DEF Missing
<1>6. \A u \in Users : Missing(u)' /\ Current(u) \in active => Current(u) \in active'
  <2> SUFFICES ASSUME NEW u \in Users, Missing(u)', Current(u) \in active PROVE Current(u) \in active'
    OBVIOUS
  <2>1. future'[Current(u)] = Pending
    BY <1>1 DEF Missing
  <2> QED
    BY <1>3, <1>4, <2>1
<1>7. ASSUME NEW c \in Callers, NEW r \in answers, Missing(c)', Current(c) \in active, r.to = Current(c),
             Reaching(r, Current(c))
      PROVE  Reaching(r, Current(c))'
  <2>1. Current(c)' = Current(c) /\ c \in Users /\ future'[Current(c)] = Pending
    BY <1>1, <1>7 DEF Missing, Users
  <2>2. j # [of |-> Current(c), response |-> r, filtering |-> FALSE]
    <3> SUFFICES ASSUME j = [of |-> Current(c), response |-> r, filtering |-> FALSE] PROVE FALSE
      OBVIOUS
    <3>1. j.of = Current(c) /\ j.response = r
      OBVIOUS
    <3>2. j.of[1] \in Callers /\ Verdict(j.of, j.response) = "accept"
      BY <1>7, <3>1 DEF Current, Verdict
    <3> QED
      BY <1>3, <1>7, <2>1, <3>1, <3>2
  <2> QED
    BY <1>1, <1>7, <2>1, <2>2 DEF Reaching
<1> QED
  BY <1>1, <1>5, <1>6, <1>7, HeardSame

(* A call is left: what it waits for no longer matters.                      *)
LEMMA HeardLeave ==
  ASSUME Types, Heard, NEW u \in Users, stage[u] # "idle", Goes(u, "idle"),
         UNCHANGED <<attempt, active, bus, jobs>>,
         \/ UNCHANGED future
         \/ future' = [future EXCEPT ![Current(u)] = IF @ = Pending THEN Cancelled ELSE @]
  PROVE  Listens' /\ Kept'
<1>1. \A v \in Users : Current(v)' = Current(v) /\ (v # u => Current(v) # Current(u))
  BY DEF Current
<1>2. stage'[u] = "idle" /\ \A v \in Users : v # u => stage'[v] = stage[v]
  BY DEF Goes, Types, TypeOK
<1>3. \A o \in OneShots : o # Current(u) => future'[o] = future[o]
  <2>1. DOMAIN future = OneShots
    BY DEF Types, TypeOK
  <2> QED
    BY <2>1
<1>4. ASSUME NEW v \in Users, Missing(v)' PROVE Missing(v)
  <2>1. v # u /\ stage[v] # "idle"
    BY <1>2, <1>4 DEF Missing
  <2>2. Current(v) \in OneShots
    BY <2>1, CurrentType
  <2> QED
    BY <1>1, <1>3, <1>4, <2>1, <2>2 DEF Missing
<1>5. ASSUME NEW c \in Callers, NEW r \in answers, Reaching(r, Current(c)) PROVE Reaching(r, Current(c))'
  <2>1. Current(c)' = Current(c) /\ queue' = queue /\ jobs' = jobs
    BY DEF Current, bus
  <2> QED
    BY <1>5, <2>1 DEF Reaching
<1> QED
  BY <1>4, <1>5, HeardSame DEF bus

(* A response reaches every handler that is registered, and so that of its   *)
(* call.                                                                     *)
LEMMA HeardDispatch ==
  ASSUME Types, Heard, Dispatch
  PROVE  Listens' /\ Kept'
<1>1. /\ UNCHANGED <<stage, attempt, active, future, phase, answers>> /\ jobs \subseteq jobs'
      /\ queue # <<>> /\ queue' = Tail(queue) /\ queue \in Seq(Items)
  BY DEF Dispatch, DispatchRequest, DispatchResponse, calls, Types, TypeOK, Items
<1>2. \A u \in Users : Current(u)' = Current(u) /\ (Missing(u)' => Missing(u))
  BY <1>1 DEF Current, Missing
<1>3. ToSet(queue) \subseteq {Head(queue)} \cup ToSet(queue')
  BY <1>1, TailItems
<1>4. ASSUME NEW c \in Callers, NEW r \in answers, Missing(c)', Reaching(r, Current(c))
      PROVE  Reaching(r, Current(c))'
  <2>1. c \in Users /\ Current(c)' = Current(c)
    BY <1>2 DEF Users
  <2>2. CASE [response |-> r] \in ToSet(queue')
    BY <2>2 DEF Reaching
  <2>3. CASE [of |-> Current(c), response |-> r, filtering |-> FALSE] \in jobs
    BY <1>1, <2>1, <2>3 DEF Reaching
  <2>4. CASE [response |-> r] = Head(queue)
    <3>1. Head(queue).response = r /\ "request" \notin DOMAIN Head(queue)
      BY <2>4
    <3>2. DispatchResponse
      BY <3>1 DEF Dispatch, DispatchRequest
    <3>3. Current(c) \in Registered
      BY <1>2, <1>4, <2>1 DEF Missing, Registered
    <3>4. [of |-> Current(c), response |-> r, filtering |-> FALSE]
            \in [of : Registered, response : {Head(queue).response}, filtering : {FALSE}]
      BY <3>1, <3>3
    <3>5. [of |-> Current(c), response |-> r, filtering |-> FALSE] \in jobs'
      BY <3>2, <3>4 DEF DispatchResponse
    <3> QED
      BY <2>1, <3>5 DEF Reaching
  <2> QED
    BY <1>3, <1>4, <2>2, <2>3, <2>4 DEF Reaching
<1> QED
  BY <1>1, <1>2, <1>4, HeardSame

LEMMA HeardRespond ==
  ASSUME Types, Heard, NEW t \in serving, Respond(t)
  PROVE  Listens' /\ Kept'
<1>1. PICK success \in BOOLEAN :
        /\ queue' = Append(queue, [response |-> [to |-> t.call, by |-> t.by, success |-> success]])
        /\ answers' = answers \cup {[to |-> t.call, by |-> t.by, success |-> success]}
  BY DEF Respond
<1> DEFINE new == [to |-> t.call, by |-> t.by, success |-> success]
<1>2. queue \in Seq(Items) /\ t \in [by : Services, call : Requests, runs : BOOLEAN]
  BY DEF Types, TypeOK, Items
<1>3. new \in Responses
  BY <1>2 DEF Responses
<1>4. ToSet(queue') = ToSet(queue) \cup {[response |-> new]} /\ answers' = answers \cup {new}
  BY <1>1, <1>2, <1>3, AppendedItems DEF Items
<1> HIDE DEF new
<1>5. UNCHANGED <<stage, attempt, active, future, phase, jobs>>
  BY DEF Respond, calls
<1>6. \A u \in Users : Current(u)' = Current(u) /\ (Missing(u)' => Missing(u))
  BY <1>5 DEF Current, Missing
<1>7. Listens'
  BY <1>5, <1>6 DEF Heard, Listens
<1>8. Kept'
  <2> SUFFICES ASSUME phase' # "ended", NEW c \in Callers, Missing(c)', NEW r \in answers', r.to = Current(c)'
               PROVE  Reaching(r, Current(c))'
    BY DEF Kept
  <2>1. c \in Users /\ Current(c)' = Current(c) /\ Missing(c) /\ phase # "ended"
    BY <1>5, <1>6 DEF Users
  <2>2. CASE r = new
    BY <1>4, <2>2 DEF Reaching
  <2>3. CASE r \in answers
    <3>1. Reaching(r, Current(c))
      BY <2>1, <2>3 DEF Heard, Kept
    <3> QED
      BY <1>4, <1>5, <2>1, <3>1 DEF Reaching
  <2> QED
    BY <1>4, <2>2, <2>3
<1> QED
  BY <1>7, <1>8

LEMMA HeardStep == Types /\ Heard /\ [Next]_vars => Heard'
<1> SUFFICES ASSUME Types, Heard, [Next]_vars PROVE Listens' /\ Kept'
  BY BeganStep DEF Heard
<1>1. \A u : UNCHANGED attempt => Current(u)' = Current(u)
  BY DEF Current
(* A step that leaves the answers where they are and lets nobody wait anew.  *)
<1>2. ASSUME UNCHANGED <<attempt, active, answers, future>>, phase' # "ended" => phase # "ended",
             \A u \in Users : stage'[u] # "idle" => stage[u] # "idle",
             ToSet(queue) \subseteq ToSet(queue'),
             phase' # "ended" => \A j \in jobs : j.filtering \/ j.of \notin active \/ j.of[1] \notin Callers \/ j \in jobs'
      PROVE  Listens' /\ Kept'
  <2>1. \A u \in Users : Missing(u)' => Missing(u)
    BY <1>1, <1>2 DEF Missing
  <2>2. ASSUME NEW c \in Callers, NEW r \in answers, phase' # "ended", Current(c) \in active, Reaching(r, Current(c))
        PROVE  Reaching(r, Current(c))'
    <3>1. Current(c)' = Current(c) /\ Current(c)[1] = c
      BY <1>1, <1>2 DEF Current
    <3>2. CASE [response |-> r] \in ToSet(queue)
      BY <1>2, <3>2 DEF Reaching
    <3>3. CASE [of |-> Current(c), response |-> r, filtering |-> FALSE] \in jobs
      <4> DEFINE j == [of |-> Current(c), response |-> r, filtering |-> FALSE]
      <4>1. j.of = Current(c) /\ j.filtering = FALSE
        OBVIOUS
      <4>2. j \in jobs'
        BY <1>2, <2>2, <3>1, <3>3, <4>1
      <4> QED
        BY <3>1, <4>2 DEF Reaching
    <3> QED
      BY <2>2, <3>2, <3>3 DEF Reaching
  <2> QED
    BY <1>2, <2>1, <2>2, HeardSame
<1>3. ASSUME NEW u \in Users, Begin(u) PROVE Listens' /\ Kept'
  BY <1>3, HeardBegin
<1>4. ASSUME NEW u \in Users, Return(u) \/ Timeout(u) \/ Abandon(u) PROVE Listens' /\ Kept'
  BY <1>4, HeardLeave DEF Return, Timeout, Abandon, Leave
<1>5. ASSUME NEW c \in Callers, Put(c) \/ Published(c) PROVE Listens' /\ Kept'
  <2>1. c \in Users /\ stage[c] # "idle" /\ \A u \in Users : stage'[u] # "idle" => stage[u] # "idle"
    BY <1>5 DEF Put, Published, Goes, Users, Types, TypeOK
  <2>2. UNCHANGED <<attempt, active, answers, future, phase, jobs>>
    BY <1>5 DEF Put, Published, bus
  <2>3. ToSet(queue) \subseteq ToSet(queue')
    <3>1. CASE Put(c)
      <4>1. [request |-> Current(c)] \in Items /\ queue \in Seq(Items)
        BY <2>1, CurrentType DEF Items, Types, TypeOK
      <4> QED
        BY <3>1, <4>1, AppendedItems DEF Put
    <3>2. CASE Published(c)
      BY <3>2 DEF Published, bus
    <3> QED
      BY <1>5, <3>1, <3>2
  <2> QED
    BY <1>2, <2>1, <2>2, <2>3
<1>6. CASE Dispatch
  BY <1>6, HeardDispatch
<1>7. ASSUME NEW t \in serving, Serve(t) PROVE Listens' /\ Kept'
  <2>1. CASE Respond(t)
    BY <2>1, HeardRespond
  <2>2. CASE Run(t) \/ NoResponse(t)
    BY <1>2, <2>2 DEF Run, NoResponse, calls
  <2> QED
    BY <1>7, <2>1, <2>2 DEF Serve
<1>8. ASSUME NEW j \in jobs, Handle(j) \/ EndFilter(j) PROVE Listens' /\ Kept'
  BY <1>8, HeardDecide DEF Handle, EndFilter
<1>9. ASSUME NEW j \in jobs, Skip(j) PROVE Listens' /\ Kept'
  BY <1>2, <1>9 DEF Skip, calls, bus
<1>10. ASSUME NEW j \in jobs, BeginFilter(j) PROVE Listens' /\ Kept'
  <2>1. j.of[1] \notin Callers
    BY <1>10, ExchangeAssumption DEF BeginFilter
  <2> QED
    BY <1>2, <1>10, <2>1 DEF BeginFilter, calls, bus
<1>11. ASSUME NEW j \in jobs, CancelJob(j) PROVE Listens' /\ Kept'
  BY <1>2, <1>11 DEF CancelJob, calls, bus
<1>12. CASE Stop
  BY <1>2, <1>12 DEF Stop, calls
<1>13. CASE UNCHANGED vars
  BY <1>2, <1>13 DEF vars
<1> QED
  BY <1>3, <1>4, <1>5, <1>6, <1>7, <1>8, <1>9, <1>10, <1>11, <1>12, <1>13 DEF Next, Job

(* As long as a call has nothing, its handler listens, and every answer to   *)
(* it is in the queue or at that handler, unless the bus has ended.          *)
THEOREM KeptCorrect == Spec => []AnswerKept
<1>1. Callers \subseteq Users
  BY DEF Users
<1>2. Heard => AnswerKept
  BY <1>1 DEF Heard, Listens, Kept, Missing, AnswerKept
<1> QED
  BY <1>2, TypesInit, TypesStep, HeardInit, HeardStep, PTL DEF Spec
================================================================================
