----------------------------- MODULE RoutingProofs -----------------------------
(***************************************************************************)
(* The cache of Router is coherent, for any handlers, bundles, patterns    *)
(* and event names, as long as no bundle is shared between handlers; and   *)
(* the handlers of HandlerRegistry are routed exactly while the registry   *)
(* has them and is activated.                                              *)
(***************************************************************************)
EXTENDS Router, HandlerRegistry, SequenceTheorems, FiniteSetTheorems,
        WellFoundedInduction, TLAPS

(* A bundle belongs to one handler.                                         *)
BundlesAreOwn == \A g, h \in Ids : g # h => BundlesOf[g] \cap BundlesOf[h] = {}

RouteType == [id : Ids, bundle : Bundles]

(* RemoveAt, element by element.                                            *)
LEMMA RemoveAtElements ==
  ASSUME NEW S, NEW s \in Seq(S), NEW i \in 1..Len(s)
  PROVE  /\ RemoveAt(s, i) \in Seq(S)
         /\ Len(RemoveAt(s, i)) = Len(s) - 1
         /\ \A j \in 1..(Len(s) - 1) :
              RemoveAt(s, i)[j] = IF j < i THEN s[j] ELSE s[j + 1]
<1> DEFINE left == SubSeq(s, 1, i - 1)
           right == SubSeq(s, i + 1, Len(s))
<1>1. Len(s) \in Nat /\ \A j \in 1..Len(s) : s[j] \in S
  BY LenProperties
<1>2. /\ left \in Seq(S) /\ Len(left) = i - 1
      /\ \A j \in 1..(i - 1) : left[j] = s[j]
  OBVIOUS
<1>3. /\ right \in Seq(S) /\ Len(right) = Len(s) - i
      /\ \A j \in 1..(Len(s) - i) : right[j] = s[i + j]
  OBVIOUS
<1> HIDE DEF left, right
<1>4. /\ left \o right \in Seq(S)
      /\ Len(left \o right) = Len(left) + Len(right)
      /\ \A j \in 1..(Len(left) + Len(right)) :
           (left \o right)[j] = IF j <= Len(left) THEN left[j] ELSE right[j - Len(left)]
  BY <1>2, <1>3, ConcatProperties
<1>5. Len(left) + Len(right) = Len(s) - 1
  BY <1>1, <1>2, <1>3
<1>6. ASSUME NEW j \in 1..(Len(s) - 1)
      PROVE  (left \o right)[j] = IF j < i THEN s[j] ELSE s[j + 1]
  <2>1. (left \o right)[j] = IF j <= i - 1 THEN left[j] ELSE right[j - (i - 1)]
    BY <1>2, <1>4, <1>5
  <2>2. CASE j < i
    <3>1. j \in 1..(i - 1)
      BY <1>1, <2>2
    <3>2. left[j] = s[j] /\ j <= i - 1
      BY <1>2, <3>1
    <3> QED
      BY <2>1, <2>2, <3>2
  <2>3. CASE ~(j < i)
    <3>1. /\ j - (i - 1) \in 1..(Len(s) - i)
          /\ i + (j - (i - 1)) = j + 1
          /\ ~(j <= i - 1)
      BY <1>1, <2>3
    <3>2. right[j - (i - 1)] = s[i + (j - (i - 1))]
      BY <1>3, <3>1
    <3> QED
      BY <2>1, <2>3, <3>1, <3>2
  <2> QED
    BY <2>2, <2>3
<1>7. RemoveAt(s, i) = left \o right
  BY DEF RemoveAt, left, right
<1> QED
  BY <1>4, <1>5, <1>6, <1>7

(* The route table as a sequence.                                           *)
LEMMA RoutesTyped ==
  ASSUME TypeOK
  PROVE  /\ routes \in Seq(RouteType) /\ Len(routes) \in Nat
         /\ DOMAIN routes = 1..Len(routes)
         /\ \A i \in 1..Len(routes) : routes[i] \in RouteType
         /\ \A i, j \in 1..Len(routes) : routes[i].id = routes[j].id => i = j
<1>1. routes \in Seq(RouteType)
  BY DEF TypeOK, RouteType
<1>2. DOMAIN routes = 1..Len(routes) /\ Len(routes) \in Nat
  BY <1>1, LenProperties
<1>3. \A i \in 1..Len(routes) : routes[i] \in RouteType
  BY <1>1, <1>2, LenProperties
<1> QED
  BY <1>1, <1>2, <1>3 DEF TypeOK

(* The only place of a handler in the route table.                          *)
LEMMA AtIsPlace ==
  ASSUME TypeOK, NEW h, h \in Routed
  PROVE  /\ At(h) \in 1..Len(routes)
         /\ routes[At(h)].id = h
         /\ \A i \in 1..Len(routes) : routes[i].id = h => i = At(h)
         /\ BundleOf(h) \in Bundles
<1>1. \E i \in DOMAIN routes : routes[i].id = h
  BY DEF Routed
<1>2. At(h) \in DOMAIN routes /\ routes[At(h)].id = h
  BY <1>1 DEF At
<1> QED
  BY <1>2, RoutesTyped DEF BundleOf, RouteType

(* What subscribing another bundle does to the route table.                 *)
LEMMA Rerouted ==
  ASSUME TypeOK, NEW h, NEW b \in Bundles, h \in Routed, Subscribe(h, b)
  PROVE  /\ routes' \in Seq(RouteType) /\ DOMAIN routes' = 1..Len(routes)
         /\ \A j \in 1..Len(routes) :
              /\ routes'[j].id = routes[j].id
              /\ routes'[j].bundle = IF j = At(h) THEN b ELSE routes[j].bundle
<1> DEFINE r == [routes[At(h)] EXCEPT !.bundle = b]
<1>1. At(h) \in 1..Len(routes) /\ r \in RouteType /\ r.id = h /\ r.bundle = b
  BY AtIsPlace, RoutesTyped DEF RouteType
<1>2. routes' = [routes EXCEPT ![At(h)] = r]
  BY DEF Subscribe, Reroute
<1> HIDE DEF r
<1>3. /\ routes' \in Seq(RouteType) /\ Len(routes') = Len(routes)
      /\ \A j \in 1..Len(routes) : routes'[j] = IF j = At(h) THEN r ELSE routes[j]
  BY <1>1, <1>2, RoutesTyped, ExceptSeq
<1>4. DOMAIN routes' = 1..Len(routes)
  BY <1>3, LenProperties
<1> QED
  BY <1>1, <1>3, <1>4, AtIsPlace

(* What a first subscription does to the route table.                       *)
LEMMA Appended ==
  ASSUME TypeOK, NEW h \in Ids, NEW b \in Bundles, h \notin Routed, Subscribe(h, b)
  PROVE  /\ routes' \in Seq(RouteType) /\ DOMAIN routes' = 1..(Len(routes) + 1)
         /\ \A j \in 1..Len(routes) : routes'[j] = routes[j] /\ routes[j].id # h
         /\ routes'[Len(routes) + 1] = [id |-> h, bundle |-> b]
<1> DEFINE r == [id |-> h, bundle |-> b]
<1>1. routes' = Append(routes, r) /\ r \in RouteType
  BY DEF Subscribe, RouteType
<1> HIDE DEF r
<1>2. routes \in Seq(RouteType)
  BY RoutesTyped
<1>3. /\ Append(routes, r) \in Seq(RouteType)
      /\ Len(Append(routes, r)) = Len(routes) + 1
      /\ \A j \in 1..Len(routes) : Append(routes, r)[j] = routes[j]
      /\ Append(routes, r)[Len(routes) + 1] = r
  BY <1>1, <1>2, AppendProperties
<1>4. DOMAIN routes' = 1..(Len(routes) + 1)
  BY <1>1, <1>3, LenProperties
<1>5. \A j \in 1..Len(routes) : routes[j].id # h
  BY RoutesTyped DEF Routed
<1> QED
  BY <1>1, <1>3, <1>4, <1>5 DEF r

(* What withdrawing a handler does to the route table: the routes that      *)
(* follow its own move up by one place.                                     *)
Place(h, k) == IF k < At(h) THEN k ELSE k + 1

LEMMA Removed ==
  ASSUME TypeOK, NEW h, Unsubscribe(h)
  PROVE  /\ routes' \in Seq(RouteType) /\ DOMAIN routes' = 1..(Len(routes) - 1)
         /\ \A j \in DOMAIN routes' :
              /\ routes'[j] = routes[Place(h, j)]
              /\ Place(h, j) \in 1..Len(routes) /\ Place(h, j) # At(h)
         /\ \A i, j \in DOMAIN routes' : Place(h, i) = Place(h, j) => i = j
         /\ \A k \in 1..Len(routes) :
              k # At(h) => \E j \in DOMAIN routes' : Place(h, j) = k
<1>1. routes' = RemoveAt(routes, At(h)) /\ At(h) \in 1..Len(routes)
  BY AtIsPlace DEF Unsubscribe
<1>2. /\ routes' \in Seq(RouteType)
      /\ Len(routes') = Len(routes) - 1
      /\ \A j \in 1..(Len(routes) - 1) :
           routes'[j] = IF j < At(h) THEN routes[j] ELSE routes[j + 1]
  BY <1>1, RoutesTyped, RemoveAtElements
<1>3. DOMAIN routes' = 1..(Len(routes) - 1)
  BY <1>2, LenProperties
<1>4. ASSUME NEW j \in DOMAIN routes'
      PROVE  /\ routes'[j] = routes[Place(h, j)]
             /\ Place(h, j) \in 1..Len(routes) /\ Place(h, j) # At(h)
  <2>1. CASE j < At(h)
    BY <1>1, <1>2, <1>3, <2>1, RoutesTyped DEF Place
  <2>2. CASE ~(j < At(h))
    BY <1>1, <1>2, <1>3, <2>2, RoutesTyped DEF Place
  <2> QED
    BY <2>1, <2>2
<1>5. \A i, j \in DOMAIN routes' : Place(h, i) = Place(h, j) => i = j
  BY <1>1, <1>3, RoutesTyped DEF Place
<1>6. ASSUME NEW k \in 1..Len(routes), k # At(h)
      PROVE  \E j \in DOMAIN routes' : Place(h, j) = k
  <2>1. CASE k < At(h)
    <3>1. k \in DOMAIN routes' /\ Place(h, k) = k
      BY <1>1, <1>3, <2>1, RoutesTyped DEF Place
    <3> QED
      BY <3>1
  <2>2. CASE ~(k < At(h))
    <3>1. k - 1 \in DOMAIN routes' /\ Place(h, k - 1) = k
      BY <1>1, <1>3, <1>6, <2>2, RoutesTyped DEF Place
    <3> QED
      BY <3>1
  <2> QED
    BY <2>1, <2>2
<1> QED
  BY <1>2, <1>3, <1>4, <1>5, <1>6

LEMMA TypeStep == TypeOK /\ [Next]_vars => TypeOK'
<1> SUFFICES ASSUME TypeOK, [Next]_vars PROVE TypeOK'
  OBVIOUS
<1> USE DEF vars, routeVars, eventVars, cacheVars
<1>1. ASSUME NEW b \in Bundles, NEW list \in Seq(Patterns), Changes(b, list)
      PROVE  TypeOK'
  <2>1. patterns' \in [Bundles -> Seq(Patterns)]
    BY <1>1 DEF Changes, TypeOK
  <2>2. version' \in Nat
    BY <1>1 DEF Changes, Notify, TypeOK
  <2> QED
    BY <1>1, <2>1, <2>2 DEF Changes, TypeOK
<1>2. ASSUME NEW b \in Bundles, NEW p \in Patterns, Add(b, p) PROVE TypeOK'
  <2>1. patterns[b] \in Seq(Patterns)
    BY DEF TypeOK
  <2>2. Append(patterns[b], p) \in Seq(Patterns)
    BY <2>1, AppendProperties
  <2> QED
    BY <1>1, <1>2, <2>2 DEF Add
<1>3. ASSUME NEW b \in Bundles, NEW p \in Patterns, RemovePattern(b, p) PROVE TypeOK'
  <2>1. patterns[b] \in Seq(Patterns)
    BY DEF TypeOK
  <2>2. PICK i \in DOMAIN patterns[b] : Changes(b, RemoveAt(patterns[b], i))
    BY <1>3 DEF RemovePattern
  <2>3. i \in 1..Len(patterns[b])
    BY <2>1, LenProperties
  <2> QED
    BY <1>1, <2>1, <2>2, <2>3, RemoveAtElements
<1>4. ASSUME NEW b \in Bundles, NEW list \in Lists, Replace(b, list) PROVE TypeOK'
  BY <1>1, <1>4, PatternsAssumption DEF Replace
<1>5. ASSUME NEW h \in Ids, NEW b \in BundlesOf[h], Subscribe(h, b) PROVE TypeOK'
  <2>1. b \in Bundles
    BY BundlesAssumption
  <2>2. routes' \in Seq(RouteType)
    BY <1>5, <2>1, Rerouted, Appended
  <2>3. \A i, j \in DOMAIN routes' : routes'[i].id = routes'[j].id => i = j
    <3>1. CASE h \in Routed
      BY <1>5, <2>1, <3>1, Rerouted, RoutesTyped
    <3>2. CASE h \notin Routed
      <4>1. /\ DOMAIN routes' = 1..(Len(routes) + 1)
            /\ \A j \in 1..Len(routes) : routes'[j] = routes[j] /\ routes[j].id # h
            /\ routes'[Len(routes) + 1] = [id |-> h, bundle |-> b]
        BY <1>5, <2>1, <3>2, Appended
      <4> QED
        BY <4>1, RoutesTyped
    <3> QED
      BY <3>1, <3>2
  <2>4. bound' \subseteq Bundles
    BY <1>5, <2>1 DEF Subscribe, Rebind, TypeOK
  <2> QED
    BY <1>5, <2>2, <2>3, <2>4 DEF Subscribe, TypeOK, RouteType
<1>6. ASSUME NEW h \in Ids, Unsubscribe(h) PROVE TypeOK'
  <2>1. \A i, j \in DOMAIN routes' : routes'[i].id = routes'[j].id => i = j
    BY <1>6, Removed, RoutesTyped
  <2> QED
    BY <1>6, <2>1, Removed DEF Unsubscribe, TypeOK, RouteType
<1>7. CASE Clear
  BY <1>7 DEF Clear, TypeOK
<1>8. ASSUME NEW n \in EventNames, Declare(n) \/ Withdraw(n) PROVE TypeOK'
  BY <1>8 DEF Declare, Withdraw, TypeOK
<1>9. CASE Match
  BY <1>9 DEF Match, Versions, TypeOK
<1>10. CASE UNCHANGED vars
  BY <1>10 DEF TypeOK
<1> QED
  BY <1>2, <1>3, <1>4, <1>5, <1>6, <1>7, <1>8, <1>9, <1>10 DEF Next

LEMMA TypeInit == Init => TypeOK
  BY DEF Init, TypeOK, Never

(* Every variable of the router has its type and no handler has two routes. *)
THEOREM TypeCorrect == Spec => []TypeOK
  BY TypeInit, TypeStep, PTL DEF Spec

-------------------------------------------------------------------------------
(* Bound bundles                                                             *)

OwnRoutes == \A i \in DOMAIN routes : routes[i].bundle \in BundlesOf[routes[i].id]
BoundInv == TypeOK /\ OwnRoutes /\ BoundIsRouted

(* Routes have different bundles.                                            *)
LEMMA BundlesDiffer ==
  ASSUME BundlesAreOwn, TypeOK, OwnRoutes,
         NEW i \in 1..Len(routes), NEW j \in 1..Len(routes), i # j
  PROVE  routes[i].bundle # routes[j].bundle
<1>1. /\ routes[i].id # routes[j].id
      /\ routes[i].id \in Ids /\ routes[j].id \in Ids
      /\ i \in DOMAIN routes /\ j \in DOMAIN routes
  BY RoutesTyped DEF RouteType
<1> QED
  BY <1>1 DEF BundlesAreOwn, OwnRoutes

LEMMA BoundStep ==
  ASSUME BundlesAreOwn, BoundInv, [Next]_vars
  PROVE  OwnRoutes' /\ BoundIsRouted'
<1> USE DEF vars, routeVars, eventVars, cacheVars, BoundInv
<1>1. ASSUME NEW h \in Ids, NEW b \in BundlesOf[h], Subscribe(h, b), h \in Routed
      PROVE  OwnRoutes' /\ BoundIsRouted'
  <2>1. b \in Bundles
    BY BundlesAssumption
  <2>2. /\ DOMAIN routes' = 1..Len(routes)
        /\ \A j \in 1..Len(routes) :
             /\ routes'[j].id = routes[j].id
             /\ routes'[j].bundle = IF j = At(h) THEN b ELSE routes[j].bundle
    BY <1>1, <2>1, Rerouted
  <2>3. At(h) \in 1..Len(routes) /\ routes[At(h)].id = h
    BY <1>1, AtIsPlace
  <2>4. OwnRoutes'
    BY <2>2, <2>3, RoutesTyped DEF OwnRoutes
  <2>5. bound' = (bound \ {routes[At(h)].bundle}) \cup {b}
    BY <1>1 DEF Subscribe, Rebind, BundleOf
  <2>6. \A j \in 1..Len(routes) : j # At(h) => routes[j].bundle # routes[At(h)].bundle
    BY <2>3, BundlesDiffer
  <2>7. bound = {routes[j].bundle : j \in 1..Len(routes)}
    BY RoutesTyped DEF BoundIsRouted
  <2>8. bound' = {routes'[j].bundle : j \in 1..Len(routes)}
    BY <2>2, <2>3, <2>5, <2>6, <2>7
  <2> QED
    BY <2>2, <2>4, <2>8 DEF BoundIsRouted
<1>2. ASSUME NEW h \in Ids, NEW b \in BundlesOf[h], Subscribe(h, b), h \notin Routed
      PROVE  OwnRoutes' /\ BoundIsRouted'
  <2>1. b \in Bundles
    BY BundlesAssumption
  <2>2. /\ DOMAIN routes' = 1..(Len(routes) + 1)
        /\ \A j \in 1..Len(routes) : routes'[j] = routes[j]
        /\ routes'[Len(routes) + 1] = [id |-> h, bundle |-> b]
    BY <1>2, <2>1, Appended
  <2>3. bound' = bound \cup {b}
    BY <1>2 DEF Subscribe, Rebind
  <2> QED
    BY <2>2, <2>3, RoutesTyped DEF OwnRoutes, BoundIsRouted
<1>3. ASSUME NEW h \in Ids, Unsubscribe(h) PROVE OwnRoutes' /\ BoundIsRouted'
  <2>1. /\ \A j \in DOMAIN routes' : /\ routes'[j] = routes[Place(h, j)]
                                     /\ Place(h, j) \in 1..Len(routes)
                                     /\ Place(h, j) # At(h)
        /\ \A k \in 1..Len(routes) :
             k # At(h) => \E j \in DOMAIN routes' : Place(h, j) = k
    BY <1>3, Removed
  <2>2. At(h) \in 1..Len(routes)
    BY <1>3, AtIsPlace DEF Unsubscribe
  <2>3. \A j \in 1..Len(routes) : j # At(h) => routes[j].bundle # routes[At(h)].bundle
    BY <2>2, BundlesDiffer
  <2>4. bound' = bound \ {routes[At(h)].bundle}
    BY <1>3 DEF Unsubscribe, BundleOf
  <2>5. bound = {routes[j].bundle : j \in 1..Len(routes)}
    BY RoutesTyped DEF BoundIsRouted
  <2>6. bound' = {routes'[j].bundle : j \in DOMAIN routes'}
    BY <2>1, <2>2, <2>3, <2>4, <2>5
  <2> QED
    BY <2>1, <2>6, RoutesTyped DEF OwnRoutes, BoundIsRouted
<1>4. CASE Clear
  BY <1>4 DEF Clear, OwnRoutes, BoundIsRouted
<1>5. CASE UNCHANGED <<bound, routes>>
  BY <1>5 DEF OwnRoutes, BoundIsRouted
<1> QED
  BY <1>1, <1>2, <1>3, <1>4, <1>5
  DEF Next, Add, RemovePattern, Replace, Changes, Declare, Withdraw, Match

LEMMA BoundInit == Init => BoundInv
  BY TypeInit DEF Init, BoundInv, OwnRoutes, BoundIsRouted

(* A bundle notifies the router exactly while the router routes by it.       *)
THEOREM BoundCorrect == BundlesAreOwn /\ Spec => []BoundIsRouted
<1> SUFFICES ASSUME BundlesAreOwn PROVE Spec => []BoundIsRouted
  OBVIOUS
<1>1. BoundInv /\ [Next]_vars => BoundInv'
  BY BoundStep, TypeStep DEF BoundInv
<1>2. BoundInv => BoundIsRouted
  BY DEF BoundInv
<1> QED
  BY BoundInit, <1>1, <1>2, PTL DEF Spec

-------------------------------------------------------------------------------
(* The dispatch table                                                        *)

(* The versions the table was built from never run ahead of the present      *)
(* ones, so a raised version makes it stale.                                 *)
SeenBehind == seen.built => seen.events <= eventVersion /\ seen.routes <= version
TableInv == BoundInv /\ SeenBehind /\ TableIsCurrent

(* A change of a bundle that is not routed leaves every entry as it was.     *)
LEMMA EntriesKept ==
  ASSUME BoundInv, NEW b \in Bundles, NEW list, Changes(b, list), b \notin bound
  PROVE  Entries' = Entries
<1>1. routes' = routes
  BY DEF Changes
<1>2. \A i \in DOMAIN routes : patterns'[routes[i].bundle] = patterns[routes[i].bundle]
  BY RoutesTyped DEF Changes, BoundInv, BoundIsRouted, TypeOK, RouteType
<1>3. [i \in DOMAIN routes' |-> [j \in DOMAIN patterns'[routes'[i].bundle] |->
         [id |-> routes'[i].id, pattern |-> patterns'[routes'[i].bundle][j]]]]
      = [i \in DOMAIN routes |-> [j \in DOMAIN patterns[routes[i].bundle] |->
         [id |-> routes[i].id, pattern |-> patterns[routes[i].bundle][j]]]]
  BY <1>1, <1>2
<1> QED
  BY <1>3 DEF Entries

LEMMA TableStep ==
  ASSUME BundlesAreOwn, TableInv, [Next]_vars
  PROVE  SeenBehind' /\ TableIsCurrent'
<1> USE DEF vars, routeVars, eventVars, cacheVars, TableInv, Fresh, Versions
<1>0. /\ version \in Nat /\ eventVersion \in Nat
      /\ seen \in [built : BOOLEAN, events : Nat, routes : Nat]
  BY DEF BoundInv, TypeOK
<1>1. ASSUME UNCHANGED <<names, eventVersion, cacheVars>>, version' = version + 1
      PROVE  SeenBehind' /\ ~Fresh'
  BY <1>0, <1>1 DEF SeenBehind
<1>2. ASSUME NEW b \in Bundles, NEW list, Changes(b, list)
      PROVE  SeenBehind' /\ TableIsCurrent'
  <2>1. CASE b \in bound
    BY <1>1, <1>2, <2>1 DEF Changes, Notify, TableIsCurrent
  <2>2. CASE b \notin bound
    <3>1. Entries' = Entries
      BY <1>2, <2>2, EntriesKept
    <3> QED
      BY <1>2, <2>2, <3>1 DEF Changes, Notify, TableIsCurrent, SeenBehind, Rebuilt
  <2> QED
    BY <2>1, <2>2
<1>3. ASSUME NEW b \in Bundles, NEW p \in Patterns, Add(b, p) \/ RemovePattern(b, p)
      PROVE  SeenBehind' /\ TableIsCurrent'
  BY <1>2, <1>3 DEF Add, RemovePattern
<1>4. ASSUME NEW b \in Bundles, NEW list \in Lists, Replace(b, list)
      PROVE  SeenBehind' /\ TableIsCurrent'
  BY <1>2, <1>4 DEF Replace
<1>5. ASSUME NEW h \in Ids, NEW b \in BundlesOf[h], Subscribe(h, b)
      PROVE  SeenBehind' /\ TableIsCurrent'
  BY <1>1, <1>5 DEF Subscribe, TableIsCurrent
<1>6. ASSUME NEW h \in Ids, Unsubscribe(h) PROVE SeenBehind' /\ TableIsCurrent'
  BY <1>1, <1>6 DEF Unsubscribe, TableIsCurrent
<1>7. CASE Clear
  BY <1>1, <1>7 DEF Clear, TableIsCurrent
<1>8. ASSUME NEW n \in EventNames, Declare(n) \/ Withdraw(n)
      PROVE  SeenBehind' /\ TableIsCurrent'
  BY <1>0, <1>8 DEF Declare, Withdraw, SeenBehind, TableIsCurrent
<1>9. CASE Match
  <2>1. table' = Rebuilt /\ Rebuilt' = Rebuilt
    BY <1>9 DEF Match, Rebuilt, Entries
  <2> QED
    BY <1>0, <1>9, <2>1 DEF Match, SeenBehind, TableIsCurrent
<1>10. CASE UNCHANGED vars
  BY <1>10 DEF SeenBehind, TableIsCurrent, Rebuilt, Entries
<1> QED
  BY <1>3, <1>4, <1>5, <1>6, <1>7, <1>8, <1>9, <1>10 DEF Next

LEMMA TableInit == Init => TableInv
  BY BoundInit DEF Init, TableInv, SeenBehind, TableIsCurrent, Never, Fresh, Versions

(* match() never answers from a stale table.                                 *)
THEOREM TableCorrect == BundlesAreOwn /\ Spec => []TableIsCurrent
<1> SUFFICES ASSUME BundlesAreOwn PROVE Spec => []TableIsCurrent
  OBVIOUS
<1>1. TableInv /\ [Next]_vars => TableInv'
  BY BoundStep, TypeStep, TableStep DEF TableInv, BoundInv
<1>2. TableInv => TableIsCurrent
  BY DEF TableInv
<1> QED
  BY TableInit, <1>1, <1>2, PTL DEF Spec

-------------------------------------------------------------------------------
(* Induction                                                                 *)

(* Every non-empty set of naturals has a least element.                      *)
LEMMA Least ==
  ASSUME NEW T \in SUBSET Nat, T # {}
  PROVE  \E m \in T : \A k \in T : m <= k
<1> DEFINE R == OpToRel(<, Nat)
<1>1. IsWellFoundedOn(R, Nat)
  BY NatLessThanWellFounded
<1>2. \A x, y \in Nat : x < y => <<x, y>> \in R
  BY DEF OpToRel
<1> HIDE DEF R
<1>3. PICK m \in T : \A y \in T : <<y, m>> \notin R
  BY <1>1, WFMin
<1>4. \A k \in T : ~(k < m)
  BY <1>2, <1>3
<1> QED
  BY <1>4

(* What holds of 0 and of the successor of each k below n holds up to n.     *)
LEMMA UpTo ==
  ASSUME NEW n \in Nat, NEW T, 0 \in T, \A k \in 0..(n - 1) : k \in T => k + 1 \in T
  PROVE  0..n \subseteq T
<1> SUFFICES ASSUME (0..n) \ T # {} PROVE FALSE
  OBVIOUS
<1> DEFINE U == (0..n) \ T
<1>0. U \in SUBSET Nat /\ U # {}
  OBVIOUS
<1> HIDE DEF U
<1>1. PICK m \in U : \A k \in U : m <= k
  BY <1>0, Least
<1> USE DEF U
<1>2. m # 0 /\ m - 1 \in 0..(n - 1) /\ m - 1 \in 0..n
  BY <1>1
<1>3. m - 1 \in T
  BY <1>1, <1>2
<1> QED
  BY <1>1, <1>2, <1>3

LEMMA MaxOf ==
  ASSUME NEW n \in Nat, NEW S \in SUBSET (1..n), S # {}
  PROVE  Max(S) \in S /\ \A x \in S : x <= Max(S)
<1> DEFINE T == {n - x : x \in S}
<1>1. T \in SUBSET Nat /\ T # {}
  OBVIOUS
<1>2. PICK m \in T : \A k \in T : m <= k
  BY <1>1, Least
<1>3. PICK x \in S : m = n - x
  BY <1>2
<1>4. \A y \in S : x >= y
  <2> TAKE y \in S
  <2>1. n - y \in T
    OBVIOUS
  <2>2. n - x <= n - y
    BY <1>2, <1>3, <2>1
  <2> QED BY <2>2
<1>5. \E z \in S : \A y \in S : z >= y
  BY <1>4
<1> QED
  BY <1>5 DEF Max

(* The recursion behind FoldLeft has a solution: a function of the sets of   *)
(* positions that takes the last one first.                                  *)
FoldSteps(V, E) == [V \X E -> V]
FoldsUpTo(F, V, base, es, g, n) ==
  /\ F \in [SUBSET (1..n) -> V]
  /\ \A S \in SUBSET (1..n) :
       F[S] = IF S = {} THEN base ELSE g[<<F[S \ {Max(S)}], es[Max(S)]>>]
LEMMA FoldExists ==
  ASSUME NEW V, NEW E, NEW base \in V, NEW es \in Seq(E), NEW g \in FoldSteps(V, E)
  PROVE  \E F : FoldsUpTo(F, V, base, es, g, Len(es))
<1> DEFINE Solves(F, k) == FoldsUpTo(F, V, base, es, g, k)
           T == {k \in 0..Len(es) : \E F : Solves(F, k)}
<1>1. Len(es) \in Nat /\ \A i \in 1..Len(es) : es[i] \in E
  OBVIOUS
<1>2. 0 \in T
  <2> DEFINE F == [S \in SUBSET (1..0) |-> base]
  <2>1. SUBSET (1..0) = {{}}
    OBVIOUS
  <2>2. Solves(F, 0)
    BY <2>1 DEF FoldsUpTo
  <2> QED
    BY <1>1, <2>2
<1>3. ASSUME NEW k \in 0..(Len(es) - 1), k \in T PROVE k + 1 \in T
  <2>0. PICK F : Solves(F, k)
    BY <1>3
  <2>1. /\ F \in [SUBSET (1..k) -> V]
        /\ \A S \in SUBSET (1..k) :
             F[S] = IF S = {} THEN base ELSE g[<<F[S \ {Max(S)}], es[Max(S)]>>]
    BY <2>0 DEF FoldsUpTo
  <2>2. k \in Nat /\ k + 1 \in 1..Len(es) /\ k + 1 \in 0..Len(es)
    BY <1>1
  <2> DEFINE G == [S \in SUBSET (1..(k + 1)) |->
                     IF k + 1 \in S THEN g[<<F[S \ {k + 1}], es[k + 1]>>] ELSE F[S]]
  <2>3. \A S \in SUBSET (1..(k + 1)) : S \ {k + 1} \in SUBSET (1..k)
    BY <2>2
  <2>4. G \in [SUBSET (1..(k + 1)) -> V]
    <3>1. ASSUME NEW S \in SUBSET (1..(k + 1)) PROVE G[S] \in V
      <4>1. CASE k + 1 \in S
        BY <1>1, <2>1, <2>2, <2>3, <4>1 DEF FoldSteps
      <4>2. CASE k + 1 \notin S
        BY <2>1, <2>3, <4>2
      <4> QED BY <4>1, <4>2
    <3> QED BY <3>1
  <2>5. ASSUME NEW S \in SUBSET (1..(k + 1))
        PROVE  G[S] = IF S = {} THEN base ELSE g[<<G[S \ {Max(S)}], es[Max(S)]>>]
    <3>1. CASE k + 1 \in S
      <4>1. Max(S) = k + 1
        <5>1. k + 1 \in Nat /\ S \in SUBSET (1..(k + 1)) /\ S # {}
          BY <2>2, <3>1
        <5>2. Max(S) \in S /\ \A x \in S : x <= Max(S)
          BY <5>1, MaxOf
        <5>3. PICK x \in S : x = Max(S)
          BY <5>2
        <5>4. x \in 1..(k + 1) /\ k + 1 <= x
          BY <3>1, <5>1, <5>2, <5>3
        <5> QED
          BY <2>2, <5>3, <5>4
      <4>2. G[S \ {k + 1}] = F[S \ {k + 1}]
        BY <2>3
      <4> QED
        BY <3>1, <4>1, <4>2
    <3>2. CASE k + 1 \notin S
      <4>1. S \in SUBSET (1..k) /\ S \ {Max(S)} \in SUBSET (1..k) /\ G[S] = F[S]
        BY <2>3, <3>2
      <4>2. G[S \ {Max(S)}] = F[S \ {Max(S)}]
        BY <2>2, <3>2, <4>1
      <4> QED
        BY <2>1, <4>1, <4>2
    <3> QED BY <3>1, <3>2
  <2>6. Solves(G, k + 1)
    <3> HIDE DEF G
    <3> QED BY <2>4, <2>5 DEF FoldsUpTo
  <2> QED
    BY <2>2, <2>6
<1>4. Len(es) \in T
  <2>1. \A k \in 0..(Len(es) - 1) : k \in T => k + 1 \in T
    BY <1>3
  <2> HIDE DEF T
  <2>2. 0..Len(es) \subseteq T
    BY <1>1, <1>2, <2>1, UpTo
  <2> QED
    BY <1>1, <2>2
<1> QED
  BY <1>4

-------------------------------------------------------------------------------
(* What _rebuild computes                                                    *)

EntryType == [id : Ids, pattern : Patterns]
Claims(e, n, regex) == e.pattern.regex = regex /\ Hits(e.pattern, n)
ScanStep(matched, e, n, regex) == IF Claims(e, n, regex) THEN AppendUnseen(matched, e) ELSE matched

(* A loop of _rebuild, iteration by iteration.                               *)
ScanRun(f, es, n, regex, before) ==
  /\ f \in [0..Len(es) -> Seq(Ids)]
  /\ f[0] = before /\ f[Len(es)] = Scan(es, n, regex, before)
  /\ \A k \in 1..Len(es) : f[k] = ScanStep(f[k - 1], es[k], n, regex)
LEMMA ScanSteps ==
  ASSUME NEW es \in Seq(EntryType), NEW n, NEW regex, NEW before \in Seq(Ids)
  PROVE  \E f : ScanRun(f, es, n, regex, before)
<1> DEFINE V == Seq(Ids)
           N == Len(es)
           g == [p \in V \X EntryType |-> ScanStep(p[1], p[2], n, regex)]
           Solves(F) == F = [S \in SUBSET (1..N) |->
                               IF S = {} THEN before
                               ELSE ScanStep(F[S \ {Max(S)}], es[Max(S)], n, regex)]
<1>1. N \in Nat /\ DOMAIN es = 1..N /\ \A k \in 1..N : es[k] \in EntryType
  OBVIOUS
<1>2. \A matched \in V, e \in EntryType : ScanStep(matched, e, n, regex) \in V
  BY DEF ScanStep, AppendUnseen, EntryType
<1>3. g \in [V \X EntryType -> V]
  BY <1>2
<1>4. PICK F0 \in [SUBSET (1..N) -> V] : \A S \in SUBSET (1..N) :
        F0[S] = IF S = {} THEN before ELSE g[<<F0[S \ {Max(S)}], es[Max(S)]>>]
  <2>1. before \in V /\ g \in FoldSteps(V, EntryType)
    BY <1>3 DEF FoldSteps
  <2> HIDE DEF V, g
  <2>2. \E X : FoldsUpTo(X, V, before, es, g, N)
    BY <2>1, FoldExists
  <2> QED
    BY <2>2 DEF FoldsUpTo
<1>5. \E F : Solves(F)
  <2>1. ASSUME NEW S \in SUBSET (1..N), S # {}
        PROVE  g[<<F0[S \ {Max(S)}], es[Max(S)]>>] = ScanStep(F0[S \ {Max(S)}], es[Max(S)], n, regex)
    <3>1. Max(S) \in 1..N
      BY <1>1, <2>1, MaxOf
    <3>2. F0[S \ {Max(S)}] \in V /\ es[Max(S)] \in EntryType
      BY <1>1, <3>1
    <3> HIDE DEF V
    <3> QED
      BY <3>2
  <2>2. Solves(F0)
    <3> HIDE DEF g, V
    <3> QED BY <1>4, <2>1
  <2> QED BY <2>2
<1> DEFINE F == CHOOSE F : Solves(F)
<1>6. Solves(F)
  BY <1>5
<1>7. Scan(es, n, regex, before) = F[1..N]
  BY <1>1 DEF Scan, FoldLeft, MapThenFoldSet, ScanStep, Claims
<1> HIDE DEF F
<1>8. F[{}] = before
  BY <1>6
<1>9. ASSUME NEW k \in 1..N PROVE F[1..k] = ScanStep(F[1..(k - 1)], es[k], n, regex)
  <2>0. k \in Nat /\ 1 <= k /\ k <= N /\ k \in 1..k
    BY <1>1
  <2>1. 1..k \in SUBSET (1..N) /\ 1..k # {} /\ k \in Nat /\ (1..k) \ {k} = 1..(k - 1)
    <3>1. 1..k # {}
      BY <2>0
    <3>3. \A x \in 1..k : x \in 1..N
      BY <1>1, <2>0
    <3>2. (1..k) \ {k} = 1..(k - 1)
      BY <2>0
    <3> QED BY <2>0, <3>1, <3>2, <3>3
  <2>2. Max(1..k) \in 1..k /\ \A x \in 1..k : x <= Max(1..k)
    BY <2>1, MaxOf
  <2>3. Max(1..k) = k
    BY <2>1, <2>2
  <2> QED
    BY <1>6, <2>1, <2>3
<1> DEFINE f == [k \in 0..N |-> F[1..k]]
<1>10. 1..0 = {} /\ f[0] = before /\ f[N] = Scan(es, n, regex, before)
  BY <1>1, <1>7, <1>8
<1>11. \A k \in 1..N : f[k] = ScanStep(f[k - 1], es[k], n, regex)
  BY <1>1, <1>9
<1>12. f \in [0..N -> V]
  <2> DEFINE T == {k \in 0..N : f[k] \in V}
  <2>1. 0 \in T
    BY <1>1, <1>10
  <2>2. \A k \in 0..(N - 1) : k \in T => k + 1 \in T
    <3> TAKE k \in 0..(N - 1)
    <3>1. k + 1 \in 1..N /\ (k + 1) - 1 = k /\ k + 1 \in 0..N
      BY <1>1
    <3>2. f[k + 1] = ScanStep(f[k], es[k + 1], n, regex)
      BY <1>11, <3>1
    <3> HIDE DEF f, V
    <3> QED
      BY <1>1, <1>2, <3>1, <3>2
  <2> HIDE DEF T
  <2>3. 0..N \subseteq T
    BY <1>1, <2>1, <2>2, UpTo
  <2> QED
    BY <2>3 DEF T
<1> HIDE DEF f
<1>13. ScanRun(f, es, n, regex, before)
  BY <1>10, <1>11, <1>12 DEF ScanRun
<1> QED
  BY <1>13

(* A handler joins the list unless it is there.                              *)
LEMMA AppendUnseenElements ==
  ASSUME NEW m \in Seq(Ids), NEW e \in EntryType, IsInjective(m)
  PROVE  /\ AppendUnseen(m, e) \in Seq(Ids) /\ IsInjective(AppendUnseen(m, e))
         /\ ToSet(AppendUnseen(m, e)) = ToSet(m) \cup {e.id}
<1>1. e.id \in Ids /\ Len(m) \in Nat /\ DOMAIN m = 1..Len(m)
  BY DEF EntryType
<1>2. CASE Contains(m, e.id)
  <2>1. e.id \in ToSet(m)
    BY <1>1, <1>2 DEF Contains, ToSet
  <2> QED
    BY <1>2, <2>1 DEF AppendUnseen
<1>3. CASE ~Contains(m, e.id)
  <2> DEFINE a == Append(m, e.id)
  <2>1. /\ a \in Seq(Ids) /\ DOMAIN a = 1..(Len(m) + 1) /\ AppendUnseen(m, e) = a
        /\ a[Len(m) + 1] = e.id /\ \A i \in 1..Len(m) : a[i] = m[i]
    BY <1>1, <1>3 DEF AppendUnseen
  <2>2. \A i \in 1..Len(m) : m[i] # e.id
    BY <1>3 DEF Contains
  <2> HIDE DEF a
  <2>3. \A i \in 1..(Len(m) + 1) : i \in 1..Len(m) \/ i = Len(m) + 1
    BY <1>1
  <2>4. IsInjective(a)
    BY <1>1, <2>1, <2>2, <2>3 DEF IsInjective
  <2>5. \A i \in 1..Len(m) : i \in 1..(Len(m) + 1)
    BY <1>1
  <2>6. Len(m) + 1 \in 1..(Len(m) + 1)
    BY <1>1
  <2>7. ToSet(a) = ToSet(m) \cup {e.id}
    BY <1>1, <2>1, <2>3, <2>5, <2>6 DEF ToSet
  <2> QED
    BY <2>1, <2>4, <2>7
<1> QED
  BY <1>2, <1>3

(* A loop of _rebuild adds the handlers of the entries that claim the event, *)
(* each once.                                                                *)
ClaimsUpTo(es, n, regex, k) == {es[j].id : j \in {i \in 1..k : Claims(es[i], n, regex)}}
LEMMA ScanElements ==
  ASSUME NEW es \in Seq(EntryType), NEW n, NEW regex, NEW before \in Seq(Ids),
         IsInjective(before)
  PROVE  LET result == Scan(es, n, regex, before) IN
         /\ result \in Seq(Ids) /\ IsInjective(result)
         /\ ToSet(result) = ToSet(before) \cup ClaimsUpTo(es, n, regex, Len(es))
<1>1. Len(es) \in Nat /\ \A k \in 1..Len(es) : es[k] \in EntryType
  OBVIOUS
<1>2. PICK f \in [0..Len(es) -> Seq(Ids)] :
        /\ f[0] = before /\ f[Len(es)] = Scan(es, n, regex, before)
        /\ \A k \in 1..Len(es) : f[k] = ScanStep(f[k - 1], es[k], n, regex)
  <2>1. PICK f : ScanRun(f, es, n, regex, before)
    BY ScanSteps
  <2> QED
    BY <2>1 DEF ScanRun
<1> DEFINE Right(k) == /\ IsInjective(f[k])
                       /\ ToSet(f[k]) = ToSet(before) \cup ClaimsUpTo(es, n, regex, k)
           T == {k \in 0..Len(es) : Right(k)}
<1>3. 0 \in T
  <2>1. 1..0 = {}
    OBVIOUS
  <2> QED
    BY <1>1, <1>2, <2>1 DEF ClaimsUpTo
<1>4. ASSUME NEW k \in 0..(Len(es) - 1), k \in T PROVE k + 1 \in T
  <2>1. /\ k + 1 \in 1..Len(es) /\ k + 1 \in 0..Len(es) /\ k \in 0..Len(es) /\ (k + 1) - 1 = k
        /\ \A i : i \in 1..(k + 1) <=> i \in 1..k \/ i = k + 1
    BY <1>1
  <2>2. f[k + 1] = ScanStep(f[k], es[k + 1], n, regex) /\ f[k] \in Seq(Ids) /\ es[k + 1] \in EntryType
    BY <1>1, <1>2, <2>1
  <2>3. Right(k)
    BY <1>4
  <2>4. CASE Claims(es[k + 1], n, regex)
    <3>1. ClaimsUpTo(es, n, regex, k + 1) = ClaimsUpTo(es, n, regex, k) \cup {es[k + 1].id}
      BY <2>1, <2>4 DEF ClaimsUpTo
    <3>2. /\ IsInjective(f[k + 1])
          /\ ToSet(f[k + 1]) = ToSet(f[k]) \cup {es[k + 1].id}
      BY <2>2, <2>3, <2>4, AppendUnseenElements DEF ScanStep
    <3> QED
      BY <2>1, <2>3, <3>1, <3>2
  <2>5. CASE ~Claims(es[k + 1], n, regex)
    <3>1. ClaimsUpTo(es, n, regex, k + 1) = ClaimsUpTo(es, n, regex, k)
      BY <2>1, <2>5 DEF ClaimsUpTo
    <3> QED
      BY <2>1, <2>2, <2>3, <2>5, <3>1 DEF ScanStep
  <2> QED
    BY <2>4, <2>5
<1>5. Len(es) \in T
  <2>1. \A k \in 0..(Len(es) - 1) : k \in T => k + 1 \in T
    BY <1>4
  <2> HIDE DEF T
  <2>2. 0..Len(es) \subseteq T
    BY <1>1, <1>3, <2>1, UpTo
  <2> QED
    BY <1>1, <2>2
<1>6. f[Len(es)] \in Seq(Ids)
  BY <1>1, <1>2
<1> QED
  BY <1>2, <1>5, <1>6

LEMMA ConcatElements ==
  ASSUME NEW E, NEW s \in Seq(E), NEW t \in Seq(E)
  PROVE  s \o t \in Seq(E) /\ ToSet(s \o t) = ToSet(s) \cup ToSet(t)
<1>1. Len(s) \in Nat /\ Len(t) \in Nat /\ DOMAIN s = 1..Len(s) /\ DOMAIN t = 1..Len(t)
  OBVIOUS
<1> DEFINE u == s \o t
<1>2. /\ u \in Seq(E) /\ DOMAIN u = 1..(Len(s) + Len(t))
      /\ \A i \in 1..(Len(s) + Len(t)) : u[i] = IF i <= Len(s) THEN s[i] ELSE t[i - Len(s)]
  BY ConcatProperties
<1> HIDE DEF u
<1>3. ASSUME NEW x \in ToSet(u) PROVE x \in ToSet(s) \cup ToSet(t)
  <2>1. PICK i \in 1..(Len(s) + Len(t)) : u[i] = x
    BY <1>2, <1>3 DEF ToSet
  <2>2. i \in 1..Len(s) \/ (~(i <= Len(s)) /\ i - Len(s) \in 1..Len(t))
    BY <1>1
  <2>3. i \in 1..Len(s) => i <= Len(s)
    BY <1>1
  <2> QED
    BY <1>1, <1>2, <2>1, <2>2, <2>3 DEF ToSet
<1>4. ASSUME NEW i \in 1..Len(s) PROVE s[i] \in ToSet(u)
  <2>1. i \in 1..(Len(s) + Len(t)) /\ i <= Len(s)
    BY <1>1
  <2> QED
    BY <1>2, <2>1 DEF ToSet
<1>5. ASSUME NEW i \in 1..Len(t) PROVE t[i] \in ToSet(u)
  <2>1. /\ i + Len(s) \in 1..(Len(s) + Len(t)) /\ ~(i + Len(s) <= Len(s))
        /\ (i + Len(s)) - Len(s) = i
    BY <1>1
  <2> QED
    BY <1>2, <2>1 DEF ToSet
<1>6. ToSet(u) = ToSet(s) \cup ToSet(t)
  BY <1>1, <1>3, <1>4, <1>5 DEF ToSet
<1> QED
  BY <1>2, <1>6 DEF u

(* FlattenSeq keeps every element of every sequence and adds none.           *)
LEMMA FlattenElements ==
  ASSUME NEW E, NEW n \in Nat, NEW seqs \in [1..n -> Seq(E)]
  PROVE  /\ FlattenSeq(seqs) \in Seq(E)
         /\ ToSet(FlattenSeq(seqs)) = UNION {ToSet(seqs[i]) : i \in 1..n}
<1>0. seqs \in Seq(Seq(E)) /\ Len(seqs) = n
  OBVIOUS
<1>1. CASE n = 0
  <2>1. FlattenSeq(seqs) = seqs /\ seqs = << >> /\ 1..n = {}
    BY <1>0, <1>1 DEF FlattenSeq
  <2> QED
    BY <2>1 DEF ToSet
<1>2. CASE n # 0
  <2> DEFINE Next1(F, i) == IF i = 1 THEN seqs[i] ELSE F[i - 1] \o seqs[i]
             Solves(F, k) == F \in [1..k -> Seq(E)] /\ \A i \in 1..k : F[i] = Next1(F, i)
             T == {k \in 0..n : \E F : Solves(F, k)}
  <2>1. 0 \in T
    <3>1. 1..0 = {}
      OBVIOUS
    <3>2. Solves([i \in 1..0 |-> << >>], 0)
      BY <3>1
    <3> HIDE DEF Solves
    <3> QED
      BY <3>2
  <2>2. ASSUME NEW k \in 0..(n - 1), k \in T PROVE k + 1 \in T
    <3>1. PICK F : Solves(F, k)
      BY <2>2
    <3>2. /\ k \in Nat /\ k + 1 \in 0..n /\ k + 1 \in 1..n /\ 1..k \subseteq 1..(k + 1)
          /\ k + 1 \notin 1..k /\ \A i \in 1..(k + 1) : i # k + 1 => i \in 1..k
          /\ \A i \in 1..(k + 1) : i # 1 => i - 1 \in 1..k
      OBVIOUS
    <3>3. seqs[k + 1] \in Seq(E)
      BY <3>2
    <3> DEFINE new == IF k = 0 THEN seqs[1] ELSE F[k] \o seqs[k + 1]
               G == [i \in 1..(k + 1) |-> IF i = k + 1 THEN new ELSE F[i]]
    <3>4. new \in Seq(E)
      <4>1. CASE k = 0
        BY <3>3, <4>1
      <4>2. CASE k # 0
        <5>1. F[k] \in Seq(E)
          BY <3>1, <3>2, <4>2
        <5> QED
          BY <3>3, <4>2, <5>1, ConcatProperties
      <4> QED BY <4>1, <4>2
    <3>5. G[k + 1] = Next1(G, k + 1)
      BY <3>2
    <3>6. ASSUME NEW i \in 1..k PROVE G[i] = Next1(G, i)
      BY <3>1, <3>2
    <3> HIDE DEF new
    <3>7. G \in [1..(k + 1) -> Seq(E)]
      BY <3>1, <3>2, <3>4
    <3> HIDE DEF G
    <3>8. Solves(G, k + 1)
      BY <3>2, <3>5, <3>6, <3>7
    <3> QED
      BY <3>2, <3>8
  <2>3. \E F : Solves(F, n)
    <3>1. \A k \in 0..(n - 1) : k \in T => k + 1 \in T
      BY <2>2
    <3> HIDE DEF T
    <3>2. 0..n \subseteq T
      BY <2>1, <3>1, UpTo
    <3>3. n \in 0..n
      OBVIOUS
    <3> QED
      BY <3>2, <3>3 DEF T
  <2> DEFINE Flat(F) == F = [i \in 1..n |-> Next1(F, i)]
             flatten == CHOOSE F : Flat(F)
  <2>4. \E F : Flat(F)
    BY <2>3
  <2>5. Flat(flatten)
    BY <2>4
  <2>6. FlattenSeq(seqs) = flatten[n]
    BY <1>0, <1>2 DEF FlattenSeq
  <2> HIDE DEF flatten
  <2> DEFINE Right(k) == /\ flatten[k] \in Seq(E)
                         /\ ToSet(flatten[k]) = UNION {ToSet(seqs[i]) : i \in 1..k}
             R == {k \in 0..n : k # 0 => Right(k)}
  <2>7. 0 \in R
    OBVIOUS
  <2>8. ASSUME NEW k \in 0..(n - 1), k \in R PROVE k + 1 \in R
    <3>1. /\ k \in Nat /\ k + 1 \in 0..n /\ k + 1 \in 1..n /\ (k + 1) - 1 = k
          /\ \A i : i \in 1..(k + 1) <=> i \in 1..k \/ i = k + 1
      OBVIOUS
    <3>2. flatten[k + 1] = Next1(flatten, k + 1) /\ seqs[k + 1] \in Seq(E)
      BY <2>5, <3>1
    <3>3. UNION {ToSet(seqs[i]) : i \in 1..(k + 1)}
          = (UNION {ToSet(seqs[i]) : i \in 1..k}) \cup ToSet(seqs[k + 1])
      BY <3>1
    <3>4. CASE k = 0
      <4>1. 1..k = {}
        BY <3>4
      <4>2. Right(k + 1)
        BY <3>2, <3>3, <3>4, <4>1
      <4> HIDE DEF Right
      <4> QED
        BY <3>1, <4>2
    <3>5. CASE k # 0
      <4>1. flatten[k + 1] = flatten[k] \o seqs[k + 1]
        <5>1. k + 1 # 1
          BY <3>1, <3>5
        <5> QED
          BY <3>1, <3>2, <5>1
      <4>2. /\ flatten[k] \in Seq(E)
            /\ ToSet(flatten[k]) = UNION {ToSet(seqs[i]) : i \in 1..k}
        <5> HIDE DEF Right
        <5>1. Right(k)
          BY <2>8, <3>5
        <5> QED
          BY <5>1 DEF Right
      <4>3. /\ flatten[k + 1] \in Seq(E)
            /\ ToSet(flatten[k + 1]) = ToSet(flatten[k]) \cup ToSet(seqs[k + 1])
        <5> DEFINE s == flatten[k]
                   t == seqs[k + 1]
        <5>1. s \in Seq(E) /\ t \in Seq(E) /\ flatten[k + 1] = s \o t
          BY <3>2, <4>1, <4>2
        <5> HIDE DEF s, t
        <5>2. s \o t \in Seq(E) /\ ToSet(s \o t) = ToSet(s) \cup ToSet(t)
          BY <5>1, ConcatElements
        <5> QED
          BY <5>1, <5>2 DEF s, t
      <4>4. Right(k + 1)
        BY <3>3, <4>2, <4>3
      <4> HIDE DEF Right
      <4> QED
        BY <3>1, <4>4
    <3> QED
      BY <3>4, <3>5
  <2>9. n \in R
    <3>1. \A k \in 0..(n - 1) : k \in R => k + 1 \in R
      BY <2>8
    <3> HIDE DEF R
    <3>2. 0..n \subseteq R
      BY <2>7, <3>1, UpTo
    <3>3. n \in 0..n
      OBVIOUS
    <3> QED
      BY <3>2, <3>3
  <2> QED
    BY <1>2, <2>6, <2>9
<1> QED
  BY <1>1, <1>2

(* A list that repeats nothing is as long as its set of elements is large.   *)
LEMMA InjectiveLength ==
  ASSUME NEW S, NEW s \in Seq(S), IsInjective(s)
  PROVE  Len(s) = Cardinality(ToSet(s))
<1>1. /\ Len(s) \in Nat /\ DOMAIN s = 1..Len(s) /\ s \in [1..Len(s) -> ToSet(s)]
      /\ \A x \in ToSet(s) : \E i \in 1..Len(s) : s[i] = x
  BY DEF ToSet
<1>2. s \in Bijection(1..Len(s), ToSet(s))
  BY <1>1 DEF Bijection, Injection, Surjection, IsInjective
<1> QED
  BY <1>1, <1>2, FS_CountingElements DEF ExistsBijection

(* One entry per handler and pattern, and no other.                          *)
EntryOf(i, j) == [id |-> routes[i].id, pattern |-> patterns[routes[i].bundle][j]]
LEMMA EntriesElements ==
  ASSUME TypeOK
  PROVE  /\ Entries \in Seq(EntryType)
         /\ \A e : e \in ToSet(Entries) <=>
              \E i \in DOMAIN routes : \E j \in DOMAIN patterns[routes[i].bundle] : e = EntryOf(i, j)
<1> DEFINE N == Len(routes)
           rows == [i \in 1..N |-> [j \in DOMAIN patterns[routes[i].bundle] |-> EntryOf(i, j)]]
<1>1. N \in Nat /\ DOMAIN routes = 1..N /\ \A i \in 1..N : routes[i] \in RouteType
  <2>1. routes \in Seq(RouteType)
    BY DEF TypeOK, RouteType
  <2> QED
    BY <2>1
<1>2. \A i \in 1..N : routes[i].id \in Ids /\ routes[i].bundle \in Bundles
  BY <1>1 DEF RouteType
<1>3. \A b \in Bundles : patterns[b] \in Seq(Patterns)
  BY DEF TypeOK
<1>4. ASSUME NEW i \in 1..N
      PROVE  /\ rows[i] \in Seq(EntryType)
             /\ ToSet(rows[i]) = {EntryOf(i, j) : j \in DOMAIN patterns[routes[i].bundle]}
  <2> DEFINE p == patterns[routes[i].bundle]
  <2>1. p \in Seq(Patterns) /\ routes[i].id \in Ids
    BY <1>2, <1>3
  <2>2. Len(p) \in Nat /\ DOMAIN p = 1..Len(p) /\ \A j \in 1..Len(p) : p[j] \in Patterns
    BY <2>1
  <2>3. \A j \in 1..Len(p) : EntryOf(i, j) \in EntryType
    BY <2>1, <2>2 DEF EntryOf, EntryType
  <2>4. rows[i] = [j \in 1..Len(p) |-> EntryOf(i, j)]
    BY <2>2
  <2> HIDE DEF rows
  <2>5. rows[i] \in Seq(EntryType) /\ DOMAIN rows[i] = 1..Len(p)
    BY <2>2, <2>3, <2>4, IsASeq
  <2> QED
    BY <2>2, <2>4, <2>5 DEF ToSet
<1>5. Entries = FlattenSeq(rows)
  <2>1. \A i \in DOMAIN routes :
          [j \in DOMAIN patterns[routes[i].bundle] |-> EntryOf(i, j)]
          = [j \in DOMAIN patterns[routes[i].bundle] |->
              [id |-> routes[i].id, pattern |-> patterns[routes[i].bundle][j]]]
    BY DEF EntryOf
  <2>2. rows = [i \in DOMAIN routes |-> [j \in DOMAIN patterns[routes[i].bundle] |->
                 [id |-> routes[i].id, pattern |-> patterns[routes[i].bundle][j]]]]
    BY <1>1, <2>1
  <2> HIDE DEF rows
  <2> QED
    BY <2>2 DEF Entries
<1>6. rows \in [1..N -> Seq(EntryType)]
  BY <1>4
<1> HIDE DEF rows
<1>7. /\ FlattenSeq(rows) \in Seq(EntryType)
      /\ ToSet(FlattenSeq(rows)) = UNION {ToSet(rows[i]) : i \in 1..N}
  BY <1>1, <1>6, FlattenElements
<1> QED
  BY <1>1, <1>4, <1>5, <1>7

(* The list of an event has exactly the handlers that are subscribed to it.  *)
LEMMA MatchedElements ==
  ASSUME TypeOK, NEW n
  PROVE  LET m == Matched(Entries, n) IN
         /\ ToSet(m) = {h \in Ids : Subscribed(h, n)}
         /\ Len(m) = Cardinality(ToSet(m))
<1> DEFINE es == Entries
           none == << >>
           exact == Scan(es, n, FALSE, none)
           all == Scan(es, n, TRUE, exact)
<1>1. es \in Seq(EntryType)
  BY EntriesElements
<1>2. none \in Seq(Ids) /\ IsInjective(none) /\ ToSet(none) = {}
  BY DEF IsInjective, ToSet
<1> HIDE DEF es, none
<1>3. /\ exact \in Seq(Ids) /\ IsInjective(exact)
      /\ ToSet(exact) = ClaimsUpTo(es, n, FALSE, Len(es))
  <2>1. ToSet(exact) = ToSet(none) \cup ClaimsUpTo(es, n, FALSE, Len(es))
    BY <1>1, <1>2, ScanElements
  <2>2. exact \in Seq(Ids) /\ IsInjective(exact)
    BY <1>1, <1>2, ScanElements
  <2> QED
    BY <1>2, <2>1, <2>2
<1> HIDE DEF exact
<1>4. /\ all \in Seq(Ids) /\ IsInjective(all)
      /\ ToSet(all) = ClaimsUpTo(es, n, FALSE, Len(es)) \cup ClaimsUpTo(es, n, TRUE, Len(es))
  BY <1>1, <1>3, ScanElements
<1>5. Matched(Entries, n) = all
  BY DEF Matched, es, none, exact
<1> HIDE DEF all
<1>6. /\ Len(es) \in Nat /\ \A k \in 1..Len(es) : es[k] \in EntryType
      /\ ToSet(es) = {es[k] : k \in 1..Len(es)}
  BY <1>1 DEF ToSet
<1>7. \A e \in EntryType : Claims(e, n, FALSE) \/ Claims(e, n, TRUE) <=> Hits(e.pattern, n)
  BY PatternsAssumption DEF Claims, EntryType
<1>8. \A h : h \in ToSet(all) <=> \E e \in ToSet(es) : e.id = h /\ Hits(e.pattern, n)
  BY <1>4, <1>6, <1>7 DEF ClaimsUpTo
<1>9. \A e : e \in ToSet(es) <=>
        \E i \in DOMAIN routes : \E j \in DOMAIN patterns[routes[i].bundle] : e = EntryOf(i, j)
  BY EntriesElements DEF es
<1>10. \A h : h \in ToSet(all) => h \in Ids
  BY <1>6, <1>8 DEF EntryType
<1>11. ASSUME NEW h PROVE h \in ToSet(all) <=> Subscribed(h, n)
  <2>1. \A i, j : EntryOf(i, j).id = routes[i].id
                  /\ EntryOf(i, j).pattern = patterns[routes[i].bundle][j]
    BY DEF EntryOf
  <2>2. ASSUME h \in ToSet(all) PROVE Subscribed(h, n)
    <3>1. PICK e \in ToSet(es) : e.id = h /\ Hits(e.pattern, n)
      BY <1>8, <2>2
    <3>2. PICK i \in DOMAIN routes :
            \E j \in DOMAIN patterns[routes[i].bundle] : e = EntryOf(i, j)
      BY <1>9, <3>1
    <3>3. PICK j \in DOMAIN patterns[routes[i].bundle] : e = EntryOf(i, j)
      BY <3>2
    <3> QED
      BY <2>1, <3>1, <3>3 DEF Subscribed, Hits
  <2>3. ASSUME Subscribed(h, n) PROVE h \in ToSet(all)
    <3>1. PICK i \in DOMAIN routes :
            routes[i].id = h /\ \E j \in DOMAIN patterns[routes[i].bundle] :
                                  Hits(patterns[routes[i].bundle][j], n)
      BY <2>3 DEF Subscribed, Hits
    <3>2. PICK j \in DOMAIN patterns[routes[i].bundle] : Hits(patterns[routes[i].bundle][j], n)
      BY <3>1
    <3>3. EntryOf(i, j) \in ToSet(es)
      BY <1>9
    <3> QED
      BY <1>8, <2>1, <3>1, <3>2, <3>3
  <2> QED BY <2>2, <2>3
<1>12. Len(all) = Cardinality(ToSet(all))
  BY <1>4, InjectiveLength
<1> QED
  BY <1>5, <1>10, <1>11, <1>12

(* match() answers with exactly the handlers that have a live pattern for    *)
(* the event, each once (_rebuild, and every change since).                  *)
THEOREM MatchCorrect == BundlesAreOwn /\ Spec => []MatchIsExact
<1> SUFFICES ASSUME BundlesAreOwn PROVE Spec => []MatchIsExact
  OBVIOUS
<1>1. TypeOK /\ TableIsCurrent => MatchIsExact
  <2> SUFFICES ASSUME TypeOK, Fresh, table = Rebuilt
               PROVE  /\ DOMAIN table = names
                      /\ \A n \in names : /\ ToSet(table[n]) = {h \in Ids : Subscribed(h, n)}
                                          /\ Len(table[n]) = Cardinality(ToSet(table[n]))
    BY DEF MatchIsExact, TableIsCurrent
  <2>1. table = [n \in names |-> Matched(Entries, n)]
    BY DEF Rebuilt, TableOf
  <2>2. DOMAIN table = names /\ \A n \in names : table[n] = Matched(Entries, n)
    BY <2>1
  <2> QED
    BY <2>2, MatchedElements
<1>2. Spec => []TypeOK
  BY TypeCorrect
<1>3. Spec => []TableIsCurrent
  BY TableCorrect
<1> QED
  BY <1>1, <1>2, <1>3, PTL

-------------------------------------------------------------------------------
(* The handlers behind the routes: HandlerRegistry, with its own ids.       *)
(* Activated is the same as routed, for any number of handlers and ids, if  *)
(* the hooks keep to an order the rollback can undo.                        *)

(* What the hooks must not do, each of which leaves a ghost route.           *)
Orderly ==
  /\ ActivateRaises => "activate" \notin RegistersIn
  /\ RegistersIn \cap {"deactivate", "clear"} = {}
  /\ "rollback" \notin UnregistersIn
  /\ ForgetRaises => "activate" \notin UnregistersIn

(* A registered handler knows its id, so that its hooks reach its route.     *)
KnowsItsId == \A h \in Registered : hid[h] = key[h]

(* Every route has leaked or belongs to a registered handler of S.           *)
RoutedBy(S) ==
  \A id \in routed : id \in leaked \/ \E h \in Registered \cap S : key[h] = id

(* What the loops have done so far.                                          *)
IdleInv == frame = "idle" => routed = Expected \cup leaked /\ todo = {}
ActivateInv == frame = "activate" =>
  /\ hasBus
  /\ \A h \in todo \ Registered : hid[h] = None
  /\ ForgetRaises => todo \subseteq Registered
  /\ \A h \in Registered \ todo : key[h] \in routed
  /\ RoutedBy(Handlers)
  /\ ActivateRaises => RoutedBy(visited)
RollbackInv == frame = "rollback" => ~hasBus /\ RoutedBy(todo)
OfflineInv == frame \in {"deactivate", "clear"} =>
  RoutedBy(todo) /\ (hasBus \/ todo = {})

LoopInv == KnowsItsId /\ IdleInv /\ ActivateInv /\ RollbackInv /\ OfflineInv
USE DEF None, FreshId, Frames

(* The parts of the type invariant.                                         *)
KeysOK ==
  /\ issued \in Nat
  /\ key \in [Handlers -> Nat] /\ hid \in [Handlers -> Nat]
  /\ \A h \in Handlers : key[h] <= issued /\ hid[h] <= issued
KeysDiffer == \A g, h \in Handlers : key[g] = key[h] => g = h \/ key[g] = 0
RoutesOK == (\A id \in routed : id \in Nat \ {0} /\ id <= issued) /\ leaked \subseteq routed
LoopOK ==
  /\ hasBus \in BOOLEAN /\ frame \in Frames \cup {"idle"}
  /\ todo \subseteq Handlers /\ visited \subseteq Handlers

RegistryTypes == KeysOK /\ KeysDiffer /\ RoutesOK /\ LoopOK

LEMMA RegistryTypeParts == RegistryTypes => RegistryTypeOK
<1> SUFFICES ASSUME KeysOK, KeysDiffer, RoutesOK, LoopOK PROVE RegistryTypeOK
  BY DEF RegistryTypes
<1>1. key \in [Handlers -> 0..issued] /\ hid \in [Handlers -> 0..issued]
  BY DEF KeysOK
<1>2. \A g, h \in Registered : key[g] = key[h] => g = h
  BY DEF KeysDiffer, Registered
<1>3. routed \subseteq 1..issued
  BY DEF RoutesOK, KeysOK
<1> QED
  BY <1>1, <1>2, <1>3 DEF RegistryTypeOK, KeysOK, RoutesOK, LoopOK

LEMMA RegistryTypeInit == RegistryInit => RegistryTypes
<1> SUFFICES ASSUME RegistryInit PROVE RegistryTypes
  OBVIOUS
<1>1. KeysOK /\ KeysDiffer
  BY DEF RegistryInit, KeysOK, KeysDiffer
<1>2. RoutesOK /\ LoopOK
  BY DEF RegistryInit, RoutesOK, LoopOK
<1> QED
  BY <1>1, <1>2 DEF RegistryTypes

LEMMA RegistryTypeStep == RegistryTypes /\ [RegistryNext]_registryVars => RegistryTypes'
<1> SUFFICES ASSUME KeysOK, KeysDiffer, RoutesOK, LoopOK, [RegistryNext]_registryVars
             PROVE  KeysOK' /\ KeysDiffer' /\ RoutesOK' /\ LoopOK'
  BY DEF RegistryTypes
<1>1. ASSUME NEW h \in Handlers, Register(h)
      PROVE  KeysOK' /\ KeysDiffer' /\ RoutesOK' /\ LoopOK'
  <2>1. KeysOK'
    BY <1>1 DEF Register, KeysOK
  <2>2. KeysDiffer'
    BY <1>1 DEF Register, KeysOK, KeysDiffer
  <2>3. RoutesOK'
    BY <1>1 DEF Register, AddRoute, KeysOK, RoutesOK
  <2> QED
    BY <1>1, <2>1, <2>2, <2>3 DEF Register, LoopOK
<1>2. ASSUME NEW h \in Handlers, RegisterRaises(h)
      PROVE  KeysOK' /\ KeysDiffer' /\ RoutesOK' /\ LoopOK'
  <2>1. KeysOK'
    BY <1>2 DEF RegisterRaises, Forget, KeysOK
  <2> QED
    BY <1>2, <2>1 DEF RegisterRaises, KeysDiffer, RoutesOK, KeysOK, LoopOK
<1>3. ASSUME NEW h \in Handlers, RegisterFails(h)
      PROVE  KeysOK' /\ KeysDiffer' /\ RoutesOK' /\ LoopOK'
  <2>1. KeysOK'
    BY <1>3 DEF RegisterFails, Forget, KeysOK
  <2>2. RoutesOK'
    BY <1>3 DEF RegisterFails, RolledBack, KeysOK, RoutesOK
  <2> QED
    BY <1>3, <2>1, <2>2 DEF RegisterFails, KeysDiffer, LoopOK
<1>4. ASSUME NEW h \in Handlers, Unregister(h)
      PROVE  KeysOK' /\ KeysDiffer' /\ RoutesOK' /\ LoopOK'
  <2>1. KeysOK'
    BY <1>4 DEF Unregister, Forget, KeysOK
  <2>2. RoutesOK'
    BY <1>4 DEF Unregister, DropRoute, RoutesOK
  <2> QED
    BY <1>4, <2>1, <2>2 DEF Unregister, KeysOK, KeysDiffer, LoopOK
<1>5. ASSUME NEW h \in Handlers, ActivateHook(h)
      PROVE  KeysOK' /\ KeysDiffer' /\ RoutesOK' /\ LoopOK'
  <2>1. RoutesOK'
    BY <1>5 DEF ActivateHook, AddRoute, RoutesOK, KeysOK
  <2> QED
    BY <1>5, <2>1 DEF ActivateHook, Visit, KeysOK, KeysDiffer, LoopOK
<1>6. ASSUME NEW h \in Handlers, ActivateHookRaises(h)
      PROVE  KeysOK' /\ KeysDiffer' /\ RoutesOK' /\ LoopOK'
  <2>1. RoutesOK'
    BY <1>6 DEF ActivateHookRaises, AddRoute, RoutesOK, KeysOK
  <2> QED
    BY <1>6, <2>1 DEF ActivateHookRaises, Tried, KeysOK, KeysDiffer, LoopOK
<1>7. ASSUME NEW h \in Handlers, DeactivateHook(h)
      PROVE  KeysOK' /\ KeysDiffer' /\ RoutesOK' /\ LoopOK'
  <2>1. RoutesOK'
    BY <1>7 DEF DeactivateHook, DropRoute, RoutesOK
  <2> QED
    BY <1>7, <2>1 DEF DeactivateHook, Visit, KeysOK, KeysDiffer, LoopOK
<1>8. ASSUME Activate \/ Deactivate \/ ClearHandlers \/ ActivateReturns \/ RollbackReturns
               \/ DeactivateReturns \/ UNCHANGED registryVars
      PROVE  KeysOK' /\ KeysDiffer' /\ RoutesOK' /\ LoopOK'
  <2>1. UNCHANGED <<key, hid, routed, issued, leaked>>
    BY <1>8 DEF Activate, Deactivate, ClearHandlers, ActivateReturns, RollbackReturns,
                DeactivateReturns, registryVars
  <2>2. LoopOK'
    BY <1>8 DEF Activate, Deactivate, ClearHandlers, ActivateReturns, RollbackReturns,
                DeactivateReturns, registryVars, Enter, Leave, LoopOK, Registered
  <2> QED
    BY <2>1, <2>2 DEF KeysOK, KeysDiffer, RoutesOK
<1>9. CASE ClearReturns
  <2>1. KeysOK'
    BY <1>9 DEF ClearReturns, KeysOK
  <2> QED
    BY <1>9, <2>1 DEF ClearReturns, Leave, KeysOK, KeysDiffer, RoutesOK, LoopOK
<1> QED
  BY <1>1, <1>2, <1>3, <1>4, <1>5, <1>6, <1>7, <1>8, <1>9 DEF RegistryNext

(* Every variable of the registry has its type, and ids are not reused.      *)
THEOREM RegistryTypeCorrect == RegistrySpec => []RegistryTypeOK
  BY RegistryTypeInit, RegistryTypeStep, RegistryTypeParts, PTL DEF RegistrySpec, registryVars

-------------------------------------------------------------------------------
LEMMA LoopInit == RegistryInit => LoopInv
<1> SUFFICES ASSUME RegistryInit PROVE LoopInv
  OBVIOUS
<1>1. Registered = {}
  BY DEF RegistryInit, Registered
<1> QED
  BY <1>1 DEF RegistryInit, LoopInv, KnowsItsId, IdleInv, Expected, ActivateInv, RollbackInv, OfflineInv

(* A handler enters the registry and, if that is bound, the route table.     *)
LEMMA RegisterKeeps ==
  ASSUME Orderly, RegistryTypes, LoopInv, NEW h \in Handlers, Register(h)
  PROVE  LoopInv'
<1> USE DEF RegistryTypes, LoopInv
<1> DEFINE id == issued + 1
<1>1. /\ Registered' = Registered \cup {h} /\ h \notin Registered
      /\ key'[h] = id /\ hid'[h] = id
      /\ \A g \in Handlers \ {h} : key'[g] = key[g] /\ hid'[g] = hid[g]
      /\ id \notin routed /\ id # 0
  BY DEF Register, Registered, KeysOK, RoutesOK
<1>2. KnowsItsId'
  BY <1>1 DEF KnowsItsId, Registered
<1>3. frame' = frame /\ todo' = todo /\ visited' = visited /\ hasBus' = hasBus
  BY DEF Register
<1>4. CASE hasBus
  <2>1. routed' = routed \cup {id} /\ leaked' = leaked
    BY <1>1, <1>4 DEF Register, AddRoute, RoutesOK
  <2>2. IdleInv'
    BY <1>1, <1>3, <1>4, <2>1 DEF IdleInv, Expected, Registered
  <2>3. frame = "activate" => ~ActivateRaises
    BY DEF Register, MayCall, Orderly
  <2>4. ASSUME frame = "activate"
        PROVE  /\ \A g \in (todo \ Registered)' : hid'[g] = None
               /\ ForgetRaises => todo' \subseteq Registered'
               /\ \A g \in (Registered \ todo)' : key'[g] \in routed'
               /\ RoutedBy(Handlers)'
    <3>1. /\ \A g \in (todo \ Registered)' : hid'[g] = None
          /\ ForgetRaises => todo' \subseteq Registered'
      BY <1>1, <1>3, <2>4 DEF ActivateInv, LoopOK
    <3>2. \A g \in (Registered \ todo)' : key'[g] \in routed'
      BY <1>1, <1>3, <2>1, <2>4 DEF ActivateInv, Registered
    <3>3. ASSUME NEW x \in routed' PROVE x \in leaked' \/ \E g \in Registered' : key'[g] = x
      <4>1. CASE x = id
        BY <1>1, <4>1
      <4>2. CASE x \in routed
        BY <1>1, <2>1, <2>4, <4>2 DEF ActivateInv, RoutedBy, Registered
      <4> QED
        BY <2>1, <3>3, <4>1, <4>2
    <3> QED
      BY <3>1, <3>2, <3>3 DEF RoutedBy, Registered
  <2>5. ActivateInv'
    BY <1>3, <1>4, <2>3, <2>4 DEF ActivateInv
  <2>6. RollbackInv' /\ OfflineInv'
    BY <1>3, <1>4 DEF Register, MayCall, Orderly, RollbackInv, OfflineInv
  <2> QED
    BY <1>2, <2>2, <2>5, <2>6
<1>5. CASE ~hasBus
  <2>1. routed' = routed /\ leaked' = leaked
    BY <1>5 DEF Register
  <2>2. IdleInv'
    BY <1>3, <1>5, <2>1 DEF IdleInv, Expected
  <2>3. ActivateInv'
    BY <1>3, <1>5 DEF ActivateInv
  <2>4. RollbackInv'
    BY <1>1, <1>3, <1>5, <2>1 DEF RollbackInv, RoutedBy, Registered
  <2>5. OfflineInv'
    BY <1>3 DEF Register, MayCall, Orderly, OfflineInv
  <2> QED
    BY <1>2, <2>2, <2>3, <2>4, <2>5
<1> QED
  BY <1>4, <1>5

(* A failed register leaves the registry and its routes as they were, but    *)
(* for a route that on_deactivate has failed to withdraw.                    *)
LEMMA FailureKeeps ==
  ASSUME Orderly, RegistryTypes, LoopInv, NEW h \in Handlers,
         key[h] = None, UNCHANGED <<key, hasBus, frame, todo, visited>>,
         \A g \in Handlers \ {h} : hid'[g] = hid[g],
         frame = "activate" /\ h \in todo => hid'[h] = None,
         \/ UNCHANGED <<routed, leaked>>
         \/ \E id : routed' = routed \cup {id} /\ leaked' = leaked \cup {id}
  PROVE  LoopInv'
<1> USE DEF RegistryTypes, LoopInv
<1>1. Registered' = Registered /\ h \notin Registered
  BY DEF Registered
<1>2. KnowsItsId'
  BY <1>1 DEF KnowsItsId, Registered
<1>3. \A S : RoutedBy(S) => \A x \in routed' :
        x \in leaked' \/ \E g \in Registered \cap S : key[g] = x
  BY DEF RoutedBy
<1>4. IdleInv'
  BY <1>1 DEF IdleInv, Expected
<1>5. RollbackInv' /\ OfflineInv'
  BY <1>1, <1>3 DEF RollbackInv, OfflineInv, RoutedBy
<1>6. ASSUME frame = "activate" PROVE \A g \in todo \ Registered : hid'[g] = None
  BY <1>6 DEF ActivateInv, LoopOK
<1>7. ActivateInv'
  BY <1>1, <1>3, <1>6 DEF ActivateInv, RoutedBy
<1> QED
  BY <1>2, <1>4, <1>5, <1>7

LEMMA RegisterRaisesKeeps ==
  ASSUME Orderly, RegistryTypes, LoopInv, NEW h \in Handlers, RegisterRaises(h)
  PROVE  LoopInv'
<1>1. /\ key[h] = None /\ UNCHANGED <<key, hasBus, frame, todo, visited, routed, leaked>>
      /\ hid \in [Handlers -> Nat]
  BY DEF RegisterRaises, RegistryTypes, KeysOK
<1>2. \A g \in Handlers \ {h} : hid'[g] = hid[g]
  BY <1>1 DEF RegisterRaises, Forget
<1>3. CASE ~ForgetRaises
  <2>1. hid'[h] = None
    BY <1>1, <1>3 DEF RegisterRaises, Forget
  <2> QED
    BY <1>1, <1>2, <2>1, FailureKeeps
<1>4. CASE ForgetRaises
  <2>1. ~(frame = "activate" /\ h \in todo)
    BY <1>1, <1>4 DEF LoopInv, ActivateInv, Registered
  <2> QED
    BY <1>1, <1>2, <2>1, FailureKeeps
<1> QED
  BY <1>3, <1>4 DEF RegistryTypes

LEMMA RegisterFailsKeeps ==
  ASSUME Orderly, RegistryTypes, LoopInv, NEW h \in Handlers, RegisterFails(h)
  PROVE  LoopInv'
<1>1. /\ key[h] = None /\ UNCHANGED <<key, hasBus, frame, todo, visited>>
      /\ hid \in [Handlers -> Nat]
  BY DEF RegisterFails, RegistryTypes, KeysOK
<1>2. \A g \in Handlers \ {h} : hid'[g] = hid[g]
  BY <1>1 DEF RegisterFails, Forget
<1>3. ~(frame = "activate")
  BY DEF RegisterFails, MayCall, Orderly
<1>4. \/ UNCHANGED <<routed, leaked>>
      \/ \E id : routed' = routed \cup {id} /\ leaked' = leaked \cup {id}
  BY DEF RegisterFails, RolledBack
<1> QED
  BY <1>1, <1>2, <1>3, <1>4, FailureKeeps

(* What the withdrawal of a handler's id does to the routes of a set.        *)
LEMMA WithdrawKeeps ==
  ASSUME RegistryTypes, KnowsItsId, NEW h \in Handlers, DropRoute(hid[h]), NEW S, RoutedBy(S)
  PROVE  /\ \A x \in routed' : x \in leaked' \/ \E g \in (Registered \cap S) \ {h} : key[g] = x
         /\ leaked' \subseteq routed' /\ routed' \subseteq routed
<1>1. leaked' \subseteq routed' /\ routed' \subseteq routed /\ leaked \subseteq leaked' \cup {hid[h]}
  BY DEF DropRoute, RegistryTypes, RoutesOK
<1>2. hid[h] \in routed' => hid[h] \in leaked'
  BY DEF DropRoute
<1>3. ASSUME NEW x \in routed'
      PROVE  x \in leaked' \/ \E g \in (Registered \cap S) \ {h} : key[g] = x
  <2>1. CASE x = hid[h]
    BY <1>2, <1>3, <2>1
  <2>2. CASE x # hid[h]
    <3>1. x \in leaked \/ \E g \in Registered \cap S : key[g] = x
      BY <1>1, <1>3 DEF RoutedBy
    <3>2. h \in Registered => key[h] # x
      BY <2>2 DEF KnowsItsId
    <3> QED
      BY <1>1, <2>2, <3>1, <3>2
  <2> QED
    BY <2>1, <2>2
<1> QED
  BY <1>1, <1>3

LEMMA UnregisterKeeps ==
  ASSUME Orderly, RegistryTypes, LoopInv, NEW h \in Handlers, Unregister(h)
  PROVE  LoopInv'
<1> USE DEF RegistryTypes, LoopInv
<1>1. /\ Registered' = Registered \ {h} /\ h \in Registered
      /\ \A g \in Handlers \ {h} : key'[g] = key[g] /\ hid'[g] = hid[g]
      /\ hid[h] = key[h]
  BY DEF Unregister, Forget, Registered, KeysOK, KnowsItsId
<1>2. \A g \in Registered' : g \in Registered /\ key'[g] = key[g] /\ key[g] # key[h]
  BY <1>1 DEF Registered, KeysDiffer
<1>3. KnowsItsId'
  BY <1>1 DEF KnowsItsId, Registered
<1>4. frame' = frame /\ todo' = todo /\ visited' = visited /\ hasBus' = hasBus
  BY DEF Unregister
<1>5. frame \in {"idle", "activate", "deactivate", "clear"}
  BY DEF Unregister, MayCall, Orderly, LoopOK
<1>6. CASE hasBus
  <2>1. DropRoute(hid[h])
    BY <1>6 DEF Unregister
  <2>2. \A S : RoutedBy(S) => RoutedBy(S)'
    <3> SUFFICES ASSUME NEW S, RoutedBy(S) PROVE RoutedBy(S)'
      OBVIOUS
    <3>1. \A x \in routed' :
            x \in leaked' \/ \E g \in (Registered \cap S) \ {h} : key[g] = x
      BY <2>1, WithdrawKeeps
    <3> QED
      BY <1>1, <1>2, <3>1 DEF RoutedBy
  <2>3. CASE frame = "idle"
    <3>1. routed = Expected \cup leaked /\ key[h] \in Expected
      BY <1>1, <1>6, <2>3 DEF IdleInv, Expected
    <3>2. Expected' = Expected \ {key[h]}
      BY <1>1, <1>2, <1>4, <1>6 DEF Expected
    <3>3. routed' = Expected' \cup leaked'
      BY <1>1, <2>1, <3>1, <3>2 DEF DropRoute
    <3> QED
      BY <1>3, <1>4, <2>3, <3>3 DEF IdleInv, ActivateInv, RollbackInv, OfflineInv
  <2>4. CASE frame = "activate"
    <3>1. ~ForgetRaises /\ hid'[h] = None
      BY <2>4 DEF Unregister, MayCall, Orderly, Forget, KeysOK
    <3>2. \A g \in (todo \ Registered)' : hid'[g] = None
      BY <1>1, <1>4, <2>4, <3>1 DEF ActivateInv, LoopOK
    <3>3. \A g \in (Registered \ todo)' : key'[g] \in routed'
      BY <1>1, <1>2, <1>4, <2>1, <2>4 DEF ActivateInv, DropRoute
    <3> QED
      BY <1>3, <1>4, <2>2, <2>4, <3>1, <3>2, <3>3
      DEF IdleInv, ActivateInv, RollbackInv, OfflineInv
  <2>5. CASE frame \in {"deactivate", "clear"}
    BY <1>3, <1>4, <2>2, <2>5 DEF IdleInv, ActivateInv, RollbackInv, OfflineInv
  <2> QED
    BY <1>5, <2>3, <2>4, <2>5
<1>7. CASE ~hasBus
  <2>1. routed' = routed /\ leaked' = leaked
    BY <1>7 DEF Unregister
  <2>2. CASE frame = "idle"
    BY <1>3, <1>4, <1>7, <2>1, <2>2
    DEF IdleInv, ActivateInv, RollbackInv, OfflineInv, Expected
  <2>3. CASE frame \in {"deactivate", "clear"}
    BY <1>3, <1>4, <1>7, <2>1, <2>3
    DEF IdleInv, ActivateInv, RollbackInv, OfflineInv, RoutedBy
  <2> QED
    BY <1>5, <1>7, <2>2, <2>3 DEF ActivateInv
<1> QED
  BY <1>6, <1>7

LEMMA ActivateHookKeeps ==
  ASSUME RegistryTypes, LoopInv, NEW h \in Handlers, ActivateHook(h)
  PROVE  LoopInv'
<1> USE DEF RegistryTypes, LoopInv
<1>1. /\ frame = "activate" /\ h \in todo
      /\ UNCHANGED <<key, hid, hasBus, frame>>
      /\ todo' = todo \ {h} /\ visited' = visited \cup {h}
      /\ routed' = routed \cup ({hid[h]} \ {None}) /\ leaked' = leaked \ {hid[h]}
  BY DEF ActivateHook, AddRoute, Visit
<1>2. Registered' = Registered
  BY <1>1 DEF Registered
<1>3. h \notin Registered => hid[h] = None /\ routed' = routed /\ leaked' = leaked
  BY <1>1 DEF ActivateInv, RoutesOK
<1>4. h \in Registered => hid[h] = key[h] /\ routed' = routed \cup {key[h]}
  BY <1>1 DEF KnowsItsId, Registered
<1>5. \A g \in Registered \ todo' : key[g] \in routed'
  BY <1>1, <1>4 DEF ActivateInv
<1>6. ASSUME NEW S, NEW U, h \in U, S \subseteq U, RoutedBy(S) PROVE RoutedBy(U)'
  <2>1. ASSUME NEW x \in routed'
        PROVE  x \in leaked' \/ \E g \in Registered \cap U : key[g] = x
    <3>1. CASE h \in Registered /\ x = key[h]
      BY <1>6, <3>1
    <3>2. CASE ~(h \in Registered /\ x = key[h])
      <4>1. x \in routed
        BY <1>3, <1>4, <2>1, <3>2
      <4>2. x # hid[h]
        BY <1>3, <1>4, <3>2, <4>1 DEF RoutesOK
      <4> QED
        BY <1>1, <1>6, <4>1, <4>2 DEF RoutedBy
    <3> QED
      BY <3>1, <3>2
  <2> QED
    BY <1>1, <1>2, <2>1 DEF RoutedBy
<1>7. RoutedBy(Handlers)' /\ (ActivateRaises => RoutedBy(visited \cup {h})')
  BY <1>1, <1>6 DEF ActivateInv
<1>8. ActivateRaises => RoutedBy(visited)'
  BY <1>1, <1>7 DEF RoutedBy
<1> QED
  BY <1>1, <1>2, <1>5, <1>7, <1>8
  DEF KnowsItsId, IdleInv, ActivateInv, RollbackInv, OfflineInv

LEMMA ActivateHookRaisesKeeps ==
  ASSUME RegistryTypes, LoopInv, NEW h \in Handlers, ActivateHookRaises(h)
  PROVE  LoopInv'
<1> USE DEF RegistryTypes, LoopInv
<1>1. /\ frame = "activate" /\ h \in todo /\ ActivateRaises
      /\ UNCHANGED <<key, hid>>
      /\ frame' = "rollback" /\ ~hasBus' /\ todo' = visited \cup {h}
      /\ AddRoute(hid[h]) \/ UNCHANGED <<routed, leaked>>
  BY DEF ActivateHookRaises, Tried
<1>2. Registered' = Registered
  BY <1>1 DEF Registered
<1>3. h \notin Registered => hid[h] = None
  BY <1>1 DEF ActivateInv
<1>4. h \in Registered => hid[h] = key[h]
  BY DEF KnowsItsId
<1>5. RoutedBy(visited)
  BY <1>1 DEF ActivateInv
<1>6. ASSUME NEW x \in routed'
      PROVE  x \in leaked' \/ \E g \in Registered \cap (visited \cup {h}) : key[g] = x
  <2>1. CASE h \in Registered /\ x = key[h]
    BY <2>1
  <2>2. CASE ~(h \in Registered /\ x = key[h])
    <3>1. x \in routed
      BY <1>1, <1>3, <1>4, <1>6, <2>2 DEF AddRoute
    <3>2. x # hid[h]
      BY <1>3, <1>4, <2>2, <3>1 DEF RoutesOK
    <3> QED
      BY <1>1, <1>5, <3>1, <3>2 DEF RoutedBy, AddRoute
  <2> QED
    BY <2>1, <2>2
<1>7. RoutedBy(todo)'
  BY <1>1, <1>2, <1>6 DEF RoutedBy
<1> QED
  BY <1>1, <1>2, <1>7 DEF KnowsItsId, IdleInv, ActivateInv, RollbackInv, OfflineInv

LEMMA DeactivateHookKeeps ==
  ASSUME RegistryTypes, LoopInv, NEW h \in Handlers, DeactivateHook(h)
  PROVE  LoopInv'
<1> USE DEF RegistryTypes, LoopInv
<1>1. /\ frame \in {"rollback", "deactivate", "clear"} /\ h \in todo
      /\ UNCHANGED <<key, hid, hasBus, frame>> /\ todo' = todo \ {h}
      /\ DropRoute(hid[h])
  BY DEF DeactivateHook, Visit
<1>2. Registered' = Registered
  BY <1>1 DEF Registered
<1>3. RoutedBy(todo)
  BY <1>1 DEF RollbackInv, OfflineInv
<1>4. \A x \in routed' :
        x \in leaked' \/ \E g \in (Registered \cap todo) \ {h} : key[g] = x
  BY <1>1, <1>3, WithdrawKeeps
<1>5. RoutedBy(todo)'
  BY <1>1, <1>2, <1>4 DEF RoutedBy
<1> QED
  BY <1>1, <1>2, <1>5 DEF KnowsItsId, IdleInv, ActivateInv, RollbackInv, OfflineInv

(* The loops begin and end.                                                  *)
LEMMA FramesKeep ==
  ASSUME RegistryTypes, LoopInv,
         \/ Activate \/ ActivateReturns \/ RollbackReturns \/ Deactivate
         \/ DeactivateReturns \/ ClearHandlers \/ UNCHANGED registryVars
  PROVE  LoopInv'
<1> USE DEF RegistryTypes, LoopInv
<1>1. UNCHANGED <<key, hid, routed, leaked>> /\ Registered' = Registered
  BY DEF Activate, ActivateReturns, RollbackReturns, Deactivate, DeactivateReturns, ClearHandlers,
         registryVars, Registered
<1>2. KnowsItsId'
  BY <1>1 DEF KnowsItsId
<1>3. CASE Activate
  <2>1. routed = leaked /\ hasBus' /\ frame' = "activate" /\ todo' = Registered
    BY <1>3 DEF Activate, Enter, IdleInv, Expected
  <2> QED
    BY <1>1, <1>2, <2>1 DEF IdleInv, ActivateInv, RollbackInv, OfflineInv, RoutedBy
<1>4. CASE ActivateReturns
  <2>1. /\ hasBus /\ hasBus' = hasBus /\ frame' = "idle" /\ todo' = {}
        /\ \A h \in Registered : key[h] \in routed
        /\ RoutedBy(Handlers)
    BY <1>4 DEF ActivateReturns, Leave, ActivateInv
  <2>2. routed = {key[h] : h \in Registered} \cup leaked
    BY <2>1 DEF RoutedBy, RoutesOK, Registered
  <2> QED
    BY <1>1, <1>2, <2>1, <2>2 DEF IdleInv, ActivateInv, RollbackInv, OfflineInv, Expected
<1>5. CASE RollbackReturns \/ DeactivateReturns
  <2>1. RoutedBy({}) /\ ~hasBus' /\ frame' = "idle" /\ todo' = {}
    BY <1>5 DEF RollbackReturns, DeactivateReturns, Leave, RollbackInv, OfflineInv
  <2>2. routed = leaked
    BY <2>1 DEF RoutedBy, RoutesOK
  <2> QED
    BY <1>1, <1>2, <2>1, <2>2 DEF IdleInv, ActivateInv, RollbackInv, OfflineInv, Expected
<1>6. CASE Deactivate \/ ClearHandlers
  <2>1. /\ routed = Expected \cup leaked /\ frame' \in {"deactivate", "clear"}
        /\ hasBus' = hasBus
        /\ todo' = IF hasBus THEN Registered ELSE {}
    BY <1>6 DEF Deactivate, ClearHandlers, Enter, IdleInv
  <2>2. RoutedBy(todo)'
    BY <1>1, <2>1 DEF RoutedBy, Expected, Registered
  <2> QED
    BY <1>1, <1>2, <2>1, <2>2 DEF IdleInv, ActivateInv, RollbackInv, OfflineInv
<1>7. CASE UNCHANGED registryVars
  BY <1>1, <1>2, <1>7
  DEF registryVars, IdleInv, ActivateInv, RollbackInv, OfflineInv, RoutedBy, Expected
<1> QED
  BY <1>3, <1>4, <1>5, <1>6, <1>7

LEMMA ClearReturnsKeeps ==
  ASSUME RegistryTypes, LoopInv, ClearReturns
  PROVE  LoopInv'
<1> USE DEF RegistryTypes, LoopInv
<1>1. /\ RoutedBy({}) /\ ~hasBus' /\ frame' = "idle" /\ todo' = {}
      /\ UNCHANGED <<routed, leaked>> /\ Registered' = {}
  BY DEF ClearReturns, Leave, OfflineInv, Registered
<1>2. routed' = leaked'
  BY <1>1 DEF RoutedBy, RoutesOK
<1> QED
  BY <1>1, <1>2 DEF KnowsItsId, IdleInv, ActivateInv, RollbackInv, OfflineInv, Expected

LEMMA LoopStep ==
  ASSUME Orderly, RegistryTypes, LoopInv, [RegistryNext]_registryVars
  PROVE  LoopInv'
BY RegisterKeeps, RegisterRaisesKeeps, RegisterFailsKeeps, UnregisterKeeps,
   ActivateHookKeeps, ActivateHookRaisesKeeps, DeactivateHookKeeps, FramesKeep,
   ClearReturnsKeeps DEF RegistryNext

RegistryInv == RegistryTypes /\ LoopInv

(* Between calls a registry's routes are those of its registered handlers if *)
(* it is bound and none if it is not, but for ids whose own on_deactivate    *)
(* raised, as long as the hooks keep to the order.                           *)
THEOREM RegistryCorrect ==
  Orderly /\ RegistrySpec => [](RoutesFollowRegistry /\ NothingRoutedOffline)
<1> SUFFICES ASSUME Orderly
             PROVE  RegistrySpec => [](RoutesFollowRegistry /\ NothingRoutedOffline)
  OBVIOUS
<1>1. RegistryInit => RegistryInv
  BY RegistryTypeInit, LoopInit DEF RegistryInv
<1>2. RegistryInv /\ [RegistryNext]_registryVars => RegistryInv'
  BY RegistryTypeStep, LoopStep DEF RegistryInv
<1>3. RegistryInv => RoutesFollowRegistry /\ NothingRoutedOffline
  BY DEF RegistryInv, LoopInv, IdleInv, RoutesFollowRegistry, NothingRoutedOffline, Expected
<1> QED
  BY <1>1, <1>2, <1>3, PTL DEF RegistrySpec, registryVars
=============================================================================
