--------------------------------- MODULE Router ---------------------------------
(***************************************************************************)
(* The routing table of event_bus/router.py: handlers subscribe a bundle   *)
(* of patterns (Subscriptions), the bundle tells its router about every    *)
(* change by raising the version, and match() rebuilds the dispatch table  *)
(* when a version it has seen is out of date.                              *)
(*                                                                         *)
(* Nothing here awaits: every operation is one step.  What can go wrong is *)
(* that some order of operations leaves a table that is thought fresh and  *)
(* is not.                                                                 *)
(***************************************************************************)
EXTENDS Naturals, SequencesExt

CONSTANTS
  Ids,          \* handler ids
  Bundles,      \* Subscriptions objects
  BundlesOf,    \* BundlesOf[h]: the bundles handler h may subscribe
  EventNames,   \* names that may be declared in the event registry
  Patterns,     \* subscription patterns: [regex : BOOLEAN, text]
  FullMatch,    \* FullMatch[x]: the names the regular expression x matches
  Lists,        \* pattern lists that may be given to replace()
  MaxVersion    \* bound: no change is made once a version has reached it

ASSUME BundlesAssumption == BundlesOf \in [Ids -> SUBSET Bundles]
ASSUME PatternsAssumption ==
  /\ \A p \in Patterns : p.regex \in BOOLEAN
  /\ \A p \in Patterns : p.regex => FullMatch[p.text] \subseteq EventNames
  /\ Lists \subseteq Seq(Patterns)
ASSUME VersionAssumption == MaxVersion \in Nat

VARIABLES
  patterns,      \* Subscriptions._patterns of each bundle
  bound,         \* the bundles whose _router is this router
  routes,        \* _route_table as a sequence of [id, bundle], in dict order
  names,         \* the declared names of the event registry
  eventVersion,  \* EventRegistry._version
  version,       \* Router.version
  table,         \* _table: a function of the names seen by the last rebuild
  seen           \* has _rebuild run, and the versions it saw

routeVars == <<patterns, bound, routes, version>>
eventVars == <<names, eventVersion>>
cacheVars == <<table, seen>>
vars == <<routeVars, eventVars, cacheVars>>

Never == [built |-> FALSE, events |-> 0, routes |-> 0]   \* both versions are -1

Init ==
  /\ patterns = [b \in Bundles |-> <<>>]
  /\ bound = {} /\ routes = <<>> /\ version = 0
  /\ names = {} /\ eventVersion = 0
  /\ table = <<>> /\ seen = Never

Routed == {routes[i].id : i \in DOMAIN routes}
At(h) == CHOOSE i \in DOMAIN routes : routes[i].id = h
BundleOf(h) == routes[At(h)].bundle

-------------------------------------------------------------------------------
(* Subscriptions                                                             *)

(* A bound bundle raises the version of its router.                          *)
(* Mutant for TableIsCurrent: only a bundle with patterns left notifies.     *)
NotifyUnlessEmpty(b) ==
  version' = IF b \in bound /\ patterns'[b] # <<>> THEN version + 1 ELSE version
Notify(b) == version' = IF b \in bound THEN version + 1 ELSE version

Changes(b, list) ==
  /\ patterns' = [patterns EXCEPT ![b] = list]
  /\ Notify(b)
  /\ UNCHANGED <<bound, routes, eventVars, cacheVars>>

(* Regex compares equal to a str, and to a Regex, of the same text.          *)
Holds(b, p) == \E i \in DOMAIN patterns[b] : patterns[b][i].text = p.text
FirstOf(b, p, i) ==
  /\ patterns[b][i].text = p.text
  /\ \A j \in 1..(i - 1) : patterns[b][j].text # p.text

Add(b, p) ==
  /\ version < MaxVersion
  /\ ~Holds(b, p)
  /\ Changes(b, Append(patterns[b], p))

RemovePattern(b, p) ==
  /\ version < MaxVersion
  /\ \E i \in DOMAIN patterns[b] :
       FirstOf(b, p, i) /\ Changes(b, RemoveAt(patterns[b], i))

Replace(b, list) ==
  /\ version < MaxVersion
  /\ Changes(b, list)

-------------------------------------------------------------------------------
(* Router                                                                    *)

(* A dict keeps the place of a key whose value is replaced.                  *)
Reroute(h, b) == routes' = [routes EXCEPT ![At(h)].bundle = b]

Rebind(old, b) == bound' = (bound \ old) \cup {b}

(* Subscribing the bundle that is already there does nothing; another bundle *)
(* takes the place of the old one, which is unbound.                         *)
Subscribe(h, b) ==
  /\ version < MaxVersion
  /\ IF h \in Routed
       THEN /\ BundleOf(h) # b
            /\ Rebind({BundleOf(h)}, b)
            /\ Reroute(h, b)
       ELSE /\ Rebind({}, b)
            /\ routes' = Append(routes, [id |-> h, bundle |-> b])
  /\ version' = version + 1
  /\ UNCHANGED <<patterns, eventVars, cacheVars>>

Unsubscribe(h) ==
  /\ version < MaxVersion
  /\ h \in Routed
  /\ routes' = RemoveAt(routes, At(h))
  /\ bound' = bound \ {BundleOf(h)}
  /\ version' = version + 1
  /\ UNCHANGED <<patterns, eventVars, cacheVars>>

Clear ==
  /\ version < MaxVersion
  /\ bound' = bound \ {routes[i].bundle : i \in DOMAIN routes}
  /\ routes' = <<>>
  /\ version' = version + 1
  /\ UNCHANGED <<patterns, eventVars, cacheVars>>

(* EventRegistry.register raises for a declared name.                        *)
Declare(n) ==
  /\ eventVersion < MaxVersion
  /\ n \notin names
  /\ names' = names \cup {n}
  /\ eventVersion' = eventVersion + 1
  /\ UNCHANGED <<routeVars, cacheVars>>

(* Unregistering an unknown name does nothing.                               *)
Withdraw(n) ==
  /\ eventVersion < MaxVersion
  /\ n \in names
  /\ names' = names \ {n}
  /\ eventVersion' = eventVersion + 1
  /\ UNCHANGED <<routeVars, cacheVars>>

-------------------------------------------------------------------------------
(* _rebuild                                                                  *)

(* One entry per handler and pattern, in the order of the routes.            *)
Entries == FlattenSeq([i \in DOMAIN routes |->
  [j \in DOMAIN patterns[routes[i].bundle] |->
    [id |-> routes[i].id, pattern |-> patterns[routes[i].bundle][j]]]])

Hits(p, n) == IF p.regex THEN n \in FullMatch[p.text] ELSE p.text = n

(* Mutant for MatchIsExact: the same handler may be appended twice.          *)
AppendAlways(matched, e) == Append(matched, e.id)
AppendUnseen(matched, e) ==
  IF Contains(matched, e.id) THEN matched ELSE Append(matched, e.id)

(* Exact hits first, then regular expressions, each handler once.            *)
Scan(es, n, regex, before) ==
  FoldLeft(LAMBDA matched, e : IF e.pattern.regex = regex /\ Hits(e.pattern, n)
                                 THEN AppendUnseen(matched, e) ELSE matched,
           before, es)
Matched(es, n) == Scan(es, n, TRUE, Scan(es, n, FALSE, <<>>))
TableOf(es, declared) == [n \in declared |-> Matched(es, n)]
Rebuilt == TableOf(Entries, names)

Versions == [built |-> TRUE, events |-> eventVersion, routes |-> version]
Fresh == seen = Versions

(* match() and dispatch_table: _rebuild unless both versions are current.    *)
Match ==
  /\ ~Fresh
  /\ table' = Rebuilt
  /\ seen' = Versions
  /\ UNCHANGED <<routeVars, eventVars>>

Next ==
  \/ \E b \in Bundles, p \in Patterns : Add(b, p) \/ RemovePattern(b, p)
  \/ \E b \in Bundles, list \in Lists : Replace(b, list)
  \/ \E h \in Ids : \E b \in BundlesOf[h] : Subscribe(h, b)
  \/ \E h \in Ids : Unsubscribe(h)
  \/ Clear
  \/ \E n \in EventNames : Declare(n) \/ Withdraw(n)
  \/ Match

Spec == Init /\ [][Next]_vars

-------------------------------------------------------------------------------
(* Every variable has its type, and no id has two routes.                    *)
TypeOK ==
  /\ patterns \in [Bundles -> Seq(Patterns)]
  /\ bound \subseteq Bundles
  /\ routes \in Seq([id : Ids, bundle : Bundles])
  /\ \A i, j \in DOMAIN routes : routes[i].id = routes[j].id => i = j
  /\ version \in Nat
  /\ names \subseteq EventNames
  /\ eventVersion \in Nat
  /\ seen \in [built : BOOLEAN, events : Nat, routes : Nat]

(* A table that match() would use without rebuilding is the table it would   *)
(* build now, whatever sequence of changes to bundles, routes and event      *)
(* declarations came before (_ensure_fresh).                                 *)
TableIsCurrent == Fresh => table = Rebuilt

(* A bundle knows a router exactly while it is in its route table, so that   *)
(* a change of live patterns is never lost and a change of a withdrawn       *)
(* bundle never reaches the router (Subscriptions.bind and unbind).          *)
BoundIsRouted == bound = {routes[i].bundle : i \in DOMAIN routes}

(* What _rebuild means: a declared event goes to exactly the handlers with a *)
(* live pattern for it, to each of them once.                                *)
Subscribed(h, n) ==
  \E i \in DOMAIN routes : routes[i].id = h /\
    \E j \in DOMAIN patterns[routes[i].bundle] :
      LET p == patterns[routes[i].bundle][j] IN
      IF p.regex THEN n \in FullMatch[p.text] ELSE p.text = n
MatchIsExact ==
  Fresh => /\ DOMAIN table = names
           /\ \A n \in names : /\ ToSet(table[n]) = {h \in Ids : Subscribed(h, n)}
                               /\ Len(table[n]) = Cardinality(ToSet(table[n]))

(* The documented order of match(): handlers come in the order of their      *)
(* subscriptions (docstring of Router.match).                                *)
MatchInSubscriptionOrder ==
  Fresh => \A n \in names : \A i, j \in DOMAIN table[n] :
    i < j => \E k, l \in DOMAIN routes :
      k < l /\ routes[k].id = table[n][i] /\ routes[l].id = table[n][j]
=============================================================================
