----------------------------- MODULE MiddlewareChain -----------------------------
(***************************************************************************)
(* MiddlewareChain (event_bus/middleware.py) between the buses that bind   *)
(* it in start() and stop(), the callers that change it, and the publishes *)
(* that build their chains from it.                                        *)
(*                                                                         *)
(* add, insert, remove, clear, setup and teardown await a hook of each     *)
(* middleware they concern, and other calls run meanwhile: an action is    *)
(* the code between two awaits.  A call in progress is a record of the     *)
(* hook loop it is in.  A hook that on_teardown raises is like one that    *)
(* returns: the chain logs it and goes on.                                 *)
(***************************************************************************)
EXTENDS Naturals, SequencesExt

CONSTANTS
  Middlewares,
  Callers,       \* tasks that call the chain
  Buses,         \* buses that were given this chain
  NoBus,         \* None in the place of a bus
  Chains,        \* the kinds of chain that are built and cached
  Overlapping,   \* steps during which other such steps may run
  Cancellable,   \* steps in which the calling task may be cancelled
  AddRaises,     \* may on_setup raise in add and insert?
  StartRaises    \* may on_setup raise in setup?

Steps == {"add", "undo", "remove", "clear", "setup", "rollback", "abort", "teardown"}

ASSUME NoBusAssumption == NoBus \notin Buses
ASSUME ChainsAssumption == Chains \subseteq {"before", "on", "on_error"}
ASSUME StepsAssumption == Overlapping \subseteq Steps /\ Cancellable \subseteq Steps
ASSUME RaisesAssumption == AddRaises \in BOOLEAN /\ StartRaises \in BOOLEAN

VARIABLES
  list,     \* _middlewares
  bus,      \* _bus
  cache,    \* _cached_before, _cached_on, _cached_on_error
  running,  \* buses that accept publishes
  started,  \* buses that ever accepted one; its on_publish may still be due
  op,       \* the call each caller is in
  live,     \* history: middlewares whose last finished hook, or a later
            \* unfinished one, is on_setup
  missed    \* history: middlewares of adds that failed or were cancelled since
            \* the cache was last dropped

vars == <<list, bus, cache, running, started, op, live, missed>>

(* A call: the step it is in, the bus whose start or stop it is, the         *)
(* middlewares of the loop still to do (the hook of the first is running),   *)
(* and those that setup has done.                                            *)
Call(step, b, todo, tried) == [step |-> step, bus |-> b, todo |-> todo, tried |-> tried]
Idle == Call("idle", NoBus, <<>>, <<>>)

None == <<>>

Init ==
  /\ list = <<>> /\ bus = NoBus
  /\ cache = [k \in Chains |-> None]
  /\ running = {} /\ started = {}
  /\ op = [c \in Callers |-> Idle]
  /\ live = {} /\ missed = {}

-------------------------------------------------------------------------------
(* Which calls may begin: those of Overlapping next to each other, any other *)
(* one alone, and no two on the same middleware.                             *)
Busy(c) == op[c] # Idle

MayCall(c, step) ==
  /\ ~Busy(c)
  /\ \A d \in Callers : Busy(d) => {step, op[d].step} \subseteq Overlapping

Untouched(m) == \A d \in Callers : op[d].step \in {"add", "undo", "remove"} => m # Head(op[d].todo)

(* start and stop of a bus hold its state lock.                              *)
Unlocked(b) == \A d \in Callers : op[d].bus # b

First(s) == IF s = <<>> THEN {} ELSE {Head(s)}
Continue(c, next) == op' = [op EXCEPT ![c] = next]
Return(c) == Continue(c, Idle)

(* The cache is dropped when the list has changed.                           *)
(* Mutant for CacheCurrent: it is not.                                       *)
KeepCache == UNCHANGED cache /\ missed' = {}
Invalidate == cache' = [k \in Chains |-> None] /\ missed' = {}

-------------------------------------------------------------------------------
(* add and insert                                                            *)

Unlisted(m) == m \notin ToSet(list)

Enlist(c, m, longer) ==
  /\ MayCall(c, "add") /\ Untouched(m)
  /\ Unlisted(m)
  /\ list' = longer
  /\ IF bus = NoBus
     THEN Invalidate /\ UNCHANGED <<op, live>>
     ELSE Continue(c, Call("add", NoBus, <<m>>, <<>>)) /\ live' = live \cup {m}
          /\ UNCHANGED <<cache, missed>>
  /\ UNCHANGED <<bus, running, started>>

Add(c, m) == Enlist(c, m, Append(list, m))
Insert(c, m, i) == Enlist(c, m, InsertAt(list, i, m))

Added(c) ==
  /\ op[c].step = "add"
  /\ live' = live \cup First(op[c].todo)
  /\ Invalidate
  /\ Return(c)
  /\ UNCHANGED <<list, bus, running, started>>

AddFails(c) ==
  /\ AddRaises
  /\ op[c].step = "add"
  /\ Continue(c, [op[c] EXCEPT !.step = "undo"])
  /\ UNCHANGED <<list, bus, cache, running, started, live, missed>>

(* The rollback has torn the middleware down.  The cache is left as it is.   *)
Undone(c) ==
  /\ op[c].step = "undo"
  /\ live' = live \ First(op[c].todo)
  /\ list' = RemoveFirst(list, Head(op[c].todo))
  /\ missed' = missed \cup First(op[c].todo)
  /\ Return(c)
  /\ UNCHANGED <<bus, cache, running, started>>

-------------------------------------------------------------------------------
(* remove and clear                                                          *)

RemoveCall(c, m) ==
  /\ MayCall(c, "remove") /\ Untouched(m)
  /\ m \in ToSet(list)
  /\ IF bus = NoBus
     THEN list' = RemoveFirst(list, m) /\ Invalidate /\ UNCHANGED op
     ELSE Continue(c, Call("remove", NoBus, <<m>>, <<>>)) /\ UNCHANGED <<list, cache, missed>>
  /\ UNCHANGED <<bus, running, started, live>>

Removed(c) ==
  /\ op[c].step = "remove"
  /\ live' = live \ First(op[c].todo)
  /\ list' = RemoveFirst(list, Head(op[c].todo))
  /\ Invalidate
  /\ Return(c)
  /\ UNCHANGED <<bus, running, started>>

(* The loop awaits only while the chain is bound; then the list is emptied,  *)
(* whatever it holds by now.                                                 *)
ClearFrom(c, todo) ==
  IF bus = NoBus \/ todo = <<>>
  THEN list' = <<>> /\ Invalidate /\ Return(c)
  ELSE Continue(c, Call("clear", NoBus, todo, <<>>)) /\ UNCHANGED <<list, cache, missed>>

Clear(c) ==
  /\ MayCall(c, "clear")
  /\ ClearFrom(c, list)
  /\ UNCHANGED <<bus, running, started, live>>

ClearedOne(c) ==
  /\ op[c].step = "clear"
  /\ live' = live \ First(op[c].todo)
  /\ ClearFrom(c, Tail(op[c].todo))
  /\ UNCHANGED <<bus, running, started>>

-------------------------------------------------------------------------------
(* setup, called by a start of b that has already opened publishing          *)

Start(c, b) ==
  /\ MayCall(c, "setup") /\ Unlocked(b)
  /\ b \notin running
  /\ running' = running \cup {b} /\ started' = started \cup {b}
  /\ IF bus # NoBus
     THEN Continue(c, Call("abort", b, <<>>, <<>>)) /\ UNCHANGED <<bus, live>>
     ELSE /\ bus' = b
          /\ live' = live \cup First(list)
          /\ IF list = <<>> THEN Return(c) ELSE Continue(c, Call("setup", b, list, <<>>))
  /\ UNCHANGED <<list, cache, missed>>

SetUpOne(c) ==
  LET m == Head(op[c].todo)
      rest == Tail(op[c].todo) IN
  /\ op[c].step = "setup"
  /\ live' = live \cup {m} \cup First(rest)
  /\ IF rest = <<>> THEN Return(c)
     ELSE Continue(c, Call("setup", op[c].bus, rest, Append(op[c].tried, m)))
  /\ UNCHANGED <<list, bus, cache, running, started, missed>>

(* Who is rolled back, last first: all that were tried, the failing one too. *)
(* Mutant for HooksPaired and SetUpOnce: only the failing one.               *)
FailedOnly(call) == <<Head(call.todo)>>
Attempted(call) == Reverse(Append(call.tried, Head(call.todo)))

StartFails(c) ==
  /\ StartRaises
  /\ op[c].step = "setup"
  /\ bus' = NoBus
  /\ Continue(c, Call("rollback", op[c].bus, Attempted(op[c]), <<>>))
  /\ UNCHANGED <<list, cache, running, started, live, missed>>

RolledBackOne(c) ==
  LET rest == Tail(op[c].todo) IN
  /\ op[c].step = "rollback"
  /\ live' = live \ First(op[c].todo)
  /\ Continue(c, Call(IF rest = <<>> THEN "abort" ELSE "rollback", op[c].bus, rest, <<>>))
  /\ UNCHANGED <<list, bus, cache, running, started, missed>>

-------------------------------------------------------------------------------
(* teardown, called by stop and by the abort of a failed start.  It does not *)
(* look at which bus the chain is bound to.                                  *)

Teardown(c, b) ==
  /\ bus' = NoBus
  /\ IF bus = NoBus \/ list = <<>> THEN Return(c)
     ELSE Continue(c, Call("teardown", b, Reverse(list), <<>>))

(* Mutant for ChainFollowsBus: a failed start forgets that it is running.    *)
AbortKeepingOpen(c) ==
  /\ op[c].step = "abort"
  /\ Teardown(c, op[c].bus)
  /\ UNCHANGED <<list, cache, started, live, running, missed>>
Abort(c) ==
  /\ op[c].step = "abort"
  /\ running' = running \ {op[c].bus}
  /\ Teardown(c, op[c].bus)
  /\ UNCHANGED <<list, cache, started, live, missed>>

Stop(c, b) ==
  /\ MayCall(c, "teardown") /\ Unlocked(b)
  /\ b \in running
  /\ running' = running \ {b}
  /\ Teardown(c, b)
  /\ UNCHANGED <<list, cache, started, live, missed>>

TornDownOne(c) ==
  LET rest == Tail(op[c].todo) IN
  /\ op[c].step = "teardown"
  /\ live' = live \ First(op[c].todo)
  /\ IF rest = <<>> THEN Return(c) ELSE Continue(c, [op[c] EXCEPT !.todo = rest])
  /\ UNCHANGED <<list, bus, cache, running, started, missed>>

-------------------------------------------------------------------------------
(* Every except clause of the chain is for Exception, which a cancellation   *)
(* is not.                                                                   *)
Cancel(c) ==
  /\ op[c].step \in Cancellable
  /\ Return(c)
  /\ missed' = IF op[c].step \in {"add", "undo"} THEN missed \cup First(op[c].todo) ELSE missed
  /\ UNCHANGED <<list, bus, cache, running, started, live>>

(* A publish of b builds a chain: the before chain ends in b's _core_publish,*)
(* the others in a function of no bus.  A publish that is under way when b   *)
(* stops builds the others later.                                            *)
Build(k, b) ==
  /\ b \in (IF k = "before" THEN running ELSE started)
  /\ cache[k] = None
  /\ cache' = [cache EXCEPT ![k] = <<list, IF k = "before" THEN b ELSE NoBus>>]
  /\ UNCHANGED <<list, bus, running, started, op, live, missed>>

Next ==
  \/ \E c \in Callers, m \in Middlewares :
       \/ Add(c, m)
       \/ \E i \in 1..Len(list) : Insert(c, m, i)
       \/ RemoveCall(c, m)
  \/ \E c \in Callers : \/ Added(c) \/ AddFails(c) \/ Undone(c)
                        \/ Removed(c) \/ Clear(c) \/ ClearedOne(c)
                        \/ SetUpOne(c) \/ StartFails(c) \/ RolledBackOne(c)
                        \/ Abort(c) \/ TornDownOne(c) \/ Cancel(c)
  \/ \E c \in Callers, b \in Buses : Start(c, b) \/ Stop(c, b)
  \/ \E k \in Chains, b \in Buses : Build(k, b)

Spec == Init /\ [][Next]_vars

-------------------------------------------------------------------------------
NoRepeat(s) == \A i, j \in DOMAIN s : s[i] = s[j] => i = j

(* Every variable has its type: no middleware is listed twice, and a call    *)
(* that is in a hook has the middleware whose hook it is.                    *)
TypeOK ==
  /\ list \in Seq(Middlewares) /\ NoRepeat(list)
  /\ bus \in Buses \cup {NoBus}
  /\ \A k \in Chains : cache[k] = None \/ cache[k] \in Seq(Middlewares) \X (Buses \cup {NoBus})
  /\ running \subseteq started /\ started \subseteq Buses
  /\ live \subseteq Middlewares /\ missed \subseteq Middlewares
  /\ \A c \in Callers :
       /\ op[c].step \in Steps \cup {"idle"} /\ op[c].bus \in Buses \cup {NoBus}
       /\ op[c].todo \in Seq(Middlewares) /\ op[c].tried \in Seq(Middlewares)
       /\ op[c].step \notin {"idle", "abort"} => op[c].todo # <<>>

Quiet == \A c \in Callers : ~Busy(c)

(* Two lists are the same apart from X when the same members outside X are   *)
(* in the same order: in s, a is b or comes before it.                       *)
Precedes(s, a, b) == \E i, j \in DOMAIN s : i <= j /\ s[i] = a /\ s[j] = b
SameBut(X, s, t) ==
  \A a, b \in Middlewares \ X : Precedes(s, a, b) <=> Precedes(t, a, b)

(* When no call is in progress, a publish goes through the listed            *)
(* middlewares, each once and in their order (docs/en-US/middleware.md, Hot  *)
(* Reload: changes take effect on the next publish), except that one whose   *)
(* add failed or was cancelled may be in the list or in the chain without    *)
(* being in both: these paths do not drop the cache.                         *)
CacheCurrent ==
  Quiet => \A k \in Chains : cache[k] # None =>
             NoRepeat(cache[k][1]) /\ SameBut(missed, cache[k][1], list)

(* When no call is in progress, the middlewares that are set up are those of *)
(* a bound chain: on_setup and on_teardown come in pairs, whatever was       *)
(* added, inserted, removed, cleared or rolled back meanwhile.               *)
HooksPaired == Quiet => live = IF bus = NoBus THEN {} ELSE ToSet(list)

(* When no call is in progress, a running bus has its chain bound to it.     *)
ChainFollowsBus == Quiet => \A b \in running : bus = b

(* on_setup is never called on a middleware that is already set up.          *)
SettingUp(call) == IF call.step \in {"add", "setup"} THEN First(call.todo) ELSE {}
SetUpOnce ==
  [][\A c \in Callers : SettingUp(op'[c]) \cap live \subseteq SettingUp(op[c])]_vars

(* The publishes of a running bus reach that bus (build_before_publish).     *)
EndsInOwnBus ==
  \A b \in running, k \in Chains \cap {"before"} :
     bus = b /\ cache[k] # None => cache[k][2] = b
=============================================================================
