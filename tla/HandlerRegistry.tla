---------------------------- MODULE HandlerRegistry ----------------------------
(***************************************************************************)
(* EventHandlerRegistry (event_bus/handler.py) and the part of the route   *)
(* table it is responsible for: EventHandler.on_activate subscribes the    *)
(* handler's id at the router, on_deactivate withdraws it.                 *)
(*                                                                         *)
(* Nothing awaits, but activate() and deactivate() call a hook of every    *)
(* handler, and the hooks are application code: they may raise, before or  *)
(* after calling super(), and they may register and unregister handlers    *)
(* of the same registry.  An action is one hook of the loop, or one call   *)
(* of the registry, from outside or from inside a hook.                    *)
(*                                                                         *)
(* Left out: the registry's version, which nothing reads; hooks that call  *)
(* activate(), deactivate() or clear().  No name here is one of Router's,  *)
(* so that RoutingProofs can extend both.                                  *)
(***************************************************************************)
EXTENDS Naturals, FiniteSets

CONSTANTS
  Handlers,          \* handler instances
  RegistersIn,       \* frames whose hooks may register another handler
  UnregistersIn,     \* frames whose hooks may unregister a handler
  ActivateRaises,    \* may on_activate raise?
  DeactivateRaises,  \* may on_deactivate raise before it reaches super()?
  ForgetRaises,      \* may on_unregistered raise before it reaches super()?
  MaxIds             \* bound: ids issued

Frames == {"activate", "rollback", "deactivate", "clear"}

ASSUME FramesAssumption == RegistersIn \subseteq Frames /\ UnregistersIn \subseteq Frames
ASSUME RaisesAssumption ==
  /\ ActivateRaises \in BOOLEAN
  /\ DeactivateRaises \in BOOLEAN
  /\ ForgetRaises \in BOOLEAN
ASSUME MaxIdsAssumption == MaxIds \in Nat

None == 0

VARIABLES
  key,      \* _handlers, inverted: the id under which a handler is stored
  hid,      \* EventHandler._handler_id of each handler
  hasBus,   \* _bus is not None
  routed,   \* the ids this registry's handlers have in the route table
  frame,    \* the method whose hook loop is running, or "idle"
  todo,     \* handlers of the loop's snapshot whose hook has not been called
  visited,  \* handlers of the snapshot whose hook has been called
  issued,   \* ids issued so far
  leaked    \* history: routed ids whose on_deactivate raised

registryVars == <<key, hid, hasBus, routed, frame, todo, visited, issued, leaked>>

Registered == {h \in Handlers : key[h] # None}

RegistryInit ==
  /\ key = [h \in Handlers |-> None] /\ hid = [h \in Handlers |-> None]
  /\ hasBus = FALSE /\ routed = {} /\ leaked = {}
  /\ frame = "idle" /\ todo = {} /\ visited = {}
  /\ issued = 0

-------------------------------------------------------------------------------
(* The hooks of the base class                                               *)

(* on_activate subscribes the handler's id, if it has one.                   *)
AddRoute(id) ==
  /\ routed' = routed \cup ({id} \ {None})
  /\ leaked' = leaked \ {id}

(* on_deactivate withdraws it, unless it raises before super().              *)
(* Mutant for RoutesFollowRegistry: the handler forgets its id first.        *)
DropNothing(id) == UNCHANGED <<routed, leaked>>
DropRoute(id) ==
  \/ routed' = routed \ {id} /\ leaked' = leaked \ {id}
  \/ DeactivateRaises /\ UNCHANGED routed /\ leaked' = leaked \cup ({id} \cap routed)

(* on_unregistered clears the id, unless it raises before super().           *)
Forget(h) ==
  \/ hid' = [hid EXCEPT ![h] = None]
  \/ ForgetRaises /\ UNCHANGED hid

-------------------------------------------------------------------------------
(* register and unregister, from outside or from a hook of the loop          *)

(* uuid4().hex never repeats.                                                *)
FreshId == issued + 1

InHook == todo \cup visited # {}
MayCall(frames) == frame = "idle" \/ (frame \in frames /\ InHook)

Register(h) ==
  /\ MayCall(RegistersIn)
  /\ key[h] = None /\ issued < MaxIds
  /\ issued' = issued + 1
  /\ key' = [key EXCEPT ![h] = FreshId]
  /\ hid' = [hid EXCEPT ![h] = FreshId]
  /\ IF hasBus THEN AddRoute(FreshId) ELSE UNCHANGED <<routed, leaked>>
  /\ UNCHANGED <<hasBus, frame, todo, visited>>

(* on_registered raises, before or after it has stored the id.               *)
RegisterRaises(h) ==
  /\ MayCall(RegistersIn)
  /\ key[h] = None /\ issued < MaxIds
  /\ issued' = issued + 1
  /\ \/ Forget(h)
     \/ ForgetRaises /\ hid' = [hid EXCEPT ![h] = FreshId]
  /\ UNCHANGED <<key, hasBus, routed, frame, todo, visited, leaked>>

(* on_activate raises in register, before or after it has subscribed; the    *)
(* rollback withdraws the route (or fails to) and forgets the id.            *)
(* Mutant for RoutesFollowRegistry: register does not call on_deactivate.    *)
RolledBackWithoutDeactivate(id) == routed' \in {routed, routed \cup {id}} /\ UNCHANGED leaked
RolledBack(id) ==
  \/ UNCHANGED <<routed, leaked>>
  \/ DeactivateRaises /\ routed' = routed \cup {id} /\ leaked' = leaked \cup {id}

RegisterFails(h) ==
  /\ MayCall(RegistersIn)
  /\ key[h] = None /\ issued < MaxIds
  /\ hasBus /\ ActivateRaises
  /\ issued' = issued + 1
  /\ RolledBack(FreshId)
  /\ \/ Forget(h)
     \/ ForgetRaises /\ hid' = [hid EXCEPT ![h] = FreshId]
  /\ UNCHANGED <<key, hasBus, frame, todo, visited>>

Unregister(h) ==
  /\ MayCall(UnregistersIn)
  /\ key[h] # None
  /\ key' = [key EXCEPT ![h] = None]
  /\ IF hasBus THEN DropRoute(hid[h]) ELSE UNCHANGED <<routed, leaked>>
  /\ Forget(h)
  /\ UNCHANGED <<hasBus, frame, todo, visited, issued>>

-------------------------------------------------------------------------------
(* activate: bind, then on_activate of a snapshot of the handlers            *)

Enter(f) == frame' = f /\ todo' = Registered /\ visited' = {}
Leave == frame' = "idle" /\ todo' = {} /\ visited' = {}
Visit(h) == todo' = todo \ {h} /\ visited' = visited \cup {h}

Activate ==
  /\ frame = "idle" /\ ~hasBus
  /\ hasBus' = TRUE
  /\ Enter("activate")
  /\ UNCHANGED <<key, hid, routed, issued, leaked>>

ActivateHook(h) ==
  /\ frame = "activate" /\ h \in todo
  /\ AddRoute(hid[h])
  /\ Visit(h)
  /\ UNCHANGED <<key, hid, hasBus, frame, issued>>

(* Who is rolled back when h raises: all that were tried, h included.        *)
Tried(h) == visited \cup {h}

(* h raises, before or after it has subscribed: the registry is unbound.     *)
ActivateHookRaises(h) ==
  /\ ActivateRaises
  /\ frame = "activate" /\ h \in todo
  /\ AddRoute(hid[h]) \/ UNCHANGED <<routed, leaked>>
  /\ hasBus' = FALSE
  /\ frame' = "rollback" /\ todo' = Tried(h) /\ visited' = {}
  /\ UNCHANGED <<key, hid, issued>>

ActivateReturns ==
  /\ frame = "activate" /\ todo = {}
  /\ Leave
  /\ UNCHANGED <<key, hid, hasBus, routed, issued, leaked>>

(* One on_deactivate of the rollback, of deactivate or of clear.             *)
DeactivateHook(h) ==
  /\ frame \in {"rollback", "deactivate", "clear"} /\ h \in todo
  /\ DropRoute(hid[h])
  /\ Visit(h)
  /\ UNCHANGED <<key, hid, hasBus, frame, issued>>

RollbackReturns ==
  /\ frame = "rollback" /\ todo = {}
  /\ Leave
  /\ UNCHANGED <<key, hid, hasBus, routed, issued, leaked>>

-------------------------------------------------------------------------------
(* deactivate and clear                                                      *)

Deactivate ==
  /\ frame = "idle" /\ hasBus
  /\ Enter("deactivate")
  /\ UNCHANGED <<key, hid, hasBus, routed, issued, leaked>>

DeactivateReturns ==
  /\ frame = "deactivate" /\ todo = {}
  /\ hasBus' = FALSE
  /\ Leave
  /\ UNCHANGED <<key, hid, routed, issued, leaked>>

(* clear deactivates a bound registry, then forgets every handler.           *)
ClearHandlers ==
  /\ frame = "idle"
  /\ IF hasBus THEN Enter("clear") ELSE frame' = "clear" /\ UNCHANGED <<todo, visited>>
  /\ UNCHANGED <<key, hid, hasBus, routed, issued, leaked>>

ClearReturns ==
  /\ frame = "clear" /\ todo = {}
  /\ hasBus' = FALSE
  /\ key' = [h \in Handlers |-> None]
  /\ \E kept \in SUBSET (IF ForgetRaises THEN Registered ELSE {}) :
       hid' = [h \in Handlers |-> IF h \in Registered \ kept THEN None ELSE hid[h]]
  /\ Leave
  /\ UNCHANGED <<routed, issued, leaked>>

RegistryNext ==
  \/ \E h \in Handlers : \/ Register(h) \/ RegisterRaises(h) \/ RegisterFails(h)
                         \/ Unregister(h)
                         \/ ActivateHook(h) \/ ActivateHookRaises(h)
                         \/ DeactivateHook(h)
  \/ Activate \/ ActivateReturns \/ RollbackReturns
  \/ Deactivate \/ DeactivateReturns \/ ClearHandlers \/ ClearReturns

RegistrySpec == RegistryInit /\ [][RegistryNext]_registryVars

-------------------------------------------------------------------------------
(* Every variable has its type, and no two handlers are stored under one id. *)
RegistryTypeOK ==
  /\ key \in [Handlers -> 0..issued] /\ hid \in [Handlers -> 0..issued]
  /\ \A g, h \in Registered : key[g] = key[h] => g = h
  /\ hasBus \in BOOLEAN
  /\ frame \in Frames \cup {"idle"}
  /\ todo \subseteq Handlers /\ visited \subseteq Handlers
  /\ issued \in Nat
  /\ routed \subseteq 1..issued /\ leaked \subseteq routed

Expected == IF hasBus THEN {key[h] : h \in Registered} ELSE {}

(* Between calls exactly the registered handlers of a bound registry are     *)
(* routed, but for the ids whose own on_deactivate raised: activated is the  *)
(* same as routed, in every order of calls, nested calls and failures        *)
(* (docstrings of on_activate, register, activate).                          *)
RoutesFollowRegistry == frame = "idle" => routed = Expected \cup leaked

(* Half of the above: a registry that is off its bus leaves no ghost routes  *)
(* behind (docstring of activate: a failed activate withdraws what it did).  *)
NothingRoutedOffline == frame = "idle" /\ ~hasBus => routed \subseteq leaked
=============================================================================
