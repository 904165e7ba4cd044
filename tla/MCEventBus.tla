------------------------------ MODULE MCEventBus ------------------------------
(* Small instances of EventBus for TLC.                                     *)
EXTENDS BusDelivers, TLC

CONSTANTS p1, p2, h1, h2, u, shutdown, task_error, bus

(* One handler of the user event and one of the TaskError event.            *)
RouteSplit == u :> {h1} @@ task_error :> {h2} @@ shutdown :> {}
(* Two handlers of the user event, no handler of TaskError.                 *)
RoutePair == u :> {h1, h2} @@ task_error :> {} @@ shutdown :> {}

Symmetry == Permutations(Publishers)
=============================================================================
