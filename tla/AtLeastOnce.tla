------------------------------ MODULE AtLeastOnce ------------------------------
(***************************************************************************)
(* What an event queue with acknowledgements promises a bus: an event that *)
(* was accepted is given to the handlers before it is settled, and is kept *)
(* until then, however often it has to be given.                           *)
(***************************************************************************)
CONSTANT Events

VARIABLES
  accepted,  \* events that the queue has taken over
  given,     \* events that went to the handlers, once or more
  settled    \* events that the queue has forgotten

vars == <<accepted, given, settled>>

Init == accepted = {} /\ given = {} /\ settled = {}

Accept(e) == e \notin accepted /\ accepted' = accepted \cup {e} /\ UNCHANGED <<given, settled>>
Give(e) == e \in accepted \ settled /\ given' = given \cup {e} /\ UNCHANGED <<accepted, settled>>
Settle(e) == e \in given /\ settled' = settled \cup {e} /\ UNCHANGED <<accepted, given>>

Spec == Init /\ [][\E e \in Events : Accept(e) \/ Give(e) \/ Settle(e)]_vars
===============================================================================
