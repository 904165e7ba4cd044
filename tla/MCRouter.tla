------------------------------- MODULE MCRouter -------------------------------
(* Small instances of Router for TLC.                                       *)
EXTENDS Router, TLC

CONSTANTS h1, h2, b1, b2, b3, e1, e2, anything

(* e1 as a name and as a regular expression, and one that matches all.      *)
Exact == [regex |-> FALSE, text |-> e1]
SameText == [regex |-> TRUE, text |-> e1]
Wild == [regex |-> TRUE, text |-> anything]
SomePatterns == {Exact, SameText, Wild}
SomeMatches == e1 :> {e1} @@ anything :> {e1, e2}
SomeLists == {<<Exact, Wild, Exact>>, <<Wild>>}

(* h1 has two bundles of its own, h2 one.                                   *)
OwnBundles == h1 :> {b1, b2} @@ h2 :> {b3}
=============================================================================
