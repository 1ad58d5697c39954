--------------------------- MODULE MCCatalogService ---------------------------
(***************************************************************************)
(* Instances of CatalogService for TLC: one account or two, each with its  *)
(* own key, and the lists their other devices publish.                     *)
(***************************************************************************)
EXTENDS CatalogService, TLC

CONSTANTS a, b, k1, k2, c1, c2, m1

TwoKeys == (a :> k1) @@ (b :> k2)
OneKey == (a :> k1)

Both == <<[coordinate |-> c1, manifest |-> m1], [coordinate |-> c2, manifest |-> m1]>>
One == <<[coordinate |-> c1, manifest |-> m1]>>

JustNone == {<<>>}
JustOne == {One}
OneOrBoth == {One, Both}
===============================================================================
