---------------------------- MODULE MCRefImport ----------------------------
(* Lists of steps for small instances of RefImport, in the order of their      *)
(* weights: the full import, the changes by a query that names the node, and   *)
(* the changes as the scripts of the repository ask for them.                  *)
EXTENDS RefImport

CONSTANTS g1, i1, i2

MCOwner == [i \in Items |-> g1]

List(kinds, query) == [n \in DOMAIN kinds |-> [kind |-> kinds[n], query |-> query]]

AllKinds == <<"nomens", "add_units", "barcodes", "f_clients">>

GoodsLists == {List(<<"nomens", "add_units">>, q) : q \in {"all", "node"}}
ChangesLists == {List(AllKinds, "node")}
ShippedLists == {List(AllKinds, "knot")}
CountedLists == {List(AllKinds, "all")}
=============================================================================
