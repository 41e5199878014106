-------------------------- MODULE MC_CountdownGate --------------------------
(* Instances of CountdownGate for TLC: a batch of three slots beside a search, *)
(* a seller lookup and a status call.                                          *)
EXTENDS CountdownGate, TLC

CONSTANTS batch, find, shop, ask, i1, i2, i3, h1, s1

\* The slots of a batch differ in nothing but their names.
Slots == Permutations({i1, i2, i3} \cap Unit)
KindOfCall == [c \in Call |-> CASE c = batch -> "items" [] c = find -> "search"
                               [] c = shop -> "seller" [] c = ask -> "status"]
CallOfUnit == [u \in Unit |-> CASE u \in {i1, i2, i3} -> batch [] u = h1 -> find [] u = s1 -> shop]

\* The absolute one is not below the plan's limit until a top-up.
ReservesTried == {[kind |-> "percent", figure |-> 25], [kind |-> "absolute", figure |-> 4]}
AccountAtStart == [used |-> 1, limit |-> 4]
=============================================================================
