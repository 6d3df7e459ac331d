------------------------ MODULE MC_RequestLifecycle ------------------------
(* Instances of RequestLifecycle for TLC. *)
EXTENDS RequestLifecycle, TLC

CONSTANTS a, b, g
Texts == {a, b}
TextAndGraph == {a, g}
TextAndGraphs == {a, b, g}
OneGraph == {g}
OnlyA == {a}
OnlyB == {b}
None == {}
Interchangeable == Permutations({a, b})
=============================================================================
