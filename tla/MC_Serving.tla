----------------------------- MODULE MC_Serving -----------------------------
(* Instances of Serving for TLC. *)
EXTENDS Serving

CONSTANTS a, b, w1

\* Two requests, one with an expert cluster; startGeneration gives every
\* request the priority 0.
Two == {a, b}
OnlyA == {a}
OneWorker == {w1}
Priorities == [r \in Requests |-> 0]
Experts == [r \in Requests |-> IF r = a THEN {1} ELSE {}]
=============================================================================
