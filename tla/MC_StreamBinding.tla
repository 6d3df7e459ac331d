-------------------------- MODULE MC_StreamBinding --------------------------
(* Instances of StreamBinding for TLC. *)
EXTENDS StreamBinding

CONSTANTS a, b

Two == {a, b}
OnlyA == {a}
\* Two generations, or a generation and an embedding.
AtMostB == {{}, {b}}
=============================================================================
