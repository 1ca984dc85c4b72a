------------------------------- MODULE MCCircuit -------------------------------
(* TLC instance of Circuit. *)
EXTENDS Circuit, TLC

CONSTANTS a, b, d

Three == {a, b, d}
================================================================================
