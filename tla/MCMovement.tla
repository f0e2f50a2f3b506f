---------------------------- MODULE MCMovement ----------------------------
(* Movement on a small instance: see the MCMovement*.cfg files. *)
EXTENDS Movement

(* Every hook whose nested moves the walk tolerates. *)
OutsideTheWindow == Hooks \ WindowHooks

(* The objects are interchangeable. *)
Symmetry == Permutations(Object)
=============================================================================
