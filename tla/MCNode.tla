------------------------------- MODULE MCNode -------------------------------
(* Instances of Node for TLC. *)
EXTENDS Node
CONSTANTS in1, out1
=============================================================================
