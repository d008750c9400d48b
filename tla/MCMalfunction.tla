---------------------------- MODULE MCMalfunction ----------------------------
(* The small instances of Malfunction for TLC: every constant is a number or a
   truth value and is given in the configurations. *)
EXTENDS Malfunction
=============================================================================
