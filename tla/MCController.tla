----------------------------- MODULE MCController -----------------------------
(***************************************************************************)
(* Instances of Controller for TLC.  Negative numbers cannot be written in  *)
(* a .cfg, so they are definitions here.                                    *)
(***************************************************************************)
EXTENDS Controller

MCIntegrMin == -20
MCDisplayMin == -99

(* What actionBeep says of itself: a key row without an action on the      *)
(* setpoint does not change the state of the machine.                      *)
BeepKeepsState == [][(\E e \in Events : Key(e)) => state' = state]_vars
=============================================================================
