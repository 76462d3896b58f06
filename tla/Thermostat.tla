------------------------------ MODULE Thermostat ------------------------------
(***************************************************************************)
(* What the controller promises about heating, without its states, its      *)
(* regulator, its clock or its display.  The heater is only ever driven by  *)
(* a new measurement; a measurement above the limit, and every touch of the *)
(* setpoint, switch it off until the next measurement.                      *)
(***************************************************************************)
EXTENDS Integers

CONSTANTS
    Default, Lowest, Highest, Step, \* the setpoint
    Delta,                          \* tolerated overheating
    Samples,                        \* possible measurements
    Levels                          \* levels of the heater, 0 is off

VARIABLES target, measured, heat

tvars == <<target, measured, heat>>

TInit == target = Default /\ measured = 0 /\ heat = 0

TooHot(t) == t > target + Delta

Measure(t) ==
    /\ measured' = t
    /\ heat' \in IF TooHot(t) THEN {0} ELSE Levels
    /\ UNCHANGED target

(* A touch moves the setpoint by one step or leaves it at its limit.       *)
Touch ==
    /\ target' \in Lowest..Highest
    /\ target' \in {target - Step, target + Step, Lowest, Highest}
    /\ heat' = 0
    /\ UNCHANGED measured

TNext == Touch \/ \E t \in Samples : Measure(t)

TSpec == TInit /\ [][TNext]_tvars
=============================================================================
