------------------------------- MODULE PIDInt -------------------------------
(***************************************************************************)
(* utils/PID.hpp: the fixed-point PID regulator.  Its mutable state is a    *)
(* record [integral, prevError, hasPrev]; update() is a function of that    *)
(* state and its three arguments.                                           *)
(***************************************************************************)
EXTENDS CInt

CONSTANTS
    Kp, Ki, Kd,             \* coefficients, multiplied by SCALE
    OutMin, OutMax,         \* range of the result
    IntegrMin, IntegrMax,   \* anti-windup range of the integrator
    SampleTime,             \* nominal sampling period, ms
    Deadband,               \* errors of at most this size count as none
    IntMod                  \* number of values of an int32_t, 2^32

ASSUME PidAssumption ==
    /\ {Kp, Ki, Kd, OutMin, OutMax, IntegrMin, IntegrMax} \subseteq Int
    /\ OutMin <= OutMax
    /\ IntegrMin <= 0 /\ 0 <= IntegrMax
    /\ SampleTime \in Nat \ {0}
    /\ Deadband \in Nat
    /\ IntMod \in Nat /\ IntMod > 0

SCALE == 1000

Pids == [integral : IntegrMin..IntegrMax, prevError : Int, hasPrev : BOOLEAN]

(* reset(), and the state a PIDInt is constructed in.                      *)
ResetPid == [integral |-> 0, prevError |-> 0, hasPrev |-> FALSE]

(* Mutant of PidError: the operands are swapped.                           *)
MutErrorSwapped(setpoint, measured) ==
    LET error == measured - setpoint
    IN IF Deadband > 0 /\ Abs32(error) <= Deadband THEN 0 ELSE error

(* The error update() works with: 0 inside the dead band.                  *)
PidError(setpoint, measured) ==
    LET error == setpoint - measured
    IN IF Deadband > 0 /\ Abs32(error) <= Deadband THEN 0 ELSE error

(* Mutant of NewIntegral: the product is computed in 32 bits.              *)
MutNarrowProduct(pid, error, dt) ==
    LET increment == TruncDiv(ToSigned(error * dt, IntMod), SampleTime)
    IN Clamp(ToSigned(pid.integral + increment, IntMod), IntegrMin, IntegrMax)

(* The integrator after the step.  The int64 increment is cast to int32    *)
(* before it is added; the build adds with two's-complement wrap-around.   *)
NewIntegral(pid, error, dt) ==
    LET increment == ToSigned(TruncDiv(error * dt, SampleTime), IntMod)
    IN Clamp(ToSigned(pid.integral + increment, IntMod), IntegrMin, IntegrMax)

(* The derivative term is skipped on the first step after a reset.         *)
Derivative(pid, error, dt) ==
    IF pid.hasPrev
    THEN ToSigned(TruncDiv((error - pid.prevError) * SampleTime, dt), IntMod)
    ELSE 0

PidOutput(error, integral, derivative) ==
    Clamp(TruncDiv(Kp * error + Ki * integral + Kd * derivative, SCALE),
          OutMin, OutMax)

(* update(): the regulator's new state and the power it asks for.  dt = 0  *)
(* stands for the nominal period.                                          *)
PidUpdate(pid, setpoint, measured, dtMs) ==
    LET dt       == IF dtMs = 0 THEN SampleTime ELSE dtMs
        error    == PidError(setpoint, measured)
        integral == NewIntegral(pid, error, dt)
    IN [pid |-> [integral |-> integral, prevError |-> error, hasPrev |-> TRUE],
        out |-> PidOutput(error, integral, Derivative(pid, error, dt))]
=============================================================================
