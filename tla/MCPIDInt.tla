------------------------------- MODULE MCPIDInt -------------------------------
(***************************************************************************)
(* The regulator on its own: any sequence of samples, setpoints, intervals  *)
(* and resets, with the coefficients of config.h.                           *)
(***************************************************************************)
EXTENDS PIDInt

CONSTANTS
    Setpoints, Samples,
    Intervals,      \* what update() is given as dt_ms
    ErrorMax,       \* bound: no setpoint and sample differ by more
    IntervalMax     \* bound: the longest interval

(* What keeps every cast within an int32_t: no increment of the integrator *)
(* and no slope reaches half its values.  No coefficient is negative.      *)
ASSUME WidthAssumption ==
    /\ Setpoints \subseteq Int /\ Samples \subseteq Int
    /\ ErrorMax \in Nat /\ IntervalMax \in Nat
    /\ \A sp \in Setpoints, t \in Samples : -ErrorMax <= sp - t /\ sp - t <= ErrorMax
    /\ Intervals \subseteq 1..IntervalMax
    /\ Kp >= 0 /\ Ki >= 0 /\ Kd >= 0
    /\ 2 * ((ErrorMax * IntervalMax) \div SampleTime + IntegrMax - IntegrMin) < IntMod
    /\ 4 * ErrorMax * SampleTime < IntMod

VARIABLES regulator, power

pvars == <<regulator, power>>

MCIntegrMin == -20
MCSamples == {-99, 380, 399, 400, 402, 425}

PInit == regulator = ResetPid /\ power = 0

Update ==
    \E sp \in Setpoints, t \in Samples, dt \in Intervals :
        LET step == PidUpdate(regulator, sp, t, dt)
        IN regulator' = step.pid /\ power' = step.out

Reset == regulator' = ResetPid /\ UNCHANGED power

PNext == Update \/ Reset
PSpec == PInit /\ [][PNext]_pvars

(* update() without a machine: exact integers, truncated only where the    *)
(* code divides.                                                           *)
Exact(p, sp, t, dt) ==
    LET e    == PidError(sp, t)
        i    == Clamp(p.integral + TruncDiv(e * dt, SampleTime), IntegrMin, IntegrMax)
        d    == IF p.hasPrev THEN TruncDiv((e - p.prevError) * SampleTime, dt) ELSE 0
        want == TruncDiv(Kp * e + Ki * i + Kd * d, SCALE)
    IN [pid |-> [integral |-> i, prevError |-> e, hasPrev |-> TRUE],
        out |-> IF want < OutMin THEN OutMin ELSE IF want > OutMax THEN OutMax ELSE want]

(* The casts to int32_t lose nothing: in every reachable state and for all *)
(* inputs the fixed-point step is the exact one, although the product of   *)
(* error and interval exceeds the width of an int32_t.                     *)
CastsAreExact ==
    \A sp \in Setpoints, t \in Samples, dt \in Intervals :
        PidUpdate(regulator, sp, t, dt) = Exact(regulator, sp, t, dt)

(* A colder sample never gets less heat, from any reachable memory of the  *)
(* regulator: truncation, dead band, clamping and the derivative keep the  *)
(* order of the samples.                                                   *)
ColderNotLess ==
    \A sp \in Setpoints, t, u \in Samples, dt \in Intervals :
        t <= u => PidUpdate(regulator, sp, t, dt).out >= PidUpdate(regulator, sp, u, dt).out
=============================================================================
