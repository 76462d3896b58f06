---------------------------- MODULE RegulatorProofs ----------------------------
(***************************************************************************)
(* What the regulator promises over any history of samples, setpoints,      *)
(* intervals and resets: its casts lose nothing, and a colder sample never  *)
(* gets less heat - for every width, every coefficient that is not          *)
(* negative and every dead band.                                            *)
(***************************************************************************)
EXTENDS MCPIDInt, PIDIntProofs

(* The regulator remembers an error that some sample had.                  *)
Remembers(p) == p \in Pids /\ -ErrorMax <= p.prevError /\ p.prevError <= ErrorMax
RegulatorInv == Remembers(regulator)
-----------------------------------------------------------------------------
(* Products keep order and magnitude.                                      *)
LEMMA ProductMonotone ==
    ASSUME NEW a \in Int, NEW c \in Int, NEW b \in Nat, a <= c
    PROVE  a * b \in Int /\ c * b \in Int /\ a * b <= c * b
  <1>1. (c - a) * b >= 0
    OBVIOUS
  <1>2. (c - a) * b = c * b - a * b
    OBVIOUS
  <1> QED
    BY <1>1, <1>2

LEMMA ProductBound ==
    ASSUME NEW a \in Int, NEW n \in Nat, -n <= a, a <= n,
           NEW b \in Nat, NEW m \in Nat, b <= m
    PROVE  a * b \in Int /\ n * m \in Nat /\ -(n * m) <= a * b /\ a * b <= n * m
  <1>1. a * b <= n * b
    BY ProductMonotone
  <1>2. (-n) * b <= a * b
    BY ProductMonotone
  <1>3. b * n <= m * n
    BY ProductMonotone
  <1>4. n * b = b * n /\ n * m = m * n /\ (-n) * b = -(n * b)
    OBVIOUS
  <1>5. a * b \in Int /\ n * b \in Int /\ n * m \in Nat
    OBVIOUS
  <1> QED
    BY <1>1, <1>2, <1>3, <1>4, <1>5
-----------------------------------------------------------------------------
(* The inputs are integers, the intervals are not 0, and the errors stay   *)
(* within ErrorMax.                                                        *)
LEMMA Inputs ==
    ASSUME NEW sp \in Setpoints, NEW t \in Samples, NEW dt \in Intervals
    PROVE  /\ sp \in Int /\ t \in Int
           /\ dt \in Nat \ {0} /\ dt <= IntervalMax
           /\ PidError(sp, t) \in Int
           /\ -ErrorMax <= PidError(sp, t) /\ PidError(sp, t) <= ErrorMax
  <1>1. sp \in Int /\ t \in Int /\ ErrorMax \in Nat
    BY WidthAssumption
  <1>2. dt \in 1..IntervalMax /\ IntervalMax \in Nat
    BY WidthAssumption
  <1>3. -ErrorMax <= sp - t /\ sp - t <= ErrorMax
    BY WidthAssumption
  <1>4. -ErrorMax <= PidError(sp, t) /\ PidError(sp, t) <= ErrorMax
    BY <1>1, <1>3, PidErrorBound
  <1> QED
    BY <1>1, <1>2, <1>4, PidErrorInt

(* The integrator needs no cast.                                           *)
LEMMA IntegralExact ==
    ASSUME NEW p \in Pids, NEW dt \in Nat \ {0}, dt <= IntervalMax,
           NEW e \in Int, -ErrorMax <= e, e <= ErrorMax
    PROVE  NewIntegral(p, e, dt) =
             Clamp(p.integral + TruncDiv(e * dt, SampleTime), IntegrMin, IntegrMax)
  <1> DEFINE i     == p.integral
             most  == (ErrorMax * IntervalMax) \div SampleTime
             added == TruncDiv(e * dt, SampleTime)
  <1>1. /\ ErrorMax \in Nat /\ IntervalMax \in Nat /\ SampleTime \in Nat \ {0}
        /\ IntMod \in Nat /\ IntMod > 0
        /\ IntegrMin \in Int /\ IntegrMax \in Int /\ IntegrMin <= 0 /\ 0 <= IntegrMax
    BY WidthAssumption, PidAssumption, PidConstants
  <1>2. i \in Int /\ IntegrMin <= i /\ i <= IntegrMax
    BY <1>1 DEF Pids
  <1>3. /\ e * dt \in Int /\ ErrorMax * IntervalMax \in Nat
        /\ -(ErrorMax * IntervalMax) <= e * dt /\ e * dt <= ErrorMax * IntervalMax
    BY <1>1, ProductBound
  <1>4. -most <= added /\ added <= most
    BY <1>1, <1>3, TruncDivBound
  <1>5. added \in Int /\ most \in Nat
    BY <1>1, <1>3, TruncDivInt, DivFacts
  <1>6. 2 * (most + IntegrMax - IntegrMin) < IntMod
    BY WidthAssumption
  <1> HIDE DEF i, most, added
  <1>7. /\ -IntMod < 2 * added /\ 2 * added < IntMod
        /\ -IntMod < 2 * (i + added) /\ 2 * (i + added) < IntMod
    BY <1>1, <1>2, <1>4, <1>5, <1>6
  <1>8. ToSigned(added, IntMod) = added
    BY <1>1, <1>5, <1>7, ToSignedExact
  <1>9. ToSigned(i + added, IntMod) = i + added
    BY <1>1, <1>2, <1>5, <1>7, ToSignedExact
  <1> QED
    BY <1>8, <1>9 DEF NewIntegral, i, added

(* Nor does the derivative.                                                *)
LEMMA DerivativeExact ==
    ASSUME NEW p, Remembers(p), NEW dt \in Nat \ {0},
           NEW e \in Int, -ErrorMax <= e, e <= ErrorMax
    PROVE  /\ (e - p.prevError) * SampleTime \in Int
           /\ Derivative(p, e, dt) =
                IF p.hasPrev THEN TruncDiv((e - p.prevError) * SampleTime, dt) ELSE 0
  <1> DEFINE slope == (e - p.prevError) * SampleTime
             most  == (2 * ErrorMax) * SampleTime
             d     == TruncDiv(slope, dt)
  <1>1. /\ ErrorMax \in Nat /\ SampleTime \in Nat \ {0} /\ IntMod \in Nat /\ IntMod > 0
    BY WidthAssumption, PidAssumption
  <1>2. p.prevError \in Int /\ -ErrorMax <= p.prevError /\ p.prevError <= ErrorMax
    BY DEF Remembers, Pids
  <1>3. /\ e - p.prevError \in Int /\ 2 * ErrorMax \in Nat
        /\ -(2 * ErrorMax) <= e - p.prevError /\ e - p.prevError <= 2 * ErrorMax
    BY <1>1, <1>2
  <1>4. slope \in Int /\ most \in Nat /\ -most <= slope /\ slope <= most
    BY <1>1, <1>3, ProductBound
  <1>5. 2 * most < IntMod
    <2>1. 4 * ErrorMax * SampleTime < IntMod
      BY WidthAssumption
    <2>2. 4 * ErrorMax * SampleTime = 2 * most
      BY <1>1
    <2> QED
      BY <2>1, <2>2
  <1> HIDE DEF slope, most
  <1>6. -(most \div dt) <= d /\ d <= most \div dt
    BY <1>4, TruncDivBound
  <1>7. most \div dt \in Nat /\ most \div dt <= most
    BY <1>4
  <1>8. d \in Int
    BY <1>4, TruncDivInt
  <1> HIDE DEF d
  <1>9. -IntMod < 2 * d /\ 2 * d < IntMod
    BY <1>1, <1>4, <1>5, <1>6, <1>7, <1>8
  <1>10. ToSigned(d, IntMod) = d
    BY <1>1, <1>8, <1>9, ToSignedExact
  <1> QED
    BY <1>4, <1>10 DEF Derivative, d, slope
-----------------------------------------------------------------------------
(* The memory of the regulator is always of an error within ErrorMax.      *)
THEOREM RegulatorInvariance == PSpec => []RegulatorInv
  <1>1. PInit => RegulatorInv
    BY ResetPidType, WidthAssumption DEF PInit, RegulatorInv, Remembers, ResetPid
  <1>2. RegulatorInv /\ [PNext]_pvars => RegulatorInv'
    <2> SUFFICES ASSUME RegulatorInv, [PNext]_pvars
                 PROVE  RegulatorInv'
      OBVIOUS
    <2>1. CASE Update
      <3>1. PICK sp \in Setpoints, t \in Samples, dt \in Intervals :
              regulator' = PidUpdate(regulator, sp, t, dt).pid
        BY <2>1 DEF Update
      <3>2. regulator' \in Pids
        BY <3>1, Inputs, PidUpdateRange DEF RegulatorInv, Remembers
      <3>3. regulator'.prevError = PidError(sp, t)
        BY <3>1, PidUpdateMemory
      <3> QED
        BY <3>2, <3>3, Inputs DEF RegulatorInv, Remembers
    <2>2. CASE Reset
      BY <2>2, ResetPidType, WidthAssumption DEF Reset, RegulatorInv, Remembers, ResetPid
    <2>3. CASE UNCHANGED pvars
      BY <2>3 DEF pvars, RegulatorInv
    <2> QED
      BY <2>1, <2>2, <2>3 DEF PNext
  <1> QED
    BY <1>1, <1>2, PTL DEF PSpec

(* One step, written out with exact integers.                              *)
LEMMA ExactStep ==
    ASSUME RegulatorInv, NEW sp \in Setpoints, NEW t \in Samples, NEW dt \in Intervals
    PROVE  PidUpdate(regulator, sp, t, dt) = Exact(regulator, sp, t, dt)
  <1> DEFINE e == PidError(sp, t)
             i == NewIntegral(regulator, e, dt)
             d == Derivative(regulator, e, dt)
  <1>1. dt # 0 /\ regulator \in Pids /\ Remembers(regulator)
    BY Inputs DEF RegulatorInv, Remembers
  <1>2. i = Clamp(regulator.integral + TruncDiv(e * dt, SampleTime), IntegrMin, IntegrMax)
    BY <1>1, Inputs, IntegralExact
  <1>3. d = IF regulator.hasPrev
            THEN TruncDiv((e - regulator.prevError) * SampleTime, dt) ELSE 0
    BY <1>1, Inputs, DerivativeExact
  <1>4. PidUpdate(regulator, sp, t, dt) =
          [pid |-> [integral |-> i, prevError |-> e, hasPrev |-> TRUE],
           out |-> PidOutput(e, i, d)]
    BY <1>1 DEF PidUpdate
  <1> HIDE DEF e, i, d
  <1>5. PidOutput(e, i, d) =
          LET want == TruncDiv(Kp * e + Ki * i + Kd * d, SCALE)
          IN IF want < OutMin THEN OutMin ELSE IF want > OutMax THEN OutMax ELSE want
    BY DEF PidOutput, Clamp
  <1> QED
    BY <1>2, <1>3, <1>4, <1>5 DEF Exact, e

(* The casts to int32_t of update() lose nothing, whatever the history of  *)
(* the regulator: it computes what exact integers would.                   *)
THEOREM StepsAreExact == PSpec => []CastsAreExact
  <1>1. RegulatorInv => CastsAreExact
    BY ExactStep DEF CastsAreExact
  <1> QED
    BY <1>1, RegulatorInvariance, PTL
-----------------------------------------------------------------------------
(* Each term of the sum keeps the order of the errors.                     *)
LEMMA TermsMonotone ==
    ASSUME NEW p, Remembers(p), NEW dt \in Nat \ {0}, dt <= IntervalMax,
           NEW e \in Int, -ErrorMax <= e, e <= ErrorMax,
           NEW f \in Int, -ErrorMax <= f, f <= ErrorMax, f <= e
    PROVE  /\ NewIntegral(p, f, dt) \in Int /\ NewIntegral(p, e, dt) \in Int
           /\ NewIntegral(p, f, dt) <= NewIntegral(p, e, dt)
           /\ Derivative(p, f, dt) \in Int /\ Derivative(p, e, dt) \in Int
           /\ Derivative(p, f, dt) <= Derivative(p, e, dt)
  <1>1. /\ SampleTime \in Nat \ {0}
        /\ IntegrMin \in Int /\ IntegrMax \in Int /\ IntegrMin <= IntegrMax
    BY PidAssumption, PidConstants
  <1>2. p \in Pids /\ p.integral \in Int /\ p.prevError \in Int
    BY <1>1 DEF Remembers, Pids
  <1>3. /\ NewIntegral(p, f, dt) \in Int /\ NewIntegral(p, e, dt) \in Int
        /\ NewIntegral(p, f, dt) <= NewIntegral(p, e, dt)
    <2> DEFINE x == TruncDiv(f * dt, SampleTime)
               y == TruncDiv(e * dt, SampleTime)
    <2>1. f * dt \in Int /\ e * dt \in Int /\ f * dt <= e * dt
      BY ProductMonotone
    <2>2. x \in Int /\ y \in Int /\ x <= y
      BY <1>1, <2>1, TruncDivInt, TruncDivMonotone
    <2>3. /\ NewIntegral(p, f, dt) = Clamp(p.integral + x, IntegrMin, IntegrMax)
          /\ NewIntegral(p, e, dt) = Clamp(p.integral + y, IntegrMin, IntegrMax)
      BY <1>2, IntegralExact
    <2> HIDE DEF x, y
    <2>4. p.integral + x \in Int /\ p.integral + y \in Int /\ p.integral + x <= p.integral + y
      BY <1>2, <2>2
    <2>5. /\ Clamp(p.integral + x, IntegrMin, IntegrMax) \in IntegrMin..IntegrMax
          /\ Clamp(p.integral + y, IntegrMin, IntegrMax) \in IntegrMin..IntegrMax
      BY <1>1, <2>4, ClampRange
    <2>6. Clamp(p.integral + x, IntegrMin, IntegrMax)
            <= Clamp(p.integral + y, IntegrMin, IntegrMax)
      BY <1>1, <2>4, ClampMonotone
    <2> QED
      BY <1>1, <2>3, <2>5, <2>6
  <1>4. /\ Derivative(p, f, dt) \in Int /\ Derivative(p, e, dt) \in Int
        /\ Derivative(p, f, dt) <= Derivative(p, e, dt)
    <2> DEFINE a == (f - p.prevError) * SampleTime
               b == (e - p.prevError) * SampleTime
    <2>1. a \in Int /\ b \in Int /\ a <= b
      <3>1. f - p.prevError \in Int /\ e - p.prevError \in Int
            /\ f - p.prevError <= e - p.prevError
        BY <1>2
      <3> QED
        BY <1>1, <3>1, ProductMonotone
    <2>2. /\ Derivative(p, f, dt) = IF p.hasPrev THEN TruncDiv(a, dt) ELSE 0
          /\ Derivative(p, e, dt) = IF p.hasPrev THEN TruncDiv(b, dt) ELSE 0
      BY DerivativeExact
    <2> HIDE DEF a, b
    <2>3. TruncDiv(a, dt) \in Int /\ TruncDiv(b, dt) \in Int /\ TruncDiv(a, dt) <= TruncDiv(b, dt)
      BY <2>1, TruncDivInt, TruncDivMonotone
    <2> QED
      BY <2>2, <2>3
  <1> QED
    BY <1>3, <1>4

(* And so does what update() makes of them.                                *)
LEMMA OutputMonotone ==
    ASSUME NEW e \in Int, NEW f \in Int, f <= e,
           NEW i \in Int, NEW j \in Int, j <= i,
           NEW d \in Int, NEW c \in Int, c <= d
    PROVE  PidOutput(f, j, c) <= PidOutput(e, i, d)
  <1> DEFINE low  == Kp * f + Ki * j + Kd * c
             high == Kp * e + Ki * i + Kd * d
  <1>1. Kp \in Nat /\ Ki \in Nat /\ Kd \in Nat
    BY PidConstants, WidthAssumption
  <1>2. /\ f * Kp \in Int /\ e * Kp \in Int /\ f * Kp <= e * Kp
        /\ j * Ki \in Int /\ i * Ki \in Int /\ j * Ki <= i * Ki
        /\ c * Kd \in Int /\ d * Kd \in Int /\ c * Kd <= d * Kd
    BY <1>1, ProductMonotone
  <1>3. /\ low = f * Kp + j * Ki + c * Kd
        /\ high = e * Kp + i * Ki + d * Kd
    BY <1>1
  <1>4. low \in Int /\ high \in Int /\ low <= high
    BY <1>2, <1>3
  <1> HIDE DEF low, high
  <1>5. /\ TruncDiv(low, SCALE) \in Int /\ TruncDiv(high, SCALE) \in Int
        /\ TruncDiv(low, SCALE) <= TruncDiv(high, SCALE)
    BY <1>4, TruncDivInt, TruncDivMonotone DEF SCALE
  <1> QED
    BY <1>5, ClampMonotone, PidConstants, PidAssumption DEF PidOutput, low, high

(* A colder sample never gets less heat, whatever the regulator remembers: *)
(* dead band, truncation, anti-windup and derivative keep the order of the *)
(* samples.                                                                *)
THEOREM ColderGetsNoLess == PSpec => []ColderNotLess
  <1>1. RegulatorInv => ColderNotLess
    <2> SUFFICES ASSUME RegulatorInv, NEW sp \in Setpoints, NEW t \in Samples,
                        NEW u \in Samples, NEW dt \in Intervals, t <= u
                 PROVE  PidUpdate(regulator, sp, t, dt).out
                          >= PidUpdate(regulator, sp, u, dt).out
      BY DEF ColderNotLess
    <2> DEFINE p == regulator
               e == PidError(sp, t)
               f == PidError(sp, u)
    <2>1. /\ dt \in Nat \ {0} /\ dt <= IntervalMax
          /\ e \in Int /\ -ErrorMax <= e /\ e <= ErrorMax
          /\ f \in Int /\ -ErrorMax <= f /\ f <= ErrorMax
      BY Inputs
    <2>2. f <= e
      BY Inputs, PidErrorAntitone
    <2>3. /\ PidUpdate(p, sp, t, dt).out = PidOutput(e, NewIntegral(p, e, dt), Derivative(p, e, dt))
          /\ PidUpdate(p, sp, u, dt).out = PidOutput(f, NewIntegral(p, f, dt), Derivative(p, f, dt))
      BY <2>1 DEF PidUpdate
    <2>4. PidUpdate(p, sp, t, dt).out \in Int /\ PidUpdate(p, sp, u, dt).out \in Int
      <3>1. p \in Pids
        BY DEF RegulatorInv, Remembers
      <3>2. sp \in Int /\ t \in Int /\ u \in Int /\ dt \in Nat
        BY Inputs
      <3> QED
        BY <3>1, <3>2, PidUpdateRange, PidConstants
    <2> HIDE DEF e, f
    <2>5. PidOutput(f, NewIntegral(p, f, dt), Derivative(p, f, dt))
            <= PidOutput(e, NewIntegral(p, e, dt), Derivative(p, e, dt))
      BY <2>1, <2>2, TermsMonotone, OutputMonotone DEF RegulatorInv
    <2> QED
      BY <2>3, <2>4, <2>5
  <1> QED
    BY <1>1, RegulatorInvariance, PTL
=============================================================================
