---------------------------- MODULE PIDIntProofs ----------------------------
(***************************************************************************)
(* What the operators the controller is built from return, for every value  *)
(* of the constants.                                                        *)
(***************************************************************************)
EXTENDS PIDInt, TLAPS

(* The regulator's constants are integers, and its ranges are not empty.   *)
LEMMA PidConstants ==
    /\ Kp \in Int /\ Ki \in Int /\ Kd \in Int
    /\ OutMin \in Int /\ OutMax \in Int
    /\ IntegrMin \in Int /\ IntegrMax \in Int /\ IntegrMin <= IntegrMax
  <1>1. /\ Kp \in Int /\ Ki \in Int /\ Kd \in Int
        /\ OutMin \in Int /\ OutMax \in Int
        /\ IntegrMin \in Int /\ IntegrMax \in Int
    BY PidAssumption
  <1> QED
    BY <1>1, PidAssumption

(* clamp() ends in its range.                                              *)
LEMMA ClampRange ==
    ASSUME NEW v \in Int, NEW lo \in Int, NEW hi \in Int, lo <= hi
    PROVE  Clamp(v, lo, hi) \in lo..hi
  BY DEF Clamp

(* clamp() keeps the order of its arguments.                               *)
LEMMA ClampMonotone ==
    ASSUME NEW v \in Int, NEW w \in Int, NEW lo \in Int, NEW hi \in Int,
           lo <= hi, v <= w
    PROVE  Clamp(v, lo, hi) <= Clamp(w, lo, hi)
  BY DEF Clamp

(* The truncated quotient is an integer.                                   *)
LEMMA TruncDivInt ==
    ASSUME NEW a \in Int, NEW b \in Nat \ {0}
    PROVE  TruncDiv(a, b) \in Int
  BY DEF TruncDiv

(* A cast to a signed type is an integer.                                  *)
LEMMA ToSignedInt ==
    ASSUME NEW x \in Int, NEW m \in Nat, m > 0
    PROVE  ToSigned(x, m) \in Int
  <1>1. m \div 2 \in Int
    OBVIOUS
  <1>2. (x + m \div 2) % m \in Int
    BY <1>1
  <1> QED
    BY <1>1, <1>2 DEF ToSigned

(* The error of two integers is an integer.                                *)
LEMMA PidErrorInt ==
    ASSUME NEW sp \in Int, NEW t \in Int
    PROVE  PidError(sp, t) \in Int
  BY DEF PidError

(* A cast to a signed type keeps the values the type has.                  *)
LEMMA ToSignedExact ==
    ASSUME NEW x \in Int, NEW m \in Nat, m > 0, -m < 2 * x, 2 * x < m
    PROVE  ToSigned(x, m) = x
  <1> DEFINE half == m \div 2
  <1>1. half \in Int /\ 2 * half <= m /\ m <= 2 * half + 1
    OBVIOUS
  <1>2. x + half >= 0 /\ x + half < m
    BY <1>1
  <1>3. (x + half) % m = x + half
    <2> HIDE DEF half
    <2> QED
      BY <1>1, <1>2
  <1> QED
    BY <1>1, <1>3 DEF ToSigned

(* The quotient and the remainder of a division.                           *)
LEMMA DivFacts ==
    ASSUME NEW a \in Nat, NEW b \in Nat \ {0}
    PROVE  a \div b \in Nat /\ b * (a \div b) <= a /\ a < b * (a \div b) + b
  OBVIOUS

(* Division keeps the order of what is divided.                            *)
LEMMA DivMonotone ==
    ASSUME NEW a \in Nat, NEW c \in Nat, NEW b \in Nat \ {0}, a <= c
    PROVE  a \div b <= c \div b
  <1> DEFINE q == a \div b
             r == c \div b
  <1>1. q \in Nat /\ b * q <= a
    BY DivFacts
  <1>2. r \in Nat /\ c < b * r + b
    BY DivFacts
  <1>3. SUFFICES ASSUME q >= r + 1 PROVE FALSE
    BY <1>1, <1>2
  <1>4. b * q >= b * r + b
    <2> HIDE DEF q, r
    <2>1. b * q >= b * (r + 1)
      BY <1>1, <1>2, <1>3
    <2> QED
      BY <1>2, <2>1
  <1> QED
    BY <1>1, <1>2, <1>4

(* So does division that truncates toward zero.                            *)
LEMMA TruncDivMonotone ==
    ASSUME NEW a \in Int, NEW c \in Int, NEW b \in Nat \ {0}, a <= c
    PROVE  TruncDiv(a, b) <= TruncDiv(c, b)
  <1>1. CASE a >= 0
    BY <1>1, DivMonotone DEF TruncDiv
  <1>2. CASE c < 0
    <2>1. -c \in Nat /\ -a \in Nat /\ -c <= -a
      BY <1>2
    <2>2. (-c) \div b <= (-a) \div b
      BY <2>1, DivMonotone
    <2>3. (-c) \div b \in Int /\ (-a) \div b \in Int
      BY <2>1, DivFacts
    <2> QED
      BY <1>2, <2>2, <2>3 DEF TruncDiv
  <1>3. CASE a < 0 /\ c >= 0
    <2>1. (-a) \div b \in Nat /\ c \div b \in Nat
      BY <1>3, DivFacts
    <2> QED
      BY <1>3, <2>1 DEF TruncDiv
  <1> QED
    BY <1>1, <1>2, <1>3

(* A quotient is no larger than that of a larger magnitude.                *)
LEMMA TruncDivBound ==
    ASSUME NEW a \in Int, NEW n \in Nat, NEW b \in Nat \ {0}, -n <= a, a <= n
    PROVE  -(n \div b) <= TruncDiv(a, b) /\ TruncDiv(a, b) <= n \div b
  <1>1. TruncDiv(n, b) = n \div b
    BY DEF TruncDiv
  <1>2. TruncDiv(-n, b) = -(n \div b)
    <2>1. CASE n = 0
      <3>1. n \div b = 0
        BY <2>1
      <3> QED
        BY <2>1, <3>1 DEF TruncDiv
    <2>2. CASE n > 0
      BY <2>2 DEF TruncDiv
    <2> QED
      BY <2>1, <2>2
  <1>3. TruncDiv(a, b) <= TruncDiv(n, b)
    BY TruncDivMonotone
  <1>4. TruncDiv(-n, b) <= TruncDiv(a, b)
    BY TruncDivMonotone
  <1> QED
    BY <1>1, <1>2, <1>3, <1>4

(* The error is no larger than the difference it stands for, and no less   *)
(* for a colder sample: the dead band keeps the order of the samples.      *)
LEMMA PidErrorBound ==
    ASSUME NEW sp \in Int, NEW t \in Int, NEW n \in Nat, -n <= sp - t, sp - t <= n
    PROVE  -n <= PidError(sp, t) /\ PidError(sp, t) <= n
  BY DEF PidError

LEMMA PidErrorAntitone ==
    ASSUME NEW sp \in Int, NEW t \in Int, NEW u \in Int, t <= u
    PROVE  PidError(sp, u) <= PidError(sp, t)
  BY PidAssumption DEF PidError, Abs32

(* A reset regulator is a regulator: its integrator starts inside the      *)
(* anti-windup range.                                                      *)
LEMMA ResetPidType == ResetPid \in Pids
  BY PidAssumption DEF ResetPid, Pids

(* update() of a regulator leaves the integrator within the anti-windup    *)
(* range and asks for a power within the output range, whatever the        *)
(* setpoint, the measurement and the interval - even where the casts to    *)
(* int32_t wrap around.                                                    *)
THEOREM PidUpdateRange ==
    ASSUME NEW p \in Pids, NEW sp \in Int, NEW t \in Int, NEW dtMs \in Nat
    PROVE  /\ PidUpdate(p, sp, t, dtMs).pid \in Pids
           /\ PidUpdate(p, sp, t, dtMs).out \in OutMin..OutMax
  <1> DEFINE dt == IF dtMs = 0 THEN SampleTime ELSE dtMs
             e  == PidError(sp, t)
             i  == NewIntegral(p, e, dt)
             d  == Derivative(p, e, dt)
  <1>1. dt \in Nat \ {0}
    BY PidAssumption
  <1>2. e \in Int
    BY PidErrorInt
  <1>3. i \in IntegrMin..IntegrMax
    <2>1. e * dt \in Int
      BY <1>1, <1>2
    <2>2. ToSigned(TruncDiv(e * dt, SampleTime), IntMod) \in Int
      BY <2>1, TruncDivInt, ToSignedInt, PidAssumption
    <2>3. p.integral \in Int
      BY PidConstants DEF Pids
    <2>4. ToSigned(p.integral + ToSigned(TruncDiv(e * dt, SampleTime), IntMod),
                   IntMod) \in Int
      BY <2>2, <2>3, ToSignedInt, PidAssumption
    <2> QED
      BY <2>4, ClampRange, PidConstants DEF NewIntegral
  <1>4. d \in Int
    <2>1. (e - p.prevError) * SampleTime \in Int
      BY <1>2, PidAssumption DEF Pids
    <2>2. ToSigned(TruncDiv((e - p.prevError) * SampleTime, dt), IntMod) \in Int
      BY <1>1, <2>1, TruncDivInt, ToSignedInt, PidAssumption
    <2> QED
      BY <2>2 DEF Derivative
  <1>5. PidOutput(e, i, d) \in OutMin..OutMax
    <2>1. i \in Int
      BY <1>3, PidConstants
    <2>2. Kp * e \in Int /\ Ki * i \in Int /\ Kd * d \in Int
      BY <1>2, <1>4, <2>1, PidConstants
    <2>3. Kp * e + Ki * i + Kd * d \in Int
      BY <2>2
    <2>4. TruncDiv(Kp * e + Ki * i + Kd * d, SCALE) \in Int
      BY <2>3, TruncDivInt DEF SCALE
    <2> QED
      BY <2>4, ClampRange, PidConstants, PidAssumption DEF PidOutput
  <1>6. PidUpdate(p, sp, t, dtMs) =
          [pid |-> [integral |-> i, prevError |-> e, hasPrev |-> TRUE],
           out |-> PidOutput(e, i, d)]
    BY DEF PidUpdate
  <1>7. [integral |-> i, prevError |-> e, hasPrev |-> TRUE] \in Pids
    BY <1>2, <1>3 DEF Pids
  <1> QED
    BY <1>5, <1>6, <1>7

(* After update() the regulator remembers the error it was given.          *)
LEMMA PidUpdateMemory ==
    ASSUME NEW p, NEW sp, NEW t, NEW dtMs
    PROVE  /\ PidUpdate(p, sp, t, dtMs).pid.hasPrev
           /\ PidUpdate(p, sp, t, dtMs).pid.prevError = PidError(sp, t)
  BY DEF PidUpdate
=============================================================================
