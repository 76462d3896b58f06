--------------------------- MODULE ControllerProofs ---------------------------
(***************************************************************************)
(* Theorems of Controller for every value of its constants: the invariants  *)
(* the runs check are one inductive invariant, and the controller           *)
(* implements the abstract thermostat.                                      *)
(***************************************************************************)
EXTENDS Controller, PIDIntProofs

-----------------------------------------------------------------------------
(* The PWM outputs.                                                        *)

(* setPower changes CCR1 only, and keeps it a natural number.              *)
LEMMA SetPowerType ==
    ASSUME NEW pwm \in Pwms, NEW v \in Int
    PROVE  SetPower(pwm, v) \in Pwms /\ SetPower(pwm, v).arr = pwm.arr
  <1> DEFINE c == Clamp(v, 0, PowerMax)
  <1>1. c \in Nat
    BY ClampRange DEF PowerMax
  <1>2. pwm.arr \in Nat
    BY DEF Pwms
  <1>3. pwm.arr * c \in Nat
    BY <1>1, <1>2
  <1>4. (pwm.arr * c) \div PowerMax \in Nat
    BY <1>3 DEF PowerMax
  <1> QED
    BY <1>4 DEF SetPower, Pwms

(* Power 0 is silence.                                                     *)
LEMMA SetPowerZero ==
    ASSUME NEW pwm \in Pwms
    PROVE  Silent(SetPower(pwm, 0))
  <1>1. Clamp(0, 0, PowerMax) = 0
    BY DEF Clamp, PowerMax
  <1>2. pwm.arr * 0 = 0
    BY DEF Pwms
  <1>3. 0 \div PowerMax = 0
    BY DEF PowerMax
  <1> QED
    BY <1>1, <1>2, <1>3 DEF SetPower, Silent, Pwms

(* The last setPower decides.                                              *)
LEMMA SetPowerTwice ==
    ASSUME NEW pwm \in Pwms, NEW v \in Int, NEW w \in Int
    PROVE  SetPower(SetPower(pwm, v), w) = SetPower(pwm, w)
  BY SetPowerType DEF SetPower, Pwms

(* Division of naturals.                                                   *)
LEMMA DivRange ==
    ASSUME NEW n \in Nat, NEW d \in Nat \ {0}
    PROVE  n \div d \in Nat /\ n \div d <= n
  BY SMT

(* setFrequency of a frequency other than 0 gives a legal output.          *)
LEMMA SetFrequencyType ==
    ASSUME NEW pwm \in Pwms, NEW f \in Nat \ {0}
    PROVE  SetFrequency(pwm, f) \in Pwms
  <1> DEFINE period == TimClk \div f
             psc == (period \div 65535 + 1) % 65536
             arr == (period \div psc) % 65536
  <1>1. period \in Nat /\ period <= 48000000
    BY DivRange, SMT DEF TimClk
  <1>2. psc \in Nat \ {0}
    <2> HIDE DEF period
    <2> QED
      BY <1>1, SMT
  <1>3. arr \in Nat
    <2>1. period \div psc \in Nat
      <3> HIDE DEF period, psc
      <3> QED
        BY <1>1, <1>2, DivRange
    <2> HIDE DEF period, psc
    <2> QED
      BY <2>1, SMT
  <1>4. (arr - 1) % 65536 \in Nat /\ arr \div 2 \in Nat
    <2> HIDE DEF arr
    <2> QED
      BY <1>3, SMT
  <1>5. SetFrequency(pwm, f) = [arr |-> (arr - 1) % 65536, ccr |-> arr \div 2]
    BY SMT DEF SetFrequency
  <1> HIDE DEF arr
  <1> QED
    BY <1>4, <1>5, SMT DEF Pwms

(* An output fresh from Init.                                              *)
LEMMA PwmInitType ==
    ASSUME NEW arr \in Nat
    PROVE  PwmInit(arr) \in Pwms /\ Silent(PwmInit(arr))
  BY DEF PwmInit, Pwms, Silent

(* Instants of the tick counter.                                           *)
LEMMA AfterType ==
    ASSUME NEW t \in Instants, NEW d \in 0..(TickMod - 1)
    PROVE  After(t, d) \in Instants
  BY TickAssumption DEF After, Instants

LEMMA ElapsedType ==
    ASSUME NEW a \in Instants, NEW b \in Instants
    PROVE  Elapsed(a, b) \in Nat
  BY TickAssumption DEF Elapsed, Instants

-----------------------------------------------------------------------------
(* The inductive invariant: the type invariant and everything the safety   *)
(* runs check.  NoHeatWhenOverheated needs the rest: a key row copies the  *)
(* stored power to the timer without looking at the temperature, so the    *)
(* power and the output must agree and be 0 already.                       *)
Inv ==
    /\ TypeOK
    /\ NoHeatWhenOverheated
    /\ OutputFollowsPower
    /\ RegulatorIsCurrent
    /\ StateAgrees
    /\ DisplayAgrees
    /\ SoundHasEnd

(* The constants the steps need, one by one.                               *)
LEMMA Constants ==
    /\ SetpointMin \in Int /\ SetpointMax \in Int /\ SetpointStep \in Nat
    /\ SetpointDefault \in SetpointMin..SetpointMax
    /\ ErrorDelta \in Nat /\ HeaterArr \in Nat
    /\ DisplayMin \in Int /\ DisplayMax \in Int /\ DisplayMin <= DisplayMax
    /\ SetpointDisplayDuration \in 0..(TickMod - 1)
    /\ SetpointDefault + ErrorDelta >= 0
    /\ OutMin = 0 /\ OutMax = PowerMax
  <1>1. /\ SetpointMin \in Int /\ SetpointMax \in Int
        /\ DisplayMin \in Int /\ DisplayMax \in Int
    BY ControllerAssumption
  <1> QED
    BY <1>1, ControllerAssumption

(* The initial state satisfies the invariant.                              *)
LEMMA InitInv == Init => Inv
  <1> SUFFICES ASSUME Init PROVE Inv
    OBVIOUS
  <1>1. /\ heater = PwmInit(HeaterArr) /\ heater \in Pwms /\ Silent(heater)
        /\ piezo \in Pwms /\ Silent(piezo)
    BY PwmInitType, Constants, BeepAssumption DEF Init, BeepInit
  <1>2. TypeOK
    <2>1. 0 \in Instants
      BY TickAssumption DEF Instants
    <2>2. TicksType
      BY <2>1, TickAssumption DEF Init, TicksInit, TicksType
    <2>3. BeepType
      BY <1>1, <2>1 DEF Init, BeepInit, BeepType
    <2>4. held \in [{"S1", "S2"} -> BOOLEAN] /\ heaterPower \in 0..PowerMax
      BY SMT DEF Init, PowerMax
    <2>5. display \in [label : {"none", "1", "2"}, value : Int]
      BY DEF Init, Blank
    <2> QED
      BY <1>1, <2>1, <2>2, <2>3, <2>4, <2>5, ResetPidType, Constants
         DEF Init, TypeOK, States
  <1>3. OutputFollowsPower
    <2>1. SetPower(heater, 0).ccr = 0 /\ SetPower(heater, 0) \in Pwms
          /\ SetPower(heater, 0).arr = heater.arr
      BY <1>1, SetPowerZero, SetPowerType DEF Silent
    <2> QED
      BY <1>1, <2>1 DEF Init, OutputFollowsPower, Pwms, Silent
  <1>4. NoHeatWhenOverheated
    BY <1>1 DEF Init, NoHeatWhenOverheated
  <1>5. RegulatorIsCurrent
    BY DEF Init, RegulatorIsCurrent, ResetPid
  <1>6. StateAgrees
    BY Constants DEF Init, StateAgrees, Overheated
  <1>7. DisplayAgrees /\ SoundHasEnd
    BY <1>1 DEF Init, DisplayAgrees, SoundHasEnd
  <1> QED
    BY <1>2, <1>3, <1>4, <1>5, <1>6, <1>7 DEF Inv

-----------------------------------------------------------------------------
(* What applyState leaves behind: legal values, an output that carries the *)
(* stored power, and no power at all in Error.                             *)
LEMMA ApplyStateEffect ==
    ASSUME Inv,
           NEW ns \in States, NEW power \in 0..PowerMax, NEW r \in Pids,
           NEW stamp \in Instants,
           ApplyState(ns, power, r, stamp)
    PROVE  /\ state' = ns /\ state' \in States
           /\ heaterPower' = IF ns = "Error" THEN 0 ELSE power
           /\ heaterPower' \in 0..PowerMax
           /\ pid' = IF ns = "Error" THEN ResetPid ELSE r
           /\ pid' \in Pids
           /\ lastPid' \in Instants
           /\ heater' \in Pwms
           /\ heater' = SetPower(heater, heaterPower')
           /\ OutputFollowsPower'
           /\ heaterPower' = 0 => Silent(heater')
  <1>1. /\ heater \in Pwms /\ heaterPower \in Int /\ now \in Instants
        /\ PwmInit(HeaterArr) \in Pwms
    BY PwmInitType, Constants DEF Inv, TypeOK, TicksType, PowerMax
  <1>2. heaterPower' = (IF ns = "Error" THEN 0 ELSE power)
    BY DEF ApplyState
  <1>3. heaterPower' \in 0..PowerMax /\ heaterPower' \in Int
    BY <1>2 DEF PowerMax
  <1>4. heater' = SetPower(heater, heaterPower')
    BY DEF ApplyState
  <1>5. heater' \in Pwms
    BY <1>1, <1>3, <1>4, SetPowerType
  <1>6. heater' = SetPower(PwmInit(HeaterArr), heaterPower')
    BY <1>1, <1>3, <1>4, SetPowerTwice DEF Inv, OutputFollowsPower
  <1>7. heaterPower' = 0 => Silent(heater')
    BY <1>1, <1>4, SetPowerZero
  <1>8. pid' \in Pids
    BY ResetPidType DEF ApplyState
  <1>9. lastPid' \in Instants
    BY <1>1 DEF ApplyState
  <1> QED
    BY <1>2, <1>3, <1>4, <1>5, <1>6, <1>7, <1>8, <1>9
       DEF ApplyState, OutputFollowsPower

(* evaluateState: its result is a state and says how the temperature       *)
(* compares with the setpoint.                                             *)
LEMMA EvaluateStateEffect ==
    ASSUME NEW sp \in Int, NEW t \in Int
    PROVE  /\ EvaluateState(sp, t) \in States \ {"Any"}
           /\ EvaluateState(sp, t) = "Error" <=> t > sp + ErrorDelta
           /\ EvaluateState(sp, t) = "Heating" => t < sp
           /\ EvaluateState(sp, t) = "Idle" => t >= sp
  BY Constants DEF EvaluateState, States

(* displayTemperature leaves the clamped value on a display that is not    *)
(* blank.                                                                  *)
LEMMA DisplayEffect ==
    ASSUME NEW l \in {"1", "2"}, NEW v \in Int, DisplayTemperature(l, v)
    PROVE  /\ display' \in [label : {"none", "1", "2"}, value : Int]
           /\ display' # Blank
           /\ display' = [label |-> l, value |-> Clamp(v, DisplayMin, DisplayMax)]
  <1>1. Clamp(v, DisplayMin, DisplayMax) \in Int
    BY ClampRange, Constants
  <1>2. display'.label = l
    BY DEF DisplayTemperature
  <1>3. Blank.label = "none"
    BY DEF Blank
  <1> QED
    BY <1>1, <1>2, <1>3 DEF DisplayTemperature

(* A press or release never starts a sound without a pending end.          *)
LEMMA KeepBeepEffect ==
    ASSUME Inv, NEW e \in ButtonEvents, e.value # 0, KeepBeep(e)
    PROVE  /\ beepActive' = beepActive /\ beepEnd' = beepEnd
           /\ piezo' \in Pwms
           /\ SoundHasEnd'
  <1>1. piezo \in Pwms
    BY DEF Inv, TypeOK, BeepType
  <1>2. CASE e.value = 2
    <2>1. piezo' = SetPower(piezo, 0)
      BY <1>2 DEF KeepBeep, DispatchPiezo
    <2> QED
      BY <1>1, <2>1, SetPowerType, SetPowerZero DEF KeepBeep, SoundHasEnd
  <1>3. CASE e.value # 2
    <2>1. piezo' = piezo
      BY <1>3 DEF KeepBeep, DispatchPiezo
    <2> QED
      BY <1>1, <2>1 DEF KeepBeep, Inv, SoundHasEnd, Silent
  <1> QED
    BY <1>2, <1>3

(* requestBeep keeps the types.                                            *)
LEMMA RequestBeepEffect ==
    ASSUME Inv, RequestBeep
    PROVE  BeepType' /\ SoundHasEnd'
  <1>1. piezo \in Pwms /\ BeepPower \in Int /\ now \in Instants
    BY BeepAssumption DEF Inv, TypeOK, BeepType, TicksType, PowerMax
  <1>2. piezo' \in Pwms
    BY <1>1, SetPowerType, SetFrequencyType, BeepAssumption DEF RequestBeep
  <1>3. beepEnd' \in Instants
    BY <1>1, AfterType, BeepAssumption DEF RequestBeep
  <1> QED
    BY <1>2, <1>3 DEF RequestBeep, BeepType, SoundHasEnd

-----------------------------------------------------------------------------
(* The types the step lemmas use most.                                     *)
LEMMA Types ==
    ASSUME Inv
    PROVE  /\ setpoint \in Int /\ setpoint \in SetpointMin..SetpointMax
           /\ current \in Int /\ now \in Instants
           /\ pid \in Pids /\ lastPid \in Instants
           /\ heaterPower \in 0..PowerMax
           /\ state \in States
  BY Constants, ControllerAssumption DEF Inv, TypeOK, TicksType

(* A sample: the regulator runs on the new temperature, or the heater is   *)
(* switched off.                                                           *)
LEMMA SampleInv ==
    ASSUME Inv, NEW e \in Events, Sample(e)
    PROVE  Inv'
  <1> DEFINE t     == e.value
             next  == EvaluateState(setpoint, t)
             fresh == state = "Error"
             since == IF fresh THEN now ELSE lastPid
             dt    == IF now = since THEN 1 ELSE Elapsed(now, since)
             reg   == IF fresh THEN ResetPid ELSE pid
             step  == PidUpdate(reg, setpoint, t, dt)
  <1>1. t \in Temps /\ t \in Int
    BY ControllerAssumption DEF Sample, SampleEvents
  <1>2. /\ current' = t
        /\ IF showing THEN UNCHANGED display ELSE DisplayTemperature("1", t)
        /\ IF next = "Error"
           THEN ApplyState(next, 0, pid, lastPid)
           ELSE ApplyState(next, step.out, step.pid, now)
        /\ UNCHANGED <<setpoint, showing, deadline, held>>
        /\ UNCHANGED <<beepVars, timeVars>>
    BY DEF Sample, TemperatureSample
  <1>3. dt \in Nat /\ reg \in Pids
    BY Types, ElapsedType, ResetPidType
  <1>4. step.pid \in Pids /\ step.out \in 0..PowerMax
    BY <1>1, <1>3, Types, Constants, PidUpdateRange
  <1>5. next \in States \ {"Any"} /\ (next = "Error" <=> t > setpoint + ErrorDelta)
    BY <1>1, Types, EvaluateStateEffect
  <1>6. step.pid.hasPrev /\ step.pid.prevError = PidError(setpoint, t)
    BY PidUpdateMemory
  <1> DEFINE power == IF next = "Error" THEN 0 ELSE step.out
             r     == IF next = "Error" THEN pid ELSE step.pid
             stamp == IF next = "Error" THEN lastPid ELSE now
  <1>7. ApplyState(next, power, r, stamp)
    <2> HIDE DEF next, step
    <2>1. CASE next = "Error"
      <3>1. ApplyState(next, 0, pid, lastPid) /\ power = 0 /\ r = pid /\ stamp = lastPid
        BY <1>2, <2>1
      <3> QED
        BY <3>1, Zenon
    <2>2. CASE next # "Error"
      <3>1. /\ ApplyState(next, step.out, step.pid, now)
            /\ power = step.out /\ r = step.pid /\ stamp = now
        BY <1>2, <2>2
      <3> QED
        BY <3>1, Zenon
    <2> QED
      BY <2>1, <2>2
  <1>8. power \in 0..PowerMax /\ r \in Pids /\ stamp \in Instants
    <2>1. 0 \in 0..PowerMax /\ pid \in Pids /\ lastPid \in Instants /\ now \in Instants
      BY Types DEF PowerMax
    <2> HIDE DEF next, step
    <2> QED
      BY <1>4, <2>1
  <1>9. /\ state' = next /\ state' \in States
        /\ heaterPower' \in 0..PowerMax /\ pid' \in Pids
        /\ lastPid' \in Instants /\ heater' \in Pwms
        /\ OutputFollowsPower'
        /\ heaterPower' = 0 => Silent(heater')
        /\ next = "Error" => heaterPower' = 0 /\ pid' = ResetPid
        /\ next # "Error" => pid' = step.pid
    <2> HIDE DEF next, step
    <2> QED
      BY <1>5, <1>7, <1>8, ApplyStateEffect
  <1>10. setpoint' = setpoint /\ Overheated' = (t > setpoint + ErrorDelta)
    BY <1>2 DEF Overheated
  <1> HIDE DEF next, step, t
  <1>11. NoHeatWhenOverheated'
    BY <1>5, <1>9, <1>10 DEF NoHeatWhenOverheated
  <1>12. RegulatorIsCurrent'
    <2>1. CASE next = "Error"
      BY <2>1, <1>9 DEF RegulatorIsCurrent, ResetPid
    <2>2. CASE next # "Error"
      BY <2>2, <1>2, <1>5, <1>6, <1>9, <1>10 DEF RegulatorIsCurrent, PidError
    <2> QED
      BY <2>1, <2>2
  <1>13. StateAgrees'
    <2>1. next = "Heating" => t < setpoint
      BY <1>1, Types, EvaluateStateEffect DEF next
    <2>2. next = "Idle" => t >= setpoint
      BY <1>1, Types, EvaluateStateEffect DEF next
    <2> QED
      BY <2>1, <2>2, <1>2, <1>5, <1>9, <1>10 DEF StateAgrees
  <1>14. display' \in [label : {"none", "1", "2"}, value : Int] /\ DisplayAgrees'
    <2>1. CASE showing
      BY <2>1, <1>2 DEF Inv, TypeOK, DisplayAgrees
    <2>2. CASE ~showing
      BY <2>2, <1>1, <1>2, DisplayEffect DEF DisplayAgrees
    <2> QED
      BY <2>1, <2>2
  <1>15. SoundHasEnd' /\ BeepType' /\ TicksType'
    BY <1>2 DEF Inv, SoundHasEnd, Silent, TypeOK, BeepType, TicksType, beepVars, timeVars
  <1>16. TypeOK'
    BY <1>1, <1>2, <1>9, <1>14, <1>15 DEF Inv, TypeOK
  <1> QED
    BY <1>9, <1>11, <1>12, <1>13, <1>14, <1>15, <1>16 DEF Inv

(* A setpoint key: everything starts over with the new setpoint.           *)
LEMMA AdjustInv ==
    ASSUME Inv, NEW e \in Events, Adjust(e)
    PROVE  Inv'
  <1> DEFINE sp   == AdjustedSetpoint(e.type)
             next == EvaluateState(sp, current)
  <1>1. /\ setpoint' = sp /\ showing' = TRUE /\ current' = current
        /\ deadline' = After(now, SetpointDisplayDuration)
        /\ DisplayTemperature("2", sp)
        /\ ApplyState(next, 0, ResetPid, now)
        /\ UNCHANGED timeVars /\ KeepBeep(e) /\ UpdateHeld(e)
        /\ e \in ButtonEvents /\ e.value \in {1, 2} /\ e.type \in {"S1", "S2"}
    BY DEF Adjust, AdjustSetpoint, AdjustsSetpoint
  <1>2. sp \in SetpointMin..SetpointMax /\ sp \in Int
    BY Types, Constants DEF AdjustedSetpoint
  <1>3. next \in States \ {"Any"} /\ (next = "Error" <=> current > sp + ErrorDelta)
    BY <1>2, Types, EvaluateStateEffect
  <1>4. /\ state' = next /\ state' \in States
        /\ heaterPower' = 0 /\ pid' = ResetPid /\ pid' \in Pids
        /\ lastPid' \in Instants /\ heater' \in Pwms
        /\ OutputFollowsPower' /\ Silent(heater')
    <2>1. 0 \in 0..PowerMax
      BY DEF PowerMax
    <2> HIDE DEF next
    <2> QED
      BY <2>1, <1>1, <1>3, Types, ResetPidType, ApplyStateEffect
  <1>5. NoHeatWhenOverheated' /\ RegulatorIsCurrent'
    BY <1>4 DEF NoHeatWhenOverheated, RegulatorIsCurrent, ResetPid
  <1>6. StateAgrees'
    <2>1. next = "Heating" => current < sp
      BY <1>2, Types, EvaluateStateEffect
    <2>2. next = "Idle" => current >= sp
      BY <1>2, Types, EvaluateStateEffect
    <2> HIDE DEF next
    <2> QED
      BY <2>1, <2>2, <1>1, <1>3, <1>4 DEF StateAgrees, Overheated
  <1>7. display' \in [label : {"none", "1", "2"}, value : Int] /\ DisplayAgrees'
    BY <1>1, <1>2, DisplayEffect DEF DisplayAgrees
  <1>8. SoundHasEnd' /\ BeepType' /\ TicksType'
    BY <1>1, KeepBeepEffect DEF Inv, TypeOK, BeepType, TicksType, timeVars
  <1>9. held' \in [{"S1", "S2"} -> BOOLEAN]
    BY <1>1 DEF UpdateHeld, Inv, TypeOK
  <1>10. deadline' \in Instants
    BY <1>1, Types, AfterType, Constants
  <1>11. heaterPower' \in 0..PowerMax /\ current' \in Temps \cup {0}
    BY <1>1, <1>4, SMT DEF PowerMax, Inv, TypeOK
  <1>12. TypeOK'
    BY <1>1, <1>2, <1>4, <1>7, <1>8, <1>9, <1>10, <1>11 DEF TypeOK
  <1> QED
    BY <1>4, <1>5, <1>6, <1>7, <1>8, <1>12 DEF Inv

(* What the invariant says of the temperatures survives an applyState that *)
(* keeps temperatures, power and regulator: a key row, a tick, a time-out. *)
LEMMA ReapplyInv ==
    ASSUME Inv, NEW ns \in States,
           ApplyState(ns, heaterPower, pid, lastPid),
           UNCHANGED <<setpoint, current>>
    PROVE  /\ state' = ns /\ state' \in States
           /\ heaterPower' \in 0..PowerMax /\ pid' \in Pids
           /\ lastPid' \in Instants /\ heater' \in Pwms
           /\ NoHeatWhenOverheated' /\ OutputFollowsPower' /\ RegulatorIsCurrent'
  <1>1. /\ state' = ns /\ state' \in States
        /\ heaterPower' = IF ns = "Error" THEN 0 ELSE heaterPower
        /\ heaterPower' \in 0..PowerMax
        /\ pid' = IF ns = "Error" THEN ResetPid ELSE pid
        /\ pid' \in Pids /\ lastPid' \in Instants /\ heater' \in Pwms
        /\ OutputFollowsPower'
        /\ heaterPower' = 0 => Silent(heater')
    BY Types, ApplyStateEffect
  <1>2. Overheated' = Overheated
    BY DEF Overheated
  <1>3. NoHeatWhenOverheated'
    BY <1>1, <1>2 DEF Inv, NoHeatWhenOverheated
  <1>4. RegulatorIsCurrent'
    BY <1>1, <1>2 DEF Inv, RegulatorIsCurrent, PidError, ResetPid
  <1> QED
    BY <1>1, <1>3, <1>4

(* A key row without an action on the setpoint.                            *)
LEMMA KeyInv ==
    ASSUME Inv, NEW e \in Events, Key(e)
    PROVE  Inv'
  <1>1. /\ e \in ButtonEvents /\ UpdateHeld(e)
        /\ IF e.value = 0 THEN RequestBeep ELSE KeepBeep(e)
        /\ ApplyState("Any", heaterPower, pid, lastPid)
        /\ UNCHANGED <<setpoint, current, displayVars>>
        /\ UNCHANGED timeVars
    BY DEF Key, BeepRow
  <1>2. /\ state' = "Any" /\ state' \in States
        /\ heaterPower' \in 0..PowerMax /\ pid' \in Pids
        /\ lastPid' \in Instants /\ heater' \in Pwms
        /\ NoHeatWhenOverheated' /\ OutputFollowsPower' /\ RegulatorIsCurrent'
    <2>1. "Any" \in States
      BY DEF States
    <2> QED
      BY <1>1, <2>1, ReapplyInv
  <1>3. StateAgrees'
    BY <1>2 DEF StateAgrees
  <1>4. DisplayAgrees'
    BY <1>1 DEF Inv, DisplayAgrees, displayVars
  <1>5. SoundHasEnd' /\ BeepType'
    <2>1. CASE e.value = 0
      BY <1>1, <2>1, RequestBeepEffect
    <2>2. CASE e.value # 0
      BY <1>1, <2>2, KeepBeepEffect DEF Inv, TypeOK, BeepType
    <2> QED
      BY <2>1, <2>2
  <1>6. held' \in [{"S1", "S2"} -> BOOLEAN]
    BY <1>1 DEF UpdateHeld, Inv, TypeOK
  <1>7. TypeOK'
    BY <1>1, <1>2, <1>5, <1>6
       DEF Inv, TypeOK, TicksType, timeVars, displayVars
  <1> QED
    BY <1>2, <1>3, <1>4, <1>5, <1>7 DEF Inv

(* The periodic tick.                                                      *)
LEMMA PIDTickInv ==
    ASSUME Inv, NEW e \in Events, PIDTick(e)
    PROVE  Inv'
  <1>1. UNCHANGED <<setpoint, current, held, displayVars, beepVars, timeVars>>
    BY DEF PIDTick
  <1>2. /\ state' = state /\ heaterPower' \in 0..PowerMax /\ pid' \in Pids
        /\ lastPid' \in Instants /\ heater' \in Pwms
        /\ NoHeatWhenOverheated' /\ OutputFollowsPower' /\ RegulatorIsCurrent'
    <2>1. CASE state \in {"Idle", "Heating"}
      BY <1>1, <2>1, ReapplyInv, Types DEF PIDTick
    <2>2. CASE state \notin {"Idle", "Heating"}
      <3>1. UNCHANGED <<state, heaterPower, lastPid, pid, heater>>
        BY <2>2 DEF PIDTick, pidVars
      <3> QED
        BY <1>1, <3>1 DEF Inv, TypeOK, NoHeatWhenOverheated, Overheated, Silent,
             OutputFollowsPower, RegulatorIsCurrent, PidError
    <2> QED
      BY <2>1, <2>2
  <1>3. StateAgrees'
    BY <1>1, <1>2 DEF Inv, StateAgrees, Overheated, displayVars
  <1>4. DisplayAgrees' /\ SoundHasEnd'
    BY <1>1 DEF Inv, DisplayAgrees, SoundHasEnd, Silent, displayVars, beepVars
  <1>5. TypeOK'
    BY <1>1, <1>2 DEF Inv, TypeOK, TicksType, BeepType, timeVars, displayVars, beepVars
  <1> QED
    BY <1>2, <1>3, <1>4, <1>5 DEF Inv

(* poll() of the controller, whether or not the display time-out is due.   *)
LEMMA CtrlPollInv ==
    ASSUME Inv, CtrlPoll
    PROVE  /\ NoHeatWhenOverheated' /\ OutputFollowsPower' /\ RegulatorIsCurrent'
           /\ StateAgrees' /\ DisplayAgrees'
           /\ setpoint' = setpoint /\ current' = current /\ held' = held
           /\ deadline' = deadline /\ showing' \in BOOLEAN
           /\ state' \in States /\ heaterPower' \in 0..PowerMax
           /\ pid' \in Pids /\ lastPid' \in Instants /\ heater' \in Pwms
           /\ display' \in [label : {"none", "1", "2"}, value : Int]
  <1>1. CASE DisplayTimeout
    <2> DEFINE next == EvaluateState(setpoint, current)
    <2>1. /\ showing' = FALSE /\ DisplayTemperature("1", current)
          /\ ApplyState(next, heaterPower, pid, lastPid)
          /\ UNCHANGED <<setpoint, current, deadline, held>>
      BY <1>1 DEF CtrlPoll
    <2>2. /\ next \in States \ {"Any"}
          /\ next = "Error" <=> Overheated
          /\ next = "Heating" => current < setpoint
          /\ next = "Idle" => current >= setpoint
      BY Types, EvaluateStateEffect DEF Overheated
    <2> HIDE DEF next
    <2>3. /\ state' = next /\ state' \in States
          /\ heaterPower' \in 0..PowerMax /\ pid' \in Pids
          /\ lastPid' \in Instants /\ heater' \in Pwms
          /\ NoHeatWhenOverheated' /\ OutputFollowsPower' /\ RegulatorIsCurrent'
      BY <2>1, <2>2, ReapplyInv
    <2>4. StateAgrees'
      BY <2>1, <2>2, <2>3 DEF StateAgrees, Overheated
    <2>5. DisplayAgrees' /\ display' \in [label : {"none", "1", "2"}, value : Int]
      BY <2>1, Types, DisplayEffect DEF DisplayAgrees
    <2> QED
      BY <2>1, <2>3, <2>4, <2>5
  <1>2. CASE ~DisplayTimeout
    <2>1. UNCHANGED <<setpoint, current, state, held, heaterPower, lastPid, pid,
                      heater, showing, deadline, display>>
      BY <1>2 DEF CtrlPoll, ctrlVars, pidVars, displayVars
    <2> QED
      BY <2>1 DEF Inv, TypeOK, NoHeatWhenOverheated, Overheated, Silent,
           OutputFollowsPower, RegulatorIsCurrent, PidError, StateAgrees, DisplayAgrees
  <1> QED
    BY <1>1, <1>2

(* poll() of the beep manager.                                             *)
LEMMA BeepPollInv ==
    ASSUME Inv, BeepPoll
    PROVE  BeepType' /\ SoundHasEnd'
  <1>1. piezo \in Pwms
    BY DEF Inv, TypeOK, BeepType
  <1>2. CASE BeepOver
    <2>1. piezo' = SetPower(piezo, 0) /\ beepActive' = FALSE /\ beepEnd' = beepEnd
      BY <1>2 DEF BeepPoll
    <2>2. piezo' \in Pwms /\ Silent(piezo')
      BY <1>1, <2>1, SetPowerType, SetPowerZero
    <2> QED
      BY <2>1, <2>2 DEF Inv, TypeOK, BeepType, SoundHasEnd
  <1>3. CASE ~BeepOver
    BY <1>3 DEF BeepPoll, beepVars, Inv, TypeOK, BeepType, SoundHasEnd, Silent
  <1> QED
    BY <1>2, <1>3

(* The polls at the start of a pass and the watchdog reload at its end.    *)
LEMMA PassInv ==
    ASSUME Inv, Pass
    PROVE  Inv'
  <1>1. BeepType' /\ SoundHasEnd'
    BY BeepPollInv DEF Pass
  <1>2. TicksType'
    BY TickAssumption DEF Pass, IwdgReload, Inv, TypeOK, TicksType
  <1>3. TypeOK'
    BY <1>1, <1>2, CtrlPollInv DEF Pass, Inv, TypeOK
  <1> QED
    BY <1>1, <1>3, CtrlPollInv DEF Pass, Inv

(* Any event.                                                              *)
LEMMA DispatchInv ==
    ASSUME Inv, NEW e \in Events, Dispatch(e)
    PROVE  Inv'
  <1>1. CASE Sample(e)
    BY <1>1, SampleInv
  <1>2. CASE Adjust(e)
    BY <1>2, AdjustInv
  <1>3. CASE Key(e)
    BY <1>3, KeyInv
  <1>4. CASE PIDTick(e)
    BY <1>4, PIDTickInv
  <1> QED
    BY <1>1, <1>2, <1>3, <1>4 DEF Dispatch

(* Whatever leaves the controller and the piezo alone.                     *)
LEMMA IdleInv ==
    ASSUME Inv, UNCHANGED <<ctrlVars, beepVars>>, TicksType'
    PROVE  Inv'
  <1>1. UNCHANGED <<setpoint, current, state, held, heaterPower, lastPid, pid, heater,
                    showing, deadline, display, beepActive, beepEnd, piezo>>
    BY DEF ctrlVars, beepVars, pidVars, displayVars
  <1> QED
    BY <1>1 DEF Inv, TypeOK, BeepType, NoHeatWhenOverheated, Overheated, Silent,
         OutputFollowsPower, RegulatorIsCurrent, PidError, StateAgrees, DisplayAgrees,
         SoundHasEnd

LEMMA TickInv ==
    ASSUME Inv, Tick
    PROVE  Inv'
  <1>1. 1 \in 0..(TickMod - 1)
    BY TickAssumption
  <1>2. TicksType'
    BY <1>1, Types, AfterType, TickAssumption
       DEF Tick, SysTick, Inv, TypeOK, TicksType
  <1> QED
    BY <1>2, IdleInv DEF Tick

(* Every step of the specification keeps the invariant.                    *)
LEMMA NextInv == Inv /\ [Next]_vars => Inv'
  <1> SUFFICES ASSUME Inv, [Next]_vars PROVE Inv'
    OBVIOUS
  <1>1. CASE Tick
    BY <1>1, TickInv
  <1>2. CASE Pass
    BY <1>2, PassInv
  <1>3. ASSUME NEW e \in Events, Dispatch(e) PROVE Inv'
    BY <1>3, DispatchInv
  <1>4. CASE UNCHANGED vars
    <2>1. UNCHANGED <<ctrlVars, beepVars>> /\ TicksType'
      BY <1>4 DEF vars, timeVars, Inv, TypeOK, TicksType
    <2> QED
      BY <2>1, IdleInv
  <1> QED
    BY <1>1, <1>2, <1>3, <1>4 DEF Next

(* The inductive invariant holds in every reachable state.                 *)
THEOREM Invariance == Spec => []Inv
  <1> QED
    BY InitInv, NextInv, PTL DEF Spec

(* Type correctness for every value of the constants: in particular the    *)
(* stored power never leaves the scale of setPower.                        *)
THEOREM TypeCorrect == Spec => []TypeOK
  <1>1. Inv => TypeOK
    BY DEF Inv
  <1> QED
    BY <1>1, Invariance, PTL

(* No heating above the limit, for every setpoint range, sample set,       *)
(* regulator coefficients and clock width.                                 *)
THEOREM HeaterSafe == Spec => []NoHeatWhenOverheated
  <1>1. Inv => NoHeatWhenOverheated
    BY DEF Inv
  <1> QED
    BY <1>1, Invariance, PTL

(* The heater's timer always carries the stored power.                     *)
THEOREM OutputSound == Spec => []OutputFollowsPower
  <1>1. Inv => OutputFollowsPower
    BY DEF Inv
  <1> QED
    BY <1>1, Invariance, PTL

(* The state of the machine agrees with the temperatures.                  *)
THEOREM StateSound == Spec => []StateAgrees
  <1>1. Inv => StateAgrees
    BY DEF Inv
  <1> QED
    BY <1>1, Invariance, PTL

(* The regulator's memory is always about the present setpoint and sample. *)
THEOREM RegulatorSound == Spec => []RegulatorIsCurrent
  <1>1. Inv => RegulatorIsCurrent
    BY DEF Inv
  <1> QED
    BY <1>1, Invariance, PTL

(* The display never shows an old value or the wrong label.                *)
THEOREM DisplaySound == Spec => []DisplayAgrees
  <1>1. Inv => DisplayAgrees
    BY DEF Inv
  <1> QED
    BY <1>1, Invariance, PTL

(* No sound without an end.                                                *)
THEOREM SoundEnds == Spec => []SoundHasEnd
  <1>1. Inv => SoundHasEnd
    BY DEF Inv
  <1> QED
    BY <1>1, Invariance, PTL

-----------------------------------------------------------------------------
(* The heater's output for a stored power is one of the thermostat's       *)
(* levels.                                                                 *)
LEMMA HeatLevel ==
    ASSUME Inv
    PROVE  heater.ccr \in HeatLevels
  <1>1. heaterPower \in 0..PowerMax
    BY Types
  <1> QED
    BY <1>1 DEF Inv, OutputFollowsPower, HeatLevels

(* An applyState that keeps temperatures, power and regulator does not     *)
(* change the output: outside Error it writes the value that is there, and *)
(* in Error that value is 0 already.                                       *)
LEMMA ReapplyKeepsHeat ==
    ASSUME Inv, Inv', NEW ns \in States,
           ns = "Error" => Overheated,
           ApplyState(ns, heaterPower, pid, lastPid)
    PROVE  heater'.ccr = heater.ccr
  <1>1. heaterPower' = IF ns = "Error" THEN 0 ELSE heaterPower
    BY DEF ApplyState
  <1>2. heaterPower' = heaterPower
    BY <1>1 DEF Inv, NoHeatWhenOverheated
  <1> QED
    BY <1>2 DEF Inv, OutputFollowsPower

(* What the heater's observer sees of a step that leaves it alone.         *)
HeatStutter == UNCHANGED <<setpoint, current, heater.ccr>>

(* Every event is a step of the abstract thermostat, or leaves its         *)
(* variables alone.                                                        *)
LEMMA DispatchRefines ==
    ASSUME Inv, Inv', NEW e \in Events, Dispatch(e)
    PROVE  Abstract!TNext \/ HeatStutter
  <1>1. ASSUME Sample(e) PROVE Abstract!TNext
    <2>1. /\ e.value \in Temps /\ current' = e.value /\ setpoint' = setpoint
      BY <1>1, ControllerAssumption DEF Sample, SampleEvents, TemperatureSample
    <2>2. heater'.ccr \in HeatLevels
      <3>1. /\ heaterPower' \in 0..PowerMax
            /\ heater' = SetPower(PwmInit(HeaterArr), heaterPower')
        BY DEF Inv, TypeOK, OutputFollowsPower
      <3> QED
        BY <3>1 DEF HeatLevels
    <2>3. Abstract!TooHot(e.value) => heater'.ccr = 0
      BY <2>1 DEF Inv, NoHeatWhenOverheated, Overheated, Silent, Abstract!TooHot
    <2>4. Abstract!Measure(e.value)
      BY <2>1, <2>2, <2>3 DEF Abstract!Measure
    <2> QED
      BY <2>1, <2>4 DEF Abstract!TNext
  <1>2. ASSUME Adjust(e) PROVE Abstract!TNext
    <2> DEFINE sp == AdjustedSetpoint(e.type)
    <2>1. /\ setpoint' = sp /\ current' = current
          /\ ApplyState(EvaluateState(sp, current), 0, ResetPid, now)
      BY <1>2 DEF Adjust, AdjustSetpoint
    <2>2. /\ sp \in SetpointMin..SetpointMax
          /\ sp \in {setpoint - SetpointStep, setpoint + SetpointStep,
                     SetpointMin, SetpointMax}
      BY Types, Constants DEF AdjustedSetpoint
    <2>3. heaterPower' = 0
      BY <2>1 DEF ApplyState
    <2>4. heater'.ccr = 0
      BY <2>3, PwmInitType, SetPowerZero, Constants
         DEF Inv, OutputFollowsPower, Silent
    <2>5. Abstract!Touch
      BY <2>1, <2>2, <2>4 DEF Abstract!Touch
    <2> QED
      BY <2>5 DEF Abstract!TNext
  <1>3. ASSUME Key(e) PROVE HeatStutter
    <2>1. /\ ApplyState("Any", heaterPower, pid, lastPid)
          /\ UNCHANGED <<setpoint, current>>
      BY <1>3 DEF Key, BeepRow
    <2> QED
      BY <2>1, ReapplyKeepsHeat DEF States, HeatStutter
  <1>4. ASSUME PIDTick(e) PROVE HeatStutter
    <2>1. UNCHANGED <<setpoint, current>>
      BY <1>4 DEF PIDTick
    <2>2. CASE state \in {"Idle", "Heating"}
      BY <1>4, <2>1, <2>2, ReapplyKeepsHeat DEF PIDTick, States, HeatStutter
    <2>3. CASE state \notin {"Idle", "Heating"}
      BY <1>4, <2>1, <2>3 DEF PIDTick, pidVars, HeatStutter
    <2> QED
      BY <2>2, <2>3
  <1> QED
    BY <1>1, <1>2, <1>3, <1>4 DEF Dispatch

(* The time-out of the display does not reach the heater: the power it     *)
(* writes again is the one the output carries.                             *)
LEMMA CtrlPollRefines ==
    ASSUME Inv, Inv', CtrlPoll
    PROVE  HeatStutter
  <1>1. UNCHANGED <<setpoint, current>>
    BY CtrlPollInv
  <1>2. CASE DisplayTimeout
    <2>1. ApplyState(EvaluateState(setpoint, current), heaterPower, pid, lastPid)
      BY <1>2 DEF CtrlPoll
    <2>2. /\ EvaluateState(setpoint, current) \in States
          /\ EvaluateState(setpoint, current) = "Error" => Overheated
      BY Types, EvaluateStateEffect DEF Overheated
    <2> QED
      BY <1>1, <2>1, <2>2, ReapplyKeepsHeat DEF HeatStutter
  <1>3. CASE ~DisplayTimeout
    BY <1>1, <1>3 DEF CtrlPoll, ctrlVars, pidVars, HeatStutter
  <1> QED
    BY <1>2, <1>3

(* A stutter of the observed variables is a stutter of the thermostat.     *)
LEMMA HeatStutters == HeatStutter => UNCHANGED Abstract!tvars
  BY DEF HeatStutter, Abstract!tvars

(* Every step of the controller is a step of the thermostat or a stutter.  *)
LEMMA StepRefines ==
    ASSUME Inv, Inv', [Next]_vars
    PROVE  [Abstract!TNext]_(Abstract!tvars)
  <1>1. CASE Tick
    BY <1>1, HeatStutters DEF Tick, ctrlVars, pidVars, HeatStutter
  <1>2. CASE Pass
    BY <1>2, CtrlPollRefines, HeatStutters DEF Pass
  <1>3. CASE UNCHANGED vars
    BY <1>3, HeatStutters DEF vars, ctrlVars, pidVars, HeatStutter
  <1>4. ASSUME NEW e \in Events, Dispatch(e)
        PROVE  [Abstract!TNext]_(Abstract!tvars)
    BY <1>4, DispatchRefines, HeatStutters
  <1> QED
    BY <1>1, <1>2, <1>3, <1>4 DEF Next

(* The controller starts like the thermostat.                              *)
LEMMA InitRefines == Init => Abstract!TInit
  <1> SUFFICES ASSUME Init PROVE Abstract!TInit
    OBVIOUS
  <1>1. heater.ccr = 0
    BY PwmInitType, Constants DEF Init, Silent
  <1> QED
    BY <1>1 DEF Init, Abstract!TInit

(* The controller implements the thermostat: its heater is driven only by  *)
(* a new sample, and is off after a sample above the limit and after every *)
(* setpoint key until the next sample.                                     *)
THEOREM Implementation == Spec => ImplementsThermostat
  <1>1. Init => Abstract!TInit
    BY InitRefines
  <1>2. Inv /\ Inv' /\ [Next]_vars => [Abstract!TNext]_(Abstract!tvars)
    BY StepRefines
  <1> QED
    BY <1>1, <1>2, Invariance, PTL DEF Spec, ImplementsThermostat, Abstract!TSpec
=============================================================================
