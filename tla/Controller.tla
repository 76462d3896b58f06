------------------------------ MODULE Controller ------------------------------
(***************************************************************************)
(* services/Controller: the thermostat.  A table-driven state machine that  *)
(* reacts to events (a temperature sample, the keys, a 100 ms tick), drives *)
(* the heater with a PID regulator and decides what the indicator shows.    *)
(* app/event_dispatcher.cpp, the only caller of processEvent, is part of    *)
(* the event actions.                                                       *)
(***************************************************************************)
EXTENDS BeepManager, PIDInt

CONSTANTS
    SetpointDefault, SetpointMin, SetpointMax, SetpointStep,
    ErrorDelta,                 \* overheating that is an error
    SetpointDisplayDuration,    \* how long the setpoint stays on display
    DisplayMin, DisplayMax,     \* what the indicator can show
    HeaterArr,                  \* HEATER_ARR, period of the heater's PWM
    Buttons,                    \* the keys in use, among S1..S4
    Temps                       \* the samples the sensor may deliver

ASSUME ControllerAssumption ==
    /\ {SetpointDefault, SetpointMin, SetpointMax, DisplayMin, DisplayMax}
         \subseteq Int
    /\ SetpointDefault \in SetpointMin..SetpointMax
    /\ SetpointDefault + ErrorDelta >= 0    \* it starts in Idle, with m_current = 0
    /\ SetpointStep \in Nat /\ ErrorDelta \in Nat
    /\ SetpointDisplayDuration \in 0..(TickMod - 1)
    /\ DisplayMin <= DisplayMax
    /\ HeaterArr \in Nat
    /\ Buttons \subseteq {"S1", "S2", "S3", "S4"}
    /\ Temps \subseteq Int
    /\ OutMin = 0 /\ OutMax = PowerMax

VARIABLES
    setpoint, current,      \* m_setpoint, m_current, tenths of a degree
    state,                  \* m_state
    showing, deadline,      \* m_showingSetpoint, m_setpointDisplayDeadline
    heaterPower, lastPid,   \* m_heaterPower, m_lastPidTimestamp
    held,                   \* m_s1Held and m_s2Held
    pid,                    \* m_pid
    heater,                 \* the PWM output m_heater
    display                 \* label and value on m_display

pidVars     == <<heaterPower, lastPid, pid, heater>>
displayVars == <<showing, deadline, display>>
timeVars    == <<now, iwdg>>
ctrlVars    == <<setpoint, current, state, held, pidVars, displayVars>>
vars        == <<ctrlVars, beepVars, timeVars>>

(* Any is the wildcard of the transition table, but it is a State too.     *)
States == {"Idle", "Heating", "Error", "Any"}
Blank  == [label |-> "none", value |-> 0]

SampleEvents == [type : {"TemperatureReady"}, value : Temps]
TickEvents   == [type : {"Tick100ms"}, value : {0}]
ButtonEvents ==     \* press, hold, release, double; short and long combination
    [type : Buttons, value : 0..3] \cup [type : Buttons \cap {"S1"}, value : {9, 10}]
Events == SampleEvents \cup TickEvents \cup ButtonEvents

Init ==
    /\ TicksInit /\ BeepInit
    /\ setpoint = SetpointDefault /\ current = 0
    /\ state = "Idle"
    /\ showing = FALSE /\ deadline = 0 /\ display = Blank
    /\ heaterPower = 0 /\ lastPid = 0 /\ pid = ResetPid
    /\ held = [b \in {"S1", "S2"} |-> FALSE]
    /\ heater = PwmInit(HeaterArr)
-----------------------------------------------------------------------------
(* evaluateState(), of a setpoint and a measured temperature.              *)
EvaluateState(sp, t) ==
    IF t > sp + ErrorDelta THEN "Error"
    ELSE IF t < sp THEN "Heating" ELSE "Idle"

(* Mutants of ApplyState: an error leaves the timer alone; the timer is    *)
(* only written when the state changes.                                    *)
MutErrorKeepsOutput(newState, power, regulator, stamp) ==
    LET error == newState = "Error"
    IN /\ state' = newState
       /\ heaterPower' = IF error THEN 0 ELSE power
       /\ pid' = IF error THEN ResetPid ELSE regulator
       /\ lastPid' = IF ~error /\ state = "Error" THEN now ELSE stamp
       /\ heater' = IF error THEN heater ELSE SetPower(heater, heaterPower')

MutOutputOnChange(newState, power, regulator, stamp) ==
    LET error == newState = "Error"
    IN /\ state' = newState
       /\ heaterPower' = IF error THEN 0 ELSE power
       /\ pid' = IF error THEN ResetPid ELSE regulator
       /\ lastPid' = IF ~error /\ state = "Error" THEN now ELSE stamp
       /\ heater' = IF newState = state THEN heater ELSE SetPower(heater, heaterPower')

(* applyState(newState) with updateOutputsFor, after an action that left   *)
(* the power, the regulator and the time stamp in the arguments.           *)
ApplyState(newState, power, regulator, stamp) ==
    LET error == newState = "Error"
    IN /\ state' = newState
       /\ heaterPower' = IF error THEN 0 ELSE power
       /\ pid' = IF error THEN ResetPid ELSE regulator
       /\ lastPid' = IF ~error /\ state = "Error" THEN now ELSE stamp
       /\ heater' = SetPower(heater, heaterPower')

(* displayTemperature(label, value).                                       *)
DisplayTemperature(label, value) ==
    display' = [label |-> label, value |-> Clamp(value, DisplayMin, DisplayMax)]

(* actionTemperatureSample and the row that runs it.                       *)
TemperatureSample(t) ==
    LET next  == EvaluateState(setpoint, t)
        fresh == state = "Error"        \* the sample ends an overheating
        since == IF fresh THEN now ELSE lastPid
        dt    == IF now = since THEN 1 ELSE Elapsed(now, since)
        step  == PidUpdate(IF fresh THEN ResetPid ELSE pid, setpoint, t, dt)
    IN /\ current' = t
       /\ IF showing THEN UNCHANGED display ELSE DisplayTemperature("1", t)
       /\ IF next = "Error"
          THEN ApplyState(next, 0, pid, lastPid)
          ELSE ApplyState(next, step.out, step.pid, now)
       /\ UNCHANGED <<setpoint, showing, deadline, held>>

(* Mutant of AdjustedSetpoint: the limits are not tested.                  *)
MutAdjustedUnlimited(b) ==
    IF b = "S1" THEN setpoint - SetpointStep ELSE setpoint + SetpointStep

AdjustedSetpoint(b) ==
    IF b = "S1"
    THEN IF setpoint - SetpointStep < SetpointMin
         THEN SetpointMin ELSE setpoint - SetpointStep
    ELSE IF setpoint + SetpointStep > SetpointMax
         THEN SetpointMax ELSE setpoint + SetpointStep

(* Mutants of AdjustSetpoint: the parts of the action with one of them     *)
(* wrong.                                                                  *)
MutAdjust(sp, shown, level, power, regulator, stamp) ==
    /\ setpoint' = sp
    /\ showing' = TRUE
    /\ deadline' = After(now, SetpointDisplayDuration)
    /\ DisplayTemperature("2", shown)
    /\ ApplyState(EvaluateState(level, current), power, regulator, stamp)
    /\ UNCHANGED current

MutAdjustKeepsRegulator(b) == LET sp == AdjustedSetpoint(b) IN MutAdjust(sp, sp, sp, 0, pid, now)
MutAdjustOldLevel(b) == LET sp == AdjustedSetpoint(b) IN MutAdjust(sp, sp, setpoint, 0, ResetPid, now)
MutAdjustKeepsPower(b) == LET sp == AdjustedSetpoint(b) IN MutAdjust(sp, sp, sp, heaterPower, ResetPid, now)
MutAdjustShowsOld(b) == LET sp == AdjustedSetpoint(b) IN MutAdjust(sp, setpoint, sp, 0, ResetPid, now)
MutAdjustKeepsStamp(b) == LET sp == AdjustedSetpoint(b) IN MutAdjust(sp, sp, sp, 0, ResetPid, lastPid)

(* actionDecreaseSetpoint (S1) and actionIncreaseSetpoint (S2).            *)
AdjustSetpoint(b) ==
    LET sp == AdjustedSetpoint(b)
    IN /\ setpoint' = sp
       /\ showing' = TRUE
       /\ deadline' = After(now, SetpointDisplayDuration)
       /\ DisplayTemperature("2", sp)
       /\ ApplyState(EvaluateState(sp, current), 0, ResetPid, now)
       /\ UNCHANGED current

(* The guards of the S1 and S2 rows: a hold, or a release that no hold     *)
(* preceded.                                                               *)
AdjustsSetpoint(e) ==
    /\ e.type \in {"S1", "S2"}
    /\ e.value = 1 \/ (e.value = 2 /\ ~held[e.type])

(* The first statements of processEvent.                                   *)
UpdateHeld(e) ==
    held' = IF e.type \in {"S1", "S2"} /\ e.value \in {0, 1}
            THEN [held EXCEPT ![e.type] = (e.value = 1)]
            ELSE held

(* Mutant of DispatchPiezo: a hold switches the piezo on.                  *)
MutHoldSounds(e) ==
    CASE e.value = 1 -> SetPower(piezo, 500)
      [] e.value = 2 -> SetPower(piezo, 0)
      [] OTHER       -> piezo

(* dispatch_event: a press and a release switch the piezo.                 *)
DispatchPiezo(e) ==
    CASE e.value = 0 -> SetPower(piezo, 500)
      [] e.value = 2 -> SetPower(piezo, 0)
      [] OTHER       -> piezo

KeepBeep(e) == piezo' = DispatchPiezo(e) /\ UNCHANGED <<beepActive, beepEnd>>

(* actionBeep; its rows name Any as the state to go to.                    *)
BeepRow(e) ==
    /\ IF e.value = 0 THEN RequestBeep ELSE KeepBeep(e)
    /\ ApplyState("Any", heaterPower, pid, lastPid)
    /\ UNCHANGED <<setpoint, current, displayVars>>

(* dispatch_event(e) with processEvent(e): one action per kind of event.   *)
Sample(e) ==
    /\ e \in SampleEvents
    /\ TemperatureSample(e.value)
    /\ UNCHANGED <<beepVars, timeVars>>

Adjust(e) ==
    /\ e \in ButtonEvents /\ AdjustsSetpoint(e)
    /\ UpdateHeld(e) /\ KeepBeep(e) /\ AdjustSetpoint(e.type)
    /\ UNCHANGED timeVars

Key(e) ==
    /\ e \in ButtonEvents /\ ~AdjustsSetpoint(e)
    /\ UpdateHeld(e) /\ BeepRow(e)
    /\ UNCHANGED timeVars

(* Only Idle and Heating have a row for the periodic tick.                 *)
PIDTick(e) ==
    /\ e \in TickEvents
    /\ IF state \in {"Idle", "Heating"}
       THEN ApplyState(state, heaterPower, pid, lastPid)
       ELSE UNCHANGED <<state, pidVars>>
    /\ UNCHANGED <<setpoint, current, held, displayVars, beepVars, timeVars>>

(* dispatch_event(e).                                                      *)
Dispatch(e) == Sample(e) \/ Adjust(e) \/ Key(e) \/ PIDTick(e)

(* Mutant of DisplayTimeout: the instants are compared as numbers.         *)
MutTimeoutUnwrapped == showing /\ now >= deadline

DisplayTimeout == showing /\ TimeReached(now, deadline)

(* poll(): ensureDisplayTimeout.                                           *)
CtrlPoll ==
    \/ /\ DisplayTimeout
       /\ showing' = FALSE
       /\ DisplayTemperature("1", current)
       /\ ApplyState(EvaluateState(setpoint, current), heaterPower, pid, lastPid)
       /\ UNCHANGED <<setpoint, current, deadline, held>>
    \/ ~DisplayTimeout /\ UNCHANGED ctrlVars

(* The polls of a pass of app_loop and the watchdog reload that ends it.   *)
Pass == CtrlPoll /\ BeepPoll /\ IwdgReload

Tick == SysTick /\ UNCHANGED <<ctrlVars, beepVars>>

Next == Tick \/ Pass \/ \E e \in Events : Dispatch(e)

(* SysTick is a hardware interrupt and the superloop never blocks.         *)
Spec == Init /\ [][Next]_vars /\ WF_vars(Tick) /\ WF_vars(Pass)
-----------------------------------------------------------------------------
(* The type invariant: every field of the controller keeps the range its   *)
(* declaration gives it; the power stays within the scale of setPower.     *)
TypeOK ==
    /\ setpoint \in SetpointMin..SetpointMax
    /\ current \in Temps \cup {0}
    /\ state \in States
    /\ showing \in BOOLEAN /\ deadline \in Instants
    /\ heaterPower \in 0..PowerMax /\ lastPid \in Instants
    /\ held \in [{"S1", "S2"} -> BOOLEAN]
    /\ pid \in Pids
    /\ heater \in Pwms
    /\ display \in [label : {"none", "1", "2"}, value : Int]
    /\ TicksType /\ BeepType

Overheated == current > setpoint + ErrorDelta

(* No heating above the limit: in no interleaving of samples, keys, ticks  *)
(* and time-outs is the heater driven, or a power kept for later, while    *)
(* the last sample exceeds the setpoint by more than ErrorDelta - not even *)
(* in the wildcard state, whose output code does not test for an error.    *)
NoHeatWhenOverheated == Overheated => heaterPower = 0 /\ Silent(heater)

(* The heater always carries the stored power: no path through the table   *)
(* changes m_heaterPower and leaves the timer with another duty cycle.     *)
OutputFollowsPower == heater = SetPower(PwmInit(HeaterArr), heaterPower)

(* The regulator's memory is about the current setpoint and the current    *)
(* sample: after a change of either that does not run it, it is reset. So  *)
(* its derivative never sees a step that a key press made, and a power     *)
(* other than 0 was computed for the present setpoint and sample.          *)
RegulatorIsCurrent ==
    /\ pid.hasPrev => pid.prevError = PidError(setpoint, current) /\ ~Overheated
    /\ heaterPower # 0 => pid.hasPrev

(* The state of the machine agrees with the temperatures, except that it   *)
(* may be the wildcard Any, and that it is Idle until the first event.     *)
StateAgrees ==
    /\ state = "Error" => Overheated
    /\ Overheated => state \in {"Error", "Any"}
    /\ state = "Heating" => current < setpoint
    /\ state = "Idle" => current >= setpoint \/ display = Blank

(* The indicator shows the setpoint exactly while m_showingSetpoint holds, *)
(* and otherwise the last sample, both as they are now: no sample, key or  *)
(* time-out leaves an old value or the wrong label on it.                  *)
DisplayAgrees ==
    /\ showing => display # Blank
    /\ display # Blank =>
        LET shown == IF showing THEN setpoint ELSE current
        IN display = [label |-> IF showing THEN "2" ELSE "1",
                      value |-> Clamp(shown, DisplayMin, DisplayMax)]

(* A sounding piezo has a pending end: whatever order presses and releases *)
(* of the keys arrive in, some later poll still has to switch it off.      *)
SoundHasEnd == ~Silent(piezo) => beepActive

(* The setpoint does not stay on the display: unless the keys go on        *)
(* changing it for ever, the measured temperature comes back.              *)
AdjustStep == \E e \in Events : Adjust(e)
DisplayReverts == <>[][~AdjustStep]_vars => []<>~showing

(* The controller implements the abstract thermostat, with the compare     *)
(* value of the heater's timer as the heat.                                *)
HeatLevels == {SetPower(PwmInit(HeaterArr), p).ccr : p \in 0..PowerMax}
Abstract == INSTANCE Thermostat
    WITH Default <- SetpointDefault, Lowest <- SetpointMin,
         Highest <- SetpointMax, Step <- SetpointStep, Delta <- ErrorDelta,
         Samples <- Temps, Levels <- HeatLevels,
         target <- setpoint, measured <- current, heat <- heater.ccr
ImplementsThermostat == Abstract!TSpec
=============================================================================
