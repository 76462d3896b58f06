----------------------------- MODULE BeepManager -----------------------------
(***************************************************************************)
(* services/BeepManager/BeepManager.hpp: the piezo sounds for a fixed time  *)
(* after a request, and poll() of the superloop ends the sound.             *)
(***************************************************************************)
EXTENDS Ticks, PwmDriver

CONSTANTS
    BeepPower,      \* BEEP_POWER_PERCENT, the power of a beep, 0..1000
    BeepFrequency,  \* BEEP_FREQUENCY_HZ
    BeepDuration,   \* BEEP_DURATION_MS
    PiezoArr        \* PIEZO_ARR, the period the piezo's timer starts with

ASSUME BeepAssumption ==
    /\ BeepPower \in 0..PowerMax
    /\ BeepFrequency \in Nat \ {0}
    /\ BeepDuration \in 0..(TickMod - 1)
    /\ PiezoArr \in Nat

VARIABLES
    beepActive,     \* m_active
    beepEnd,        \* m_endTime
    piezo           \* the PWM output m_driver

beepVars == <<beepActive, beepEnd, piezo>>

BeepInit ==
    /\ beepActive = FALSE
    /\ beepEnd = 0
    /\ piezo = PwmInit(PiezoArr)

(* Mutant of RequestBeep: a sounding beep keeps its end.                   *)
MutBeepKeepsEnd ==
    /\ beepActive' = TRUE
    /\ piezo' = SetFrequency(SetPower(piezo, BeepPower), BeepFrequency)
    /\ beepEnd' = IF beepActive THEN beepEnd ELSE After(now, BeepDuration)

(* requestBeep().                                                          *)
RequestBeep ==
    /\ beepActive' = TRUE
    /\ piezo' = SetFrequency(SetPower(piezo, BeepPower), BeepFrequency)
    /\ beepEnd' = After(now, BeepDuration)

(* Mutant of BeepOver: only the exact instant ends the beep.               *)
MutBeepOverExact == beepActive /\ now = beepEnd

(* The end of a beep is compared as a plain number, unlike the other       *)
(* deadlines of the firmware: it does not survive a wrap of the counter.   *)
BeepOver == beepActive /\ now >= beepEnd

(* poll().                                                                 *)
BeepPoll ==
    \/ /\ BeepOver
       /\ piezo' = SetPower(piezo, 0)
       /\ beepActive' = FALSE
       /\ UNCHANGED beepEnd
    \/ ~BeepOver /\ UNCHANGED beepVars

BeepType ==
    /\ beepActive \in BOOLEAN
    /\ beepEnd \in Instants
    /\ piezo \in Pwms
=============================================================================
