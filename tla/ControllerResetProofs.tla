------------------------- MODULE ControllerResetProofs ------------------------
(***************************************************************************)
(* The interval the regulator is charged with begins at or after its last   *)
(* reset, for every width of the clock and every value of the constants.    *)
(***************************************************************************)
EXTENDS MCControllerReset, ControllerProofs

(* The history variable counts up to the largest interval the clock can    *)
(* tell.                                                                   *)
SinceType == sinceReset \in 0..(TickMod - 1)
ResetInv == Inv /\ SinceType /\ IntervalAfterReset

(* An interval is less than the modulus of the clock; a tick lengthens it  *)
(* by one, or starts it again from nothing.                                *)
LEMMA ElapsedTick ==
    ASSUME NEW a \in Instants, NEW b \in Instants
    PROVE  /\ Elapsed(a, a) = 0 /\ Elapsed(a, b) \in 0..(TickMod - 1)
           /\ After(a, 1) \in Instants /\ After(a, 1) # a
           /\ Elapsed(After(a, 1), b) <= Elapsed(a, b) + 1
           /\ Elapsed(After(a, 1), b) <= TickMod - 1
  BY TickAssumption DEF Instants, After, Elapsed

(* What the history variable does.                                         *)
LEMMA CountEffect ==
    ASSUME SinceType, Count
    PROVE  /\ SinceType' /\ sinceReset' \in Nat
           /\ now' = now /\ ~ResetStep => sinceReset' = sinceReset
  <1>1. TickMod \in Nat /\ TickMod > 1
    BY TickAssumption
  <1>2. sinceReset' \in 0..(TickMod - 1)
    <2> HIDE DEF ResetStep
    <2> QED
      BY <1>1 DEF SinceType, Count
  <1> QED
    BY <1>1, <1>2 DEF SinceType, Count

(* Every step that resets the regulator and does not end in Error stamps   *)
(* it with the present instant.                                            *)
LEMMA ResetStamps ==
    ASSUME ResetStep, state' # "Error"
    PROVE  lastPid' = now
  <1>1. CASE AdjustStep
    <2>1. PICK e \in Events : Adjust(e)
      BY <1>1 DEF AdjustStep
    <2>2. ApplyState(EvaluateState(AdjustedSetpoint(e.type), current), 0, ResetPid, now)
      BY <2>1 DEF Adjust, AdjustSetpoint
    <2> QED
      BY <2>2 DEF ApplyState
  <1>2. CASE state = "Error" /\ \E e \in Events : Sample(e)
    <2>1. PICK e \in Events : Sample(e)
      BY <1>2
    <2>2. PICK ns, power, r, stamp : ApplyState(ns, power, r, stamp)
      BY <2>1 DEF Sample, TemperatureSample
    <2> QED
      BY <1>2, <2>2 DEF ApplyState
  <1> QED
    BY <1>1, <1>2 DEF ResetStep

(* A step keeps the interval after the last reset if it stamps the         *)
(* regulator anew, keeps a stamp that was not one of Error, or ends there. *)
LEMMA StampSound ==
    ASSUME ResetInv, Count, now' = now,
           state' # "Error" => \/ lastPid' = now
                               \/ lastPid' = lastPid /\ state # "Error"
    PROVE  IntervalAfterReset'
  <1>1. now \in Instants /\ sinceReset' \in Nat
    BY Types, CountEffect DEF ResetInv
  <1>2. CASE state' = "Error"
    BY <1>2 DEF IntervalAfterReset
  <1>3. CASE lastPid' = now
    <2>1. Elapsed(now', lastPid') = 0
      BY <1>1, <1>3, ElapsedTick
    <2> QED
      BY <1>1, <2>1 DEF IntervalAfterReset
  <1>4. CASE state' # "Error" /\ lastPid' # now
    <2>1. lastPid' = lastPid /\ state # "Error" /\ ~ResetStep
      BY <1>4, ResetStamps
    <2>2. sinceReset' = sinceReset
      BY <2>1, CountEffect DEF ResetInv
    <2> QED
      BY <2>1, <2>2 DEF ResetInv, IntervalAfterReset
  <1> QED
    BY <1>2, <1>3, <1>4

(* A tick of the clock is counted by the history variable too.             *)
LEMMA TickCounts ==
    ASSUME ResetInv, Tick, Count
    PROVE  IntervalAfterReset'
  <1>1. now' = After(now, 1) /\ lastPid' = lastPid /\ state' = state
    BY DEF Tick, SysTick, ctrlVars, pidVars
  <1>2. now \in Instants /\ lastPid \in Instants
    BY Types DEF ResetInv
  <1>3. /\ Elapsed(now', lastPid') <= Elapsed(now, lastPid) + 1
        /\ Elapsed(now', lastPid') <= TickMod - 1
        /\ Elapsed(now, lastPid) \in 0..(TickMod - 1)
        /\ now' \in Instants /\ now' # now
    BY <1>1, <1>2, ElapsedTick
  <1>4. CASE state = "Error"
    BY <1>1, <1>4 DEF IntervalAfterReset
  <1>5. CASE state # "Error"
    <2>1. ~ResetStep
      BY <1>1, <1>3, <1>5 DEF ResetStep, AdjustStep, Adjust, timeVars
    <2>2. sinceReset' = IF sinceReset < TickMod - 1 THEN sinceReset + 1 ELSE sinceReset
      BY <1>3, <2>1 DEF Count
    <2>3. Elapsed(now, lastPid) <= sinceReset /\ sinceReset \in 0..(TickMod - 1)
      BY <1>5 DEF ResetInv, IntervalAfterReset, SinceType
    <2>4. TickMod \in Nat /\ Elapsed(now', lastPid') \in Int
      BY <1>1, <1>2, <1>3, ElapsedTick, TickAssumption
    <2>5. Elapsed(now', lastPid') <= sinceReset'
      BY <1>3, <2>2, <2>3, <2>4
    <2> QED
      BY <2>5 DEF IntervalAfterReset
  <1> QED
    BY <1>4, <1>5

(* The poll of the controller.                                             *)
LEMMA PassStamps ==
    ASSUME CtrlPoll, state' # "Error"
    PROVE  lastPid' = now \/ (lastPid' = lastPid /\ state # "Error")
  BY DEF CtrlPoll, ApplyState, ctrlVars, pidVars

(* The events.                                                             *)
LEMMA DispatchStamps ==
    ASSUME NEW e \in Events, Dispatch(e), state' # "Error"
    PROVE  lastPid' = now \/ (lastPid' = lastPid /\ state # "Error")
  <1>1. CASE Sample(e)
    <2> DEFINE next == EvaluateState(setpoint, e.value)
    <2>1. PICK power, r, stamp :
             /\ ApplyState(next, power, r, stamp)
             /\ next # "Error" => stamp = now
      BY <1>1 DEF Sample, TemperatureSample
    <2> HIDE DEF next
    <2> QED
      BY <2>1 DEF ApplyState
  <1>2. CASE Adjust(e)
    <2>1. ApplyState(EvaluateState(AdjustedSetpoint(e.type), current), 0, ResetPid, now)
      BY <1>2 DEF Adjust, AdjustSetpoint
    <2> QED
      BY <2>1 DEF ApplyState
  <1>3. CASE Key(e)
    <2>1. ApplyState("Any", heaterPower, pid, lastPid)
      BY <1>3 DEF Key, BeepRow
    <2> QED
      BY <2>1 DEF ApplyState
  <1>4. CASE PIDTick(e)
    BY <1>4 DEF PIDTick, ApplyState, pidVars
  <1> QED
    BY <1>1, <1>2, <1>3, <1>4 DEF Dispatch

LEMMA ResetInvNext == ResetInv /\ [MCNext]_<<vars, sinceReset>> => ResetInv'
  <1> SUFFICES ASSUME ResetInv, [MCNext]_<<vars, sinceReset>> PROVE ResetInv'
    OBVIOUS
  <1>1. Inv'
    <2>1. [Next]_vars
      BY DEF MCNext, Next
    <2> QED
      BY <2>1, NextInv DEF ResetInv
  <1>2. CASE Tick /\ Count
    BY <1>1, <1>2, TickCounts, CountEffect DEF ResetInv
  <1>3. CASE Pass /\ Count
    <2>1. now' = now /\ CtrlPoll
      BY <1>3 DEF Pass, IwdgReload
    <2> QED
      BY <1>1, <1>3, <2>1, PassStamps, StampSound, CountEffect DEF ResetInv
  <1>4. ASSUME NEW e \in Events, Dispatch(e), Count PROVE ResetInv'
    <2>1. now' = now
      BY <1>4 DEF Dispatch, Sample, Adjust, Key, PIDTick, timeVars
    <2> QED
      BY <1>1, <1>4, <2>1, DispatchStamps, StampSound, CountEffect DEF ResetInv
  <1>5. CASE UNCHANGED <<vars, sinceReset>>
    BY <1>1, <1>5 DEF vars, ctrlVars, pidVars, timeVars, ResetInv, SinceType,
         IntervalAfterReset
  <1> QED
    BY <1>2, <1>3, <1>4, <1>5 DEF MCNext

(* The regulator never integrates over time before its last reset.         *)
THEOREM ChargedAfterReset == MCSpec => []IntervalAfterReset
  <1>1. MCInit => ResetInv
    <2> SUFFICES ASSUME MCInit PROVE ResetInv
      OBVIOUS
    <2>1. Inv /\ sinceReset = 0 /\ now = 0 /\ lastPid = 0
      BY InitInv DEF MCInit, Init, TicksInit
    <2>2. Elapsed(now, lastPid) = 0 /\ 0 \in 0..(TickMod - 1)
      BY <2>1, TickAssumption DEF Elapsed
    <2> QED
      BY <2>1, <2>2 DEF ResetInv, SinceType, IntervalAfterReset
  <1>2. ResetInv => IntervalAfterReset
    BY DEF ResetInv
  <1> QED
    BY <1>1, <1>2, ResetInvNext, PTL DEF MCSpec
=============================================================================
