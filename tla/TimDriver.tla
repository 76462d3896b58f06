------------------------------ MODULE TimDriver ------------------------------
(***************************************************************************)
(* The TimDriver class of drivers/base/TimDriver.hpp, as TIM17 and the      *)
(* superloop share it: the interrupt counts update events, app_loop takes   *)
(* one off per pass and turns every hundredth into a Tick100ms event.  The  *)
(* decrement is a load and a store that the interrupt can come between.     *)
(***************************************************************************)
EXTENDS Naturals

CONSTANTS
    IrqMod,             \* number of values of the uint16_t counter, 2^16
    TicksPer100         \* APP_LOOP_TICKS_PER_100MS

ASSUME TimAssumption ==
    /\ IrqMod \in Nat /\ IrqMod > 1
    /\ TicksPer100 \in 1..255       \* compared with a uint8_t

VARIABLES
    irqCount,           \* m_irqCount
    loaded,             \* the register of the decrement under way
    tick100             \* the static counter of app_loop

timVars == <<irqCount, loaded, tick100>>

TimInit == irqCount = 0 /\ loaded = 0 /\ tick100 = 0

(* Mutant of TimIrq: a flag in place of the counter.                       *)
MutIrqFlag ==
    /\ irqCount' = 1
    /\ UNCHANGED <<loaded, tick100>>

(* handleIRQ() with UIF set; no callback is registered.                    *)
TimIrq ==
    /\ irqCount' = (irqCount + 1) % IrqMod
    /\ UNCHANGED <<loaded, tick100>>

(* Mutant of TimPending: the last event is left.                           *)
MutLeavesOne == irqCount > 1

(* The if around the timer block, by getIrqCount().                        *)
TimPending == irqCount # 0

(* decIrqCount(), first half: the count is read.                           *)
DecLoad == loaded' = irqCount /\ UNCHANGED <<irqCount, tick100>>

(* Mutant of DecStore: tick100 is not reset.                               *)
MutNoReset ==
    /\ irqCount' = IF loaded > 0 THEN loaded - 1 ELSE irqCount
    /\ loaded' = 0
    /\ tick100' = tick100 + 1

(* decIrqCount(), second half, with the increment of tick100.              *)
DecStore ==
    /\ irqCount' = IF loaded > 0 THEN loaded - 1 ELSE irqCount
    /\ loaded' = 0
    /\ tick100' = IF tick100 + 1 >= TicksPer100 THEN 0 ELSE tick100 + 1

(* The pass that ends with a Tick100ms event.                              *)
TickDue == tick100 + 1 >= TicksPer100

TimType ==
    /\ irqCount \in 0..(IrqMod - 1)
    /\ loaded \in 0..(IrqMod - 1)
    /\ tick100 \in 0..(TicksPer100 - 1)
=============================================================================
