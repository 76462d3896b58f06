-------------------------------- MODULE Ticks --------------------------------
(***************************************************************************)
(* The time base of the firmware: the millisecond counter g_msTicks that    *)
(* SysTick_Handler advances (drivers/base/RccDriver.hpp,                    *)
(* core/stm32f0xx_it.cpp), the two ways the code compares instants, and the *)
(* independent watchdog that bounds the time between two loop passes.       *)
(***************************************************************************)
EXTENDS Integers

CONSTANTS
    TickMod,        \* number of values of the tick counter, 2^32
    IwdgTimeout     \* the watchdog resets the MCU after this many ticks

ASSUME TickAssumption ==
    /\ TickMod \in Nat /\ TickMod > 1
    /\ IwdgTimeout \in Nat \ {0}

VARIABLES
    now,            \* g_msTicks
    iwdg            \* ticks since the last IWDG_Reload

Instants == 0..(TickMod - 1)

(* uint32_t t + d and a - b, for operands below TickMod.                   *)
After(t, d)   == IF t + d >= TickMod THEN t + d - TickMod ELSE t + d
Elapsed(a, b) == IF a >= b THEN a - b ELSE a - b + TickMod

(* timeReached: the sign of the int32_t difference.                        *)
TimeReached(t, deadline) == 2 * Elapsed(t, deadline) < TickMod

TicksInit == now = 0 /\ iwdg = 0

(* SysTick_Handler.  A pass that lasts IwdgTimeout ticks is cut by the     *)
(* watchdog, so no execution has a later tick without a reload.            *)
SysTick ==
    /\ iwdg < IwdgTimeout
    /\ now' = After(now, 1)
    /\ iwdg' = iwdg + 1

(* IWDG_Reload, at the end of every pass of app_loop.                      *)
IwdgReload == iwdg' = 0 /\ UNCHANGED now

TicksType == now \in Instants /\ iwdg \in 0..IwdgTimeout
=============================================================================
