------------------------------ MODULE PwmDriver ------------------------------
(***************************************************************************)
(* The PwmDriver class of drivers/base/TimDriver.hpp.  A PWM output is the  *)
(* pair of timer registers that decide its duty cycle: the period ARR and   *)
(* the compare value CCR1 (channel 1 is the only one the firmware uses).    *)
(***************************************************************************)
EXTENDS CInt

PowerMax == 1000        \* full scale of setPower
TimClk   == 48000000    \* timer input clock, Hz

Pwms == [arr : Nat, ccr : Nat]

(* Init(prescaler, autoReload): CCR1 still has its reset value.            *)
PwmInit(arr) == [arr |-> arr, ccr |-> 0]

(* setPower(value), 0..1000.                                               *)
SetPower(pwm, value) ==
    [arr |-> pwm.arr, ccr |-> (pwm.arr * Clamp(value, 0, PowerMax)) \div PowerMax]

(* setFrequency(frequency): half of the new period, whatever the power was.*)
SetFrequency(pwm, frequency) ==
    IF frequency = 0 THEN [arr |-> pwm.arr, ccr |-> 0]
    ELSE LET period == TimClk \div frequency
             psc    == (period \div 65535 + 1) % 65536
             arr    == (period \div psc) % 65536
         IN [arr |-> (arr - 1) % 65536, ccr |-> arr \div 2]

Silent(pwm) == pwm.ccr = 0
=============================================================================
