--------------------------- MODULE MCButtonsManager ---------------------------
(***************************************************************************)
(* The keys with history variables: what an observer of the pins, reading   *)
(* them whenever the firmware does, would measure of one of the keys and of *)
(* the two that combine.                                                    *)
(***************************************************************************)
EXTENDS ButtonsManager

CONSTANTS
    Observed,       \* the key that is measured
    AgeMax          \* bound: ages are capped here, above every duration compared

(* Durations that stay apart across a wrap of the counter: a hold deadline *)
(* lies less than half a period ahead, and is late by less than that even  *)
(* when the contacts bounced open and closed in between.  The code's are   *)
(* of seconds, its period of 49 days.                                      *)
ASSUME ObserverAssumption ==
    /\ Observed \in Phys
    /\ DebounceMs > 0 /\ HoldMs > 0
    /\ 2 * HoldMs <= TickMod
    /\ 2 * (DebounceMs + 2 * (IwdgTimeout - 1)) < TickMod
    /\ ComboLong + IwdgTimeout < TickMod
    /\ AgeMax \in Nat
    /\ HoldMs + DebounceMs + 2 * (IwdgTimeout - 1) <= AgeMax
    /\ ComboLong + 2 * IwdgTimeout <= AgeMax

VARIABLES
    steady,         \* ticks since the reading of the key last changed
    quiet,          \* ticks since its last press or hold report
    bothFor         \* ticks since both keys are held without a gap or a report
                    \* of a long combination; -1 when they are not

hvars == <<btnVars, now, iwdg, steady, quiet, bothFor>>

Aged(n) == IF n \in 0..(AgeMax - 1) THEN n + 1 ELSE n

(* A poll, the only step that leaves the clock alone, reports value v of k.*)
Says(k, v) ==
    now' = now /\ \E i \in DOMAIN reported' : reported'[i] = [type |-> k, value |-> v]

HInit == KeysInit /\ steady = AgeMax /\ quiet = AgeMax /\ bothFor = -1

HPoll ==
    \E pins \in [Phys -> BOOLEAN], both \in BothReadings :
        /\ ButtonsPoll(pins, both) /\ IwdgReload
        /\ steady' = IF pins[Observed] # btn[Observed].raw THEN 0 ELSE steady
        /\ quiet' = IF Says(Observed, 0) \/ Says(Observed, 1) THEN 0 ELSE quiet
        /\ bothFor' = IF ~both \/ Says("S1", 10) THEN -1
                      ELSE IF bothFor = -1 THEN 0 ELSE bothFor

HTick ==
    /\ SysTick /\ UNCHANGED btnVars
    /\ steady' = Aged(steady) /\ quiet' = Aged(quiet) /\ bothFor' = Aged(bothFor)

HNext == HPoll \/ HTick
HSpec == HInit /\ [][HNext]_hvars

(* A key's level is reported only after it has read the same for the whole *)
(* debounce time: a bounce restarts it, across a wrap of the counter too.  *)
NoBounceReported ==
    [][Says(Observed, 0) \/ Says(Observed, 2)
         => steady >= DebounceMs /\ btn'[Observed].raw = btn[Observed].raw]_hvars

(* A level that reads the same long enough is reported: after the debounce *)
(* time and one pass nothing is still waiting.                             *)
SettlesInTime ==
    btn[Observed].raw # btn[Observed].stable => steady <= DebounceMs + IwdgTimeout

(* A held key goes on reporting, each time within its period and a pass,   *)
(* unless the deadline happened to be 0.                                   *)
HoldInTime ==
    LET b == btn[Observed]
    IN b.raw /\ b.stable /\ b.holdDeadline # 0 => quiet <= HoldMs + IwdgTimeout

(* A combination is reported as long only when both keys were held, in     *)
(* every pass, for more than the threshold since they went down or since   *)
(* the last such report, and as short only when for less - give or take a  *)
(* pass, because a start at instant 0 is taken for none.                   *)
ComboLengths ==
    [][/\ Says("S1", 10) => bothFor > ComboLong
       /\ Says("S1", 9) => bothFor # -1 /\ bothFor < ComboLong + IwdgTimeout]_hvars
=============================================================================
