---------------------------- MODULE ButtonsManager ----------------------------
(***************************************************************************)
(* services/ButtonsManager and utils/Button.hpp: every pass of the          *)
(* superloop reads the pins of the keys, debounces them, repeats an event   *)
(* while a key is held, and recognises double clicks and the combination    *)
(* of S1 and S2.                                                            *)
(***************************************************************************)
EXTENDS Ticks, Sequences

CONSTANTS
    Phys,               \* the keys that are connected, among S1..S4
    DebounceMs, HoldMs, \* template parameters of Button
    DoubleClickGap,     \* BUTTONS_DOUBLE_CLICK_GAP_MS
    ComboLong           \* BUTTONS_COMBO_LONG_THRESHOLD_MS

ASSUME ButtonsAssumption ==
    /\ Phys \subseteq {"S1", "S2", "S3", "S4"}
    /\ {DebounceMs, HoldMs, DoubleClickGap, ComboLong} \subseteq Instants

VARIABLES
    btn,            \* the Button objects: raw, stable, lastChange, holdDeadline
    lastRelease,    \* lastRelease[]; 0 after a press
    comboStart,     \* the static comboStart; 0 when no combination is under way
    reported        \* what the last poll pushed into the event queue

btnVars == <<btn, lastRelease, comboStart, reported>>

ButtonInit ==
    /\ btn = [k \in Phys |-> [raw |-> FALSE, stable |-> FALSE,
                              lastChange |-> 0, holdDeadline |-> 0]]
    /\ lastRelease = [k \in Phys |-> 0]
    /\ comboStart = 0
    /\ reported = <<>>
-----------------------------------------------------------------------------
(* Mutant of Sensed: a bounce does not restart the debounce time.          *)
MutBounceIgnored(b, pressed) == [b EXCEPT !.raw = pressed]

(* Button::tick, first part: a reading that differs restarts the debounce. *)
Sensed(b, pressed) ==
    [b EXCEPT !.raw = pressed, !.lastChange = IF pressed # b.raw THEN now ELSE @]

(* The two events of the rest of tick, of a button that has been sensed:   *)
(* its level has settled, or it has been held for another period. A hold   *)
(* deadline of 0 means that there is none.                                 *)
(* Mutants: the end of the debounce time and the hold deadline are         *)
(* compared as numbers.                                                    *)
MutSettledUnwrapped(b) == b.raw # b.stable /\ now >= b.lastChange + DebounceMs
Settled(b) == b.raw # b.stable /\ Elapsed(now, b.lastChange) >= DebounceMs

MutHoldUnwrapped(b) ==
    b.raw /\ b.stable /\ HoldMs > 0 /\ b.holdDeadline # 0 /\ now >= b.holdDeadline
HoldDue(b) ==
    /\ b.raw /\ b.stable /\ HoldMs > 0
    /\ b.holdDeadline # 0 /\ TimeReached(now, b.holdDeadline)

(* Mutant of Ticked: the deadline is kept in a wider type than the clock.  *)
MutWideDeadline(b) ==
    CASE Settled(b) -> [b EXCEPT !.stable = b.raw,
                                 !.holdDeadline = IF b.raw THEN now + HoldMs ELSE 0]
      [] HoldDue(b) -> [b EXCEPT !.holdDeadline = now + HoldMs]
      [] OTHER      -> b

Ticked(b) ==
    CASE Settled(b) -> [b EXCEPT !.stable = b.raw,
                                 !.holdDeadline = IF b.raw THEN After(now, HoldMs) ELSE 0]
      [] HoldDue(b) -> [b EXCEPT !.holdDeadline = After(now, HoldMs)]
      [] OTHER      -> b

(* handle(): what is pushed for key k, of the button b that was sensed.    *)
IsDouble(k) == Elapsed(now, lastRelease[k]) <= DoubleClickGap
(* Mutant of Pushed: a double click replaces the release.                  *)
MutDoubleAlone(k, b) ==
    CASE Settled(b) /\ b.raw  -> <<0>>
      [] Settled(b) /\ ~b.raw -> IF IsDouble(k) THEN <<3>> ELSE <<2>>
      [] HoldDue(b)           -> <<1>>
      [] OTHER                -> <<>>

Pushed(k, b) ==
    CASE Settled(b) /\ b.raw  -> <<0>>
      [] Settled(b) /\ ~b.raw -> IF IsDouble(k) THEN <<2, 3>> ELSE <<2>>
      [] HoldDue(b)           -> <<1>>
      [] OTHER                -> <<>>

ReleaseStamp(k, b) ==
    IF Settled(b) THEN (IF b.raw THEN 0 ELSE now) ELSE lastRelease[k]

(* checkCombination(), of a second reading of both pins.                   *)
ComboBegan == IF comboStart = 0 THEN now ELSE comboStart
(* Mutant of LongCombo: the threshold itself is long enough.               *)
MutLongAtThreshold(both) == both /\ Elapsed(now, ComboBegan) >= ComboLong

LongCombo(both)  == both /\ Elapsed(now, ComboBegan) > ComboLong
ShortCombo(both) == ~both /\ comboStart # 0 /\ Elapsed(now, comboStart) < ComboLong
ComboPushed(both) ==
    CASE LongCombo(both) -> <<10>> [] ShortCombo(both) -> <<9>> [] OTHER -> <<>>

(* The events of a poll, in the order they are pushed.                     *)
AsEvents(k, values) == [i \in DOMAIN values |-> [type |-> k, value |-> values[i]]]
PollPushes(sensed, both) ==
    LET of(k) == IF k \in Phys THEN AsEvents(k, Pushed(k, sensed[k])) ELSE <<>>
    IN of("S1") \o of("S2") \o of("S3") \o of("S4")
       \o AsEvents("S1", ComboPushed(both))

(* poll(): pins is what the keys read as in tick(), TRUE when pressed, and *)
(* both is what S1 and S2 read as a moment later.                          *)
ButtonsPoll(pins, both) ==
    LET sensed == [k \in Phys |-> Sensed(btn[k], pins[k])]
    IN /\ btn' = [k \in Phys |-> Ticked(sensed[k])]
       /\ lastRelease' = [k \in Phys |-> ReleaseStamp(k, sensed[k])]
       /\ comboStart' = IF both /\ ~LongCombo(both) THEN ComboBegan ELSE 0
       /\ reported' = PollPushes(sensed, both)

(* Contacts bounce: the two readings need not agree.                       *)
BothReadings == IF {"S1", "S2"} \subseteq Phys THEN BOOLEAN ELSE {FALSE}

Pass ==
    /\ \E pins \in [Phys -> BOOLEAN], both \in BothReadings : ButtonsPoll(pins, both)
    /\ IwdgReload

Tick == SysTick /\ UNCHANGED btnVars

KeysInit == TicksInit /\ ButtonInit
KeysNext == Pass \/ Tick
KeysSpec == KeysInit /\ [][KeysNext]_<<btnVars, now, iwdg>>
-----------------------------------------------------------------------------
(* The type invariant of the keys.                                         *)
ButtonsType ==
    /\ btn \in [Phys -> [raw : BOOLEAN, stable : BOOLEAN,
                         lastChange : Instants, holdDeadline : Instants]]
    /\ lastRelease \in [Phys -> Instants]
    /\ comboStart \in Instants
    /\ TicksType

(* Whatever the pins do, the events of a key alternate: a hold, a release  *)
(* or a double click is only ever reported of a key that was reported as   *)
(* pressed, a press only of one that was not, in the order of the keys.    *)
Reports == INSTANCE KeyReports WITH down <- {k \in Phys : btn[k].stable}
ImplementsKeyReports == Reports!KSpec
=============================================================================
