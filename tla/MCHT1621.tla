------------------------------ MODULE MCHT1621 -------------------------------
(***************************************************************************)
(* The indicator under every operation of its interface.  The firmware      *)
(* calls the first, displayTemperature(); shown is what that last drew, as  *)
(* long as nothing else has drawn into its place.                           *)
(***************************************************************************)
EXTENDS HT1621

CONSTANTS
    Values,     \* temperatures in tenths that displayTemperature() is given
    Numbers,    \* what ShowInt() is given
    MaxDrawn    \* bound: drawings over one another before one that clears

ASSUME ValuesAssumption == Values \subseteq Int /\ Numbers \subseteq Int

VARIABLES
    shown,
    drawn       \* drawings since one that cleared

mvars == <<htvars, shown, drawn>>

Nothing == [label |-> "none", tenths |-> 0]

(* Both limits and beyond, the sign, every digit.                          *)
MCValues  == {-150, -45, 0, 123, 456, 789, 1200}
MCNumbers == {-100000, -7, 0, 999999}

MInit == HTInit /\ shown = Nothing /\ drawn = 0

Temperature(label, value) ==
    /\ Operation(DisplayTemperature(vram, label, value), TRUE)
    /\ shown' = [label |-> label, tenths |-> Limited(value)] /\ drawn' = 0

(* Icons leave the segments of the text alone.                             *)
Special(type, enable, flushNow) ==
    Operation(ShowSpecial(vram, type, enable), flushNow) /\ UNCHANGED <<shown, drawn>>
Charge(level) ==
    Operation(ShowChargeLevel(vram, level), TRUE) /\ UNCHANGED <<shown, drawn>>

(* The rest of the interface: some of it clears first, some draws over     *)
(* what is there.                                                          *)
Replace(image) == Operation(image, TRUE) /\ shown' = Nothing /\ drawn' = 0
Overdraw(image) ==
    drawn < MaxDrawn /\ Operation(image, TRUE) /\ shown' = Nothing /\ drawn' = drawn + 1

Replacing ==
    \/ Replace(FullClear) \/ Replace(ShowFull) \/ Replace(ShowDate(28, 2, 26))
    \/ Replace(ClearSegArea(vram)) \/ Replace(ShowString(vram, <<"E", "r", "r">>))
Overdrawing ==
    \/ Overdraw(ShowLetter(vram, 3, "P"))
    \/ \E withDot \in BOOLEAN : Overdraw(ShowDigit(vram, 2, 8, withDot))
    \/ \E position \in {0, 4}, enable \in BOOLEAN : Overdraw(ShowDot(vram, position, enable))
    \/ \E number \in Numbers : Overdraw(ShowInt(vram, number))

MNext ==
    \/ \E label \in {"1", "2"}, value \in Values : Temperature(label, value)
    \/ \E type \in {0, 2}, enable, flushNow \in BOOLEAN : Special(type, enable, flushNow)
    \/ \E level \in {0, 3} : Charge(level)
    \/ Replacing \/ Overdrawing

MSpec == MInit /\ [][MNext]_mvars
-----------------------------------------------------------------------------
(* What fits between a sign and the last of three digits.                  *)
Tenths == LowestShown..HighestShown

(* A byte of the indicator's RAM, a nibble of the chip's.                  *)
DisplayType ==
    /\ vram \in [Addresses -> Byte] /\ glass \in [Addresses -> 0..15]
    /\ shown.tenths \in Tenths

(* How a character looks on its own: the third byte has one segment.       *)
Look(c) == [k \in 1..4 |-> Drawn(0, c, k)]
LookAt(position) ==
    [k \in 1..4 |-> LET nibble == glass[4 * (5 - position) + k]
                    IN IF k = 3 THEN nibble % 2 ELSE nibble % 4]

(* The characters a user can take a position of the indicator for.         *)
CanBeReadAs(position) ==
    {c \in DOMAIN m_digits \cup {"t", "-", " "} : Look(c) = LookAt(position)}

(* Whatever was drawn before, and whatever icons were switched since, a    *)
(* user reads the label and the temperature off the glass, and cannot take *)
(* them for others: each character can be read in one way, and the only    *)
(* point lit is the one before the tenths.                                 *)
TemperatureReadable ==
    shown # Nothing =>
        LET text == TemperatureText(shown.label, shown.tenths)
        IN /\ \A position \in Positions : CanBeReadAs(position) = {text[6 - position]}
           /\ {position \in 1..5 : IsLit(glass, m_dots[position])} = {1}

(* Showing a temperature leaves the icons as they are: "->0<-", "NET", "g" *)
(* and the battery. (The "k" shares byte 0x17 with the last digit, which   *)
(* is drawn with Replace: it goes out.)                                    *)
IconsKept ==
    [][shown' \notin {shown, Nothing} =>
         \A icon \in {m_specials[1], m_specials[2], m_specials[4]}
                     \cup {m_chargeLevels[i] : i \in 1..4} :
             IsLit(vram', icon) = IsLit(vram, icon)]_mvars
=============================================================================
