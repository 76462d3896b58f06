------------------------------- MODULE HT1621 --------------------------------
(***************************************************************************)
(* drivers/devices/ht1621: the indicator.  Every operation draws into       *)
(* m_vram, and onto the glass when it is told to flush.  Digits, decimal    *)
(* points and icons share bytes: the digit at position 5 - n has its        *)
(* segments in the bytes 4n + 1 to 4n + 4, and the point left of it, or an  *)
(* icon, has a bit of the third.                                            *)
(***************************************************************************)
EXTENDS CInt, Sequences

VARIABLES
    vram,       \* m_vram
    glass       \* the RAM of the HT1621B itself, 32 nibbles

htvars == <<vram, glass>>

Addresses == 0..31
Positions == 0..5       \* 0 is the rightmost

DigitChars == {"0", "1", "2", "3", "4", "5", "6", "7", "8", "9"}
m_digits ==
    [c \in DigitChars |->
        CASE c = "0" -> <<3, 2, 1, 3>> [] c = "1" -> <<0, 0, 1, 2>>
          [] c = "2" -> <<2, 3, 0, 3>> [] c = "3" -> <<0, 3, 1, 3>>
          [] c = "4" -> <<1, 1, 1, 2>> [] c = "5" -> <<1, 3, 1, 1>>
          [] c = "6" -> <<3, 3, 1, 1>> [] c = "7" -> <<0, 0, 1, 3>>
          [] c = "8" -> <<3, 3, 1, 3>> [] c = "9" -> <<1, 3, 1, 3>>]
alphabet ==
    [A |-> <<3, 1, 1, 3>>, b |-> <<3, 3, 1, 0>>, C |-> <<3, 2, 0, 1>>,
     d |-> <<2, 3, 1, 2>>, E |-> <<3, 3, 0, 1>>, F |-> <<3, 1, 0, 1>>,
     G |-> <<3, 2, 1, 1>>, h |-> <<3, 1, 1, 0>>, I |-> <<3, 0, 0, 0>>,
     J |-> <<0, 2, 1, 2>>, L |-> <<3, 2, 0, 0>>, n |-> <<2, 1, 1, 0>>,
     o |-> <<2, 3, 1, 0>>, P |-> <<3, 1, 0, 3>>, r |-> <<2, 1, 0, 0>>,
     t |-> <<3, 3, 0, 0>>, U |-> <<3, 2, 1, 2>>, X |-> <<3, 1, 1, 2>>]
m_letters ==
    [c \in {"-", "_"} \cup DOMAIN alphabet |->
        IF c = "-" THEN <<0, 1, 0, 0>> ELSE IF c = "_" THEN <<0, 2, 0, 0>> ELSE alphabet[c]]

Bits(address, bit) == [addr |-> address, val |-> bit]
m_dots         == [position \in 1..5 |-> Bits(4 * (5 - position) + 3, 2)]
m_specials     == <<Bits(0, 1), Bits(0, 2), Bits(23, 2), Bits(25, 2)>>
m_chargeLevels == <<Bits(26, 1), Bits(27, 2), Bits(27, 1), Bits(26, 2)>>

DigitChar(n) == <<"0", "1", "2", "3", "4", "5", "6", "7", "8", "9">>[n + 1]
-----------------------------------------------------------------------------
(* SetData() with SetBit and ClearBit, for a mask of one bit.              *)
IsLit(v, b) == (v[b.addr] \div b.val) % 2 = 1
MutSetAdds(v, b) == [v EXCEPT ![b.addr] = @ + b.val]        \* mutant of SetBit
SetBit(v, b)   == IF IsLit(v, b) THEN v ELSE [v EXCEPT ![b.addr] = @ + b.val]
ClearBit(v, b) == IF IsLit(v, b) THEN [v EXCEPT ![b.addr] = @ - b.val] ELSE v
Switch(v, b, enable) == IF enable THEN SetBit(v, b) ELSE ClearBit(v, b)

(* What the byte k of a place holds after a character is drawn over old: a *)
(* digit replaces all four bytes, another character the ones it has        *)
(* segments in, and one that is in no table (a space) none.                *)
Drawn(old, c, k) ==
    IF c \in DOMAIN m_digits THEN m_digits[c][k]
    ELSE IF c \in DOMAIN m_letters /\ m_letters[c][k] # 0 THEN m_letters[c][k]
    ELSE old

(* The characters of text drawn at their positions, text[1] leftmost of    *)
(* the places at, at - 1, ...                                              *)
DrawText(v, text, at) ==
    [a \in Addresses |->
        LET position == 5 - (a - 1) \div 4
            i        == at - position + 1
        IN IF a \in 1..24 /\ i \in DOMAIN text
           THEN Drawn(v[a], text[i], ((a - 1) % 4) + 1) ELSE v[a]]

FullClear == [a \in Addresses |-> 0]
ShowFull  == [a \in Addresses |-> 255]

(* ClearSegArea(), for the bytes 1 to 24. Of 0x17 it clears one bit.       *)
MutClearAll(v) == [a \in Addresses |-> 0]                   \* mutant
ClearSegArea(v) ==
    [a \in Addresses |-> IF a = 23 THEN v[a] - (v[a] % 2) ELSE IF a \in 1..24 THEN 0 ELSE v[a]]

ShowDot(v, position, enable) ==
    IF position \in 1..5 THEN Switch(v, m_dots[position], enable) ELSE v
ShowSpecial(v, type, enable) == Switch(v, m_specials[type + 1], enable)

ShowDigit(v, position, digit, withDot) ==
    LET drawn == DrawText(v, <<DigitChar(digit)>>, position)
    IN IF withDot THEN ShowDot(drawn, position, TRUE) ELSE drawn
ShowLetter(v, position, c) ==
    IF c \in DOMAIN m_letters THEN DrawText(v, <<c>>, position) ELSE v

(* ShowString(), for at most six characters: right-aligned.                *)
ShowString(v, text) == DrawText(ClearSegArea(v), text, Len(text) - 1)

(* ShowChargeLevel(): the bars up to level, on four different bits.        *)
ShowChargeLevel(v, level) ==
    LET bar(u, i) == Switch(u, m_chargeLevels[i + 1], i <= level)
    IN bar(bar(bar(bar(v, 0), 1), 2), 3)

(* ShowDate() of a date that it accepts: DD.MM.YY.                         *)
ShowDate(day, month, year) ==
    LET two(n) == <<DigitChar(n \div 10), DigitChar(n % 10)>>
        digits == DrawText(FullClear, two(day) \o two(month) \o two(year), 5)
    IN ShowDot(ShowDot(digits, 2, TRUE), 4, TRUE)

(* ShowInt(): the digits and the minus are drawn over what is there; a     *)
(* number that does not fit shows six middle segments.                     *)
NumberOfDigits(n) == CHOOSE k \in 1..10 : n < 10^k /\ (k = 1 \/ n >= 10^(k - 1))
ShowInt(v, value) ==
    LET n     == IF value < 0 THEN -value ELSE value
        width == NumberOfDigits(n)
        text  == [i \in 1..width |-> DigitChar((n \div 10^(width - i)) % 10)]
        minus(place) == 4 * place + 2
    IN IF width > (IF value < 0 THEN 5 ELSE 6)
       THEN [a \in Addresses |-> IF a \in {minus(p) : p \in Positions} THEN 1 ELSE v[a]]
       ELSE LET digits == DrawText(v, text, width - 1)
            IN IF value < 0 THEN [digits EXCEPT ![minus(5 - width)] = 1] ELSE digits
-----------------------------------------------------------------------------
(* Controller::displayTemperature(): label is "1" or "2", the value of     *)
(* tenths is limited to what fits.                                         *)
LowestShown  == -99
HighestShown == 999
Limited(value) == Clamp(value, LowestShown, HighestShown)
TemperatureText(label, tenths) ==
    LET whole == Abs32(tenths) \div 10
    IN <<"t", label, " ",
         IF tenths < 0 THEN "-" ELSE DigitChar(whole \div 10),
         DigitChar(whole % 10), DigitChar(Abs32(tenths) % 10)>>
MutDotFirst(v, label, value) ==                             \* mutant
    ShowString(ShowDot(ClearSegArea(v), 1, TRUE), TemperatureText(label, Limited(value)))
DisplayTemperature(v, label, value) ==
    ShowDot(ShowString(ClearSegArea(v), TemperatureText(label, Limited(value))), 1, TRUE)
-----------------------------------------------------------------------------
(* Init(): the RAM of the chip is written over before it can be seen.      *)
HTInit == vram = FullClear /\ glass = FullClear

(* An operation leaves m_vram as drawn. Flush() writes every byte, of      *)
(* which WriteData() sends four bits.                                      *)
Operation(drawn, flushNow) ==
    /\ vram' = drawn
    /\ glass' = IF flushNow THEN [a \in Addresses |-> drawn[a] % 16] ELSE glass
=============================================================================
