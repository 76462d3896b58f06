------------------------------ MODULE MCDS18B20 ------------------------------
(***************************************************************************)
(* DS18B20 with sensors that answer with readings whose CRC is computed by  *)
(* polynomial division, and history variables: what the bus delivered.      *)
(***************************************************************************)
EXTENDS DS18B20

CONSTANT Readings   \* scratchpads of sensors, their first eight bytes

VARIABLES
    answered,       \* a sensor answered in the last reset slot
    delivered       \* what the last read captured: a reading, a part, a mixture

hvars == <<dvars, answered, delivered>>

(* The remainder of a message of 64 bits and eight zeros, divided by       *)
(* x^8 + x^5 + x^4 + 1, and what a sensor sends: the message with it.      *)
Divide(v, i) ==
    IF v[i] = 0 THEN v
    ELSE [v EXCEPT ![i] = 0, ![i + 3] = 1 - @, ![i + 4] = 1 - @, ![i + 8] = 1 - @]
BitsOf(reading) ==
    [i \in 1..72 |->
        IF i <= 64 THEN (reading[(i - 1) \div 8 + 1] \div 2^((i - 1) % 8)) % 2 ELSE 0]
Division(bits) ==
    LET v[i \in 0..64] == IF i = 0 THEN bits ELSE Divide(v[i - 1], i)
    IN v[64]
Answer(reading) ==
    LET rest == Division(BitsOf(reading))
    IN [i \in 1..72 |-> IF i <= 64 THEN BitsOf(reading)[i] ELSE rest[i]]

(* 25.06, 89.06 and -10.13 degrees of a DS18B20, 25.0 of a DS18S20, and 31 *)
(* degrees with alarm limits such that its first four bytes, if they were  *)
(* still there, would pass for the two edges of a presence pulse.          *)
MCReadings == {<<145, 1, 75, 70, 127, 255, 15, 16>>,
               <<145, 5, 75, 70, 127, 255, 15, 16>>,
               <<94, 255, 75, 70, 127, 255, 2, 16>>,
               <<50, 0, 75, 70, 255, 255, 12, 16>>,
               <<240, 1, 88, 2, 127, 255, 16, 16>>}
MCAnswers == {Answer(r) : r \in MCReadings}
AnswerTo == [r \in Readings |-> Answer(r)]

(* The temperature register of a reading.                                  *)
Register(reading) ==
    LET word == 256 * reading[2] + reading[1]
    IN IF word > 32767 THEN word - 65536 ELSE word

(* A reading is eight bytes.  A DS18S20 measures -55 to 125 degrees, in    *)
(* halves, and does not count further than it counts in a degree.          *)
ASSUME ReadingsAssumption ==
    \A r \in Readings :
        /\ r \in [1..8 -> Byte] /\ Answer(r) \in Answers
        /\ r[5] = 255 => -110 <= Register(r) /\ Register(r) <= 250 /\ r[7] <= r[8]

(* A sensor answers, none does, the bus is stuck, a glitch follows.        *)
MCEdges == {<<490, 620>>, <<490>>, <<>>, <<490, 500>>}
IsAnswer(es) == Len(es) = 2 /\ es[2] \in 555..840

Part == <<"part">>      \* a reading was cut off, the rest are ones
Mix  == <<"mixture">>   \* the rest are pulses of earlier reads

HInit == DInit /\ answered = FALSE /\ delivered = Mix

HPoll == Poll /\ UNCHANGED <<answered, delivered>>

HReset(es) ==
    ResetEnds(es) /\ answered' = IsAnswer(es) /\ UNCHANGED delivered
HRead(r) ==
    ReadEnds(AnswerTo[r], 72, TRUE) /\ delivered' = r /\ UNCHANGED answered
HCut(r, k) ==
    /\ ReadEnds(AnswerTo[r], k, TRUE)
    /\ delivered' = IF \A i \in (k + 1)..72 : AnswerTo[r][i] = 1 THEN r ELSE Part
    /\ UNCHANGED answered
HStall(r, k) ==
    ReadEnds(AnswerTo[r], k, FALSE) /\ delivered' = Mix /\ UNCHANGED answered
HTimer == TimerEnds /\ UNCHANGED <<answered, delivered>>

HHardware ==
    \/ HTimer
    \/ \E es \in Edges : HReset(es)
    \/ \E r \in Readings : HRead(r)
    \/ \E r \in Readings, k \in Cuts : HCut(r, k)
    \/ \E r \in Readings, k \in Stalls : HStall(r, k)

HNext == HPoll \/ HHardware
HSpec == HInit /\ [][HNext]_hvars /\ Fairness
-----------------------------------------------------------------------------
(* The type invariant of the sensor driver.                                *)
SensorType ==
    /\ fsm \in {"IDLE", "CONVERT", "WAIT", "CONTINUE", "REQUEST", "READ", "DECODE"}
    /\ union \in [Bytes72 -> Byte]
    /\ family \in {"DS18S20", "DS18B20"}
    /\ uif \in BOOLEAN /\ led \in BOOLEAN /\ (uif => running = "none")
    /\ report.tenths \in Int16

(* A conversion is only commanded when a sensor answered in this reset     *)
(* slot: nothing that an earlier measurement left in the shared bytes      *)
(* passes for a presence pulse.                                            *)
ConvertNeedsPresence ==
    [][fsm = "CONVERT" /\ fsm' = "WAIT" => answered]_hvars

(* The table says the same of the second reset: READ "if present".         *)
RequestNeedsPresence ==
    [][fsm = "REQUEST" /\ fsm' = "READ" => answered]_hvars

(* t is the temperature of a reading, rounded down to tenths; the DS18S20  *)
(* is documented as (raw \div 2) - 0.25 + (16 - remain) / 16 degrees and   *)
(* may be off by less than a tenth.                                        *)
IsTenths(t, reading) ==
    LET raw    == Register(reading)
        perC   == reading[8]
        twenty == 20 * perC * (raw \div 2) - 5 * perC + 20 * (perC - reading[7])
    IN IF reading[5] # 255
       THEN 16 * t <= 10 * raw /\ 10 * raw < 16 * t + 16
       ELSE 2 * perC * t - twenty \in (1 - 2 * perC)..(2 * perC - 1)

Decodes == fsm = "DECODE" /\ fsm' = "IDLE"

(* A reading that was captured to its end is reported, as the temperature  *)
(* the sensor meant, though its bits are decoded over themselves.          *)
ReadingReported ==
    [][Decodes /\ delivered \in Readings
         => report'.kind = "temperature" /\ IsTenths(report'.tenths, delivered)]_hvars

(* A reading that was cut off is not reported as a temperature: the rest   *)
(* of the slots capture ones, and the CRC rejects what they add up to. It  *)
(* cannot do so for all 72 cuts: of the readings here it lets pass the cut *)
(* of the DS18S20's after 15 bits, as -3252.0 degrees.                     *)
CutReadRejected ==
    [][Decodes /\ delivered = Part => report' = Failed("crc")]_hvars

(* Measurements go on for ever: each ends, whatever the bus does, and the  *)
(* next one starts.                                                        *)
MeasurementsGoOn == []<>(fsm = "IDLE") /\ []<>(fsm = "CONVERT")
=============================================================================
