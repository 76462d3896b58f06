------------------------------- MODULE DS18B20 -------------------------------
(***************************************************************************)
(* drivers/devices/ds18b20: the 1-Wire temperature sensor.  Every poll that *)
(* finds TIM1's update flag set takes one row of a transition table, whose  *)
(* action starts the next operation of TIM1 and its DMA.  The DMA captures  *)
(* edges and pulses into the same bytes that the decoder then compresses    *)
(* into the scratchpad: a union of 72 bytes.                                *)
(***************************************************************************)
EXTENDS CInt, Sequences

CONSTANTS
    Edges,      \* rising edges a reset slot may capture: sequences of up to two
    Answers,    \* what a sensor may send: sequences of 72 bits
    Cuts,       \* bound: after how many bits a sensor may let go of the bus
    Stalls      \* bound: after how many bits the bus may stop to move

ASSUME SensorAssumption ==
    /\ \A es \in Edges : /\ es \in Seq(Nat) /\ Len(es) <= 2
                          /\ \A i \in 1..Len(es) : es[i] < 65536
    /\ Cuts \subseteq 0..71 /\ Stalls \subseteq 0..71
    /\ \A a \in Answers : Len(a) = 72 /\ \A i \in 1..72 : a[i] \in {0, 1}

(* cnt_per_c, by which the code divides, is not 0: there is a bit of it    *)
(* that every sensor sends as 1.                                           *)
CountBits == 57..64
ASSUME CountAssumption == \E i \in CountBits : \A a \in Answers : a[i] = 1

VARIABLES
    fsm,        \* m_ctx.current_state
    union,      \* the bytes of m_ctx.edge, m_ctx.pulse and m_ctx.scratchpad
    family,     \* m_family, as "DS18S20" or "DS18B20"
    uif,        \* TIM1's update flag: the last operation has ended
    running,    \* the operation TIM1 and the DMA carry out
    report,     \* the argument of the last ds18b20_temp_ready
    led         \* the LED on PA11

dvars == <<fsm, union, family, uif, running, report, led>>

Bytes72 == 0..71
None    == [kind |-> "none", tenths |-> 0]
Failed(kind)   == [kind |-> kind, tenths |-> 0]
Measured(temp) == [kind |-> "temperature", tenths |-> temp]

(* The object is static and zeroed; init() leaves the update flag set.     *)
DInit ==
    /\ fsm = "IDLE" /\ union = [i \in Bytes72 |-> 0] /\ family = "DS18B20"
    /\ uif = TRUE /\ running = "none"
    /\ report = None /\ led = FALSE
-----------------------------------------------------------------------------
(* The union: 16-bit edges at its start, and bits of the scratchpad.       *)
Edge(m, i)  == m[2 * i] + 256 * m[2 * i + 1]
PutEdge(m, i, t) ==
    [a \in Bytes72 |-> IF a = 2 * i THEN t % 256
                       ELSE IF a = 2 * i + 1 THEN (t \div 256) % 256 ELSE m[a]]
Bit(m, n)   == (m[n \div 8] \div 2^(n % 8)) % 2

(* check_presence(): both captured edges are where a sensor puts them.     *)
CheckPresence(m) == Edge(m, 0) \in 480..540 /\ Edge(m, 1) \in 555..840

(* fill_union: the union is 72 bytes long, the field that fills it 8.      *)
MutFillNothing(m) == m      \* mutant of FillUnion
FillUnion(m) == [i \in Bytes72 |-> IF i < 8 THEN 255 ELSE m[i]]

(* Mutant of DecodeBit: the bit is added and not set.                      *)
MutDecodeAdds(m, n) ==
    [m EXCEPT ![n \div 8] = IF m[n] <= 10 THEN @ + 2^(n % 8) ELSE @]

(* One round of decode_scratchpad(): pulse n decides bit n % 8 of byte     *)
(* n \div 8, in place. A pulse of at most SHORT_PULSE_MAX is a 1.          *)
DecodeBit(m, n) ==
    LET w    == 2^(n % 8)
        byte == m[n \div 8]
        rest == byte - w * ((byte \div w) % 2)
    IN [m EXCEPT ![n \div 8] = IF m[n] <= 10 THEN rest + w ELSE rest]

(* decode_scratchpad(), pulse by pulse; the mutant starts with the last    *)
(* byte.                                                                   *)
MutDecodeBackwards(m) ==
    LET d[n \in 0..72] == IF n = 0 THEN m
                          ELSE DecodeBit(d[n - 1], 8 * (8 - ((n - 1) \div 8)) + ((n - 1) % 8))
    IN d[72]
DecodeScratchpad(m) ==
    LET d[n \in 0..72] == IF n = 0 THEN m ELSE DecodeBit(d[n - 1], n - 1)
    IN d[72]

(* check_scratchpad_crc(): bit by bit over the first eight bytes. Shifting   *)
(* clears bit 7; DS18B20_CRC8_POLY = 0x8C sets it and flips bits 3 and 2.  *)
Flipped(v, w) == IF (v \div w) % 2 = 0 THEN v + w ELSE v - w
CrcBit(crc, bit) ==
    IF crc % 2 = bit THEN crc \div 2
    ELSE Flipped(Flipped(Flipped(crc \div 2, 128), 8), 4)
CheckScratchpadCrc(m) ==
    LET crc[n \in 0..64] == IF n = 0 THEN 0 ELSE CrcBit(crc[n - 1], Bit(m, n - 1))
    IN crc[64]
MutCrcUnchecked(m) == TRUE      \* mutant of ValidScratchpad
ValidScratchpad(m) == m[8] = CheckScratchpadCrc(m)

(* detect_sensor_type() and decode_temperature(), in tenths of a degree;   *)
(* >> rounds down, / truncates.                                            *)
Family(m) == IF m[4] = 255 THEN "DS18S20" ELSE "DS18B20"
DecodeTemperature(m) ==
    LET raw  == ToInt16(256 * m[1] + m[0])
        fine == TruncDiv((m[7] - m[6]) * 10, m[7])
    IN IF Family(m) = "DS18S20"
       THEN ToInt16((raw \div 2) * 10 - 2 + fine)
       ELSE ToInt16((raw * 10) \div 16)
-----------------------------------------------------------------------------
(* A row of m_transitions that poll() takes: it needs the update flag and  *)
(* clears it, and its action starts an operation.                          *)
Row(from, operation, to) ==
    /\ uif /\ fsm = from
    /\ fsm' = to /\ uif' = FALSE /\ running' = operation

(* The rows IDLE and START, in one poll: action_idle, action_start.        *)
Start ==
    /\ Row("IDLE", "reset", "CONVERT")
    /\ union' = FillUnion(union) /\ led' = TRUE
    /\ UNCHANGED <<family, report>>

(* action_convert_ok and action_convert_fail.                              *)
ConvertOk ==
    /\ CheckPresence(union)
    /\ Row("CONVERT", "convert", "WAIT")
    /\ UNCHANGED <<union, family, report, led>>

ConvertFail ==
    /\ ~CheckPresence(union)
    /\ Row("CONVERT", "pause", "IDLE")
    /\ report' = Failed("no sensor")
    /\ UNCHANGED <<union, family, led>>

(* Mutant of Wait: the row leads back to itself.                           *)
MutWaitStays ==
    /\ Row("WAIT", "wait", "WAIT")
    /\ UNCHANGED <<union, family, report, led>>

(* action_wait: the time of a conversion.                                  *)
Wait ==
    /\ Row("WAIT", "wait", "CONTINUE")
    /\ UNCHANGED <<union, family, report, led>>

(* action_continue: the second reset. The union keeps its edges.           *)
Continue ==
    /\ Row("CONTINUE", "reset", "REQUEST")
    /\ UNCHANGED <<union, family, report, led>>

(* action_request_ok and action_request_fail.                              *)
RequestOk ==
    /\ CheckPresence(union)
    /\ Row("REQUEST", "request", "READ")
    /\ UNCHANGED <<union, family, report, led>>

RequestFail ==
    /\ ~CheckPresence(union)
    /\ Row("REQUEST", "pause", "IDLE")
    /\ report' = Failed("no sensor")
    /\ UNCHANGED <<union, family, led>>

(* action_read.                                                            *)
Read ==
    /\ Row("READ", "read", "DECODE")
    /\ UNCHANGED <<union, family, report, led>>

(* action_decode.                                                          *)
Decode ==
    LET scratch == DecodeScratchpad(union)
    IN /\ Row("DECODE", "pause", "IDLE")
       /\ union' = scratch /\ family' = Family(scratch) /\ led' = FALSE
       /\ report' = IF ValidScratchpad(scratch)
                    THEN Measured(DecodeTemperature(scratch)) ELSE Failed("crc")

(* poll(); without the update flag it returns at once.                     *)
Poll ==
    \/ Start \/ ConvertOk \/ ConvertFail \/ Wait \/ Continue
    \/ RequestOk \/ RequestFail \/ Read \/ Decode
-----------------------------------------------------------------------------
(* TIM1 and the DMA: the operation ends and sets the update flag.          *)
Ends(operations) == running \in operations /\ running' = "none" /\ uif' = TRUE

(* Without a capture of the DMA: commands, the conversion, the pause.      *)
TimerEnds ==
    /\ Ends({"convert", "wait", "request", "pause"})
    /\ UNCHANGED <<fsm, union, family, report, led>>

(* A reset slot: up to two edges are captured, in order.                   *)
Captured(m, es) ==
    CASE Len(es) = 0 -> m
      [] Len(es) = 1 -> PutEdge(m, 0, es[1])
      [] OTHER       -> PutEdge(PutEdge(m, 0, es[1]), 1, es[2])
ResetEnds(es) ==
    /\ Ends({"reset"})
    /\ union' = Captured(union, es)
    /\ UNCHANGED <<fsm, family, report, led>>

(* A read: a sensor answers with short and long pulses for bits bits. Then *)
(* the bus idles and every slot captures a short pulse, or it is stuck and *)
(* nothing is captured.                                                    *)
Width(bit) == IF bit = 1 THEN 5 ELSE 30
ReadEnds(answer, bits, idles) ==
    /\ Ends({"read"})
    /\ union' = [i \in Bytes72 |->
                    IF i < bits THEN Width(answer[i + 1])
                    ELSE IF idles THEN Width(1) ELSE union[i]]
    /\ UNCHANGED <<fsm, family, report, led>>

Hardware ==
    \/ TimerEnds
    \/ \E es \in Edges : ResetEnds(es)
    \/ \E a \in Answers : ReadEnds(a, 72, TRUE)
    \/ \E a \in Answers, k \in Cuts : ReadEnds(a, k, TRUE)
    \/ \E a \in Answers, k \in Stalls : ReadEnds(a, k, FALSE)

DNext == Poll \/ Hardware

(* The superloop polls for ever, and a started timer stops by itself: weak *)
(* fairness of Poll and of Hardware. A poll is possible exactly when the   *)
(* update flag is set, and clears it; an end is possible exactly while an  *)
(* operation runs, and ends it.                                            *)
Fairness == []<>~uif /\ []<>(running = "none")

DSpec == DInit /\ [][DNext]_dvars /\ Fairness
=============================================================================
