----------------------------- MODULE UsartDriver -----------------------------
(***************************************************************************)
(* drivers/base/UsartDriver.hpp with the USART1 it drives: a ring of bytes  *)
(* to send that the superloop fills and the interrupt empties, a ring of    *)
(* received bytes the other way round, and a count of what was lost.  Bytes *)
(* are only counted: no property tells them apart.                          *)
(***************************************************************************)
EXTENDS Integers, Sequences

CONSTANTS
    TxMax, RxMax,   \* TxBuffSize and RxBuffSize
    CountMod        \* number of values of m_rx_overrun_count, 2^32

ASSUME UsartAssumption ==
    /\ TxMax \in Nat \ {0} /\ RxMax \in Nat \ {0}
    /\ CountMod \in Nat \ {0}

VARIABLES
    tx, rx,         \* bytes in m_tx_buf and m_rx_buf
    overruns,       \* m_rx_overrun_count
    handler,        \* what handleIRQ does next, idle when it does not run
    rxneie, txeie,  \* CR1: interrupt on a received byte, on an empty TDR
    txe, rxne,      \* ISR: the TDR is empty, the RDR holds a byte
    ore             \* ISR: a byte came while the RDR still held one

ringVars == <<tx, rx, overruns>>
uartVars == <<ringVars, handler, rxneie, txeie, txe, rxne, ore>>

UartStart ==
    /\ tx = 0 /\ rx = 0 /\ overruns = 0
    /\ handler = "idle"
    /\ rxneie = FALSE /\ txeie = FALSE
    /\ txe = TRUE /\ rxne = FALSE /\ ore = FALSE

(* A reset of the controller, as a step.                                   *)
UartReset ==
    /\ tx' = 0 /\ rx' = 0 /\ overruns' = 0
    /\ handler' = "idle"
    /\ rxneie' = FALSE /\ txeie' = FALSE
    /\ txe' = TRUE /\ rxne' = FALSE /\ ore' = FALSE
-----------------------------------------------------------------------------
(* Init().  The NVIC's enable bit is set together with RXNEIE.             *)
UartInit ==
    /\ rxneie' = TRUE
    /\ UNCHANGED <<ringVars, handler, txeie, txe, rxne, ore>>

TxFull == tx = TxMax

(* Mutant of Push: the ring is not tested for being full.                  *)
MutPushAnyway ==
    /\ tx' = tx + 1
    /\ UNCHANGED <<rx, overruns, handler, rxneie, txeie, txe, rxne, ore>>

(* tx_enqueue_byte(): the test and the push; then the interrupt is enabled.*)
Push ==
    /\ ~TxFull
    /\ tx' = tx + 1
    /\ UNCHANGED <<rx, overruns, handler, rxneie, txeie, txe, rxne, ore>>

EnableTxe ==
    /\ txeie' = TRUE
    /\ UNCHANGED <<ringVars, handler, rxneie, txe, rxne, ore>>

(* has_data() and read_byte().                                             *)
HasData == rx > 0
ReadByte ==
    /\ HasData
    /\ rx' = rx - 1
    /\ UNCHANGED <<tx, overruns, handler, rxneie, txeie, txe, rxne, ore>>
-----------------------------------------------------------------------------
(* USART1 asks for its interrupt.                                          *)
IrqRequested == (txeie /\ txe) \/ (rxneie /\ (rxne \/ ore))

(* Mutants of TransmitHalf: sending a byte disables the interrupt, an      *)
(* empty ring does not.                                                    *)
MutDisableAlways ==
    /\ handler = "idle" /\ handler' = "status"
    /\ IF txe /\ tx > 0 THEN tx' = tx - 1 /\ txe' = FALSE ELSE UNCHANGED <<tx, txe>>
    /\ txeie' = (txeie /\ ~txe)
    /\ UNCHANGED <<rx, overruns, rxneie, rxne, ore>>

MutNeverDisable ==
    /\ handler = "idle" /\ handler' = "status"
    /\ IF txe /\ tx > 0 THEN tx' = tx - 1 /\ txe' = FALSE ELSE UNCHANGED <<tx, txe>>
    /\ UNCHANGED <<rx, overruns, rxneie, txeie, rxne, ore>>

(* handleIRQ(), first part: an empty TDR is given the next byte; without   *)
(* one its interrupt is disabled.                                          *)
TransmitHalf ==
    /\ handler = "idle" /\ handler' = "status"
    /\ \/ txe /\ tx > 0 /\ tx' = tx - 1 /\ txe' = FALSE /\ UNCHANGED txeie
       \/ txe /\ tx = 0 /\ txeie' = FALSE /\ UNCHANGED <<tx, txe>>
       \/ ~txe /\ UNCHANGED <<tx, txe, txeie>>
    /\ UNCHANGED <<rx, overruns, rxneie, rxne, ore>>

(* Second part: ISR is read once, and RDR after it.                        *)
ReadStatus ==
    /\ handler = "status"
    /\ handler' = IF ore THEN "overrun" ELSE IF rxne THEN "byte" ELSE "idle"
    /\ UNCHANGED <<ringVars, rxneie, txeie, txe, rxne, ore>>

CountOverrun == overruns' = (overruns + 1) % CountMod

(* Reading RDR clears RXNE. ORE is cleared by writing ORECF to ICR, which  *)
(* the driver never does.                                                  *)
ReadOverrun ==
    /\ handler = "overrun" /\ handler' = "idle"
    /\ rxne' = FALSE /\ CountOverrun
    /\ UNCHANGED <<tx, rx, rxneie, txeie, txe, ore>>

(* Mutant of ReadReceived: a byte dropped at the full ring is not counted. *)
MutDropUncounted ==
    /\ handler = "byte" /\ handler' = "idle"
    /\ rxne' = FALSE
    /\ rx' = IF rx < RxMax THEN rx + 1 ELSE rx
    /\ UNCHANGED <<tx, overruns, rxneie, txeie, txe, ore>>

ReadReceived ==
    /\ handler = "byte" /\ handler' = "idle"
    /\ rxne' = FALSE
    /\ \/ rx < RxMax /\ rx' = rx + 1 /\ UNCHANGED overruns
       \/ rx = RxMax /\ CountOverrun /\ UNCHANGED rx
    /\ UNCHANGED <<tx, rxneie, txeie, txe, ore>>

ReceiveHalf == ReadStatus \/ ReadOverrun \/ ReadReceived
-----------------------------------------------------------------------------
(* The hardware: a byte has left the TDR, a byte arrives. One that finds   *)
(* the RDR occupied is lost and sets ORE.                                  *)
Transmit ==
    /\ ~txe /\ txe' = TRUE
    /\ UNCHANGED <<ringVars, handler, rxneie, txeie, rxne, ore>>

Arrive ==
    /\ rxneie                   \* the receiver has been switched on
    /\ rxne' = TRUE /\ ore' = (ore \/ rxne)
    /\ UNCHANGED <<ringVars, handler, rxneie, txeie, txe>>

(* The type invariant: the rings keep their sizes.                         *)
RingType ==
    /\ tx \in 0..TxMax /\ rx \in 0..RxMax /\ overruns \in 0..(CountMod - 1)
    /\ handler \in {"idle", "status", "overrun", "byte"}
FlagType ==
    /\ rxneie \in BOOLEAN /\ txeie \in BOOLEAN
    /\ txe \in BOOLEAN /\ rxne \in BOOLEAN /\ ore \in BOOLEAN
UartType == RingType /\ FlagType
=============================================================================
