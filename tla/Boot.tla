--------------------------------- MODULE Boot ---------------------------------
(***************************************************************************)
(* main.cpp with hardware_init, services_init and what app_loop does with   *)
(* the UART: interrupts are masked while the hardware is set up, the        *)
(* firmware's texts are written, and every pass ends with a reload of the   *)
(* watchdog, which starts all over when the passes stop.                    *)
(***************************************************************************)
EXTENDS UsartDriver

CONSTANTS
    InfoTexts,      \* lengths of the texts of print_fw_info, in their order
    ReadyLen,       \* length of "System ready.\r\n"
    MessageLen      \* length of a message of the sensor

ASSUME BootAssumption ==
    /\ InfoTexts \in Seq(Nat)
    /\ ReadyLen \in 0..TxMax
    /\ MessageLen \in Nat

VARIABLES
    at,             \* the statement that runs next
    phase,          \* which texts write_str is called for
    texts, left,    \* texts still to write, bytes left of the present one
    masked,         \* PRIMASK, between __disable_irq and __enable_irq
    uart,           \* app.uart has been set
    flushKept       \* whether the build keeps the empty loop of flush()

progVars == <<at, phase, texts, left, masked, uart>>
bootVars == <<uartVars, progVars, flushKept>>

BInit ==
    /\ UartStart
    /\ at = "uart_init" /\ phase = "info"
    /\ texts = InfoTexts /\ left = 0
    /\ masked = TRUE /\ uart = FALSE
    /\ flushKept \in BOOLEAN

GoTo(here, there) == at = here /\ at' = there
-----------------------------------------------------------------------------
(* hardware_init: the UART, app.uart, the rest of the hardware; and        *)
(* __enable_irq of main.                                                   *)
InitUart ==
    /\ GoTo("uart_init", "set_uart")
    /\ UartInit
    /\ UNCHANGED <<phase, texts, left, masked, uart>>

SetUart ==
    /\ GoTo("set_uart", "enable_irq")
    /\ uart' = TRUE
    /\ UNCHANGED <<uartVars, phase, texts, left, masked>>

EnableIrq ==
    /\ GoTo("enable_irq", "write")
    /\ masked' = FALSE
    /\ UNCHANGED <<uartVars, phase, texts, left, uart>>

(* write_str(): byte by byte until the text ends or the ring is full.      *)
WriteByte ==
    /\ GoTo("write", "enable_txe")
    /\ left > 0 /\ Push
    /\ left' = left - 1
    /\ UNCHANGED <<phase, texts, masked, uart>>

EnableTransmit ==
    /\ GoTo("enable_txe", "write")
    /\ EnableTxe
    /\ UNCHANGED <<phase, texts, left, masked, uart>>

Written == left = 0 \/ TxFull

(* The next text of print_fw_info, though the last may have been cut.      *)
NextText ==
    /\ at = "write" /\ Written /\ texts # <<>>
    /\ left' = Head(texts) /\ texts' = Tail(texts)
    /\ UNCHANGED <<uartVars, at, phase, masked, uart>>

(* The return from the last write_str of a phase.                          *)
TextsDone ==
    /\ Written /\ texts = <<>>
    /\ GoTo("write", CASE phase = "info" -> "flush"
                       [] phase = "ready" -> "message"
                       [] phase = "loop" -> "drain")
    /\ UNCHANGED <<uartVars, phase, texts, left, masked, uart>>

BeginText(next, length) == phase' = next /\ left' = length /\ UNCHANGED texts

(* Mutant of Flush: it does not wait.                                      *)
MutFlushNothing ==
    /\ GoTo("flush", "write")
    /\ BeginText("ready", ReadyLen)
    /\ UNCHANGED <<uartVars, masked, uart>>

(* flush() spins while the ring holds bytes; the loop has no side effect,  *)
(* so an optimising build may drop it.                                     *)
Flush ==
    /\ GoTo("flush", "write")
    /\ tx = 0 \/ ~flushKept
    /\ BeginText("ready", ReadyLen)
    /\ UNCHANGED <<uartVars, masked, uart>>

(* app_loop: sometimes the sensor writes a message.                        *)
Message ==
    /\ \/ GoTo("message", "drain") /\ UNCHANGED <<phase, texts, left>>
       \/ GoTo("message", "write") /\ BeginText("loop", MessageLen)
    /\ UNCHANGED <<uartVars, masked, uart>>

DrainByte ==
    /\ at = "drain" /\ UNCHANGED at
    /\ ReadByte
    /\ UNCHANGED <<phase, texts, left, masked, uart>>

DrainDone ==
    /\ GoTo("drain", "reload") /\ ~HasData
    /\ UNCHANGED <<uartVars, phase, texts, left, masked, uart>>

Reload ==
    /\ GoTo("reload", "message")
    /\ UNCHANGED <<uartVars, phase, texts, left, masked, uart>>

(* The program runs while no interrupt does or is due.                     *)
Main ==
    /\ handler = "idle" /\ (masked \/ ~IrqRequested)
    /\ \/ InitUart \/ SetUart \/ EnableIrq
       \/ WriteByte \/ EnableTransmit \/ NextText \/ TextsDone \/ Flush
       \/ Message \/ DrainByte \/ DrainDone \/ Reload
    /\ UNCHANGED flushKept

(* USART1_IRQHandler.                                                      *)
Handler ==
    /\ \/ ~masked /\ IrqRequested /\ uart /\ TransmitHalf
       \/ ReceiveHalf
    /\ UNCHANGED <<progVars, flushKept>>

Sends    == Transmit /\ UNCHANGED <<progVars, flushKept>>
Receives == Arrive /\ UNCHANGED <<progVars, flushKept>>

(* No handler clears the request: the program does not run again, and the  *)
(* watchdog, started before the UART, resets the controller.               *)
Starved == ~masked /\ IrqRequested /\ (ore \/ ~uart)
WatchdogReset ==
    /\ Starved
    /\ UartReset
    /\ at' = "uart_init" /\ phase' = "info"
    /\ texts' = InfoTexts /\ left' = 0
    /\ masked' = TRUE /\ uart' = FALSE
    /\ UNCHANGED flushKept

BNext == Main \/ Handler \/ Sends \/ Receives \/ WatchdogReset

(* The handler and the hardware do not wait; a handler lasts less than the *)
(* time of a byte on the line, so the program runs again and again, unless *)
(* the request of the interrupt cannot be cleared.                         *)
Fairness ==
    /\ WF_bootVars(Handler) /\ WF_bootVars(Sends) /\ WF_bootVars(WatchdogReset)
    /\ SF_bootVars(Main)
BSpec == BInit /\ [][BNext]_bootVars /\ Fairness
-----------------------------------------------------------------------------
(* No byte is left in the ring without an interrupt to fetch it: whenever  *)
(* the handler disables its interrupt, before, between or after the push   *)
(* and the enabling of the program, the program still enables it.          *)
NoByteStranded == tx > 0 => txeie \/ at = "enable_txe"

(* With flush() in the build, "System ready." never finds the ring full,   *)
(* although the texts before it overflow it.                               *)
ReadyComplete == flushKept /\ phase = "ready" /\ left > 0 => ~TxFull

(* The firmware goes on making passes once the line is quiet: not even an  *)
(* overrun that started an endless interrupt, during the boot or the       *)
(* texts, keeps it from them, because the watchdog begins again.           *)
KeepsPassing == <>[][~Receives]_bootVars => []<>(at = "reload")

(* The comments of handleIRQ: reading RDR clears ORE too.                  *)
OverrunCleared == [][ReadOverrun => ~ore']_bootVars
=============================================================================
