------------------------------ MODULE BootProofs ------------------------------
(***************************************************************************)
(* Theorems of Boot for every value of its constants: the rings keep their  *)
(* sizes, no byte is stranded in the transmit ring, the last line of the    *)
(* boot is complete, and every received byte is accounted for.              *)
(***************************************************************************)
EXTENDS MCBoot, TLAPS

-----------------------------------------------------------------------------
(* The inductive invariant.  ReadyComplete needs to know that flush left an *)
(* empty ring which only the ready line fills, that line being the last     *)
(* text of its phase.                                                       *)
ProgramType ==
    /\ at \in {"uart_init", "set_uart", "enable_irq", "write", "enable_txe",
               "flush", "message", "drain", "reload"}
    /\ phase \in {"info", "ready", "loop"}
    /\ texts \in Seq(Nat) /\ left \in Nat
    /\ masked \in BOOLEAN /\ uart \in BOOLEAN /\ flushKept \in BOOLEAN

InfoOver == phase # "info" \/ at \in {"flush", "message", "drain", "reload"}
NoTextLeft == InfoOver => texts = <<>>
ReadyFits == flushKept /\ phase = "ready" => tx + left <= ReadyLen

BootInv == UartType /\ ProgramType /\ NoByteStranded /\ NoTextLeft /\ ReadyFits

(* The constants the steps need.                                           *)
LEMMA BootConstants ==
    /\ TxMax \in Nat \ {0} /\ RxMax \in Nat \ {0} /\ CountMod \in Nat \ {0}
    /\ InfoTexts \in Seq(Nat) /\ ReadyLen \in Nat /\ ReadyLen <= TxMax
    /\ MessageLen \in Nat
  BY UsartAssumption, BootAssumption

(* Remainders of the counter of losses.                                    *)
LEMMA ModRange ==
    ASSUME NEW m \in Nat \ {0}, NEW x \in Int
    PROVE  x % m \in 0..(m - 1)
  BY SMT

(* The initial state satisfies the invariant.                              *)
LEMMA BootInitInv == BInit => BootInv
  <1> SUFFICES ASSUME BInit PROVE BootInv
    OBVIOUS
  <1> USE BootConstants DEF BInit, UartStart
  <1>1. UartType
    <2>1. RingType
      BY DEF RingType
    <2>2. FlagType
      BY Zenon DEF FlagType
    <2> QED
      BY <2>1, <2>2 DEF UartType
  <1>2. ProgramType
    BY DEF ProgramType
  <1>3. NoByteStranded /\ NoTextLeft /\ ReadyFits
    BY DEF NoByteStranded, NoTextLeft, InfoOver, ReadyFits
  <1> QED
    BY <1>1, <1>2, <1>3 DEF BootInv

(* The steps of the program that leave the UART alone.                     *)
LEMMA QuietStepInv ==
    ASSUME BootInv, UNCHANGED <<uartVars, flushKept>>,
           \/ EnableIrq \/ NextText \/ TextsDone \/ Flush
           \/ Message \/ DrainDone \/ Reload \/ SetUart
    PROVE  BootInv'
  <1> USE BootConstants DEF uartVars, ringVars, GoTo
  <1>1. UartType'
    BY DEF BootInv, UartType, RingType, FlagType
  <1>2. ASSUME texts # <<>> PROVE Head(texts) \in Nat /\ Tail(texts) \in Seq(Nat)
    BY <1>2 DEF BootInv, ProgramType
  <1>3. ProgramType'
    BY <1>2 DEF BootInv, ProgramType, EnableIrq, NextText, TextsDone, Flush,
        Message, DrainDone, Reload, SetUart, BeginText
  <1>4. NoByteStranded'
    BY DEF BootInv, NoByteStranded, EnableIrq, NextText, TextsDone, Flush,
        Message, DrainDone, Reload, SetUart
  <1>5. NoTextLeft'
    BY DEF BootInv, NoTextLeft, InfoOver, ProgramType, EnableIrq, NextText,
        TextsDone, Flush, Message, DrainDone, Reload, SetUart, BeginText
  <1>6. ReadyFits'
    <2>1. CASE Flush
      BY <2>1 DEF BootInv, ReadyFits, Flush, BeginText
    <2>2. CASE Message
      BY <2>2 DEF BootInv, ReadyFits, Message, BeginText
    <2>3. CASE NextText
      BY <2>3 DEF BootInv, ReadyFits, NoTextLeft, InfoOver, NextText
    <2>4. CASE EnableIrq \/ TextsDone \/ DrainDone \/ Reload \/ SetUart
      BY <2>4 DEF BootInv, ReadyFits, EnableIrq, TextsDone, DrainDone, Reload, SetUart
    <2> QED
      BY <2>1, <2>2, <2>3, <2>4
  <1> QED
    BY <1>1, <1>3, <1>4, <1>5, <1>6 DEF BootInv

(* The operations of the driver, called by the program.                    *)
LEMMA DriverStepInv ==
    ASSUME BootInv, UNCHANGED flushKept,
           InitUart \/ WriteByte \/ EnableTransmit \/ DrainByte
    PROVE  BootInv'
  <1> USE BootConstants DEF ringVars, GoTo, UartInit, Push, TxFull, EnableTxe,
        ReadByte, HasData, InitUart, WriteByte, EnableTransmit, DrainByte
  <1>1. UartType'
    <2>1. RingType'
      BY DEF BootInv, UartType, RingType, ProgramType
    <2>2. FlagType'
      BY Zenon DEF BootInv, UartType, FlagType
    <2> QED
      BY <2>1, <2>2 DEF UartType
  <1>2. ProgramType'
    BY DEF BootInv, ProgramType
  <1>3. NoByteStranded'
    BY DEF BootInv, NoByteStranded
  <1>4. NoTextLeft'
    BY DEF BootInv, NoTextLeft, InfoOver
  <1>5. ReadyFits'
    BY DEF BootInv, ReadyFits, UartType, RingType, ProgramType
  <1> QED
    BY <1>1, <1>2, <1>3, <1>4, <1>5 DEF BootInv

(* The interrupt and the hardware: the handler disables its interrupt only *)
(* when the ring is empty.                                                 *)
LEMMA DeviceStepInv ==
    ASSUME BootInv, UNCHANGED <<progVars, flushKept>>,
           TransmitHalf \/ ReceiveHalf \/ Transmit \/ Arrive
    PROVE  BootInv'
  <1> USE BootConstants DEF ringVars, progVars
  <1>1. ASSUME overruns \in Int
        PROVE  (overruns + 1) % CountMod \in 0..(CountMod - 1)
    BY <1>1, ModRange
  <1>2. UartType'
    <2>1. RingType'
      BY <1>1 DEF BootInv, UartType, RingType, TransmitHalf, ReceiveHalf,
          ReadStatus, ReadOverrun, ReadReceived, CountOverrun, Transmit, Arrive
    <2>2. FlagType'
      BY Zenon DEF BootInv, UartType, FlagType, TransmitHalf, ReceiveHalf,
          ReadStatus, ReadOverrun, ReadReceived, Transmit, Arrive
    <2> QED
      BY <2>1, <2>2 DEF UartType
  <1>3. ProgramType' /\ NoTextLeft'
    BY DEF BootInv, ProgramType, NoTextLeft, InfoOver
  <1>4. NoByteStranded'
    BY DEF BootInv, NoByteStranded, UartType, RingType, TransmitHalf, ReceiveHalf,
        ReadStatus, ReadOverrun, ReadReceived, Transmit, Arrive
  <1>5. ReadyFits'
    BY DEF BootInv, ReadyFits, UartType, RingType, ProgramType, TransmitHalf, ReceiveHalf,
        ReadStatus, ReadOverrun, ReadReceived, Transmit, Arrive
  <1> QED
    BY <1>2, <1>3, <1>4, <1>5 DEF BootInv

(* A reset by the watchdog.                                                *)
LEMMA ResetInv ==
    ASSUME BootInv, WatchdogReset
    PROVE  BootInv'
  <1> USE BootConstants DEF WatchdogReset, UartReset
  <1>1. UartType'
    <2>1. RingType'
      BY DEF RingType
    <2>2. FlagType'
      BY Zenon DEF FlagType
    <2> QED
      BY <2>1, <2>2 DEF UartType
  <1>2. ProgramType'
    BY DEF BootInv, ProgramType
  <1>3. NoByteStranded' /\ NoTextLeft' /\ ReadyFits'
    BY DEF NoByteStranded, NoTextLeft, InfoOver, ReadyFits
  <1> QED
    BY <1>1, <1>2, <1>3 DEF BootInv

(* Every step keeps the invariant.                                         *)
LEMMA BootNextInv == BootInv /\ [BNext]_bootVars => BootInv'
  <1> SUFFICES ASSUME BootInv, [BNext]_bootVars PROVE BootInv'
    OBVIOUS
  <1>1. CASE Main
    <2>1. CASE InitUart \/ WriteByte \/ EnableTransmit \/ DrainByte
      BY <1>1, <2>1, DriverStepInv DEF Main
    <2>2. CASE \/ EnableIrq \/ NextText \/ TextsDone \/ Flush
               \/ Message \/ DrainDone \/ Reload \/ SetUart
      <3>1. UNCHANGED <<uartVars, flushKept>>
        BY <1>1, <2>2 DEF Main, EnableIrq, NextText, TextsDone, Flush,
            Message, DrainDone, Reload, SetUart
      <3> QED
        BY <2>2, <3>1, QuietStepInv
    <2> QED
      BY <1>1, <2>1, <2>2 DEF Main
  <1>2. CASE Handler \/ Sends \/ Receives
    BY <1>2, DeviceStepInv DEF Handler, Sends, Receives
  <1>3. CASE WatchdogReset
    BY <1>3, ResetInv
  <1>4. CASE UNCHANGED bootVars
    BY <1>4 DEF BootInv, bootVars, uartVars, ringVars, progVars, UartType, RingType, FlagType,
        ProgramType, NoByteStranded, NoTextLeft, InfoOver, ReadyFits
  <1> QED
    BY <1>1, <1>2, <1>3, <1>4 DEF BNext

(* The invariant of the boot and the passes after it.                      *)
THEOREM BootInvariance == BSpec => []BootInv
  <1> QED
    BY BootInitInv, BootNextInv, PTL DEF BSpec

(* The rings keep their sizes, whoever fills and empties them.             *)
THEOREM UartTypeCorrect == BSpec => []UartType
  <1>1. BootInv => UartType
    BY DEF BootInv
  <1> QED
    BY BootInvariance, <1>1, PTL

(* No byte waits in the transmit ring without an interrupt to fetch it.    *)
THEOREM BytesFetched == BSpec => []NoByteStranded
  <1>1. BootInv => NoByteStranded
    BY DEF BootInv
  <1> QED
    BY BootInvariance, <1>1, PTL

(* With flush() in the build the ready line is never cut, whatever the     *)
(* lengths of the texts before it.                                         *)
THEOREM ReadyLineComplete == BSpec => []ReadyComplete
  <1>1. BootInv => ReadyComplete
    BY BootConstants
       DEF BootInv, UartType, RingType, ProgramType, ReadyFits, ReadyComplete, TxFull
  <1> QED
    BY BootInvariance, <1>1, PTL

-----------------------------------------------------------------------------
(* The count of the bytes.                                                 *)

(* Division with remainder, and its uniqueness.                            *)
LEMMA ModSplit ==
    ASSUME NEW m \in Int, m > 0, NEW x \in Int
    PROVE  x \div m \in Int /\ x % m \in 0..(m - 1) /\ x = m * (x \div m) + (x % m)
  <1>1. x \div m \in Int /\ x % m \in 0..(m - 1)
    BY SMT
  <1>2. x % m = x - m * (x \div m)
    BY SMT
  <1>3. m * (x \div m) \in Int
    BY <1>1
  <1> DEFINE p == m * (x \div m)
             r == x % m
  <1>4. p \in Int /\ r \in Int /\ r = x - p
    BY <1>1, <1>2, <1>3
  <1>5. x = p + r
    <2> HIDE DEF p, r
    <2> QED
      BY <1>4
  <1> QED
    BY <1>1, <1>5, Zenon

LEMMA ModUnique ==
    ASSUME NEW m \in Nat \ {0}, NEW q \in Int, NEW r \in 0..(m - 1)
    PROVE  (m * q + r) % m = r
  BY SMT

(* A remainder may be taken before an addition.                            *)
LEMMA ModAdd ==
    ASSUME NEW m \in Nat \ {0}, NEW x \in Int, NEW y \in Int
    PROVE  ((x % m) + y) % m = (x + y) % m
  <1> DEFINE q == x \div m
             r == x % m
             p == (r + y) \div m
             s == (r + y) % m
  <1>1. r \in 0..(m - 1) /\ q \in Int /\ x = m * q + r
    BY ModSplit
  <1>2. r + y \in Int
    BY <1>1
  <1>3. s \in 0..(m - 1) /\ p \in Int /\ r + y = m * p + s
    BY <1>2, ModSplit
  <1> HIDE DEF q, r, p, s
  <1>4. m * q \in Int /\ m * p \in Int /\ m * q + m * p = m * (q + p)
    BY <1>1, <1>3
  <1>5. x + y = m * (q + p) + s
    BY <1>1, <1>3, <1>4
  <1>6. (m * (q + p) + s) % m = s
    BY <1>1, <1>3, ModUnique
  <1> QED
    BY <1>5, <1>6 DEF r, s

(* What the handler has seen of ISR is still so when it reads RDR.         *)
SeenStays == (handler = "byte" => rxne) /\ (handler = "overrun" => ore)

Kept == rx + overruns + IF rxne THEN 1 ELSE 0
AccountInv == BootInv /\ owed \in Int /\ SeenStays /\ BytesAccounted

(* The initial state and a reset owe nothing.                              *)
LEMMA AccountInit == MCInit => AccountInv
  <1> SUFFICES ASSUME MCInit PROVE AccountInv
    OBVIOUS
  <1>1. BootInv
    BY BootInitInv DEF MCInit
  <1>2. (CountMod * 0 + 0) % CountMod = 0
    BY ModUnique, BootConstants
  <1>3. 0 % CountMod = 0
    BY <1>2, BootConstants
  <1> QED
    BY <1>1, <1>3
       DEF MCInit, BInit, UartStart, AccountInv, SeenStays, BytesAccounted

(* What a step of the program does to the counts.                          *)
LEMMA AccountMain == AccountInv /\ MCMain => SeenStays' /\ BytesAccounted' /\ owed' \in Int
  <1> SUFFICES ASSUME AccountInv, MCMain
               PROVE  SeenStays' /\ BytesAccounted' /\ owed' \in Int
    OBVIOUS
  <1> USE DEF GoTo, ringVars, uartVars
  <1>1. handler = "idle" /\ CountMod \in Nat \ {0} /\ rx \in Int /\ overruns \in Int
    BY BootConstants DEF MCMain, Main, AccountInv, BootInv, UartType, RingType
  <1>2. CASE DrainByte
    <2>1. /\ at = "drain" /\ at' = "drain" /\ rx' = rx - 1
          /\ UNCHANGED <<overruns, handler, rxne, ore>>
      BY <1>2 DEF DrainByte, ReadByte
    <2>2. owed' = (owed - 1) % CountMod
      BY <2>1 DEF MCMain
    <2>3. owed' \in Int
      BY <1>1, <2>2, ModRange DEF AccountInv
    <2>4. ASSUME ~ore PROVE owed' = (Kept - 1) % CountMod
      <3>1. owed = Kept % CountMod /\ Kept \in Int
        BY <1>1, <2>4 DEF AccountInv, BytesAccounted, Kept
      <3>2. ((Kept % CountMod) + (-1)) % CountMod = (Kept + (-1)) % CountMod
        <4>1. -1 \in Int
          OBVIOUS
        <4> QED
          BY <1>1, <3>1, <4>1, ModAdd, Zenon
      <3>3. Kept % CountMod \in Int
        BY <1>1, <3>1, ModRange
      <3> HIDE DEF Kept
      <3> QED
        BY <2>2, <3>1, <3>2, <3>3
    <2>5. rx' + overruns' + (IF rxne' THEN 1 ELSE 0) = Kept - 1
      BY <1>1, <2>1 DEF Kept
    <2> QED
      BY <1>1, <2>1, <2>3, <2>4, <2>5 DEF BytesAccounted, SeenStays
  <1>3. CASE ~DrainByte
    <2>1. UNCHANGED <<rx, overruns, handler, rxne, ore>>
      BY <1>3 DEF MCMain, Main, InitUart, UartInit, SetUart, EnableIrq, WriteByte,
          Push, EnableTransmit, EnableTxe, NextText, TextsDone, Flush, Message,
          DrainDone, Reload
    <2>2. ~(at = "drain" /\ at' = "drain")
      BY <1>3 DEF MCMain, Main, InitUart, SetUart, EnableIrq, WriteByte,
          EnableTransmit, NextText, TextsDone, Flush, Message, DrainDone, Reload
    <2>3. owed' = owed
      BY <2>2 DEF MCMain
    <2> QED
      BY <2>1, <2>3 DEF AccountInv, BytesAccounted, SeenStays
  <1> QED
    BY <1>2, <1>3

(* A byte that the handler takes from RDR goes to the ring or is counted.  *)
LEMMA AccountHandler ==
    AccountInv /\ MCHandler => SeenStays' /\ BytesAccounted' /\ owed' \in Int
  <1> SUFFICES ASSUME AccountInv, MCHandler
               PROVE  SeenStays' /\ BytesAccounted' /\ owed' \in Int
    OBVIOUS
  <1> USE DEF ringVars
  <1>1. /\ CountMod \in Nat \ {0} /\ rx \in Int /\ overruns \in Int
        /\ owed' = owed /\ owed \in Int
    BY BootConstants DEF MCHandler, AccountInv, BootInv, UartType, RingType
  <1>2. CASE TransmitHalf
    BY <1>1, <1>2
       DEF AccountInv, SeenStays, BytesAccounted, TransmitHalf
  <1>3. CASE ReadStatus
    <2>1. UNCHANGED <<rx, overruns, rxne, ore>>
      BY <1>3 DEF ReadStatus
    <2>2. rxne' = rxne /\ ore' = ore
      BY <2>1
    <2>3. handler' = IF ore THEN "overrun" ELSE IF rxne THEN "byte" ELSE "idle"
      BY <1>3 DEF ReadStatus
    <2>4. /\ ore => handler' = "overrun"
          /\ ~ore /\ rxne => handler' = "byte"
          /\ ~ore /\ ~rxne => handler' = "idle"
      BY <2>3
    <2>5. SeenStays'
      BY <2>2, <2>4 DEF SeenStays
    <2> QED
      BY <1>1, <2>1, <2>5 DEF AccountInv, BytesAccounted
  <1>4. CASE ReadOverrun
    <2>1. ore /\ ore' /\ handler' = "idle"
      BY <1>4, Zenon DEF AccountInv, SeenStays, ReadOverrun
    <2> QED
      BY <1>1, <2>1 DEF SeenStays, BytesAccounted
  <1>5. CASE ReadReceived
    <2>1. rxne /\ ~rxne' /\ handler' = "idle" /\ ore' = ore
      BY <1>5, Zenon DEF AccountInv, SeenStays, ReadReceived
    <2>2. SeenStays'
      BY <2>1 DEF SeenStays
    <2>3. ASSUME ~ore PROVE owed = (rx + overruns + 1) % CountMod
      BY <2>1, <2>3 DEF AccountInv, BytesAccounted
    <2>4. CASE rx' = rx + 1 /\ overruns' = overruns
      <3>1. rx' + overruns' + 0 = rx + overruns + 1
        BY <1>1, <2>4
      <3> QED
        BY <1>1, <2>1, <2>2, <2>3, <3>1 DEF BytesAccounted
    <2>5. CASE rx' = rx /\ overruns' = (overruns + 1) % CountMod
      <3>1. (((overruns + 1) % CountMod) + rx) % CountMod = (overruns + 1 + rx) % CountMod
        <4>1. overruns + 1 \in Int
          BY <1>1
        <4> QED
          BY <1>1, <4>1, ModAdd, Zenon
      <3>2. (overruns + 1) % CountMod \in Int
        BY <1>1, ModRange
      <3>3. rx' + overruns' + 0 = ((overruns + 1) % CountMod) + rx
        BY <1>1, <2>5, <3>2
      <3>4. overruns + 1 + rx = rx + overruns + 1
        BY <1>1
      <3> QED
        BY <1>1, <2>1, <2>2, <2>3, <3>1, <3>3, <3>4 DEF BytesAccounted
    <2> QED
      BY <1>5, <2>4, <2>5 DEF ReadReceived, CountOverrun
  <1> QED
    BY <1>2, <1>3, <1>4, <1>5 DEF MCHandler, Handler, ReceiveHalf

(* A byte that arrives is owed, unless it overruns RDR.                    *)
LEMMA AccountDevice ==
    AccountInv /\ (MCSends \/ MCReceives) => SeenStays' /\ BytesAccounted' /\ owed' \in Int
  <1> SUFFICES ASSUME AccountInv, MCSends \/ MCReceives
               PROVE  SeenStays' /\ BytesAccounted' /\ owed' \in Int
    OBVIOUS
  <1> USE DEF ringVars
  <1>1. /\ CountMod \in Nat \ {0} /\ rx \in Int /\ overruns \in Int /\ owed \in Int
    BY BootConstants DEF AccountInv, BootInv, UartType, RingType
  <1>2. CASE MCSends
    BY <1>2 DEF MCSends, Sends, Transmit, AccountInv, SeenStays, BytesAccounted
  <1>3. CASE MCReceives
    <2>1. /\ rxne' /\ (~ore' => ~ore /\ ~rxne) /\ (ore => ore')
          /\ UNCHANGED <<rx, overruns, handler>>
      BY <1>3, Zenon DEF MCReceives, Receives, Arrive, ringVars
    <2>2. owed' = (owed + 1) % CountMod
      BY <1>3 DEF MCReceives
    <2>3. owed' \in Int
      BY <1>1, <2>2, ModRange
    <2>4. ASSUME ~ore' PROVE owed' = (rx + overruns + 1) % CountMod
      <3>1. owed = (rx + overruns + 0) % CountMod
        BY <2>1, <2>4 DEF AccountInv, BytesAccounted
      <3>2. rx + overruns + 0 = rx + overruns
        BY <1>1
      <3>3. (((rx + overruns) % CountMod) + 1) % CountMod = (rx + overruns + 1) % CountMod
        <4>1. rx + overruns \in Int /\ 1 \in Int
          BY <1>1
        <4> QED
          BY <1>1, <4>1, ModAdd, Zenon
      <3> QED
        BY <2>2, <3>1, <3>2, <3>3
    <2> QED
      BY <2>1, <2>3, <2>4 DEF AccountInv, SeenStays, BytesAccounted
  <1> QED
    BY <1>2, <1>3

(* Every step of the boot with its history keeps the account.              *)
LEMMA AccountNext == AccountInv /\ [MCNext]_mcVars => AccountInv'
  <1> SUFFICES ASSUME AccountInv, [MCNext]_mcVars PROVE AccountInv'
    OBVIOUS
  <1>1. BootInv'
    BY BootNextInv DEF AccountInv, MCNext, MCMain, MCHandler, MCSends,
        MCReceives, MCReset, BNext, mcVars
  <1>2. CASE MCReset
    <2>1. (CountMod * 0 + 0) % CountMod = 0
      BY ModUnique, BootConstants
    <2>2. 0 % CountMod = 0
      BY <2>1, BootConstants
    <2> QED
      BY <1>1, <1>2, <2>2 DEF MCReset, WatchdogReset, UartReset, AccountInv,
          SeenStays, BytesAccounted
  <1>3. CASE UNCHANGED mcVars
    BY <1>1, <1>3 DEF mcVars, bootVars, uartVars, ringVars, AccountInv,
        SeenStays, BytesAccounted
  <1> QED
    BY <1>1, <1>2, <1>3, AccountMain, AccountHandler, AccountDevice
       DEF MCNext, AccountInv

(* Until the first overrun of RDR every byte that arrived is in it, in the *)
(* ring, read by the program or counted as lost, whatever the sizes of the *)
(* ring and the counter and however often the counter wraps.               *)
THEOREM ReceptionAccounted == MCSpec => []BytesAccounted
  <1>1. AccountInv => BytesAccounted
    BY DEF AccountInv
  <1> QED
    BY AccountInit, AccountNext, <1>1, PTL DEF MCSpec
=============================================================================
