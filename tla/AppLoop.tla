------------------------------- MODULE AppLoop -------------------------------
(***************************************************************************)
(* app/app_loop.cpp: the superloop, one action per statement, with the      *)
(* interrupts SysTick, TIM17 and USART1 between any two of them.  It polls  *)
(* the drivers, turns bytes of the UART into key events, counts the timer,  *)
(* and dispatches at most one queued event per pass to the controller.      *)
(***************************************************************************)
EXTENDS Controller, TimDriver, Sequences

CONSTANTS
    QueueMax,           \* EVENT_QUEUE_MAX_SIZE
    RxMax,              \* size of the receive buffer of the UART
    UartPressDuration,  \* UART_BUTTON_PRESS_DURATION_MS
    Phys,               \* the keys a user presses with a finger
    Bytes,              \* the bytes that may arrive on the UART
    MaxBacklog          \* bound: update events of TIM17 not yet counted, for
                        \* passes short enough that the counter does not wrap

ASSUME AppLoopAssumption ==
    /\ QueueMax \in Nat \ {0} /\ RxMax \in Nat \ {0}
    /\ UartPressDuration \in 0..(TickMod - 1)
    /\ Phys \subseteq Buttons
    /\ Bytes \subseteq Buttons \cup {"other"}
    /\ MaxBacklog \in 0..(IrqMod - 1)

VARIABLES
    at,             \* the statement of app_loop that runs next
    queue,          \* app.queue
    rx,             \* received bytes that app_loop has not read
    pending,        \* pending_uart_release
    pendingAt,      \* pending_uart_release_deadline
    down            \* the keys ButtonsManager has last reported pressed

uartVars == <<rx, pending, pendingAt>>
appVars  == <<ctrlVars, beepVars, timeVars, timVars, at, queue, uartVars, down>>

NoEvent == [type |-> "None", value |-> 0]
Press(k)   == [type |-> k, value |-> 0]
Release(k) == [type |-> k, value |-> 2]
Keys       == Bytes \cap Buttons   \* '1'..'4'; "other" is any other byte

AInit ==
    /\ Init /\ TimInit
    /\ at = "sensor" /\ queue = <<>>
    /\ rx = <<>> /\ pending = NoEvent /\ pendingAt = 0
    /\ down = {}

(* Mutant of Enqueue: a full queue overwrites its oldest event.            *)
MutOverwrite(q, es) ==
    LET all == q \o es
    IN SubSeq(all, IF Len(all) > QueueMax THEN Len(all) - QueueMax + 1 ELSE 1, Len(all))

(* Pushes of EventQueue: what finds the queue full is dropped.             *)
Enqueue(q, es) ==
    LET all == q \o es
    IN SubSeq(all, 1, IF Len(all) < QueueMax THEN Len(all) ELSE QueueMax)

GoTo(here, there) == at = here /\ at' = there
-----------------------------------------------------------------------------
(* sensor->poll(): now and then a measurement succeeds.                    *)
SensorPoll ==
    /\ GoTo("sensor", "buttons")
    /\ \/ UNCHANGED queue
       \/ \E e \in SampleEvents : queue' = Enqueue(queue, <<e>>)
    /\ UNCHANGED <<ctrlVars, beepVars, timeVars, timVars, uartVars, down>>

(* buttons->poll(), by what KeyReports says of it.                         *)
Manager == INSTANCE KeyReports WITH reported <- <<>>

ButtonsPoll ==
    /\ GoTo("buttons", "ctrl")
    /\ \E values \in Manager!Choices, combo \in Manager!Combinations :
         /\ queue' = Enqueue(queue, Manager!PollEvents(values, combo))
         /\ down' = Manager!DownAfter(values)
    /\ UNCHANGED <<ctrlVars, beepVars, timeVars, timVars, uartVars>>

CtrlStep ==
    /\ GoTo("ctrl", "beep")
    /\ CtrlPoll
    /\ UNCHANGED <<beepVars, timeVars, timVars, queue, uartVars, down>>

BeepStep ==
    /\ GoTo("beep", "release")
    /\ BeepPoll
    /\ UNCHANGED <<ctrlVars, timeVars, timVars, queue, uartVars, down>>

(* Mutants of ReleaseDue: only the exact instant counts; one tick early.   *)
MutReleaseExact == pending # NoEvent /\ now = pendingAt
MutReleaseEarly == pending # NoEvent /\ now + 1 >= pendingAt

(* The pending release is due; like the end of a beep, the deadline is     *)
(* compared as a plain number.                                             *)
ReleaseDue == pending # NoEvent /\ now >= pendingAt

UartRelease ==
    /\ GoTo("release", "uart")
    /\ \/ /\ ReleaseDue
          /\ queue' = Enqueue(queue, <<pending>>)
          /\ pending' = NoEvent
       \/ ~ReleaseDue /\ UNCHANGED <<queue, pending>>
    /\ UNCHANGED <<ctrlVars, beepVars, timeVars, timVars, rx, pendingAt, down>>

(* One iteration of the loop over the received bytes.  A key's press goes  *)
(* into the queue, its release takes the one pending slot.                 *)
UartByte ==
    /\ at = "uart" /\ rx # <<>> /\ UNCHANGED at
    /\ rx' = Tail(rx)
    /\ IF Head(rx) \in Keys
       THEN /\ queue' = Enqueue(queue, <<Press(Head(rx))>>)
            /\ pending' = Release(Head(rx))
            /\ pendingAt' = After(now, UartPressDuration)
       ELSE UNCHANGED <<queue, pending, pendingAt>>
    /\ UNCHANGED <<ctrlVars, beepVars, timeVars, timVars, down>>

UartDone ==
    /\ GoTo("uart", "timer") /\ rx = <<>>
    /\ UNCHANGED <<ctrlVars, beepVars, timeVars, timVars, queue, uartVars, down>>

(* The timer block: the test, then the load and the store of decIrqCount.  *)
TimerTest ==
    /\ GoTo("timer", IF TimPending THEN "load" ELSE "pop")
    /\ UNCHANGED <<ctrlVars, beepVars, timeVars, timVars, queue, uartVars, down>>

TimerLoad ==
    /\ GoTo("load", "store")
    /\ DecLoad
    /\ UNCHANGED <<ctrlVars, beepVars, timeVars, queue, uartVars, down>>

TimerStore ==
    /\ GoTo("store", "pop")
    /\ DecStore
    /\ queue' = IF TickDue
                THEN Enqueue(queue, <<[type |-> "Tick100ms", value |-> 0]>>) ELSE queue
    /\ UNCHANGED <<ctrlVars, beepVars, timeVars, uartVars, down>>

(* Mutant of PopEvent: the newest event is served first.                   *)
MutPopNewest ==
    /\ queue # <<>>
    /\ GoTo("pop", "reload")
    /\ queue' = SubSeq(queue, 1, Len(queue) - 1)
    /\ Dispatch(queue[Len(queue)])
    /\ UNCHANGED <<timVars, uartVars, down>>

(* One event is popped and dispatched. Dispatch leaves the clock alone.    *)
PopEvent ==
    /\ queue # <<>>
    /\ GoTo("pop", "reload")
    /\ queue' = Tail(queue)
    /\ Dispatch(Head(queue))
    /\ UNCHANGED <<timVars, uartVars, down>>

PopNothing ==
    /\ queue = <<>>
    /\ GoTo("pop", "reload")
    /\ UNCHANGED <<ctrlVars, beepVars, timeVars, timVars, queue, uartVars, down>>

Watchdog ==
    /\ GoTo("reload", "sensor")
    /\ IwdgReload
    /\ UNCHANGED <<ctrlVars, beepVars, timVars, queue, uartVars, down>>

Main ==
    \/ SensorPoll \/ ButtonsPoll \/ CtrlStep \/ BeepStep
    \/ UartRelease \/ UartByte \/ UartDone
    \/ TimerTest \/ TimerLoad \/ TimerStore
    \/ PopEvent \/ PopNothing \/ Watchdog
-----------------------------------------------------------------------------
(* The interrupts.                                                         *)
SysTickIrq ==
    /\ SysTick
    /\ UNCHANGED <<ctrlVars, beepVars, timVars, at, queue, uartVars, down>>

Tim17Irq ==
    /\ irqCount < MaxBacklog
    /\ TimIrq
    /\ UNCHANGED <<ctrlVars, beepVars, timeVars, at, queue, uartVars, down>>

(* The receive half of USART1's handler: a byte that finds the buffer full *)
(* is counted as an overrun and dropped.                                   *)
Usart1Irq ==
    /\ \E b \in Bytes :
         rx' = IF Len(rx) < RxMax THEN Append(rx, b) ELSE rx
    /\ UNCHANGED <<ctrlVars, beepVars, timeVars, timVars, at, queue,
                   pending, pendingAt, down>>

ANext == Main \/ SysTickIrq \/ Tim17Irq \/ Usart1Irq

(* The superloop never waits: it makes progress for ever.                  *)
ASpec == AInit /\ [][ANext]_appVars /\ WF_appVars(Main)
=============================================================================
