---------------------------- MODULE AppLoopProofs ----------------------------
(***************************************************************************)
(* Theorems of the superloop for every value of its constants: what holds   *)
(* of the controller alone holds of the composition with the queue, the     *)
(* keys, the UART and the interrupts, the superloop implements the abstract *)
(* thermostat, and neither the short showing of a temperature nor a beep    *)
(* ends early or late.                                                      *)
(***************************************************************************)
EXTENDS MCAppLoop, ControllerProofs, SequenceTheorems

-----------------------------------------------------------------------------
(* The event queue.                                                        *)

(* A push keeps the queue a sequence of events within its bound.           *)
LEMMA EnqueueType ==
    ASSUME NEW q \in Seq(Events), NEW es \in Seq(Events)
    PROVE  /\ Enqueue(q, es) \in Seq(Events)
           /\ Len(Enqueue(q, es)) <= QueueMax
  <1> DEFINE all  == q \o es
             last == IF Len(all) < QueueMax THEN Len(all) ELSE QueueMax
  <1>1. all \in Seq(Events)
    BY ConcatProperties
  <1>2. QueueMax \in Nat /\ Len(all) \in Nat
    BY <1>1, AppLoopAssumption, LenProperties
  <1>3. last \in Nat /\ last <= Len(all) /\ last <= QueueMax
    BY <1>2
  <1>4. \A i \in 1..last : all[i] \in Events
    <2> HIDE DEF all, last
    <2> QED
      BY <1>1, <1>2, <1>3, ElementOfSeq
  <1>5. /\ SubSeq(all, 1, last) \in Seq(Events)
        /\ Len(SubSeq(all, 1, last)) = IF 1 <= last THEN last - 1 + 1 ELSE 0
    <2> HIDE DEF all, last
    <2> QED
      BY <1>3, <1>4, SubSeqProperties
  <1>6. Enqueue(q, es) = SubSeq(all, 1, last)
    BY DEF Enqueue
  <1> HIDE DEF all, last
  <1> QED
    BY <1>2, <1>3, <1>5, <1>6

(* The sequence of one element.                                            *)
LEMMA OneElement ==
    ASSUME NEW S, NEW e \in S
    PROVE  <<e>> \in Seq(S)
  OBVIOUS

LEMMA OneEvent ==
    ASSUME NEW e \in Events
    PROVE  <<e>> \in Seq(Events)
  BY OneElement

(* The events made of a key and of the values it may report.               *)
LEMMA KeyEvent ==
    ASSUME NEW k \in Buttons, NEW v \in 0..3
    PROVE  [type |-> k, value |-> v] \in ButtonEvents
  BY DEF ButtonEvents

(* What one key pushes in a poll.                                          *)
PollValues == {<<>>, <<0>>, <<1>>, <<2>>, <<2, 3>>}
LEMMA KeyPushes ==
    ASSUME NEW k \in Buttons, NEW v \in PollValues
    PROVE  Manager!AsEvents(k, v) \in Seq(ButtonEvents)
  <1>1. /\ Len(v) \in Nat /\ DOMAIN v = 1..Len(v)
        /\ \A i \in 1..Len(v) : v[i] \in 0..3
    BY DEF PollValues
  <1>2. \A i \in 1..Len(v) : [type |-> k, value |-> v[i]] \in ButtonEvents
    BY <1>1, KeyEvent
  <1> QED
    BY <1>1, <1>2, IsASeq DEF Manager!AsEvents

(* A combination is reported as S1, if S1 and S2 are keys.                 *)
LEMMA ComboPushes ==
    ASSUME NEW c \in Manager!Combinations
    PROVE  Manager!AsEvents("S1", c) \in Seq(ButtonEvents)
  <1>1. c = <<>> \/ ("S1" \in Buttons /\ c \in {<<9>>, <<10>>})
    BY AppLoopAssumption DEF Manager!Combinations
  <1>2. /\ Len(c) \in Nat /\ DOMAIN c = 1..Len(c)
        /\ \A i \in 1..Len(c) : c[i] \in {9, 10} /\ "S1" \in Buttons
    BY <1>1
  <1>3. \A i \in 1..Len(c) : [type |-> "S1", value |-> c[i]] \in ButtonEvents
    BY <1>2 DEF ButtonEvents
  <1> QED
    BY <1>2, <1>3, IsASeq DEF Manager!AsEvents

(* A poll of the keys pushes events of keys.                               *)
LEMMA PollPushesKeys ==
    ASSUME NEW values \in Manager!Choices, NEW c \in Manager!Combinations
    PROVE  Manager!PollEvents(values, c) \in Seq(ButtonEvents)
  <1> DEFINE of(k) == IF k \in Phys THEN Manager!AsEvents(k, values[k]) ELSE <<>>
  <1>1. ASSUME NEW k PROVE of(k) \in Seq(ButtonEvents)
    <2>1. CASE k \in Phys
      <3>1. /\ k \in Buttons
            /\ values[k] \in PollValues
        BY <2>1, AppLoopAssumption DEF Manager!Choices, PollValues
      <3> QED
        BY <2>1, <3>1, KeyPushes
    <2>2. CASE k \notin Phys
      BY <2>2, EmptySeq
    <2> QED
      BY <2>1, <2>2
  <1>2. Manager!PollEvents(values, c)
          = of("S1") \o of("S2") \o of("S3") \o of("S4") \o Manager!AsEvents("S1", c)
    BY DEF Manager!PollEvents
  <1> DEFINE s1 == of("S1")  s2 == of("S2")  s3 == of("S3")  s4 == of("S4")
             s5 == Manager!AsEvents("S1", c)
  <1>3. /\ s1 \in Seq(ButtonEvents) /\ s2 \in Seq(ButtonEvents) /\ s3 \in Seq(ButtonEvents)
        /\ s4 \in Seq(ButtonEvents) /\ s5 \in Seq(ButtonEvents)
    BY <1>1, ComboPushes
  <1>4. Manager!PollEvents(values, c) = s1 \o s2 \o s3 \o s4 \o s5
    BY <1>2
  <1> HIDE DEF of, s1, s2, s3, s4, s5
  <1>5. s1 \o s2 \in Seq(ButtonEvents)
    BY <1>3, ConcatProperties
  <1>6. s1 \o s2 \o s3 \in Seq(ButtonEvents)
    BY <1>3, <1>5, ConcatProperties
  <1>7. s1 \o s2 \o s3 \o s4 \in Seq(ButtonEvents)
    BY <1>3, <1>6, ConcatProperties
  <1>8. s1 \o s2 \o s3 \o s4 \o s5 \in Seq(ButtonEvents)
    BY <1>3, <1>7, ConcatProperties
  <1> QED
    BY <1>4, <1>8

LEMMA PollPushes ==
    ASSUME NEW values \in Manager!Choices, NEW c \in Manager!Combinations
    PROVE  Manager!PollEvents(values, c) \in Seq(Events)
  <1>1. ButtonEvents \subseteq Events
    BY DEF Events
  <1> QED
    BY <1>1, PollPushesKeys, SeqMonotonic

-----------------------------------------------------------------------------
(* The controller inside the superloop: its inductive invariant, with the  *)
(* one fact its steps need of their new input, the queue: whatever waits   *)
(* there, or is kept for later, is an event of the controller.             *)
PendingType == pending \in {NoEvent} \cup {Release(k) : k \in Keys}
SafeInv == Inv /\ queue \in Seq(Events) /\ PendingType

LEMMA AInitInv == AInit => SafeInv
  <1> SUFFICES ASSUME AInit PROVE SafeInv
    OBVIOUS
  <1>1. Inv
    BY InitInv DEF AInit
  <1>2. <<>> \in Seq(Events)
    OBVIOUS
  <1> QED
    BY <1>1, <1>2 DEF AInit, SafeInv, PendingType

(* Whatever leaves the controller, the piezo and the clock alone.          *)
LEMMA AsideInv ==
    ASSUME Inv, UNCHANGED <<ctrlVars, beepVars, timeVars>>
    PROVE  Inv'
  <1>1. TicksType'
    BY DEF timeVars, Inv, TypeOK, TicksType
  <1> QED
    BY <1>1, IdleInv

(* The events that the steps of the superloop push.                        *)
LEMMA TypedKeys ==
    ASSUME NEW k \in Keys
    PROVE  Press(k) \in ButtonEvents /\ Release(k) \in ButtonEvents
  <1>1. k \in Buttons /\ 0 \in 0..3 /\ 2 \in 0..3
    BY DEF Keys
  <1>2. [type |-> k, value |-> 0] \in ButtonEvents /\ [type |-> k, value |-> 2] \in ButtonEvents
    BY <1>1, KeyEvent
  <1> QED
    BY <1>2 DEF Press, Release

LEMMA TypedEvents ==
    ASSUME NEW k \in Keys
    PROVE  Press(k) \in Events /\ Release(k) \in Events
  BY TypedKeys DEF Events

LEMMA PendingEvent ==
    ASSUME PendingType, pending # NoEvent
    PROVE  pending \in Events
  <1>1. PICK k \in Keys : pending = Release(k)
    BY DEF PendingType
  <1> QED
    BY <1>1, TypedEvents

LEMMA TickEvent == [type |-> "Tick100ms", value |-> 0] \in Events
  BY DEF Events, TickEvents

LEMMA SampleEvent == SampleEvents \subseteq Events
  BY DEF Events

(* Every step of the superloop keeps the controller's invariant: those of  *)
(* the controller, the beep and the clock by the lemmas about them, the    *)
(* others because they leave all of it alone.                              *)
LEMMA ANextInv == SafeInv /\ [ANext]_appVars => SafeInv'
  <1> SUFFICES ASSUME SafeInv, [ANext]_appVars PROVE SafeInv'
    OBVIOUS
  <1> USE DEF SafeInv
  <1>1. CASE SensorPoll
    <2>1. Inv' /\ PendingType'
      BY <1>1, AsideInv DEF SensorPoll, uartVars, PendingType
    <2>2. CASE UNCHANGED queue
      BY <2>1, <2>2
    <2>3. CASE \E e \in SampleEvents : queue' = Enqueue(queue, <<e>>)
      BY <2>1, <2>3, SampleEvent, OneEvent, EnqueueType
    <2> QED
      BY <1>1, <2>2, <2>3 DEF SensorPoll
  <1>2. CASE ButtonsPoll
    <2>1. Inv' /\ PendingType'
      BY <1>2, AsideInv DEF ButtonsPoll, uartVars, PendingType
    <2>2. PICK values \in Manager!Choices, c \in Manager!Combinations :
             queue' = Enqueue(queue, Manager!PollEvents(values, c))
      BY <1>2 DEF ButtonsPoll
    <2> QED
      BY <2>1, <2>2, PollPushes, EnqueueType
  <1>3. CASE CtrlStep
    <2>1. CtrlPoll /\ UNCHANGED <<beepVars, timeVars, queue, uartVars>>
      BY <1>3 DEF CtrlStep
    <2>2. SoundHasEnd' /\ BeepType' /\ TicksType'
      BY <2>1 DEF Inv, SoundHasEnd, Silent, TypeOK, BeepType, TicksType, beepVars, timeVars
    <2>3. TypeOK'
      BY <2>1, <2>2, CtrlPollInv DEF Inv, TypeOK
    <2> QED
      BY <2>1, <2>2, <2>3, CtrlPollInv DEF Inv, uartVars, PendingType
  <1>4. CASE BeepStep
    <2>1. BeepPoll /\ UNCHANGED <<ctrlVars, timeVars, queue, uartVars>>
      BY <1>4 DEF BeepStep
    <2>2. SoundHasEnd' /\ BeepType'
      BY <2>1, BeepPollInv
    <2>3. UNCHANGED <<setpoint, current, state, held, heaterPower, lastPid, pid,
                      heater, showing, deadline, display, now, iwdg>>
      BY <2>1 DEF ctrlVars, pidVars, displayVars, timeVars
    <2>4. Inv'
      BY <2>2, <2>3 DEF Inv, TypeOK, TicksType, NoHeatWhenOverheated, Overheated,
           Silent, OutputFollowsPower, RegulatorIsCurrent, PidError, StateAgrees,
           DisplayAgrees
    <2> QED
      BY <2>1, <2>4 DEF uartVars, PendingType
  <1>5. CASE UartRelease
    <2>1. Inv'
      BY <1>5, AsideInv DEF UartRelease
    <2>2. CASE ReleaseDue /\ queue' = Enqueue(queue, <<pending>>) /\ pending' = NoEvent
      <3>1. pending \in Events
        BY <2>2, PendingEvent DEF ReleaseDue
      <3> QED
        BY <2>1, <2>2, <3>1, OneEvent, EnqueueType DEF PendingType
    <2>3. CASE UNCHANGED <<queue, pending>>
      BY <2>1, <2>3 DEF PendingType
    <2> QED
      BY <1>5, <2>2, <2>3 DEF UartRelease
  <1>6. CASE UartByte
    <2>1. Inv'
      BY <1>6, AsideInv DEF UartByte
    <2>2. CASE Head(rx) \in Keys
      <3>1. Press(Head(rx)) \in Events
        BY <2>2, TypedEvents
      <3>2. /\ queue' = Enqueue(queue, <<Press(Head(rx))>>)
            /\ pending' = Release(Head(rx))
        BY <1>6, <2>2 DEF UartByte
      <3>3. queue' \in Seq(Events)
        BY <3>1, <3>2, OneEvent, EnqueueType
      <3> QED
        BY <2>1, <2>2, <3>2, <3>3 DEF PendingType
    <2>3. CASE Head(rx) \notin Keys
      BY <1>6, <2>1, <2>3 DEF UartByte, PendingType
    <2> QED
      BY <2>2, <2>3
  <1>7. CASE UartDone \/ TimerTest \/ TimerLoad \/ PopNothing
    BY <1>7, AsideInv DEF UartDone, TimerTest, TimerLoad, PopNothing, uartVars, PendingType
  <1>8. CASE TimerStore
    <2>1. Inv' /\ PendingType'
      BY <1>8, AsideInv DEF TimerStore, uartVars, PendingType
    <2>2. \/ queue' = queue
          \/ queue' = Enqueue(queue, <<[type |-> "Tick100ms", value |-> 0]>>)
      BY <1>8 DEF TimerStore
    <2> QED
      BY <2>1, <2>2, TickEvent, OneEvent, EnqueueType
  <1>9. CASE PopEvent
    <2>1. Head(queue) \in Events /\ Tail(queue) \in Seq(Events)
      BY <1>9, HeadTailProperties DEF PopEvent
    <2>2. Inv'
      BY <1>9, <2>1, DispatchInv DEF PopEvent
    <2> QED
      BY <1>9, <2>1, <2>2 DEF PopEvent, uartVars, PendingType
  <1>10. CASE Watchdog
    <2>1. TicksType'
      BY <1>10, TickAssumption DEF Watchdog, IwdgReload, Inv, TypeOK, TicksType
    <2> QED
      BY <1>10, <2>1, IdleInv DEF Watchdog, uartVars, PendingType
  <1>11. CASE SysTickIrq
    <2>1. Inv'
      BY <1>11, TickInv DEF SysTickIrq, Tick
    <2> QED
      BY <1>11, <2>1 DEF SysTickIrq, uartVars, PendingType
  <1>12. CASE Tim17Irq \/ Usart1Irq
    BY <1>12, AsideInv DEF Tim17Irq, Usart1Irq, uartVars, PendingType
  <1>13. CASE UNCHANGED appVars
    BY <1>13, AsideInv DEF appVars, uartVars, PendingType
  <1> QED
    BY <1>1, <1>2, <1>3, <1>4, <1>5, <1>6, <1>7, <1>8, <1>9, <1>10, <1>11, <1>12,
       <1>13 DEF ANext, Main

THEOREM SuperloopInvariance == ASpec => []SafeInv
  <1> QED
    BY AInitInv, ANextInv, PTL DEF ASpec

(* No heating above the limit in the whole firmware: whatever order and    *)
(* number of samples, keys, typed keys and ticks the queue takes or drops, *)
(* and wherever the interrupts come between the statements of a pass.      *)
THEOREM SuperloopHeaterSafe == ASpec => []NoHeatWhenOverheated
  <1>1. SafeInv => NoHeatWhenOverheated
    BY DEF SafeInv, Inv
  <1> QED
    BY <1>1, SuperloopInvariance, PTL

(* A step of the superloop that is not one of the controller or the clock  *)
(* is a stutter for the thermostat, the others are steps of it.            *)
LEMMA ANextRefines ==
    ASSUME SafeInv, SafeInv', [ANext]_appVars
    PROVE  [Abstract!TNext]_(Abstract!tvars)
  <1> USE DEF SafeInv
  <1>1. CASE CtrlStep
    BY <1>1, CtrlPollRefines, HeatStutters DEF CtrlStep
  <1>2. CASE PopEvent
    <2>1. Head(queue) \in Events /\ Dispatch(Head(queue))
      BY <1>2, HeadTailProperties DEF PopEvent
    <2> QED
      BY <2>1, DispatchRefines, HeatStutters
  <1>3. CASE UNCHANGED ctrlVars
    BY <1>3, HeatStutters DEF ctrlVars, pidVars, HeatStutter
  <1>4. CtrlStep \/ PopEvent \/ UNCHANGED ctrlVars
    BY DEF ANext, Main, SensorPoll, ButtonsPoll, BeepStep, UartRelease, UartByte,
           UartDone, TimerTest, TimerLoad, TimerStore, PopNothing, Watchdog,
           SysTickIrq, Tim17Irq, Usart1Irq, appVars
  <1> QED
    BY <1>1, <1>2, <1>3, <1>4

(* The firmware's superloop implements the abstract thermostat: no dropped *)
(* or late event, no interrupt and no time-out drives the heater; only a   *)
(* sample does that the controller takes from the queue.                   *)
THEOREM SuperloopImplementation == ASpec => ImplementsThermostat
  <1>1. AInit => Abstract!TInit
    BY InitRefines DEF AInit
  <1>2. SafeInv /\ SafeInv' /\ [ANext]_appVars => [Abstract!TNext]_(Abstract!tvars)
    BY ANextRefines
  <1> QED
    BY <1>1, <1>2, SuperloopInvariance, PTL
       DEF ASpec, ImplementsThermostat, Abstract!TSpec

-----------------------------------------------------------------------------
(* The count of TIM17's update events.  Between the load and the store of  *)
(* the decrement it is the register that holds what is owed; the test      *)
(* before the load makes sure that it is not 0.                            *)
CountInv ==
    /\ irqCount \in 0..(IrqMod - 1) /\ loaded \in 0..(IrqMod - 1)
    /\ owed \in Nat
    /\ at = "load" => irqCount > 0
    /\ at = "store" => loaded = owed /\ loaded > 0
    /\ at # "store" => irqCount = owed

(* The count never wraps: the backlog is bounded below the modulus.        *)
LEMMA IrqCounts ==
    ASSUME irqCount \in 0..(IrqMod - 1), Tim17Irq
    PROVE  irqCount' = irqCount + 1 /\ irqCount' \in 0..(IrqMod - 1)
  <1>1. irqCount' = (irqCount + 1) % IrqMod /\ irqCount < MaxBacklog
    BY DEF Tim17Irq, TimIrq
  <1>2. irqCount + 1 \in 0..(IrqMod - 1)
    BY <1>1, AppLoopAssumption, TimAssumption
  <1>3. (irqCount + 1) % IrqMod = irqCount + 1
    BY <1>2, TimAssumption
  <1> QED
    BY <1>1, <1>2, <1>3

LEMMA CountInit == MCInit => CountInv
  BY TimAssumption DEF MCInit, AInit, TimInit, CountInv

LEMMA CountNext == CountInv /\ [MCNext]_allVars => CountInv'
  <1> SUFFICES ASSUME CountInv, [MCNext]_allVars PROVE CountInv'
    OBVIOUS
  <1>1. CASE TimerTest /\ Counts
    BY <1>1, TimAssumption DEF TimerTest, GoTo, TimPending, Counts, CountInv, timVars
  <1>2. CASE TimerLoad /\ Counts
    BY <1>2 DEF TimerLoad, GoTo, DecLoad, Counts, CountInv
  <1>3. CASE TimerStore /\ Counts
    <2>1. at = "store" /\ at' = "pop" /\ DecStore
      BY <1>3 DEF TimerStore, GoTo
    <2>2. loaded \in 0..(IrqMod - 1) /\ loaded > 0 /\ loaded = owed /\ IrqMod \in Nat
      BY <2>1, TimAssumption DEF CountInv
    <2>3. irqCount' = loaded - 1 /\ owed' = owed - 1 /\ loaded' = 0
      BY <1>3, <2>1, <2>2 DEF DecStore, Counts
    <2>4. irqCount' \in 0..(IrqMod - 1) /\ loaded' \in 0..(IrqMod - 1) /\ owed' \in Nat
      BY <2>2, <2>3
    <2>5. irqCount' = owed'
      BY <2>2, <2>3
    <2> QED
      BY <2>1, <2>4, <2>5 DEF CountInv
  <1>4. CASE Tim17Irq /\ Owes
    <2>1. irqCount' = irqCount + 1 /\ irqCount' \in 0..(IrqMod - 1)
      BY <1>4, IrqCounts DEF CountInv
    <2>2. at' = at /\ loaded' = loaded
      BY <1>4 DEF Tim17Irq, TimIrq
    <2> QED
      BY <1>4, <2>1, <2>2, TimAssumption DEF Owes, CountInv
  <1>5. ASSUME UNCHANGED timVars, Counts,
               (at # "store" /\ at' \notin {"load", "store"}) \/ at' = at
        PROVE  CountInv'
    BY <1>5 DEF timVars, Counts, CountInv
  <1>6. CASE Main /\ Counts
    <2>1. \/ TimerTest \/ TimerLoad \/ TimerStore
          \/ /\ UNCHANGED timVars
             /\ (at # "store" /\ at' \notin {"load", "store"}) \/ at' = at
      BY <1>6 DEF Main, SensorPoll, ButtonsPoll, CtrlStep, BeepStep, UartRelease,
           UartByte, UartDone, PopEvent, PopNothing, Watchdog, GoTo
    <2> QED
      BY <1>1, <1>2, <1>3, <1>5, <1>6, <2>1
  <1>7. CASE (SysTickIrq \/ Usart1Irq) /\ Counts
    BY <1>5, <1>7 DEF SysTickIrq, Usart1Irq
  <1>8. CASE UNCHANGED allVars
    BY <1>8 DEF allVars, appVars, timVars, CountInv
  <1> QED
    BY <1>4, <1>6, <1>7, <1>8 DEF MCNext, MCMain

(* An update event is lost only inside the decrement of the superloop, for *)
(* every length of the backlog short of a wrap and every interleaving.     *)
THEOREM LossOnlyThere == MCSpec => []LossOnlyInDecrement
  <1>1. CountInv => LossOnlyInDecrement
    BY DEF CountInv, LossOnlyInDecrement
  <1> QED
    BY <1>1, CountInit, CountNext, PTL DEF MCSpec

-----------------------------------------------------------------------------
(* The types of the superloop's own state.                                 *)
BuffersType ==
    /\ Len(queue) <= QueueMax
    /\ rx \in Seq(Bytes) /\ Len(rx) <= RxMax
    /\ pendingAt \in Instants
    /\ down \subseteq Phys

LEMMA LoopTypeInit == AInit => TimType /\ BuffersType
  <1> SUFFICES ASSUME AInit PROVE TimType /\ BuffersType
    OBVIOUS
  <1>1. TimType
    BY TimAssumption DEF AInit, TimInit, TimType
  <1>2. 0 \in Instants /\ 0 <= QueueMax /\ 0 <= RxMax
    BY TickAssumption, AppLoopAssumption DEF Instants
  <1> QED
    BY <1>1, <1>2 DEF AInit, BuffersType

(* The counters of the timer block.                                        *)
LEMMA TimTypeNext ==
    ASSUME TimType, [ANext]_appVars
    PROVE  TimType'
  <1>1. CASE TimerLoad
    BY <1>1 DEF TimerLoad, DecLoad, TimType
  <1>2. CASE TimerStore
    <2>1. DecStore
      BY <1>2 DEF TimerStore
    <2>2. irqCount' \in 0..(IrqMod - 1) /\ loaded' \in 0..(IrqMod - 1)
      BY <2>1, TimAssumption DEF DecStore, TimType
    <2>3. tick100' \in 0..(TicksPer100 - 1)
      BY <2>1, TimAssumption DEF DecStore, TimType
    <2> QED
      BY <2>2, <2>3 DEF TimType
  <1>3. CASE Tim17Irq
    BY <1>3, IrqCounts DEF Tim17Irq, TimIrq, TimType
  <1>4. CASE UNCHANGED timVars
    BY <1>4 DEF timVars, TimType
  <1>5. TimerLoad \/ TimerStore \/ Tim17Irq \/ UNCHANGED timVars
    BY DEF ANext, Main, SensorPoll, ButtonsPoll, CtrlStep, BeepStep, UartRelease,
           UartByte, UartDone, TimerTest, PopEvent, PopNothing, Watchdog,
           SysTickIrq, Usart1Irq, appVars
  <1> QED
    BY <1>1, <1>2, <1>3, <1>4, <1>5

(* The queue within its bound: every push goes through Enqueue.            *)
LEMMA QueueBound ==
    ASSUME SafeInv, Len(queue) <= QueueMax, [ANext]_appVars
    PROVE  Len(queue') <= QueueMax
  <1> USE DEF SafeInv
  <1>1. CASE \E es \in Seq(Events) : queue' = Enqueue(queue, es)
    BY <1>1, EnqueueType
  <1>2. CASE PopEvent
    <2>1. Len(Tail(queue)) = Len(queue) - 1 /\ Len(queue) \in Nat
      BY <1>2, HeadTailProperties, LenProperties DEF PopEvent
    <2> QED
      BY <1>2, <2>1, AppLoopAssumption DEF PopEvent
  <1>3. CASE UNCHANGED queue
    BY <1>3
  <1>4. CASE SensorPoll
    BY <1>1, <1>3, <1>4, SampleEvent, OneEvent DEF SensorPoll
  <1>5. CASE ButtonsPoll
    BY <1>1, <1>5, PollPushes DEF ButtonsPoll
  <1>6. CASE UartRelease
    BY <1>1, <1>3, <1>6, PendingEvent, OneEvent DEF UartRelease, ReleaseDue
  <1>7. CASE UartByte
    BY <1>1, <1>3, <1>7, TypedEvents, OneEvent DEF UartByte
  <1>8. CASE TimerStore
    BY <1>1, <1>3, <1>8, TickEvent, OneEvent DEF TimerStore
  <1>9. \/ PopEvent \/ SensorPoll \/ ButtonsPoll \/ UartRelease \/ UartByte
        \/ TimerStore \/ UNCHANGED queue
    BY DEF ANext, Main, CtrlStep, BeepStep, UartDone, TimerTest, TimerLoad,
           PopNothing, Watchdog, SysTickIrq, Tim17Irq, Usart1Irq, appVars
  <1> QED
    BY <1>2, <1>3, <1>4, <1>5, <1>6, <1>7, <1>8, <1>9

(* The receive buffer: filled by the interrupt only while there is room.   *)
LEMMA ReceivedType ==
    ASSUME rx \in Seq(Bytes), Len(rx) <= RxMax, [ANext]_appVars
    PROVE  rx' \in Seq(Bytes) /\ Len(rx') <= RxMax
  <1>1. Len(rx) \in Nat /\ RxMax \in Nat
    BY AppLoopAssumption, LenProperties
  <1>2. CASE UartByte
    <2>1. rx # <<>> /\ rx' = Tail(rx)
      BY <1>2 DEF UartByte
    <2>2. Tail(rx) \in Seq(Bytes) /\ Len(Tail(rx)) = Len(rx) - 1
      BY <2>1, HeadTailProperties
    <2> QED
      BY <1>1, <2>1, <2>2
  <1>3. CASE Usart1Irq
    <2>1. PICK b \in Bytes : rx' = IF Len(rx) < RxMax THEN Append(rx, b) ELSE rx
      BY <1>3 DEF Usart1Irq
    <2>2. Append(rx, b) \in Seq(Bytes) /\ Len(Append(rx, b)) = Len(rx) + 1
      BY AppendProperties
    <2> QED
      BY <1>1, <2>1, <2>2
  <1>4. CASE UNCHANGED rx
    BY <1>4
  <1>5. UartByte \/ Usart1Irq \/ UNCHANGED rx
    BY DEF ANext, Main, SensorPoll, ButtonsPoll, CtrlStep, BeepStep, UartRelease,
           UartDone, TimerTest, TimerLoad, TimerStore, PopEvent, PopNothing,
           Watchdog, SysTickIrq, Tim17Irq, appVars, uartVars
  <1> QED
    BY <1>2, <1>3, <1>4, <1>5

(* The instant of the pending release and the keys that are down.          *)
LEMMA PendingAtType ==
    ASSUME SafeInv, pendingAt \in Instants, [ANext]_appVars
    PROVE  pendingAt' \in Instants
  <1>1. CASE UartByte
    <2>1. After(now, UartPressDuration) \in Instants
      BY Types, AfterType, AppLoopAssumption DEF SafeInv
    <2> QED
      BY <1>1, <2>1 DEF UartByte
  <1>2. UartByte \/ UNCHANGED pendingAt
    BY DEF ANext, Main, SensorPoll, ButtonsPoll, CtrlStep, BeepStep, UartRelease,
           UartDone, TimerTest, TimerLoad, TimerStore, PopEvent, PopNothing,
           Watchdog, SysTickIrq, Tim17Irq, Usart1Irq, appVars, uartVars
  <1> QED
    BY <1>1, <1>2

LEMMA DownType ==
    ASSUME down \subseteq Phys, [ANext]_appVars
    PROVE  down' \subseteq Phys
  <1>1. CASE ButtonsPoll
    BY <1>1 DEF ButtonsPoll, Manager!DownAfter
  <1>2. ButtonsPoll \/ UNCHANGED down
    BY DEF ANext, Main, SensorPoll, CtrlStep, BeepStep, UartRelease, UartByte,
           UartDone, TimerTest, TimerLoad, TimerStore, PopEvent, PopNothing,
           Watchdog, SysTickIrq, Tim17Irq, Usart1Irq, appVars
  <1> QED
    BY <1>1, <1>2

LoopInv == SafeInv /\ TimType /\ BuffersType

LEMMA LoopNext == LoopInv /\ [ANext]_appVars => LoopInv'
  BY ANextInv, TimTypeNext, QueueBound, ReceivedType, PendingAtType, DownType
     DEF LoopInv, BuffersType, SafeInv

(* The queue, the receive buffer and the counters keep their bounds, and   *)
(* what waits in the queue are events the controller has rows for.         *)
THEOREM LoopTypeCorrect == ASpec => []LoopType
  <1>1. AInit => LoopInv
    BY AInitInv, LoopTypeInit DEF LoopInv
  <1>2. LoopInv => LoopType
    <2> SUFFICES ASSUME LoopInv PROVE LoopType
      OBVIOUS
    <2>1. \A i \in DOMAIN queue : queue[i] \in Events
      BY ElementOfSeq, LenProperties DEF LoopInv, SafeInv
    <2> QED
      BY <2>1 DEF LoopInv, LoopType, BuffersType, SafeInv, PendingType
  <1> QED
    BY <1>1, <1>2, LoopNext, PTL DEF ASpec

-----------------------------------------------------------------------------
(* Samples in the order the queue accepted them.                           *)

(* A push leaves what is in the queue where it is, and adds of the new     *)
(* events those that fit, in their order.                                  *)
LEMMA EnqueueOrder ==
    ASSUME NEW q \in Seq(Events), NEW es \in Seq(Events), Len(q) <= QueueMax
    PROVE  /\ Len(q) <= Len(Enqueue(q, es))
           /\ \A i \in 1..Len(Enqueue(q, es)) :
                Enqueue(q, es)[i] = IF i <= Len(q) THEN q[i] ELSE es[i - Len(q)]
           /\ Len(Enqueue(q, es)) <= Len(q) + Len(es)
  <1> DEFINE all  == q \o es
             last == IF Len(all) < QueueMax THEN Len(all) ELSE QueueMax
  <1>1. /\ all \in Seq(Events) /\ Len(all) = Len(q) + Len(es)
        /\ \A i \in 1..(Len(q) + Len(es)) :
             all[i] = IF i <= Len(q) THEN q[i] ELSE es[i - Len(q)]
    BY ConcatProperties
  <1>2. QueueMax \in Nat \ {0} /\ Len(q) \in Nat /\ Len(es) \in Nat
    BY AppLoopAssumption, LenProperties
  <1>3. last \in Nat /\ Len(q) <= last /\ last <= Len(q) + Len(es) /\ last <= Len(all)
    <2> HIDE DEF all
    <2> QED
      BY <1>1, <1>2
  <1>4. \A i \in 1..last : all[i] \in Events
    <2> HIDE DEF all, last
    <2> QED
      BY <1>1, <1>2, <1>3, ElementOfSeq
  <1>5. /\ Len(SubSeq(all, 1, last)) = IF 1 <= last THEN last - 1 + 1 ELSE 0
        /\ \A i \in 1..(last - 1 + 1) : SubSeq(all, 1, last)[i] = all[1 + i - 1]
    <2> HIDE DEF all, last
    <2> QED
      BY <1>3, <1>4, SubSeqProperties
  <1>6. Enqueue(q, es) = SubSeq(all, 1, last)
    BY DEF Enqueue
  <1> HIDE DEF all, last
  <1>7. Len(Enqueue(q, es)) = last
    BY <1>3, <1>5, <1>6
  <1>8. ASSUME NEW i \in 1..last PROVE Enqueue(q, es)[i] = all[i]
    BY <1>3, <1>5, <1>6
  <1> QED
    BY <1>1, <1>2, <1>3, <1>7, <1>8

(* Keys and ticks that are queued change nothing about the samples.        *)
LEMMA OthersQueued ==
    ASSUME LoopInv, LastSampleWins, NEW es \in Seq(ButtonEvents \cup TickEvents),
           queue' = Enqueue(queue, es), current' = current, accepted' = accepted
    PROVE  LastSampleWins'
  <1>1. es \in Seq(Events) /\ queue \in Seq(Events)
    <2>1. (ButtonEvents \cup TickEvents) \subseteq Events
      BY DEF Events
    <2> QED
      BY <2>1, SeqMonotonic DEF LoopInv, SafeInv
  <1>2. /\ queue' \in Seq(Events) /\ Len(queue) <= Len(queue')
        /\ Len(queue') <= Len(queue) + Len(es)
        /\ \A i \in 1..Len(queue') :
             queue'[i] = IF i <= Len(queue) THEN queue[i] ELSE es[i - Len(queue)]
    <2> DEFINE longer == Enqueue(queue, es)
    <2>1. Len(queue) <= QueueMax
      BY DEF LoopInv, BuffersType
    <2>2. longer \in Seq(Events)
      BY <1>1, EnqueueType
    <2>3. /\ Len(queue) <= Len(longer)
          /\ \A i \in 1..Len(longer) :
               longer[i] = IF i <= Len(queue) THEN queue[i] ELSE es[i - Len(queue)]
          /\ Len(longer) <= Len(queue) + Len(es)
      BY <1>1, <2>1, EnqueueOrder
    <2>4. queue' = longer
      OBVIOUS
    <2> HIDE DEF longer
    <2> QED
      BY <1>1, <2>2, <2>3, <2>4
  <1>3. /\ Len(queue) \in Nat /\ Len(queue') \in Nat /\ Len(es) \in Nat
        /\ DOMAIN queue = 1..Len(queue) /\ DOMAIN queue' = 1..Len(queue')
    BY <1>1, <1>2, LenProperties
  <1>4. ASSUME NEW i \in 1..Len(queue'), i > Len(queue)
        PROVE  queue'[i].type # "TemperatureReady"
    <2>1. i - Len(queue) \in 1..Len(es)
      BY <1>2, <1>3, <1>4
    <2>2. es[i - Len(queue)] \in ButtonEvents \cup TickEvents
      BY <2>1, ElementOfSeq
    <2>3. queue'[i] \in ButtonEvents \cup TickEvents
      BY <1>2, <1>3, <1>4, <2>2
    <2> QED
      BY <2>3, ControllerAssumption DEF ButtonEvents, TickEvents
  <1>5. Waiting' = Waiting /\ \A i \in Waiting : queue'[i] = queue[i]
    BY <1>2, <1>3, <1>4 DEF Waiting
  <1> QED
    BY <1>5 DEF LastSampleWins

(* A sample that the queue takes is the last one in it.                    *)
LEMMA SampleQueued ==
    ASSUME LoopInv, LastSampleWins, NEW e \in SampleEvents,
           queue' = Enqueue(queue, <<e>>), current' = current,
           accepted' = IF queue' # queue THEN queue'[Len(queue')].value ELSE accepted
    PROVE  LastSampleWins'
  <1>1. <<e>> \in Seq(Events) /\ Len(<<e>>) = 1 /\ <<e>>[1] = e /\ queue \in Seq(Events)
    BY SampleEvent, OneEvent DEF LoopInv, SafeInv
  <1>2. /\ queue' \in Seq(Events) /\ Len(queue) <= Len(queue')
        /\ Len(queue') <= Len(queue) + 1
        /\ \A i \in 1..Len(queue') :
             queue'[i] = IF i <= Len(queue) THEN queue[i] ELSE <<e>>[i - Len(queue)]
    <2> DEFINE longer == Enqueue(queue, <<e>>)
    <2>1. Len(queue) <= QueueMax
      BY DEF LoopInv, BuffersType
    <2>2. longer \in Seq(Events)
      BY <1>1, EnqueueType
    <2>3. /\ Len(queue) <= Len(longer)
          /\ \A i \in 1..Len(longer) :
               longer[i] = IF i <= Len(queue) THEN queue[i] ELSE <<e>>[i - Len(queue)]
          /\ Len(longer) <= Len(queue) + Len(<<e>>)
      BY <1>1, <2>1, EnqueueOrder
    <2>4. queue' = longer
      OBVIOUS
    <2> HIDE DEF longer
    <2> QED
      BY <1>1, <2>2, <2>3, <2>4
  <1>3. /\ Len(queue) \in Nat /\ Len(queue') \in Nat
        /\ DOMAIN queue = 1..Len(queue) /\ DOMAIN queue' = 1..Len(queue')
    BY <1>1, <1>2, LenProperties
  <1>4. CASE Len(queue') = Len(queue)
    <2>1. \A i \in 1..Len(queue) : queue'[i] = queue[i]
      BY <1>2, <1>3, <1>4
    <2>2. queue' = queue
      BY <1>1, <1>2, <1>4, <2>1, SeqEqual
    <2> QED
      BY <2>2 DEF LastSampleWins, Waiting
  <1>5. CASE Len(queue') = Len(queue) + 1
    <2>1. queue'[Len(queue')] = e
      BY <1>1, <1>2, <1>3, <1>5
    <2>2. Len(queue') \in Waiting'
      BY <1>3, <1>5, <2>1 DEF Waiting, SampleEvents
    <2>3. accepted' = e.value
      BY <1>5, <1>3, <2>1
    <2>4. ASSUME NEW i \in Waiting', \A j \in Waiting' : j <= i
          PROVE  i = Len(queue')
      BY <1>3, <2>2, <2>4 DEF Waiting
    <2> QED
      BY <2>1, <2>2, <2>3, <2>4 DEF LastSampleWins
  <1>6. Len(queue') = Len(queue) \/ Len(queue') = Len(queue) + 1
    <2>1. \A m, n \in Nat : m <= n /\ n <= m + 1 => n = m \/ n = m + 1
      OBVIOUS
    <2>2. Len(queue) <= Len(queue') /\ Len(queue') <= Len(queue) + 1
      BY <1>2
    <2>3. Len(queue) \in Nat /\ Len(queue') \in Nat
      BY <1>3
    <2> QED
      BY <2>1, <2>2, <2>3
  <1> QED
    BY <1>4, <1>5, <1>6

(* Taking the head of the queue: a sample becomes the controller's         *)
(* temperature, any other event leaves that alone.                         *)
LEMMA EventTaken ==
    ASSUME LoopInv, LastSampleWins, queue # <<>>, queue' = Tail(queue),
           Dispatch(Head(queue)), accepted' = accepted
    PROVE  LastSampleWins'
  <1>1. /\ queue \in Seq(Events) /\ Len(queue) \in Nat /\ DOMAIN queue = 1..Len(queue)
    BY LenProperties DEF LoopInv, SafeInv
  <1>2. /\ Head(queue) \in Events /\ queue' \in Seq(Events)
        /\ Len(queue') = Len(queue) - 1
        /\ \A i \in 1..Len(queue') : queue'[i] = queue[i + 1]
    BY <1>1, HeadTailProperties
  <1>3. DOMAIN queue' = 1..Len(queue') /\ Head(queue) = queue[1] /\ Len(queue) > 0
    BY <1>1, <1>2, LenProperties, EmptySeq
  <1>4. \A i \in Int : i \in Waiting' <=> i + 1 \in Waiting /\ i >= 1
    BY <1>1, <1>2, <1>3 DEF Waiting
  <1>5. \A i \in Waiting : i \in Int /\ i >= 1
    BY <1>1 DEF Waiting
  <1>6. \A i \in Waiting' : i \in Int /\ i >= 1
    BY <1>1, <1>2, <1>3 DEF Waiting
  <1>7. ASSUME NEW i \in Waiting', \A j \in Waiting' : j <= i
        PROVE  queue'[i].value = accepted'
    <2>1. i + 1 \in Waiting /\ queue'[i] = queue[i + 1]
      BY <1>2, <1>3, <1>4, <1>6 DEF Waiting
    <2>2. ASSUME NEW j \in Waiting PROVE j <= i + 1
      <3>1. CASE j = 1
        BY <1>6, <3>1
      <3>2. CASE j # 1
        <4>1. j - 1 \in Int /\ (j - 1) + 1 = j /\ j - 1 >= 1
          BY <1>5, <3>2
        <4>2. j - 1 \in Waiting'
          BY <1>4, <4>1
        <4> QED
          BY <1>5, <1>6, <1>7, <4>2
      <3> QED
        BY <3>1, <3>2
    <2> QED
      BY <2>1, <2>2 DEF LastSampleWins
  <1>8. ASSUME Waiting' = {} PROVE current' = accepted'
    <2>1. Waiting \subseteq {1}
      <3>1. ASSUME NEW j \in Waiting, j # 1 PROVE FALSE
        <4>1. j - 1 \in Int /\ (j - 1) + 1 = j /\ j - 1 >= 1
          BY <1>5, <3>1
        <4> QED
          BY <1>4, <1>8, <4>1
      <3> QED
        BY <3>1
    <2>2. CASE Head(queue).type = "TemperatureReady"
      <3>1. 1 \in Waiting
        BY <1>1, <1>3, <2>2 DEF Waiting
      <3>2. queue[1].value = accepted
        BY <2>1, <3>1 DEF LastSampleWins
      <3>3. Head(queue) \in SampleEvents
        BY <1>2, <2>2, ControllerAssumption DEF Events, ButtonEvents, TickEvents
      <3>4. current' = Head(queue).value
        BY <3>3, <2>2, ControllerAssumption DEF Dispatch, Sample, TemperatureSample,
             Adjust, Key, PIDTick, ButtonEvents, TickEvents
      <3> QED
        BY <1>3, <3>2, <3>4
    <2>3. CASE Head(queue).type # "TemperatureReady"
      <3>1. Waiting = {}
        BY <1>3, <2>1, <2>3 DEF Waiting
      <3>2. ~Sample(Head(queue))
        BY <2>3 DEF Sample, SampleEvents
      <3>3. current' = current
        BY <3>2 DEF Dispatch, Adjust, AdjustSetpoint, Key, BeepRow, PIDTick
      <3> QED
        BY <3>1, <3>3 DEF LastSampleWins
    <2> QED
      BY <2>2, <2>3
  <1> QED
    BY <1>7, <1>8 DEF LastSampleWins

LEMMA SampleOrderNext == LoopInv /\ LastSampleWins /\ [MCNext]_allVars => LastSampleWins'
  <1> SUFFICES ASSUME LoopInv, LastSampleWins, [MCNext]_allVars
               PROVE  LastSampleWins'
    OBVIOUS
  <1>1. CASE SensorPoll /\ History
    <2>1. /\ current' = current
          /\ accepted' = IF queue' # queue THEN queue'[Len(queue')].value ELSE accepted
      BY <1>1 DEF SensorPoll, GoTo, History, ctrlVars
    <2>2. CASE UNCHANGED queue
      BY <2>1, <2>2 DEF LastSampleWins, Waiting
    <2>3. CASE \E e \in SampleEvents : queue' = Enqueue(queue, <<e>>)
      BY <2>1, <2>3, SampleQueued
    <2> QED
      BY <1>1, <2>2, <2>3 DEF SensorPoll
  <1>2. ASSUME current' = current, accepted' = accepted,
               \E es \in Seq(ButtonEvents \cup TickEvents) : queue' = Enqueue(queue, es)
        PROVE  LastSampleWins'
    BY <1>2, OthersQueued
  <1>3. ASSUME UNCHANGED <<current, accepted, queue>>
        PROVE  LastSampleWins'
    BY <1>3 DEF LastSampleWins, Waiting
  <1>4. CASE PopEvent /\ History
    <2>1. accepted' = accepted
      BY <1>4 DEF PopEvent, GoTo, History
    <2> QED
      BY <1>4, <2>1, EventTaken DEF PopEvent
  <1>5. CASE (ButtonsPoll \/ UartRelease \/ UartByte \/ TimerStore) /\ History
    <2>1. current' = current /\ accepted' = accepted
      BY <1>5 DEF ButtonsPoll, UartRelease, UartByte, TimerStore, GoTo, History, ctrlVars
    <2>2. \/ UNCHANGED queue
          \/ \E es \in Seq(ButtonEvents \cup TickEvents) : queue' = Enqueue(queue, es)
      <3>1. CASE ButtonsPoll
        <4>1. PICK values \in Manager!Choices, c \in Manager!Combinations :
                 queue' = Enqueue(queue, Manager!PollEvents(values, c))
          BY <3>1 DEF ButtonsPoll
        <4>2. Manager!PollEvents(values, c) \in Seq(ButtonEvents \cup TickEvents)
          BY PollPushesKeys, SeqMonotonic
        <4> QED
          BY <4>1, <4>2
      <3>2. CASE UartRelease
        <4>1. ReleaseDue => pending \in ButtonEvents \cup TickEvents
          BY TypedKeys DEF LoopInv, SafeInv, PendingType, ReleaseDue
        <4>2. ReleaseDue => <<pending>> \in Seq(ButtonEvents \cup TickEvents)
          BY <4>1, OneElement
        <4>3. (ReleaseDue /\ queue' = Enqueue(queue, <<pending>>)) \/ UNCHANGED queue
          BY <3>2 DEF UartRelease
        <4> QED
          BY <4>2, <4>3
      <3>3. CASE UartByte
        <4>1. Head(rx) \in Keys => Press(Head(rx)) \in ButtonEvents \cup TickEvents
          BY TypedKeys
        <4>2. Head(rx) \in Keys
                => <<Press(Head(rx))>> \in Seq(ButtonEvents \cup TickEvents)
          BY <4>1, OneElement
        <4>3. \/ Head(rx) \in Keys /\ queue' = Enqueue(queue, <<Press(Head(rx))>>)
              \/ UNCHANGED queue
          BY <3>3 DEF UartByte
        <4> QED
          BY <4>2, <4>3
      <3>4. CASE TimerStore
        <4>1. [type |-> "Tick100ms", value |-> 0] \in ButtonEvents \cup TickEvents
          BY DEF TickEvents
        <4>2. <<[type |-> "Tick100ms", value |-> 0]>> \in Seq(ButtonEvents \cup TickEvents)
          BY <4>1, OneElement
        <4>3. \/ queue' = Enqueue(queue, <<[type |-> "Tick100ms", value |-> 0]>>)
              \/ UNCHANGED queue
          BY <3>4 DEF TimerStore
        <4> QED
          BY <4>2, <4>3
      <3> QED
        BY <1>5, <3>1, <3>2, <3>3, <3>4
    <2> QED
      BY <1>2, <1>3, <2>1, <2>2
  <1>6. CASE /\ \/ CtrlStep \/ BeepStep \/ UartDone \/ TimerTest \/ TimerLoad
                \/ PopNothing \/ Watchdog \/ SysTickIrq \/ Tim17Irq \/ Usart1Irq
             /\ History
    <2>1. UNCHANGED queue
      BY <1>6 DEF CtrlStep, BeepStep, UartDone, TimerTest, TimerLoad, PopNothing,
           Watchdog, SysTickIrq, Tim17Irq, Usart1Irq
    <2>2. accepted' = accepted
      BY <1>6, <2>1 DEF History
    <2>3. current' = current
      <3>1. CASE CtrlStep
        BY <3>1, CtrlPollInv DEF CtrlStep, LoopInv, SafeInv
      <3>2. CASE ~CtrlStep
        BY <1>6, <3>2 DEF BeepStep, UartDone, TimerTest, TimerLoad, PopNothing,
             Watchdog, SysTickIrq, Tim17Irq, Usart1Irq, ctrlVars
      <3> QED
        BY <3>1, <3>2
    <2> QED
      BY <1>3, <2>1, <2>2, <2>3
  <1>7. CASE UNCHANGED allVars
    BY <1>3, <1>7 DEF allVars, appVars, ctrlVars
  <1> QED
    BY <1>1, <1>4, <1>5, <1>6, <1>7 DEF MCNext, MCMain, Main

(* However many keys, ticks and typed keys compete for the queue, and      *)
(* however often it is full: the controller's temperature is the last      *)
(* accepted sample, or that one is still the last sample in the queue.     *)
THEOREM SamplesInOrder == MCSpec => []LastSampleWins
  <1>1. MCInit => LoopInv /\ LastSampleWins
    <2> SUFFICES ASSUME MCInit PROVE LoopInv /\ LastSampleWins
      OBVIOUS
    <2>1. LoopInv
      BY AInitInv, LoopTypeInit DEF MCInit, LoopInv
    <2>2. queue = <<>> /\ current = accepted
      BY DEF MCInit, AInit, Init
    <2> QED
      BY <2>1, <2>2 DEF LastSampleWins, Waiting
  <1>2. LoopInv /\ [MCNext]_allVars => LoopInv'
    <2>1. [MCNext]_allVars => [ANext]_appVars
      BY DEF MCNext, MCMain, ANext, allVars
    <2> QED
      BY <2>1, LoopNext
  <1>3. LoopInv /\ LastSampleWins /\ [MCNext]_allVars => LoopInv' /\ LastSampleWins'
    BY <1>2, SampleOrderNext
  <1> QED
    BY <1>1, <1>3, PTL DEF MCSpec
-----------------------------------------------------------------------------
(* Deadlines that are compared as plain numbers: the pending release of a  *)
(* typed key, and the end of a beep.  Each is kept as an instant, a        *)
(* duration after its request; age is what an observer measures since the  *)
(* request.                                                                *)

(* The age is at least what the counter tells, wraps included.             *)
NotEarly(n, end, duration, age) ==
    \E t \in Instants :
        end = After(t, duration) /\ (Elapsed(n, t) <= age \/ age = AgeMax)

(* If the deadline did not wrap and no wrap is near, the counter has not   *)
(* wrapped since the request, and is past the deadline by late at most.    *)
NotLate(n, late, end, duration, age) ==
    end >= duration /\ end + 2 * IwdgTimeout < TickMod =>
        /\ end - duration <= n /\ n <= end + late
        /\ age <= n - (end - duration)

(* The statements of a pass before and at the one that compares, where a   *)
(* deadline may already be late by what was left of the last pass.         *)
BeforeBeep    == {"sensor", "buttons", "ctrl", "beep"}
BeforeRelease == BeforeBeep \cup {"release"}
Late(before)  == iwdg + (IF at \in before THEN IwdgTimeout ELSE 0)

ReleaseTimed == pending # NoEvent =>
    /\ NotEarly(now, pendingAt, UartPressDuration, keyAge)
    /\ NotLate(now, Late(BeforeRelease), pendingAt, UartPressDuration, keyAge)
BeepTimed == beepActive =>
    /\ NotEarly(now, beepEnd, BeepDuration, beepAge)
    /\ NotLate(now, Late(BeforeBeep), beepEnd, BeepDuration, beepAge)

AgesType == keyAge \in 0..AgeMax /\ beepAge \in 0..AgeMax
TimesInv == LoopInv /\ AgesType /\ ReleaseTimed /\ BeepTimed

LEMMA TimesConstants ==
    /\ TickMod \in Nat /\ TickMod > 1 /\ IwdgTimeout \in Nat /\ IwdgTimeout > 0
    /\ AgeMax \in Nat /\ UartPressDuration <= AgeMax /\ BeepDuration <= AgeMax
    /\ UartPressDuration \in Instants /\ BeepDuration \in Instants
  BY TickAssumption, AgeAssumption, AppLoopAssumption, BeepAssumption DEF Instants

(* A request sets the deadline and the age.                                *)
LEMMA Requested ==
    ASSUME NEW n \in Instants, NEW duration \in Instants, NEW late \in Nat
    PROVE  /\ NotEarly(n, After(n, duration), duration, 0)
           /\ NotLate(n, late, After(n, duration), duration, 0)
  <1>1. Elapsed(n, n) <= 0
    BY TimesConstants DEF Elapsed, Instants
  <1>2. NotLate(n, late, After(n, duration), duration, 0)
    BY TimesConstants DEF NotLate, After, Instants
  <1> QED
    BY <1>1, <1>2 DEF NotEarly

(* A tick.                                                                 *)
LEMMA RequestAges ==
    ASSUME NEW n \in Instants, NEW end \in Instants, NEW duration \in Instants,
           NEW age \in 0..AgeMax, NEW late \in Nat, late < 2 * IwdgTimeout,
           NotEarly(n, end, duration, age), NotLate(n, late, end, duration, age)
    PROVE  LET older == IF age < AgeMax THEN age + 1 ELSE age
           IN /\ NotEarly(After(n, 1), end, duration, older)
              /\ NotLate(After(n, 1), late + 1, end, duration, older)
  <1> DEFINE older == IF age < AgeMax THEN age + 1 ELSE age
  <1>1. NotEarly(After(n, 1), end, duration, older)
    <2> PICK t \in Instants : /\ end = After(t, duration)
                              /\ Elapsed(n, t) <= age \/ age = AgeMax
      BY DEF NotEarly
    <2>1. Elapsed(After(n, 1), t) <= Elapsed(n, t) + 1
      BY TimesConstants DEF Elapsed, After, Instants
    <2>2. Elapsed(n, t) \in Int /\ Elapsed(After(n, 1), t) \in Int
      BY TimesConstants DEF Elapsed, After, Instants
    <2>3. Elapsed(After(n, 1), t) <= older \/ older = AgeMax
      BY <2>1, <2>2, TimesConstants
    <2> QED
      BY <2>3 DEF NotEarly
  <1>2. NotLate(After(n, 1), late + 1, end, duration, older)
    <2> SUFFICES ASSUME end >= duration, end + 2 * IwdgTimeout < TickMod
                 PROVE  /\ end - duration <= After(n, 1) /\ After(n, 1) <= end + (late + 1)
                        /\ older <= After(n, 1) - (end - duration)
      BY DEF NotLate
    <2>1. end - duration <= n /\ n <= end + late /\ age <= n - (end - duration)
      BY DEF NotLate
    <2>2. After(n, 1) = n + 1
      BY <2>1, TimesConstants DEF After, Instants
    <2> QED
      BY <2>1, <2>2, TimesConstants DEF Instants
  <1> QED
    BY <1>1, <1>2

(* A comparison that finds the deadline still ahead, and the watchdog's    *)
(* reload, which starts the next pass.                                     *)
LEMMA StillAhead ==
    ASSUME NEW n \in Instants, NEW end \in Instants, NEW duration, NEW age,
           NEW late, NEW later \in Nat,
           NotLate(n, late, end, duration, age), n < end \/ (late \in Nat /\ late <= later)
    PROVE  NotLate(n, later, end, duration, age)
  BY TimesConstants DEF NotLate, Instants

(* What the deadlines' invariant has of the types.                         *)
LEMMA TimesTypes ==
    ASSUME TimesInv
    PROVE  /\ now \in Instants /\ iwdg \in 0..IwdgTimeout /\ iwdg \in Nat
           /\ pendingAt \in Instants /\ beepEnd \in Instants /\ beepActive \in BOOLEAN
           /\ keyAge \in 0..AgeMax /\ beepAge \in 0..AgeMax
           /\ rx \in Seq(Bytes)
  <1>1. now \in Instants /\ iwdg \in 0..IwdgTimeout /\ beepEnd \in Instants /\ beepActive \in BOOLEAN
    BY DEF TimesInv, LoopInv, SafeInv, Inv, TypeOK, TicksType, BeepType
  <1>2. iwdg \in Nat
    BY <1>1, TimesConstants
  <1> QED
    BY <1>1, <1>2 DEF TimesInv, AgesType, LoopInv, BuffersType

(* A typed key is read by its own statement and by no other step: the      *)
(* interrupt never shortens what was received.                             *)
LEMMA KeyReadHere ==
    ASSUME rx \in Seq(Bytes), ANext
    PROVE  KeyRead <=> UartByte /\ Head(rx) \in Keys
  <1>1. UartByte /\ Head(rx) \in Keys => KeyRead
    BY DEF UartByte, KeyRead
  <1>2. ASSUME KeyRead PROVE UartByte
    <2>1. rx # <<>> /\ rx' = Tail(rx) /\ at = "uart"
      BY <1>2 DEF KeyRead
    <2>2. Len(rx') = Len(rx) - 1 /\ Len(rx) \in Nat
      BY <2>1, HeadTailProperties, LenProperties
    <2>3. ~UNCHANGED rx
      BY <2>2
    <2>4. ~Usart1Irq
      <3>1. ASSUME Usart1Irq PROVE FALSE
        <4> PICK b \in Bytes : rx' = IF Len(rx) < RxMax THEN Append(rx, b) ELSE rx
          BY <3>1 DEF Usart1Irq
        <4>1. Len(Append(rx, b)) = Len(rx) + 1
          BY AppendProperties
        <4> QED
          BY <2>2, <4>1
      <3> QED
        BY <3>1
    <2>5. UartByte \/ Usart1Irq \/ UNCHANGED rx
      BY DEF ANext, Main, SensorPoll, ButtonsPoll, CtrlStep, BeepStep, UartRelease,
             UartDone, TimerTest, TimerLoad, TimerStore, PopEvent, PopNothing,
             Watchdog, SysTickIrq, Tim17Irq, appVars, uartVars
    <2> QED
      BY <2>3, <2>4, <2>5
  <1> QED
    BY <1>1, <1>2 DEF KeyRead

(* The clock moves in SysTick alone, the watchdog is reloaded at the end   *)
(* of the pass, and each deadline changes in the statements that set and   *)
(* compare it.                                                             *)
LEMMA ClockSteps ==
    ASSUME ANext
    PROVE  SysTickIrq \/ Watchdog \/ UNCHANGED <<now, iwdg>>
  BY DEF ANext, Main, SensorPoll, ButtonsPoll, CtrlStep, BeepStep, UartRelease,
         UartByte, UartDone, TimerTest, TimerLoad, TimerStore, PopEvent, PopNothing,
         Tim17Irq, Usart1Irq, timeVars, Dispatch, Sample, Adjust, Key, PIDTick

LEMMA ReleaseSteps ==
    ASSUME ANext
    PROVE  \/ UartByte \/ UartRelease \/ Watchdog
           \/ /\ UNCHANGED <<pending, pendingAt>>
              /\ at \in BeforeRelease <=> at' \in BeforeRelease
  BY DEF ANext, Main, SensorPoll, ButtonsPoll, CtrlStep, BeepStep, UartDone,
         TimerTest, TimerLoad, TimerStore, PopEvent, PopNothing, SysTickIrq,
         Tim17Irq, Usart1Irq, uartVars, GoTo, BeforeRelease, BeforeBeep

LEMMA BeepSteps ==
    ASSUME ANext
    PROVE  \/ PopEvent \/ BeepStep \/ Watchdog
           \/ /\ UNCHANGED <<beepActive, beepEnd>>
              /\ at \in BeforeBeep <=> at' \in BeforeBeep
  BY DEF ANext, Main, SensorPoll, ButtonsPoll, CtrlStep, UartRelease, UartByte,
         UartDone, TimerTest, TimerLoad, TimerStore, PopNothing, SysTickIrq,
         Tim17Irq, Usart1Irq, beepVars, GoTo, BeforeBeep

(* A request made while an event is dispatched: the press of a key.        *)
LEMMA RequestsOfPress ==
    ASSUME PopEvent, Head(queue) \in Events
    PROVE  IF BeepRequested THEN RequestBeep ELSE UNCHANGED <<beepActive, beepEnd>>
  <1> DEFINE e == Head(queue)
  <1>1. Dispatch(e)
    BY DEF PopEvent
  <1>2. BeepRequested <=> e \in ButtonEvents /\ e.value = 0
    BY DEF BeepRequested
  <1> HIDE DEF e
  <1>3. CASE Key(e)
    <2>1. e \in ButtonEvents /\ BeepRow(e)
      BY <1>3 DEF Key
    <2> QED
      BY <1>2, <2>1 DEF BeepRow, KeepBeep
  <1>4. CASE Adjust(e)
    <2>1. e.value # 0 /\ KeepBeep(e)
      BY <1>4 DEF Adjust, AdjustsSetpoint
    <2> QED
      BY <1>2, <2>1 DEF KeepBeep
  <1>5. CASE Sample(e) \/ PIDTick(e)
    <2>1. e \notin ButtonEvents /\ UNCHANGED beepVars
      BY <1>5, ControllerAssumption
         DEF Sample, PIDTick, SampleEvents, TickEvents, ButtonEvents
    <2> QED
      BY <1>2, <2>1 DEF beepVars
  <1> QED
    BY <1>1, <1>3, <1>4, <1>5 DEF Dispatch

(* A step that leaves the clock and the ages of a deadline alone.          *)
LEMMA TickAges ==
    ASSUME TimesInv, SysTickIrq, History
    PROVE  /\ UNCHANGED <<at, pending, pendingAt, beepActive, beepEnd>>
           /\ now' = After(now, 1) /\ iwdg < IwdgTimeout /\ iwdg' = iwdg + 1
           /\ keyAge' = IF keyAge < AgeMax THEN keyAge + 1 ELSE keyAge
           /\ beepAge' = IF beepAge < AgeMax THEN beepAge + 1 ELSE beepAge
  <1>1. /\ UNCHANGED <<at, pending, pendingAt, beepActive, beepEnd, queue, rx>>
        /\ now' = After(now, 1) /\ iwdg < IwdgTimeout /\ iwdg' = iwdg + 1
    BY DEF SysTickIrq, SysTick, uartVars, beepVars
  <1>2. now' # now
    BY <1>1, TimesTypes, TimesConstants DEF After, Instants
  <1>3. ~KeyRead
    <2>1. rx # <<>> => Tail(rx) # rx
      BY TimesTypes, HeadTailProperties, LenProperties
    <2> QED
      BY <1>1, <2>1 DEF KeyRead
  <1>4. ~BeepRequested
    BY <1>1 DEF BeepRequested, PopEvent, GoTo
  <1> QED
    BY <1>1, <1>2, <1>3, <1>4 DEF History, Aged

LEMMA AgesTypeNext ==
    ASSUME AgesType, History
    PROVE  AgesType'
  BY TimesConstants DEF AgesType, History, Aged

(* The pending release keeps its times.                                    *)
LEMMA ReleaseTimedNext ==
    ASSUME TimesInv, ANext, History
    PROVE  ReleaseTimed'
  <1> USE TimesTypes, TimesConstants
  <1>1. CASE SysTickIrq
    <2> SUFFICES ASSUME pending # NoEvent
                 PROVE  /\ NotEarly(now', pendingAt, UartPressDuration, keyAge')
                        /\ NotLate(now', Late(BeforeRelease)', pendingAt, UartPressDuration, keyAge')
      BY <1>1, TickAges DEF ReleaseTimed
    <2>1. Late(BeforeRelease) \in Nat /\ Late(BeforeRelease) < 2 * IwdgTimeout
      BY <1>1, TickAges DEF Late
    <2>2. Late(BeforeRelease)' = Late(BeforeRelease) + 1
      <3>1. at' = at /\ iwdg' = iwdg + 1
        BY <1>1, TickAges
      <3> QED
        BY <3>1 DEF Late, BeforeRelease, BeforeBeep
    <2>3. /\ NotEarly(now, pendingAt, UartPressDuration, keyAge)
          /\ NotLate(now, Late(BeforeRelease), pendingAt, UartPressDuration, keyAge)
      BY DEF TimesInv, ReleaseTimed
    <2> HIDE DEF Late
    <2> QED
      BY <1>1, <2>1, <2>2, <2>3, TickAges, RequestAges
  <1>2. CASE ~SysTickIrq
    <2>1. /\ now' = now
          /\ keyAge' = IF UartByte /\ Head(rx) \in Keys THEN 0 ELSE keyAge
      <3>1. now' = now
        BY <1>2, ClockSteps DEF Watchdog, IwdgReload
      <3> QED
        BY <3>1, KeyReadHere DEF History, Aged
    <2>2. CASE UartByte
      <3>1. /\ at = "uart" /\ at' = "uart" /\ iwdg' = iwdg
            /\ \/ /\ Head(rx) \in Keys /\ pendingAt' = After(now, UartPressDuration)
               \/ Head(rx) \notin Keys /\ UNCHANGED <<pending, pendingAt>>
        BY <2>2 DEF UartByte, timeVars
      <3>2. Late(BeforeRelease)' = iwdg /\ Late(BeforeRelease) = iwdg
        BY <3>1 DEF Late, BeforeRelease, BeforeBeep
      <3>3. CASE Head(rx) \in Keys
        BY <2>1, <2>2, <3>1, <3>2, <3>3, Requested DEF ReleaseTimed
      <3>4. CASE Head(rx) \notin Keys
        BY <2>1, <2>2, <3>1, <3>2, <3>4 DEF TimesInv, ReleaseTimed
      <3> QED
        BY <3>3, <3>4
    <2>3. CASE UartRelease
      <3>1. /\ at = "release" /\ at' = "uart" /\ iwdg' = iwdg /\ UNCHANGED pendingAt
            /\ keyAge' = keyAge
            /\ pending' = NoEvent \/ (~ReleaseDue /\ UNCHANGED pending)
        BY <2>1, <2>3 DEF UartRelease, GoTo, timeVars, UartByte
      <3>2. Late(BeforeRelease)' = iwdg
        BY <3>1 DEF Late, BeforeRelease, BeforeBeep
      <3> SUFFICES ASSUME pending # NoEvent, pending' = pending, ~ReleaseDue
                   PROVE  /\ NotEarly(now, pendingAt, UartPressDuration, keyAge)
                          /\ NotLate(now, iwdg, pendingAt, UartPressDuration, keyAge)
        BY <2>1, <3>1, <3>2 DEF ReleaseTimed
      <3>3. /\ NotEarly(now, pendingAt, UartPressDuration, keyAge)
            /\ NotLate(now, Late(BeforeRelease), pendingAt, UartPressDuration, keyAge)
        BY DEF TimesInv, ReleaseTimed
      <3>4. now < pendingAt
        BY DEF ReleaseDue, Instants
      <3> HIDE DEF Late
      <3> QED
        BY <3>3, <3>4, StillAhead
    <2>4. CASE Watchdog
      <3>1. /\ at = "reload" /\ at' = "sensor" /\ iwdg' = 0 /\ keyAge' = keyAge
            /\ UNCHANGED <<pending, pendingAt>>
        BY <2>1, <2>4 DEF Watchdog, GoTo, IwdgReload, uartVars, UartByte
      <3>2. Late(BeforeRelease) = iwdg /\ Late(BeforeRelease)' = IwdgTimeout
        BY <3>1 DEF Late, BeforeRelease, BeforeBeep
      <3> SUFFICES ASSUME pending # NoEvent
                   PROVE  /\ NotEarly(now, pendingAt, UartPressDuration, keyAge)
                          /\ NotLate(now, IwdgTimeout, pendingAt, UartPressDuration, keyAge)
        BY <2>1, <3>1, <3>2 DEF ReleaseTimed
      <3>3. /\ NotEarly(now, pendingAt, UartPressDuration, keyAge)
            /\ NotLate(now, iwdg, pendingAt, UartPressDuration, keyAge)
        BY <3>2 DEF TimesInv, ReleaseTimed
      <3>4. iwdg <= IwdgTimeout
        OBVIOUS
      <3> QED
        BY <3>3, <3>4, StillAhead
    <2>5. CASE ~UartByte /\ ~UartRelease /\ ~Watchdog
      <3>1. /\ UNCHANGED <<pending, pendingAt, iwdg>> /\ keyAge' = keyAge
            /\ at \in BeforeRelease <=> at' \in BeforeRelease
        BY <1>2, <2>1, <2>5, ClockSteps, ReleaseSteps
      <3>2. Late(BeforeRelease)' = Late(BeforeRelease)
        BY <3>1 DEF Late, BeforeRelease, BeforeBeep
      <3> QED
        BY <2>1, <3>1, <3>2 DEF TimesInv, ReleaseTimed
    <2> QED
      BY <2>2, <2>3, <2>4, <2>5
  <1> QED
    BY <1>1, <1>2

(* The sounding beep keeps its times.                                      *)
LEMMA BeepTimedNext ==
    ASSUME TimesInv, ANext, History
    PROVE  BeepTimed'
  <1> USE TimesTypes, TimesConstants
  <1>1. CASE SysTickIrq
    <2> SUFFICES ASSUME beepActive
                 PROVE  /\ NotEarly(now', beepEnd, BeepDuration, beepAge')
                        /\ NotLate(now', Late(BeforeBeep)', beepEnd, BeepDuration, beepAge')
      BY <1>1, TickAges DEF BeepTimed
    <2>1. Late(BeforeBeep) \in Nat /\ Late(BeforeBeep) < 2 * IwdgTimeout
      BY <1>1, TickAges DEF Late
    <2>2. Late(BeforeBeep)' = Late(BeforeBeep) + 1
      <3>1. at' = at /\ iwdg' = iwdg + 1
        BY <1>1, TickAges
      <3> QED
        BY <3>1 DEF Late, BeforeBeep
    <2>3. /\ NotEarly(now, beepEnd, BeepDuration, beepAge)
          /\ NotLate(now, Late(BeforeBeep), beepEnd, BeepDuration, beepAge)
      BY DEF TimesInv, BeepTimed
    <2> HIDE DEF Late
    <2> QED
      BY <1>1, <2>1, <2>2, <2>3, TickAges, RequestAges
  <1>2. CASE ~SysTickIrq
    <2>1. now' = now /\ beepAge' = IF BeepRequested THEN 0 ELSE beepAge
      <3>1. now' = now
        BY <1>2, ClockSteps DEF Watchdog, IwdgReload
      <3> QED
        BY <3>1 DEF History, Aged
    <2>2. CASE PopEvent
      <3>1. Head(queue) \in Events
        BY <2>2, HeadTailProperties DEF PopEvent, TimesInv, LoopInv, SafeInv
      <3>2. at = "pop" /\ at' = "reload" /\ iwdg' = iwdg
        BY <2>2, ClockSteps, <1>2 DEF PopEvent, GoTo, Watchdog
      <3>3. Late(BeforeBeep)' = iwdg /\ Late(BeforeBeep) = iwdg
        BY <3>2 DEF Late, BeforeBeep
      <3>4. CASE BeepRequested
        <4>1. beepEnd' = After(now, BeepDuration)
          BY <2>2, <3>1, <3>4, RequestsOfPress DEF RequestBeep
        <4> QED
          BY <2>1, <3>3, <3>4, <4>1, Requested DEF BeepTimed
      <3>5. CASE ~BeepRequested
        <4>1. UNCHANGED <<beepActive, beepEnd>>
          BY <2>2, <3>1, <3>5, RequestsOfPress
        <4> QED
          BY <2>1, <3>3, <3>5, <4>1 DEF TimesInv, BeepTimed
      <3> QED
        BY <3>4, <3>5
    <2>3. CASE BeepStep
      <3>1. /\ at = "beep" /\ at' = "release" /\ iwdg' = iwdg /\ UNCHANGED beepEnd
            /\ beepActive' = FALSE \/ (~BeepOver /\ UNCHANGED beepActive)
        BY <2>3 DEF BeepStep, GoTo, timeVars, BeepPoll, beepVars
      <3>2. Late(BeforeBeep)' = iwdg /\ ~BeepRequested
        BY <3>1 DEF Late, BeforeBeep, BeepRequested, PopEvent, GoTo
      <3> SUFFICES ASSUME beepActive, beepActive' = beepActive, ~BeepOver
                   PROVE  /\ NotEarly(now, beepEnd, BeepDuration, beepAge)
                          /\ NotLate(now, iwdg, beepEnd, BeepDuration, beepAge)
        BY <2>1, <3>1, <3>2 DEF BeepTimed
      <3>3. /\ NotEarly(now, beepEnd, BeepDuration, beepAge)
            /\ NotLate(now, Late(BeforeBeep), beepEnd, BeepDuration, beepAge)
        BY DEF TimesInv, BeepTimed
      <3>4. now < beepEnd
        BY DEF BeepOver, Instants
      <3> HIDE DEF Late
      <3> QED
        BY <3>3, <3>4, StillAhead
    <2>4. CASE Watchdog
      <3>1. /\ at = "reload" /\ at' = "sensor" /\ iwdg' = 0
            /\ UNCHANGED <<beepActive, beepEnd>>
        BY <2>4 DEF Watchdog, GoTo, IwdgReload, beepVars
      <3>2. /\ Late(BeforeBeep) = iwdg /\ Late(BeforeBeep)' = IwdgTimeout
            /\ ~BeepRequested
        BY <3>1 DEF Late, BeforeBeep, BeepRequested, PopEvent, GoTo
      <3> SUFFICES ASSUME beepActive
                   PROVE  /\ NotEarly(now, beepEnd, BeepDuration, beepAge)
                          /\ NotLate(now, IwdgTimeout, beepEnd, BeepDuration, beepAge)
        BY <2>1, <3>1, <3>2 DEF BeepTimed
      <3>3. /\ NotEarly(now, beepEnd, BeepDuration, beepAge)
            /\ NotLate(now, iwdg, beepEnd, BeepDuration, beepAge)
        BY <3>2 DEF TimesInv, BeepTimed
      <3>4. iwdg <= IwdgTimeout
        OBVIOUS
      <3> QED
        BY <3>3, <3>4, StillAhead
    <2>5. CASE ~PopEvent /\ ~BeepStep /\ ~Watchdog
      <3>1. /\ UNCHANGED <<beepActive, beepEnd, iwdg>> /\ ~BeepRequested
            /\ at \in BeforeBeep <=> at' \in BeforeBeep
        BY <1>2, <2>5, ClockSteps, BeepSteps DEF BeepRequested
      <3>2. Late(BeforeBeep)' = Late(BeforeBeep)
        BY <3>1 DEF Late, BeforeBeep
      <3> QED
        BY <2>1, <3>1, <3>2 DEF TimesInv, BeepTimed
    <2> QED
      BY <2>2, <2>3, <2>4, <2>5
  <1> QED
    BY <1>1, <1>2

LEMMA TimesNext == TimesInv /\ [MCNext]_allVars => TimesInv'
  <1> SUFFICES ASSUME TimesInv, [MCNext]_allVars PROVE TimesInv'
    OBVIOUS
  <1>1. LoopInv'
    <2>1. [ANext]_appVars
      BY DEF MCNext, MCMain, ANext, allVars
    <2> QED
      BY <2>1, LoopNext DEF TimesInv
  <1>2. CASE MCNext
    <2>1. ANext /\ History
      BY <1>2 DEF MCNext, MCMain, ANext
    <2>2. AgesType'
      BY <2>1, AgesTypeNext DEF TimesInv
    <2> QED
      BY <1>1, <2>1, <2>2, ReleaseTimedNext, BeepTimedNext DEF TimesInv
  <1>3. CASE UNCHANGED allVars
    <2>1. UNCHANGED <<at, pending, pendingAt, beepActive, beepEnd, now, iwdg, keyAge, beepAge>>
      BY <1>3 DEF allVars, appVars, uartVars, beepVars, timeVars
    <2>2. AgesType' /\ ReleaseTimed' /\ BeepTimed'
      BY <2>1 DEF TimesInv, AgesType, ReleaseTimed, BeepTimed, Late, BeforeBeep, BeforeRelease
    <2> QED
      BY <1>1, <2>2 DEF TimesInv
  <1> QED
    BY <1>2, <1>3

(* The deadlines that are compared as plain numbers, in the whole          *)
(* superloop: at every statement they are as late as the rest of the last  *)
(* pass and this one so far, and the ages agree with the counter.          *)
THEOREM DeadlinesInvariance == MCSpec => []TimesInv
  <1>1. MCInit => TimesInv
    <2> SUFFICES ASSUME MCInit PROVE TimesInv
      OBVIOUS
    <2>1. LoopInv
      BY AInitInv, LoopTypeInit DEF MCInit, LoopInv
    <2>2. pending = NoEvent /\ beepActive = FALSE /\ keyAge = 0 /\ beepAge = 0
      BY DEF MCInit, AInit, Init, BeepInit
    <2> QED
      BY <2>1, <2>2, TimesConstants DEF TimesInv, AgesType, ReleaseTimed, BeepTimed
  <1> QED
    BY <1>1, TimesNext, PTL DEF MCSpec

(* A deadline that did not wrap, and no wrap near: the age is bounded.     *)
LEMMA InTime ==
    ASSUME NEW n \in Instants, NEW end \in Instants, NEW duration \in Instants,
           NEW age \in 0..AgeMax, NEW late \in 0..(2 * IwdgTimeout),
           NotLate(n, late, end, duration, age),
           end >= duration, end + 2 * IwdgTimeout < TickMod
    PROVE  age <= duration + 2 * IwdgTimeout
  BY TimesConstants DEF NotLate, Instants

(* A deadline that did not wrap is not reached before its time.            *)
LEMMA NotBefore ==
    ASSUME NEW n \in Instants, NEW end \in Instants, NEW duration \in Instants,
           NEW age \in 0..AgeMax, NotEarly(n, end, duration, age),
           end >= duration, n >= end, duration <= AgeMax
    PROVE  age >= duration
  <1> PICK t \in Instants : /\ end = After(t, duration)
                            /\ Elapsed(n, t) <= age \/ age = AgeMax
    BY DEF NotEarly
  <1>1. Elapsed(n, t) >= duration
    BY TimesConstants DEF After, Elapsed, Instants
  <1>2. Elapsed(n, t) \in Int
    BY TimesConstants DEF Elapsed, Instants
  <1> QED
    BY <1>1, <1>2, TimesConstants DEF Instants

LEMMA LateRange ==
    ASSUME TimesInv, NEW before
    PROVE  Late(before) \in 0..(2 * IwdgTimeout)
  BY TimesTypes, TimesConstants DEF Late

(* The release of a typed key is pushed within two passes of its time, for *)
(* every press duration and width of the counter: whatever else is typed,  *)
(* queued or counted meanwhile.                                            *)
THEOREM ReleasesInTime == MCSpec => []ReleaseInTime
  <1>1. TimesInv => ReleaseInTime
    <2> SUFFICES ASSUME TimesInv, pending # NoEvent, pendingAt >= UartPressDuration,
                        pendingAt + 2 * IwdgTimeout < TickMod
                 PROVE  keyAge <= UartPressDuration + 2 * IwdgTimeout
      BY DEF ReleaseInTime
    <2>1. NotLate(now, Late(BeforeRelease), pendingAt, UartPressDuration, keyAge)
      BY DEF TimesInv, ReleaseTimed
    <2> QED
      BY <2>1, TimesTypes, TimesConstants, LateRange, InTime
  <1> QED
    BY <1>1, DeadlinesInvariance, PTL

(* It is not pushed before its time, unless its instant wrapped.           *)
THEOREM ReleasesNotEarly == MCSpec => ReleaseNotEarly
  <1> DEFINE Sound ==
        pending # NoEvent /\ pending' = NoEvent /\ pendingAt >= UartPressDuration
          => keyAge >= UartPressDuration
  <1>1. TimesInv /\ [MCNext]_allVars => [Sound]_allVars
    <2> SUFFICES ASSUME TimesInv, MCNext, pending # NoEvent, pending' = NoEvent,
                        pendingAt >= UartPressDuration
                 PROVE  keyAge >= UartPressDuration
      OBVIOUS
    <2>1. ~UartByte
      <3>1. ASSUME NEW k \in Keys PROVE Release(k) # NoEvent
        BY ControllerAssumption DEF Release, NoEvent, Keys
      <3> QED
        BY <3>1 DEF UartByte
    <2>2. UartRelease /\ ReleaseDue
      <3>1. ANext
        BY DEF MCNext, MCMain, ANext
      <3>2. ~Watchdog
        BY DEF Watchdog, uartVars
      <3> QED
        BY <2>1, <3>1, <3>2, ReleaseSteps DEF UartRelease
    <2>3. NotEarly(now, pendingAt, UartPressDuration, keyAge)
      BY DEF TimesInv, ReleaseTimed
    <2>4. now >= pendingAt
      BY <2>2 DEF ReleaseDue
    <2> QED
      BY <2>3, <2>4, TimesTypes, TimesConstants, NotBefore
  <1> QED
    BY <1>1, DeadlinesInvariance, PTL DEF MCSpec, ReleaseNotEarly

(* A beep ends within two passes of its time, however many requests        *)
(* extended it.                                                            *)
THEOREM BeepsEndInTime == MCSpec => []BeepEndsInTime
  <1>1. TimesInv => BeepEndsInTime
    <2> SUFFICES ASSUME TimesInv, BeepUnwrapped, beepEnd + 2 * IwdgTimeout < TickMod
                 PROVE  beepAge <= BeepDuration + 2 * IwdgTimeout
      BY DEF BeepEndsInTime
    <2>1. NotLate(now, Late(BeforeBeep), beepEnd, BeepDuration, beepAge)
      BY DEF TimesInv, BeepTimed, BeepUnwrapped
    <2>2. beepEnd >= BeepDuration
      BY DEF BeepUnwrapped
    <2> QED
      BY <2>1, <2>2, TimesTypes, TimesConstants, LateRange, InTime
  <1> QED
    BY <1>1, DeadlinesInvariance, PTL

(* It is not cut short, unless its end wrapped.                            *)
THEOREM BeepsNotCut == MCSpec => BeepNotCut
  <1> DEFINE Sound == BeepUnwrapped /\ ~beepActive' => beepAge >= BeepDuration
  <1>1. TimesInv /\ [MCNext]_allVars => [Sound]_allVars
    <2> SUFFICES ASSUME TimesInv, MCNext, BeepUnwrapped, ~beepActive'
                 PROVE  beepAge >= BeepDuration
      OBVIOUS
    <2>1. ANext /\ beepActive /\ beepEnd >= BeepDuration
      BY DEF MCNext, MCMain, ANext, BeepUnwrapped
    <2>2. ~PopEvent
      <3>1. ASSUME PopEvent PROVE FALSE
        <4>1. Head(queue) \in Events
          BY <3>1, HeadTailProperties DEF PopEvent, TimesInv, LoopInv, SafeInv
        <4> QED
          BY <2>1, <3>1, <4>1, RequestsOfPress DEF RequestBeep
      <3> QED
        BY <3>1
    <2>3. BeepOver
      <3>1. ~Watchdog
        BY <2>1 DEF Watchdog, beepVars
      <3> QED
        BY <2>1, <2>2, <3>1, BeepSteps DEF BeepStep, BeepPoll, beepVars
    <2>4. NotEarly(now, beepEnd, BeepDuration, beepAge)
      BY <2>1 DEF TimesInv, BeepTimed
    <2>5. now >= beepEnd
      BY <2>3 DEF BeepOver
    <2> QED
      BY <2>1, <2>4, <2>5, TimesTypes, TimesConstants, NotBefore
  <1> QED
    BY <1>1, DeadlinesInvariance, PTL DEF MCSpec, BeepNotCut
=============================================================================
