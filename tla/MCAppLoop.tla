------------------------------ MODULE MCAppLoop ------------------------------
(***************************************************************************)
(* Instances of AppLoop for TLC, with history variables: the last sample    *)
(* the event queue accepted, the ages of the last typed key and beep, and   *)
(* the update events of TIM17 that still have to be counted.                *)
(***************************************************************************)
EXTENDS AppLoop

CONSTANT AgeMax         \* bound: ages are capped here; 0 when none is measured

ASSUME AgeAssumption ==
    AgeMax \in Nat /\ UartPressDuration <= AgeMax /\ BeepDuration <= AgeMax

VARIABLES
    accepted,       \* the last TemperatureReady the queue took; m_current at first
    keyAge,         \* ticks since a key was last read from the UART, capped
    beepAge,        \* ticks since a beep was last requested, capped
    owed            \* update events not counted yet, without the lost ones

allVars == <<appVars, accepted, keyAge, beepAge, owed>>

MCIntegrMin == -20
MCDisplayMin == -99

KeyRead == rx # <<>> /\ rx' = Tail(rx) /\ Head(rx) \in Keys /\ at = "uart"
BeepRequested == PopEvent /\ Head(queue) \in ButtonEvents /\ Head(queue).value = 0
Aged(age) == IF now' # now /\ age < AgeMax THEN age + 1 ELSE age

MCInit == AInit /\ accepted = 0 /\ keyAge = 0 /\ beepAge = 0 /\ owed = 0
History ==
    /\ accepted' = IF at = "sensor" /\ queue' # queue
                   THEN queue'[Len(queue')].value ELSE accepted
    /\ keyAge' = IF KeyRead THEN 0 ELSE Aged(keyAge)
    /\ beepAge' = IF BeepRequested THEN 0 ELSE Aged(beepAge)
Counts == owed' = IF at = "store" /\ at' = "pop" THEN owed - 1 ELSE owed
Owes   == owed' = IF at = "store" THEN owed ELSE owed + 1

MCMain == Main /\ History /\ Counts
MCNext ==
    \/ MCMain
    \/ (SysTickIrq \/ Usart1Irq) /\ History /\ Counts
    \/ Tim17Irq /\ History /\ Owes
MCSpec == MCInit /\ [][MCNext]_allVars /\ WF_allVars(MCMain)

(* Samples in the order they were accepted: the controller's temperature   *)
(* is the last accepted sample, or that one is still the last sample in    *)
(* the queue - whatever keys and ticks are queued around it.               *)
Waiting == {i \in DOMAIN queue : queue[i].type = "TemperatureReady"}
LastSampleWins ==
    /\ \A i \in Waiting :
         (\A j \in Waiting : j <= i) => queue[i].value = accepted
    /\ Waiting = {} => current = accepted

(* A sample the queue accepted reaches the controller, unless a newer one  *)
(* is accepted before.                                                     *)
SampleProcessed ==
    \A t \in Temps : (accepted = t) ~> (current = t \/ accepted # t)

(* A typed key's pending release is pushed within two passes of its time,  *)
(* if the counter does not wrap on the way.  It is that of the last key    *)
(* typed, which has taken the slot of any before it.                       *)
ReleaseInTime ==
    /\ pending # NoEvent
    /\ pendingAt >= UartPressDuration
    /\ pendingAt + 2 * IwdgTimeout < TickMod
    => keyAge <= UartPressDuration + 2 * IwdgTimeout

(* It is not pushed before its time, unless the deadline wrapped.          *)
ReleaseNotEarly ==
    [][pending # NoEvent /\ pending' = NoEvent /\ pendingAt >= UartPressDuration
         => keyAge >= UartPressDuration]_allVars

(* The deadline of the last request was computed without a wrap.           *)
BeepUnwrapped == beepActive /\ beepEnd >= BeepDuration

(* A beep is over at most two passes after its duration, if the counter    *)
(* does not wrap between the request and that pass, however many requests  *)
(* extended it and whatever releases came in between.                      *)
BeepEndsInTime ==
    BeepUnwrapped /\ beepEnd + 2 * IwdgTimeout < TickMod
        => beepAge <= BeepDuration + 2 * IwdgTimeout

(* The poll does not cut a beep short unless its deadline wrapped: a       *)
(* request made while a beep sounds gets its full duration too.            *)
BeepNotCut ==
    [][BeepUnwrapped /\ ~beepActive' => beepAge >= BeepDuration]_allVars

(* An update event of TIM17 is lost only when its interrupt comes between  *)
(* the load and the store of the superloop's decrement; no other is, none  *)
(* is counted twice, and a pass without one counts none.                   *)
LossOnlyInDecrement == at # "store" => irqCount = owed

(* The backlog of a late superloop is worked off, once the timer and the   *)
(* UART are quiet: every pending update event is counted in the end.       *)
BacklogDrains ==
    <>[][~(Tim17Irq \/ Usart1Irq)]_allVars => <>[](irqCount = 0)

(* The superloop's own state: the queue, the buffer and the counters keep  *)
(* their bounds, tick100 the one that makes it a period.                   *)
LoopType ==
    /\ TimType
    /\ Len(queue) <= QueueMax /\ \A i \in DOMAIN queue : queue[i] \in Events
    /\ rx \in Seq(Bytes) /\ Len(rx) <= RxMax
    /\ pending \in {NoEvent} \cup {Release(k) : k \in Keys} /\ pendingAt \in Instants
    /\ down \subseteq Phys
=============================================================================
