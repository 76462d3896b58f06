----------------------------- MODULE ButtonsProofs -----------------------------
(***************************************************************************)
(* Theorems of ButtonsManager for every set of keys and all durations: its  *)
(* type invariant, that whatever the pins and the clock do it reports as    *)
(* KeyReports allows, and the times it keeps: of debouncing, of holding, of *)
(* the combinations of two keys.                                            *)
(***************************************************************************)
EXTENDS MCButtonsManager, SequenceTheorems, TLAPS

-----------------------------------------------------------------------------
(* The fields of a Button.                                                 *)
ButtonRecord == [raw : BOOLEAN, stable : BOOLEAN,
                 lastChange : Instants, holdDeadline : Instants]

(* A combination has no beginning without both of its keys.                *)
ComboNeedsKeys == comboStart # 0 => {"S1", "S2"} \subseteq Phys

KeysInv == ButtonsType /\ ComboNeedsKeys

(* The constants the steps need.                                           *)
LEMMA KeysConstants ==
    /\ TickMod \in Nat /\ TickMod > 1 /\ IwdgTimeout \in Nat \ {0}
    /\ HoldMs \in Instants /\ 0 \in Instants
  BY TickAssumption, ButtonsAssumption DEF Instants

(* A deadline is an instant.                                               *)
LEMMA DeadlineType ==
    ASSUME NEW t \in Instants, NEW d \in Instants
    PROVE  After(t, d) \in Instants
  BY KeysConstants DEF After, Instants

(* The initial state satisfies the invariant.                              *)
LEMMA KeysInitInv == KeysInit => KeysInv
  BY KeysConstants
     DEF KeysInit, TicksInit, ButtonInit, KeysInv, ButtonsType, TicksType, ComboNeedsKeys

(* tick() keeps the type of a button.                                      *)
LEMMA TickedType ==
    ASSUME NEW b \in ButtonRecord, NEW pressed \in BOOLEAN, now \in Instants
    PROVE  Sensed(b, pressed) \in ButtonRecord /\ Ticked(Sensed(b, pressed)) \in ButtonRecord
  <1> DEFINE s == Sensed(b, pressed)
  <1>1. s \in ButtonRecord
    BY DEF Sensed, ButtonRecord
  <1>2. After(now, HoldMs) \in Instants /\ 0 \in Instants
    BY KeysConstants, DeadlineType
  <1>3. s.raw \in BOOLEAN
    BY <1>1 DEF ButtonRecord
  <1> HIDE DEF s
  <1>4. Ticked(s) \in ButtonRecord
    BY <1>1, <1>2, <1>3 DEF Ticked, Settled, HoldDue, ButtonRecord
  <1> QED
    BY <1>1, <1>4 DEF s

(* A poll keeps the invariant.                                             *)
LEMMA PollInv ==
    ASSUME KeysInv, Pass
    PROVE  KeysInv'
  <1> PICK pins \in [Phys -> BOOLEAN], both \in BothReadings : ButtonsPoll(pins, both)
    BY DEF Pass
  <1> DEFINE sensed == [k \in Phys |-> Sensed(btn[k], pins[k])]
  <1>1. /\ btn \in [Phys -> ButtonRecord] /\ lastRelease \in [Phys -> Instants]
        /\ comboStart \in Instants /\ now \in Instants
    BY DEF KeysInv, ButtonsType, ButtonRecord, TicksType
  <1>2. now' = now /\ iwdg' = 0
    BY DEF Pass, IwdgReload
  <1>3. btn' \in [Phys -> ButtonRecord]
    <2>1. ASSUME NEW k \in Phys PROVE Ticked(sensed[k]) \in ButtonRecord
      BY <1>1, TickedType
    <2>2. btn' = [k \in Phys |-> Ticked(sensed[k])]
      BY DEF ButtonsPoll
    <2> HIDE DEF sensed
    <2> QED
      BY <2>1, <2>2
  <1>4. lastRelease' \in [Phys -> Instants]
    <2>1. ASSUME NEW k \in Phys PROVE ReleaseStamp(k, sensed[k]) \in Instants
      BY <1>1, KeysConstants DEF ReleaseStamp
    <2>2. lastRelease' = [k \in Phys |-> ReleaseStamp(k, sensed[k])]
      BY DEF ButtonsPoll
    <2> HIDE DEF sensed
    <2> QED
      BY <2>1, <2>2
  <1>5. comboStart' \in Instants /\ ComboNeedsKeys'
    BY <1>1, KeysConstants
       DEF ButtonsPoll, ComboBegan, BothReadings, ComboNeedsKeys
  <1>6. TicksType'
    BY <1>1, <1>2, KeysConstants DEF TicksType
  <1> QED
    BY <1>3, <1>4, <1>5, <1>6 DEF KeysInv, ButtonsType, ButtonRecord

(* Every step keeps it.                                                    *)
LEMMA KeysNextInv == KeysInv /\ [KeysNext]_<<btnVars, now, iwdg>> => KeysInv'
  <1> SUFFICES ASSUME KeysInv, [KeysNext]_<<btnVars, now, iwdg>> PROVE KeysInv'
    OBVIOUS
  <1>1. CASE Pass
    BY <1>1, PollInv
  <1>2. CASE Tick
    <2>1. now' \in Instants /\ iwdg' \in 0..IwdgTimeout
      BY <1>2, KeysConstants
         DEF Tick, SysTick, After, Instants, KeysInv, ButtonsType, TicksType
    <2> QED
      BY <1>2, <2>1
         DEF Tick, btnVars, KeysInv, ButtonsType, TicksType, ComboNeedsKeys
  <1>3. CASE UNCHANGED <<btnVars, now, iwdg>>
    BY <1>3 DEF btnVars, KeysInv, ButtonsType, TicksType, ComboNeedsKeys
  <1> QED
    BY <1>1, <1>2, <1>3 DEF KeysNext

(* Every field of the buttons keeps its range.                             *)
THEOREM KeysTypeCorrect == KeysSpec => []ButtonsType
  <1>1. KeysSpec => []KeysInv
    BY KeysInitInv, KeysNextInv, PTL DEF KeysSpec
  <1>2. KeysInv => ButtonsType
    BY DEF KeysInv
  <1> QED
    BY <1>1, <1>2, PTL
-----------------------------------------------------------------------------
(* What is pushed for a key fits what was reported of it before, and tells *)
(* whether it is down afterwards.                                          *)
LEMMA PushedFits ==
    ASSUME NEW k \in Phys, NEW b \in ButtonRecord, NEW pressed \in BOOLEAN,
           now \in Instants
    PROVE  LET s == Sensed(b, pressed)
               v == Pushed(k, s)
           IN /\ v \in IF b.stable THEN {<<>>, <<1>>, <<2>>, <<2, 3>>} ELSE {<<>>, <<0>>}
              /\ Ticked(s).stable <=> (v = <<0>> \/ (b.stable /\ v \in {<<>>, <<1>>}))
  <1> DEFINE s == Sensed(b, pressed)
  <1>1. /\ s.stable = b.stable /\ s.raw \in BOOLEAN /\ s.stable \in BOOLEAN
        /\ s \in ButtonRecord
    BY TickedType DEF Sensed, ButtonRecord
  <1>2. <<0>> # <<>> /\ <<1>> # <<>> /\ <<0>> # <<1>> /\ <<2>> # <<>> /\ <<2>> # <<0>>
        /\ <<2>> # <<1>> /\ <<2, 3>> # <<>> /\ <<2, 3>> # <<0>> /\ <<2, 3>> # <<1>>
    OBVIOUS
  <1> HIDE DEF s
  <1>4. CASE Settled(s) /\ s.raw
    <2>1. Ticked(s).stable = s.raw
      BY <1>1, <1>4 DEF Ticked, Settled, HoldDue, ButtonRecord
    <2>2. Pushed(k, s) = <<0>>
      BY <1>1, <1>4 DEF Pushed, Settled, HoldDue, IsDouble, ButtonRecord
    <2>3. s.raw # s.stable
      BY <1>4 DEF Settled
    <2> QED
      BY <1>1, <1>2, <1>4, <2>1, <2>2, <2>3 DEF s
  <1>5. CASE Settled(s) /\ ~s.raw
    <2>1. Ticked(s).stable = s.raw
      BY <1>1, <1>5 DEF Ticked, Settled, HoldDue, ButtonRecord
    <2>2. Pushed(k, s) \in {<<2>>, <<2, 3>>}
      BY <1>1, <1>5 DEF Pushed, Settled, HoldDue, IsDouble, ButtonRecord
    <2>3. s.raw # s.stable
      BY <1>5 DEF Settled
    <2> QED
      BY <1>1, <1>2, <1>5, <2>1, <2>2, <2>3 DEF s
  <1>6. CASE ~Settled(s) /\ HoldDue(s)
    <2>1. Ticked(s).stable = s.stable
      BY <1>1, <1>6 DEF Ticked, Settled, HoldDue, ButtonRecord
    <2>2. Pushed(k, s) = <<1>>
      BY <1>1, <1>6 DEF Pushed, Settled, HoldDue, IsDouble, ButtonRecord
    <2>3. s.stable
      BY <1>6 DEF HoldDue
    <2> QED
      BY <1>1, <1>2, <2>1, <2>2, <2>3 DEF s
  <1>7. CASE ~Settled(s) /\ ~HoldDue(s)
    <2>1. Ticked(s) = s /\ Pushed(k, s) = <<>>
      BY <1>7 DEF Ticked, Pushed
    <2> QED
      BY <1>1, <1>2, <2>1 DEF s
  <1> QED
    BY <1>4, <1>5, <1>6, <1>7

(* A combination is pushed only when both of its keys are connected.       *)
LEMMA ComboFits ==
    ASSUME KeysInv, NEW both \in BothReadings
    PROVE  ComboPushed(both) \in Reports!Combinations
  <1>1. CASE {"S1", "S2"} \subseteq Phys
    BY <1>1 DEF ComboPushed, LongCombo, ShortCombo, Reports!Combinations
  <1>2. CASE ~({"S1", "S2"} \subseteq Phys)
    <2>1. ~both /\ comboStart = 0
      BY <1>2 DEF BothReadings, KeysInv, ComboNeedsKeys
    <2>2. ComboPushed(both) = <<>>
      BY <2>1 DEF ComboPushed, LongCombo, ShortCombo
    <2> QED
      BY <1>2, <2>2 DEF Reports!Combinations
  <1> QED
    BY <1>1, <1>2

(* The events of a poll are those of KeyReports, in the same order.        *)
LEMMA EventsAgree ==
    ASSUME NEW sensed, NEW both
    PROVE  PollPushes(sensed, both)
             = Reports!PollEvents([k \in Phys |-> Pushed(k, sensed[k])], ComboPushed(both))
  <1> DEFINE values == [k \in Phys |-> Pushed(k, sensed[k])]
             mine(k) == IF k \in Phys THEN AsEvents(k, Pushed(k, sensed[k])) ELSE <<>>
             its(k) == IF k \in Phys THEN Reports!AsEvents(k, values[k]) ELSE <<>>
  <1>1. \A k, v : AsEvents(k, v) = Reports!AsEvents(k, v)
    BY DEF AsEvents, Reports!AsEvents
  <1>2. \A k : mine(k) = its(k)
    BY <1>1
  <1>3. PollPushes(sensed, both) = mine("S1") \o mine("S2") \o mine("S3") \o mine("S4")
                                    \o AsEvents("S1", ComboPushed(both))
    BY DEF PollPushes
  <1>4. Reports!PollEvents(values, ComboPushed(both))
          = its("S1") \o its("S2") \o its("S3") \o its("S4")
            \o Reports!AsEvents("S1", ComboPushed(both))
    BY DEF Reports!PollEvents
  <1> HIDE DEF mine, its
  <1>5. mine("S1") = its("S1") /\ mine("S2") = its("S2") /\ mine("S3") = its("S3")
        /\ mine("S4") = its("S4")
    BY <1>2
  <1> QED
    BY <1>1, <1>3, <1>4, <1>5

(* A poll of the pins is a poll of KeyReports: the values it reports are   *)
(* ones that fit, and what is down afterwards follows from them.           *)
LEMMA PollRefines ==
    ASSUME KeysInv, Pass
    PROVE  Reports!KPoll
  <1> PICK pins \in [Phys -> BOOLEAN], both \in BothReadings : ButtonsPoll(pins, both)
    BY DEF Pass
  <1> DEFINE sensed == [k \in Phys |-> Sensed(btn[k], pins[k])]
             values == [k \in Phys |-> Pushed(k, sensed[k])]
             combo == ComboPushed(both)
             all == {<<>>, <<0>>, <<1>>, <<2>>, <<2, 3>>}
  <1>1. btn \in [Phys -> ButtonRecord] /\ now \in Instants
    BY DEF KeysInv, ButtonsType, ButtonRecord, TicksType
  <1>2. ASSUME NEW k \in Phys
        PROVE  /\ values[k] \in IF btn[k].stable
                                 THEN {<<>>, <<1>>, <<2>>, <<2, 3>>} ELSE {<<>>, <<0>>}
               /\ btn'[k].stable <=>
                    (values[k] = <<0>> \/ (btn[k].stable /\ values[k] \in {<<>>, <<1>>}))
    <2>1. btn'[k] = Ticked(Sensed(btn[k], pins[k]))
      BY DEF ButtonsPoll
    <2>2. values[k] = Pushed(k, Sensed(btn[k], pins[k]))
      OBVIOUS
    <2> HIDE DEF values
    <2> QED
      BY <1>1, <2>1, <2>2, PushedFits
  <1>3. values \in Reports!Choices
    <2>1. \A k \in Phys : values[k] \in all
      <3> HIDE DEF values
      <3> QED
        BY <1>2
    <2>2. values \in [Phys -> all]
      <3>1. values = [k \in Phys |-> values[k]]
        OBVIOUS
      <3> HIDE DEF values, all
      <3> QED
        BY <2>1, <3>1
    <2>3. \A k \in Phys : values[k] \in Reports!Values(k)
      <3> HIDE DEF values
      <3> QED
        BY <1>2 DEF Reports!Values
    <2> HIDE DEF values
    <2> QED
      BY <2>2, <2>3 DEF Reports!Choices
  <1>4. combo \in Reports!Combinations
    BY ComboFits
  <1>5. {k \in Phys : btn'[k].stable} = Reports!DownAfter(values)
    <2> HIDE DEF values
    <2> QED
      BY <1>2 DEF Reports!DownAfter
  <1>6. reported' = Reports!PollEvents(values, combo)
    <2>1. reported' = PollPushes(sensed, both)
      BY DEF ButtonsPoll
    <2> QED
      BY <2>1, EventsAgree
  <1> HIDE DEF values, combo
  <1> QED
    BY <1>3, <1>4, <1>5, <1>6 DEF Reports!KPoll

(* The keys implement KeyReports, the abstraction the superloop is         *)
(* composed with, for every set of connected keys, all durations and every *)
(* period of the counter.                                                  *)
THEOREM KeysImplementation == KeysSpec => ImplementsKeyReports
  <1>1. KeysSpec => []KeysInv
    BY KeysInitInv, KeysNextInv, PTL DEF KeysSpec
  <1>2. KeysInit => Reports!KInit
    BY DEF KeysInit, ButtonInit, Reports!KInit
  <1>3. KeysInv /\ [KeysNext]_<<btnVars, now, iwdg>> => [Reports!KPoll]_(Reports!kvars)
    <2> SUFFICES ASSUME KeysInv, [KeysNext]_<<btnVars, now, iwdg>>
                 PROVE  [Reports!KPoll]_(Reports!kvars)
      OBVIOUS
    <2>1. CASE Pass
      BY <2>1, PollRefines
    <2>2. CASE Tick \/ UNCHANGED <<btnVars, now, iwdg>>
      BY <2>2 DEF Tick, btnVars, Reports!kvars
    <2> QED
      BY <2>1, <2>2 DEF KeysNext
  <1> QED
    BY <1>1, <1>2, <1>3, PTL DEF KeysSpec, ImplementsKeyReports, Reports!KSpec
-----------------------------------------------------------------------------
(* What a poll reports, event by event.                                    *)
Occurs(e, s) == \E i \in DOMAIN s : s[i] = e

KeyNames  == {"S1", "S2", "S3", "S4"}
KeyEvents == [type : KeyNames, value : 0..10]
KeyValues == {<<>>, <<0>>, <<1>>, <<2>>, <<2, 3>>, <<9>>, <<10>>}

LEMMA InConcat ==
    ASSUME NEW S, NEW s \in Seq(S), NEW t \in Seq(S), NEW e
    PROVE  Occurs(e, s \o t) <=> Occurs(e, s) \/ Occurs(e, t)
  <1>1. /\ s \o t \in Seq(S) /\ Len(s \o t) = Len(s) + Len(t)
        /\ \A i \in 1..(Len(s) + Len(t)) :
             (s \o t)[i] = IF i <= Len(s) THEN s[i] ELSE t[i - Len(s)]
    BY ConcatProperties
  <1>2. /\ Len(s) \in Nat /\ Len(t) \in Nat
        /\ DOMAIN s = 1..Len(s) /\ DOMAIN t = 1..Len(t)
        /\ DOMAIN (s \o t) = 1..(Len(s) + Len(t))
    BY <1>1, LenProperties
  <1> DEFINE st == s \o t
  <1> HIDE DEF st
  <1>3. /\ DOMAIN st = 1..(Len(s) + Len(t))
        /\ \A i \in 1..(Len(s) + Len(t)) :
             st[i] = IF i <= Len(s) THEN s[i] ELSE t[i - Len(s)]
    BY <1>1, <1>2 DEF st
  <1>4. ASSUME Occurs(e, st) PROVE Occurs(e, s) \/ Occurs(e, t)
    <2> PICK i \in 1..(Len(s) + Len(t)) : st[i] = e
      BY <1>3, <1>4 DEF Occurs
    <2>1. CASE i <= Len(s)
      BY <1>2, <1>3, <2>1 DEF Occurs
    <2>2. CASE ~(i <= Len(s))
      <3>1. i - Len(s) \in 1..Len(t) /\ t[i - Len(s)] = e
        BY <1>2, <1>3, <2>2
      <3> QED
        BY <1>2, <3>1 DEF Occurs
    <2> QED
      BY <2>1, <2>2
  <1>5. ASSUME Occurs(e, s) PROVE Occurs(e, st)
    <2> PICK i \in 1..Len(s) : s[i] = e
      BY <1>2, <1>5 DEF Occurs
    <2>1. i \in 1..(Len(s) + Len(t)) /\ st[i] = e
      BY <1>2, <1>3
    <2> QED
      BY <1>3, <2>1 DEF Occurs
  <1>6. ASSUME Occurs(e, t) PROVE Occurs(e, st)
    <2> PICK i \in 1..Len(t) : t[i] = e
      BY <1>2, <1>6 DEF Occurs
    <2>1. i + Len(s) \in 1..(Len(s) + Len(t)) /\ st[i + Len(s)] = t[i]
      BY <1>2, <1>3
    <2> QED
      BY <1>3, <2>1 DEF Occurs
  <1> QED
    BY <1>4, <1>5, <1>6 DEF st

(* The events made of the values of one key.                               *)
LEMMA InEvents ==
    ASSUME NEW k \in KeyNames, NEW v \in KeyValues
    PROVE  /\ AsEvents(k, v) \in Seq(KeyEvents)
           /\ \A key, n : Occurs([type |-> key, value |-> n], AsEvents(k, v))
                          <=> key = k /\ Occurs(n, v)
  <1>1. /\ Len(v) \in Nat /\ DOMAIN v = 1..Len(v)
        /\ \A i \in 1..Len(v) : v[i] \in 0..10
    BY DEF KeyValues
  <1>2. \A i \in 1..Len(v) : [type |-> k, value |-> v[i]] \in KeyEvents
    BY <1>1 DEF KeyEvents
  <1>3. AsEvents(k, v) \in Seq(KeyEvents)
    BY <1>1, <1>2, IsASeq DEF AsEvents
  <1>4. ASSUME NEW key, NEW n
        PROVE  Occurs([type |-> key, value |-> n], AsEvents(k, v))
                 <=> key = k /\ Occurs(n, v)
    BY DEF Occurs, AsEvents
  <1> QED
    BY <1>3, <1>4

LEMMA PushedValues ==
    ASSUME NEW k, NEW b, NEW both
    PROVE  Pushed(k, b) \in KeyValues /\ ComboPushed(both) \in KeyValues
  BY DEF Pushed, ComboPushed, KeyValues

(* An event of a poll is one of its key, or one of the combination.        *)
LEMMA InPoll ==
    ASSUME NEW sensed, NEW both, NEW key, NEW n
    PROVE  Occurs([type |-> key, value |-> n], PollPushes(sensed, both))
             <=> \/ key \in Phys /\ Occurs(n, Pushed(key, sensed[key]))
                 \/ key = "S1" /\ Occurs(n, ComboPushed(both))
  <1> DEFINE of(k) == IF k \in Phys THEN AsEvents(k, Pushed(k, sensed[k])) ELSE <<>>
             e == [type |-> key, value |-> n]
             s1 == of("S1")  s2 == of("S2")  s3 == of("S3")  s4 == of("S4")
             s5 == AsEvents("S1", ComboPushed(both))
  <1>1. ASSUME NEW k \in KeyNames
        PROVE  /\ of(k) \in Seq(KeyEvents)
               /\ Occurs(e, of(k)) <=> key = k /\ k \in Phys
                                      /\ Occurs(n, Pushed(k, sensed[k]))
    <2>1. CASE k \in Phys
      BY <2>1, InEvents, PushedValues
    <2>2. CASE k \notin Phys
      <3>1. of(k) = <<>>
        BY <2>2
      <3> QED
        BY <2>2, <3>1 DEF Occurs
    <2> QED
      BY <2>1, <2>2
  <1>2. s5 \in Seq(KeyEvents) /\ (Occurs(e, s5) <=> key = "S1" /\ Occurs(n, ComboPushed(both)))
    BY InEvents, PushedValues DEF KeyNames
  <1>3. /\ s1 \in Seq(KeyEvents) /\ s2 \in Seq(KeyEvents)
        /\ s3 \in Seq(KeyEvents) /\ s4 \in Seq(KeyEvents)
    BY <1>1 DEF KeyNames
  <1>4. Occurs(e, s1) \/ Occurs(e, s2) \/ Occurs(e, s3) \/ Occurs(e, s4)
          <=> key \in Phys /\ Occurs(n, Pushed(key, sensed[key]))
    <2> HIDE DEF of, e
    <2>1. \A k \in KeyNames : Occurs(e, of(k)) <=> key = k /\ k \in Phys
                                      /\ Occurs(n, Pushed(k, sensed[k]))
      BY <1>1
    <2>2. key \in Phys => key \in KeyNames
      BY ButtonsAssumption DEF KeyNames
    <2> QED
      BY <2>1, <2>2 DEF KeyNames
  <1>5. PollPushes(sensed, both) = s1 \o s2 \o s3 \o s4 \o s5
    BY DEF PollPushes
  <1> HIDE DEF of, e, s1, s2, s3, s4, s5
  <1>6. s1 \o s2 \in Seq(KeyEvents) /\ (Occurs(e, s1 \o s2) <=> Occurs(e, s1) \/ Occurs(e, s2))
    BY <1>3, InConcat, ConcatProperties
  <1> DEFINE t2 == s1 \o s2  t3 == t2 \o s3  t4 == t3 \o s4
  <1> HIDE DEF t2, t3, t4
  <1>7. t3 \in Seq(KeyEvents) /\ (Occurs(e, t3) <=> Occurs(e, t2) \/ Occurs(e, s3))
    BY <1>3, <1>6, InConcat, ConcatProperties DEF t2, t3
  <1>8. t4 \in Seq(KeyEvents) /\ (Occurs(e, t4) <=> Occurs(e, t3) \/ Occurs(e, s4))
    BY <1>3, <1>7, InConcat, ConcatProperties DEF t4
  <1>9. Occurs(e, t4 \o s5) <=> Occurs(e, t4) \/ Occurs(e, s5)
    BY <1>2, <1>8, InConcat
  <1>10. PollPushes(sensed, both) = t4 \o s5
    BY <1>5 DEF t2, t3, t4
  <1> QED
    BY <1>2, <1>4, <1>6, <1>7, <1>8, <1>9, <1>10 DEF t2, e
-----------------------------------------------------------------------------
(* Instants.                                                               *)
LEMMA ObserverConstants ==
    /\ TickMod \in Nat /\ IwdgTimeout \in Nat /\ IwdgTimeout > 0
    /\ DebounceMs \in Nat /\ DebounceMs > 0 /\ HoldMs \in Nat /\ HoldMs > 0
    /\ ComboLong \in Nat /\ AgeMax \in Nat
    /\ HoldMs \in Instants
  BY TickAssumption, ButtonsAssumption, ObserverAssumption DEF Instants

LEMMA ElapsedType ==
    ASSUME NEW a \in Instants, NEW b \in Instants
    PROVE  Elapsed(a, b) \in Instants /\ Elapsed(a, a) = 0
  BY ObserverConstants DEF Elapsed, Instants

(* A tick lengthens an interval that has not gone all the way round.       *)
LEMMA ElapsedTick ==
    ASSUME NEW a \in Instants, NEW b \in Instants, Elapsed(a, b) + 1 < TickMod
    PROVE  Elapsed(After(a, 1), b) = Elapsed(a, b) + 1 /\ After(a, 1) \in Instants
  BY ObserverConstants DEF Elapsed, After, Instants

(* A hold deadline is reached when the hold time has elapsed since it was  *)
(* set, if it is late by less than half a period.                          *)
LEMMA HoldReached ==
    ASSUME NEW a \in Instants, NEW t \in Instants,
           2 * Elapsed(a, t) < 2 * HoldMs + TickMod
    PROVE  TimeReached(a, After(t, HoldMs)) <=> Elapsed(a, t) >= HoldMs
  BY ObserverConstants, ObserverAssumption DEF TimeReached, Elapsed, After, Instants

-----------------------------------------------------------------------------
(* The observed key and the combination, against what an observer of the   *)
(* pins measures.                                                          *)
Key == btn[Observed]

(* A level that waits for the end of the debounce time: the code measures  *)
(* the time since the last bounce as the observer does, and a poll that    *)
(* finds the debounce time over ends the waiting.                          *)
SettleInv ==
    Key.raw # Key.stable =>
        Elapsed(now, Key.lastChange) = steady /\ steady < DebounceMs + iwdg

(* A held key: its deadline is the hold time after its last report, and a  *)
(* poll that finds it closed and due reports a hold.  While the contacts   *)
(* bounce open nothing is reported, for the debounce time at most.         *)
HoldInv ==
    Key.stable /\ Key.holdDeadline # 0 =>
        /\ \E t \in Instants :
              Key.holdDeadline = After(t, HoldMs) /\ Elapsed(now, t) = quiet
        /\ quiet < HoldMs + (IF Key.raw THEN iwdg ELSE IwdgTimeout + steady)

(* A combination: its start is the moment from which both keys are held,   *)
(* unless that was instant 0, which is taken for no start until the next   *)
(* poll.  A poll that finds it too long ends it.                           *)
ComboInv ==
    IF comboStart = 0 THEN bothFor = -1 \/ (bothFor = now /\ bothFor = iwdg)
    ELSE LET passed == Elapsed(now, comboStart)
         IN bothFor \in passed..(passed + IwdgTimeout) /\ passed <= ComboLong + iwdg

AgesType == steady \in Nat /\ quiet \in Nat /\ bothFor \in Nat \cup {-1}
ObserverInv == KeysInv /\ AgesType /\ SettleInv /\ HoldInv /\ ComboInv

LEMMA OccursInValues ==
    \A n : /\ ~Occurs(n, <<>>) /\ (Occurs(n, <<2, 3>>) <=> n = 2 \/ n = 3)
           /\ Occurs(n, <<0>>) <=> n = 0
           /\ Occurs(n, <<1>>) <=> n = 1
           /\ Occurs(n, <<2>>) <=> n = 2
           /\ Occurs(n, <<9>>) <=> n = 9
           /\ Occurs(n, <<10>>) <=> n = 10
  <1>1. /\ DOMAIN <<2, 3>> = {1, 2} /\ <<2, 3>>[1] = 2 /\ <<2, 3>>[2] = 3
    OBVIOUS
  <1>2. ASSUME NEW m PROVE DOMAIN <<m>> = {1} /\ <<m>>[1] = m
    OBVIOUS
  <1> QED
    BY <1>1, <1>2 DEF Occurs

LEMMA ValuesPushed ==
    ASSUME NEW k, NEW b
    PROVE  /\ Occurs(0, Pushed(k, b)) <=> Settled(b) /\ b.raw
           /\ Occurs(1, Pushed(k, b)) <=> ~Settled(b) /\ HoldDue(b)
           /\ Occurs(2, Pushed(k, b)) <=> Settled(b) /\ ~b.raw
           /\ ~Occurs(9, Pushed(k, b)) /\ ~Occurs(10, Pushed(k, b))
  <1>1. HoldDue(b) => ~Settled(b)
    BY DEF HoldDue, Settled
  <1>2. CASE Settled(b) /\ b.raw
    <2>1. Pushed(k, b) = <<0>>
      BY <1>1, <1>2 DEF Pushed
    <2>2. \A n : Occurs(n, Pushed(k, b)) <=> n = 0
      BY <2>1, OccursInValues
    <2> QED
      BY <1>2, <2>2
  <1>3. CASE Settled(b) /\ ~b.raw
    <2>1. Pushed(k, b) \in {<<2>>, <<2, 3>>}
      BY <1>1, <1>3 DEF Pushed
    <2>2. \A n \in {0, 1, 2, 9, 10} : Occurs(n, Pushed(k, b)) <=> n = 2
      BY <2>1, OccursInValues
    <2> QED
      BY <1>3, <2>2
  <1>4. CASE ~Settled(b) /\ HoldDue(b)
    <2>1. Pushed(k, b) = <<1>>
      BY <1>4 DEF Pushed
    <2>2. \A n : Occurs(n, Pushed(k, b)) <=> n = 1
      BY <2>1, OccursInValues
    <2> QED
      BY <1>4, <2>2
  <1>5. CASE ~Settled(b) /\ ~HoldDue(b)
    <2>1. Pushed(k, b) = <<>>
      BY <1>5 DEF Pushed
    <2>2. \A n : ~Occurs(n, Pushed(k, b))
      BY <2>1, OccursInValues
    <2> QED
      BY <1>5, <2>2
  <1> QED
    BY <1>2, <1>3, <1>4, <1>5

LEMMA ValuesOfCombo ==
    ASSUME NEW both
    PROVE  /\ \A n \in 0..2 : ~Occurs(n, ComboPushed(both))
           /\ Occurs(10, ComboPushed(both)) <=> LongCombo(both)
           /\ Occurs(9, ComboPushed(both)) <=> ShortCombo(both)
  <1>1. ShortCombo(both) => ~LongCombo(both)
    BY DEF LongCombo, ShortCombo
  <1>2. CASE LongCombo(both)
    <2>1. ComboPushed(both) = <<10>>
      BY <1>1, <1>2 DEF ComboPushed
    <2>2. \A n : Occurs(n, ComboPushed(both)) <=> n = 10
      BY <2>1, OccursInValues
    <2> QED
      BY <1>1, <1>2, <2>2
  <1>3. CASE ShortCombo(both)
    <2>1. ComboPushed(both) = <<9>>
      BY <1>1, <1>3 DEF ComboPushed
    <2>2. \A n : Occurs(n, ComboPushed(both)) <=> n = 9
      BY <2>1, OccursInValues
    <2> QED
      BY <1>1, <1>3, <2>2
  <1>4. CASE ~LongCombo(both) /\ ~ShortCombo(both)
    <2>1. ComboPushed(both) = <<>>
      BY <1>4 DEF ComboPushed
    <2>2. \A n : ~Occurs(n, ComboPushed(both))
      BY <2>1, OccursInValues
    <2> QED
      BY <1>4, <2>2
  <1> QED
    BY <1>2, <1>3, <1>4

(* What the observer of the key sees of a poll.                            *)
LEMMA KeyPolled ==
    ASSUME KeysInv, NEW pins \in [Phys -> BOOLEAN], NEW both \in BothReadings,
           ButtonsPoll(pins, both), IwdgReload
    PROVE  LET s == Sensed(Key, pins[Observed])
           IN /\ Key \in ButtonRecord /\ s \in ButtonRecord /\ now \in Instants
              /\ Key' = Ticked(s)
              /\ Says(Observed, 0) <=> Settled(s) /\ s.raw
              /\ Says(Observed, 1) <=> ~Settled(s) /\ HoldDue(s)
              /\ Says(Observed, 2) <=> Settled(s) /\ ~s.raw
  <1> DEFINE sensed == [k \in Phys |-> Sensed(btn[k], pins[k])]
             s == Sensed(Key, pins[Observed])
  <1>1. /\ btn \in [Phys -> ButtonRecord] /\ now \in Instants /\ Observed \in Phys
        /\ pins[Observed] \in BOOLEAN
    BY ObserverAssumption DEF KeysInv, ButtonsType, ButtonRecord, TicksType
  <1>2. Key \in ButtonRecord /\ s \in ButtonRecord /\ sensed[Observed] = s
    BY <1>1, TickedType DEF Key
  <1>3. Key' = Ticked(s)
    BY <1>1 DEF ButtonsPoll, Key
  <1>4. reported' = PollPushes(sensed, both) /\ now' = now
    BY DEF ButtonsPoll, IwdgReload
  <1> HIDE DEF sensed
  <1>5. ASSUME NEW n \in 0..2
        PROVE  Says(Observed, n) <=> Occurs(n, Pushed(Observed, s))
    <2>1. Says(Observed, n)
            <=> Occurs([type |-> Observed, value |-> n], PollPushes(sensed, both))
      BY <1>4 DEF Says, Occurs
    <2> QED
      BY <1>1, <1>2, <2>1, InPoll, ValuesOfCombo
  <1> HIDE DEF s
  <1> QED
    BY <1>1, <1>2, <1>3, <1>5, ValuesPushed DEF s

(* And of the combination.                                                 *)
LEMMA ComboPolled ==
    ASSUME NEW pins, NEW both, ButtonsPoll(pins, both), IwdgReload
    PROVE  /\ Says("S1", 10) <=> LongCombo(both)
           /\ Says("S1", 9) <=> ShortCombo(both)
  <1> DEFINE sensed == [k \in Phys |-> Sensed(btn[k], pins[k])]
  <1>1. reported' = PollPushes(sensed, both) /\ now' = now
    BY DEF ButtonsPoll, IwdgReload
  <1> HIDE DEF sensed
  <1>2. ASSUME NEW n \in {9, 10}
        PROVE  Says("S1", n) <=> Occurs(n, ComboPushed(both))
    <2>1. ~Occurs(n, Pushed("S1", sensed["S1"]))
      BY ValuesPushed
    <2>2. Says("S1", n)
            <=> Occurs([type |-> "S1", value |-> n], PollPushes(sensed, both))
      BY <1>1 DEF Says, Occurs
    <2> QED
      BY <2>1, <2>2, InPoll
  <1> QED
    BY <1>2, ValuesOfCombo

(* The fields of a button after a reading.                                 *)
LEMMA TickedFields ==
    ASSUME NEW b \in ButtonRecord, NEW pressed \in BOOLEAN, now \in Instants
    PROVE  LET s == Sensed(b, pressed)
               u == Ticked(s)
           IN /\ s.raw = pressed /\ s.stable = b.stable
              /\ s.lastChange = IF pressed # b.raw THEN now ELSE b.lastChange
              /\ s.holdDeadline = b.holdDeadline
              /\ u.raw = pressed /\ u.lastChange = s.lastChange
              /\ u.stable = IF Settled(s) THEN pressed ELSE b.stable
              /\ u.holdDeadline = IF Settled(s)
                                  THEN IF pressed THEN After(now, HoldMs) ELSE 0
                                  ELSE IF HoldDue(s) THEN After(now, HoldMs)
                                  ELSE b.holdDeadline
  <1> DEFINE s == Sensed(b, pressed)
  <1>1. /\ s.raw = pressed /\ s.stable = b.stable
        /\ s.lastChange = IF pressed # b.raw THEN now ELSE b.lastChange
        /\ s.holdDeadline = b.holdDeadline /\ s \in ButtonRecord
    BY TickedType DEF Sensed, ButtonRecord
  <1> HIDE DEF s
  <1>2. HoldDue(s) => ~Settled(s)
    BY DEF HoldDue, Settled
  <1>3. CASE Settled(s)
    <2>1. Ticked(s) = [s EXCEPT !.stable = s.raw,
                                !.holdDeadline = IF s.raw THEN After(now, HoldMs) ELSE 0]
      BY <1>2, <1>3 DEF Ticked
    <2> QED
      BY <1>1, <1>3, <2>1 DEF s, ButtonRecord
  <1>4. CASE ~Settled(s) /\ HoldDue(s)
    <2>1. Ticked(s) = [s EXCEPT !.holdDeadline = After(now, HoldMs)]
      BY <1>4 DEF Ticked
    <2> QED
      BY <1>1, <1>4, <2>1 DEF s, ButtonRecord
  <1>5. CASE ~Settled(s) /\ ~HoldDue(s)
    <2>1. Ticked(s) = s
      BY <1>5 DEF Ticked
    <2> QED
      BY <1>1, <1>5, <2>1 DEF s, ButtonRecord
  <1> QED
    BY <1>3, <1>4, <1>5

(* A poll keeps the debounce clause: what still waits has not read the     *)
(* same for the debounce time.                                             *)
LEMMA PollSettle ==
    ASSUME ObserverInv, NEW pins \in [Phys -> BOOLEAN], NEW both \in BothReadings,
           ButtonsPoll(pins, both), IwdgReload,
           steady' = IF pins[Observed] # Key.raw THEN 0 ELSE steady
    PROVE  SettleInv'
  <1> DEFINE s == Sensed(Key, pins[Observed])
  <1>1. /\ Key \in ButtonRecord /\ now \in Instants /\ Key' = Ticked(s)
        /\ pins[Observed] \in BOOLEAN /\ now' = now /\ iwdg' = 0
    BY KeyPolled, ObserverAssumption DEF ObserverInv, IwdgReload
  <1>2. /\ s.raw = pins[Observed] /\ s.stable = Key.stable
        /\ s.lastChange = IF pins[Observed] # Key.raw THEN now ELSE Key.lastChange
        /\ Key'.raw = s.raw /\ Key'.lastChange = s.lastChange
        /\ Key'.stable = IF Settled(s) THEN s.raw ELSE Key.stable
    BY <1>1, TickedFields
  <1> HIDE DEF s
  <1> SUFFICES ASSUME Key'.raw # Key'.stable
               PROVE  Elapsed(now, Key'.lastChange) = steady' /\ steady' < DebounceMs
    BY <1>1, ObserverConstants DEF SettleInv
  <1>3. ~Settled(s) /\ s.raw # s.stable
    BY <1>2
  <1>4. ~(Elapsed(now, s.lastChange) >= DebounceMs)
    BY <1>3 DEF Settled
  <1>5. CASE pins[Observed] # Key.raw
    BY <1>1, <1>2, <1>5, ElapsedType, ObserverConstants
  <1>6. CASE pins[Observed] = Key.raw
    <2>1. Key.raw # Key.stable /\ s.lastChange = Key.lastChange /\ steady' = steady
      BY <1>2, <1>3, <1>6
    <2>2. Elapsed(now, Key.lastChange) = steady /\ steady \in Nat
      BY <2>1 DEF ObserverInv, SettleInv, AgesType
    <2> QED
      BY <1>2, <1>4, <2>1, <2>2, ObserverConstants
  <1> QED
    BY <1>5, <1>6

(* It keeps the hold clause: a key that is closed and due is reported.     *)
LEMMA PollHold ==
    ASSUME ObserverInv, NEW pins \in [Phys -> BOOLEAN], NEW both \in BothReadings,
           ButtonsPoll(pins, both), IwdgReload,
           steady' = IF pins[Observed] # Key.raw THEN 0 ELSE steady,
           quiet' = IF Says(Observed, 0) \/ Says(Observed, 1) THEN 0 ELSE quiet
    PROVE  HoldInv'
  <1> DEFINE s == Sensed(Key, pins[Observed])
  <1>1. /\ Key \in ButtonRecord /\ now \in Instants /\ Key' = Ticked(s)
        /\ pins[Observed] \in BOOLEAN /\ now' = now /\ iwdg' = 0
        /\ Says(Observed, 0) <=> Settled(s) /\ s.raw
        /\ Says(Observed, 1) <=> ~Settled(s) /\ HoldDue(s)
    BY KeyPolled, ObserverAssumption DEF ObserverInv, IwdgReload
  <1>2. /\ s.raw = pins[Observed] /\ s.stable = Key.stable
        /\ s.holdDeadline = Key.holdDeadline
        /\ Key'.raw = s.raw
        /\ Key'.stable = IF Settled(s) THEN s.raw ELSE Key.stable
        /\ Key'.holdDeadline = IF Settled(s)
                                THEN IF s.raw THEN After(now, HoldMs) ELSE 0
                                ELSE IF HoldDue(s) THEN After(now, HoldMs)
                                ELSE Key.holdDeadline
    BY <1>1, TickedFields
  <1>3. Key.raw \in BOOLEAN /\ Key.stable \in BOOLEAN
    BY <1>1 DEF ButtonRecord
  <1> HIDE DEF s
  <1> SUFFICES ASSUME Key'.stable, Key'.holdDeadline # 0
               PROVE  /\ \E t \in Instants : /\ Key'.holdDeadline = After(t, HoldMs)
                                             /\ Elapsed(now, t) = quiet'
                      /\ quiet' < HoldMs + (IF Key'.raw THEN 0 ELSE IwdgTimeout + steady')
    BY <1>1 DEF HoldInv
  <1>4. CASE Settled(s) \/ HoldDue(s)
    <2>1. Key'.holdDeadline = After(now, HoldMs) /\ Key'.raw /\ quiet' = 0
      BY <1>1, <1>2, <1>4 DEF HoldDue
    <2> QED
      BY <1>1, <2>1, ElapsedType, ObserverConstants
  <1>5. CASE ~Settled(s) /\ ~HoldDue(s)
    <2>1. Key.stable /\ Key.holdDeadline = Key'.holdDeadline /\ quiet' = quiet
      BY <1>1, <1>2, <1>5
    <2>2. PICK t \in Instants : /\ Key.holdDeadline = After(t, HoldMs)
                                /\ Elapsed(now, t) = quiet
      BY <2>1 DEF ObserverInv, HoldInv
    <2>3. quiet < HoldMs + (IF Key.raw THEN iwdg ELSE IwdgTimeout + steady)
      BY <2>1 DEF ObserverInv, HoldInv
    <2>4. ~Key.raw => steady < DebounceMs + iwdg
      BY <1>3, <2>1 DEF ObserverInv, SettleInv
    <2>5. quiet \in Nat /\ steady \in Nat /\ iwdg \in 0..IwdgTimeout
      BY DEF ObserverInv, AgesType, KeysInv, ButtonsType, TicksType
    <2>6. CASE s.raw
      <3>1. 2 * quiet < 2 * HoldMs + TickMod
        <4>1. CASE Key.raw
          BY <2>3, <2>5, <4>1, ObserverConstants, ObserverAssumption
        <4>2. CASE ~Key.raw
          BY <2>3, <2>4, <2>5, <4>2, ObserverConstants, ObserverAssumption
        <4> QED
          BY <4>1, <4>2
      <3>2. ~TimeReached(now, Key.holdDeadline)
        BY <1>2, <1>5, <2>1, <2>6, ObserverConstants DEF HoldDue
      <3>3. ~(quiet >= HoldMs)
        BY <1>1, <2>2, <3>1, <3>2, HoldReached
      <3>4. quiet < HoldMs + 0 /\ Key'.raw
        BY <1>2, <2>5, <2>6, <3>3, ObserverConstants
      <3> QED
        BY <2>1, <2>2, <3>4
    <2>7. CASE ~s.raw
      <3>1. CASE Key.raw
        <4>1. steady' = 0 /\ ~Key'.raw
          BY <1>2, <2>7, <3>1
        <4>2. quiet < HoldMs + (IwdgTimeout + 0)
          BY <2>3, <2>5, <3>1, ObserverConstants
        <4> QED
          BY <2>1, <2>2, <4>1, <4>2
      <3>2. CASE ~Key.raw
        <4>1. steady' = steady /\ ~Key'.raw
          BY <1>1, <1>2, <1>3, <2>7, <3>2
        <4> QED
          BY <2>1, <2>2, <2>3, <3>2, <4>1
      <3> QED
        BY <3>1, <3>2
    <2> QED
      BY <2>6, <2>7
  <1> QED
    BY <1>4, <1>5

(* It keeps the clause of the combination.                                 *)
LEMMA PollCombo ==
    ASSUME ObserverInv, NEW pins \in [Phys -> BOOLEAN], NEW both \in BothReadings,
           ButtonsPoll(pins, both), IwdgReload,
           bothFor' = IF ~both \/ Says("S1", 10) THEN -1
                      ELSE IF bothFor = -1 THEN 0 ELSE bothFor
    PROVE  ComboInv'
  <1>1. /\ Says("S1", 10) <=> LongCombo(both)
        /\ comboStart' = IF both /\ ~LongCombo(both) THEN ComboBegan ELSE 0
        /\ now' = now /\ iwdg' = 0
    BY ComboPolled DEF ButtonsPoll, IwdgReload
  <1>2. /\ now \in Instants /\ comboStart \in Instants /\ iwdg \in 0..IwdgTimeout
        /\ bothFor \in Nat \cup {-1}
    BY DEF ObserverInv, AgesType, KeysInv, ButtonsType, TicksType
  <1>3. CASE ~both \/ LongCombo(both)
    <2>1. comboStart' = 0 /\ bothFor' = -1
      BY <1>1, <1>3
    <2> QED
      BY <2>1 DEF ComboInv
  <1>4. CASE both /\ ~LongCombo(both)
    <2>1. /\ comboStart' = (IF comboStart = 0 THEN now ELSE comboStart)
          /\ bothFor' = (IF bothFor = -1 THEN 0 ELSE bothFor)
          /\ ~(Elapsed(now, comboStart') > ComboLong)
      BY <1>1, <1>4 DEF LongCombo, ComboBegan
    <2>2. CASE comboStart = 0
      <3>1. bothFor = -1 \/ (bothFor = now /\ bothFor = iwdg)
        BY <2>2 DEF ObserverInv, ComboInv
      <3>2. CASE now = 0
        BY <1>1, <1>2, <2>1, <2>2, <3>1, <3>2 DEF ComboInv
      <3>3. CASE now # 0
        <4>1. comboStart' = now /\ Elapsed(now, now) = 0 /\ bothFor' \in 0..IwdgTimeout
          BY <1>2, <2>1, <2>2, <3>1, ElapsedType, ObserverConstants
        <4> QED
          BY <1>1, <3>3, <4>1, ObserverConstants DEF ComboInv
      <3> QED
        BY <3>2, <3>3
    <2>3. CASE comboStart # 0
      <3> DEFINE passed == Elapsed(now, comboStart)
      <3>1. bothFor \in passed..(passed + IwdgTimeout) /\ passed \in Instants
        BY <1>2, <2>3, ElapsedType DEF ObserverInv, ComboInv
      <3>2. passed \in Nat /\ bothFor # -1
        <4> HIDE DEF passed
        <4> QED
          BY <3>1 DEF Instants
      <3>3. comboStart' = comboStart /\ bothFor' = bothFor /\ passed <= ComboLong
        <4>1. comboStart' = comboStart /\ bothFor' = bothFor /\ ~(passed > ComboLong)
          BY <2>1, <2>3, <3>2
        <4> HIDE DEF passed
        <4> QED
          BY <3>2, <4>1, ObserverConstants
      <3> QED
        BY <1>1, <2>3, <3>1, <3>3, ObserverConstants DEF ComboInv
    <2> QED
      BY <2>2, <2>3
  <1> QED
    BY <1>3, <1>4

LEMMA ObserverPoll == ASSUME ObserverInv, HPoll PROVE ObserverInv'
  <1> PICK pins \in [Phys -> BOOLEAN], both \in BothReadings :
        /\ ButtonsPoll(pins, both) /\ IwdgReload
        /\ steady' = IF pins[Observed] # btn[Observed].raw THEN 0 ELSE steady
        /\ quiet' = IF Says(Observed, 0) \/ Says(Observed, 1) THEN 0 ELSE quiet
        /\ bothFor' = IF ~both \/ Says("S1", 10) THEN -1
                      ELSE IF bothFor = -1 THEN 0 ELSE bothFor
    BY DEF HPoll
  <1>1. steady' = IF pins[Observed] # Key.raw THEN 0 ELSE steady
    BY DEF Key
  <1>2. KeysInv'
    BY PollInv DEF Pass, ObserverInv
  <1>3. AgesType'
    BY DEF ObserverInv, AgesType
  <1> QED
    BY <1>1, <1>2, <1>3, PollSettle, PollHold, PollCombo DEF ObserverInv

(* A tick lengthens what the code and the observer measure alike; the      *)
(* watchdog bounds how many come before the next poll.                     *)
LEMMA ObserverTick == ASSUME ObserverInv, HTick PROVE ObserverInv'
  <1>1. /\ iwdg < IwdgTimeout /\ iwdg' = iwdg + 1 /\ now' = After(now, 1)
        /\ UNCHANGED btnVars
        /\ steady' = Aged(steady) /\ quiet' = Aged(quiet) /\ bothFor' = Aged(bothFor)
    BY DEF HTick, SysTick
  <1>2. /\ KeysInv /\ now \in Instants /\ iwdg \in Nat /\ comboStart \in Instants
        /\ steady \in Nat /\ quiet \in Nat /\ bothFor \in Nat \cup {-1}
    BY DEF ObserverInv, AgesType, KeysInv, ButtonsType, TicksType
  <1>3. Key \in ButtonRecord /\ Key' = Key /\ comboStart' = comboStart
    BY <1>1, <1>2, ObserverAssumption
       DEF Key, KeysInv, ButtonsType, ButtonRecord, btnVars
  <1>4. KeysInv'
    <2>1. [KeysNext]_<<btnVars, now, iwdg>>
      BY DEF HTick, KeysNext, Tick
    <2> QED
      BY <1>2, <2>1, KeysNextInv
  <1>5. AgesType'
    BY <1>1, <1>2, ObserverConstants DEF AgesType, Aged
  <1>6. SettleInv'
    <2> SUFFICES ASSUME Key.raw # Key.stable
                 PROVE  /\ Elapsed(now', Key.lastChange) = steady'
                        /\ steady' < DebounceMs + iwdg'
      BY <1>3 DEF SettleInv
    <2>1. Elapsed(now, Key.lastChange) = steady /\ steady < DebounceMs + iwdg
      BY DEF ObserverInv, SettleInv
    <2>2. steady < AgeMax /\ steady + 1 < TickMod
      BY <1>1, <1>2, <2>1, ObserverConstants, ObserverAssumption
    <2>3. steady' = steady + 1
      BY <1>1, <1>2, <2>2, ObserverConstants DEF Aged
    <2>4. Key.lastChange \in Instants
      BY <1>3 DEF ButtonRecord
    <2>5. Elapsed(now', Key.lastChange) = steady + 1
      BY <1>1, <1>2, <2>1, <2>2, <2>4, ElapsedTick
    <2> QED
      BY <1>1, <1>2, <2>1, <2>3, <2>5, ObserverConstants
  <1>7. HoldInv'
    <2> SUFFICES ASSUME Key.stable, Key.holdDeadline # 0
                 PROVE  /\ \E t \in Instants : /\ Key.holdDeadline = After(t, HoldMs)
                                               /\ Elapsed(now', t) = quiet'
                        /\ quiet' < HoldMs + (IF Key.raw THEN iwdg' ELSE IwdgTimeout + steady')
      BY <1>3 DEF HoldInv
    <2>1. PICK t \in Instants : Key.holdDeadline = After(t, HoldMs) /\ Elapsed(now, t) = quiet
      BY DEF ObserverInv, HoldInv
    <2>2. quiet < HoldMs + (IF Key.raw THEN iwdg ELSE IwdgTimeout + steady)
      BY DEF ObserverInv, HoldInv
    <2>3. Key.raw \in BOOLEAN
      BY <1>3 DEF ButtonRecord
    <2>4. ~Key.raw => steady < DebounceMs + iwdg
      BY <2>3 DEF ObserverInv, SettleInv
    <2>5. quiet < AgeMax /\ quiet + 1 < TickMod
      <3>1. CASE Key.raw
        BY <1>1, <1>2, <2>2, <3>1, ObserverConstants, ObserverAssumption
      <3>2. CASE ~Key.raw
        BY <1>1, <1>2, <2>2, <2>4, <3>2, ObserverConstants, ObserverAssumption
      <3> QED
        BY <3>1, <3>2
    <2>6. quiet' = quiet + 1
      BY <1>1, <1>2, <2>5, ObserverConstants DEF Aged
    <2>7. Elapsed(now', t) = quiet'
      BY <1>1, <1>2, <2>1, <2>5, <2>6, ElapsedTick
    <2>8. quiet' < HoldMs + (IF Key.raw THEN iwdg' ELSE IwdgTimeout + steady')
      <3>1. CASE Key.raw
        BY <1>1, <1>2, <2>2, <2>6, <3>1, ObserverConstants
      <3>2. CASE ~Key.raw
        <4>1. steady < AgeMax
          BY <1>1, <1>2, <2>4, <3>2, ObserverConstants, ObserverAssumption
        <4>2. steady' = steady + 1
          BY <1>1, <1>2, <4>1, ObserverConstants DEF Aged
        <4> QED
          BY <1>2, <2>2, <2>6, <3>2, <4>2, ObserverConstants
      <3> QED
        BY <3>1, <3>2
    <2> QED
      BY <2>1, <2>7, <2>8
  <1>8. ComboInv'
    <2>1. CASE comboStart = 0
      <3>1. CASE bothFor = -1
        BY <1>1, <1>3, <2>1, <3>1 DEF ComboInv, Aged
      <3>2. CASE bothFor = now /\ bothFor = iwdg
        <4>1. now' = now + 1
          BY <1>1, <1>2, <3>2, ObserverConstants, ObserverAssumption DEF After, Instants
        <4>2. bothFor' = bothFor + 1
          BY <1>1, <1>2, <3>2, ObserverConstants, ObserverAssumption DEF Aged
        <4> QED
          BY <1>1, <1>3, <2>1, <3>2, <4>1, <4>2 DEF ComboInv
      <3> QED
        BY <2>1, <3>1, <3>2 DEF ObserverInv, ComboInv
    <2>2. CASE comboStart # 0
      <3> DEFINE passed == Elapsed(now, comboStart)
      <3>1. /\ bothFor \in passed..(passed + IwdgTimeout) /\ passed <= ComboLong + iwdg
            /\ passed \in Instants
        BY <1>2, <2>2, ElapsedType DEF ObserverInv, ComboInv
      <3>2. Elapsed(now', comboStart) = passed + 1
        <4>1. passed + 1 < TickMod
          <5> HIDE DEF passed
          <5> QED
            BY <1>1, <1>2, <3>1, ObserverConstants, ObserverAssumption DEF Instants
        <4> QED
          BY <1>1, <1>2, <4>1, ElapsedTick
      <3> HIDE DEF passed
      <3>3. bothFor' = bothFor + 1
        BY <1>1, <1>2, <3>1, ObserverConstants, ObserverAssumption DEF Aged, Instants
      <3>4. /\ bothFor' \in (passed + 1)..(passed + 1 + IwdgTimeout)
            /\ passed + 1 <= ComboLong + iwdg'
        BY <1>1, <1>2, <3>1, <3>3, ObserverConstants DEF Instants
      <3> QED
        BY <1>3, <2>2, <3>2, <3>4 DEF ComboInv
    <2> QED
      BY <2>1, <2>2
  <1> QED
    BY <1>4, <1>5, <1>6, <1>7, <1>8 DEF ObserverInv

LEMMA ObserverInit == HInit => ObserverInv
  <1> SUFFICES ASSUME HInit PROVE ObserverInv
    OBVIOUS
  <1>1. KeysInv
    BY KeysInitInv DEF HInit
  <1>2. Key = [raw |-> FALSE, stable |-> FALSE, lastChange |-> 0, holdDeadline |-> 0]
    BY ObserverAssumption DEF HInit, KeysInit, ButtonInit, Key
  <1>3. steady = AgeMax /\ quiet = AgeMax /\ bothFor = -1 /\ comboStart = 0
    BY DEF HInit, KeysInit, ButtonInit
  <1> QED
    BY <1>1, <1>2, <1>3, ObserverConstants
       DEF ObserverInv, AgesType, SettleInv, HoldInv, ComboInv

LEMMA ObserverNext == ObserverInv /\ [HNext]_hvars => ObserverInv'
  <1> SUFFICES ASSUME ObserverInv, [HNext]_hvars PROVE ObserverInv'
    OBVIOUS
  <1>1. CASE UNCHANGED hvars
    <2>1. Key' = Key
      BY <1>1 DEF hvars, btnVars, Key
    <2>2. UNCHANGED <<btn, lastRelease, comboStart, now, iwdg, steady, quiet, bothFor>>
      BY <1>1 DEF hvars, btnVars
    <2>3. KeysInv'
      BY <2>2 DEF ObserverInv, KeysInv, ButtonsType, TicksType, ComboNeedsKeys
    <2> QED
      BY <2>1, <2>2, <2>3 DEF ObserverInv, AgesType, SettleInv, HoldInv, ComboInv
  <1> QED
    BY <1>1, ObserverPoll, ObserverTick DEF HNext

(* The times of the keys: what the code measures with its wrapping counter *)
(* is what an observer of the pins measures, as far as it matters.         *)
THEOREM ObserverInvariance == HSpec => []ObserverInv
  BY ObserverInit, ObserverNext, PTL DEF HSpec

(* A level that reads the same for the debounce time and a pass is         *)
(* reported, for all durations and every period of the counter.            *)
THEOREM LevelsSettle == HSpec => []SettlesInTime
  <1>1. ObserverInv => SettlesInTime
    <2> SUFFICES ASSUME ObserverInv, Key.raw # Key.stable
                 PROVE  steady <= DebounceMs + IwdgTimeout
      BY DEF SettlesInTime, Key
    <2>1. steady < DebounceMs + iwdg /\ iwdg \in 0..IwdgTimeout /\ steady \in Nat
      BY DEF ObserverInv, SettleInv, AgesType, KeysInv, ButtonsType, TicksType
    <2> QED
      BY <2>1, ObserverConstants
  <1> QED
    BY <1>1, ObserverInvariance, PTL

(* A held key reports a hold within its period and a pass.                 *)
THEOREM HoldsRepeat == HSpec => []HoldInTime
  <1>1. ObserverInv => HoldInTime
    <2> SUFFICES ASSUME ObserverInv, Key.raw, Key.stable, Key.holdDeadline # 0
                 PROVE  quiet <= HoldMs + IwdgTimeout
      BY DEF HoldInTime, Key
    <2>1. quiet < HoldMs + iwdg /\ iwdg \in 0..IwdgTimeout /\ quiet \in Nat
      BY DEF ObserverInv, HoldInv, AgesType, KeysInv, ButtonsType, TicksType
    <2> QED
      BY <2>1, ObserverConstants
  <1> QED
    BY <1>1, ObserverInvariance, PTL

(* A tick reports nothing: it moves the clock.                             *)
LEMMA TickSaysNothing ==
    ASSUME ObserverInv, HTick
    PROVE  \A k, n : ~Says(k, n)
  <1>1. now \in Instants /\ now' = After(now, 1)
    BY DEF ObserverInv, KeysInv, ButtonsType, TicksType, HTick, SysTick
  <1>2. now' # now
    BY <1>1, TickAssumption DEF After, Instants
  <1> QED
    BY <1>2 DEF Says

(* No level is reported that has not read the same for the debounce time.  *)
THEOREM BouncesIgnored == HSpec => NoBounceReported
  <1> DEFINE Sound == Says(Observed, 0) \/ Says(Observed, 2)
                        => steady >= DebounceMs /\ btn'[Observed].raw = btn[Observed].raw
  <1>1. ObserverInv /\ [HNext]_hvars => [Sound]_hvars
    <2> SUFFICES ASSUME ObserverInv, HNext, Says(Observed, 0) \/ Says(Observed, 2)
                 PROVE  steady >= DebounceMs /\ btn'[Observed].raw = btn[Observed].raw
      OBVIOUS
    <2>1. HPoll
      BY TickSaysNothing DEF HNext
    <2> PICK pins \in [Phys -> BOOLEAN], both \in BothReadings :
          ButtonsPoll(pins, both) /\ IwdgReload
      BY <2>1 DEF HPoll
    <2> DEFINE s == Sensed(Key, pins[Observed])
    <2>2. /\ Key \in ButtonRecord /\ now \in Instants /\ Key' = Ticked(s)
          /\ pins[Observed] \in BOOLEAN /\ Settled(s)
      BY KeyPolled, ObserverAssumption DEF ObserverInv
    <2>3. /\ s.raw = pins[Observed] /\ s.stable = Key.stable /\ Key'.raw = s.raw
          /\ s.lastChange = IF pins[Observed] # Key.raw THEN now ELSE Key.lastChange
      BY <2>2, TickedFields
    <2> HIDE DEF s
    <2>4. s.raw # s.stable /\ Elapsed(now, s.lastChange) >= DebounceMs
      BY <2>2 DEF Settled
    <2>5. pins[Observed] = Key.raw
      BY <2>2, <2>3, <2>4, ElapsedType, ObserverConstants
    <2>6. Elapsed(now, Key.lastChange) = steady
      BY <2>3, <2>4, <2>5 DEF ObserverInv, SettleInv
    <2> QED
      BY <2>3, <2>4, <2>5, <2>6 DEF Key
  <1> QED
    BY <1>1, ObserverInvariance, PTL DEF HSpec, NoBounceReported

(* A long combination was held for longer than the threshold, a short one  *)
(* for less, up to a pass.                                                 *)
THEOREM CombosMeasured == HSpec => ComboLengths
  <1> DEFINE Sound ==
        /\ Says("S1", 10) => bothFor > ComboLong
        /\ Says("S1", 9) => bothFor # -1 /\ bothFor < ComboLong + IwdgTimeout
  <1>1. ObserverInv /\ [HNext]_hvars => [Sound]_hvars
    <2> SUFFICES ASSUME ObserverInv, HNext, Says("S1", 10) \/ Says("S1", 9)
                 PROVE  Sound
      OBVIOUS
    <2>1. HPoll
      BY TickSaysNothing DEF HNext
    <2> PICK pins \in [Phys -> BOOLEAN], both \in BothReadings :
          ButtonsPoll(pins, both) /\ IwdgReload
      BY <2>1 DEF HPoll
    <2>2. Says("S1", 10) <=> LongCombo(both)
      BY ComboPolled
    <2>3. Says("S1", 9) <=> ShortCombo(both)
      BY ComboPolled
    <2>4. now \in Instants /\ comboStart \in Instants
      BY DEF ObserverInv, KeysInv, ButtonsType, TicksType
    <2>5. comboStart # 0
      <3>1. ASSUME LongCombo(both), comboStart = 0 PROVE FALSE
        BY <2>4, <3>1, ElapsedType, ObserverConstants DEF LongCombo, ComboBegan
      <3> QED
        BY <2>2, <2>3, <3>1 DEF ShortCombo
    <2> DEFINE passed == Elapsed(now, comboStart)
    <2>6. bothFor \in passed..(passed + IwdgTimeout) /\ passed \in Instants
      BY <2>4, <2>5, ElapsedType DEF ObserverInv, ComboInv
    <2>7. LongCombo(both) => passed > ComboLong
      BY <2>5 DEF LongCombo, ComboBegan
    <2>8. ShortCombo(both) => passed < ComboLong
      BY DEF ShortCombo
    <2> HIDE DEF passed
    <2> QED
      BY <2>2, <2>3, <2>6, <2>7, <2>8, ObserverConstants DEF Instants
  <1> QED
    BY <1>1, ObserverInvariance, PTL DEF HSpec, ComboLengths
=============================================================================
