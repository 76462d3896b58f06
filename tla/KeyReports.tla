------------------------------ MODULE KeyReports ------------------------------
(***************************************************************************)
(* What one poll of the keys may push, without debouncing and without a     *)
(* clock: per key a press when it was up, and repeated holds or a release   *)
(* when it was down, in the order of the keys; then a combination of S1 and *)
(* S2.  ButtonsManager implements it and the superloop is composed with it. *)
(***************************************************************************)
EXTENDS Sequences

CONSTANT Phys       \* the keys a user presses with a finger, among S1..S4

VARIABLES
    down,           \* the keys last reported as pressed
    reported        \* the events of the last poll

kvars == <<down, reported>>

(* The values reported for key k: press, hold, release, double click.      *)
Values(k) == IF k \in down THEN {<<>>, <<1>>, <<2>>, <<2, 3>>} ELSE {<<>>, <<0>>}

(* Short and long combination, both reported as S1.                        *)
Combinations == IF {"S1", "S2"} \subseteq Phys THEN {<<>>, <<9>>, <<10>>} ELSE {<<>>}

(* The events that report values for key k.                                *)
AsEvents(k, values) == [i \in DOMAIN values |-> [type |-> k, value |-> values[i]]]

(* A poll: the values per key and of the combination, as the events pushed *)
(* and the keys that are down afterwards.                                  *)
PollEvents(values, combo) ==
    LET of(k) == IF k \in Phys THEN AsEvents(k, values[k]) ELSE <<>>
    IN of("S1") \o of("S2") \o of("S3") \o of("S4") \o AsEvents("S1", combo)

DownAfter(values) ==
    {k \in Phys : values[k] = <<0>> \/ (k \in down /\ values[k] \in {<<>>, <<1>>})}

(* What a poll may report of all the keys.                                 *)
Choices == {v \in [Phys -> {<<>>, <<0>>, <<1>>, <<2>>, <<2, 3>>}] :
                \A k \in Phys : v[k] \in Values(k)}

KInit == down = {} /\ reported = <<>>
KPoll ==
    \E values \in Choices, combo \in Combinations :
        /\ down' = DownAfter(values)
        /\ reported' = PollEvents(values, combo)
KSpec == KInit /\ [][KPoll]_kvars
=============================================================================
