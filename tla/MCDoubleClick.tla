---------------------------- MODULE MCDoubleClick ----------------------------
(***************************************************************************)
(* The keys with a history variable for what config.h says of a double      *)
(* click.                                                                   *)
(***************************************************************************)
EXTENDS ButtonsManager

CONSTANT AgeMax         \* bound: ages are capped here, above DoubleClickGap

VARIABLE sinceRelease   \* per key: ticks since its last release report

dvars == <<btnVars, now, iwdg, sinceRelease>>

Says(k, v) ==
    now' = now /\ \E i \in DOMAIN reported' : reported'[i] = [type |-> k, value |-> v]

DInit == KeysInit /\ sinceRelease = [k \in Phys |-> AgeMax]
DPass ==
    /\ Pass
    /\ sinceRelease' = [k \in Phys |-> IF Says(k, 2) THEN 0 ELSE sinceRelease[k]]
DTick ==
    /\ Tick
    /\ sinceRelease' = [k \in Phys |-> IF sinceRelease[k] < AgeMax
                                       THEN sinceRelease[k] + 1 ELSE AgeMax]
DNext == DPass \/ DTick
DSpec == DInit /\ [][DNext]_dvars

(* BUTTONS_DOUBLE_CLICK_GAP_MS is documented as the interval for a double  *)
(* click: two releases within it are reported as one.                      *)
DoubleClickReported ==
    [][\A k \in Phys : Says(k, 2) /\ sinceRelease[k] <= DoubleClickGap
         => Says(k, 3)]_dvars
=============================================================================
