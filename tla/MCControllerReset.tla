-------------------------- MODULE MCControllerReset --------------------------
(***************************************************************************)
(* Controller with a history variable for a property about the intervals    *)
(* the regulator is charged with.                                           *)
(***************************************************************************)
EXTENDS MCController

VARIABLE sinceReset     \* ticks since the regulator was last reset, capped

(* The steps that call PIDInt::reset.                                      *)
ResetStep ==
    \/ AdjustStep
    \/ state' = "Error"
    \/ state = "Error" /\ \E e \in Events : Sample(e)

Count ==
    sinceReset' = IF ResetStep THEN 0
                  ELSE IF now' # now /\ sinceReset < TickMod - 1
                       THEN sinceReset + 1 ELSE sinceReset

MCInit == Init /\ sinceReset = 0
MCNext ==
    \/ Tick /\ Count
    \/ Pass /\ Count
    \/ \E e \in Events : Dispatch(e) /\ Count
MCSpec ==
    /\ MCInit /\ [][MCNext]_<<vars, sinceReset>>
    /\ WF_vars(Tick /\ Count) /\ WF_vars(Pass /\ Count)

(* The regulator never integrates over time that lies before its last      *)
(* reset: outside Error, the interval the next sample would be charged     *)
(* with began at or after that reset, whichever of an overheating, a key,  *)
(* a display time-out and the wildcard state came in between.              *)
IntervalAfterReset == state # "Error" => Elapsed(now, lastPid) <= sinceReset
=============================================================================
