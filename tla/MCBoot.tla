-------------------------------- MODULE MCBoot --------------------------------
(***************************************************************************)
(* Boot for TLC, with a history variable that counts received bytes.        *)
(***************************************************************************)
EXTENDS Boot

MCInfoTexts == <<2, 1>>

VARIABLE owed       \* bytes that arrived since the boot and that the program
                    \* has not read, modulo CountMod

MCInit == BInit /\ owed = 0
MCMain ==
    /\ Main
    /\ owed' = IF at = "drain" /\ at' = "drain" THEN (owed - 1) % CountMod ELSE owed
MCHandler == Handler /\ UNCHANGED owed
MCSends == Sends /\ UNCHANGED owed
MCReceives == Receives /\ owed' = (owed + 1) % CountMod
MCReset == WatchdogReset /\ owed' = 0
MCNext == MCMain \/ MCHandler \/ MCSends \/ MCReceives \/ MCReset

mcVars == <<bootVars, owed>>
MCSpec ==
    /\ MCInit /\ [][MCNext]_mcVars
    /\ WF_mcVars(MCHandler) /\ WF_mcVars(MCSends) /\ WF_mcVars(MCReset)
    /\ SF_mcVars(MCMain)

(* Every byte that arrived is in the RDR, in the ring, read by the program *)
(* or counted as lost, exactly once, until the first overrun of the RDR:   *)
(* that one loses a byte before the driver sees it.                        *)
BytesAccounted ==
    ~ore => owed = (rx + overruns + IF rxne THEN 1 ELSE 0) % CountMod
=============================================================================
