---------------------------- MODULE MCEsimSwitch ----------------------------
(* Instances of EsimSwitch for TLC.                                         *)
EXTENDS EsimSwitch, FiniteSets, TLC

Device(b, r, v, e, f) ==
    [backend |-> b, radioCycle |-> r, vowifi |-> v, eventGated |-> e, flight |-> f]

\* A QMI device with all that a switch can do, and an AT device in flight mode.
Devices == {Device("qmi", TRUE, TRUE, TRUE, FALSE), Device("at", FALSE, FALSE, FALSE, TRUE)}
RadioCycled == {Device("qmi", TRUE, FALSE, FALSE, FALSE)}
\* The least device on which a switch waits for the gate.
VoWiFiOnly == {Device("qmi", FALSE, TRUE, FALSE, FALSE)}

\* At most two activities at a time: switches, retries that are past their timer, and
\* RefreshIdentityLive.
Busy ==
    Cardinality({s \in Switches : pc[s] \notin {"idle", "done"}})
    + Cardinality({p \in Switches \X {"retry"} : idpc[p] \in {"ensure", "read", "write", "degrade"}})
    + (IF live.write THEN 1 ELSE 0)
TwoAtATime == Busy <= 2

\* Profiles are disabled on the AT device only, to keep the number of states down.
DisableOnAT == config.backend = "at" \/ \A s \in Switches : snap[s].op # "disable"

Symmetry == Permutations(Profiles) \cup Permutations(Callers)
=============================================================================
