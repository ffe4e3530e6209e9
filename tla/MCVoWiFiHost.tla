---------------------------- MODULE MCVoWiFiHost ----------------------------
(* Instances of VoWiFiHost for TLC.                                         *)
EXTENDS VoWiFiHost, TLC

\* Every kind; and the fewest in which a restart overtakes a disable.
RunKinds == AllKinds \ {"restore"}
DisableKinds == {"disable", "restart"}

\* Three commands, but one other at most beside a restart, whose steps nothing serialises.
RestartMeetsOneOther ==
    (\E c \in Commands : kind[c] = "restart")
    => Cardinality({c \in Commands : pc[c] # "idle"}) <= 2

Symmetry == Permutations(Commands)
=============================================================================
