------------------------------ MODULE MCArbiter ------------------------------
(* Instances of Arbiter for TLC.                                            *)
EXTENDS Arbiter, TLC

Req(type, mode, class, channel, scope, blocked) ==
    [type |-> type, mode |-> mode, class |-> class, channel |-> channel,
     scope |-> scope, blocked |-> blocked]

\* OpenEUICCLogicalChannel, TransmitEUICCAPDU on a channel, USIM AKA on the basic
\* and on a logical channel, the SMSC query, the AT manager's APDU (whose scope the
\* normalisation takes away), the eSIM switch's barrier, one with default classes,
\* and the two legacy leases.
OpenChannel == Req("transport", "QMI", "EUICCWrite", 0, "exclusive", {})
Channel(n)  == Req("transport", "QMI", "EUICCWrite", n, "qmi_channel", {})
AKA         == Req("transport", "QMI", "USIMAKA", 0, "exclusive", {})
AKAChannel(n) == Req("transport", "QMI", "USIMAKA", n, "qmi_channel", {})
SMSC        == Req("transport", "QMI", "SMSC", 0, "exclusive", {})
ATChannel   == Req("transport", "AT", "", 2, "qmi_channel", {})
Switch      == Req("barrier", "QMI", "SwitchBarrier", 0, "", {"USIMAKA", "SMSC"})
PlainBarrier == Req("barrier", "QMI", "", 0, "", {})
Session     == Req("session", "AT", "", 0, "", {})
OneShot     == Req("oneshot", "AT", "", 0, "", {})

\* Every kind of lease and every class of wait at once; the least mix in which a
\* barrier, a blocked lease and an idle wait meet; and that of the aging test.
AllRequests == {OpenChannel, Channel(1), AKA, AKAChannel(2), ATChannel, Switch,
                PlainBarrier, Session, OneShot}
LiveRequests == {AKA, Switch}
StarvationRequests == {OpenChannel, AKA}

Symmetry == Permutations(Calls)
=============================================================================
