------------------------------ MODULE CardAccess ------------------------------
(***************************************************************************)
(* What the APDU arbiter promises its users, with no queue, goroutine,     *)
(* timer or priority: who may be on the card at the same time.  Leases     *)
(* exclude one another except sessions among themselves and QMI channel    *)
(* transports on different channels, up to their limits; a barrier rises   *)
(* over an empty card and keeps its blocked classes off until it falls.    *)
(* Arbiter implements this specification.                                  *)
(***************************************************************************)
EXTENDS Naturals, FiniteSets

CONSTANTS Calls, Tickets, MaxSessions, MaxQMITransports

VARIABLES
    req,        \* what each call asks for
    active,     \* the calls that hold a lease
    barriers    \* the calls that hold a barrier

cardVars == <<req, active, barriers>>

MayShare(t, u) ==
    \/ t.type = "session" /\ u.type = "session"
    \/ /\ t.type = "transport" /\ u.type = "transport"
       /\ t.scope = "qmi_channel" /\ u.scope = "qmi_channel"
       /\ t.channel # u.channel

SessionHolders == {c \in active : req[c].type = "session"}
ChannelHolders == {c \in active : req[c].type = "transport" /\ req[c].scope = "qmi_channel"}

Init ==
    /\ req \in [Calls -> Tickets]
    /\ active = {}
    /\ barriers = {}

\* A call off the card says what it wants.
Ask(c) ==
    /\ c \notin active \cup barriers
    /\ req' \in [Calls -> Tickets]
    /\ \A d \in Calls \ {c} : req'[d] = req[d]
    /\ UNCHANGED <<active, barriers>>

Admit(c) ==
    /\ c \notin active \cup barriers
    /\ req[c].type # "barrier"
    /\ \A d \in active : MayShare(req[c], req[d])
    /\ \A b \in barriers : req[c].class \notin req[b].blocked
    /\ req[c].type = "session" => Cardinality(SessionHolders) < MaxSessions
    /\ req[c].type = "transport" /\ req[c].scope = "qmi_channel"
       => Cardinality(ChannelHolders) < MaxQMITransports
    /\ active' = active \cup {c}
    /\ UNCHANGED <<req, barriers>>

Raise(c) ==
    /\ c \notin active \cup barriers
    /\ req[c].type = "barrier"
    /\ active = {}
    /\ barriers' = barriers \cup {c}
    /\ UNCHANGED <<req, active>>

Leave(c) ==
    /\ c \in active \cup barriers
    /\ active' = active \ {c}
    /\ barriers' = barriers \ {c}
    /\ UNCHANGED req

Next == \E c \in Calls : Ask(c) \/ Admit(c) \/ Raise(c) \/ Leave(c)

Spec == Init /\ [][Next]_cardVars
=============================================================================
