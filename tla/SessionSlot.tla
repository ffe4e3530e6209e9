----------------------------- MODULE SessionSlot -----------------------------
(***************************************************************************)
(* What the VoWiFi host promises to whoever reads the slot of a device,    *)
(* with no epoch, generation, mutex or switch flag: a session comes up at  *)
(* most once; only one that is up is shown, and only in an empty slot; and *)
(* it is taken out only when it is over, never to be shown again.          *)
(* VoWiFiHost implements this specification.                               *)
(***************************************************************************)
EXTENDS Naturals

CONSTANTS Sessions, None

VARIABLES
    session,    \* how far each session is: "none", "up" or "over"
    shown       \* the session in the slot, or None

slotVars == <<session, shown>>

Init ==
    /\ session = [s \in Sessions |-> "none"]
    /\ shown = None

Become(s, from, to) ==
    /\ session[s] = from
    /\ session' = [session EXCEPT ![s] = to]
    /\ UNCHANGED shown

ComeUp(s) == Become(s, "none", "up")

\* A command that ends without a session will not have one.
Forgo(s) == Become(s, "none", "over")

End(s) == Become(s, "up", "over")

Show(s) ==
    /\ session[s] = "up"
    /\ shown = None
    /\ shown' = s
    /\ UNCHANGED session

TakeOut(s) ==
    /\ shown = s
    /\ session[s] = "over"
    /\ shown' = None
    /\ UNCHANGED session

Next == \E s \in Sessions : ComeUp(s) \/ Forgo(s) \/ End(s) \/ Show(s) \/ TakeOut(s)

Spec == Init /\ [][Next]_slotVars
=============================================================================
