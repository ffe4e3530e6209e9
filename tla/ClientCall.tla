------------------------------ MODULE ClientCall ------------------------------
(***************************************************************************)
(* What the manager of circuit-switched calls promises the SIP client of   *)
(* each call, with no workflow, event or modem: an INVITE of the client    *)
(* gets at most one final response, and none once the call has ended; BYE  *)
(* comes at most once, with the end of a call that got 200; and audio runs *)
(* only in a call that has not ended, that got 200 if the client made it,  *)
(* and is never started again.                                             *)
(* CsCall implements this specification.                                   *)
(***************************************************************************)
EXTENDS Naturals

CONSTANT CallIds

VARIABLE calls      \* what the client of each call has seen

NotMade == [stage |-> "none", outbound |-> FALSE, final |-> 0, audio |-> "none", bye |-> FALSE]
Made(outbound, audio) ==
    [stage |-> "up", outbound |-> outbound, final |-> 0, audio |-> audio, bye |-> FALSE]

Init == calls = [c \in CallIds |-> NotMade]

Up(c) == calls[c].stage = "up"
Become(c, r) == calls' = [calls EXCEPT ![c] = r]

\* The client calls.
Place(c) == calls[c] = NotMade /\ Become(c, Made(TRUE, "none"))

\* The client is called; the bridge is there before the INVITE.
Ring(c) == calls[c] = NotMade /\ Become(c, Made(FALSE, "open"))

Respond(c) ==
    /\ Up(c) /\ calls[c].outbound /\ calls[c].final = 0
    /\ \E status \in {200, 408, 500, 503} : Become(c, [calls[c] EXCEPT !.final = status])

OpenBridge(c) ==
    /\ Up(c) /\ calls[c].audio = "none"
    /\ Become(c, [calls[c] EXCEPT !.audio = "open"])

Talk(c) ==
    /\ Up(c) /\ calls[c].audio = "open"
    /\ calls[c].outbound => calls[c].final = 200
    /\ Become(c, [calls[c] EXCEPT !.audio = "running"])

Silence(c) ==
    /\ calls[c].stage # "none"
    /\ Become(c, [calls[c] EXCEPT !.audio = "stopped"])

\* A call whose INVITE is still open may be refused as it ends, one that got 200 may get BYE.
Finish(c) ==
    /\ Up(c)
    /\ \E status \in {calls[c].final, 503}, bye \in BOOLEAN :
          /\ status # calls[c].final => calls[c].outbound /\ calls[c].final = 0
          /\ bye => calls[c].outbound /\ status = 200
          /\ Become(c, [stage |-> "ended", outbound |-> calls[c].outbound, final |-> status,
                        audio |-> IF calls[c].audio = "none" THEN "none" ELSE "stopped",
                        bye |-> bye])

\* A step changes what some client has seen.
Next ==
    /\ calls' # calls
    /\ \E c \in CallIds : \/ Place(c) \/ Ring(c) \/ Respond(c) \/ OpenBridge(c) \/ Talk(c)
                          \/ Silence(c) \/ Finish(c)

Spec == Init /\ [][Next]_calls
=============================================================================
