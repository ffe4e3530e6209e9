---------------------------- MODULE SimAuthGate ----------------------------
(***************************************************************************)
(* The readiness of SIM authentication, internal/apduarbiter               *)
(* simauth_ready.go: callers of WaitSIMAuthReady share one probe of the    *)
(* card; InvalidateSIMAuthReady says that the card is about to be changed, *)
(* and a probe that began before it must not count.  The gate knows        *)
(* invalidations and not cards: what lies between an invalidation and the  *)
(* change of the card is EsimSwitch's.                                     *)
(*                                                                         *)
(* One action per critical section of the arbiter's mutex.  The probe      *)
(* itself runs outside it and takes the time between Check and Probed.     *)
(* A probe's channel bears the name of the caller that made it.            *)
(***************************************************************************)
EXTENDS Naturals

CONSTANTS Callers, None

ASSUME GateNone == None \notin Callers

VARIABLES
    gate,   \* simAuthReadyState: generation, ready, probing, waitC
    at,     \* where each call of WaitSIMAuthReady stands
    seen,   \* the generation a caller's probe began in
    on,     \* the channel a caller waits on, or None
    proven  \* history: the generation the probe behind gate.ready began in

gateVars == <<gate, at, seen, on, proven>>

GatePlaces == {"out", "check", "wait", "probe", "ready", "failed"}

GateInit ==
    /\ gate = [generation |-> 0, ready |-> FALSE, probing |-> FALSE, waitC |-> None]
    /\ at = [c \in Callers |-> "out"]
    /\ seen = [c \in Callers |-> 0]
    /\ on = [c \in Callers |-> None]
    /\ proven = 0

\* A probe under way is left alone: it finds out by the generation.
InvalidateSIMAuthReady ==
    /\ gate' = [gate EXCEPT !.generation = @ + 1, !.ready = FALSE]
    /\ UNCHANGED <<at, seen, on, proven>>

EnterGate(c) ==
    /\ at[c] = "out"
    /\ at' = [at EXCEPT ![c] = "check"]
    /\ UNCHANGED <<gate, seen, on, proven>>

\* The top of the loop: ready, or somebody probes, or this caller does.
CheckGate(c) ==
    /\ at[c] = "check"
    /\ \/ /\ gate.ready
          /\ at' = [at EXCEPT ![c] = "ready"]
          /\ UNCHANGED <<gate, seen, on>>
       \/ /\ ~gate.ready /\ gate.probing
          /\ LET ch == IF gate.waitC = None THEN c ELSE gate.waitC
             IN  /\ gate' = [gate EXCEPT !.waitC = ch]
                 /\ on' = [on EXCEPT ![c] = ch]
          /\ at' = [at EXCEPT ![c] = "wait"]
          /\ UNCHANGED seen
       \/ /\ ~gate.ready /\ ~gate.probing
          /\ gate' = [gate EXCEPT !.probing = TRUE, !.waitC = c]
          /\ seen' = [seen EXCEPT ![c] = gate.generation]
          /\ at' = [at EXCEPT ![c] = "probe"]
          /\ UNCHANGED on
    /\ UNCHANGED proven

\* Where the prober goes, and who else wakes.  A failed probe is an error whatever
\* the generation, a good one of an older generation is repeated.
AfterProbe(c, ok, closes) ==
    [d \in Callers |->
        IF d = c THEN IF ~ok THEN "failed"
                      ELSE IF seen[c] # gate.generation THEN "check" ELSE "ready"
        ELSE IF closes /\ at[d] = "wait" /\ on[d] = c THEN "check" ELSE at[d]]

\* Mutant of Probed: the generation is not compared.
ProbedAnyGeneration(c, ok) ==
    /\ at[c] = "probe"
    /\ gate' = [gate EXCEPT !.ready = ok, !.probing = FALSE,
                            !.waitC = IF @ = c THEN None ELSE @]
    /\ proven' = IF ok THEN seen[c] ELSE proven
    /\ at' = AfterProbe(c, ok, gate.waitC = c)
    /\ on' = [d \in Callers |-> IF gate.waitC = c /\ on[d] = c THEN None ELSE on[d]]
    /\ UNCHANGED seen

\* Mutant of Probed: the channel is dropped and not closed.
ProbedSilently(c, ok) ==
    /\ at[c] = "probe"
    /\ gate' = [gate EXCEPT !.ready = IF seen[c] = gate.generation THEN ok ELSE @,
                            !.probing = FALSE, !.waitC = None]
    /\ proven' = IF ok /\ seen[c] = gate.generation THEN seen[c] ELSE proven
    /\ at' = AfterProbe(c, ok, FALSE)
    /\ UNCHANGED <<seen, on>>

\* The probe has answered: its result counts if the generation has not moved, and
\* those who wait look again.
Probed(c, ok) ==
    /\ at[c] = "probe"
    /\ gate' = [gate EXCEPT !.ready = IF seen[c] = gate.generation THEN ok ELSE @,
                            !.probing = FALSE, !.waitC = IF @ = c THEN None ELSE @]
    /\ proven' = IF ok /\ seen[c] = gate.generation THEN seen[c] ELSE proven
    /\ at' = AfterProbe(c, ok, gate.waitC = c)
    /\ on' = [d \in Callers |-> IF gate.waitC = c /\ on[d] = c THEN None ELSE on[d]]
    /\ UNCHANGED seen

\* The caller's context ends, at the top of the loop or in the select.
GateTimeout(c) ==
    /\ at[c] \in {"check", "wait"}
    /\ at' = [at EXCEPT ![c] = "failed"]
    /\ on' = [on EXCEPT ![c] = None]
    /\ UNCHANGED <<gate, seen, proven>>

GateStep(c) ==
    \/ EnterGate(c) \/ CheckGate(c) \/ GateTimeout(c)
    \/ \E ok \in BOOLEAN : Probed(c, ok)

\* A caller has its answer and may call again.
LeaveGate(c) ==
    /\ at[c] \in {"ready", "failed"}
    /\ at' = [at EXCEPT ![c] = "out"]
    /\ UNCHANGED <<gate, seen, on, proven>>

GateNext == InvalidateSIMAuthReady \/ \E c \in Callers : GateStep(c) \/ LeaveGate(c)

GateSpec == GateInit /\ [][GateNext]_gateVars

-----------------------------------------------------------------------------
(* Properties.                                                             *)

GateTypeOK ==
    /\ gate \in [generation : Nat, ready : BOOLEAN, probing : BOOLEAN, waitC : Callers \cup {None}]
    /\ at \in [Callers -> GatePlaces]
    /\ seen \in [Callers -> Nat]
    /\ on \in [Callers -> Callers \cup {None}]
    /\ proven \in Nat

\* "Ready" is the answer of a probe that began after the last invalidation, whoever
\* probed and however late the probe answered (WaitSIMAuthReady's stale branch).  It
\* says nothing of the card: a switch invalidates before it changes the card, see
\* GateClosedAfterSwitch in EsimSwitch.
GateReadyIsFresh == gate.ready => proven = gate.generation

\* Who sleeps in WaitSIMAuthReady sleeps on the channel of the probe under way, which
\* that prober will close: nobody is left to wait for a probe that is over.
WaiterHasProber ==
    \A c \in Callers : at[c] = "wait" =>
        \E d \in Callers : at[d] = "probe" /\ on[c] = d /\ gate.waitC = d
=============================================================================
