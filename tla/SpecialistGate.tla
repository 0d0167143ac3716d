--------------------------- MODULE SpecialistGate ---------------------------
(***************************************************************************)
(* What docs/architecture/overview.md promises of the requests to the      *)
(* macro specialist: they are single-flight, a timed-out generation        *)
(* suspends them because the inference may still be running, and only a    *)
(* sidecar restart, of which there is a bounded number, opens them again.  *)
(* The promise ends with the first episode of the process: the next one    *)
(* discards the request whatever has become of it, also when it timed out, *)
(* and what may follow is left open.  MacroSpecialist implements it.       *)
(***************************************************************************)
EXTENDS Naturals

CONSTANT RestartLimit    \* cortex.macro.restart_limit

VARIABLES
  gate,        \* "ready", "asking", "suspended", "restarting", or "left"
               \* after the episode
  generating,  \* the sidecar is running an inference
  restarts     \* sidecar restarts so far

gateVars == <<gate, generating, restarts>>

GateInit == gate = "ready" /\ ~generating /\ restarts = 0

(* A request is sent only when no inference can be running.                *)
Ask ==
  /\ gate = "ready" /\ ~generating
  /\ gate' = "asking" /\ generating' = TRUE
  /\ UNCHANGED restarts

Generated ==
  /\ generating
  /\ generating' = FALSE
  /\ UNCHANGED <<gate, restarts>>

Answered ==
  /\ gate = "asking" /\ ~generating
  /\ gate' = "ready"
  /\ UNCHANGED <<generating, restarts>>

TimedOut ==
  /\ gate = "asking"
  /\ \/ gate' = "suspended" /\ UNCHANGED restarts
     \/ /\ restarts < RestartLimit
        /\ gate' = "restarting" /\ restarts' = restarts + 1
  /\ UNCHANGED generating

(* The old process is gone, whether or not the new one becomes ready.      *)
Restarted ==
  /\ gate = "restarting"
  /\ gate' \in {"ready", "suspended"}
  /\ generating' = FALSE
  /\ UNCHANGED restarts

Leave ==
  /\ gate # "left" /\ gate' = "left"
  /\ UNCHANGED <<generating, restarts>>

Left ==
  /\ gate = "left" /\ gate' = "left"
  /\ generating' \in BOOLEAN
  /\ restarts' \in restarts .. RestartLimit

GateNext == Ask \/ Generated \/ Answered \/ TimedOut \/ Restarted \/ Leave \/ Left

GateSpec == GateInit /\ [][GateNext]_gateVars
=============================================================================
