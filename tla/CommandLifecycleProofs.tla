------------------------ MODULE CommandLifecycleProofs -----------------------
(***************************************************************************)
(* What follows from CommandLifecycle for every set of commands, reports   *)
(* and actors, and so, by RuntimeEngineProofs!Refinement, for the engine,  *)
(* whose ContentAssumption implies ContentsMakeSense.                      *)
(***************************************************************************)
EXTENDS CommandLifecycle, TLAPS

(* A command with a report is closed; the rest of the invariant is types   *)
(* and the property itself.                                                *)
Inv == /\ status \in [Command -> Status]
       /\ report \in [Command -> Report \cup {NoReport}]
       /\ delivered \in [Command -> 0..1]
       /\ \A c \in Command : report[c] # NoReport => status[c] \in Reported
       /\ OutcomeNeedsDelivery

LEMMA InvInit == Init => Inv
BY DEF Init, Inv, OutcomeNeedsDelivery, Status, Reported

LEMMA InvStep ==
  ASSUME ContentsMakeSense
  PROVE  Inv /\ [Step]_vars => Inv'
<1> SUFFICES ASSUME Inv, [Step]_vars PROVE Inv'
  OBVIOUS
<1>1. CASE UNCHANGED vars
  BY <1>1 DEF vars, Inv, OutcomeNeedsDelivery
<1>2. CASE Step
  <2>1. ASSUME NEW c \in Command
        PROVE  report'[c] # NoReport => status'[c] \in Reported
    <3>1. Reporting(c) /\ status'[c] \in After(status[c])
      BY <1>2 DEF Step
    <3>2. CASE report'[c] = report[c]
      BY <3>1, <3>2 DEF Inv, After, Reported, Actionable
    <3>3. CASE report'[c] \in Report /\ status'[c] = OutcomeOf[report'[c]]
      BY <3>3 DEF ContentsMakeSense
    <3> QED
      BY <3>1, <3>2, <3>3 DEF Reporting
  <2>2. ASSUME NEW c \in Command,
               status'[c] \in {"dispatched"} \cup (Reported \ {"cancelled"})
        PROVE  delivered'[c] = 1
    <3>1. Delivering(c) /\ status'[c] \in After(status[c])
      BY <1>2 DEF Step
    <3>2. status[c] \in Status
      BY DEF Inv
    <3>3. CASE status'[c] = "dispatched" /\ status[c] # "dispatched"
      BY <3>1, <3>3 DEF Delivering
    <3>4. CASE ~(status'[c] = "dispatched" /\ status[c] # "dispatched")
      <4>1. delivered'[c] = delivered[c]
        BY <3>1, <3>4 DEF Delivering
      <4>2. status[c] \in {"dispatched"} \cup (Reported \ {"cancelled"})
        BY <2>2, <3>1, <3>2, <3>4
           DEF After, Status, Live, Actionable, Reported, Dropped
      <4> QED
        BY <4>1, <4>2 DEF Inv, OutcomeNeedsDelivery
    <3> QED
      BY <3>3, <3>4
  <2> QED
    BY <1>2, <2>1, <2>2 DEF Step, Inv, OutcomeNeedsDelivery
<1> QED
  BY <1>1, <1>2

(* Only a command that was handed to the worker has an outcome of its own. *)
THEOREM DeliveryFirst ==
  ASSUME ContentsMakeSense
  PROVE  Spec => []OutcomeNeedsDelivery
<1>1. Inv => OutcomeNeedsDelivery
  BY DEF Inv
<1>2. Inv /\ [Step]_vars => Inv'
  BY InvStep
<1> QED
  BY <1>1, <1>2, InvInit, PTL DEF Spec

(* The first terminal report of a command is the last.                     *)
THEOREM FirstReportStands ==
  ASSUME ContentsMakeSense
  PROVE  Spec => ReportIsFinal
<1> DEFINE Final == \A c \in Command : report[c] # NoReport =>
                      report'[c] = report[c] /\ status'[c] = status[c]
<1>1. Inv /\ [Step]_vars => [Final]_vars
  <2> SUFFICES ASSUME Inv, Step, NEW c \in Command, report[c] # NoReport
               PROVE  report'[c] = report[c] /\ status'[c] = status[c]
    BY DEF vars
  <2>1. status[c] \in Reported
    BY DEF Inv
  <2>2. Reporting(c) /\ status'[c] \in After(status[c])
    BY DEF Step
  <2> QED
    BY <2>1, <2>2 DEF Reporting, After, Live, Actionable, Reported
<1>2. Inv /\ [Step]_vars => Inv'
  BY InvStep
<1> QED
  BY <1>1, <1>2, InvInit, PTL DEF Spec, ReportIsFinal
=============================================================================
