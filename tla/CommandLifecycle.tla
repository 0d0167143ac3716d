-------------------------- MODULE CommandLifecycle --------------------------
(***************************************************************************)
(* What the Runtime promises about the commands of one episode, whatever   *)
(* the planner, the reflex policies and the worker do: a command moves     *)
(* along the transition table, is handed to the worker at most once, gets  *)
(* one terminal report that never changes, and an actor works on at most   *)
(* one command at a time.                                                  *)
(*                                                                         *)
(* This is the abstract specification; RuntimeEngine implements it.        *)
(***************************************************************************)
EXTENDS Naturals, CommandStatus

CONSTANTS Command,   \* command IDs
          Actor,     \* the actors (unit groups) that execute commands
          ActorOf,   \* the actor of each command
          Report,    \* contents of a terminal execution report
          NoReport,  \* no report has been recorded
          OutcomeOf  \* the status that a report's content stands for

(* What an implementation chooses for them.                                *)
ContentsMakeSense == /\ ActorOf \in [Command -> Actor]
                     /\ NoReport \notin Report
                     /\ OutcomeOf \in [Report -> Reported]

VARIABLES status,     \* status[c]: CommandStatus of c, or "none"
          report,     \* report[c]: content of c's terminal report
          delivered   \* delivered[c]: batches returned to the worker with c

vars == <<status, report, delivered>>

(* The statuses one handler call can leave a command in.                   *)
After(s) ==
  CASE s = "none"       -> {"none"} \cup Live \cup Dropped
    [] s \in Actionable -> Live \cup {"cancelled"} \cup Dropped
    [] s = "dispatched" -> {"dispatched"} \cup Reported
    [] OTHER            -> {s}

(* At most one command of an actor is in flight.                           *)
OneInFlight ==
  \A c, d \in Command :
    /\ status[c] = "dispatched" /\ status[d] = "dispatched"
    /\ ActorOf[c] = ActorOf[d]
    => c = d

Init == /\ status = [c \in Command |-> "none"]
        /\ report = [c \in Command |-> NoReport]
        /\ delivered = [c \in Command |-> 0]

(* A report closes a live command, with the status its content stands for, *)
(* and nothing else does.                                                  *)
Reporting(c) ==
  \/ /\ report'[c] = report[c]
     /\ status'[c] \in Reported => status'[c] = status[c]
  \/ /\ report[c] = NoReport
     /\ status[c] \in Live
     /\ report'[c] \in Report
     /\ status'[c] = OutcomeOf[report'[c]]

(* A command is delivered when it becomes dispatched, and only then.       *)
Delivering(c) ==
  IF status[c] # "dispatched" /\ status'[c] = "dispatched"
  THEN delivered[c] = 0 /\ delivered'[c] = 1
  ELSE delivered'[c] = delivered[c]

(* One handler call: any number of commands advance.                       *)
Step == /\ status' \in [Command -> Status]
        /\ report' \in [Command -> Report \cup {NoReport}]
        /\ delivered' \in [Command -> 0..1]
        /\ \A c \in Command : /\ status'[c] \in After(status[c])
                              /\ Reporting(c)
                              /\ Delivering(c)
        /\ OneInFlight'

Spec == Init /\ [][Step]_vars
-----------------------------------------------------------------------------
(* Only a command that was handed to the worker succeeds, fails or stays   *)
(* unconfirmed: nothing else reports for a command it never received.      *)
OutcomeNeedsDelivery ==
  \A c \in Command :
    status[c] \in {"dispatched"} \cup (Reported \ {"cancelled"}) => delivered[c] = 1

(* The first terminal report of a command is the last: neither a repeated  *)
(* or conflicting report nor the end of the episode replaces it.           *)
ReportIsFinal ==
  [][\A c \in Command : report[c] # NoReport =>
       report'[c] = report[c] /\ status'[c] = status[c]]_vars
=============================================================================
