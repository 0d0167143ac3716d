--------------------------- MODULE CommandStatus ----------------------------
(***************************************************************************)
(* CommandStatus and the transition table of runtime/engine.py, with       *)
(* "none" for a command ID the Runtime has no lifecycle for.               *)
(***************************************************************************)

Actionable == {"pending", "deferred"}
Live       == Actionable \cup {"dispatched"}
Reported   == {"succeeded", "failed", "cancelled", "unconfirmed"}
Dropped    == {"expired", "rejected", "obsolete", "superseded"}
Status     == {"none"} \cup Live \cup Reported \cup Dropped

(* _ALLOWED_COMMAND_TRANSITIONS.  A first write is never refused, and a    *)
(* status that the table has no row for is final.                          *)
Allowed(s) ==
  CASE s = "none"       -> Status \ {"none"}
    [] s = "pending"    -> {"deferred", "dispatched", "cancelled"} \cup Dropped
    [] s = "deferred"   -> {"pending", "cancelled"} \cup Dropped
    [] s = "dispatched" -> Reported
    [] OTHER            -> {}
=============================================================================
