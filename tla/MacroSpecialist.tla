--------------------------- MODULE MacroSpecialist ---------------------------
(***************************************************************************)
(* runtime/cortex_engine.py: the macro specialist of CortexRuntimeEngine,  *)
(* from the request sent to the HIMA sidecar to the dispatch of the plan's *)
(* steps, with the sidecar's inference (policy/hima/live.py) and its       *)
(* restarts (runtime/hima_sidecar.py).                                     *)
(*                                                                         *)
(* As in RuntimeEngine, the code between two awaits is atomic: `phase`     *)
(* names the part of the tick that has the control, and the other handlers *)
(* and tasks run only between ticks or while a tick awaits the specialist  *)
(* ("drain", "wait").                                                      *)
(*                                                                         *)
(* Abstracted: a plan is the number of repeats each of its steps still     *)
(* needs, 0 for a step that is confirmed, obsolete or not in the plan (the *)
(* statuses pending, deferred, blocked and dispatched differ in nothing    *)
(* that is decided here).  The frontier the policy finds in the remaining  *)
(* steps is any, and so are the verdicts of arbitration and validation.    *)
(* Game loops are ages that saturate at the value they are compared with.  *)
(* An expansion failure with another anchor to try is "recoverable"; the   *)
(* expansion commitment itself is in ExpansionCommitment.                  *)
(***************************************************************************)
EXTENDS Integers, FiniteSets

CONSTANTS Step,          \* ordinals of plan steps
          Repeat,        \* repeats that a step asks for
          Townhall,      \* the steps that are direct townhall recovery actions
          Interval,      \* cortex.macro.interval_game_loops
          RejectRetry,   \* min(Interval, _MACRO_REJECTION_RETRY_GAME_LOOPS)
          TTL,           \* cortex.macro.plan_ttl_game_loops
          RestartLimit,  \* cortex.macro.restart_limit
          Owned,         \* the Runtime owns the sidecar process
          Required,      \* cortex.macro.required
          PauseFirst,    \* environment.pause_until_first_plan
          Episodes       \* episodes that one Runtime process serves

VARIABLES
  gpu,         \* inference in the sidecar: "idle", "mine" (its request is
               \* awaited) or "orphan" (its waiter is gone)
  task,        \* _macro_task: "none", "running", or done with "answer",
               \* "error" or "timeout"
  recovering,  \* _macro_recovery_task is not None
  suspended,   \* _macro_requests_suspended
  restarts,    \* _macro_restart_attempts
  urgent,      \* _urgent_replan_requested
  retry,       \* loops until _next_macro_retry_game_loop, 0 for None
  since,       \* loops since the planner last started, up to Interval
  hasPlan,     \* _macro_plan is not None
  left,        \* repeats that each step of _macro_plan still needs
  ttl,         \* loops until the plan expires
  frozen,      \* _macro_plan_frozen
  hold,        \* _terminal_collapse_macro_hold: "none", or for the "active"
               \* plan, or for an "old" one
  collapse,    \* _current_situation is a terminal collapse
  inflight,    \* _macro_inflight_command_id with its _macro_command_steps
  episode,     \* which of the Episodes this is
  ended,       \* the episode's result is recorded
  phase        \* the part of the tick handler that has the control

vars == <<gpu, task, recovering, suspended, restarts, urgent, retry, since,
          hasPlan, left, ttl, frozen, hold, collapse, inflight, episode, ended,
          phase>>

sidecarVars == <<gpu, recovering, suspended, restarts>>
planVars    == <<hasPlan, left, ttl, frozen>>

ASSUME PlanAssumption   == /\ IsFiniteSet(Step) /\ 0 \notin Step
                           /\ Repeat \in [Step -> Nat \ {0}]
                           /\ Townhall \subseteq Step
ASSUME MacroAssumption  == /\ Interval \in Nat \ {0} /\ TTL \in Nat \ {0}
                           /\ RejectRetry \in 1 .. Interval
                           /\ RestartLimit \in Nat /\ Episodes \in Nat \ {0}
                           /\ {Owned, Required, PauseFirst} \subseteq BOOLEAN

(* No command, or the step (0 for a prerequisite, which is none of the     *)
(* plan's) of a dispatched one and whether its plan is still the active    *)
(* one.                                                                    *)
None == [step |-> 0, current |-> FALSE, sent |-> FALSE]
Sent(i) == [step |-> i, current |-> TRUE, sent |-> TRUE]

NoWork == [i \in Step |-> 0]
Work(P) == [i \in Step |-> IF i \in P THEN Repeat[i] ELSE 0]
Remaining(w) == {i \in Step : w[i] > 0}
Without(w, S) == [i \in Step |-> IF i \in S THEN 0 ELSE w[i]]

Done == {"answer", "error", "timeout"}
Less(n) == IF n = 0 THEN 0 ELSE n - 1

(* What _activate_episode resets.                                          *)
ResetEpisode ==
  /\ urgent' = FALSE /\ retry' = 0 /\ since' = Interval
  /\ hasPlan' = FALSE /\ left' = NoWork /\ ttl' = 0 /\ frozen' = FALSE
  /\ hold' = "none" /\ collapse' = FALSE /\ inflight' = None
  /\ task' = "none"

Init ==
  /\ gpu = "idle" /\ task = "none"
  /\ recovering = FALSE /\ suspended = FALSE /\ restarts = 0
  /\ urgent = FALSE /\ retry = 0 /\ since = Interval
  /\ hasPlan = FALSE /\ left = NoWork /\ ttl = 0 /\ frozen = FALSE
  /\ hold = "none" /\ collapse = FALSE /\ inflight = None
  /\ episode = 1 /\ ended = FALSE
  /\ phase = "idle"
-----------------------------------------------------------------------------
(* The sidecar and the request's task, which run beside the handlers.      *)

(* The inference ends: HIMALivePolicyService answers whoever still waits,  *)
(* and can take a request that arrives now.                                *)
Generate(result) ==
  /\ gpu # "idle"
  /\ gpu' = IF gpu = "orphan" /\ task = "running" THEN "mine" ELSE "idle"
  /\ task' = IF gpu = "mine" THEN result ELSE task
  /\ UNCHANGED <<recovering, suspended, restarts, urgent, retry, since,
                 planVars, hold, collapse, inflight, episode, ended, phase>>

(* asyncio.wait_for, or the client's own timeout, gives up: the inference  *)
(* is shielded from its waiter and goes on.  Mutant: nothing limits the    *)
(* wait.                                                                   *)
NeverTimesOut == FALSE

TimeOut ==
  /\ task = "running"
  /\ task' = "timeout"
  /\ gpu' = IF gpu = "mine" THEN "orphan" ELSE gpu
  /\ UNCHANGED <<recovering, suspended, restarts, urgent, retry, since,
                 planVars, hold, collapse, inflight, episode, ended, phase>>

(* A request that finds the service busy is refused with 409.              *)
Refuse ==
  /\ task = "running" /\ gpu = "orphan"
  /\ task' = "error"
  /\ UNCHANGED <<sidecarVars, urgent, retry, since, planVars, hold, collapse,
                 inflight, episode, ended, phase>>

(* _recover_macro_specialist: the old process is killed; the new one gets  *)
(* ready in time, or not and then nothing starts another attempt.          *)
RecoverMacroSpecialist(ready) ==
  /\ recovering
  /\ phase \in {"idle", "drain", "wait"}
  /\ recovering' = FALSE
  /\ gpu' = "idle"
  /\ suspended' = ~ready
  /\ urgent' = (urgent \/ ready)
  /\ retry' = IF ready THEN 0 ELSE retry
  /\ UNCHANGED <<task, restarts, since, planVars, hold, collapse, inflight,
                 episode, ended, phase>>
-----------------------------------------------------------------------------
(* tick.  A new episode first drains the old episode's request and throws  *)
(* its response away; an episode with live commands, and with a suspended  *)
(* specialist that is required, cannot be left.                            *)
BeginTick ==
  /\ phase = "idle" /\ ~ended
  /\ phase' = "collect"
  /\ retry' = Less(retry) /\ ttl' = Less(ttl)
  /\ since' = IF since < Interval THEN since + 1 ELSE since
  /\ UNCHANGED <<sidecarVars, task, urgent, hasPlan, left, frozen, hold,
                 collapse, inflight, episode, ended>>


ActivateEpisode ==
  /\ phase = "idle" /\ ended /\ episode < Episodes
  /\ Required => ~suspended
  /\ episode' = episode + 1
  /\ ended' = FALSE
  /\ phase' = "drain"
  /\ UNCHANGED <<sidecarVars, task, urgent, retry, since, planVars, hold,
                 collapse, inflight>>

Drain ==
  /\ phase = "drain" /\ task # "running"
  /\ ResetEpisode
  /\ phase' = "collect"
  /\ UNCHANGED <<sidecarVars, episode, ended>>

(* _collect_finished_macro, part by part: the plan P is accepted, and a    *)
(* hold is not about it (mutant: it is) ...                                *)
HoldAfterAnyPlan == hold
HoldAfterPlan == IF hold = "active" THEN "old" ELSE hold

AcceptMacroPlan(P) ==
  /\ hasPlan' = TRUE /\ left' = Work(P) /\ ttl' = TTL /\ frozen' = FALSE
  /\ retry' = 0 /\ urgent' = FALSE
  /\ hold' = HoldAfterPlan
  /\ inflight' = [inflight EXCEPT !.current = FALSE]
  /\ UNCHANGED <<recovering, suspended, restarts>>

(* ... or it has no usable frontier ...                                    *)
RejectMacroPlan ==
  /\ retry' = RejectRetry /\ urgent' = FALSE
  /\ UNCHANGED <<planVars, hold, inflight, recovering, suspended, restarts>>

(* ... or the request failed, or its response could not be made a plan ... *)
MacroFailed ==
  /\ retry' = Interval /\ urgent' = TRUE
  /\ UNCHANGED <<planVars, hold, inflight, recovering, suspended, restarts>>

(* ... or it timed out (_schedule_macro_recovery).  Mutants: the timeout   *)
(* is a failure like another; no restart is scheduled, or any number.      *)
SuspendsNever == suspended
Suspends == TRUE
RestartsNever == FALSE
RestartsAlways == Owned /\ ~recovering
Restartable == Owned /\ ~recovering /\ restarts < RestartLimit

MacroTimedOut ==
  /\ suspended' = Suspends
  /\ recovering' = (recovering \/ Restartable)
  /\ restarts' = IF Restartable THEN restarts + 1 ELSE restarts
  /\ urgent' = FALSE
  /\ UNCHANGED <<retry, planVars, hold, inflight>>

CollectFinishedMacro ==
  /\ task \in Done
  /\ task' = "none"
  /\ \/ task = "answer" /\ (RejectMacroPlan \/ \E P \in SUBSET Step \ {{}} : AcceptMacroPlan(P))
     \/ task \in {"answer", "error"} /\ MacroFailed
     \/ task = "timeout" /\ MacroTimedOut
  /\ UNCHANGED <<gpu, since, collapse, episode, ended>>

Collect ==
  /\ phase = "collect"
  /\ phase' = "assess"
  /\ \/ CollectFinishedMacro
     \/ /\ task \notin Done
        /\ UNCHANGED <<sidecarVars, task, urgent, retry, since, planVars, hold,
                       collapse, inflight, episode, ended>>

(* _wait_for_initial_macro: a required specialist that gives no first plan *)
(* aborts the tick.                                                        *)
WaitForInitialMacro ==
  /\ phase = "wait"
  /\ CollectFinishedMacro
  /\ phase' = IF Required /\ ~hasPlan' THEN "idle" ELSE "dispatch"

(* The middle of tick: alerts, the assessment, the release of the hold     *)
(* when the collapse is over or the townhall recovery that is available    *)
(* changed (_update_terminal_collapse_macro_hold), and the request if one  *)
(* is due (_should_start_macro, _begin_macro_cycle).  Mutant: only urgency *)
(* makes one due.                                                          *)
ShouldStartIfUrgent(ur, rt, hp, hd) ==
  task = "none" /\ ~suspended /\ hd = "none" /\ rt = 0 /\ ur

ShouldStartMacro(ur, rt, hp, hd) ==
  /\ task = "none" /\ ~suspended /\ hd = "none" /\ rt = 0
  /\ ur \/ ~hp \/ since >= Interval

Assess(alert, c, moved) ==
  LET released == hold # "none" /\ (~c \/ moved)
      dropped  == released /\ hold = "active"
      hd == IF released THEN "none" ELSE hold
      hp == hasPlan /\ ~dropped
      rt == IF dropped THEN 0 ELSE retry
      ur == urgent \/ alert \/ dropped
      due == ShouldStartMacro(ur, rt, hp, hd)
  IN  /\ phase = "assess"
      /\ collapse' = c
      /\ hold' = hd
      /\ hasPlan' = hp
      /\ left' = IF dropped THEN NoWork ELSE left
      /\ ttl' = IF dropped THEN 0 ELSE ttl
      /\ frozen' = (frozen /\ ~dropped)
      /\ inflight' = IF dropped THEN [inflight EXCEPT !.current = FALSE] ELSE inflight
      /\ retry' = IF due THEN 0 ELSE rt
      /\ urgent' = (ur /\ ~due)
      /\ since' = IF due THEN 0 ELSE since
      /\ task' = IF due THEN "running" ELSE task
      /\ gpu' = IF due /\ gpu = "idle" THEN "mine" ELSE gpu
      /\ phase' = IF due /\ PauseFirst /\ ~hp THEN "wait" ELSE "dispatch"
      /\ UNCHANGED <<recovering, suspended, restarts, episode, ended>>
-----------------------------------------------------------------------------
(* The rest of tick: _prepare_macro_command, and the dispatch of the       *)
(* command if arbitration, validation and the collapse guard let it pass.  *)
(* At its end _request_macro_if_exhausted; `refused` says that a planner   *)
(* command, macro or tactical, was rejected.                               *)

(* Mutant: a command in flight does not keep the plan waiting.             *)
ReadyWhateverIsInFlight == hasPlan /\ ~frozen /\ ttl > 0
Ready == hasPlan /\ ~frozen /\ ttl > 0 /\ ~inflight.sent

Exhausted(hp, w, hd) == hp /\ hd = "none" /\ Remaining(w) = {}

EndTick(ur, hp, w, hd, refused) ==
  /\ urgent' = (ur \/ refused \/ Exhausted(hp, w, hd))
  /\ phase' = "idle"
  /\ UNCHANGED <<sidecarVars, task, since, hasPlan, ttl, collapse, episode, ended>>

(* No plan, a frozen or an expired one, or a command in flight.            *)
Unready(refused) ==
  LET expired == hasPlan /\ ttl = 0
  IN  /\ phase = "dispatch" /\ ~Ready
      /\ frozen' = (frozen \/ expired)
      /\ EndTick(urgent \/ expired, hasPlan, left, hold, refused)
      /\ UNCHANGED <<retry, left, hold, inflight>>

(* The executable steps are all done.                                      *)
HorizonExhausted(refused) ==
  /\ phase = "dispatch" /\ Ready /\ Remaining(left) = {}
  /\ frozen' = TRUE
  /\ EndTick(TRUE, hasPlan, left, hold, refused)
  /\ UNCHANGED <<retry, left, hold, inflight>>

(* The frontier is not known, deferred, or in progress already, or its     *)
(* command is not selected.                                                *)
Waits(refused) ==
  /\ phase = "dispatch" /\ Ready /\ Remaining(left) # {}
  /\ EndTick(urgent, hasPlan, left, hold, refused)
  /\ UNCHANGED <<retry, frozen, left, hold, inflight>>

(* The frontier, after duplicates D, cannot be executed by this Runtime.   *)
Blocked(D, refused) ==
  /\ phase = "dispatch" /\ Ready /\ ~collapse
  /\ D \subseteq Remaining(left) /\ D # Remaining(left)
  /\ left' = Without(left, D)
  /\ frozen' = TRUE
  /\ retry' = Interval
  /\ EndTick(TRUE, hasPlan, left', hold, refused)
  /\ UNCHANGED <<hold, inflight>>

(* Steps are obsolete, or duplicates of what exists: the search goes on    *)
(* after a duplicate, and freezes a plan with nothing left.                *)
Deduplicated(D, refused) ==
  /\ phase = "dispatch" /\ Ready /\ ~collapse
  /\ D # {} /\ D \subseteq Remaining(left)
  /\ left' = Without(left, D)
  /\ frozen' \in {FALSE, D = Remaining(left)}
  /\ EndTick(urgent \/ frozen', hasPlan, left', hold, refused)
  /\ UNCHANGED <<retry, hold, inflight>>

(* The command of step i, or of a prerequisite (0), is dispatched.         *)
Dispatched(i, D, refused) ==
  /\ phase = "dispatch" /\ Ready /\ ~collapse
  /\ D \subseteq Remaining(left) /\ Remaining(left) # D
  /\ i \in {0} \cup (Remaining(left) \ D)
  /\ left' = Without(left, D)
  /\ inflight' = Sent(i)
  /\ EndTick(urgent, hasPlan, left', hold, refused)
  /\ UNCHANGED <<retry, frozen, hold>>

(* _apply_terminal_collapse_macro_boundary: only a townhall recovery that  *)
(* is legal now stays in the plan (0: the expansion commitment's, which is *)
(* not the plan's), and it is dispatched or waits; without one the plan is *)
(* held.                                                                   *)
Recovers(i, sent, refused) ==
  /\ phase = "dispatch" /\ Ready /\ collapse /\ Remaining(left) # {}
  /\ i \in {0} \cup (Remaining(left) \cap Townhall)
  /\ left' = Without(left, Step \ {i})
  /\ hold' = "none"
  /\ inflight' = IF sent THEN Sent(i) ELSE inflight
  /\ EndTick(urgent, hasPlan, left', "none", refused)
  /\ UNCHANGED <<retry, frozen>>

HoldsForCollapse(refused) ==
  /\ phase = "dispatch" /\ Ready /\ collapse /\ Remaining(left) # {}
  /\ left' = NoWork
  /\ frozen' = TRUE
  /\ retry' = 0
  /\ hold' = "active"
  /\ EndTick(FALSE, hasPlan, left', "active", refused)
  /\ UNCHANGED inflight

Dispatch ==
  \E refused \in BOOLEAN :
    \/ Unready(refused) \/ HorizonExhausted(refused) \/ Waits(refused)
    \/ HoldsForCollapse(refused)
    \/ \E D \in SUBSET Step : Deduplicated(D, refused) \/ Blocked(D, refused)
    \/ \E i \in {0} \cup Step, D \in SUBSET Step : Dispatched(i, D, refused)
    \/ \E i \in {0} \cup Townhall, sent \in BOOLEAN : Recovers(i, sent, refused)
-----------------------------------------------------------------------------
(* record_execution, for the macro command in flight.  The report of an    *)
(* old plan's command counts for nothing.                                  *)
Counts == inflight.current /\ inflight.step # 0

Interruptible == phase \in {"idle", "drain", "wait"}

Succeeds ==
  /\ Interruptible /\ inflight.sent /\ ~ended
  /\ inflight' = None
  /\ left' = IF Counts THEN [left EXCEPT ![inflight.step] = Less(@)] ELSE left
  /\ urgent' = (urgent \/ (Counts /\ left # left' /\ Remaining(left') = {}))
  /\ UNCHANGED <<sidecarVars, task, retry, since, hasPlan, ttl, frozen, hold,
                 collapse, episode, ended, phase>>

(* A failure freezes the active plan, whichever plan the command is of; a  *)
(* townhall's in a collapse holds it, and with another anchor to try only  *)
(* the request for an urgent plan is taken back.                           *)
Fails ==
  /\ Interruptible /\ inflight.sent /\ ~ended
  /\ inflight' = None
  /\ \/ /\ frozen' = TRUE /\ urgent' = TRUE
        /\ UNCHANGED <<hold, retry>>
     \/ /\ hasPlan /\ collapse /\ inflight.step \in {0} \cup Townhall
        /\ frozen' = TRUE /\ urgent' = FALSE
        /\ hold' = "active" /\ retry' = 0
     \/ /\ inflight.step \in {0} \cup Townhall
        /\ urgent' = FALSE
        /\ UNCHANGED <<frozen, hold, retry>>
  /\ UNCHANGED <<sidecarVars, task, since, hasPlan, left, ttl, collapse,
                 episode, ended, phase>>

(* Another command of the episode fails (base record_execution).           *)
OtherFails ==
  /\ Interruptible /\ ~ended
  /\ urgent' = TRUE
  /\ UNCHANGED <<sidecarVars, task, retry, since, planVars, hold, collapse,
                 inflight, episode, ended, phase>>

(* end_episode cancels the live commands without telling the macro part.   *)
EndEpisode ==
  /\ Interruptible /\ ~ended
  /\ ended' = TRUE
  /\ UNCHANGED <<sidecarVars, task, urgent, retry, since, planVars, hold,
                 collapse, inflight, episode, phase>>
-----------------------------------------------------------------------------
Tick == \/ BeginTick \/ ActivateEpisode \/ Drain
        \/ Collect \/ WaitForInitialMacro
        \/ \E alert, c, moved \in BOOLEAN : Assess(alert, c, moved)
        \/ Dispatch

Request == \/ \E result \in {"answer", "error"} : Generate(result)
           \/ TimeOut \/ Refuse

Recovery == \E ready \in BOOLEAN : RecoverMacroSpecialist(ready)

Next == Tick \/ Request \/ Recovery \/ Succeeds \/ Fails \/ OtherFails \/ EndEpisode

Spec == Init /\ [][Next]_vars

(* Ticks keep coming and run to their end (the worker sends one for each   *)
(* of its steps), asyncio.wait_for fires, and a restart of the sidecar     *)
(* ends, at the latest by its own timeout.  Nothing makes an inference     *)
(* end.                                                                    *)
FairSpec == Spec /\ WF_vars(Tick) /\ WF_vars(TimeOut) /\ WF_vars(Recovery)
-----------------------------------------------------------------------------
(* Properties.                                                             *)

TypeOK ==
  /\ gpu \in {"idle", "mine", "orphan"}
  /\ task \in {"none", "running"} \cup Done
  /\ recovering \in BOOLEAN /\ suspended \in BOOLEAN /\ urgent \in BOOLEAN
  /\ hasPlan \in BOOLEAN /\ frozen \in BOOLEAN
  /\ collapse \in BOOLEAN /\ ended \in BOOLEAN
  /\ restarts \in 0 .. RestartLimit
  /\ retry \in 0 .. Interval /\ since \in 0 .. Interval /\ ttl \in 0 .. TTL
  /\ left \in [Step -> Nat] /\ \A i \in Step : left[i] <= Repeat[i]
  /\ hold \in {"none", "active", "old"}
  /\ inflight \in [step : {0} \cup Step, current : BOOLEAN, sent : BOOLEAN]
  /\ episode \in 1 .. Episodes
  /\ phase \in {"idle", "drain", "collect", "assess", "wait", "dispatch"}

(* The requests stay suspended only when no restart can be tried: the      *)
(* sidecar is being restarted, belongs to somebody else, or has used up    *)
(* its restarts.                                                           *)
SuspensionJustified == suspended => recovering \/ ~Owned \/ restarts = RestartLimit

(* The step that the command in flight is for is still open in the active  *)
(* plan: no tick confirms or drops it behind the command's back, so the    *)
(* report finds the repeat it pays for.                                    *)
InFlightStepOpen ==
  inflight.sent /\ inflight.current /\ inflight.step # 0 => left[inflight.step] > 0

(* A plan on hold in a terminal collapse cannot be dispatched from, and it *)
(* is the plan that the release throws away, never one accepted meanwhile. *)
HoldFreezesPlan == hold = "active" => hasPlan /\ frozen

(* What the request gate shows of this state.                              *)
GateState == CASE episode > 1 -> "left"
               [] episode = 1 /\ suspended /\ recovering -> "restarting"
               [] episode = 1 /\ suspended /\ ~recovering -> "suspended"
               [] episode = 1 /\ ~suspended /\ task # "none" -> "asking"
               [] OTHER -> "ready"

Gate == INSTANCE SpecialistGate WITH gate <- GateState, generating <- gpu # "idle"

(* In the first episode of the process, the requests are single-flight,    *)
(* suspended by a timeout and opened again only by a restart, whatever     *)
(* plans, holds and reports do meanwhile.                                  *)
ImplementsGate == Gate!GateSpec

(* A tick that waits for the specialist returns, whether or not its        *)
(* inference ever ends.                                                    *)
TickReturns == phase \in {"drain", "wait"} ~> phase = "idle"

(* While the episode lasts, requests keep being sent, unless they are      *)
(* suspended or the plan is held.                                          *)
RequestsKeepComing == []<>(task # "none" \/ suspended \/ hold # "none" \/ ended)

=============================================================================
