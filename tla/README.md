# RTSCortex in TLA+

RTSCortex plays StarCraft II with a language-model planner. A *Runtime*
(Python, `src/src/rtscortex`) decides; a *worker* (`src/integrations/llm_pysc2`)
runs the game, sends an observation to `/v1/tick`, executes the commands of the
returned batch and reports what became of each to `/v1/execution`. This project
models both sides of that contract: in the Runtime, which command may be in
flight, when and how often, the macro specialist and the expansion goal that
produce commands, and the event store that makes the decisions survive a crash;
in the worker, the barrier at which agents agree on one request, and the path of
a build command from its queue to its report.

## Inventory

| component | state | operations | hard behaviour | what makes it correct |
|---|---|---|---|---|
| Runtime engine (`runtime/engine.py`, `validation.py`, `progress_guard.py`, `api/app.py`) | lifecycle of every command, report fingerprints, cached plan, planner task, urgent flag, episode result | tick, background planner, `record_execution`, `end_episode` | plans that are older than the tick which accepts them; handlers that run while a tick awaits its first plan; plans that keep live commands | one command in flight per actor, one delivery and one report per command, nothing orphaned, requests served |
| Runtime recovery (`_activate_episode`, the checkpoint) | event log, checkpoint, the engine's memory | checkpoint, replay, completion of half-written transitions | a crash at any point between two events | memory = replay; every cut of the log recovers |
| Event store (`memory/store.py`) | next ID, queue, writer's batch, SQLite tables, JSONL mirror, checkpoint row, placement identities | append, placement append, checkpoint, flush, writer thread, restart | threads, full queue, writer death, torn mirror, restarts, callers that give up | nothing overtakes the events before it, the mirror never leads and is repaired, placements idempotent, nobody hangs |
| Cortex runtime (`runtime/cortex_engine.py`, `cortex/`) | macro request, plan with repeats, collapse hold, expansion goal and commitment | request, collect, dispatch, outcomes, restart of the sidecar, goal transitions, recovery | timeouts of an inference that goes on, outcomes during a request, holds, a restart between two events | single flight, bounded restarts, reports find their step, budgets count epochs, recovery = memory |
| Policy and HIMA sidecar (`policy/hima`, `runtime/hima_sidecar.py`) | the one inference slot, the process | infer, refuse when busy, restart | an orphan inference | as the macro specialist sees it |
| Decision broker (`broker.py` with its callers `hook.py`, `worker.py`) | barrier of each step, partial steps, command queues of the agents, first decision | submit, leader election, decide, wait for the first decision, claim | threads at a barrier, agents that leave or come, grace period and deadline, failed request | one tick per step, every query returns, nothing left behind, each agent executes its own command |
| Worker bridge (`worker.py`, `protocol.py`, `coordinator.py`) | the step loop, primitive traces, routes | settle, decide, dispatch, end | deferred queue heads, a primitive trace of several moves | a report says what became of the command |
| Raw execution, placement, effect verification (`raw_executor.py`, `raw_placement.py`, `effect_verifier.py`, `execution.py`) | raw queue, reservations, builder leases, published transitions, effect windows | resolve, approach, dispatch, refuse, expire, observe, extend, confirm, give up | replaced reservations, builders that change hands, late evidence against deadlines | leases follow reservations, one holder per target, builds in flight keep their place, every accepted build decided |
| Live supervisor (`runtime/live.py`) | ownership lock, socket, server, worker process | start, wait, stop, synthetic result | worker exit, cancellation and failure in any order | not modelled |
| Console (`console/`) | session, latest frames, client queues | broadcast, resynchronise | slow clients | not modelled |
| Playbook (`playbook/`) | versions and evidence | propose, review, promote | gates over a long sequence | not modelled |
| Agents, reflex policies, goal progress | none that outlives a call | pure functions, model calls | - | their results are any value of the right kind in the engine's model |
| Extraction, contracts, configuration, CLI, providers, evaluation | - | conversion, I/O, offline reports | - | not modelled: no protocol of their own |

Interactions: the API handlers and the supervisor call the engine on one event
loop (`api/app.py`, all handlers `async def`); the Cortex runtime is the engine
that live configurations use; both call the store, whose writer is a thread; the
planner and the macro request are tasks of the same event loop, the HIMA sidecar
is a process behind HTTP; the worker is another process that only sees the API.
Inside the worker each agent has a query thread; the threads meet in the broker,
and one of them makes the request for all. In raw mode one thread does it all:
settle, observe, decide, dispatch, step.

`PROJECT.json` lists under "hazards" what is hard to test at its line, with the
properties that cover it.

## Modules

    CommandStatus            statuses and the transition table
      CommandLifecycle       abstract: what the Runtime promises about commands
        RuntimeEngine        the engine, one process      (implements it)
          RuntimeRecovery    engine + log + crashes
    SpecialistGate           abstract: when the macro specialist may be asked
      MacroSpecialist        requests, plans, holds, outcomes  (implements it)
    ExpansionCommitment      goal and commitment + log + crashes
    EventStore               the store's threads, files and restarts
    DecisionBroker           the worker's query threads at their barrier
    BuildPlacement           the worker's raw path of build commands
    MC*                      values of the constants for TLC
    *Proofs                  theorems

**CommandStatus** has `_ALLOWED_COMMAND_TRANSITIONS` as `Allowed`, with `"none"`
for an ID that has no lifecycle.

**CommandLifecycle** is the abstract specification. `status`, `report` and
`delivered` say for each command where it is, what closed it and how many
batches carried it. `Step` is any handler call: every command may advance at
once, as `After` (the table composed over one handler), `Reporting` and
`Delivering` allow, and one command per actor is in flight afterwards.

**RuntimeEngine** models the handlers. Code between two awaits is one event-loop
step, so it is one action:

| action | code |
|---|---|
| `BeginTick` | head of `tick` for an active or fresh episode |
| `CollectFinishedPlanner` | `_collect_finished_planner` with `_accept_plan` |
| `ExpireAndPlan` | `_note_alerts`, `_should_plan`, `_expire_planner_commands`, `_begin_planner_cycle` |
| `ResumeAwaitedTick` | end of `_run_initial_plan_barrier` / `_run_deterministic_planner` |
| `Select` | the rest of `tick`: guard, busy actors, validation, arbitration, budget, dispatch, exhaustion, checkpoint |
| `FinishPlanner` | the background deliberation ends or times out |
| `RecordExecution` | `record_execution` |
| `EndEpisode` | `end_episode`, from the worker or the supervisor |

`phase` says which part of a tick has the control. The tick is cut where its
parts are named so that each stays readable; no other handler runs between
the parts, except in phase `"await"`. `emitted` is the list of events a step
appends, the interface to the recovery model. Verdicts of the progress guard
and the validator are any function of the candidates, plans are any set of
fresh or stale IDs, reflex candidates any set of fresh IDs; so the model covers
every planner, policy and observation. Requests that the code answers with an
error and no change (reused IDs, conflicting or repeated reports) are the
disabled guards, or `RefusePlan` where the tick goes on.

**RuntimeRecovery** puts the engine on a log. `log` is what was enqueued,
`durable` the prefix a flush has waited for; `Crash(k)` keeps any prefix that
contains it, because the writer commits in queue order (what `EventStore`
shows). `Activate` is `_activate_episode`: last checkpoint, tail,
half-written commands completed.

**SpecialistGate** is what `docs/architecture/overview.md` promises of the
requests to the specialist: single flight, a timeout suspends them, a bounded
number of restarts opens them again.

**MacroSpecialist** models the macro side of `CortexRuntimeEngine`:

| action | code |
|---|---|
| `Generate`, `Refuse`, `TimeOut` | the sidecar's one inference and its busy refusal; `asyncio.wait_for` around the request |
| `RecoverMacroSpecialist` | the restart task and its result |
| `BeginTick`, `ActivateEpisode`, `Drain` | head of the tick; a new episode discards the old one's request first |
| `Collect` | `_collect_finished_macro`: accept, reject, error, timeout with its suspension and restart |
| `WaitForInitialMacro` | the wait for the first plan |
| `Assess` | alerts, collapse hold and release, expiry, step progress, the start of a request |
| `Dispatch` | `HorizonExhausted`, `Waits`, `Blocked`, `Deduplicated`, `Dispatched`, `Recovers`, `HoldsForCollapse`: the outcomes of one frontier step |
| `Succeeds`, `Fails`, `OtherFails` | reports for the command in flight, or for another |
| `EndEpisode` | the result of the episode |

A plan is the number of repeats each step still needs. `inflight` ties the
command in flight to its step and says whether the step is of the active plan.

**ExpansionCommitment** models `_ensure_expansion_goal`,
`_ensure_expansion_commitment`, `_update_expansion_candidate_state`
and the dispatch of a townhall as functions from a memory record to a changed
record and the events it appends (`Change`, `Then`); `Tick` composes them in the
order of the source. `Report` is the outcome of a townhall command, `Crash(n)`
loses the last `n` events and `Recovered` replays the others from the
checkpoint, as `_recover_cortex_episode` does.

**EventStore** models the callers, the queue and the writer thread step by step:
take an item, commit, mirror, then the barrier, checkpoint or placement that
waited. `WriterFails` is an exception in the writer, with the drain of the queue
and with callers that were let in just before and queue a barrier or a placement
after the drain. `GiveUp` is the 30 seconds of a caller that waits; its item stays
in the queue and has nobody to wake. `Restart` loses the process and repairs the
mirror as `_reconcile_journal` does. An event is its place in the order of appends,
so its ID and its order can disagree if the code lets them. Errors and crashes cut
the mirror's writing anywhere (`Cuts`): behind a newline, in front of it, or inside
a row. `journal` has the whole rows of the file, `unended` the positions of those
that no newline follows and `half` says that a piece of a row stands at the end;
`ValidPrefix` is what the repair's `json.loads` makes of such a file.

**DecisionBroker** has one thread per agent, cut where the lock is taken,
released or not held (the loop condition of `submit` is read without it):

| action | code |
|---|---|
| `StartQuery` | `hook.query` starts and builds its text observation |
| `Submit`, `SubmitSkipped` | first critical section of `submit` |
| `Check`; `Elect`, `WaitOn`, `TimeOut` | the loop of `submit`: its condition; its critical section with the lead taken, a wait, the deadline |
| `BeginDecide`, `FinishDecide`, `FailDecide` | `_decide` before and after the Runtime's answer |
| `Leave` | last critical section of `submit`: raise or take the route |
| `Execute` | `claim_primitive` for the agent's action text |
| `WaitForInitialDecision`, `InitialDecisionArrives` | `wait_for_initial_decision` on the main thread |
| `Disable`, `Enable` | the roster changes of `_refresh_zerg_morphed_combat_teams` |
| `GracePasses`, `DeadlinePasses` | the two clocks of `submit` |

`barriers` are the `_DecisionState` objects, also those a thread still holds after
they left the table `states`; this is what makes late threads visible. Queues hold
the barrier a command came from. The main loop is upstream LLM-PySC2 and external:
a round ends when every enabled agent has asked once and has executed its text,
and an agent is enabled between two rounds only (and, in the model, not before its
old query has returned). An agent may be disabled at any time, whatever its query
does and whether it has action text or not. Upstream's `_is_executing_actions`
decides what becomes of the text: an action that has begun is reported and takes
the oldest queued ID (`AbortAction`), any other text is forgotten and its ID stays
queued (`DropText`). `dropped` remembers the agents this happened to, `strayed`
the steps in which an agent was disabled while it collected its observation. The
grace period is never longer than the timeout, so a thread that reaches its
deadline has a leader: `DeadlinePasses` needs the leader's request to be in
flight. `TickOutlasts` says whether a request may take so long; with the shipped
configurations it may (the HTTP timeout is the planner's plus 5 s, the barrier's
is 60 s).

**BuildPlacement** models one step of the raw worker after another, in the order
of `_raw_step`, for build commands:

| action | code |
|---|---|
| `Settle` = `SettleNothing`, `SettleApproach`, `SettleAccepted`, `SettleRefused` | `_settle_previous_primitive`, `complete_command`, the rejection paths |
| `ObserveEffects` | `effect_verifier.observe`: start evidence, extensions, confirmation, timeout; then expiry of reservations |
| `Decide` | `should_decide` and the enqueueing of a batch |
| `Dispatch` = `FailHead`, `DeferHead`, `ApproachHead`, `BuildHead` | `next_dispatch`, `_translate`, `resolve` |
| `Step` | `record_environment_step`; the game advances by some loops |
| `EndEpisode` | the terminal observation or truncation, `fail_pending` |

`place` is the state of the placement service (reservations, leases, published
transitions), changed by its calls only: `Reserve`, `Release`, `Expire`, `Start`,
`Confirm`. `ledger` is, for each command, the last published transition, and
`"broken"` if a transition does not start where the last one ended. Reports
carry no stage: a head that fails after its approach was refused names another stage
in the code.

## Runs

| run | what it shows | size |
|---|---|---|
| `engine` | `TypeOK`, `ReportClosesCommand`, `NoOrphanedPlanCommand`, `DeliveredOnce`; every step is one of `CommandLifecycle` (`Implements`); `UrgentPlanServed`, `PlanCommandResolved` under `FairSpec` | a plan command of each of 2 actors, a reflex that competes with one: 379,116 states |
| `engine_ended` | violated: `EndedEpisodeIsClosed` | finding below |
| `recovery` | `MemoryIsReplay`, `EveryCutRecovers`, `OneReportPerCommand`, `LogFollowsTable`, `CommittedDispatchIsFinal` | 2 plan commands, 1 crash, 1 checkpoint: 794,139 states |
| `recovery_return` | violated: `NeverReturnedTwice` | finding below |
| `store` | `TypeOK`, `DurableInOrder`, `MirrorNeverLeads`, `MirrorCatchesUp`, `PlacementAnswersHold`; `NobodyHangs` under `FairSpec` | 2 callers, 1 transition with 2 payloads: 512,682 states |
| `store_boundary` | violated: `BoundarySeparates` | finding below |
| `broker` | `TypeOK`, `OneTickPerStep`, `BarrierDrains`, `ClaimsOwnCommand`; `EveryWaitEnds` | 2 agents of which one leaves and joins, 2 rounds, requests that outlast the deadline: 557,195 states |
| `macro` | `TypeOK`, `SuspensionJustified`, `InFlightStepOpen`, `HoldFreezesPlan`; every step is one of `SpecialistGate` (`ImplementsGate`); `TickReturns`, `RequestsKeepComing` under `FairSpec` | a plan of 2 steps, one of them twice, 2 episodes, 1 sidecar restart: 105,964 states |
| `expansion` | `TypeOK`, `BudgetPaysPerEpoch`, `RecoversCommitment`, `RecoversGoal` | 2 generations, plans for 2 or 3 bases, 1 crash: 60,429 states |
| `expansion_rearm` | violated: `NoRearm` | finding below |
| `build` | `TypeOK`, `LeaseFollowsReservation`, `OneHolderPerTarget`, `InFlightOwnsPlace`, `LedgerTellsReservations`; `AcceptedIsDecided` under `FairSpec` | 3 commands, 2 of them for one townhall, 2 builders: 108,415 states |
| `build_approach` | violated: `RefusedApproachIsNoFailure` | finding below |

Deadlock is not checked: an episode that has ended, a store or a log at its
bounds and a worker after its last round really stop.

### Bounds

Game loops are ages that saturate at the value they are compared with, so the
engine and macro runs need no bound on time; `TTL = Interval = 2` lets a command
live through one tick and expire in the next, before, at and after a planner
start. Command IDs are used once, so a set of IDs bounds a behaviour by itself.
In `engine` two plan commands have different actors and a reflex command
competes with one of them; in `engine_ended`, `recovery` and `recovery_return`
two plan commands have one actor and one semantic key, so that a plan keeps one
and adds the other. `MaxActions = 1` makes the budget bite. `RuntimeRecovery` is
cut by `MaxRestarts`, `MaxSnapshots` (one each: a crash before, between and
after the checkpoint and its tail) and `MaxLog = 7`, enough for plan, pending,
dispatch, execution and close of a command with a checkpoint among them.

`EventStore` has `QueueSize = BatchSize = 2`, so that full queues and full
batches happen, two events, one checkpoint and `MaxFailures = 2` (crashes, writer
errors or queue timeouts in any combination); `store_boundary` needs a third
event. `DecisionBroker` has two agents: one is the leader, the other a
participant, late, disabled or left out; two rounds, so that a thread late by a
round meets the next one. `KeptSteps = 0` forgets partial steps sooner than the
code, which keeps four, so a property that holds with it does not rest on the
longer memory.

`MacroSpecialist`: `Repeat` is 2 for the first step, so that an outcome is counted
between two dispatches of a step; the second step is a townhall, for the paths of
collapse and recovery; a second episode starts while requests of the first are in
any state. `ExpansionCommitment`: one townhall may be lost (`Seen = {1, 2}`), a
plan may raise the goal (`Desired = {2, 3}`), the budget is larger than one epoch
costs, a log of three events since the checkpoint holds the start, end and
exhaustion of a commitment; `expansion_rearm` needs a generation more.
`BuildPlacement`: two commands compete for one target and three for two builders;
the timeouts keep the order of the code's (`Base` 2 < `Hard` 3 < `Hard + Grace` 4)
and a step takes one loop or two, so that it can jump over one of them.

### Fairness

`RuntimeEngine!FairSpec`: weak fairness of `Tick` (the worker sends observations
while the game runs, and a handler runs to its end) and of `FinishPlanner`
(`asyncio.wait_for` bounds a deliberation). Nothing is assumed of reports: an
actor can stay busy for ever, which is why `PlanCommandResolved` rests on the
TTL. `MacroSpecialist!FairSpec`: `Tick` as above, the request's timeout, and the
end of a restart (it has a timeout of its own); nothing makes an inference end.
`EventStore!FairSpec`: the writer thread takes its steps, and a caller's 30
seconds pass when the writer is dead; the timeout of a live writer is not relied
on. `DecisionBroker!Spec`: the threads take their steps, so the leader's request
ends (the HTTP client has a timeout); the grace period passes; the main thread
sees the first decision. Nothing is assumed of the deadline or of the main loop:
`EveryWaitEnds` shows that the deadline is not needed for it.
`BuildPlacement!FairSpec`: the worker's loop goes on until the episode ends.

## Findings

- `recovery_return`: `tick` returns while the dispatch is only queued. A crash
  before the writer's next commit, then a restart on the same store, and the
  command is pending again and is returned a second time.
  `docs/architecture/overview.md` says it never is. What holds is
  `CommittedDispatchIsFinal`.
- `engine_ended`: `end_episode` can run while a tick awaits its first plan; the
  tick then accepts the plan and dispatches into the ended episode, and no report
  closes the command. `docs/live-runtime.md` says each command reaches one
  terminal state.
- `store_boundary`: IDs that are consumed and not written (placement retries,
  queue timeouts) make `through_event_id` greater than the last row. After a
  restart the same IDs are given to new events, which a recovery from that
  checkpoint skips; `record_snapshot`'s docstring calls the boundary durable.
- `expansion_rearm`: the recovery restores the exhausted generation from the
  goal, then overwrites it with the generation in which the ended commitment was
  started. When a later one was exhausted, the next plan commits again in it;
  the documents say that exhaustion cannot create an identical commitment.
- `build_approach`: a refused approach move stays in the command's primitive
  trace. When the build after it is accepted, the command is reported as failed
  and its reservation released while the builder builds; the document calls such
  a rejection a trace fact, not a failed build.

### Disagreements without a run

The models show two more, in traces of a few steps; no run is kept for them, and
the properties that are checked say what holds instead.

- Mirror: a last line that is a whole row and lost only its newline in a crash
  counts as valid, and the next row is appended to the same line. From then on
  `read_event_log` raises at that line, until the next start finds it and rewrites
  the file, though `_reconcile_journal` and
  `docs/architecture/protoss-natural-terminal-regression-issues.md` say that a start
  repairs the mirror. In the model, `unended` then has a position that is not the
  last of `journal` while `writer = "get"`. What holds is `MirrorCatchesUp`: the
  rows are all there, in order and whole, and there is at most one such line.
- Broker: a morphed combat team without living units in one raw observation is
  disabled and its action lists cleared. An action that has not begun is not
  reported; its command's ID stays in the broker's queue, and the next command of
  the route is charged to it. `docs/live-runtime.md` says that only a confirmed
  disappearance removes the unit, with a report, so that an observation gap cannot
  silently drop a command. In the model, `Disable` by `DropText` does this. What
  holds is `ClaimsOwnCommand`: agents that have not lost a text are not affected,
  and one that has still finds the ID of its own command in the queue.

### Limits that are not findings

These are consequences the models show or exclude, and that no document denies.

- Broker: when a request outlasts the 60 s deadline, a waiter raises "not all
  enabled agents submitted" and the leader still queues the commands of the
  answer, and a later command of the agent is charged to the stale ID; of such an
  agent `ClaimsOwnCommand` says only that the ID of its own command is there. An agent
  that is disabled while it collects its observation is neither a participant nor
  recorded as missing: it submits after the barrier has gone and opens a second
  one for the step. `OneTickPerStep` excepts these steps (`strayed`).
- Macro specialist: a restart that fails schedules no other, so with two restarts
  allowed requests can stay suspended with one left; `SuspensionJustified` is
  checked and proved for `RestartLimit <= 1`, the shipped value. The drain of an old
  episode's request forgets its timeout, which is why `SpecialistGate` ends with
  the first episode.
- Expansion: `_ensure_expansion_goal` may close the goal while its commitment
  stays open; a goal that was closed does not reopen for as many bases as before
  after a base is lost; a strategic cancellation lets the same commitment start
  again; the dispatched flag of a commitment that started before the checkpoint
  is not restored.
- Builds: a command that holds a reservation and is not accepted when the episode
  ends keeps it, with no transition; a queue head that is deferred step after step
  stops decisions of the Runtime with no bound of its own.

## Proofs

The theorems hold for all values of the constants that satisfy the modules'
assumptions; TLC evaluates these in the runs.

**RuntimeEngineProofs, CommandLifecycleProofs** (any commands, actors, reports,
TTL, interval and budget, all planner modes):

- `TypeCorrect`. The only hard part is that `emitted` is a sequence of events,
  through the lemmas on `Listing`, `Moved` and `Cancelled`.
- `OneCommandPerActor`, `ReportsCloseCommands`, `NoPlanCommandIsOrphaned`,
  `NoCommandTwice`. They are inductive together with `TypeOK`. Planning moves what
  it supersedes and what it adds, and keeps the rest (`AcceptStep`); dispatch
  takes one command per idle actor (`DispatchStep`), which needs that the plan
  holds all actionable plan commands and that reflex candidates are fresh.
- `Refinement`: `Spec => CL!Spec`, by the identity mapping. Each handler step is
  a step of the abstract specification (`HandlerStep`, `CommandStep`), the quiet
  ones a stutter (`QuietStep`). The invariant is needed: a dispatch counts from
  0 to 1 only because a command that waits was never delivered.
- `DeliveryFirst`, `FirstReportStands`: consequences of the abstract
  specification, so with `Refinement` of the engine too.

**RuntimeRecoveryProofs** (any commands, reflex ones too, any log, number of
crashes and checkpoints): `RecoveryTypeCorrect`, `MemoryReplays`, `CutsRecover`,
`ReportsOnce`, `TableFollowed`, `CommittedDispatchStands`. None of these is
inductive: a crash may leave any prefix of the log, so the invariant has to speak
of prefixes. `Good(log)` does: after each event, what a replay up to there gives
(`StatusAt`, `ReportAt`, `PlanAt`) is `Sound`, that is a command with a report is
closed by it or can still be, an actor has one command in flight, the plan holds
the actionable plan commands, and a dispatch stays on record; and each event is
one that the events before it admit (`EventOK`; for a checkpoint, that it says
what they say). A prefix of a good log is good (`GoodCut`), which is the whole
crash step. `MemInv` says that a bound engine's memory is what its log gives.
A lemma for each batch of events (`WrittenPiece`, `CancelledPiece`,
`SnapshotPiece`, ...) takes a good log that has reached a state to the next one,
also in between two events of the batch, where a crash can fall; each handler is
a chain of these, and so is the restart (`RestartPiece`), whose events complete
what the crash cut in two. `ReplayGives` ties it to the code: from a checkpoint,
or from nothing, the recovery's replay gives what all events give. TLC agreed to
`Good` and `MemInv` on the states of the run `recovery` before they were proved.

**MacroSpecialistProofs** (any steps, repeats, cooldowns, lifetimes, episodes):
`TypeCorrect`, `StepStaysOpen`, `HoldIsOnItsPlan`, `Refinement` to
`SpecialistGate`, and `SuspensionHasCause` for at most one restart. The
strengthening `RequestInv` ties the request, the inference and the suspension in
each phase: who is running in the sidecar when a request is sent, and why
requests are suspended.

**BuildPlacementProofs** (any commands, builders, targets, timeouts):
`TypeCorrect`, `LeasesFollow`, `OneHolder`, `LedgerIsTrue`, `InFlightIsSafe`.
`PlaceInv`, what the placement service keeps by itself, is preserved by each of
its calls, so the proof of a worker step is the list of calls it makes;
`QueueInv` says that a command is queued, sent or accepted, never two of them;
`TimeInv` compares the loops that a reservation has left with those that its
build may still take, which is where the expiry could overtake the verifier. It
needs that a step is not longer than `Hard + Grace - Base` (368 loops with the
shipped values, some 16 seconds of game), the assumption of the module.

**EventStoreProofs** (any callers, transitions, queue and batch size, any number
of failures): `TypeCorrect`, `FlushAndCheckpointAreDurable`, `PlacementAnswered`,
`TableInOrder`, `MirrorFollows`, `MirrorRecovers`. `CallerInv`: a caller that
waits has one item on the way, in the queue or in the writer's hand, so waking it
disturbs no other; `OrderInv`: what an item owes its caller or its reader is in
the table, in the batch or before it in the queue; `PlacementInv`: a transition
with a row or an answer has a payload. `IdInv`: IDs rise along the table, then
along the batch and the queue, and stay below the next one; this is why the rows
after the mirror's last line are exactly those it lacks. `MirrorInv` says for
each step of the writer how much of the table the mirror holds; a mirror is
completed only when its IDs are 1, 2, 3, ..., and rising IDs that reach `n` at
the `n`-th line leave no room for another row before it. It also says that no piece
of a row is left while the writer lives and that at most one row has no newline: a
repair keeps an open line only when it is the last, and rewrites the file when one
stands before it. `CutTypes` and `CutPrefix` say what a cut leaves of the mirror.

**ExpansionCommitmentProofs** (any townhall counts, budget other than 0,
cooldown, generations, log length and crashes): `TypeCorrect`,
`CommitmentRecovers`, `GoalRecovers`, `BudgetPays`. `Tracks` relates the
checkpoint, the events after it and the engine's memory: the last start or
terminal event, or else the checkpoint, gives the commitment, and the last goal
event the goal. Each handler is a chain of changes (update the goal, close it,
start, end, dispatch), and each change keeps `Tracks` for the log with its own
events appended, so a handler does too. It needs `Introduced`: a started event
has a goal in the checkpoint or before it in the log, without which the recovery
drops the commitment. `Paid`, for the budget: an open commitment belongs to a
later epoch than the last exhausted one, and a goal without budget is closed.

**DecisionBrokerProofs** (any agents and rounds, one round at least):
`TypeCorrect`, `TicksOnce`, `TableDrains`, `ChargesOwnCommand`. `AgentInv`,
`OneLeader` and `BarrierInv` say who is at a barrier and who leads it; `TableInv`:
a barrier in the table has a query that will take it out; `StepInv`: a step has
one barrier, since the leader records as partial every agent that could open a
second one, in the same critical section in which it takes the request;
`QueueInv`: the queue of an agent that has lost no text and got no command of a
given-up decision holds the command of its action text, or the one that its query
is about to return, and nothing else. `OwnInv` is for all other agents too: the ID
that a text, or the text still to come, needs is in the queue, whatever stale IDs
stand before it. An ID is taken only when its agent executes or loses its text,
and an agent with a text has no query, so nothing else needs the queue then.

Every invariant and action property of the passing runs is a theorem. Only
model-checked: the liveness properties (`UrgentPlanServed`,
`PlanCommandResolved`, `NobodyHangs`, `EveryWaitEnds`, `TickReturns`,
`RequestsKeepComing`, `AcceptedIsDecided`), since they rest on fairness.

## Not modelled, and why

Goal progress, prompts, latency, decision payloads and reasons only feed data
into the transitions above. Lifecycle events that change nothing but a reason
are left out of the log. Several episodes in one engine process, the tick after a
recorded result, legacy logs without lifecycle events and the 4096-event limit
of a recovery tail are out of the engine's model. A second tick during an awaited
one is left out: the worker sends one at a time.

In the store: retention of high-frequency events (they take no ID), subscribers,
lessons, summaries and, within a mirror line, more than whether it is whole and
has its newline. In the broker: the primitives of a command and their settlement,
integrity failures of routes, metrics and the main thread's own timeout.

In the Cortex runtime: which step of a plan is the frontier (any), text and
wording of proposals, operations and attempts of the strategic layer, the rebase
of goals on maps; anchors and waypoints of an expansion; several sidecar owners
(`Owned` is `TRUE` in the run). In the worker: build geometry (targets overlap
when they are equal), circuit breakers and temporary suppressions (they only
refuse, and any command may be refused), effects other than builds, raw actions
other than builds, the outbox of placement transitions in `protocol.py`,
feature-mode primitives. The supervisor, console and playbook have protocols of
their own and are in the plan; extraction, contracts, configuration, providers
and evaluation have none.

## Plan

1. `PlacementOutbox`: the worker's durable outbox against the store's placement
   identities, with lost acknowledgements and crashes of both sides.
2. `LiveSupervisor`: worker exit, cancellation, synthetic result, with the
   engine's `EndEpisode` before its first tick.
3. The other effect families and the primitive sequences of feature mode;
   `ConsoleHub`; `PlaybookLifecycle`.
4. Proofs: the modules above, as they come; then the composition of the store
   with the engine, `RuntimeRecovery`'s log as the table that `EventStore` keeps
   (`TableInOrder` and `FlushAndCheckpointAreDurable` are what its crash assumes).
