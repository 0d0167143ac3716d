---------------------------- MODULE RuntimeEngine ----------------------------
(***************************************************************************)
(* runtime/engine.py, RuntimeEngine: one episode in one process.           *)
(*                                                                         *)
(* Every API handler is a coroutine of one event loop, so the code between *)
(* two awaits is atomic.  The tick handler is cut where its parts are      *)
(* named in the source; `phase` says which part has the control, and no    *)
(* other handler runs before the tick returns, except while it awaits an   *)
(* initial or deterministic plan (phase "await").                          *)
(*                                                                         *)
(* Each action leaves in `emitted` the events it appends to the event      *)
(* store, in order; RuntimeRecovery composes the engine with the store.    *)
(*                                                                         *)
(* Abstracted: what a command asks for (its semantic key, actor and        *)
(* priority are constants of its ID), the observation (the verdict of the  *)
(* progress guard and of the validator on a candidate is any), goal        *)
(* progress, decision payloads, latency, reasons (and so the lifecycle     *)
(* events that change nothing but the reason).  Game loops are ages: the   *)
(* loops since acceptance and since the planner's last start, which        *)
(* saturate where the code's comparisons stop telling them apart, so no    *)
(* bound on time is needed.                                                *)
(***************************************************************************)
EXTENDS Integers, Sequences, FiniteSets, CommandStatus

CONSTANTS Planner,       \* IDs the action module can give to plan commands
          Reflex,        \* IDs the reflex policies can give to commands
          Actor, ActorOf,
          KeyOf,         \* semantic key: (actor, name, arguments)
          Priority,      \* command priority
          Report, NoReport, OutcomeOf,
          Missing,       \* the report end_episode synthesises
          Result, NoResult,  \* contents of an episode result
          TTL,           \* runtime.planner_command_ttl_game_loops
          Interval,      \* runtime.planning_interval_game_loops
          MaxActions,    \* runtime.max_actions
          Lapses,        \* game loops that can pass between two ticks
          PlannerEnabled, \* the agent variant has a planner
          Deterministic, \* runtime.deterministic
          AwaitFirstPlan \* environment.pause_until_first_plan

Command == Planner \cup Reflex

VARIABLES
  status,      \* _command_states: the status of each command
  report,      \* _terminal_execution_fingerprints
  delivered,   \* number of returned batches that carry the command
  hasPlan,     \* _cached_plan is not None
  plan,        \* the command IDs of _cached_plan
  age,         \* game loops since the command was accepted, up to TTL
  since,       \* game loops since the planner last started, up to Interval
  planner,     \* _planner_task: "idle", "running" or "done"
  urgent,      \* _urgent_replan_requested
  exhausted,   \* _exhaustion_requested_for names the cached plan
  ended,       \* _episode_result_fingerprint
  phase,       \* the part of the tick handler that has the control
  emitted      \* the events appended by the last step

vars == <<status, report, delivered, hasPlan, plan, age, since, planner,
          urgent, exhausted, ended, phase, emitted>>

CL == INSTANCE CommandLifecycle WITH
        Command <- Command, status <- status, report <- report,
        delivered <- delivered

ASSUME CommandAssumption == /\ Planner \cap Reflex = {}
                            /\ IsFiniteSet(Planner)
                            /\ IsFiniteSet(Reflex)
ASSUME ContentAssumption == /\ ActorOf \in [Command -> Actor]
                            /\ \A c, d \in Planner : KeyOf[c] = KeyOf[d]
                                                     => ActorOf[c] = ActorOf[d]
                            /\ Priority \in [Command -> Nat]
                            /\ NoReport \notin Report
                            /\ Missing \in Report
                            /\ OutcomeOf \in [Report -> Reported]
                            /\ OutcomeOf[Missing] = "cancelled"
                            /\ NoResult \notin Result
ASSUME ConfigAssumption  == /\ TTL \in Nat \ {0}
                            /\ Interval \in Nat \ {0}
                            /\ MaxActions \in Nat \ {0}
                            /\ Lapses \subseteq Nat \ {0}
                            /\ PlannerEnabled \in BOOLEAN
                            /\ Deterministic \in BOOLEAN
                            /\ AwaitFirstPlan \in BOOLEAN
-----------------------------------------------------------------------------
(* Events of the store.  A snapshot carries the state a restart restores.  *)

LifecycleEvent(c, s) == [kind |-> "lifecycle", cmd |-> c, status |-> s]
ExecutionEvent(c, r) == [kind |-> "execution", cmd |-> c, report |-> r]
PlanEvent(P)         == [kind |-> "plan", cmds |-> P]
ResultEvent(x)       == [kind |-> "result", result |-> x]

(* Mutant: a checkpoint payload without the report fingerprints.           *)
SnapshotWithoutReports(st, rp, hp, pl, ur, en) ==
  [kind |-> "snapshot", status |-> st, report |-> [c \in Command |-> NoReport],
   hasPlan |-> hp, plan |-> pl, urgent |-> ur, ended |-> en]

Snapshot(st, rp, hp, pl, ur, en) ==
  [kind |-> "snapshot", status |-> st, report |-> rp, hasPlan |-> hp,
   plan |-> pl, urgent |-> ur, ended |-> en]

Event ==
  [kind : {"lifecycle"}, cmd : Command, status : Status]
    \cup [kind : {"execution"}, cmd : Command, report : Report]
    \cup [kind : {"plan"}, cmds : SUBSET Planner]
    \cup [kind : {"result"}, result : Result]
    \cup [kind : {"snapshot"}, status : [Command -> Status],
          report : [Command -> Report \cup {NoReport}], hasPlan : BOOLEAN,
          plan : SUBSET Planner, urgent : BOOLEAN,
          ended : Result \cup {NoResult}]

(* The elements of S in some order.                                        *)
Listing(S) ==
  CHOOSE q \in [1 .. Cardinality(S) -> S] : \A x \in S : \E i \in DOMAIN q : q[i] = x

(* One lifecycle event for each command of S.                              *)
Moved(S, s) == [i \in 1 .. Cardinality(S) |-> LifecycleEvent(Listing(S)[i], s)]

(* The statuses after every command of S moved to s.                       *)
Put(st, S, s) == [c \in Command |-> IF c \in S THEN s ELSE st[c]]

Active == {c \in Command : status[c] \in Live}
InFlight == {c \in Command : status[c] = "dispatched"}

(* The actors that wait for the report of a dispatched command.            *)
Busy == {ActorOf[c] : c \in InFlight}

Capped(n, cap) == IF n > cap THEN cap ELSE n

(* The commands of the cached plan that can still be dispatched.  Mutant:  *)
(* a dispatched command stays a candidate.                                 *)
PlanFrontierWithSent(st, P) == {c \in P : st[c] \in Live}
PlanFrontier(st, P) == {c \in P : st[c] \in Actionable}

Init ==
  /\ status = [c \in Command |-> "none"]
  /\ report = [c \in Command |-> NoReport]
  /\ delivered = [c \in Command |-> 0]
  /\ hasPlan = FALSE /\ plan = {}
  /\ age = [c \in Command |-> 0]
  /\ since = Interval           \* _last_planner_started_game_loop is None
  /\ planner = "idle" /\ urgent = FALSE /\ exhausted = FALSE
  /\ ended = NoResult
  /\ phase = "unbound"
  /\ emitted = <<>>
-----------------------------------------------------------------------------
(* tick, until the planner's result is collected: the observation moves    *)
(* the game clock by d loops.  A tick after the worker's episode result is *)
(* not modelled: the worker sends that result last.                        *)
BeginTick(d) ==
  /\ phase \in {"unbound", "idle"}
  /\ ended = NoResult
  /\ phase' = "collect"
  /\ age' = [c \in Command |-> IF status[c] = "none" THEN 0
                               ELSE Capped(age[c] + d, TTL)]
  /\ since' = Capped(since + d, Interval)
  /\ emitted' = <<>>
  /\ UNCHANGED <<status, report, delivered, hasPlan, plan, planner, urgent,
                 exhausted, ended>>

(* _accept_plan for the proposed commands P.  A proposal that asks for the *)
(* same thing as a live planner command keeps that command, the oldest     *)
(* first; the other actionable commands, reflex ones too, are superseded.  *)
(* An ID that has a lifecycle already makes the whole plan an error.       *)
KeyedAlike(S, k) == {c \in S : KeyOf[c] = k}

(* The commands that a new plan can keep.  Mutant: reflex ones as well.    *)
LiveAny(st) == {c \in Command : st[c] \in Live}
LivePlanner(st) == {c \in Planner : st[c] \in Live}

Lesser(m, n) == IF m < n THEN m ELSE n

Retainable(P, R) ==
  \A k \in {KeyOf[c] : c \in P \cup R} :
    LET live == KeyedAlike(LivePlanner(status), k)
        kept == KeyedAlike(R, k)
    IN  /\ Cardinality(kept) = Lesser(Cardinality(live), Cardinality(KeyedAlike(P, k)))
        /\ \A c \in kept, d \in live \ kept : age[c] >= age[d]

Accepted(P, R, N) ==
  /\ R \subseteq LivePlanner(status) /\ N \subseteq P
  /\ Retainable(P, R)
  /\ \A k \in {KeyOf[c] : c \in P} :
       Cardinality(KeyedAlike(N, k)) + Cardinality(KeyedAlike(R, k))
         = Cardinality(KeyedAlike(P, k))

(* Mutant: an ID may be used again once its command is closed.             *)
NotLive(P) == \A c \in P : status[c] \notin Live
Unused(P) == \A c \in P : status[c] = "none"

(* The commands that the plan which keeps R supersedes.  Mutants: only the *)
(* pending ones, and also the dispatched ones.                             *)
OutdatedPending(R) == {c \in Command : status[c] = "pending"} \ R
OutdatedInFlight(R) == Active \ R
Outdated(R) == {c \in Command : status[c] \in Actionable} \ R

AcceptPlan(P) ==
  /\ Unused(P)
  /\ \E R \in SUBSET LivePlanner(status), N \in SUBSET P :
       LET gone == Outdated(R)
       IN  /\ Accepted(P, R, N)
           /\ status' = Put(Put(status, gone, "superseded"), N, "pending")
           /\ age' = [c \in Command |-> IF c \in N THEN 0 ELSE age[c]]
           /\ plan' = R \cup N
           /\ emitted' = Moved(gone, "superseded") \o <<PlanEvent(R \cup N)>>
                           \o Moved(N, "pending")
  /\ hasPlan' = TRUE
  /\ exhausted' = FALSE

RefusePlan == UNCHANGED <<status, age, plan, hasPlan, exhausted>> /\ emitted' = <<>>

(* _collect_finished_planner: nothing to collect, a plan, or an error (the *)
(* planner timed out or failed, or its plan reuses a command ID).          *)
CollectFinishedPlanner ==
  /\ phase = "collect"
  /\ phase' = "expire"
  /\ IF planner = "done"
     THEN /\ planner' = "idle"
          /\ RefusePlan \/ \E P \in SUBSET Planner : AcceptPlan(P)
     ELSE RefusePlan /\ UNCHANGED planner
  /\ UNCHANGED <<report, delivered, since, urgent, ended>>

(* The middle of tick: new alerts ask for a plan, _should_plan is decided, *)
(* and then the plan's commands past their TTL expire.  The memory module  *)
(* reads the store, which flushes it.  _begin_planner_cycle starts the     *)
(* planner in the background, or awaits it.                                *)
(* Mutant: only an episode without a plan gets one.                        *)
ShouldPlanOnce(ur) == PlannerEnabled /\ planner = "idle" /\ ~hasPlan
ShouldPlan(ur) ==
  PlannerEnabled /\ planner = "idle" /\ (ur \/ since >= Interval)

(* The plan's commands past their TTL.  Mutant: not the deferred ones.     *)
StalePending == {c \in PlanFrontier(status, plan) :
                   age[c] >= TTL /\ status[c] = "pending"}
Stale == {c \in PlanFrontier(status, plan) : age[c] >= TTL}

Awaited == Deterministic \/ (AwaitFirstPlan /\ ~hasPlan)

ExpireAndPlan(alert) ==
  LET due == ShouldPlan(urgent \/ alert)
  IN  /\ phase = "expire"
      /\ status' = Put(status, Stale, "expired")
      /\ emitted' = Moved(Stale, "expired")
      /\ urgent' = (~due /\ (urgent \/ alert \/ Stale # {}))
      /\ since' = IF due THEN 0 ELSE since
      /\ phase' = IF due /\ Awaited THEN "await" ELSE "select"
      /\ planner' = IF due /\ ~Awaited THEN "running" ELSE planner
      /\ UNCHANGED <<report, delivered, hasPlan, plan, age, exhausted, ended>>

(* The background deliberation ends; asyncio.wait_for bounds its time.     *)
FinishPlanner ==
  /\ planner = "running"
  /\ planner' = "done"
  /\ emitted' = <<>>
  /\ UNCHANGED <<status, report, delivered, hasPlan, plan, age, since, urgent,
                 exhausted, ended, phase>>

(* The awaited plan is accepted and the tick goes on; when it failed, a    *)
(* deterministic run goes on without it and the barrier aborts the tick.   *)
ResumeAwaitedTick ==
  /\ phase = "await"
  /\ \/ /\ \E P \in SUBSET Planner : AcceptPlan(P)
        /\ phase' = "select"
     \/ /\ RefusePlan
        /\ phase' = IF Deterministic THEN "select" ELSE "idle"
  /\ UNCHANGED <<report, delivered, since, planner, urgent, ended>>
-----------------------------------------------------------------------------
(* The rest of tick.  The candidates are the plan's actionable commands    *)
(* and the reflex commands without a lifecycle.                            *)

Verdict == {"accept", "guard", "defer", "reject", "obsolete"}

Rank(c) == 2 * Priority[c] + IF c \in Reflex THEN 1 ELSE 0

Judged(V, v) == {c \in DOMAIN V : V[c] = v}

(* ActionArbiter: of the valid commands, the first with the highest        *)
(* precedence for each actor.                                              *)
Winners(W, valid) ==
  /\ W \subseteq valid
  /\ \A c, d \in W : ActorOf[c] = ActorOf[d] => c = d
  /\ \A c \in valid : \E w \in W : ActorOf[w] = ActorOf[c] /\ Rank(w) >= Rank(c)

(* ActionValidator.validate with the budget: the highest ranks of W.       *)
WithinBudget(B, W) ==
  /\ B \subseteq W
  /\ Cardinality(B) = Lesser(Cardinality(W), MaxActions)
  /\ \A b \in B, w \in W \ B : Rank(b) >= Rank(w)

(* V is the verdict on each candidate, W the commands the arbiter selects  *)
(* and B those the action budget admits; snap says that a checkpoint is    *)
(* due.  A command for a busy actor waits: a plan command is deferred and  *)
(* a reflex one is dropped without a trace.                                *)
SelectAndDispatch(V, W, B, snap) ==
  LET unguard  == DOMAIN V \ Judged(V, "guard")
      blocked  == {c \in unguard : ActorOf[c] \in Busy}
      waiting  == blocked \cap Planner
      open     == unguard \ blocked
      valid    == open \cap Judged(V, "accept")
      deferred == open \cap Judged(V, "defer")
      rejected == open \cap Judged(V, "reject")
      obsolete == open \cap Judged(V, "obsolete")
      revived  == {c \in valid \cap Planner : status[c] = "deferred"}
      excess   == W \ B
      st1 == Put(Put(status, Judged(V, "guard"), "rejected"), waiting, "deferred")
      st2 == Put(Put(Put(st1, deferred, "deferred"), rejected, "rejected"),
                 obsolete, "obsolete")
      st3 == Put(st2, revived, "pending")
      st4 == Put(Put(st3, excess, "deferred"), B, "dispatched")
      failed == (Judged(V, "guard") \cup rejected \cup obsolete) \cap Planner
      spent  == /\ PlannerEnabled /\ hasPlan /\ plan # {}
                /\ PlanFrontier(st4, plan) = {} /\ ~exhausted
      ur     == urgent \/ failed # {} \/ spent
  IN  /\ phase = "select"
      /\ Winners(W, valid) /\ WithinBudget(B, W)
      /\ status' = st4
      /\ delivered' = [c \in Command |-> delivered[c] + IF c \in B THEN 1 ELSE 0]
      /\ exhausted' = (exhausted \/ spent)
      /\ urgent' = ur
      /\ emitted' =
           Moved(Judged(V, "guard"), "rejected")
             \o Moved({c \in waiting : status[c] # "deferred"}, "deferred")
             \o Moved({c \in deferred : status[c] # "deferred"}, "deferred")
             \o Moved(rejected, "rejected") \o Moved(obsolete, "obsolete")
             \o Moved(revived, "pending")
             \o Moved(excess, "deferred") \o Moved(B, "dispatched")
             \o IF snap THEN <<Snapshot(st4, report, hasPlan, plan, ur, ended)>>
                        ELSE <<>>
      /\ phase' = "idle"
      /\ UNCHANGED <<report, hasPlan, plan, age, since, planner, ended>>

Select ==
  \E R \in SUBSET {c \in Reflex : status[c] = "none"} :
    \E V \in [PlanFrontier(status, plan) \cup R -> Verdict] :
      \E W \in SUBSET Judged(V, "accept") : \E B \in SUBSET W, snap \in BOOLEAN :
        SelectAndDispatch(V, W, B, snap)
-----------------------------------------------------------------------------
(* The handlers that can also run while a tick awaits a plan.              *)
Interruptible == phase \in {"unbound", "idle", "await"}

(* /v1/execution.  A second report with the same content is ignored; one   *)
(* with other content, for an unknown command, or for a command that is    *)
(* not dispatched, is an error that changes nothing.  Mutant: a later      *)
(* report corrects an earlier one.                                         *)
CorrectsReport(c) == status[c] \in {"dispatched"} \cup Reported
AwaitsReport(c) == report[c] = NoReport /\ status[c] = "dispatched"

RecordExecution(c, r) ==
  /\ Interruptible
  /\ AwaitsReport(c)
  /\ report' = [report EXCEPT ![c] = r]
  /\ status' = [status EXCEPT ![c] = OutcomeOf[r]]
  /\ emitted' = <<ExecutionEvent(c, r), LifecycleEvent(c, OutcomeOf[r])>>
  /\ urgent' = (urgent \/ OutcomeOf[r] # "succeeded")
  /\ UNCHANGED <<delivered, hasPlan, plan, age, since, planner, exhausted, ended,
                 phase>>

(* /v1/episode/end, and the supervisor's synthetic result.  Every live     *)
(* command is cancelled by a synthetic report; a repeated result is        *)
(* ignored and a conflicting one is an error.                              *)
Cancelled(S) ==
  [i \in 1 .. 2 * Cardinality(S) |->
     LET c == Listing(S)[(i + 1) \div 2]
     IN  IF i % 2 = 1 THEN ExecutionEvent(c, Missing)
                      ELSE LifecycleEvent(c, "cancelled")]

EndEpisode(x) ==
  LET st == Put(status, Active, "cancelled")
      rp == [c \in Command |-> IF c \in Active THEN Missing ELSE report[c]]
      ur == urgent \/ Active # {}
  IN  /\ Interruptible
      /\ ended = NoResult
      /\ status' = st
      /\ report' = rp
      /\ urgent' = ur
      /\ ended' = x
      /\ emitted' = Cancelled(Active)
                      \o <<ResultEvent(x), Snapshot(st, rp, hasPlan, plan, ur, x)>>
      /\ UNCHANGED <<delivered, hasPlan, plan, age, since, planner, exhausted, phase>>
-----------------------------------------------------------------------------
Tick == \/ \E d \in Lapses : BeginTick(d)
        \/ CollectFinishedPlanner
        \/ \E alert \in BOOLEAN : ExpireAndPlan(alert)
        \/ ResumeAwaitedTick
        \/ Select

Next == \/ Tick
        \/ FinishPlanner
        \/ \E c \in Command, r \in Report : RecordExecution(c, r)
        \/ \E x \in Result : EndEpisode(x)

Spec == Init /\ [][Next]_vars

(* The game goes on, so ticks keep coming and each runs to its end, and    *)
(* the planner answers or times out.                                       *)
FairSpec == Spec /\ WF_vars(Tick) /\ WF_vars(FinishPlanner)
-----------------------------------------------------------------------------
(* Type invariant of the engine's state.                                   *)
TypeOK ==
  /\ status \in [Command -> Status]
  /\ report \in [Command -> Report \cup {NoReport}]
  /\ delivered \in [Command -> Nat]
  /\ hasPlan \in BOOLEAN /\ plan \in SUBSET Planner
  /\ age \in [Command -> 0..TTL]
  /\ since \in 0..Interval
  /\ planner \in {"idle", "running", "done"}
  /\ urgent \in BOOLEAN /\ exhausted \in BOOLEAN
  /\ ended \in Result \cup {NoResult}
  /\ phase \in {"unbound", "idle", "collect", "expire", "await", "select"}
  /\ emitted \in Seq(Event)

(* An actor never has two commands in flight, however plans, reflexes and  *)
(* reports interleave (_defer_busy_actor_commands, ActionArbiter).         *)
OneInFlight == CL!OneInFlight

(* A command is closed by a report exactly when its fingerprint is kept,   *)
(* and with the status that the report stands for.                         *)
ReportClosesCommand ==
  \A c \in Command : IF report[c] = NoReport THEN status[c] \notin Reported
                                             ELSE status[c] = OutcomeOf[report[c]]

(* A plan command that could still be dispatched is in the cached plan, so *)
(* it expires or is superseded: none is orphaned by a later plan.          *)
NoOrphanedPlanCommand ==
  \A c \in Planner : status[c] \in Actionable => hasPlan /\ c \in plan

(* A command is in at most one batch returned to the worker; it is in one  *)
(* when it is in flight or has an outcome of its own, and in none when it  *)
(* waits or was dropped, whatever plans keep, defer and revive in between. *)
DeliveredOnce ==
  \A c \in Command :
    /\ delivered[c] \in 0..1
    /\ status[c] \in {"none"} \cup Actionable \cup Dropped => delivered[c] = 0
    /\ status[c] \in {"dispatched"} \cup (Reported \ {"cancelled"})
         => delivered[c] = 1

(* The engine does what the abstract specification promises.               *)
Implements == CL!Spec

(* What docs/live-runtime.md says of a live episode: each command moves    *)
(* "once through pending, deferred, dispatched, and one terminal state",   *)
(* and worker failure closes pending dispatches; so once the episode's     *)
(* result is recorded (end_episode) no command is live.                    *)
EndedEpisodeIsClosed == ended # NoResult => Active = {}

(* Every request for an urgent plan (alert, failed or rejected command,    *)
(* expired or exhausted plan) is served by a planner start, unless the     *)
(* episode ends: the planner's timeout keeps it from being in the way.     *)
UrgentPlanServed == urgent ~> (~urgent \/ ended # NoResult)

(* A plan command does not stay pending or deferred for ever: it is        *)
(* dispatched, dropped, or cancelled by the end of the episode.            *)
PlanCommandResolved ==
  \A c \in Planner :
    status[c] \in Actionable ~> (status[c] \notin Actionable \/ ended # NoResult)
=============================================================================
