------------------------- MODULE ExpansionCommitment -------------------------
(***************************************************************************)
(* runtime/cortex_engine.py: the expansion goal and the commitment that    *)
(* serves it, which CortexRuntimeEngine keeps across macro plans, scouting *)
(* generations, reports and restarts.                                      *)
(*                                                                         *)
(* The event log holds the Cortex events since the checkpoint that a       *)
(* recovery reads; a crash loses its last events (see EventStore) and the  *)
(* next process replays the rest (_recover_cortex_episode).  A tick is one *)
(* action: nothing else runs between its parts, and a crash within it is   *)
(* one after it that loses more events.  (A tick that waits for its first  *)
(* plan accepts it after the alerts, like a next tick with the same        *)
(* observation would.)                                                     *)
(*                                                                         *)
(* Abstracted: a plan is the bases that its executable townhall steps ask  *)
(* for (0: none), and which of the macro part's later commands are for a   *)
(* townhall is left open; the game clock is the ticks a cooldown still     *)
(* lasts (in the log too); evaluated anchors and waypoints are left out.   *)
(***************************************************************************)
EXTENDS Integers, Sequences, FiniteSets

CONSTANTS Seen,         \* numbers of townhalls that an observation can show
          Desired,      \* numbers of bases that a plan can ask for
          Budget,       \* ExpansionGoalState.retry_budget
          Cooldown,     \* ticks that the cooldown of 32 loops lasts
          MaxEpoch,     \* bound on the scouting generations
          MaxLog,       \* bound on the events since the checkpoint
          MaxCrashes    \* bound on the restarts

ASSUME BoundAssumption ==
  /\ Seen \subseteq Nat /\ Desired \subseteq Nat \ {0, 1}
  /\ {Budget, Cooldown, MaxEpoch, MaxLog, MaxCrashes} \subseteq Nat
  /\ Budget # 0       \* always the default, 8

VARIABLES
  mem,        \* what the engine keeps of the expansion, a record
  command,    \* a townhall command of the macro part is in flight
  epoch,      \* the scouting generation that the worker last reported
  checkpoint, \* the expansion part of the last cortex checkpoint
  log,        \* the events after it
  ended,      \* the episode has a result
  crashes     \* restarts so far

vars == <<mem, command, epoch, checkpoint, log, ended, crashes>>

Epoch == 0 .. MaxEpoch

(* What an observation says of the expansion.                              *)
Observation == [bases : Seen, gen : Epoch,
                report : {"searching", "candidate", "drained"}]

NoCommitment == [rev |-> 0, epoch |-> -1]

(* ExpansionGoalState.  There is no goal before the first revision.        *)
Goal ==
  [rev : Nat, desired : Desired, observed : Nat, epoch : Epoch,
   exhausted : SUBSET Epoch, budget : 0 .. Budget, cool : 0 .. Cooldown,
   waiting : BOOLEAN, closed : BOOLEAN]

NoGoal == [rev |-> 0, desired |-> 0, observed |-> 0, epoch |-> 0, exhausted |-> {},
           budget |-> 0, cool |-> 0, waiting |-> FALSE, closed |-> FALSE]

InitMem == [commit |-> NoCommitment, gen |-> 0, sent |-> FALSE, goal |-> NoGoal,
            scout |-> 0, exhaustedGen |-> -1]

Open(m) == m.commit # NoCommitment
HasGoal(m) == m.goal # NoGoal

Started(m)       == [kind |-> "started", commit |-> m.commit, gen |-> m.gen]
Terminal(m, why) == [kind |-> "terminal", why |-> why, gen |-> m.gen]
Sent             == [kind |-> "dispatched"]
GoalEvent(m)     == [kind |-> "goal", goal |-> m.goal]

(* A change of mem with the events it appends.                             *)
Change(m, events) == [mem |-> m, log |-> events]
Then(c, d) == Change(d.mem, c.log \o d.log)
Keep(m) == Change(m, <<>>)

Init ==
  /\ mem = InitMem /\ checkpoint = InitMem /\ log = <<>>
  /\ command = FALSE /\ epoch = 0
  /\ ended = FALSE /\ crashes = 0
-----------------------------------------------------------------------------
(* _terminate_expansion_commitment, _terminalize_expansion_goal.           *)

(* Mutant: the next commitment starts as already dispatched.               *)
ReleasedStillSent(m) == [m EXCEPT !.commit = NoCommitment, !.gen = 0]
Released(m) == [m EXCEPT !.commit = NoCommitment, !.gen = 0, !.sent = FALSE]

Terminate(m, why) ==
  IF Open(m) THEN Change(Released(m), <<Terminal(m, why)>>) ELSE Keep(m)

CloseGoal(m) ==
  LET closed == [m EXCEPT !.goal.closed = TRUE]
  IN  IF HasGoal(m) /\ ~m.goal.closed THEN Change(closed, <<GoalEvent(closed)>>)
      ELSE Keep(m)

(* _ensure_expansion_goal: a first goal, or one for more bases.            *)
NewGoal(m, o, desired) ==
  LET n == [m EXCEPT !.goal =
              [NoGoal EXCEPT !.rev = m.goal.rev + 1, !.desired = desired,
                             !.observed = o.bases, !.epoch = m.scout,
                             !.budget = Budget]]
  IN  Change(n, <<GoalEvent(n)>>)

EnsureGoal(m, o, desired) ==
  LET seen == [m EXCEPT !.goal.observed = o.bases]
  IN  CASE ~HasGoal(m) -> NewGoal(m, o, desired)
        [] HasGoal(m) /\ o.bases >= m.goal.desired -> CloseGoal(seen)
        [] HasGoal(m) /\ o.bases < m.goal.desired ->
             IF desired > m.goal.desired THEN NewGoal(seen, o, desired) ELSE Keep(seen)

(* _ensure_expansion_commitment, when a plan is accepted.  Mutant: the     *)
(* epoch that was exhausted does not matter.                               *)
MayCommitAgain(m) ==
  /\ ~Open(m)
  /\ ~m.goal.closed /\ m.goal.observed < m.goal.desired /\ m.goal.cool = 0

MayCommit(m) ==
  /\ ~Open(m) /\ m.exhaustedGen # m.scout
  /\ ~m.goal.closed /\ m.goal.observed < m.goal.desired /\ m.goal.cool = 0

Commit(m) ==
  LET n == [m EXCEPT !.commit = [rev |-> m.goal.rev, epoch |-> m.scout],
                     !.gen = m.scout, !.sent = FALSE]
  IN  IF MayCommit(m) THEN Change(n, <<Started(n)>>) ELSE Keep(m)

EnsureCommitment(m, o, desired) ==
  IF desired = 0
  THEN IF m.sent THEN Keep(m) ELSE Terminate(m, "strategic_cancellation")
  ELSE LET g == EnsureGoal(m, o, desired) IN Then(g, Commit(g.mem))
-----------------------------------------------------------------------------
(* _update_expansion_candidate_state, part by part: the bases of the       *)
(* observation, a newer scouting generation, and the end of the search.    *)

ObserveBases(m, o) ==
  LET seen == [m EXCEPT !.goal.observed = o.bases, !.goal.epoch = m.scout]
      end  == Terminate(seen, "desired_base_count_satisfied")
  IN  CASE ~HasGoal(m) -> Keep(m)
        [] HasGoal(m) /\ ~m.goal.closed /\ o.bases >= m.goal.desired ->
             Then(end, CloseGoal(end.mem))
        [] OTHER -> Keep(seen)

(* Mutant: a goal that waits for candidates goes on waiting in the log.    *)
ReopenQuietly(m) == Keep([m EXCEPT !.goal.waiting = FALSE, !.goal.cool = 0,
                                   !.goal.epoch = m.scout])
Reopen(m) ==
  LET open == [m EXCEPT !.goal.waiting = FALSE, !.goal.cool = 0, !.goal.epoch = m.scout]
  IN  Change(open, <<GoalEvent(open)>>)

ObserveEpoch(m, o) ==
  LET next == [m EXCEPT !.scout = o.gen,
                        !.gen = IF Open(m) /\ m.gen = 0 THEN o.gen ELSE m.gen]
  IN  IF o.gen <= m.scout THEN Keep(m)
      ELSE IF m.goal.waiting /\ ~m.goal.closed THEN Reopen(next) ELSE Keep(next)

Exhaust(m) ==
  LET end   == Terminate([m EXCEPT !.exhaustedGen = m.scout], "expansion_candidates_exhausted")
      g     == m.goal
      spent == [end.mem EXCEPT !.goal =
                  [g EXCEPT !.exhausted = @ \cup {m.scout}, !.waiting = TRUE,
                            !.budget = IF @ = 0 THEN 0 ELSE @ - 1, !.cool = Cooldown]]
      paid  == Then(end, Change(spent, <<GoalEvent(spent)>>))
  IN  IF ~HasGoal(m) THEN end
      ELSE IF spent.goal.budget = 0 THEN Then(paid, CloseGoal(spent)) ELSE paid

ObserveReport(m, o) ==
  IF \/ o.report = "candidate" /\ m.exhaustedGen # m.scout
     \/ ~Open(m) \/ o.report # "drained"
  THEN Keep(m) ELSE Exhaust(m)

UpdateCandidates(m, o) ==
  LET a == ObserveBases(m, o)
      b == Then(a, ObserveEpoch(a.mem, o))
  IN  Then(b, ObserveReport(b.mem, o))
-----------------------------------------------------------------------------
(* _recover_cortex_episode.                                                *)

Max(S) == CHOOSE n \in S : \A k \in S : k <= n

(* The position of the last event of a kind, 0 without one.                *)
LastOf(es, kind) == Max({0} \cup {i \in DOMAIN es : es[i].kind = kind})

(* Mutant: the checkpoint's goal is not replaced by the events after it.   *)
WithOldGoal(m, es) == m
WithGoal(m, es) ==
  LET i == LastOf(es, "goal")
      g == es[i].goal
  IN  IF i = 0 THEN m
      ELSE [m EXCEPT !.goal = g,
                     !.exhaustedGen = IF g.exhausted = {} THEN @ ELSE Max(g.exhausted),
                     !.scout = Max({@, g.epoch})]

(* Mutant: a terminal commitment is started again.                         *)
WithStartedCommitment(m, es) ==
  LET s == LastOf(es, "started")
  IN  IF s = 0 THEN m
      ELSE [m EXCEPT !.commit = es[s].commit, !.gen = es[s].gen,
                     !.sent = LastOf(es, "dispatched") > s]

WithCommitment(m, es) ==
  LET s == LastOf(es, "started")
      t == LastOf(es, "terminal")
  IN  CASE s > t -> [m EXCEPT !.commit = es[s].commit, !.gen = es[s].gen,
                              !.sent = LastOf(es, "dispatched") > s]
        [] s <= t /\ t > 0 -> Released(m)
        [] OTHER -> m

WithExhaustion(m, es) ==
  LET t == LastOf(es, "terminal")
  IN  IF t > 0 /\ es[t].why = "expansion_candidates_exhausted"
      THEN [m EXCEPT !.exhaustedGen = es[t].gen] ELSE m

Recovered(m, es) == WithExhaustion(WithCommitment(WithGoal(m, es), es), es)
-----------------------------------------------------------------------------
(* Time passes for the cooldown, wherever it is kept.                      *)
Cooler(g) == [g EXCEPT !.cool = IF @ = 0 THEN 0 ELSE @ - 1]
CoolerMem(m) == [m EXCEPT !.goal = Cooler(@)]
CoolerLog(es) ==
  [i \in DOMAIN es |-> IF es[i].kind = "goal" THEN [es[i] EXCEPT !.goal = Cooler(@)]
                       ELSE es[i]]

DispatchTownhall(m) ==
  IF Open(m) /\ ~m.sent THEN Change([m EXCEPT !.sent = TRUE], <<Sent>>) ELSE Keep(m)

(* tick with observation o: a plan for `desired` bases (0: without a       *)
(* townhall) is accepted or none is, the alerts are read, a townhall       *)
(* command is dispatched (`send`) or not, and a checkpoint is due or not.  *)
NoPlan == -1

Tick(o, desired) ==
  LET a == Keep(CoolerMem(mem))
      b == IF desired = NoPlan THEN a ELSE EnsureCommitment(a.mem, o, desired)
      c == Then(b, UpdateCandidates(b.mem, o))
  IN  /\ ~ended /\ o.gen >= epoch
      /\ epoch' = o.gen
      /\ \E send \in {FALSE, ~command} :
           LET d == IF send THEN Then(c, DispatchTownhall(c.mem)) ELSE c IN
           /\ command' = (command \/ send)
           /\ mem' = d.mem
           /\ \/ checkpoint' = d.mem /\ log' = <<>>
              \/ /\ checkpoint' = CoolerMem(checkpoint)
                 /\ log' = CoolerLog(log) \o d.log
                 /\ Len(log') <= MaxLog
      /\ UNCHANGED <<ended, crashes>>

(* record_execution, for the townhall command (success:                    *)
(* _terminate_expansion_commitment_from_report; any failure leaves the     *)
(* commitment as it is).                                                   *)
Confirm(m) ==
  LET end == Terminate(m, "townhall_effect_confirmed")
      g   == m.goal
      n   == [end.mem EXCEPT !.goal.observed = IF @ < g.desired THEN @ + 1 ELSE g.desired]
  IN  IF ~Open(m) THEN Keep(m)
      ELSE IF n.goal.observed < g.desired THEN Change(n, end.log)
      ELSE LET c == [n EXCEPT !.goal.closed = TRUE] IN Change(c, end.log \o <<GoalEvent(c)>>)

Report(succeeded) ==
  /\ command /\ ~ended
  /\ command' = FALSE
  /\ LET c == IF succeeded THEN Confirm(mem) ELSE Keep(mem)
     IN  mem' = c.mem /\ log' = log \o c.log
  /\ Len(log') <= MaxLog
  /\ UNCHANGED <<epoch, checkpoint, ended, crashes>>

EndEpisode ==
  /\ ~ended
  /\ ended' = TRUE /\ command' = FALSE
  /\ mem' = Terminate(mem, "strategic_cancellation").mem
  /\ checkpoint' = mem' /\ log' = <<>>
  /\ UNCHANGED <<epoch, crashes>>

(* The process dies with the events after the n-th not yet written.  The   *)
(* command and the plan come back from other events, which may be older.   *)
Crash(n) ==
  /\ crashes < MaxCrashes
  /\ n \in 0 .. Len(log)
  /\ crashes' = crashes + 1
  /\ log' = SubSeq(log, 1, n)
  /\ mem' = Recovered(checkpoint, log')
  /\ command' \in {command, FALSE}
  /\ UNCHANGED <<epoch, checkpoint, ended>>

Next ==
  \/ \E o \in Observation, desired \in {NoPlan, 0} \cup Desired : Tick(o, desired)
  \/ \E succeeded \in BOOLEAN : Report(succeeded)
  \/ EndEpisode
  \/ \E n \in 0 .. MaxLog : Crash(n)

Spec == Init /\ [][Next]_vars
-----------------------------------------------------------------------------
(* Properties.                                                             *)

TypeOK ==
  /\ mem.commit \in [rev : Nat, epoch : {-1} \cup Epoch]
  /\ mem.gen \in Epoch /\ mem.sent \in BOOLEAN
  /\ mem.goal \in Goal \cup {NoGoal}
  /\ mem.scout \in Epoch /\ mem.exhaustedGen \in {-1} \cup Epoch
  /\ Len(log) <= MaxLog
  /\ (mem.sent => Open(mem)) /\ (Open(mem) => HasGoal(mem))

(* "Finite exhaustion cannot immediately create an identical commitment":  *)
(* no commitment is open for an epoch that its goal has seen exhausted     *)
(* (_ensure_expansion_commitment, across restarts).                        *)
NoRearm == Open(mem) => mem.commit.epoch \notin mem.goal.exhausted

(* In one process, each exhausted epoch takes one retry of the goal's      *)
(* budget, and no epoch is paid for twice.                                 *)
BudgetPaysPerEpoch ==
  crashes = 0 /\ HasGoal(mem) => mem.goal.budget = Budget - Cardinality(mem.goal.exhausted)

Recovery == Recovered(checkpoint, log)

(* A restart that loses nothing continues the same commitment, and a       *)
(* terminal one stays terminal, wherever the checkpoint was taken.         *)
RecoversCommitment == Recovery.commit = mem.commit

(* "Recovery replays the latest expansion goal transition, including       *)
(* phase, generation, exhausted epoch, retry budget and cooldown".         *)
RecoversGoal ==
  [Recovery.goal EXCEPT !.observed = 0, !.epoch = 0]
    = [mem.goal EXCEPT !.observed = 0, !.epoch = 0]
=============================================================================
