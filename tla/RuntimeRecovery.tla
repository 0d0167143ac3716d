--------------------------- MODULE RuntimeRecovery ---------------------------
(***************************************************************************)
(* The engine on top of its event store, with Runtime crashes and restarts *)
(* (runtime/engine.py, _activate_episode and the checkpoint; the store as  *)
(* memory/store.py lets the engine see it).                                *)
(*                                                                         *)
(* append_event and record_snapshot only enqueue: a writer thread commits  *)
(* the queue in order.  `log` is everything enqueued, in order, and a      *)
(* crash leaves a prefix of it that holds at least what a flush has waited *)
(* for.  The memory module of each tick, the recovery and end_episode      *)
(* flush; the step after one of those handlers is the flush itself.        *)
(***************************************************************************)
EXTENDS RuntimeEngine, FiniteSetsExt

CONSTANTS MaxRestarts,   \* bound on the crashes of a behaviour
          MaxSnapshots,  \* bound on the checkpoints of a behaviour
          MaxLog         \* bound on the length of the log

VARIABLES log,       \* events and snapshots, in the order they were enqueued
          durable,   \* length of the prefix of log known to be committed
          flushing,  \* the handler is blocked in EventStore.flush
          restarts   \* crashes so far

storeVars == <<log, durable, flushing, restarts>>
allVars == <<vars, storeVars>>

Indices(L, K) == {i \in DOMAIN L : L[i].kind \in K}

(* The last index of L after s at which an event satisfies the test; s when *)
(* there is none.                                                           *)
LastAfter(L, s, I) == Max({s} \cup {i \in I : i > s})

LastSnapshot(L) == LastAfter(L, 0, Indices(L, {"snapshot"}))
-----------------------------------------------------------------------------
(* Replay of L from the snapshot at index s (from nothing when s = 0): the *)
(* snapshot's state, overwritten by the events after it.                   *)

Empty == Snapshot([c \in Command |-> "none"], [c \in Command |-> NoReport],
                  FALSE, {}, FALSE, NoResult)

Base(L, s) == IF s = 0 THEN Empty ELSE L[s]

About(L, k, c) == {i \in Indices(L, {k}) : L[i].cmd = c}

(* Mutant: the lifecycle events after the checkpoint are not read.         *)
CheckpointStatus(L, s) == Base(L, s).status

ReplayedStatus(L, s) ==
  [c \in Command |->
     LET i == LastAfter(L, s, About(L, "lifecycle", c))
     IN  IF i = s THEN Base(L, s).status[c] ELSE L[i].status]

ReplayedReport(L, s) ==
  [c \in Command |->
     LET i == LastAfter(L, s, About(L, "execution", c))
     IN  IF i = s THEN Base(L, s).report[c] ELSE L[i].report]

ReplayedPlan(L, s) ==
  LET i == LastAfter(L, s, Indices(L, {"plan"}))
  IN  IF i = s THEN [has |-> Base(L, s).hasPlan, cmds |-> Base(L, s).plan]
               ELSE [has |-> TRUE, cmds |-> L[i].cmds]

ReplayedResult(L, s) ==
  LET i == LastAfter(L, s, Indices(L, {"result"}))
  IN  IF i = s THEN Base(L, s).ended ELSE L[i].result

(* Commands whose execution event is in the tail but whose lifecycle event *)
(* was lost, and plan commands whose first lifecycle event was lost.       *)
(* Mutant: the latter are looked for in the tail only.                     *)
Unfinished(L, s) ==
  {c \in Command : /\ \E i \in About(L, "execution", c) : i > s
                   /\ ReplayedStatus(L, s)[c] \notin Reported}

Completed(L, s) ==
  [c \in Command |-> IF c \in Unfinished(L, s)
                     THEN OutcomeOf[ReplayedReport(L, s)[c]]
                     ELSE ReplayedStatus(L, s)[c]]

UnwrittenInTail(L, s) ==
  {c \in ReplayedPlan(L, s).cmds : \A i \in About(L, "lifecycle", c) : i <= s}

Unwritten(L, s) == {c \in ReplayedPlan(L, s).cmds : Completed(L, s)[c] = "none"}

RecoveredStatus(L, s) == Put(Completed(L, s), Unwritten(L, s), "pending")

(* The checks of _activate_episode that raise: an execution event of a     *)
(* command nothing is known of, two different ones for a command, one that *)
(* contradicts the lifecycle, or an illegal completion.  Mutant: a command *)
(* that is already complete is completed again.                            *)
RecoverableOnce(L, s) ==
  \A i \in Indices(L, {"execution"}) : i > s =>
    OutcomeOf[L[i].report] \in Allowed(ReplayedStatus(L, s)[L[i].cmd])

Recoverable(L, s) ==
  \A i \in Indices(L, {"execution"}) : i > s =>
    LET c  == L[i].cmd
        st == ReplayedStatus(L, s)[c]
        to == OutcomeOf[L[i].report]
    IN  /\ st # "none" \/ c \in ReplayedPlan(L, s).cmds
        /\ \A j \in About(L, "execution", c) : j > s => L[j].report = L[i].report
        /\ Base(L, s).report[c] \in {NoReport, L[i].report}
        /\ IF st \in Reported THEN st = to ELSE to \in Allowed(st)
-----------------------------------------------------------------------------
RecoveryInit == /\ Init
                /\ log = <<>> /\ durable = 0 /\ flushing = FALSE /\ restarts = 0

Keeps == UNCHANGED <<durable, restarts>>

(* The head of a restarted engine's first tick, _activate_episode: state   *)
(* from the last snapshot and the tail, missing lifecycle events written.  *)
(* The last planner start may be lost, so the time since may only grow.    *)
Activate(d) ==
  LET s == LastSnapshot(log)
  IN  /\ phase = "unbound"
      /\ ended = NoResult /\ ReplayedResult(log, s) = NoResult
      /\ Recoverable(log, s)
      /\ status' = RecoveredStatus(log, s)
      /\ report' = ReplayedReport(log, s)
      /\ hasPlan' = ReplayedPlan(log, s).has
      /\ plan' = ReplayedPlan(log, s).cmds
      /\ urgent' = Base(log, s).urgent
      /\ ended' = NoResult
      /\ exhausted' = FALSE
      /\ planner' = "idle"
      /\ age' = [c \in Command |-> IF status'[c] = "none" THEN 0
                                   ELSE Capped(age[c] + d, TTL)]
      /\ since' \in Capped(since + d, Interval) .. Interval
      /\ phase' = "collect"
      /\ emitted' = [i \in 1 .. Cardinality(Unfinished(log, s)) |->
                       LET c == Listing(Unfinished(log, s))[i]
                       IN  LifecycleEvent(c, OutcomeOf[ReplayedReport(log, s)[c]])]
                    \o Moved(Unwritten(log, s), "pending")
      /\ UNCHANGED delivered

Enqueued == /\ log' = log \o emitted'
            /\ Len(log') <= MaxLog
            /\ Cardinality(Indices(log', {"snapshot"})) <= MaxSnapshots

(* The handlers that end with, or contain, a flush of what they enqueued.  *)
Flushes == \/ \E d \in Lapses : Activate(d)
           \/ \E alert \in BOOLEAN : ExpireAndPlan(alert)
           \/ \E x \in Result : EndEpisode(x)

Writes == \/ phase = "idle" /\ \E d \in Lapses : BeginTick(d)
          \/ CollectFinishedPlanner
          \/ ResumeAwaitedTick
          \/ Select
          \/ FinishPlanner
          \/ \E c \in Command, r \in Report : RecordExecution(c, r)

EngineStep == /\ ~flushing
              /\ \/ Flushes /\ flushing' = TRUE
                 \/ Writes  /\ flushing' = FALSE
              /\ Enqueued
              /\ Keeps

(* The writer thread reaches the flush barrier and the handler goes on.    *)
Flush == /\ flushing
         /\ flushing' = FALSE
         /\ durable' = Len(log)
         /\ UNCHANGED <<vars, log, restarts>>

(* The Runtime dies and restarts on the same store: what the writer thread *)
(* has not committed is lost, and so is the engine's memory.  The time     *)
(* since a command was accepted is a fact of the game, not of the process. *)
Crash(k) ==
  /\ restarts < MaxRestarts
  /\ k \in durable .. Len(log)
  /\ log' = SubSeq(log, 1, k)
  /\ durable' = k
  /\ flushing' = FALSE
  /\ restarts' = restarts + 1
  /\ status' = [c \in Command |-> "none"]
  /\ report' = [c \in Command |-> NoReport]
  /\ hasPlan' = FALSE /\ plan' = {}
  /\ planner' = "idle" /\ urgent' = FALSE /\ exhausted' = FALSE
  /\ ended' = NoResult
  /\ phase' = "unbound"
  /\ emitted' = <<>>
  /\ UNCHANGED <<delivered, age, since>>

RecoveryNext == \/ EngineStep
                \/ Flush
                \/ \E k \in durable .. Len(log) : Crash(k)

RecoverySpec == RecoveryInit /\ [][RecoveryNext]_allVars
-----------------------------------------------------------------------------
(* While the episode lasts, the engine's memory is what a replay of its    *)
(* events gives, from the last checkpoint or from the very first event: a  *)
(* handler that changed one without the other would be undone by a restart *)
(* (_set_command_lifecycle, _accept_plan, _runtime_checkpoint_payload).    *)
MemoryIsReplay ==
  phase # "unbound" /\ ended = NoResult =>
    \A s \in {0, LastSnapshot(log)} :
      /\ status = ReplayedStatus(log, s)
      /\ report = ReplayedReport(log, s)
      /\ [has |-> hasPlan, cmds |-> plan] = ReplayedPlan(log, s)

(* Wherever a crash cuts the log, _activate_episode does not raise, and it *)
(* restores one in-flight command per actor and no orphaned plan command.  *)
EveryCutRecovers ==
  \A k \in durable .. Len(log) :
    LET L  == SubSeq(log, 1, k)
        s  == LastSnapshot(L)
        st == RecoveredStatus(L, s)
    IN  ReplayedResult(L, s) = NoResult =>
          /\ Recoverable(L, s)
          /\ \A c, d \in Command :
               st[c] = "dispatched" /\ st[d] = "dispatched" /\ ActorOf[c] = ActorOf[d]
                 => c = d
          /\ {c \in Planner : st[c] \in Actionable} \subseteq ReplayedPlan(L, s).cmds

(* A command has at most one execution event, restarts and reports that    *)
(* the worker sends again included (record_execution's fingerprints).      *)
OneReportPerCommand ==
  \A i, j \in Indices(log, {"execution"}) : log[i].cmd = log[j].cmd => i = j

(* Every command's lifecycle events follow the transition table, also      *)
(* those that a recovery adds to the events of the process before it.      *)
LogFollowsTable ==
  \A c \in Command : \A i \in About(log, "lifecycle", c) :
    log[i].status \in Allowed(ReplayedStatus(SubSeq(log, 1, i - 1), 0)[c])

(* Once the dispatch of a command is committed no restart hands it to the  *)
(* worker again.                                                           *)
CommittedDispatchIsFinal ==
  [][\A c \in Command :
       (\E i \in About(log, "lifecycle", c) : i <= durable /\ log[i].status = "dispatched")
         => delivered'[c] = delivered[c]]_allVars

(* The claim of docs/architecture/overview.md: "A dispatched command ID is *)
(* never returned a second time, including after a Runtime restart."       *)
NeverReturnedTwice == \A c \in Command : delivered[c] <= 1
=============================================================================
