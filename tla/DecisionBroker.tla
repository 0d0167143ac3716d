---------------------------- MODULE DecisionBroker ---------------------------
(***************************************************************************)
(* broker.py, SharedDecisionBroker: the barrier where the query threads of *)
(* the enabled agents meet, of which one thread asks the Runtime for the   *)
(* decision of the round, and the queues from which the worker later       *)
(* claims the commands of that decision.  Each agent has one query thread  *)
(* at a time; the worker's main thread starts them, advances the round,    *)
(* changes the roster and, before the first plan, waits for a decision.    *)
(*                                                                         *)
(* Abstracted: observations and action text; the actors and action names   *)
(* of an agent's commands (one queue per agent, at most one command in a   *)
(* route); the primitives of a command; metrics; raw mode, which does not  *)
(* use the barrier; an agent that gets units again while its old query     *)
(* runs (Enable waits for that query).                                     *)
(***************************************************************************)
EXTENDS Integers, Sequences

CONSTANTS Agent,        \* registered agents
          KeptSteps,    \* how long _partial_steps remembers a step
          TickOutlasts, \* the Runtime may answer after decision_timeout_seconds
          Movers,       \* agents that can lose their last unit
          PauseFirst,   \* pause_until_first_plan
          MaxRound      \* bound on the rounds of a behaviour

ASSUME KeptAssumption == KeptSteps \in Nat
ASSUME RoundAssumption == MaxRound \in Nat \ {0}
ASSUME FlagAssumption == {TickOutlasts, PauseFirst} \subseteq BOOLEAN /\ Movers \subseteq Agent

VARIABLES
  round,     \* MainAgent.main_loop_step
  enabled,   \* the agents whose enable is set
  asked,     \* the last round in which each agent was queried
  text,      \* the barrier whose command each agent still has to execute, or 0
  main,      \* the main thread: "running", "blocked", "released" or "failed"
  pc,        \* where each agent's query thread is
  at,        \* the thread's local variable state: an index of barriers, or 0
  late,      \* the agents whose decision_timeout_seconds are over
  barriers,  \* every _DecisionState that was created
  states,    \* _states: for each step the barrier in the table, or 0
  partial,   \* _partial_steps
  first,     \* "none", "started" or "complete": _initial_decision_...
  firstError,\* _initial_decision_error is set
  queue,     \* _command_queues: for each agent the barriers it has commands of
  ticks,     \* for each step the Runtime ticks made for it
  strayed,   \* history: the steps in which an agent left the roster while
             \* it collected its observation
  dropped    \* history: the agents whose action text was thrown away while
             \* its command ID stayed queued

workerVars == <<round, enabled, asked, text, main, strayed, dropped>>
threadVars == <<pc, at, late>>
brokerVars == <<barriers, states, partial, first, firstError, queue, ticks>>
vars == <<workerVars, threadVars, brokerVars>>

Step == 1 .. MaxRound
-----------------------------------------------------------------------------
(* _DecisionState when submit creates it, for the agent that did.          *)
NewBarrier(s, a) ==
  [step |-> s, submissions |-> {a}, participants |-> {}, inFlight |-> FALSE,
   decided |-> FALSE, failed |-> FALSE, commands |-> {}, consumed |-> {},
   aged |-> FALSE]

Init ==
  /\ round = 1
  /\ enabled = Agent
  /\ asked = [a \in Agent |-> 0]
  /\ text = [a \in Agent |-> 0]
  /\ main = "running"
  /\ pc = [a \in Agent |-> "idle"]
  /\ at = [a \in Agent |-> 0]
  /\ late = {}
  /\ barriers = <<>>
  /\ states = [s \in Step |-> 0]
  /\ partial = [s \in Step |-> {}]
  /\ first = "none" /\ firstError = FALSE
  /\ queue = [a \in Agent |-> <<>>]
  /\ ticks = [s \in Step |-> 0]
  /\ strayed = {} /\ dropped = {}
-----------------------------------------------------------------------------
(* The worker's main thread.                                               *)

MainRuns == main \in {"running", "released"}

(* hook.query: the thread starts and collects the text observation.        *)
StartQuery(a) ==
  /\ MainRuns
  /\ a \in enabled /\ pc[a] = "idle" /\ text[a] = 0
  /\ asked[a] < round
  /\ asked' = [asked EXCEPT ![a] = round]
  /\ pc' = [pc EXCEPT ![a] = "observing"]
  /\ UNCHANGED <<round, enabled, text, main, strayed, dropped, at, late, brokerVars>>

(* claim_primitive and settle_primitive: the worker executes the command   *)
(* of the agent's action text and charges it to the oldest queued ID.      *)
Execute(a) ==
  /\ MainRuns
  /\ a \in enabled /\ pc[a] = "idle" /\ text[a] # 0
  /\ queue[a] # <<>>
  /\ queue' = [queue EXCEPT ![a] = Tail(@)]
  /\ text' = [text EXCEPT ![a] = 0]
  /\ UNCHANGED <<round, enabled, asked, main, strayed, dropped, threadVars,
                 barriers, states, partial, first, firstError, ticks>>

(* main_loop_step moves on when every enabled agent is done with it.       *)
NextRound ==
  /\ MainRuns
  /\ round < MaxRound
  /\ \A a \in enabled : pc[a] = "idle" /\ text[a] = 0 /\ asked[a] = round
  /\ round' = round + 1
  /\ UNCHANGED <<enabled, asked, text, main, strayed, dropped, threadVars, brokerVars>>

(* _refresh_zerg_morphed_combat_teams: an agent without living units       *)
(* leaves the roster at once, whatever its query thread does, and what it  *)
(* had to execute is cleared.  Only an action that the upstream agent has  *)
(* begun (_is_executing_actions, a choice here) is reported, in            *)
(* _consume_execution_aborts, and charged to the oldest queued ID; the ID  *)
(* of any other stays queued.  Mutant: an action is reported whether one   *)
(* is executed or not.                                                     *)
AbortableAny(a) == queue[a] # <<>>
Abortable(a) == text[a] # 0 /\ queue[a] # <<>>

AbortAction(a) ==
  /\ Abortable(a)
  /\ queue' = [queue EXCEPT ![a] = Tail(@)]
  /\ UNCHANGED dropped

(* The text that an agent has not begun is forgotten.                      *)
DropText(a) ==
  /\ dropped' = IF text[a] = 0 THEN dropped ELSE dropped \cup {a}
  /\ UNCHANGED queue

Disable(a) ==
  /\ MainRuns
  /\ a \in Movers \cap enabled
  /\ enabled' = enabled \ {a}
  /\ strayed' = IF pc[a] = "observing" THEN strayed \cup {asked[a]} ELSE strayed
  /\ AbortAction(a) \/ DropText(a)
  /\ text' = [text EXCEPT ![a] = 0]
  /\ UNCHANGED <<round, asked, main, threadVars, barriers, states, partial,
                 first, firstError, ticks>>

(* It joins only between rounds, in time for the next one, and is queried  *)
(* anew: a text that came after it had left is never executed.             *)
Enable(a) ==
  /\ MainRuns
  /\ a \notin enabled /\ pc[a] = "idle"
  /\ \A b \in Agent : asked[b] < round
  /\ enabled' = enabled \cup {a}
  /\ DropText(a)
  /\ text' = [text EXCEPT ![a] = 0]
  /\ UNCHANGED <<round, asked, main, strayed, threadVars, barriers, states,
                 partial, first, firstError, ticks>>

(* pause_until_first_plan: once a first decision has started, the main     *)
(* thread waits for it.                                                    *)
WaitForInitialDecision ==
  /\ PauseFirst
  /\ main = "running" /\ first # "none"
  /\ main' = "blocked"
  /\ UNCHANGED <<round, enabled, asked, text, strayed, dropped, threadVars, brokerVars>>

InitialDecisionArrives ==
  /\ main = "blocked" /\ (first = "complete" \/ firstError)
  /\ main' = IF firstError THEN "failed" ELSE "released"
  /\ UNCHANGED <<round, enabled, asked, text, strayed, dropped, threadVars, brokerVars>>
-----------------------------------------------------------------------------
(* submit, first critical section.                                         *)

(* _prune_partial_steps_locked.                                            *)
Remembered(s) ==
  [t \in Step |-> IF t < s - KeptSteps THEN {} ELSE partial[t]]

(* A partial decision went ahead without the agent: it gets a no-op.       *)
SubmitSkipped(a) ==
  /\ pc[a] = "observing"
  /\ a \in Remembered(asked[a])[asked[a]]
  /\ partial' = Remembered(asked[a])
  /\ pc' = [pc EXCEPT ![a] = "idle"]
  /\ UNCHANGED <<workerVars, at, late, barriers, states, first, firstError,
                 queue, ticks>>

(* The agent opens the barrier of its step or joins it.                    *)
Submit(a) ==
  LET s == asked[a] IN
  /\ pc[a] = "observing"
  /\ a \notin Remembered(s)[s]
  /\ partial' = Remembered(s)
  /\ IF states[s] = 0
     THEN /\ barriers' = Append(barriers, NewBarrier(s, a))
          /\ states' = [states EXCEPT ![s] = Len(barriers) + 1]
     ELSE /\ barriers' = [barriers EXCEPT ![states[s]].submissions = @ \cup {a}]
          /\ UNCHANGED states
  /\ at' = [at EXCEPT ![a] = states'[s]]
  /\ pc' = [pc EXCEPT ![a] = "checking"]
  /\ UNCHANGED <<workerVars, late, first, firstError, queue, ticks>>
-----------------------------------------------------------------------------
(* submit, the loop.                                                       *)

Settled(b) == b.decided \/ b.failed

(* The loop condition is read without the lock.                            *)
Check(a) ==
  /\ pc[a] = "checking"
  /\ pc' = [pc EXCEPT ![a] =
              IF Settled(barriers[at[a]]) THEN "leaving" ELSE "locking"]
  /\ UNCHANGED <<workerVars, at, late, brokerVars>>

(* Nobody leads the barrier yet, and it is complete or its grace is over.  *)
(* Mutant: without the grace period.                                       *)
ElectableWhenComplete(b) == ~b.inFlight /\ enabled \subseteq b.submissions
Electable(b) == ~b.inFlight /\ (enabled \subseteq b.submissions \/ b.aged)

Participants(b) == IF b.submissions \cap enabled = {}
                   THEN b.submissions ELSE b.submissions \cap enabled

(* Whom a partial decision leaves out.  Mutant: nobody is recorded.        *)
MissingNobody(b) == {}
Missing(b) == enabled \ Participants(b)

Elect(a) ==
  LET b == barriers[at[a]] IN
  /\ pc[a] = "locking"
  /\ Electable(b)
  /\ barriers' = [barriers EXCEPT ![at[a]] =
                    [@ EXCEPT !.inFlight = TRUE, !.participants = Participants(b)]]
  /\ partial' = IF Missing(b) = {} THEN partial
                ELSE [partial EXCEPT ![b.step] = Missing(b)]
  /\ first' = IF first = "none" THEN "started" ELSE first
  /\ pc' = [pc EXCEPT ![a] = "leading"]
  /\ UNCHANGED <<workerVars, at, late, states, firstError, queue, ticks>>

WaitOn(a) ==
  /\ pc[a] = "locking"
  /\ ~Electable(barriers[at[a]]) /\ a \notin late
  /\ pc' = [pc EXCEPT ![a] = "checking"]
  /\ UNCHANGED <<workerVars, at, late, brokerVars>>

(* A failed barrier leaves the table in the critical section that fails    *)
(* it.  Mutant: it stays.                                                  *)
StillOpen(i) == states
Closed(i) == [states EXCEPT ![barriers[i].step] = 0]

(* A failure before the first decision is an initial one.                  *)
FirstFailed == firstError \/ first # "complete"

Fail(i) ==
  /\ barriers' = [barriers EXCEPT ![i].failed = TRUE]
  /\ states' = Closed(i)
  /\ firstError' = FirstFailed
  /\ UNCHANGED <<partial, first, ticks>>

TimeOut(a) ==
  /\ pc[a] = "locking"
  /\ ~Electable(barriers[at[a]]) /\ a \in late
  /\ Fail(at[a])
  /\ pc' = [pc EXCEPT ![a] = "checking"]
  /\ UNCHANGED <<workerVars, at, late, queue>>
-----------------------------------------------------------------------------
(* _decide.  The leader looks its barrier up again in the table, and its   *)
(* thread dies of a KeyError when the barrier is gone.                     *)
BeginDecide(a) ==
  LET s == barriers[at[a]].step IN
  /\ pc[a] = "leading"
  /\ IF states[s] = 0
     THEN pc' = [pc EXCEPT ![a] = "idle"] /\ UNCHANGED ticks
     ELSE /\ pc' = [pc EXCEPT ![a] = "ticking"]
          /\ ticks' = [ticks EXCEPT ![s] = @ + 1]
  /\ UNCHANGED <<workerVars, at, late, barriers, states, partial, first,
                 firstError, queue>>

(* The decision is installed and its commands queued, though a waiter may  *)
(* have given the barrier up.                                              *)
FinishDecide(a, commanded) ==
  /\ pc[a] = "ticking"
  /\ commanded \subseteq barriers[at[a]].participants
  /\ barriers' = [barriers EXCEPT ![at[a]] =
                    [@ EXCEPT !.decided = TRUE, !.commands = commanded]]
  /\ queue' = [b \in Agent |-> IF b \in commanded THEN Append(queue[b], at[a])
                                                  ELSE queue[b]]
  /\ first' = "complete"
  /\ pc' = [pc EXCEPT ![a] = "checking"]
  /\ UNCHANGED <<workerVars, at, late, states, partial, firstError, ticks>>

(* The snapshot, the request or the routing raised: no command is queued.  *)
FailDecide(a) ==
  /\ pc[a] = "ticking"
  /\ Fail(at[a])
  /\ pc' = [pc EXCEPT ![a] = "checking"]
  /\ UNCHANGED <<workerVars, at, late, queue>>

(* submit, last critical section: raise, or take the route and drop the    *)
(* barrier with the last participant.  Mutant: the barrier waits for every *)
(* enabled agent.                                                          *)
EnabledConsumed(i, left) == enabled \subseteq left
AllConsumed(i, left) == barriers[i].participants \subseteq left

Leave(a) ==
  LET i == at[a]
      left == barriers[i].consumed \cup {a}
  IN
  /\ pc[a] = "leaving"
  /\ IF barriers[i].failed
     THEN UNCHANGED <<barriers, states, text>>
     ELSE /\ barriers' = [barriers EXCEPT ![i].consumed = left]
          /\ states' = IF AllConsumed(i, left)
                       THEN [states EXCEPT ![barriers[i].step] = 0] ELSE states
          /\ text' = [text EXCEPT ![a] = IF a \in barriers[i].commands THEN i ELSE 0]
  /\ pc' = [pc EXCEPT ![a] = "idle"]
  /\ at' = [at EXCEPT ![a] = 0]
  /\ late' = late \ {a}
  /\ UNCHANGED <<round, enabled, asked, main, strayed, dropped, partial, first,
                 firstError, queue, ticks>>
-----------------------------------------------------------------------------
(* Time.  The grace period is at most the timeout, and a thread's deadline *)
(* starts after its barrier was opened, so by then somebody leads: the     *)
(* deadline can pass only during the leader's request.                     *)
GracePasses(i) ==
  /\ states[barriers[i].step] = i \/ \E a \in Agent : at[a] = i
  /\ ~barriers[i].aged
  /\ barriers' = [barriers EXCEPT ![i].aged = TRUE]
  /\ UNCHANGED <<workerVars, threadVars, states, partial, first, firstError,
                 queue, ticks>>

DeadlinePasses(a) ==
  /\ TickOutlasts
  /\ pc[a] \in {"checking", "locking"} /\ a \notin late
  /\ \E b \in Agent : pc[b] = "ticking" /\ at[b] = at[a]
  /\ barriers[at[a]].aged
  /\ late' = late \cup {a}
  /\ UNCHANGED <<workerVars, pc, at, brokerVars>>

QueryThread(a) ==
  \/ SubmitSkipped(a) \/ Submit(a)
  \/ Check(a) \/ Elect(a) \/ WaitOn(a) \/ TimeOut(a)
  \/ BeginDecide(a) \/ \E commanded \in SUBSET Agent : FinishDecide(a, commanded)
  \/ FailDecide(a) \/ Leave(a)

Next ==
  \/ \E a \in Agent : \/ StartQuery(a) \/ Execute(a)
                      \/ Disable(a) \/ Enable(a)
                      \/ QueryThread(a) \/ DeadlinePasses(a)
  \/ NextRound \/ WaitForInitialDecision \/ InitialDecisionArrives
  \/ \E i \in DOMAIN barriers : GracePasses(i)

(* Threads run, the grace period and the Runtime's request end.  Nothing   *)
(* is assumed of the main thread's loop or of the 60 s deadline.           *)
Spec == /\ Init /\ [][Next]_vars
        /\ \A a \in Agent : WF_vars(QueryThread(a))
        /\ WF_vars(InitialDecisionArrives)
        /\ WF_vars(\E i \in DOMAIN barriers : GracePasses(i))
-----------------------------------------------------------------------------
BarrierId == DOMAIN barriers

(* Types.  A barrier in the table is of its own step and has not failed.   *)
TypeOK ==
  /\ round \in Step /\ enabled \subseteq Agent
  /\ asked \in [Agent -> 0 .. MaxRound]
  /\ text \in [Agent -> BarrierId \cup {0}]
  /\ main \in {"running", "blocked", "released", "failed"}
  /\ pc \in [Agent -> {"idle", "observing", "checking", "locking", "leading",
                       "ticking", "leaving"}]
  /\ at \in [Agent -> BarrierId \cup {0}]
  /\ late \subseteq Agent /\ strayed \subseteq Step /\ dropped \subseteq Agent
  /\ states \in [Step -> BarrierId \cup {0}]
  /\ \A s \in Step : states[s] # 0 => /\ barriers[states[s]].step = s
                                      /\ ~barriers[states[s]].failed
  /\ partial \in [Step -> SUBSET Agent]
  /\ first \in {"none", "started", "complete"} /\ firstError \in BOOLEAN
  /\ \A a \in Agent : \A k \in DOMAIN queue[a] : queue[a][k] \in BarrierId

(* The Runtime is ticked at most once for a step, however its agents, its  *)
(* grace period and its timeouts interleave (submit, _partial_steps).  An  *)
(* agent that leaves the roster while it collects its observation is not   *)
(* expected and not recorded as missing; its late submit then opens a      *)
(* second barrier for the step.                                            *)
OneTickPerStep == \A s \in Step : ticks[s] <= 1 \/ s \in strayed

(* When no query is running, no barrier is left in the table: a later      *)
(* query of the same step could only meet a dead one (submit, _decide).    *)
BarrierDrains ==
  (\A a \in Agent : pc[a] = "idle") => \A s \in Step : states[s] = 0

(* The worker charges what an agent executes to the command its own action *)
(* text came from (claim_primitive takes the oldest ID), unless an ID was  *)
(* left in its queue before: that of a decision that was given up, or of a *)
(* text that was thrown away when the agent left the roster.  Whatever was *)
(* left, the text's own ID is among those it can claim, so that its report *)
(* is never without a command: that raises an integrity error and ends the *)
(* run (reject_command, raise_unattributed_integrity).                     *)
GivenUp(i) == barriers[i].decided /\ barriers[i].failed

Stale(a) == a \in dropped \/ \E i \in BarrierId : GivenUp(i) /\ a \in barriers[i].commands

ClaimsOwnCommand ==
  \A a \in Agent : text[a] # 0 =>
    /\ \E k \in DOMAIN queue[a] : queue[a][k] = text[a]
    /\ Stale(a) \/ Head(queue[a]) = text[a]

(* Every query returns, though agents stay away, leave the roster or never *)
(* come: the grace period and the leader's notification are enough, and    *)
(* the 60 s deadline is not needed (submit).  Nor is the main thread left  *)
(* waiting for the first decision (wait_for_initial_decision).             *)
EveryWaitEnds == /\ \A a \in Agent : pc[a] # "idle" ~> pc[a] = "idle"
                 /\ main = "blocked" ~> main # "blocked"
=============================================================================
