-------------------------- MODULE DecisionBrokerProofs ------------------------
(***************************************************************************)
(* Proofs about DecisionBroker.  AgentInv, OneLeader and BarrierInv say    *)
(* who is at a barrier and who leads it; TableInv that a barrier in the    *)
(* table has a query that will take it out; StepInv that a step has one    *)
(* barrier, because its decision passes over whoever comes later; QueueInv *)
(* that an agent has one command at a time.                                *)
(***************************************************************************)
EXTENDS DecisionBroker, SequenceTheorems, TLAPS

(* A query that has joined a barrier and not left it, and its leader.      *)
Busy(a)  == pc[a] \in {"checking", "locking", "leading", "ticking", "leaving"}
Leads(a) == pc[a] \in {"leading", "ticking"}

Barrier == [step : Step, submissions : SUBSET Agent, participants : SUBSET Agent,
            inFlight : BOOLEAN, decided : BOOLEAN, failed : BOOLEAN,
            commands : SUBSET Agent, consumed : SUBSET Agent, aged : BOOLEAN]

Types ==
  /\ round \in Step /\ enabled \in SUBSET Agent
  /\ asked \in [Agent -> 0 .. MaxRound]
  /\ text \in [Agent -> 0 .. Len(barriers)]
  /\ main \in {"running", "blocked", "released", "failed"}
  /\ pc \in [Agent -> {"idle", "observing", "checking", "locking", "leading",
                       "ticking", "leaving"}]
  /\ at \in [Agent -> 0 .. Len(barriers)]
  /\ late \in SUBSET Agent /\ strayed \in SUBSET Step /\ dropped \in SUBSET Agent
  /\ barriers \in Seq(Barrier)
  /\ states \in [Step -> 0 .. Len(barriers)]
  /\ partial \in [Step -> SUBSET Agent]
  /\ first \in {"none", "started", "complete"} /\ firstError \in BOOLEAN
  /\ queue \in [Agent -> Seq(1 .. Len(barriers))]
  /\ ticks \in [Step -> Nat]

(* What a query thread can rely on.                                        *)
AgentInv ==
  \A a \in Agent :
    /\ asked[a] <= round
    /\ pc[a] # "idle" => asked[a] # 0 /\ text[a] = 0
    /\ pc[a] # "idle" /\ a \in enabled => asked[a] = round
    /\ pc[a] = "observing" /\ a \notin enabled => asked[a] \in strayed
    /\ Busy(a) => at[a] # 0 /\ a \in barriers[at[a]].submissions
    /\ pc[a] = "leaving" => Settled(barriers[at[a]])
    /\ Leads(a) => barriers[at[a]].inFlight /\ ~barriers[at[a]].decided
    /\ a \in late => pc[a] \in {"checking", "locking", "leaving"} /\ barriers[at[a]].inFlight

OneLeader == \A a, b \in Agent : Leads(a) /\ Leads(b) /\ at[a] = at[b] => a = b

(* Who has joined a barrier is at it until it is settled.                  *)
BarrierInv ==
  \A i \in 1 .. Len(barriers) :
    /\ barriers[i].submissions # {}
    /\ barriers[i].participants \subseteq barriers[i].submissions
    /\ barriers[i].commands \subseteq barriers[i].participants
    /\ \A a \in barriers[i].submissions :
         /\ barriers[i].step <= asked[a]
         /\ barriers[i].step = asked[a] => pc[a] # "observing"
    /\ Settled(barriers[i]) => barriers[i].inFlight
    /\ barriers[i].inFlight => barriers[i].participants # {}
    /\ ~barriers[i].decided => barriers[i].consumed = {} /\ barriers[i].commands = {}
    /\ ~barriers[i].failed /\ (~barriers[i].inFlight \/ \E a \in Agent : Leads(a) /\ at[a] = i)
         => \A a \in barriers[i].submissions : at[a] = i /\ Busy(a)

(* A barrier in the table has somebody who will take it out.               *)
TableInv ==
  \A s \in Step : states[s] # 0 =>
    /\ barriers[states[s]].step = s
    /\ ~barriers[states[s]].failed
    /\ \A a \in barriers[states[s]].submissions \ barriers[states[s]].consumed :
         at[a] = states[s] /\ Busy(a)
    /\ barriers[states[s]].decided
         => ~(barriers[states[s]].participants \subseteq barriers[states[s]].consumed)

(* A step has one barrier, whose decision passes over every agent that     *)
(* could open another.                                                     *)
StepInv ==
  \A s \in Step \ strayed :
    /\ \A i, j \in 1 .. Len(barriers) :
         barriers[i].step = s /\ barriers[j].step = s => i = j
    /\ \A i \in 1 .. Len(barriers) : barriers[i].step = s =>
         /\ ~barriers[i].inFlight => states[s] = i
         /\ barriers[i].inFlight =>
              \A a \in Agent : pc[a] = "observing" /\ asked[a] = s => a \in partial[s]
         /\ barriers[i].inFlight /\ round = s =>
              \A a \in enabled : asked[a] < s => a \in partial[s]
         /\ ticks[s] # 0 => /\ barriers[i].inFlight
                            /\ \A a \in Agent : at[a] = i => pc[a] # "leading"
    /\ ticks[s] # 0 => \E i \in 1 .. Len(barriers) : barriers[i].step = s
    /\ ticks[s] <= 1

(* Until a decision is given up or a text thrown away, the queue of an     *)
(* agent holds the command it executes next, or the one that its query is  *)
(* about to return.                                                        *)
Clean(a) == /\ a \notin dropped
            /\ \A i \in 1 .. Len(barriers) : GivenUp(i) => a \notin barriers[i].commands

QueueInv ==
  \A a \in Agent : Clean(a) =>
    \/ text[a] # 0 /\ queue[a] = <<text[a]>>
    \/ /\ text[a] = 0 /\ queue[a] = <<>>
       /\ Busy(a) => a \notin barriers[at[a]].commands
    \/ /\ text[a] = 0 /\ queue[a] = <<at[a]>>
       /\ Busy(a) /\ a \in barriers[at[a]].commands
Inv == Types /\ AgentInv /\ OneLeader /\ BarrierInv /\ TableInv /\ StepInv /\ QueueInv
-----------------------------------------------------------------------------
(* A new barrier at the end.                                               *)
LEMMA AppendBarrier ==
  ASSUME NEW bs \in Seq(Barrier), NEW b \in Barrier
  PROVE  /\ Append(bs, b) \in Seq(Barrier)
         /\ Len(Append(bs, b)) = Len(bs) + 1
         /\ \A i \in 1 .. Len(bs) : Append(bs, b)[i] = bs[i]
         /\ Append(bs, b)[Len(bs) + 1] = b
BY AppendProperties

(* A barrier that changes.                                                 *)
LEMMA ChangeBarrier ==
  ASSUME NEW bs \in Seq(Barrier), NEW i \in 1 .. Len(bs), NEW b \in Barrier
  PROVE  /\ [bs EXCEPT ![i] = b] \in Seq(Barrier)
         /\ Len([bs EXCEPT ![i] = b]) = Len(bs)
         /\ [bs EXCEPT ![i] = b][i] = b
         /\ \A j \in 1 .. Len(bs) : j # i => [bs EXCEPT ![i] = b][j] = bs[j]
BY ExceptSeq

(* Queues of some barriers are queues of more of them.                     *)
LEMMA QueueGrows ==
  ASSUME NEW n \in Nat, NEW m \in Nat, n <= m, NEW q \in Seq(1 .. n)
  PROVE  q \in Seq(1 .. m)
BY SeqMonotonic

(* A command is queued, or the oldest one taken.                           *)
LEMMA QueueSteps ==
  ASSUME NEW S, NEW q \in Seq(S), NEW i \in S
  PROVE  /\ Append(q, i) \in Seq(S)
         /\ q # <<>> => Tail(q) \in Seq(S)
BY AppendProperties, HeadTailProperties

(* The change of a barrier that a query thread makes.                      *)
Changes(i, b) ==
  /\ i \in 1 .. Len(barriers) /\ b \in Barrier
  /\ barriers' = [barriers EXCEPT ![i] = b]

(* What such a change is.                                                  *)
LEMMA ChangesFacts ==
  ASSUME Types, NEW i, NEW b, Changes(i, b)
  PROVE  /\ barriers' \in Seq(Barrier) /\ Len(barriers') = Len(barriers)
         /\ Len(barriers) \in Nat
         /\ barriers'[i] = b
         /\ \A j \in 1 .. Len(barriers) : j # i => barriers'[j] = barriers[j]
BY ChangeBarrier DEF Types, Changes

(* The initial state.                                                      *)
LEMMA InvInit == Init => Inv
<1> SUFFICES ASSUME Init PROVE Inv
  OBVIOUS
<1>1. Len(barriers) = 0 /\ barriers \in Seq(Barrier) /\ 1 \in Step
  BY RoundAssumption DEF Init, Step
<1>2. queue \in [Agent -> Seq(1 .. Len(barriers))]
  BY DEF Init
<1>3. Types
  <2>1. 0 \in 0 .. MaxRound /\ 0 \in 0 .. Len(barriers)
    BY <1>1, RoundAssumption
  <2>2. /\ asked \in [Agent -> 0 .. MaxRound] /\ text \in [Agent -> 0 .. Len(barriers)]
        /\ at \in [Agent -> 0 .. Len(barriers)] /\ states \in [Step -> 0 .. Len(barriers)]
    BY <2>1 DEF Init
  <2>3. /\ pc \in [Agent -> {"idle", "observing", "checking", "locking", "leading",
                             "ticking", "leaving"}]
        /\ partial \in [Step -> SUBSET Agent] /\ ticks \in [Step -> Nat]
    BY DEF Init
  <2> QED
    BY <1>1, <1>2, <2>2, <2>3 DEF Types, Init
<1>4. AgentInv /\ OneLeader /\ BarrierInv /\ TableInv
  BY <1>1, RoundAssumption DEF Init, AgentInv, OneLeader, BarrierInv, TableInv, Busy, Leads
<1>5. StepInv
  BY <1>1 DEF Init, StepInv
<1>6. QueueInv
  BY DEF Init, QueueInv, Busy
<1> QED
  BY <1>3, <1>4, <1>5, <1>6 DEF Inv

(* Where the actions of the query threads are.                             *)
LEMMA AtBarrier ==
  ASSUME Types, AgentInv, NEW a \in Agent, Busy(a)
  PROVE  /\ at[a] \in 1 .. Len(barriers) /\ barriers[at[a]] \in Barrier
         /\ barriers[at[a]].step \in Step
         /\ Len(barriers) \in Nat
<1>1. at[a] \in 0 .. Len(barriers) /\ at[a] # 0 /\ Len(barriers) \in Nat
  BY DEF Types, AgentInv
<1>2. at[a] \in 1 .. Len(barriers)
  BY <1>1
<1>3. barriers[at[a]] \in Barrier
  BY <1>2 DEF Types
<1> QED
  BY <1>1, <1>2, <1>3 DEF Barrier

(* The types of what only the worker changes.                              *)
LEMMA WorkerTypes ==
  ASSUME Types, UNCHANGED <<barriers, states, partial, first, firstError, ticks>>,
         round' \in Step, enabled' \in SUBSET Agent, asked' \in [Agent -> 0 .. MaxRound],
         text' \in [Agent -> 0 .. Len(barriers)],
         main' \in {"running", "blocked", "released", "failed"},
         pc' \in [Agent -> {"idle", "observing", "checking", "locking", "leading",
                            "ticking", "leaving"}],
         at' = at, late' \in SUBSET Agent, strayed' \in SUBSET Step,
         dropped' \in SUBSET Agent, queue' \in [Agent -> Seq(1 .. Len(barriers))]
  PROVE  Types'
BY DEF Types

(* What an agent has to execute is cleared: its action is reported, or its *)
(* text forgotten.                                                         *)
Loses(a) == (AbortAction(a) \/ DropText(a)) /\ text' = [text EXCEPT ![a] = 0]

LEMMA LosesTypes ==
  ASSUME Types, NEW a \in Agent, Loses(a)
  PROVE  /\ queue' \in [Agent -> Seq(1 .. Len(barriers))] /\ dropped' \in SUBSET Agent
         /\ text' \in [Agent -> 0 .. Len(barriers)]
<1>1. text' \in [Agent -> 0 .. Len(barriers)]
  <2>1. Len(barriers) \in Nat
    BY DEF Types
  <2> QED
    BY <2>1 DEF Loses, Types
<1>2. CASE AbortAction(a)
  <2>1. Tail(queue[a]) \in Seq(1 .. Len(barriers))
    BY <1>2, HeadTailProperties DEF AbortAction, Abortable, Types
  <2> QED
    BY <1>1, <1>2, <2>1 DEF AbortAction, Types
<1>3. CASE DropText(a)
  BY <1>1, <1>3 DEF DropText, Types
<1> QED
  BY <1>2, <1>3 DEF Loses

(* Types are kept: the worker's main thread.                               *)
LEMMA TypesMain ==
  ASSUME Types, AgentInv, NEW a \in Agent,
         \/ StartQuery(a) \/ Execute(a) \/ Disable(a) \/ Enable(a) \/ DeadlinePasses(a)
  PROVE  Types'
<1> USE DEF brokerVars, threadVars, workerVars
<1>1. CASE StartQuery(a)
  <2>1. asked' \in [Agent -> 0 .. MaxRound]
    BY <1>1 DEF StartQuery, Types, Step
  <2>2. pc' \in [Agent -> {"idle", "observing", "checking", "locking", "leading",
                           "ticking", "leaving"}]
    BY <1>1 DEF StartQuery, Types
  <2> QED
    BY <1>1, <2>1, <2>2, WorkerTypes DEF StartQuery, Types
<1>2. CASE Execute(a)
  <2>1. Tail(queue[a]) \in Seq(1 .. Len(barriers))
    BY <1>2, HeadTailProperties DEF Execute, Types
  <2>2. queue' \in [Agent -> Seq(1 .. Len(barriers))]
    BY <1>2, <2>1 DEF Execute, Types
  <2>3. text' \in [Agent -> 0 .. Len(barriers)]
    BY <1>2 DEF Execute, Types
  <2> QED
    BY <1>2, <2>2, <2>3, WorkerTypes DEF Execute, Types
<1>3. CASE Disable(a)
  <2>1. asked[a] \in 0 .. MaxRound /\ (pc[a] = "observing" => asked[a] \in Step)
    BY DEF Types, AgentInv, Step
  <2>2. strayed' \in SUBSET Step
    BY <1>3, <2>1 DEF Disable, Types
  <2>3. /\ queue' \in [Agent -> Seq(1 .. Len(barriers))] /\ dropped' \in SUBSET Agent
        /\ text' \in [Agent -> 0 .. Len(barriers)]
    BY <1>3, LosesTypes DEF Disable, Loses
  <2> QED
    BY <1>3, <2>2, <2>3, WorkerTypes DEF Disable, Types
<1>4. CASE Enable(a)
  <2>1. /\ queue' \in [Agent -> Seq(1 .. Len(barriers))] /\ dropped' \in SUBSET Agent
        /\ text' \in [Agent -> 0 .. Len(barriers)]
    BY <1>4, LosesTypes DEF Enable, Loses
  <2> QED
    BY <1>4, <2>1, WorkerTypes DEF Enable, Types
<1>5. CASE DeadlinePasses(a)
  BY <1>5, WorkerTypes DEF DeadlinePasses, Types
<1> QED
  BY <1>1, <1>2, <1>3, <1>4, <1>5

(* The types of what only the query threads change.                        *)
LEMMA ThreadTypes ==
  ASSUME Types, UNCHANGED workerVars, UNCHANGED queue,
         pc' \in [Agent -> {"idle", "observing", "checking", "locking", "leading",
                            "ticking", "leaving"}],
         at' \in [Agent -> 0 .. Len(barriers)], late' \in SUBSET Agent,
         barriers' \in Seq(Barrier), Len(barriers') = Len(barriers),
         states' \in [Step -> 0 .. Len(barriers)],
         partial' \in [Step -> SUBSET Agent],
         first' \in {"none", "started", "complete"}, firstError' \in BOOLEAN,
         ticks' \in [Step -> Nat]
  PROVE  Types'
BY DEF Types, workerVars

(* Types are kept: the query threads.                                      *)
LEMMA TypesThread ==
  ASSUME Types, AgentInv, NEW a \in Agent,
         \/ SubmitSkipped(a) \/ Check(a) \/ Elect(a) \/ WaitOn(a) \/ TimeOut(a)
         \/ BeginDecide(a) \/ FailDecide(a)
  PROVE  Types'
<1>1. CASE SubmitSkipped(a)
  <2>1. partial' \in [Step -> SUBSET Agent]
    BY <1>1 DEF SubmitSkipped, Remembered, Types
  <2> QED
    BY <1>1, <2>1, ThreadTypes DEF SubmitSkipped, Types
<1>2. CASE Check(a)
  BY <1>2, ThreadTypes DEF Check, brokerVars, Types
<1>3. CASE Elect(a)
  <2> DEFINE b == [barriers[at[a]] EXCEPT !.inFlight = TRUE,
                                          !.participants = Participants(barriers[at[a]])]
  <2>1. Busy(a)
    BY <1>3 DEF Elect, Busy
  <2>2. at[a] \in 1 .. Len(barriers) /\ barriers[at[a]] \in Barrier
        /\ barriers[at[a]].step \in Step
    BY <2>1, AtBarrier
  <2>3. b \in Barrier
    BY <2>2 DEF Barrier, Participants, Types
  <2> HIDE DEF b
  <2>4. Changes(at[a], b)
    BY <1>3, <2>2, <2>3 DEF Changes, Elect, b
  <2>5. Missing(barriers[at[a]]) \in SUBSET Agent
    BY DEF Missing, Types
  <2>6. partial' \in [Step -> SUBSET Agent]
    BY <1>3, <2>2, <2>5 DEF Elect, Types
  <2> QED
    BY <1>3, <2>4, <2>6, ChangesFacts, ThreadTypes DEF Elect, Types
<1>4. CASE WaitOn(a)
  BY <1>4, ThreadTypes DEF WaitOn, brokerVars, Types
<1>5. CASE TimeOut(a) \/ FailDecide(a)
  <2> DEFINE b == [barriers[at[a]] EXCEPT !.failed = TRUE]
  <2>1. Busy(a)
    BY <1>5 DEF TimeOut, FailDecide, Busy
  <2>2. at[a] \in 1 .. Len(barriers) /\ barriers[at[a]] \in Barrier
        /\ barriers[at[a]].step \in Step
    BY <2>1, AtBarrier
  <2>3. b \in Barrier
    BY <2>2 DEF Barrier
  <2> HIDE DEF b
  <2>4. Changes(at[a], b)
    BY <1>5, <2>2, <2>3 DEF Changes, TimeOut, FailDecide, Fail, b
  <2>5. states' \in [Step -> 0 .. Len(barriers)]
    <3>1. states' = [states EXCEPT ![barriers[at[a]].step] = 0]
      BY <1>5 DEF TimeOut, FailDecide, Fail, Closed
    <3>2. 0 \in 0 .. Len(barriers)
      BY <2>2
    <3> QED
      BY <2>2, <3>1, <3>2 DEF Types
  <2>6. firstError' \in BOOLEAN
    BY <1>5, Zenon DEF TimeOut, FailDecide, Fail, FirstFailed, Types
  <2>7. pc' = [pc EXCEPT ![a] = "checking"] /\ queue' = queue
        /\ UNCHANGED <<workerVars, at, late, partial, first, ticks>>
    BY <1>5 DEF TimeOut, FailDecide, Fail
  <2> QED
    BY <2>4, <2>5, <2>6, <2>7, ChangesFacts, ThreadTypes DEF Types
<1>6. CASE BeginDecide(a)
  <2>1. ticks' \in [Step -> Nat]
    BY <1>6 DEF BeginDecide, Types
  <2>2. pc' \in [Agent -> {"idle", "observing", "checking", "locking", "leading",
                           "ticking", "leaving"}]
    BY <1>6 DEF BeginDecide, Types
  <2> QED
    BY <1>6, <2>1, <2>2, ThreadTypes DEF BeginDecide, Types
<1> QED
  BY <1>1, <1>2, <1>3, <1>4, <1>5, <1>6

(* Types are kept: an agent opens a barrier or joins one.                  *)
LEMMA TypesSubmit ==
  ASSUME Types, AgentInv, NEW a \in Agent, Submit(a)
  PROVE  Types'
<1> DEFINE s == asked[a]
<1>1. s \in Step /\ Len(barriers) \in Nat /\ states[s] \in 0 .. Len(barriers)
  BY DEF Submit, Types, AgentInv, Step
<1>2. partial' \in [Step -> SUBSET Agent]
  BY DEF Submit, Remembered, Types
<1>3. CASE states[s] = 0
  <2> DEFINE b == NewBarrier(s, a)
  <2>1. b \in Barrier
    BY <1>1 DEF NewBarrier, Barrier
  <2>2. barriers' = Append(barriers, b)
    BY <1>3 DEF Submit
  <2> HIDE DEF b
  <2>3. barriers' \in Seq(Barrier) /\ Len(barriers') = Len(barriers) + 1
    BY <2>1, <2>2, AppendBarrier DEF Types
  <2>4. states' \in [Step -> 0 .. Len(barriers')]
    BY <1>1, <1>3, <2>3 DEF Submit, Types
  <2>5. at' \in [Agent -> 0 .. Len(barriers')]
    BY <1>1, <2>3, <2>4 DEF Submit, Types
  <2>6. text' \in [Agent -> 0 .. Len(barriers')]
    BY <1>1, <2>3 DEF Submit, Types, workerVars
  <2>7. queue' \in [Agent -> Seq(1 .. Len(barriers'))]
    <3>1. \A c \in Agent : queue[c] \in Seq(1 .. Len(barriers'))
      BY <1>1, <2>3, QueueGrows DEF Types
    <3> QED
      BY <3>1 DEF Submit, Types
  <2> QED
    BY <1>2, <2>3, <2>4, <2>5, <2>6, <2>7 DEF Submit, Types, workerVars
<1>4. CASE states[s] # 0
  <2> DEFINE b == [barriers[states[s]] EXCEPT !.submissions = @ \cup {a}]
  <2>1. states[s] \in 1 .. Len(barriers)
    BY <1>1, <1>4
  <2>2. barriers[states[s]] \in Barrier
    BY <2>1 DEF Types
  <2>3. b \in Barrier
    BY <2>2 DEF Barrier
  <2> HIDE DEF b
  <2>4. Changes(states[s], b) /\ states' = states
    BY <1>4, <2>1, <2>3 DEF Changes, Submit, b
  <2>5. at' \in [Agent -> 0 .. Len(barriers)]
    BY <1>1, <2>4 DEF Submit, Types
  <2> QED
    BY <1>2, <2>4, <2>5, ChangesFacts, ThreadTypes DEF Submit, Types
<1> QED
  BY <1>3, <1>4

(* Types are kept: a decision arrives.                                     *)
LEMMA TypesFinish ==
  ASSUME Types, AgentInv, NEW a \in Agent, NEW commanded \in SUBSET Agent,
         FinishDecide(a, commanded)
  PROVE  Types'
<1> DEFINE b == [barriers[at[a]] EXCEPT !.decided = TRUE, !.commands = commanded]
<1>1. Busy(a)
  BY DEF FinishDecide, Busy
<1>2. at[a] \in 1 .. Len(barriers) /\ barriers[at[a]] \in Barrier
  BY <1>1, AtBarrier
<1>3. b \in Barrier
  BY <1>2 DEF Barrier
<1> HIDE DEF b
<1>4. Changes(at[a], b)
  BY <1>2, <1>3 DEF Changes, FinishDecide, b
<1>5. queue' \in [Agent -> Seq(1 .. Len(barriers))]
  <2>1. \A c \in Agent : /\ queue[c] \in Seq(1 .. Len(barriers))
                         /\ Append(queue[c], at[a]) \in Seq(1 .. Len(barriers))
    BY <1>2, QueueSteps DEF Types
  <2> QED
    BY <2>1 DEF FinishDecide
<1>6. pc' \in [Agent -> {"idle", "observing", "checking", "locking", "leading",
                         "ticking", "leaving"}]
  BY DEF FinishDecide, Types
<1> QED
  BY <1>4, <1>5, <1>6, ChangesFacts DEF FinishDecide, Types, workerVars

(* Types are kept: a query returns.                                        *)
LEMMA TypesLeave ==
  ASSUME Types, AgentInv, NEW a \in Agent, Leave(a)
  PROVE  Types'
<1> DEFINE i == at[a]
           b == [barriers[i] EXCEPT !.consumed = @ \cup {a}]
<1>1. Busy(a)
  BY DEF Leave, Busy
<1>2. i \in 1 .. Len(barriers) /\ barriers[i] \in Barrier /\ barriers[i].step \in Step
      /\ Len(barriers) \in Nat
  BY <1>1, AtBarrier
<1>3. at' \in [Agent -> 0 .. Len(barriers)] /\ late' \in SUBSET Agent
      /\ pc' \in [Agent -> {"idle", "observing", "checking", "locking", "leading",
                            "ticking", "leaving"}]
  BY <1>2 DEF Leave, Types
<1>4. /\ barriers' \in Seq(Barrier) /\ Len(barriers') = Len(barriers)
      /\ states' \in [Step -> 0 .. Len(barriers)] /\ text' \in [Agent -> 0 .. Len(barriers)]
  <2>1. CASE barriers[i].failed
    BY <2>1 DEF Leave, Types
  <2>2. CASE ~barriers[i].failed
    <3>1. b \in Barrier
      BY <1>2 DEF Barrier
    <3>2. barriers' = [barriers EXCEPT ![i] = b]
      BY <1>2, <2>2 DEF Leave, Types
    <3> HIDE DEF b
    <3>3. Changes(i, b)
      BY <1>2, <3>1, <3>2 DEF Changes
    <3>6. 0 \in 0 .. Len(barriers) /\ i \in 0 .. Len(barriers)
      BY <1>2
    <3>4. states' \in [Step -> 0 .. Len(barriers)]
      <4>1. states' \in {states, [states EXCEPT ![barriers[i].step] = 0]}
        BY <2>2 DEF Leave
      <4> QED
        BY <1>2, <3>6, <4>1 DEF Types
    <3>5. text' \in [Agent -> 0 .. Len(barriers)]
      <4>1. text' \in {[text EXCEPT ![a] = i], [text EXCEPT ![a] = 0]}
        BY <2>2 DEF Leave
      <4> QED
        BY <3>6, <4>1 DEF Types
    <3> QED
      BY <3>3, <3>4, <3>5, ChangesFacts
  <2> QED
    BY <2>1, <2>2
<1> QED
  BY <1>3, <1>4 DEF Leave, Types

(* Types are kept: the grace period of a barrier passes.                   *)
LEMMA TypesGrace ==
  ASSUME Types, NEW i \in DOMAIN barriers, GracePasses(i)
  PROVE  Types'
<1> DEFINE b == [barriers[i] EXCEPT !.aged = TRUE]
<1>1. i \in 1 .. Len(barriers) /\ barriers[i] \in Barrier
  BY DEF Types
<1>2. b \in Barrier
  BY <1>1 DEF Barrier
<1> HIDE DEF b
<1>3. Changes(i, b)
  BY <1>1, <1>2 DEF Changes, GracePasses, b
<1> QED
  BY <1>3, ChangesFacts DEF GracePasses, Types, workerVars, threadVars

(* Every step keeps the types.                                             *)
LEMMA TypesNext == Types /\ AgentInv /\ [Next]_vars => Types'
<1> SUFFICES ASSUME Types, AgentInv, [Next]_vars PROVE Types'
  OBVIOUS
<1>1. CASE UNCHANGED vars
  BY <1>1 DEF vars, workerVars, threadVars, brokerVars, Types
<1>2. ASSUME NEW a \in Agent, QueryThread(a) PROVE Types'
  BY <1>2, TypesThread, TypesSubmit, TypesFinish, TypesLeave DEF QueryThread
<1>3. CASE NextRound
  <2>1. round' \in Step
    <3>1. round \in 1 .. MaxRound /\ round < MaxRound /\ round' = round + 1
      BY <1>3 DEF NextRound, Types, Step
    <3> QED
      BY <3>1, RoundAssumption DEF Step
  <2> QED
    BY <1>3, <2>1 DEF NextRound, Types, threadVars, brokerVars
<1>4. CASE WaitForInitialDecision
  BY <1>4 DEF WaitForInitialDecision, Types, threadVars, brokerVars
<1>5. CASE InitialDecisionArrives
  BY <1>5 DEF InitialDecisionArrives, Types, threadVars, brokerVars
<1> QED
  BY <1>1, <1>2, <1>3, <1>4, <1>5, TypesMain, TypesGrace DEF Next
-----------------------------------------------------------------------------
(* The parts of the barriers.                                              *)
LEMMA BarrierParts ==
  ASSUME Types
  PROVE  /\ Len(barriers) \in Nat /\ round \in Nat /\ Step \subseteq Nat \ {0}
         /\ \A a \in Agent : asked[a] \in Nat
         /\ \A i \in 1 .. Len(barriers) :
              /\ barriers[i] \in Barrier /\ barriers[i].step \in Step
              /\ barriers[i].submissions \subseteq Agent
              /\ barriers[i].participants \subseteq Agent
              /\ barriers[i].consumed \subseteq Agent
              /\ barriers[i].commands \subseteq Agent
<1>1. Step \subseteq Nat \ {0}
  BY RoundAssumption DEF Step
<1>2. \A i \in 1 .. Len(barriers) : barriers[i] \in Barrier
  BY DEF Types
<1> QED
  BY <1>1, <1>2 DEF Types, Barrier

(* Where the entries of the table lead.                                    *)
LEMMA TableParts ==
  ASSUME Types, NEW s \in Step, states[s] # 0
  PROVE  states[s] \in 1 .. Len(barriers)
<1>1. states[s] \in 0 .. Len(barriers) /\ Len(barriers) \in Nat
  BY DEF Types
<1> QED
  BY <1>1

(* Steps that leave the barriers alone, and nobody leaves one.             *)
LEMMA BarrierFrame ==
  ASSUME Inv, Types', UNCHANGED <<barriers, at>>,
         \A a \in Agent : /\ Busy(a) => Busy(a)'
                          /\ Leads(a)' => Leads(a)
                          /\ \/ asked[a] < asked'[a]
                             \/ /\ asked[a] = asked'[a]
                                /\ pc'[a] = "observing" => pc[a] = "observing"
  PROVE  BarrierInv'
<1> SUFFICES ASSUME NEW i \in 1 .. Len(barriers)
    PROVE  /\ \A a \in barriers[i].submissions :
                /\ barriers[i].step <= asked'[a]
                /\ barriers[i].step = asked'[a] => pc'[a] # "observing"
           /\ ~barriers[i].failed
                /\ (~barriers[i].inFlight \/ \E a \in Agent : Leads(a)' /\ at[a] = i)
              => \A a \in barriers[i].submissions : at[a] = i /\ Busy(a)'
  BY DEF Inv, BarrierInv, Settled
<1>1. barriers[i].step \in Nat /\ barriers[i].submissions \subseteq Agent
  BY BarrierParts DEF Inv
<1>2. \A a \in Agent : asked[a] \in Nat /\ asked'[a] \in Nat
  BY BarrierParts DEF Inv, Types
<1>3. \A a \in barriers[i].submissions :
         /\ barriers[i].step <= asked[a]
         /\ barriers[i].step = asked[a] => pc[a] # "observing"
  BY DEF Inv, BarrierInv
<1>4. ~barriers[i].failed
        /\ (~barriers[i].inFlight \/ \E a \in Agent : Leads(a) /\ at[a] = i)
      => \A a \in barriers[i].submissions : at[a] = i /\ Busy(a)
  BY DEF Inv, BarrierInv
<1>5. \A a \in barriers[i].submissions :
         /\ barriers[i].step <= asked'[a]
         /\ barriers[i].step = asked'[a] => pc'[a] # "observing"
  BY <1>1, <1>2, <1>3
<1>6. ~barriers[i].failed
        /\ (~barriers[i].inFlight \/ \E a \in Agent : Leads(a)' /\ at[a] = i)
      => \A a \in barriers[i].submissions : at[a] = i /\ Busy(a)'
  BY <1>1, <1>4
<1> QED
  BY <1>5, <1>6

(* Such a step leaves the table in order if nobody leaves a barrier.       *)
LEMMA TableFrame ==
  ASSUME Inv, UNCHANGED <<barriers, at, states>>, \A a \in Agent : Busy(a) => Busy(a)'
  PROVE  TableInv'
<1> SUFFICES ASSUME NEW s \in Step, states[s] # 0
    PROVE  /\ barriers[states[s]].step = s
           /\ ~barriers[states[s]].failed
           /\ \A a \in barriers[states[s]].submissions \ barriers[states[s]].consumed :
                at[a] = states[s] /\ Busy(a)'
           /\ barriers[states[s]].decided
                => ~(barriers[states[s]].participants \subseteq barriers[states[s]].consumed)
  BY DEF TableInv
<1>1. barriers[states[s]].submissions \subseteq Agent
  BY TableParts, BarrierParts DEF Inv
<1> QED
  BY <1>1 DEF Inv, TableInv

(* Nor does it disturb the queues.                                         *)
LEMMA QueueFrame ==
  ASSUME Inv, UNCHANGED <<barriers, at, text, queue, dropped>>,
         \A a \in Agent : Busy(a) <=> Busy(a)'
  PROVE  QueueInv'
<1> SUFFICES ASSUME NEW a \in Agent, Clean(a)
    PROVE  \/ text[a] # 0 /\ queue[a] = <<text[a]>>
           \/ /\ text[a] = 0 /\ queue[a] = <<>>
              /\ Busy(a)' => a \notin barriers[at[a]].commands
           \/ /\ text[a] = 0 /\ queue[a] = <<at[a]>>
              /\ Busy(a)' /\ a \in barriers[at[a]].commands
  BY DEF QueueInv, Clean, GivenUp
<1>1. Busy(a) <=> Busy(a)'
  OBVIOUS
<1> QED
  BY <1>1 DEF Inv, QueueInv

(* Steps that start no query and add nobody to the roster.                 *)
LEMMA StepFrame ==
  ASSUME Inv, UNCHANGED <<barriers, at, states, ticks, partial, round, asked>>,
         strayed \subseteq strayed', enabled' \subseteq enabled,
         \A a \in Agent : /\ pc'[a] = "observing" => pc[a] = "observing"
                          /\ pc'[a] = "leading" => pc[a] = "leading"
  PROVE  StepInv'
<1> SUFFICES ASSUME NEW s \in Step \ strayed
    PROVE  /\ \A i, j \in 1 .. Len(barriers) :
                barriers[i].step = s /\ barriers[j].step = s => i = j
           /\ \A i \in 1 .. Len(barriers) : barriers[i].step = s =>
                /\ ~barriers[i].inFlight => states[s] = i
                /\ barriers[i].inFlight =>
                     \A a \in Agent : pc'[a] = "observing" /\ asked[a] = s => a \in partial[s]
                /\ barriers[i].inFlight /\ round = s =>
                     \A a \in enabled' : asked[a] < s => a \in partial[s]
                /\ ticks[s] # 0 => /\ barriers[i].inFlight
                                   /\ \A a \in Agent : at[a] = i => pc'[a] # "leading"
           /\ ticks[s] # 0 => \E i \in 1 .. Len(barriers) : barriers[i].step = s
           /\ ticks[s] <= 1
  BY DEF StepInv
<1> QED
  BY DEF Inv, StepInv
-----------------------------------------------------------------------------
(* The worker's main thread.  A query starts: it is none of the queries    *)
(* that an earlier barrier of the step waits for.                          *)
LEMMA InvStartQuery ==
  ASSUME Inv, Types', NEW a \in Agent, StartQuery(a)
  PROVE  Inv'
<1>1. /\ a \in enabled /\ pc[a] = "idle" /\ text[a] = 0 /\ asked[a] < round
      /\ \A b \in Agent : /\ pc'[b] = IF b = a THEN "observing" ELSE pc[b]
                          /\ asked'[b] = IF b = a THEN round ELSE asked[b]
      /\ UNCHANGED <<round, enabled, text, main, strayed, dropped, at, late, brokerVars>>
  BY DEF StartQuery, Inv, Types
<1>2. round \in Nat \ {0} /\ Len(barriers) \in Nat
      /\ \A b \in Agent : asked[b] \in Nat /\ asked'[b] \in Nat
  <2>1. round \in Step
    BY DEF Inv, Types
  <2>2. Len(barriers) \in Nat /\ round \in Nat \ {0} /\ \A b \in Agent : asked[b] \in Nat
    BY <2>1, BarrierParts DEF Inv
  <2> QED
    BY <1>1, <2>2
<1>3. \A b \in Agent : (Busy(b) <=> Busy(b)') /\ (Leads(b) <=> Leads(b)')
  BY <1>1 DEF Busy, Leads
<1>4. AgentInv'
  BY <1>1, <1>2 DEF Inv, AgentInv, brokerVars, Busy, Leads, Settled
<1>5. OneLeader'
  BY <1>1, <1>3 DEF Inv, OneLeader
<1>6. BarrierInv' /\ TableInv' /\ QueueInv'
  BY <1>1, <1>2, <1>3, BarrierFrame, TableFrame, QueueFrame DEF brokerVars
<1>7. StepInv'
  <2> SUFFICES ASSUME NEW s \in Step \ strayed, NEW i \in 1 .. Len(barriers),
                      barriers[i].step = s
               PROVE  /\ barriers[i].inFlight =>
                           \A b \in Agent :
                             pc'[b] = "observing" /\ asked'[b] = s => b \in partial[s]
                      /\ barriers[i].inFlight /\ round = s =>
                           \A b \in enabled : asked'[b] < s => b \in partial[s]
                      /\ ticks[s] # 0 => \A b \in Agent : at[b] = i => pc'[b] # "leading"
    BY <1>1 DEF Inv, StepInv, brokerVars
  <2>1. /\ barriers[i].inFlight =>
             \A b \in Agent : pc[b] = "observing" /\ asked[b] = s => b \in partial[s]
        /\ barriers[i].inFlight /\ round = s => \A b \in enabled : asked[b] < s => b \in partial[s]
        /\ ticks[s] # 0 => \A b \in Agent : at[b] = i => pc[b] # "leading"
    BY DEF Inv, StepInv
  <2>2. enabled \subseteq Agent
    BY DEF Inv, Types
  <2> QED
    BY <1>1, <1>2, <2>1, <2>2
<1> QED
  BY <1>4, <1>5, <1>6, <1>7 DEF Inv

(* An agent executes its command, the only one in its queue.               *)
LEMMA InvExecute ==
  ASSUME Inv, Types', NEW a \in Agent, Execute(a)
  PROVE  Inv'
<1>1. /\ pc[a] = "idle" /\ text[a] # 0 /\ queue[a] # <<>>
      /\ \A b \in Agent : /\ queue'[b] = IF b = a THEN Tail(queue[b]) ELSE queue[b]
                          /\ text'[b] = IF b = a THEN 0 ELSE text[b]
      /\ UNCHANGED <<round, enabled, asked, main, strayed, dropped, pc, at, late, barriers,
                     states, partial, first, firstError, ticks>>
  BY DEF Execute, Inv, Types, threadVars
<1>2. AgentInv' /\ OneLeader'
  BY <1>1 DEF Inv, AgentInv, OneLeader, Busy, Leads, Settled
<1>3. BarrierInv' /\ TableInv' /\ StepInv'
  BY <1>1 DEF Inv, BarrierInv, TableInv, StepInv, Busy, Leads, Settled
<1>4. QueueInv'
  <2> SUFFICES ASSUME NEW b \in Agent, Clean(b)
      PROVE  \/ text'[b] # 0 /\ queue'[b] = <<text'[b]>>
             \/ /\ text'[b] = 0 /\ queue'[b] = <<>>
                /\ Busy(b) => b \notin barriers[at[b]].commands
             \/ /\ text'[b] = 0 /\ queue'[b] = <<at[b]>>
                /\ Busy(b) /\ b \in barriers[at[b]].commands
    BY <1>1 DEF QueueInv, Clean, GivenUp, Busy
  <2>1. CASE b = a
    <3>1. queue[a] = <<text[a]>>
      BY <1>1, <2>1 DEF Inv, QueueInv
    <3>3. Tail(<<text[a]>>) = <<>>
      OBVIOUS
    <3>2. ~Busy(a) /\ queue'[a] = <<>> /\ text'[a] = 0
      BY <1>1, <3>1, <3>3, Zenon DEF Busy
    <3> QED
      BY <2>1, <3>2
  <2>2. CASE b # a
    BY <1>1, <2>2 DEF Inv, QueueInv
  <2> QED
    BY <2>1, <2>2
<1> QED
  BY <1>2, <1>3, <1>4 DEF Inv

(* An agent whose action is reported has an empty queue, and one whose     *)
(* text is forgotten is not clean any more.                                *)
LEMMA QueueLoses ==
  ASSUME Inv, NEW a \in Agent, Loses(a), UNCHANGED <<barriers, at, pc>>
  PROVE  QueueInv'
<1>1. \A b \in Agent : text'[b] = IF b = a THEN 0 ELSE text[b]
  BY DEF Loses, Inv, Types
<1> SUFFICES ASSUME NEW b \in Agent, Clean(b)'
    PROVE  \/ text'[b] # 0 /\ queue'[b] = <<text'[b]>>
           \/ /\ text'[b] = 0 /\ queue'[b] = <<>>
              /\ Busy(b) => b \notin barriers[at[b]].commands
           \/ /\ text'[b] = 0 /\ queue'[b] = <<at[b]>>
              /\ Busy(b) /\ b \in barriers[at[b]].commands
  BY DEF QueueInv, Busy
<1>2. Clean(b)
  BY DEF Clean, GivenUp, Loses, AbortAction, DropText
<1>3. \/ text[b] # 0 /\ queue[b] = <<text[b]>>
      \/ /\ text[b] = 0 /\ queue[b] = <<>>
         /\ Busy(b) => b \notin barriers[at[b]].commands
      \/ /\ text[b] = 0 /\ queue[b] = <<at[b]>>
         /\ Busy(b) /\ b \in barriers[at[b]].commands
  BY <1>2 DEF Inv, QueueInv
<1>4. CASE AbortAction(a)
  <2>1. text[a] # 0 /\ \A c \in Agent : queue'[c] = IF c = a THEN Tail(queue[c]) ELSE queue[c]
    BY <1>4 DEF AbortAction, Abortable, Inv, Types
  <2>2. CASE b = a
    <3>1. queue[a] = <<text[a]>> /\ Tail(<<text[a]>>) = <<>>
      BY <1>3, <2>1, <2>2
    <3>2. queue'[a] = <<>>
      BY <2>1, <3>1, Zenon
    <3>3. ~Busy(a)
      BY <2>1 DEF Inv, AgentInv, Busy
    <3> QED
      BY <1>1, <2>2, <3>2, <3>3
  <2>3. CASE b # a
    BY <1>1, <1>3, <2>1, <2>3
  <2> QED
    BY <2>2, <2>3
<1>5. CASE DropText(a)
  <2>1. b = a => text[b] = 0
    BY <1>5 DEF DropText, Clean
  <2> QED
    BY <1>1, <1>3, <1>5, <2>1 DEF DropText
<1> QED
  BY <1>4, <1>5 DEF Loses

(* An agent leaves the roster.                                             *)
LEMMA InvDisable ==
  ASSUME Inv, Types', NEW a \in Agent, Disable(a)
  PROVE  Inv'
<1>1. /\ enabled' = enabled \ {a} /\ strayed \subseteq strayed'
      /\ pc[a] = "observing" => asked[a] \in strayed'
      /\ Loses(a) /\ \A b \in Agent : text[b] = 0 => text'[b] = 0
      /\ UNCHANGED <<round, asked, main, pc, at, late, barriers, states, partial,
                     first, firstError, ticks>>
  BY DEF Disable, Loses, threadVars, Inv, Types
<1>2. AgentInv'
  BY <1>1 DEF Inv, AgentInv, Busy, Leads, Settled
<1>3. OneLeader'
  BY <1>1 DEF Inv, OneLeader, Leads
<1>4. BarrierInv' /\ TableInv' /\ QueueInv'
  BY <1>1, BarrierFrame, TableFrame, QueueLoses DEF Busy, Leads
<1>5. StepInv'
  BY <1>1, StepFrame
<1> QED
  BY <1>2, <1>3, <1>4, <1>5 DEF Inv

(* An agent joins the roster: nobody was asked in this round, so no        *)
(* barrier is of its step.                                                 *)
LEMMA InvEnable ==
  ASSUME Inv, Types', NEW a \in Agent, Enable(a)
  PROVE  Inv'
<1>1. /\ pc[a] = "idle" /\ enabled' = enabled \cup {a}
      /\ \A b \in Agent : asked[b] < round
      /\ Loses(a) /\ \A b \in Agent : text[b] = 0 => text'[b] = 0
      /\ UNCHANGED <<round, asked, main, strayed, pc, at, late, barriers, states,
                     partial, first, firstError, ticks>>
  BY DEF Enable, Loses, threadVars, Inv, Types
<1>2. AgentInv'
  BY <1>1 DEF Inv, AgentInv, Busy, Leads, Settled
<1>3. OneLeader'
  BY <1>1 DEF Inv, OneLeader, Leads
<1>4. BarrierInv' /\ TableInv' /\ QueueInv'
  BY <1>1, BarrierFrame, TableFrame, QueueLoses DEF Busy, Leads
<1>5. \A i \in 1 .. Len(barriers) : barriers[i].step < round
  <2> SUFFICES ASSUME NEW i \in 1 .. Len(barriers) PROVE barriers[i].step < round
    OBVIOUS
  <2>1. PICK b \in barriers[i].submissions : TRUE
    BY DEF Inv, BarrierInv
  <2>2. barriers[i].step <= asked[b] /\ asked[b] < round
    BY <1>1, BarrierParts DEF Inv, BarrierInv
  <2> QED
    BY <2>1, <2>2, BarrierParts DEF Inv
<1>6. StepInv'
  <2> SUFFICES ASSUME NEW s \in Step \ strayed, NEW i \in 1 .. Len(barriers),
                      barriers[i].step = s
               PROVE  round # s
    BY <1>1 DEF Inv, StepInv
  <2> QED
    BY <1>5, BarrierParts DEF Inv
<1> QED
  BY <1>2, <1>3, <1>4, <1>6 DEF Inv

(* The next round: every barrier is of an earlier one.                     *)
LEMMA InvNextRound ==
  ASSUME Inv, Types', NextRound
  PROVE  Inv'
<1>1. /\ \A a \in enabled : pc[a] = "idle" /\ text[a] = 0 /\ asked[a] = round
      /\ round' = round + 1
      /\ UNCHANGED <<enabled, asked, text, main, strayed, dropped, pc, at, late, brokerVars>>
  BY DEF NextRound, threadVars
<1>2. round \in Nat /\ \A a \in Agent : asked[a] \in Nat
  BY BarrierParts DEF Inv
<1>3. AgentInv'
  BY <1>1, <1>2 DEF Inv, AgentInv, brokerVars, Busy, Leads, Settled
<1>4. OneLeader'
  BY <1>1 DEF Inv, OneLeader, Leads
<1>5. BarrierInv' /\ TableInv' /\ QueueInv'
  BY <1>1, BarrierFrame, TableFrame, QueueFrame DEF brokerVars, Busy, Leads
<1>6. \A i \in 1 .. Len(barriers) : barriers[i].step <= round
  <2> SUFFICES ASSUME NEW i \in 1 .. Len(barriers) PROVE barriers[i].step <= round
    OBVIOUS
  <2>1. PICK b \in barriers[i].submissions : TRUE
    BY DEF Inv, BarrierInv
  <2>2. barriers[i].step <= asked[b] /\ asked[b] <= round
    BY BarrierParts DEF Inv, BarrierInv, AgentInv
  <2> QED
    BY <2>1, <2>2, BarrierParts DEF Inv
<1>7. StepInv'
  <2> SUFFICES ASSUME NEW s \in Step \ strayed, NEW i \in 1 .. Len(barriers),
                      barriers[i].step = s
               PROVE  round' # s
    BY <1>1 DEF Inv, StepInv, brokerVars
  <2> QED
    BY <1>1, <1>2, <1>6, BarrierParts DEF Inv
<1> QED
  BY <1>3, <1>4, <1>5, <1>7 DEF Inv

(* Steps that concern the first decision alone, or nothing.                *)
LEMMA InvStutter ==
  ASSUME Inv, Types',
         UNCHANGED <<round, enabled, asked, text, strayed, dropped, pc, at, late, barriers, states,
                     partial, queue, ticks>>
  PROVE  Inv'
<1>1. AgentInv' /\ OneLeader'
  BY DEF Inv, AgentInv, OneLeader, Busy, Leads, Settled
<1>2. BarrierInv' /\ TableInv' /\ QueueInv' /\ StepInv'
  BY BarrierFrame, TableFrame, QueueFrame, StepFrame DEF Busy, Leads
<1> QED
  BY <1>1, <1>2 DEF Inv
-----------------------------------------------------------------------------
(* The query threads.  What submit forgets concerns steps that no agent    *)
(* can still be asked for.                                                 *)
LEMMA Remembers ==
  ASSUME Inv, NEW a \in Agent, pc[a] = "observing", NEW s \in Step \ strayed,
         NEW b \in Agent, \/ pc[b] = "observing" /\ asked[b] = s
                          \/ b \in enabled /\ round = s
  PROVE  Remembered(asked[a])[s] = partial[s]
<1>1. asked[a] <= round /\ asked[a] \in Nat /\ s \in Nat /\ round \in Nat /\ KeptSteps \in Nat
  BY BarrierParts, KeptAssumption DEF Inv, AgentInv
<1>2. s = round
  BY <1>1 DEF Inv, AgentInv
<1>3. ~(s < asked[a] - KeptSteps)
  BY <1>1, <1>2
<1> QED
  BY <1>3 DEF Remembered

(* The query of an agent that the decision of its step has passed over     *)
(* returns without joining a barrier.                                      *)
LEMMA InvSubmitSkipped ==
  ASSUME Inv, Types', NEW a \in Agent, SubmitSkipped(a)
  PROVE  Inv'
<1>1. /\ pc[a] = "observing" /\ partial' = Remembered(asked[a])
      /\ \A b \in Agent : pc'[b] = IF b = a THEN "idle" ELSE pc[b]
      /\ UNCHANGED <<round, enabled, asked, text, main, strayed, dropped, at, late, barriers,
                     states, first, firstError, queue, ticks>>
  BY DEF SubmitSkipped, Inv, Types, workerVars
<1>2. \A b \in Agent : (Busy(b) <=> Busy(b)') /\ (Leads(b) <=> Leads(b)')
  BY <1>1 DEF Busy, Leads
<1>3. AgentInv'
  BY <1>1 DEF Inv, AgentInv, Busy, Leads, Settled
<1>4. OneLeader'
  BY <1>1, <1>2 DEF Inv, OneLeader
<1>5. BarrierInv' /\ TableInv' /\ QueueInv'
  BY <1>1, <1>2, BarrierFrame, TableFrame, QueueFrame
<1>6. StepInv'
  <2> SUFFICES ASSUME NEW s \in Step \ strayed, NEW i \in 1 .. Len(barriers),
                      barriers[i].step = s
               PROVE  /\ barriers[i].inFlight =>
                           \A b \in Agent :
                             pc'[b] = "observing" /\ asked[b] = s => b \in partial'[s]
                      /\ barriers[i].inFlight /\ round = s =>
                           \A b \in enabled : asked[b] < s => b \in partial'[s]
                      /\ ticks[s] # 0 => \A b \in Agent : at[b] = i => pc'[b] # "leading"
    BY <1>1 DEF Inv, StepInv
  <2>1. /\ barriers[i].inFlight =>
             \A b \in Agent : pc[b] = "observing" /\ asked[b] = s => b \in partial[s]
        /\ barriers[i].inFlight /\ round = s => \A b \in enabled : asked[b] < s => b \in partial[s]
        /\ ticks[s] # 0 => \A b \in Agent : at[b] = i => pc[b] # "leading"
    BY DEF Inv, StepInv
  <2>2. \A b \in Agent : \/ pc[b] = "observing" /\ asked[b] = s
                         \/ b \in enabled /\ round = s
          => partial'[s] = partial[s]
    BY <1>1, Remembers
  <2>3. enabled \subseteq Agent
    BY DEF Inv, Types
  <2> QED
    BY <1>1, <2>1, <2>2, <2>3
<1> QED
  BY <1>3, <1>4, <1>5, <1>6 DEF Inv

(* The loop condition is read, the lock waited for.                        *)
LEMMA InvWaits ==
  ASSUME Inv, Types', NEW a \in Agent, Check(a) \/ WaitOn(a) \/ DeadlinePasses(a)
  PROVE  Inv'
<1>1. /\ UNCHANGED <<round, enabled, asked, text, strayed, dropped, at, barriers, states, partial,
                     queue, ticks>>
      /\ \A b \in Agent : b # a => pc'[b] = pc[b] /\ (b \in late' <=> b \in late)
      /\ pc[a] \in {"checking", "locking"} /\ pc'[a] \in {"checking", "locking", "leaving"}
      /\ pc'[a] = "leaving" => Settled(barriers[at[a]])
      /\ a \in late' =>
           a \in late \/ \E b \in Agent : pc[b] = "ticking" /\ at[b] = at[a]
  <2>1. CASE Check(a)
    BY <2>1 DEF Check, workerVars, brokerVars, Inv, Types
  <2>2. CASE WaitOn(a)
    BY <2>2 DEF WaitOn, workerVars, brokerVars, Inv, Types
  <2>3. CASE DeadlinePasses(a)
    BY <2>3 DEF DeadlinePasses, workerVars, brokerVars, Inv, Types
  <2> QED
    BY <2>1, <2>2, <2>3
<1>2. \A b \in Agent : (Busy(b) <=> Busy(b)') /\ (Leads(b) <=> Leads(b)')
  BY <1>1 DEF Busy, Leads
<1>3. AgentInv'
  <2> SUFFICES ASSUME NEW b \in Agent
      PROVE  /\ asked[b] <= round
             /\ pc'[b] # "idle" => asked[b] # 0 /\ text[b] = 0
             /\ pc'[b] # "idle" /\ b \in enabled => asked[b] = round
             /\ pc'[b] = "observing" /\ b \notin enabled => asked[b] \in strayed
             /\ Busy(b)' => at[b] # 0 /\ b \in barriers[at[b]].submissions
             /\ pc'[b] = "leaving" => Settled(barriers[at[b]])
             /\ Leads(b)' => barriers[at[b]].inFlight /\ ~barriers[at[b]].decided
             /\ b \in late' => /\ pc'[b] \in {"checking", "locking", "leaving"}
                               /\ barriers[at[b]].inFlight
    BY <1>1 DEF AgentInv, Settled
  <2>1. CASE b = a
    <3>1. a \in late' => barriers[at[a]].inFlight
      BY <1>1 DEF Inv, AgentInv, Leads
    <3> QED
      BY <1>1, <1>2, <2>1, <3>1 DEF Inv, AgentInv
  <2>2. CASE b # a
    BY <1>1, <1>2, <2>2 DEF Inv, AgentInv
  <2> QED
    BY <2>1, <2>2
<1>4. OneLeader'
  BY <1>1, <1>2 DEF Inv, OneLeader
<1>5. \A b \in Agent : /\ pc'[b] = "observing" => pc[b] = "observing"
                       /\ pc'[b] = "leading" => pc[b] = "leading"
  BY <1>1
<1>6. BarrierInv' /\ TableInv' /\ QueueInv' /\ StepInv'
  BY <1>1, <1>2, <1>5, BarrierFrame, TableFrame, QueueFrame, StepFrame
<1> QED
  BY <1>3, <1>4, <1>6 DEF Inv

(* Steps that change barriers but not their commands leave the queues in   *)
(* order too.                                                              *)
LEMMA QueueKept ==
  ASSUME Inv, UNCHANGED <<at, text, queue, dropped>>, Len(barriers') = Len(barriers),
         \A i \in 1 .. Len(barriers) : /\ barriers'[i].commands = barriers[i].commands
                                       /\ GivenUp(i) => GivenUp(i)',
         \A a \in Agent : Busy(a) <=> Busy(a)'
  PROVE  QueueInv'
<1> SUFFICES ASSUME NEW a \in Agent, Clean(a)'
    PROVE  \/ text[a] # 0 /\ queue[a] = <<text[a]>>
           \/ /\ text[a] = 0 /\ queue[a] = <<>>
              /\ Busy(a)' => a \notin barriers'[at[a]].commands
           \/ /\ text[a] = 0 /\ queue[a] = <<at[a]>>
              /\ Busy(a)' /\ a \in barriers'[at[a]].commands
  BY DEF QueueInv
<1>1. Clean(a)
  BY DEF Clean
<1>2. Busy(a) => barriers'[at[a]].commands = barriers[at[a]].commands
  BY AtBarrier DEF Inv
<1> QED
  BY <1>1, <1>2 DEF Inv, QueueInv

(* The grace period of a barrier passes.                                   *)
LEMMA InvGrace ==
  ASSUME Inv, Types', NEW i \in DOMAIN barriers, GracePasses(i)
  PROVE  Inv'
<1> DEFINE g == [barriers[i] EXCEPT !.aged = TRUE]
<1>1. i \in 1 .. Len(barriers) /\ barriers[i] \in Barrier
  BY DEF Inv, Types
<1>2. g \in Barrier /\ g.step = barriers[i].step /\ g.submissions = barriers[i].submissions
      /\ g.participants = barriers[i].participants /\ g.inFlight = barriers[i].inFlight
      /\ g.decided = barriers[i].decided /\ g.failed = barriers[i].failed
      /\ g.commands = barriers[i].commands /\ g.consumed = barriers[i].consumed
  BY <1>1 DEF Barrier
<1> HIDE DEF g
<1>3. Changes(i, g)
  BY <1>1, <1>2 DEF Changes, GracePasses, g
<1>4. /\ Len(barriers') = Len(barriers) /\ Len(barriers) \in Nat
      /\ \A j \in 1 .. Len(barriers) :
           /\ barriers'[j].step = barriers[j].step
           /\ barriers'[j].submissions = barriers[j].submissions
           /\ barriers'[j].participants = barriers[j].participants
           /\ barriers'[j].inFlight = barriers[j].inFlight
           /\ barriers'[j].decided = barriers[j].decided
           /\ barriers'[j].failed = barriers[j].failed
           /\ barriers'[j].commands = barriers[j].commands
           /\ barriers'[j].consumed = barriers[j].consumed
  BY <1>2, <1>3, ChangesFacts DEF Inv
<1>5. UNCHANGED <<round, enabled, asked, text, strayed, dropped, pc, at, late, states, partial,
                  queue, ticks>>
  BY DEF GracePasses, workerVars, threadVars
<1>6. \A a \in Agent : (Busy(a) <=> Busy(a)') /\ (Leads(a) <=> Leads(a)')
  BY <1>5 DEF Busy, Leads
<1>7. \A a \in Agent : (Busy(a) \/ a \in late) => at[a] \in 1 .. Len(barriers)
  BY AtBarrier DEF Inv, AgentInv, Busy
<1>8. AgentInv'
  BY <1>4, <1>5, <1>6, <1>7 DEF Inv, AgentInv, Settled, Busy, Leads
<1>9. OneLeader'
  BY <1>5, <1>6 DEF Inv, OneLeader
<1>10. BarrierInv'
  <2>1. \A j \in 1 .. Len(barriers) : \A a \in barriers[j].submissions : Busy(a) <=> Busy(a)'
    BY <1>6, BarrierParts DEF Inv
  <2> QED
    BY <1>4, <1>5, <1>6, <2>1 DEF Inv, BarrierInv, Settled
<1>11. TableInv'
  <2>1. \A s \in Step : states[s] # 0 => states[s] \in 1 .. Len(barriers)
    BY TableParts DEF Inv
  <2>2. \A s \in Step : states[s] # 0 => barriers[states[s]].submissions \subseteq Agent
    BY <2>1, BarrierParts DEF Inv
  <2> QED
    BY <1>4, <1>5, <1>6, <2>1, <2>2 DEF Inv, TableInv
<1>12. StepInv'
  BY <1>4, <1>5 DEF Inv, StepInv
<1>13. QueueInv'
  BY <1>4, <1>5, <1>6, QueueKept DEF GivenUp
<1> QED
  BY <1>8, <1>9, <1>10, <1>11, <1>12, <1>13 DEF Inv

(* A query is elected: nobody leads its barrier yet, and who is missing is *)
(* recorded.                                                               *)
LEMMA InvElect ==
  ASSUME Inv, Types', NEW a \in Agent, Elect(a)
  PROVE  Inv'
<1> DEFINE i == at[a]
           g == [barriers[i] EXCEPT !.inFlight = TRUE,
                                    !.participants = Participants(barriers[i])]
<1>1. /\ pc[a] = "locking" /\ Busy(a) /\ ~barriers[i].inFlight
      /\ \A b \in Agent : pc'[b] = IF b = a THEN "leading" ELSE pc[b]
      /\ UNCHANGED <<round, enabled, asked, text, strayed, dropped, at, late, states, queue, ticks>>
  BY DEF Elect, Electable, Inv, Types, workerVars, Busy
<1>2. i \in 1 .. Len(barriers) /\ barriers[i] \in Barrier /\ barriers[i].step \in Step
  BY <1>1, AtBarrier DEF Inv
<1>3. /\ barriers[i].submissions \in SUBSET Agent /\ barriers[i].submissions # {}
      /\ ~barriers[i].decided /\ ~barriers[i].failed
      /\ barriers[i].commands = {} /\ barriers[i].consumed = {}
      /\ \A b \in barriers[i].submissions : at[b] = i /\ Busy(b)
  BY <1>1, <1>2 DEF Inv, BarrierInv, Settled, Barrier
<1>4. Participants(barriers[i]) # {} /\ Participants(barriers[i]) \subseteq barriers[i].submissions
  BY <1>3 DEF Participants
<1>5. g \in Barrier /\ g.step = barriers[i].step /\ g.submissions = barriers[i].submissions
      /\ g.participants = Participants(barriers[i]) /\ g.inFlight
      /\ g.decided = barriers[i].decided /\ g.failed = barriers[i].failed
      /\ g.commands = barriers[i].commands /\ g.consumed = barriers[i].consumed
  BY <1>2, <1>3, <1>4 DEF Barrier
<1>6. Changes(i, g)
  BY <1>2, <1>5 DEF Changes, Elect
<1> HIDE DEF g
<1>7. /\ Len(barriers') = Len(barriers) /\ Len(barriers) \in Nat
      /\ \A j \in 1 .. Len(barriers) :
           /\ barriers'[j].step = barriers[j].step
           /\ barriers'[j].submissions = barriers[j].submissions
           /\ j # i => barriers'[j].participants = barriers[j].participants
           /\ j # i => barriers'[j].inFlight = barriers[j].inFlight
           /\ barriers'[j].decided = barriers[j].decided
           /\ barriers'[j].failed = barriers[j].failed
           /\ barriers'[j].commands = barriers[j].commands
           /\ barriers'[j].consumed = barriers[j].consumed
      /\ barriers'[i].inFlight /\ barriers'[i].participants = Participants(barriers[i])
  BY <1>5, <1>6, ChangesFacts DEF Inv
<1> HIDE DEF i
<1>8. \A b \in Agent : (Busy(b) <=> Busy(b)') /\ (Leads(b)' <=> Leads(b) \/ b = a)
  BY <1>1 DEF Busy, Leads
<1>9. \A b \in Agent : (Busy(b) \/ b \in late) => at[b] \in 1 .. Len(barriers)
  BY AtBarrier DEF Inv, AgentInv, Busy
<1>10. at[a] = i /\ a \notin late
  BY <1>1 DEF Inv, AgentInv, i
<1>11. AgentInv'
  <2> SUFFICES ASSUME NEW b \in Agent
      PROVE  /\ asked[b] <= round
             /\ pc'[b] # "idle" => asked[b] # 0 /\ text[b] = 0
             /\ pc'[b] # "idle" /\ b \in enabled => asked[b] = round
             /\ pc'[b] = "observing" /\ b \notin enabled => asked[b] \in strayed
             /\ Busy(b)' => at[b] # 0 /\ b \in barriers'[at[b]].submissions
             /\ pc'[b] = "leaving" => barriers'[at[b]].decided \/ barriers'[at[b]].failed
             /\ Leads(b)' => barriers'[at[b]].inFlight /\ ~barriers'[at[b]].decided
             /\ b \in late => /\ pc'[b] \in {"checking", "locking", "leaving"}
                              /\ barriers'[at[b]].inFlight
    BY <1>1 DEF AgentInv, Settled
  <2>1. CASE b = a
    BY <1>1, <1>2, <1>3, <1>7, <1>8, <1>9, <1>10, <2>1 DEF Inv, AgentInv
  <2>2. CASE b # a
    <3>1. Leads(b) => Busy(b)
      BY DEF Leads, Busy
    <3>2. (Busy(b) \/ b \in late) /\ barriers[at[b]].inFlight => barriers'[at[b]].inFlight
      BY <1>7, <1>9
    <3>3. pc[b] = "leaving" => Busy(b)
      BY DEF Busy
    <3> QED
      BY <1>1, <1>7, <1>8, <1>9, <2>2, <3>1, <3>2, <3>3 DEF Inv, AgentInv, Settled
  <2> QED
    BY <2>1, <2>2
<1>12. \A b \in Agent : Leads(b) => at[b] # i
  BY <1>1, <1>10 DEF Inv, AgentInv
<1>13. OneLeader'
  BY <1>1, <1>8, <1>10, <1>12 DEF Inv, OneLeader
<1>14. BarrierInv'
  <2> SUFFICES ASSUME NEW j \in 1 .. Len(barriers)
      PROVE  /\ barriers'[j].submissions # {}
             /\ barriers'[j].participants \subseteq barriers'[j].submissions
             /\ barriers'[j].commands \subseteq barriers'[j].participants
             /\ \A b \in barriers'[j].submissions :
                  /\ barriers'[j].step <= asked[b]
                  /\ barriers'[j].step = asked[b] => pc'[b] # "observing"
             /\ barriers'[j].decided \/ barriers'[j].failed => barriers'[j].inFlight
             /\ barriers'[j].inFlight => barriers'[j].participants # {}
             /\ ~barriers'[j].decided => barriers'[j].consumed = {} /\ barriers'[j].commands = {}
             /\ ~barriers'[j].failed
                  /\ (~barriers'[j].inFlight \/ \E b \in Agent : Leads(b)' /\ at[b] = j)
                => \A b \in barriers'[j].submissions : at[b] = j /\ Busy(b)'
    BY <1>1, <1>7 DEF BarrierInv, Settled
  <2>1. /\ barriers[j].submissions # {} /\ barriers[j].submissions \subseteq Agent
        /\ barriers[j].participants \subseteq barriers[j].submissions
        /\ barriers[j].commands \subseteq barriers[j].participants
        /\ \A b \in barriers[j].submissions :
             /\ barriers[j].step <= asked[b]
             /\ barriers[j].step = asked[b] => pc[b] # "observing"
        /\ barriers[j].decided \/ barriers[j].failed => barriers[j].inFlight
        /\ barriers[j].inFlight => barriers[j].participants # {}
        /\ ~barriers[j].decided => barriers[j].consumed = {} /\ barriers[j].commands = {}
        /\ ~barriers[j].failed
             /\ (~barriers[j].inFlight \/ \E b \in Agent : Leads(b) /\ at[b] = j)
           => \A b \in barriers[j].submissions : at[b] = j /\ Busy(b)
    BY BarrierParts DEF Inv, BarrierInv, Settled
  <2>2. \A b \in barriers[j].submissions : pc'[b] = "observing" => pc[b] = "observing"
    BY <1>1, <2>1
  <2>3. CASE j = i
    BY <1>3, <1>4, <1>7, <1>8, <2>1, <2>2, <2>3
  <2>4. CASE j # i
    <3>1. \A b \in Agent : Leads(b)' /\ at[b] = j => Leads(b)
      BY <1>8, <1>10, <2>4
    <3> QED
      BY <1>7, <1>8, <2>1, <2>2, <2>4, <3>1
  <2> QED
    BY <2>3, <2>4
<1>15. TableInv'
  <2> SUFFICES ASSUME NEW s \in Step, states[s] # 0
      PROVE  /\ barriers'[states[s]].step = s
             /\ ~barriers'[states[s]].failed
             /\ \A b \in barriers'[states[s]].submissions \ barriers'[states[s]].consumed :
                  at[b] = states[s] /\ Busy(b)'
             /\ barriers'[states[s]].decided
                  => ~(barriers'[states[s]].participants \subseteq barriers'[states[s]].consumed)
    BY <1>1 DEF TableInv
  <2>1. states[s] \in 1 .. Len(barriers)
    BY TableParts DEF Inv
  <2>2. barriers[states[s]].submissions \subseteq Agent
    BY <2>1, BarrierParts DEF Inv
  <2>3. /\ barriers[states[s]].step = s
        /\ ~barriers[states[s]].failed
        /\ \A b \in barriers[states[s]].submissions \ barriers[states[s]].consumed :
             at[b] = states[s] /\ Busy(b)
        /\ barriers[states[s]].decided
             => ~(barriers[states[s]].participants \subseteq barriers[states[s]].consumed)
    BY DEF Inv, TableInv
  <2>4. barriers'[states[s]].decided => states[s] # i
    BY <1>3, <1>7, <2>1
  <2> QED
    BY <1>7, <1>8, <2>1, <2>2, <2>3, <2>4
<1>16. StepInv'
  <2> SUFFICES ASSUME NEW s \in Step \ strayed
      PROVE  /\ \A j, k \in 1 .. Len(barriers) :
                  barriers[j].step = s /\ barriers[k].step = s => j = k
             /\ \A j \in 1 .. Len(barriers) : barriers[j].step = s =>
                  /\ ~barriers'[j].inFlight => states[s] = j
                  /\ barriers'[j].inFlight =>
                       \A b \in Agent : pc'[b] = "observing" /\ asked[b] = s => b \in partial'[s]
                  /\ barriers'[j].inFlight /\ round = s =>
                       \A b \in enabled : asked[b] < s => b \in partial'[s]
                  /\ ticks[s] # 0 => /\ barriers'[j].inFlight
                                     /\ \A b \in Agent : at[b] = j => pc'[b] # "leading"
             /\ ticks[s] # 0 => \E j \in 1 .. Len(barriers) : barriers[j].step = s
             /\ ticks[s] <= 1
    BY <1>1, <1>7 DEF StepInv
  <2>1. /\ \A j, k \in 1 .. Len(barriers) :
             barriers[j].step = s /\ barriers[k].step = s => j = k
        /\ ticks[s] # 0 => \E j \in 1 .. Len(barriers) : barriers[j].step = s
        /\ ticks[s] <= 1
    BY DEF Inv, StepInv
  <2> SUFFICES ASSUME NEW j \in 1 .. Len(barriers), barriers[j].step = s
      PROVE  /\ ~barriers'[j].inFlight => states[s] = j
             /\ barriers'[j].inFlight =>
                  \A b \in Agent : pc'[b] = "observing" /\ asked[b] = s => b \in partial'[s]
             /\ barriers'[j].inFlight /\ round = s =>
                  \A b \in enabled : asked[b] < s => b \in partial'[s]
             /\ ticks[s] # 0 => /\ barriers'[j].inFlight
                                /\ \A b \in Agent : at[b] = j => pc'[b] # "leading"
    BY <2>1
  <2>2. /\ ~barriers[j].inFlight => states[s] = j
        /\ barriers[j].inFlight =>
             \A b \in Agent : pc[b] = "observing" /\ asked[b] = s => b \in partial[s]
        /\ barriers[j].inFlight /\ round = s =>
             \A b \in enabled : asked[b] < s => b \in partial[s]
        /\ ticks[s] # 0 => /\ barriers[j].inFlight
                           /\ \A b \in Agent : at[b] = j => pc[b] # "leading"
    BY DEF Inv, StepInv
  <2>3. \A b \in Agent : pc'[b] = "observing" => pc[b] = "observing"
    BY <1>1
  <2>4. CASE j = i
    <3>1. partial' = IF Missing(barriers[i]) = {} THEN partial
                     ELSE [partial EXCEPT ![s] = Missing(barriers[i])]
      BY <2>4 DEF Elect, i
    <3>2. partial \in [Step -> SUBSET Agent]
      BY DEF Inv, Types
    <3>3. \A b \in Missing(barriers[i]) : b \in partial'[s]
      BY <3>1, <3>2
    <3>4. \A b \in barriers[i].submissions : s <= asked[b] /\ (s = asked[b] => pc[b] # "observing")
      BY <1>2, <2>4 DEF Inv, BarrierInv
    <3>5. \A b \in enabled : asked[b] < s \/ (pc[b] = "observing" /\ asked[b] = s)
             => b \in Missing(barriers[i])
      <4> SUFFICES ASSUME NEW b \in enabled,
                          asked[b] < s \/ (pc[b] = "observing" /\ asked[b] = s)
          PROVE  b \notin barriers[i].submissions
        BY <1>4 DEF Missing
      <4>1. b \in Agent
        BY DEF Inv, Types
      <4>2. asked[b] \in Nat /\ s \in Nat
        BY <4>1, BarrierParts DEF Inv
      <4> QED
        BY <3>4, <4>2
    <3>6. \A b \in Agent : pc[b] = "observing" /\ asked[b] = s => b \in enabled
      BY DEF Inv, AgentInv
    <3>7. ticks[s] = 0
      BY <1>1, <1>10, <2>2, <2>4
    <3> QED
      BY <1>7, <2>3, <2>4, <3>3, <3>5, <3>6, <3>7
  <2>5. CASE j # i
    <3>1. barriers[i].step # s
      BY <1>2, <2>1, <2>5
    <3>2. partial'[s] = partial[s]
      BY <3>1 DEF Elect, i
    <3>3. \A b \in Agent : at[b] = j /\ pc'[b] = "leading" => pc[b] = "leading"
      BY <1>1, <1>10, <2>5
    <3> QED
      BY <1>7, <2>2, <2>3, <2>5, <3>2, <3>3
  <2> QED
    BY <2>4, <2>5
<1>17. QueueInv'
  BY <1>1, <1>7, <1>8, QueueKept DEF GivenUp
<1> QED
  BY <1>11, <1>13, <1>14, <1>15, <1>16, <1>17 DEF Inv

(* A barrier fails that somebody led: it leaves the table.                 *)
LEMMA InvFail ==
  ASSUME Inv, Types', NEW a \in Agent, pc[a] \in {"locking", "ticking"},
         barriers[at[a]].inFlight, Fail(at[a]), pc' = [pc EXCEPT ![a] = "checking"],
         UNCHANGED <<workerVars, at, late, queue>>
  PROVE  Inv'
<1> DEFINE i == at[a]
           g == [barriers[i] EXCEPT !.failed = TRUE]
<1>1. /\ Busy(a) /\ barriers[i].inFlight
      /\ \A b \in Agent : pc'[b] = IF b = a THEN "checking" ELSE pc[b]
      /\ UNCHANGED <<round, enabled, asked, text, strayed, dropped, at, late, partial,
                     queue, ticks>>
  BY DEF Fail, Inv, Types, workerVars, Busy
<1>2. i \in 1 .. Len(barriers) /\ barriers[i] \in Barrier /\ barriers[i].step \in Step
  BY <1>1, AtBarrier DEF Inv
<1>3. g \in Barrier /\ g.step = barriers[i].step /\ g.submissions = barriers[i].submissions
      /\ g.participants = barriers[i].participants /\ g.inFlight = barriers[i].inFlight
      /\ g.decided = barriers[i].decided /\ g.failed
      /\ g.commands = barriers[i].commands /\ g.consumed = barriers[i].consumed
  BY <1>2 DEF Barrier
<1>4. Changes(i, g)
  BY <1>2, <1>3 DEF Changes, Fail
<1> HIDE DEF g
<1>5. /\ Len(barriers') = Len(barriers) /\ Len(barriers) \in Nat
      /\ \A j \in 1 .. Len(barriers) :
           /\ barriers'[j].step = barriers[j].step
           /\ barriers'[j].submissions = barriers[j].submissions
           /\ barriers'[j].participants = barriers[j].participants
           /\ barriers'[j].inFlight = barriers[j].inFlight
           /\ barriers'[j].decided = barriers[j].decided
           /\ j # i => barriers'[j].failed = barriers[j].failed
           /\ barriers'[j].commands = barriers[j].commands
           /\ barriers'[j].consumed = barriers[j].consumed
      /\ barriers'[i].failed
  <2>1. /\ Len(barriers') = Len(barriers) /\ Len(barriers) \in Nat
        /\ barriers'[i] = g
        /\ \A j \in 1 .. Len(barriers) : j # i => barriers'[j] = barriers[j]
    BY <1>4, ChangesFacts DEF Inv
  <2>2. barriers'[i].failed
    BY <1>3, <2>1, Zenon
  <2> HIDE DEF i
  <2>3. \A j \in 1 .. Len(barriers) :
          /\ barriers'[j].step = barriers[j].step
          /\ barriers'[j].submissions = barriers[j].submissions
          /\ barriers'[j].participants = barriers[j].participants
          /\ barriers'[j].inFlight = barriers[j].inFlight
          /\ barriers'[j].decided = barriers[j].decided
          /\ j # i => barriers'[j].failed = barriers[j].failed
          /\ barriers'[j].commands = barriers[j].commands
          /\ barriers'[j].consumed = barriers[j].consumed
    BY <1>3, <2>1
  <2> QED
    BY <2>1, <2>2, <2>3
<1>6. \A s \in Step : states'[s] = IF s = barriers[i].step THEN 0 ELSE states[s]
  BY <1>2 DEF Fail, Closed, Inv, Types
<1> HIDE DEF i
<1>7. \A b \in Agent : (Busy(b) <=> Busy(b)') /\ (Leads(b)' => Leads(b))
  BY <1>1 DEF Busy, Leads
<1>8. \A b \in Agent : (Busy(b) \/ b \in late) => at[b] \in 1 .. Len(barriers)
  BY AtBarrier DEF Inv, AgentInv, Busy
<1>9. at[a] = i
  BY DEF i
<1>10. \A j \in 1 .. Len(barriers) : /\ Settled(barriers[j]) => Settled(barriers'[j])
                                     /\ barriers[j].failed => barriers'[j].failed
  BY <1>5 DEF Settled
<1>11. AgentInv'
  <2> SUFFICES ASSUME NEW b \in Agent
      PROVE  /\ asked[b] <= round
             /\ pc'[b] # "idle" => asked[b] # 0 /\ text[b] = 0
             /\ pc'[b] # "idle" /\ b \in enabled => asked[b] = round
             /\ pc'[b] = "observing" /\ b \notin enabled => asked[b] \in strayed
             /\ Busy(b)' => at[b] # 0 /\ b \in barriers'[at[b]].submissions
             /\ pc'[b] = "leaving" => Settled(barriers'[at[b]])
             /\ Leads(b)' => barriers'[at[b]].inFlight /\ ~barriers'[at[b]].decided
             /\ b \in late => /\ pc'[b] \in {"checking", "locking", "leaving"}
                              /\ barriers'[at[b]].inFlight
    BY <1>1 DEF AgentInv, Settled
  <2>1. /\ Leads(b) => Busy(b)
        /\ pc[b] = "leaving" => Busy(b)
        /\ pc'[b] = "leaving" => pc[b] = "leaving"
    BY <1>1 DEF Leads, Busy
  <2>2. pc'[b] # "idle" => pc[b] # "idle"
    BY <1>1
  <2> QED
    BY <1>1, <1>5, <1>7, <1>8, <1>10, <2>1, <2>2 DEF Inv, AgentInv
<1>12. OneLeader'
  BY <1>1, <1>7 DEF Inv, OneLeader
<1>13. BarrierInv'
  <2> SUFFICES ASSUME NEW j \in 1 .. Len(barriers)
      PROVE  /\ barriers[j].submissions # {}
             /\ barriers[j].participants \subseteq barriers[j].submissions
             /\ barriers[j].commands \subseteq barriers[j].participants
             /\ \A b \in barriers[j].submissions :
                  /\ barriers[j].step <= asked[b]
                  /\ barriers[j].step = asked[b] => pc'[b] # "observing"
             /\ barriers[j].decided \/ barriers'[j].failed => barriers[j].inFlight
             /\ barriers[j].inFlight => barriers[j].participants # {}
             /\ ~barriers[j].decided => barriers[j].consumed = {} /\ barriers[j].commands = {}
             /\ ~barriers'[j].failed
                  /\ (~barriers[j].inFlight \/ \E b \in Agent : Leads(b)' /\ at[b] = j)
                => \A b \in barriers[j].submissions : at[b] = j /\ Busy(b)'
    BY <1>1, <1>5 DEF BarrierInv, Settled
  <2>1. /\ barriers[j].submissions # {} /\ barriers[j].submissions \subseteq Agent
        /\ barriers[j].participants \subseteq barriers[j].submissions
        /\ barriers[j].commands \subseteq barriers[j].participants
        /\ \A b \in barriers[j].submissions :
             /\ barriers[j].step <= asked[b]
             /\ barriers[j].step = asked[b] => pc[b] # "observing"
        /\ barriers[j].decided \/ barriers[j].failed => barriers[j].inFlight
        /\ barriers[j].inFlight => barriers[j].participants # {}
        /\ ~barriers[j].decided => barriers[j].consumed = {} /\ barriers[j].commands = {}
        /\ ~barriers[j].failed
             /\ (~barriers[j].inFlight \/ \E b \in Agent : Leads(b) /\ at[b] = j)
           => \A b \in barriers[j].submissions : at[b] = j /\ Busy(b)
    BY BarrierParts DEF Inv, BarrierInv, Settled
  <2>2. \A b \in barriers[j].submissions : pc'[b] = "observing" => pc[b] = "observing"
    BY <1>1, <2>1
  <2>3. barriers'[j].failed => barriers[j].failed \/ j = i
    BY <1>5
  <2>4. barriers[j].failed => barriers'[j].failed
    BY <1>10
  <2> QED
    BY <1>1, <1>7, <1>9, <2>1, <2>2, <2>3, <2>4
<1>14. TableInv'
  <2> SUFFICES ASSUME NEW s \in Step, states'[s] # 0
      PROVE  /\ barriers'[states'[s]].step = s
             /\ ~barriers'[states'[s]].failed
             /\ \A b \in barriers'[states'[s]].submissions \ barriers'[states'[s]].consumed :
                  at[b] = states'[s] /\ Busy(b)'
             /\ barriers'[states'[s]].decided
                  => ~(barriers'[states'[s]].participants \subseteq barriers'[states'[s]].consumed)
    BY <1>1 DEF TableInv
  <2>1. states'[s] = states[s] /\ states[s] # 0 /\ s # barriers[i].step
    BY <1>6
  <2>2. states[s] \in 1 .. Len(barriers)
    BY <2>1, TableParts DEF Inv
  <2>3. barriers[states[s]].submissions \subseteq Agent
    BY <2>2, BarrierParts DEF Inv
  <2>4. /\ barriers[states[s]].step = s
        /\ ~barriers[states[s]].failed
        /\ \A b \in barriers[states[s]].submissions \ barriers[states[s]].consumed :
             at[b] = states[s] /\ Busy(b)
        /\ barriers[states[s]].decided
             => ~(barriers[states[s]].participants \subseteq barriers[states[s]].consumed)
    BY <2>1 DEF Inv, TableInv
  <2> QED
    BY <1>5, <1>7, <2>1, <2>2, <2>3, <2>4
<1>15. StepInv'
  <2> SUFFICES ASSUME NEW s \in Step \ strayed
      PROVE  /\ \A j, k \in 1 .. Len(barriers) :
                  barriers[j].step = s /\ barriers[k].step = s => j = k
             /\ \A j \in 1 .. Len(barriers) : barriers[j].step = s =>
                  /\ ~barriers[j].inFlight => states'[s] = j
                  /\ barriers[j].inFlight =>
                       \A b \in Agent : pc'[b] = "observing" /\ asked[b] = s => b \in partial[s]
                  /\ barriers[j].inFlight /\ round = s =>
                       \A b \in enabled : asked[b] < s => b \in partial[s]
                  /\ ticks[s] # 0 => /\ barriers[j].inFlight
                                     /\ \A b \in Agent : at[b] = j => pc'[b] # "leading"
             /\ ticks[s] # 0 => \E j \in 1 .. Len(barriers) : barriers[j].step = s
             /\ ticks[s] <= 1
    BY <1>1, <1>5 DEF StepInv
  <2>1. \A b \in Agent : /\ pc'[b] = "observing" => pc[b] = "observing"
                         /\ pc'[b] = "leading" => pc[b] = "leading"
    BY <1>1
  <2>2. \A j \in 1 .. Len(barriers) :
          barriers[j].step = s /\ ~barriers[j].inFlight => s # barriers[i].step
    BY <1>1, <1>2 DEF Inv, StepInv, i
  <2>3. \A j \in 1 .. Len(barriers) :
          barriers[j].step = s /\ ~barriers[j].inFlight => states'[s] = j
    BY <1>6, <2>2 DEF Inv, StepInv
  <2> QED
    BY <2>1, <2>3 DEF Inv, StepInv
<1>16. QueueInv'
  BY <1>1, <1>5, <1>7, <1>10, QueueKept DEF GivenUp
<1> QED
  BY <1>11, <1>12, <1>13, <1>14, <1>15, <1>16 DEF Inv

(* A deadline passes after somebody was elected, and the request that      *)
(* fails is the leader's.                                                  *)
LEMMA InvGiveUp ==
  ASSUME Inv, Types', NEW a \in Agent, TimeOut(a) \/ FailDecide(a)
  PROVE  Inv'
<1>1. /\ pc[a] \in {"locking", "ticking"} /\ Fail(at[a])
      /\ pc' = [pc EXCEPT ![a] = "checking"]
      /\ UNCHANGED <<workerVars, at, late, queue>>
  BY DEF TimeOut, FailDecide
<1>2. CASE TimeOut(a)
  BY <1>1, <1>2, InvFail DEF TimeOut, Inv, AgentInv
<1>3. CASE FailDecide(a)
  BY <1>1, <1>3, InvFail DEF FailDecide, Inv, AgentInv, Leads
<1> QED
  BY <1>2, <1>3

(* The leader finds its barrier in the table, or its thread dies: no tick  *)
(* was made for the step, since only its leader makes one.                 *)
LEMMA InvBeginDecide ==
  ASSUME Inv, Types', NEW a \in Agent, BeginDecide(a)
  PROVE  Inv'
<1> DEFINE i == at[a]
           s == barriers[i].step
<1>1. /\ pc[a] = "leading" /\ Busy(a) /\ Leads(a)
      /\ UNCHANGED <<round, enabled, asked, text, strayed, dropped, at, late, barriers,
                     states, partial, queue>>
  BY DEF BeginDecide, workerVars, Busy, Leads
<1>2. i \in 1 .. Len(barriers) /\ barriers[i] \in Barrier /\ s \in Step
  BY <1>1, AtBarrier DEF Inv
<1>3. barriers[i].inFlight /\ ~barriers[i].decided
      /\ \A b \in Agent : Leads(b) /\ at[b] = i => b = a
  BY <1>1 DEF Inv, AgentInv, OneLeader
<1>4. CASE states[s] = 0
  <2>1. /\ \A b \in Agent : pc'[b] = IF b = a THEN "idle" ELSE pc[b]
        /\ ticks' = ticks
    BY <1>4 DEF BeginDecide, Inv, Types
  <2>2. \A b \in Agent : /\ b # a => (Busy(b) <=> Busy(b)') /\ (Leads(b) <=> Leads(b)')
                         /\ b = a => ~Busy(b)' /\ ~Leads(b)'
    BY <2>1 DEF Busy, Leads
  <2>3. AgentInv'
    BY <1>1, <2>1 DEF Inv, AgentInv, Settled, Busy, Leads
  <2>4. OneLeader'
    BY <1>1, <2>2 DEF Inv, OneLeader
  <2>5. BarrierInv'
    <3> SUFFICES ASSUME NEW j \in 1 .. Len(barriers)
        PROVE  /\ \A b \in barriers[j].submissions :
                    barriers[j].step = asked[b] => pc'[b] # "observing"
               /\ ~barriers[j].failed
                    /\ (~barriers[j].inFlight \/ \E b \in Agent : Leads(b)' /\ at[b] = j)
                  => \A b \in barriers[j].submissions : at[b] = j /\ Busy(b)'
      BY <1>1 DEF Inv, BarrierInv, Settled
    <3>1. barriers[j].submissions \subseteq Agent
      BY BarrierParts DEF Inv
    <3>2. \A b \in barriers[j].submissions : barriers[j].step = asked[b] => pc[b] # "observing"
      BY DEF Inv, BarrierInv
    <3>3. ~barriers[j].failed
            /\ (~barriers[j].inFlight \/ \E b \in Agent : Leads(b) /\ at[b] = j)
          => \A b \in barriers[j].submissions : at[b] = j /\ Busy(b)
      BY DEF Inv, BarrierInv
    <3>4. \A b \in Agent : Leads(b)' => Leads(b) /\ at[b] # i
      BY <1>3, <2>2
    <3> QED
      BY <1>3, <2>1, <2>2, <3>1, <3>2, <3>3, <3>4
  <2>6. TableInv'
    <3> SUFFICES ASSUME NEW t \in Step, states[t] # 0,
                        NEW b \in barriers[states[t]].submissions \ barriers[states[t]].consumed
        PROVE  at[b] = states[t] /\ Busy(b)'
      BY <1>1 DEF Inv, TableInv
    <3>1. b \in Agent
      BY TableParts, BarrierParts DEF Inv
    <3>2. at[b] = states[t] /\ Busy(b) /\ barriers[states[t]].step = t
      BY DEF Inv, TableInv
    <3> QED
      BY <1>4, <2>2, <3>1, <3>2
  <2>7. StepInv'
    <3>1. \A b \in Agent : /\ pc'[b] = "observing" => pc[b] = "observing"
                           /\ pc'[b] = "leading" => pc[b] = "leading"
      BY <2>1
    <3> QED
      BY <1>1, <2>1, <3>1, StepFrame
  <2>8. QueueInv'
    <3> SUFFICES ASSUME NEW b \in Agent, Clean(b)
        PROVE  \/ text[b] # 0 /\ queue[b] = <<text[b]>>
               \/ /\ text[b] = 0 /\ queue[b] = <<>>
                  /\ Busy(b)' => b \notin barriers[at[b]].commands
               \/ /\ text[b] = 0 /\ queue[b] = <<at[b]>>
                  /\ Busy(b)' /\ b \in barriers[at[b]].commands
      BY <1>1 DEF QueueInv, Clean, GivenUp
    <3>1. barriers[i].commands = {}
      BY <1>2, <1>3 DEF Inv, BarrierInv
    <3> QED
      BY <2>2, <3>1 DEF Inv, QueueInv
  <2> QED
    BY <2>3, <2>4, <2>5, <2>6, <2>7, <2>8 DEF Inv
<1>5. CASE states[s] # 0
  <2>1. /\ \A b \in Agent : pc'[b] = IF b = a THEN "ticking" ELSE pc[b]
        /\ \A t \in Step : ticks'[t] = IF t = s THEN ticks[t] + 1 ELSE ticks[t]
    <3>1. pc' = [pc EXCEPT ![a] = "ticking"] /\ ticks' = [ticks EXCEPT ![s] = @ + 1]
      BY <1>5 DEF BeginDecide
    <3>2. ticks \in [Step -> Nat]
      BY DEF Inv, Types
    <3>3. pc \in [Agent -> {"idle", "observing", "checking", "locking", "leading",
                            "ticking", "leaving"}]
      BY DEF Inv, Types
    <3> HIDE DEF s
    <3> QED
      BY <3>1, <3>2, <3>3
  <2>2. \A b \in Agent : (Busy(b) <=> Busy(b)') /\ (Leads(b) <=> Leads(b)')
    BY <1>1, <2>1 DEF Busy, Leads
  <2>3. AgentInv'
    BY <1>1, <2>1 DEF Inv, AgentInv, Settled, Busy, Leads
  <2>4. OneLeader'
    BY <1>1, <2>2 DEF Inv, OneLeader
  <2>5. BarrierInv' /\ TableInv' /\ QueueInv'
    <3>1. \A b \in Agent : pc'[b] = "observing" => pc[b] = "observing"
      BY <2>1
    <3> QED
      BY <1>1, <2>2, <3>1, BarrierFrame, TableFrame, QueueFrame
  <2>6. StepInv'
    <3> SUFFICES ASSUME NEW t \in Step \ strayed
        PROVE  /\ \A j \in 1 .. Len(barriers) : barriers[j].step = t =>
                    /\ barriers[j].inFlight =>
                         \A b \in Agent : pc'[b] = "observing" /\ asked[b] = t => b \in partial[t]
                    /\ ticks'[t] # 0 => /\ barriers[j].inFlight
                                        /\ \A b \in Agent : at[b] = j => pc'[b] # "leading"
               /\ ticks'[t] # 0 => \E j \in 1 .. Len(barriers) : barriers[j].step = t
               /\ ticks'[t] <= 1
      BY <1>1 DEF Inv, StepInv
    <3>1. \A b \in Agent : /\ pc'[b] = "observing" => pc[b] = "observing"
                           /\ pc'[b] = "leading" => pc[b] = "leading" /\ at[b] # i
      BY <1>3, <2>1 DEF Leads
    <3>2. /\ \A j \in 1 .. Len(barriers) : barriers[j].step = t =>
               /\ barriers[j].inFlight =>
                    \A b \in Agent : pc[b] = "observing" /\ asked[b] = t => b \in partial[t]
               /\ ticks[t] # 0 => /\ barriers[j].inFlight
                                  /\ \A b \in Agent : at[b] = j => pc[b] # "leading"
          /\ ticks[t] # 0 => \E j \in 1 .. Len(barriers) : barriers[j].step = t
          /\ ticks[t] <= 1
          /\ \A j, k \in 1 .. Len(barriers) :
               barriers[j].step = t /\ barriers[k].step = t => j = k
      BY DEF Inv, StepInv
    <3>3. CASE t = s
      <4>1. ticks[t] = 0
        BY <1>1, <1>2, <3>2, <3>3
      <4>2. ticks'[t] = 1
        BY <2>1, <3>3, <4>1
      <4>3. \A j \in 1 .. Len(barriers) : barriers[j].step = t => j = i
        BY <1>2, <3>2, <3>3
      <4> QED
        BY <1>2, <1>3, <3>1, <3>2, <3>3, <4>2, <4>3
    <3>4. CASE t # s
      BY <2>1, <3>1, <3>2, <3>4
    <3> QED
      BY <3>3, <3>4
  <2> QED
    BY <2>3, <2>4, <2>5, <2>6 DEF Inv
<1> QED
  BY <1>4, <1>5

(* A decision is installed: whoever is charged a command has waited for it *)
(* unless the barrier was given up, and has no other.                      *)
LEMMA InvFinishDecide ==
  ASSUME Inv, Types', NEW a \in Agent, NEW commanded \in SUBSET Agent,
         FinishDecide(a, commanded)
  PROVE  Inv'
<1> DEFINE i == at[a]
           g == [barriers[i] EXCEPT !.decided = TRUE, !.commands = commanded]
<1>1. /\ pc[a] = "ticking" /\ Busy(a) /\ Leads(a)
      /\ commanded \subseteq barriers[i].participants
      /\ \A b \in Agent : /\ pc'[b] = IF b = a THEN "checking" ELSE pc[b]
                          /\ queue'[b] = IF b \in commanded THEN Append(queue[b], i)
                                                            ELSE queue[b]
      /\ UNCHANGED <<round, enabled, asked, text, strayed, dropped, at, late, states,
                     partial, ticks>>
  BY DEF FinishDecide, Inv, Types, workerVars, Busy, Leads
<1>2. i \in 1 .. Len(barriers) /\ barriers[i] \in Barrier /\ barriers[i].step \in Step
  BY <1>1, AtBarrier DEF Inv
<1>3. barriers[i].inFlight /\ ~barriers[i].decided
      /\ \A b \in Agent : Leads(b) /\ at[b] = i => b = a
  BY <1>1 DEF Inv, AgentInv, OneLeader
<1>4. g \in Barrier /\ g.step = barriers[i].step /\ g.submissions = barriers[i].submissions
      /\ g.participants = barriers[i].participants /\ g.inFlight = barriers[i].inFlight
      /\ g.decided /\ g.failed = barriers[i].failed
      /\ g.commands = commanded /\ g.consumed = barriers[i].consumed
  BY <1>2 DEF Barrier
<1>5. Changes(i, g)
  BY <1>2, <1>4 DEF Changes, FinishDecide
<1> HIDE DEF g
<1>6. /\ Len(barriers') = Len(barriers) /\ Len(barriers) \in Nat
      /\ barriers'[i] = g
      /\ \A j \in 1 .. Len(barriers) : j # i => barriers'[j] = barriers[j]
  BY <1>5, ChangesFacts DEF Inv
<1>7. barriers'[i].decided
  BY <1>4, <1>6, Zenon
<1>8. at[a] = i
  OBVIOUS
<1> HIDE DEF i
<1>9. /\ barriers'[i].commands = commanded
      /\ \A j \in 1 .. Len(barriers) :
           /\ barriers'[j].step = barriers[j].step
           /\ barriers'[j].submissions = barriers[j].submissions
           /\ barriers'[j].participants = barriers[j].participants
           /\ barriers'[j].inFlight = barriers[j].inFlight
           /\ j # i => barriers'[j].decided = barriers[j].decided
           /\ barriers'[j].failed = barriers[j].failed
           /\ j # i => barriers'[j].commands = barriers[j].commands
           /\ barriers'[j].consumed = barriers[j].consumed
  BY <1>4, <1>6
<1>10. \A b \in Agent : (Busy(b) <=> Busy(b)') /\ (Leads(b)' => Leads(b) /\ at[b] # i)
  BY <1>1, <1>3 DEF Busy, Leads
<1>11. \A b \in Agent : (Busy(b) \/ b \in late) => at[b] \in 1 .. Len(barriers)
  BY AtBarrier DEF Inv, AgentInv, Busy
<1>12. \A j \in 1 .. Len(barriers) : Settled(barriers[j]) => Settled(barriers'[j])
  BY <1>7, <1>9 DEF Settled
<1>13. AgentInv'
  <2> SUFFICES ASSUME NEW b \in Agent
      PROVE  /\ asked[b] <= round
             /\ pc'[b] # "idle" => asked[b] # 0 /\ text[b] = 0
             /\ pc'[b] # "idle" /\ b \in enabled => asked[b] = round
             /\ pc'[b] = "observing" /\ b \notin enabled => asked[b] \in strayed
             /\ Busy(b)' => at[b] # 0 /\ b \in barriers'[at[b]].submissions
             /\ pc'[b] = "leaving" => Settled(barriers'[at[b]])
             /\ Leads(b)' => barriers'[at[b]].inFlight /\ ~barriers'[at[b]].decided
             /\ b \in late => /\ pc'[b] \in {"checking", "locking", "leaving"}
                              /\ barriers'[at[b]].inFlight
    BY <1>1 DEF AgentInv, Settled
  <2>1. /\ Leads(b) => Busy(b)
        /\ pc[b] = "leaving" => Busy(b)
        /\ pc'[b] = "leaving" => pc[b] = "leaving"
    BY <1>1 DEF Leads, Busy
  <2>2. pc'[b] # "idle" => pc[b] # "idle"
    BY <1>1
  <2> QED
    BY <1>1, <1>9, <1>10, <1>11, <1>12, <2>1, <2>2 DEF Inv, AgentInv
<1>14. OneLeader'
  BY <1>1, <1>10 DEF Inv, OneLeader
<1>15. BarrierInv'
  <2> SUFFICES ASSUME NEW j \in 1 .. Len(barriers)
      PROVE  /\ barriers[j].submissions # {}
             /\ barriers[j].participants \subseteq barriers[j].submissions
             /\ barriers'[j].commands \subseteq barriers[j].participants
             /\ \A b \in barriers[j].submissions :
                  /\ barriers[j].step <= asked[b]
                  /\ barriers[j].step = asked[b] => pc'[b] # "observing"
             /\ barriers'[j].decided \/ barriers[j].failed => barriers[j].inFlight
             /\ barriers[j].inFlight => barriers[j].participants # {}
             /\ ~barriers'[j].decided => barriers[j].consumed = {} /\ barriers'[j].commands = {}
             /\ ~barriers[j].failed
                  /\ (~barriers[j].inFlight \/ \E b \in Agent : Leads(b)' /\ at[b] = j)
                => \A b \in barriers[j].submissions : at[b] = j /\ Busy(b)'
    BY <1>1, <1>6, <1>9 DEF BarrierInv, Settled
  <2>1. /\ barriers[j].submissions # {} /\ barriers[j].submissions \subseteq Agent
        /\ barriers[j].participants \subseteq barriers[j].submissions
        /\ barriers[j].commands \subseteq barriers[j].participants
        /\ \A b \in barriers[j].submissions :
             /\ barriers[j].step <= asked[b]
             /\ barriers[j].step = asked[b] => pc[b] # "observing"
        /\ barriers[j].decided \/ barriers[j].failed => barriers[j].inFlight
        /\ barriers[j].inFlight => barriers[j].participants # {}
        /\ ~barriers[j].decided => barriers[j].consumed = {} /\ barriers[j].commands = {}
        /\ ~barriers[j].failed
             /\ (~barriers[j].inFlight \/ \E b \in Agent : Leads(b) /\ at[b] = j)
           => \A b \in barriers[j].submissions : at[b] = j /\ Busy(b)
    BY BarrierParts DEF Inv, BarrierInv, Settled
  <2>2. \A b \in barriers[j].submissions : pc'[b] = "observing" => pc[b] = "observing"
    BY <1>1, <2>1
  <2>3. CASE j = i
    <3>1. barriers[i].participants = barriers[j].participants
      BY <2>3
    <3>2. commanded \subseteq barriers[i].participants
      BY <1>1, <1>8
    <3> QED
      BY <1>3, <1>7, <1>9, <1>10, <2>1, <2>2, <2>3, <3>2
  <2>4. CASE j # i
    BY <1>9, <1>10, <2>1, <2>2, <2>4
  <2> QED
    BY <2>3, <2>4
<1>16. TableInv'
  <2> SUFFICES ASSUME NEW s \in Step, states[s] # 0
      PROVE  /\ barriers'[states[s]].step = s
             /\ ~barriers'[states[s]].failed
             /\ \A b \in barriers'[states[s]].submissions \ barriers'[states[s]].consumed :
                  at[b] = states[s] /\ Busy(b)'
             /\ barriers'[states[s]].decided
                  => ~(barriers'[states[s]].participants \subseteq barriers'[states[s]].consumed)
    BY <1>1 DEF TableInv
  <2>1. states[s] \in 1 .. Len(barriers)
    BY TableParts DEF Inv
  <2>2. barriers[states[s]].submissions \subseteq Agent
    BY <2>1, BarrierParts DEF Inv
  <2>3. /\ barriers[states[s]].step = s
        /\ ~barriers[states[s]].failed
        /\ \A b \in barriers[states[s]].submissions \ barriers[states[s]].consumed :
             at[b] = states[s] /\ Busy(b)
        /\ barriers[states[s]].decided
             => ~(barriers[states[s]].participants \subseteq barriers[states[s]].consumed)
    BY DEF Inv, TableInv
  <2>4. barriers[i].participants # {} /\ barriers[i].consumed = {}
    BY <1>2, <1>3, <1>8 DEF Inv, BarrierInv
  <2> QED
    BY <1>9, <1>10, <2>1, <2>2, <2>3, <2>4
<1>17. StepInv'
  <2> SUFFICES ASSUME NEW s \in Step \ strayed, NEW j \in 1 .. Len(barriers),
                      barriers[j].step = s
               PROVE  /\ barriers[j].inFlight =>
                           \A b \in Agent : pc'[b] = "observing" /\ asked[b] = s => b \in partial[s]
                      /\ ticks[s] # 0 => \A b \in Agent : at[b] = j => pc'[b] # "leading"
    BY <1>1, <1>6, <1>9 DEF Inv, StepInv
  <2>1. \A b \in Agent : /\ pc'[b] = "observing" => pc[b] = "observing"
                         /\ pc'[b] = "leading" => pc[b] = "leading"
    BY <1>1
  <2> QED
    BY <2>1 DEF Inv, StepInv
<1>18. QueueInv'
  <2> SUFFICES ASSUME NEW b \in Agent, Clean(b)'
      PROVE  \/ text[b] # 0 /\ queue'[b] = <<text[b]>>
             \/ /\ text[b] = 0 /\ queue'[b] = <<>>
                /\ Busy(b)' => b \notin barriers'[at[b]].commands
             \/ /\ text[b] = 0 /\ queue'[b] = <<at[b]>>
                /\ Busy(b)' /\ b \in barriers'[at[b]].commands
    BY <1>1 DEF QueueInv
  <2>1. barriers[i].commands = {}
    BY <1>2, <1>3, <1>8 DEF Inv, BarrierInv
  <2>2. \A j \in 1 .. Len(barriers) : GivenUp(j) => j # i
    BY <1>3, <1>8 DEF GivenUp
  <2>3. Clean(b)
    BY <1>1, <1>6, <1>9, <2>2 DEF Clean, GivenUp
  <2>4. \/ text[b] # 0 /\ queue[b] = <<text[b]>>
        \/ /\ text[b] = 0 /\ queue[b] = <<>>
           /\ Busy(b) => b \notin barriers[at[b]].commands
        \/ /\ text[b] = 0 /\ queue[b] = <<at[b]>>
           /\ Busy(b) /\ b \in barriers[at[b]].commands
    BY <2>3 DEF Inv, QueueInv
  <2>5. CASE b \notin commanded
    <3>1. queue'[b] = queue[b]
      BY <1>1, <2>5
    <3>2. Busy(b) /\ at[b] # i => barriers'[at[b]].commands = barriers[at[b]].commands
      BY <1>9, <1>11
    <3>3. at[b] = i => b \notin barriers'[at[b]].commands /\ b \notin barriers[at[b]].commands
      BY <1>9, <2>1, <2>5
    <3>4. Busy(b) <=> Busy(b)'
      BY <1>10
    <3> QED
      BY <2>4, <3>1, <3>2, <3>3, <3>4
  <2>6. CASE b \in commanded
    <3>1. b \in barriers'[i].commands
      BY <1>9, <2>6
    <3>2. ~barriers[i].failed
      <4>1. i \in 1 .. Len(barriers')
        BY <1>2, <1>6, <1>8
      <4>2. ~(barriers'[i].decided /\ barriers'[i].failed)
        BY <3>1, <4>1 DEF Clean, GivenUp
      <4>3. i \in 1 .. Len(barriers)
        BY <1>2, <1>8
      <4> QED
        BY <1>7, <1>9, <4>2, <4>3
    <3>3. b \in barriers[i].submissions
      <4>1. barriers[i].participants \subseteq barriers[i].submissions
        BY <1>2, <1>8 DEF Inv, BarrierInv
      <4> QED
        BY <1>1, <1>8, <2>6, <4>1
    <3>4. at[b] = i /\ Busy(b)
      <4>1. \A c \in barriers[i].submissions : at[c] = i /\ Busy(c)
        BY <1>1, <1>2, <1>8, <3>2 DEF Inv, BarrierInv
      <4> QED
        BY <3>3, <4>1
    <3>5. text[b] = 0
      BY <3>4 DEF Inv, AgentInv, Busy
    <3>6. queue[b] = <<>>
      BY <2>1, <2>4, <3>4, <3>5
    <3>7. queue'[b] = Append(<<>>, i)
      BY <1>1, <1>8, <2>6, <3>6
    <3>8. Append(<<>>, i) = <<i>>
      OBVIOUS
    <3>9. Busy(b)'
      BY <1>10, <3>4
    <3> QED
      BY <3>1, <3>4, <3>5, <3>7, <3>8, <3>9, Zenon
  <2> QED
    BY <2>5, <2>6
<1> QED
  BY <1>13, <1>14, <1>15, <1>16, <1>17, <1>18 DEF Inv

(* A query returns.  The barrier leaves the table with the last            *)
(* participant; the command becomes the agent's action text.               *)
LEMMA InvLeave ==
  ASSUME Inv, Types', NEW a \in Agent, Leave(a)
  PROVE  Inv'
<1> DEFINE i == at[a]
<1>1. /\ pc[a] = "leaving" /\ Busy(a) /\ text[a] = 0
      /\ \A b \in Agent : /\ pc'[b] = IF b = a THEN "idle" ELSE pc[b]
                          /\ at'[b] = IF b = a THEN 0 ELSE at[b]
                          /\ b \in late' <=> b \in late /\ b # a
      /\ UNCHANGED <<round, enabled, asked, strayed, dropped, partial, queue, ticks>>
  BY DEF Leave, Inv, Types, AgentInv, Busy
<1>2. i \in 1 .. Len(barriers) /\ barriers[i] \in Barrier /\ barriers[i].step \in Step
      /\ Settled(barriers[i])
  BY <1>1, AtBarrier DEF Inv, AgentInv
<1>3. barriers[i].inFlight
  BY <1>2 DEF Inv, BarrierInv
<1>4. /\ Len(barriers') = Len(barriers) /\ Len(barriers) \in Nat
      /\ \A j \in 1 .. Len(barriers) :
           /\ barriers'[j].step = barriers[j].step
           /\ barriers'[j].submissions = barriers[j].submissions
           /\ barriers'[j].participants = barriers[j].participants
           /\ barriers'[j].inFlight = barriers[j].inFlight
           /\ barriers'[j].decided = barriers[j].decided
           /\ barriers'[j].failed = barriers[j].failed
           /\ barriers'[j].commands = barriers[j].commands
      /\ \A j \in 1 .. Len(barriers) :
           barriers'[j].consumed =
             IF j = i /\ ~barriers[i].failed THEN barriers[j].consumed \cup {a}
                                             ELSE barriers[j].consumed
  <2>1. CASE barriers[i].failed
    BY <2>1 DEF Leave, Inv, Types
  <2>2. CASE ~barriers[i].failed
    <3> DEFINE g == [barriers[i] EXCEPT !.consumed = @ \cup {a}]
    <3>1. g \in Barrier /\ g.step = barriers[i].step /\ g.submissions = barriers[i].submissions
          /\ g.participants = barriers[i].participants /\ g.inFlight = barriers[i].inFlight
          /\ g.decided = barriers[i].decided /\ g.failed = barriers[i].failed
          /\ g.commands = barriers[i].commands /\ g.consumed = barriers[i].consumed \cup {a}
      BY <1>2 DEF Barrier
    <3>2. barriers' = [barriers EXCEPT ![i] = g]
      BY <1>2, <2>2 DEF Leave, Inv, Types
    <3> HIDE DEF g
    <3>3. Changes(i, g)
      BY <1>2, <3>1, <3>2 DEF Changes
    <3> HIDE DEF i
    <3>4. /\ Len(barriers') = Len(barriers) /\ Len(barriers) \in Nat
          /\ barriers'[i] = g
          /\ \A j \in 1 .. Len(barriers) : j # i => barriers'[j] = barriers[j]
      BY <3>3, ChangesFacts DEF Inv
    <3> QED
      BY <2>2, <3>1, <3>4
  <2> QED
    BY <2>1, <2>2
<1>5. /\ \A s \in Step : \/ states'[s] = states[s]
                         \/ s = barriers[i].step /\ ~barriers[i].failed /\ states'[s] = 0
      /\ ~barriers[i].failed /\ barriers[i].participants \subseteq barriers[i].consumed \cup {a}
           => states'[barriers[i].step] = 0
      /\ \A b \in Agent : b # a => text'[b] = text[b]
      /\ text'[a] = IF barriers[i].failed \/ a \notin barriers[i].commands THEN 0 ELSE i
  <2>1. CASE barriers[i].failed
    BY <1>1, <2>1 DEF Leave
  <2>2. CASE ~barriers[i].failed
    <3>1. states' = IF barriers[i].participants \subseteq barriers[i].consumed \cup {a}
                    THEN [states EXCEPT ![barriers[i].step] = 0] ELSE states
      BY <2>2 DEF Leave, AllConsumed
    <3>2. text' = [text EXCEPT ![a] = IF a \in barriers[i].commands THEN i ELSE 0]
      BY <2>2 DEF Leave
    <3>3. states \in [Step -> 0 .. Len(barriers)] /\ text \in [Agent -> 0 .. Len(barriers)]
      BY DEF Inv, Types
    <3> HIDE DEF i
    <3>4. \A b \in Agent : b # a => text'[b] = text[b]
      BY <3>2, <3>3
    <3>5. text'[a] = IF barriers[i].failed \/ a \notin barriers[i].commands THEN 0 ELSE i
      BY <2>2, <3>2, <3>3
    <3>6. \A s \in Step : \/ states'[s] = states[s]
                          \/ s = barriers[i].step /\ ~barriers[i].failed /\ states'[s] = 0
      BY <2>2, <3>1, <3>3
    <3>7. barriers[i].participants \subseteq barriers[i].consumed \cup {a}
            => states'[barriers[i].step] = 0
      BY <1>2, <3>1, <3>3
    <3> QED
      BY <3>4, <3>5, <3>6, <3>7
  <2> QED
    BY <2>1, <2>2
<1>6. at[a] = i /\ i # 0
  BY <1>2
<1> HIDE DEF i
<1>7. /\ Len(barriers') = Len(barriers) /\ Len(barriers) \in Nat
       /\ \A j \in 1 .. Len(barriers) :
            /\ barriers'[j].step = barriers[j].step
            /\ barriers'[j].submissions = barriers[j].submissions
            /\ barriers'[j].participants = barriers[j].participants
            /\ barriers'[j].inFlight = barriers[j].inFlight
            /\ barriers'[j].decided = barriers[j].decided
            /\ barriers'[j].failed = barriers[j].failed
            /\ barriers'[j].commands = barriers[j].commands
  BY <1>4
<1>8. \A b \in Agent : /\ b # a => (Busy(b)' <=> Busy(b)) /\ (Leads(b)' <=> Leads(b))
                       /\ b = a => ~Busy(b)' /\ ~Leads(b)'
  BY <1>1 DEF Busy, Leads
<1>9. \A b \in Agent : (Busy(b) \/ b \in late) => at[b] \in 1 .. Len(barriers)
  BY AtBarrier DEF Inv, AgentInv, Busy
<1>10. AgentInv'
  <2> SUFFICES ASSUME NEW b \in Agent
      PROVE  /\ asked[b] <= round
             /\ pc'[b] # "idle" => asked[b] # 0 /\ text'[b] = 0
             /\ pc'[b] # "idle" /\ b \in enabled => asked[b] = round
             /\ pc'[b] = "observing" /\ b \notin enabled => asked[b] \in strayed
             /\ Busy(b)' => at'[b] # 0 /\ b \in barriers'[at'[b]].submissions
             /\ pc'[b] = "leaving" => barriers'[at'[b]].decided \/ barriers'[at'[b]].failed
             /\ Leads(b)' => barriers'[at'[b]].inFlight /\ ~barriers'[at'[b]].decided
             /\ b \in late' => /\ pc'[b] \in {"checking", "locking", "leaving"}
                               /\ barriers'[at'[b]].inFlight
    BY <1>1 DEF AgentInv, Settled
  <2>1. CASE b = a
    BY <1>1, <1>8, <2>1 DEF Inv, AgentInv
  <2>2. CASE b # a
    <3>1. (Leads(b) => Busy(b)) /\ (pc[b] = "leaving" => Busy(b))
      BY DEF Leads, Busy
    <3>2. at'[b] = at[b] /\ pc'[b] = pc[b] /\ text'[b] = text[b] /\ (b \in late' <=> b \in late)
      BY <1>1, <1>5, <2>2
    <3>3. at[b] \in 1 .. Len(barriers) =>
            /\ barriers'[at[b]].submissions = barriers[at[b]].submissions
            /\ barriers'[at[b]].inFlight = barriers[at[b]].inFlight
            /\ barriers'[at[b]].decided = barriers[at[b]].decided
            /\ barriers'[at[b]].failed = barriers[at[b]].failed
      BY <1>7
    <3>4. (Busy(b)' <=> Busy(b)) /\ (Leads(b)' <=> Leads(b))
          /\ (Busy(b) \/ b \in late => at[b] \in 1 .. Len(barriers))
      BY <1>8, <1>9, <2>2
    <3> QED
      BY <3>1, <3>2, <3>3, <3>4 DEF Inv, AgentInv, Settled
  <2> QED
    BY <2>1, <2>2
<1>11. OneLeader'
  BY <1>1, <1>8 DEF Inv, OneLeader
<1>12. \A b \in Agent : Leads(b)' => Leads(b) /\ at'[b] = at[b]
  BY <1>1, <1>8
<1>13. BarrierInv'
  <2> SUFFICES ASSUME NEW j \in 1 .. Len(barriers)
      PROVE  /\ \A b \in barriers[j].submissions :
                  barriers[j].step = asked[b] => pc'[b] # "observing"
             /\ ~barriers[j].decided => barriers'[j].consumed = {}
             /\ ~barriers[j].failed
                  /\ (~barriers[j].inFlight \/ \E b \in Agent : Leads(b)' /\ at'[b] = j)
                => \A b \in barriers[j].submissions : at'[b] = j /\ Busy(b)'
    BY <1>1, <1>7 DEF Inv, BarrierInv, Settled
  <2>1. /\ barriers[j].submissions \subseteq Agent
        /\ \A b \in barriers[j].submissions : barriers[j].step = asked[b] => pc[b] # "observing"
        /\ ~barriers[j].decided => barriers[j].consumed = {}
        /\ ~barriers[j].failed
             /\ (~barriers[j].inFlight \/ \E b \in Agent : Leads(b) /\ at[b] = j)
           => \A b \in barriers[j].submissions : at[b] = j /\ Busy(b)
    BY BarrierParts DEF Inv, BarrierInv
  <2>2. \A b \in barriers[j].submissions : pc'[b] = "observing" => pc[b] = "observing"
    BY <1>1, <2>1
  <2>3. ~barriers[j].decided => barriers'[j].consumed = {}
    BY <1>2, <1>4, <1>6, <2>1 DEF Settled
  <2>4. ASSUME ~barriers[j].failed,
               ~barriers[j].inFlight \/ \E b \in Agent : Leads(b)' /\ at'[b] = j
        PROVE  \A b \in barriers[j].submissions : at'[b] = j /\ Busy(b)'
    <3>1. ~barriers[j].inFlight \/ ~barriers[j].decided
      BY <1>12, <2>4 DEF Inv, AgentInv
    <3>2. j # i
      BY <1>2, <1>3, <1>6, <2>4, <3>1 DEF Settled
    <3>3. \A b \in barriers[j].submissions : at[b] = j /\ Busy(b)
      BY <1>12, <2>1, <2>4
    <3> QED
      BY <1>1, <1>6, <1>8, <2>1, <3>2, <3>3
  <2> QED
    BY <2>1, <2>2, <2>3, <2>4
<1>14. TableInv'
  <2> SUFFICES ASSUME NEW s \in Step, states'[s] # 0
      PROVE  /\ barriers'[states'[s]].step = s
             /\ ~barriers'[states'[s]].failed
             /\ \A b \in barriers'[states'[s]].submissions \ barriers'[states'[s]].consumed :
                  at'[b] = states'[s] /\ Busy(b)'
             /\ barriers'[states'[s]].decided
                  => ~(barriers'[states'[s]].participants \subseteq barriers'[states'[s]].consumed)
    BY DEF TableInv
  <2>1. states'[s] = states[s] /\ states[s] # 0
    BY <1>5
  <2>2. states[s] \in 1 .. Len(barriers)
    BY <2>1, TableParts DEF Inv
  <2>3. barriers[states[s]].submissions \subseteq Agent
    BY <2>2, BarrierParts DEF Inv
  <2>4. /\ barriers[states[s]].step = s
        /\ ~barriers[states[s]].failed
        /\ \A b \in barriers[states[s]].submissions \ barriers[states[s]].consumed :
             at[b] = states[s] /\ Busy(b)
        /\ barriers[states[s]].decided
             => ~(barriers[states[s]].participants \subseteq barriers[states[s]].consumed)
    BY <2>1 DEF Inv, TableInv
  <2>5. \A b \in barriers'[states[s]].submissions \ barriers'[states[s]].consumed :
          at'[b] = states[s] /\ Busy(b)'
    <3> SUFFICES ASSUME NEW b \in barriers'[states[s]].submissions \ barriers'[states[s]].consumed
        PROVE  at'[b] = states[s] /\ Busy(b)'
      OBVIOUS
    <3>1. b \in barriers[states[s]].submissions \ barriers[states[s]].consumed /\ b \in Agent
      BY <1>4, <2>2, <2>3
    <3>2. b # a
      BY <1>4, <1>6, <2>2, <2>4, <3>1
    <3> QED
      BY <1>1, <1>8, <2>4, <3>1, <3>2
  <2>6. barriers'[states[s]].decided
          => ~(barriers'[states[s]].participants \subseteq barriers'[states[s]].consumed)
    <3>1. CASE states[s] = i
      BY <1>4, <1>5, <2>1, <2>2, <2>4, <3>1
    <3>2. CASE states[s] # i
      BY <1>4, <2>2, <2>4, <3>2
    <3> QED
      BY <3>1, <3>2
  <2> QED
    BY <1>4, <2>1, <2>2, <2>4, <2>5, <2>6
<1>15. StepInv'
  <2> SUFFICES ASSUME NEW s \in Step \ strayed, NEW j \in 1 .. Len(barriers),
                      barriers[j].step = s
               PROVE  /\ ~barriers[j].inFlight => states'[s] = j
                      /\ barriers[j].inFlight =>
                           \A b \in Agent : pc'[b] = "observing" /\ asked[b] = s => b \in partial[s]
                      /\ ticks[s] # 0 => \A b \in Agent : at'[b] = j => pc'[b] # "leading"
    BY <1>1, <1>7 DEF Inv, StepInv
  <2>1. \A b \in Agent : /\ pc'[b] = "observing" => pc[b] = "observing"
                         /\ pc'[b] = "leading" => pc[b] = "leading" /\ at'[b] = at[b]
    BY <1>1
  <2>2. /\ ~barriers[j].inFlight => states[s] = j
        /\ barriers[j].inFlight =>
             \A b \in Agent : pc[b] = "observing" /\ asked[b] = s => b \in partial[s]
        /\ ticks[s] # 0 => \A b \in Agent : at[b] = j => pc[b] # "leading"
    BY DEF Inv, StepInv
  <2>3. ~barriers[j].inFlight => s # barriers[i].step
    BY <1>2, <1>3, <1>6 DEF Inv, StepInv
  <2> QED
    BY <1>5, <2>1, <2>2, <2>3
<1>16. QueueInv'
  <2> SUFFICES ASSUME NEW b \in Agent, Clean(b)'
      PROVE  \/ text'[b] # 0 /\ queue[b] = <<text'[b]>>
             \/ /\ text'[b] = 0 /\ queue[b] = <<>>
                /\ Busy(b)' => b \notin barriers'[at'[b]].commands
             \/ /\ text'[b] = 0 /\ queue[b] = <<at'[b]>>
                /\ Busy(b)' /\ b \in barriers'[at'[b]].commands
    BY <1>1 DEF QueueInv
  <2>1. Clean(b)
    BY <1>1, <1>4 DEF Clean, GivenUp
  <2>2. \/ text[b] # 0 /\ queue[b] = <<text[b]>>
        \/ /\ text[b] = 0 /\ queue[b] = <<>>
           /\ Busy(b) => b \notin barriers[at[b]].commands
        \/ /\ text[b] = 0 /\ queue[b] = <<at[b]>>
           /\ Busy(b) /\ b \in barriers[at[b]].commands
    BY <2>1 DEF Inv, QueueInv
  <2>3. CASE b = a
    <3>1. barriers[i].failed /\ b \in barriers[i].commands => FALSE
      <4>1. i \in 1 .. Len(barriers)
        BY <1>2, <1>6
      <4>2. barriers[i].commands # {} => barriers[i].decided
        BY <4>1 DEF Inv, BarrierInv
      <4> QED
        BY <2>1, <4>1, <4>2 DEF Clean, GivenUp
    <3>2. CASE b \in barriers[i].commands
      <4>1. queue[b] = <<i>>
        BY <1>1, <1>6, <2>2, <2>3, <3>2
      <4> QED
        BY <1>5, <1>6, <2>3, <3>1, <3>2, <4>1
    <3>3. CASE b \notin barriers[i].commands
      <4>1. queue[b] = <<>>
        BY <1>1, <1>6, <2>2, <2>3, <3>3
      <4> QED
        BY <1>5, <1>8, <2>3, <3>3, <4>1
    <3> QED
      BY <3>2, <3>3
  <2>4. CASE b # a
    <3>1. at'[b] = at[b] /\ text'[b] = text[b] /\ (Busy(b) <=> Busy(b)')
      BY <1>1, <1>5, <1>8, <2>4
    <3>2. Busy(b) => barriers'[at[b]].commands = barriers[at[b]].commands
      BY <1>4, <1>9
    <3> QED
      BY <2>2, <3>1, <3>2
  <2> QED
    BY <2>3, <2>4
<1> QED
  BY <1>10, <1>11, <1>13, <1>14, <1>15, <1>16 DEF Inv

(* No decision of the step has started when a query of it joins: the agent *)
(* would be among those that the decision passed over.                     *)
LEMMA NotInFlight ==
  ASSUME Inv, NEW a \in Agent, Submit(a), asked[a] \notin strayed,
         NEW j \in 1 .. Len(barriers), barriers[j].step = asked[a]
  PROVE  ~barriers[j].inFlight /\ states[asked[a]] = j
<1>1. /\ pc[a] = "observing" /\ a \notin Remembered(asked[a])[asked[a]]
  BY DEF Submit
<1>2. asked[a] \in Step
  BY BarrierParts DEF Inv
<1>3. a \notin partial[asked[a]]
  BY <1>1, <1>2, Remembers
<1> QED
  BY <1>1, <1>2, <1>3 DEF Inv, StepInv

(* What the two cases of Submit have in common.                            *)
LEMMA SubmitFacts ==
  ASSUME Inv, Types', NEW a \in Agent, Submit(a)
  PROVE  /\ pc[a] = "observing" /\ ~Busy(a) /\ a \notin late /\ text[a] = 0
         /\ asked[a] \in Step
         /\ \A b \in Agent : /\ pc'[b] = IF b = a THEN "checking" ELSE pc[b]
                             /\ at'[b] = IF b = a THEN states'[asked[a]] ELSE at[b]
                             /\ b = a => Busy(b)' /\ ~Leads(b)'
                             /\ b # a => (Busy(b)' <=> Busy(b)) /\ (Leads(b)' <=> Leads(b))
                             /\ Busy(b) \/ b \in late => at[b] \in 1 .. Len(barriers)
         /\ UNCHANGED <<round, enabled, asked, text, strayed, dropped, late, queue, ticks>>
         /\ partial' = Remembered(asked[a])
<1>1. /\ pc[a] = "observing" /\ pc' = [pc EXCEPT ![a] = "checking"]
      /\ at' = [at EXCEPT ![a] = states'[asked[a]]]
      /\ UNCHANGED <<round, enabled, asked, text, strayed, dropped, late, queue, ticks>>
      /\ partial' = Remembered(asked[a])
  BY DEF Submit, workerVars
<1>2. ~Busy(a) /\ a \notin late /\ text[a] = 0 /\ asked[a] # 0
  BY <1>1 DEF Inv, AgentInv, Busy
<1>3. asked[a] \in Step
  <2>1. asked[a] \in 0 .. MaxRound
    BY DEF Inv, Types
  <2> QED
    BY <1>2, <2>1, RoundAssumption DEF Step
<1>4. \A b \in Agent : Busy(b) \/ b \in late => at[b] \in 1 .. Len(barriers)
  BY AtBarrier DEF Inv, AgentInv, Busy
<1>5. \A b \in Agent : /\ pc'[b] = IF b = a THEN "checking" ELSE pc[b]
                       /\ at'[b] = IF b = a THEN states'[asked[a]] ELSE at[b]
  BY <1>1 DEF Inv, Types
<1>6. \A b \in Agent : /\ b = a => Busy(b)' /\ ~Leads(b)'
                       /\ b # a => (Busy(b)' <=> Busy(b)) /\ (Leads(b)' <=> Leads(b))
  BY <1>5 DEF Busy, Leads
<1> QED
  BY <1>1, <1>2, <1>3, <1>4, <1>5, <1>6

(* A query opens the barrier of its step.                                  *)
LEMMA InvOpen ==
  ASSUME Inv, Types', NEW a \in Agent, Submit(a), states[asked[a]] = 0
  PROVE  Inv'
<1> DEFINE s == asked[a]
           n == Len(barriers) + 1
<1>1. /\ pc[a] = "observing" /\ ~Busy(a) /\ a \notin late /\ text[a] = 0
      /\ s \in Step
      /\ \A b \in Agent : /\ pc'[b] = IF b = a THEN "checking" ELSE pc[b]
                          /\ b = a => Busy(b)' /\ ~Leads(b)'
                          /\ b # a => (Busy(b)' <=> Busy(b)) /\ (Leads(b)' <=> Leads(b))
                          /\ Busy(b) \/ b \in late => at[b] \in 1 .. Len(barriers)
      /\ UNCHANGED <<round, enabled, asked, text, strayed, dropped, late, queue, ticks>>
      /\ partial' = Remembered(s)
  BY SubmitFacts
<1>2. /\ Len(barriers) \in Nat /\ n \notin 1 .. Len(barriers) /\ n # 0
      /\ Len(barriers') = n
      /\ \A j \in 1 .. Len(barriers) : barriers'[j] = barriers[j]
      /\ barriers'[n] = NewBarrier(s, a)
      /\ \A j \in 1 .. Len(barriers') : j \in 1 .. Len(barriers) \/ j = n
  <2>1. NewBarrier(s, a) \in Barrier
    BY <1>1 DEF NewBarrier, Barrier
  <2>2. barriers' = Append(barriers, NewBarrier(s, a)) /\ barriers \in Seq(Barrier)
    BY DEF Submit, Inv, Types
  <2>3. Len(barriers) \in Nat
    BY <2>2
  <2> QED
    BY <2>1, <2>2, <2>3, AppendBarrier
<1>3. /\ barriers'[n].step = s /\ barriers'[n].submissions = {a}
      /\ barriers'[n].participants = {} /\ ~barriers'[n].inFlight
      /\ ~barriers'[n].decided /\ ~barriers'[n].failed
      /\ barriers'[n].commands = {} /\ barriers'[n].consumed = {}
  BY <1>2 DEF NewBarrier
<1>4. \A t \in Step : states'[t] = IF t = s THEN n ELSE states[t]
  BY <1>1 DEF Submit, Inv, Types
<1>5. \A b \in Agent : at'[b] = IF b = a THEN n ELSE at[b]
  BY <1>1, <1>4, SubmitFacts
<1> HIDE DEF n
<1>6. \A b \in Agent : Leads(b)' => b # a /\ Leads(b) /\ at'[b] = at[b]
                                    /\ at[b] \in 1 .. Len(barriers)
  BY <1>1, <1>5 DEF Leads, Busy
<1>7. AgentInv'
  <2> SUFFICES ASSUME NEW b \in Agent
      PROVE  /\ asked[b] <= round
             /\ pc'[b] # "idle" => asked[b] # 0 /\ text[b] = 0
             /\ pc'[b] # "idle" /\ b \in enabled => asked[b] = round
             /\ pc'[b] = "observing" /\ b \notin enabled => asked[b] \in strayed
             /\ Busy(b)' => at'[b] # 0 /\ b \in barriers'[at'[b]].submissions
             /\ pc'[b] = "leaving" => barriers'[at'[b]].decided \/ barriers'[at'[b]].failed
             /\ Leads(b)' => barriers'[at'[b]].inFlight /\ ~barriers'[at'[b]].decided
             /\ b \in late => /\ pc'[b] \in {"checking", "locking", "leaving"}
                              /\ barriers'[at'[b]].inFlight
    BY <1>1 DEF AgentInv, Settled
  <2>1. CASE b = a
    BY <1>1, <1>2, <1>3, <1>5, <2>1 DEF Inv, AgentInv
  <2>2. CASE b # a
    <3>1. (Leads(b) => Busy(b)) /\ (pc[b] = "leaving" => Busy(b))
      BY DEF Leads, Busy
    <3>2. at'[b] = at[b] /\ pc'[b] = pc[b]
      BY <1>1, <1>5, <2>2
    <3>3. at[b] \in 1 .. Len(barriers) => barriers'[at[b]] = barriers[at[b]]
      BY <1>2
    <3>4. (Busy(b)' <=> Busy(b)) /\ (Leads(b)' <=> Leads(b))
          /\ (Busy(b) \/ b \in late => at[b] \in 1 .. Len(barriers))
      BY <1>1, <2>2
    <3> QED
      BY <3>1, <3>2, <3>3, <3>4 DEF Inv, AgentInv, Settled
  <2> QED
    BY <2>1, <2>2
<1>8. OneLeader'
  BY <1>6 DEF Inv, OneLeader
<1>9. BarrierInv'
  <2> SUFFICES ASSUME NEW j \in 1 .. Len(barriers')
      PROVE  /\ barriers'[j].submissions # {}
             /\ barriers'[j].participants \subseteq barriers'[j].submissions
             /\ barriers'[j].commands \subseteq barriers'[j].participants
             /\ \A b \in barriers'[j].submissions :
                  /\ barriers'[j].step <= asked[b]
                  /\ barriers'[j].step = asked[b] => pc'[b] # "observing"
             /\ barriers'[j].decided \/ barriers'[j].failed => barriers'[j].inFlight
             /\ barriers'[j].inFlight => barriers'[j].participants # {}
             /\ ~barriers'[j].decided => barriers'[j].consumed = {} /\ barriers'[j].commands = {}
             /\ ~barriers'[j].failed
                  /\ (~barriers'[j].inFlight \/ \E b \in Agent : Leads(b)' /\ at'[b] = j)
                => \A b \in barriers'[j].submissions : at'[b] = j /\ Busy(b)'
    BY <1>1 DEF BarrierInv, Settled
  <2>1. CASE j = n
    <3>1. s <= asked[a]
      BY BarrierParts DEF Inv
    <3> QED
      BY <1>1, <1>3, <1>5, <2>1, <3>1
  <2>2. CASE j # n
    <3>1. j \in 1 .. Len(barriers) /\ barriers'[j] = barriers[j]
      BY <1>2, <2>2
    <3>2. /\ barriers[j].submissions # {} /\ barriers[j].submissions \subseteq Agent
          /\ barriers[j].participants \subseteq barriers[j].submissions
          /\ barriers[j].commands \subseteq barriers[j].participants
          /\ \A b \in barriers[j].submissions :
               /\ barriers[j].step <= asked[b]
               /\ barriers[j].step = asked[b] => pc[b] # "observing"
          /\ barriers[j].decided \/ barriers[j].failed => barriers[j].inFlight
          /\ barriers[j].inFlight => barriers[j].participants # {}
          /\ ~barriers[j].decided => barriers[j].consumed = {} /\ barriers[j].commands = {}
          /\ ~barriers[j].failed
               /\ (~barriers[j].inFlight \/ \E b \in Agent : Leads(b) /\ at[b] = j)
             => \A b \in barriers[j].submissions : at[b] = j /\ Busy(b)
      BY <3>1, BarrierParts DEF Inv, BarrierInv, Settled
    <3>3. \A b \in barriers[j].submissions : pc'[b] = "observing" => pc[b] = "observing"
      BY <1>1, <3>2
    <3>4. ~barriers[j].failed
            /\ (~barriers[j].inFlight \/ \E b \in Agent : Leads(b)' /\ at'[b] = j)
          => \A b \in barriers[j].submissions : at'[b] = j /\ Busy(b)'
      BY <1>1, <1>5, <1>6, <3>2
    <3> QED
      BY <3>1, <3>2, <3>3, <3>4
  <2> QED
    BY <2>1, <2>2
<1>10. TableInv'
  <2> SUFFICES ASSUME NEW t \in Step, states'[t] # 0
      PROVE  /\ barriers'[states'[t]].step = t
             /\ ~barriers'[states'[t]].failed
             /\ \A b \in barriers'[states'[t]].submissions \ barriers'[states'[t]].consumed :
                  at'[b] = states'[t] /\ Busy(b)'
             /\ barriers'[states'[t]].decided
                  => ~(barriers'[states'[t]].participants \subseteq barriers'[states'[t]].consumed)
    BY DEF TableInv
  <2>1. CASE t = s
    BY <1>1, <1>3, <1>4, <1>5, <2>1
  <2>2. CASE t # s
    <3>1. states'[t] = states[t] /\ states[t] \in 1 .. Len(barriers)
      BY <1>4, <2>2, TableParts DEF Inv
    <3>2. barriers'[states[t]] = barriers[states[t]]
          /\ barriers[states[t]].submissions \subseteq Agent
      BY <1>2, <3>1, BarrierParts DEF Inv
    <3>3. /\ barriers[states[t]].step = t
          /\ ~barriers[states[t]].failed
          /\ \A b \in barriers[states[t]].submissions \ barriers[states[t]].consumed :
               at[b] = states[t] /\ Busy(b)
          /\ barriers[states[t]].decided
               => ~(barriers[states[t]].participants \subseteq barriers[states[t]].consumed)
      BY <3>1 DEF Inv, TableInv
    <3> QED
      BY <1>1, <1>5, <3>1, <3>2, <3>3
  <2> QED
    BY <2>1, <2>2
<1>11. StepInv'
  <2> SUFFICES ASSUME NEW t \in Step \ strayed
      PROVE  /\ \A j, k \in 1 .. Len(barriers') :
                  barriers'[j].step = t /\ barriers'[k].step = t => j = k
             /\ \A j \in 1 .. Len(barriers') : barriers'[j].step = t =>
                  /\ ~barriers'[j].inFlight => states'[t] = j
                  /\ barriers'[j].inFlight =>
                       \A b \in Agent : pc'[b] = "observing" /\ asked[b] = t => b \in partial'[t]
                  /\ barriers'[j].inFlight /\ round = t =>
                       \A b \in enabled : asked[b] < t => b \in partial'[t]
                  /\ ticks[t] # 0 => /\ barriers'[j].inFlight
                                     /\ \A b \in Agent : at'[b] = j => pc'[b] # "leading"
             /\ ticks[t] # 0 => \E j \in 1 .. Len(barriers') : barriers'[j].step = t
             /\ ticks[t] <= 1
    BY <1>1 DEF StepInv
  <2>1. /\ \A j, k \in 1 .. Len(barriers) :
             barriers[j].step = t /\ barriers[k].step = t => j = k
        /\ ticks[t] # 0 => \E j \in 1 .. Len(barriers) : barriers[j].step = t
        /\ ticks[t] <= 1
        /\ \A j \in 1 .. Len(barriers) : barriers[j].step = t =>
             /\ ~barriers[j].inFlight => states[t] = j
             /\ barriers[j].inFlight =>
                  \A b \in Agent : pc[b] = "observing" /\ asked[b] = t => b \in partial[t]
             /\ barriers[j].inFlight /\ round = t =>
                  \A b \in enabled : asked[b] < t => b \in partial[t]
             /\ ticks[t] # 0 => /\ barriers[j].inFlight
                                /\ \A b \in Agent : at[b] = j => pc[b] # "leading"
    BY DEF Inv, StepInv
  <2>2. CASE t = s
    <3>1. \A j \in 1 .. Len(barriers) : barriers[j].step # t
      <4> SUFFICES ASSUME NEW j \in 1 .. Len(barriers), barriers[j].step = s PROVE FALSE
        BY <2>2
      <4>1. j # 0
        OBVIOUS
      <4> QED
        BY <2>2, <4>1, NotInFlight
    <3>2. \A j \in 1 .. Len(barriers') : barriers'[j].step = t => j = n
      BY <1>2, <3>1
    <3>3. ticks[t] = 0
      BY <2>1, <3>1
    <3>4. \A j \in 1 .. Len(barriers') : barriers'[j].step = t =>
            ~barriers'[j].inFlight /\ states'[t] = j
      BY <1>3, <1>4, <2>2, <3>2
    <3> QED
      BY <3>2, <3>3, <3>4
  <2>3. CASE t # s
    <3>1. \A j \in 1 .. Len(barriers') : barriers'[j].step = t =>
            j \in 1 .. Len(barriers) /\ barriers'[j] = barriers[j]
      BY <1>2, <1>3, <2>3
    <3>2. states'[t] = states[t]
      BY <1>4, <2>3
    <3>3. \A b \in Agent : \/ pc[b] = "observing" /\ asked[b] = t
                           \/ b \in enabled /\ round = t
            => partial'[t] = partial[t]
      BY <1>1, Remembers
    <3>4. enabled \subseteq Agent
      BY DEF Inv, Types
    <3>5. \A b \in Agent : pc'[b] = "observing" => pc[b] = "observing"
      BY <1>1
    <3>6. \A j \in 1 .. Len(barriers) : \A b \in Agent :
            at'[b] = j /\ pc'[b] = "leading" => at[b] = j /\ pc[b] = "leading"
      BY <1>1, <1>5
    <3>7. ticks[t] # 0 => \E j \in 1 .. Len(barriers') : barriers'[j].step = t
      <4>1. \A j \in 1 .. Len(barriers) : j \in 1 .. Len(barriers')
        BY <1>2 DEF n
      <4> QED
        BY <1>2, <2>1, <4>1
    <3>8. \A j, k \in 1 .. Len(barriers') :
            barriers'[j].step = t /\ barriers'[k].step = t => j = k
      BY <2>1, <3>1
    <3>9. ASSUME NEW j \in 1 .. Len(barriers), barriers[j].step = t, barriers'[j] = barriers[j]
          PROVE  /\ ~barriers'[j].inFlight => states'[t] = j
                 /\ barriers'[j].inFlight =>
                      \A b \in Agent : pc'[b] = "observing" /\ asked[b] = t => b \in partial'[t]
                 /\ barriers'[j].inFlight /\ round = t =>
                      \A b \in enabled : asked[b] < t => b \in partial'[t]
                 /\ ticks[t] # 0 => /\ barriers'[j].inFlight
                                    /\ \A b \in Agent : at'[b] = j => pc'[b] # "leading"
      BY <2>1, <3>2, <3>3, <3>4, <3>5, <3>6, <3>9
    <3> QED
      BY <2>1, <3>1, <3>7, <3>8, <3>9
  <2> QED
    BY <2>2, <2>3
<1>12. QueueInv'
  <2> SUFFICES ASSUME NEW b \in Agent, Clean(b)'
      PROVE  \/ text[b] # 0 /\ queue[b] = <<text[b]>>
             \/ /\ text[b] = 0 /\ queue[b] = <<>>
                /\ Busy(b)' => b \notin barriers'[at'[b]].commands
             \/ /\ text[b] = 0 /\ queue[b] = <<at'[b]>>
                /\ Busy(b)' /\ b \in barriers'[at'[b]].commands
    BY <1>1 DEF QueueInv
  <2>1. Clean(b)
    <3>1. \A j \in 1 .. Len(barriers) : j \in 1 .. Len(barriers')
      BY <1>2 DEF n
    <3> QED
      BY <1>1, <1>2, <3>1 DEF Clean, GivenUp
  <2>2. \/ text[b] # 0 /\ queue[b] = <<text[b]>>
        \/ /\ text[b] = 0 /\ queue[b] = <<>>
           /\ Busy(b) => b \notin barriers[at[b]].commands
        \/ /\ text[b] = 0 /\ queue[b] = <<at[b]>>
           /\ Busy(b) /\ b \in barriers[at[b]].commands
    BY <2>1 DEF Inv, QueueInv
  <2>3. CASE b = a
    BY <1>1, <1>3, <1>5, <2>2, <2>3
  <2>4. CASE b # a
    <3>1. at'[b] = at[b] /\ (Busy(b) <=> Busy(b)')
          /\ (Busy(b) => barriers'[at[b]] = barriers[at[b]])
      BY <1>1, <1>2, <1>5, <2>4
    <3> QED
      BY <2>2, <3>1
  <2> QED
    BY <2>3, <2>4
<1> QED
  BY <1>7, <1>8, <1>9, <1>10, <1>11, <1>12 DEF Inv

(* A query joins the barrier of its step: no command of it is the agent's. *)
LEMMA InvJoin ==
  ASSUME Inv, Types', NEW a \in Agent, Submit(a), states[asked[a]] # 0
  PROVE  Inv'
<1> DEFINE s == asked[a]
           i == states[s]
           g == [barriers[i] EXCEPT !.submissions = @ \cup {a}]
<1>1. /\ pc[a] = "observing" /\ ~Busy(a) /\ a \notin late /\ text[a] = 0
      /\ s \in Step
      /\ \A b \in Agent : /\ pc'[b] = IF b = a THEN "checking" ELSE pc[b]
                          /\ b = a => Busy(b)' /\ ~Leads(b)'
                          /\ b # a => (Busy(b)' <=> Busy(b)) /\ (Leads(b)' <=> Leads(b))
                          /\ Busy(b) \/ b \in late => at[b] \in 1 .. Len(barriers)
      /\ UNCHANGED <<round, enabled, asked, text, strayed, dropped, late, queue, ticks>>
      /\ partial' = Remembered(s)
  BY SubmitFacts
<1>2. /\ states' = states
      /\ \A b \in Agent : at'[b] = IF b = a THEN i ELSE at[b]
  <2>1. states' = states
    BY DEF Submit
  <2> QED
    BY <2>1, SubmitFacts
<1>3. i \in 1 .. Len(barriers) /\ barriers[i] \in Barrier
      /\ barriers[i].step = s /\ ~barriers[i].failed
  BY <1>1, TableParts, BarrierParts DEF Inv, TableInv
<1>4. a \notin barriers[i].submissions
  BY <1>1, <1>3 DEF Inv, BarrierInv
<1>5. g \in Barrier /\ g.step = barriers[i].step
      /\ g.submissions = barriers[i].submissions \cup {a}
      /\ g.participants = barriers[i].participants /\ g.inFlight = barriers[i].inFlight
      /\ g.decided = barriers[i].decided /\ g.failed = barriers[i].failed
      /\ g.commands = barriers[i].commands /\ g.consumed = barriers[i].consumed
  BY <1>3 DEF Barrier
<1>6. Changes(i, g)
  BY <1>3, <1>5 DEF Changes, Submit
<1>7. i # 0
  BY <1>3
<1> HIDE DEF g, i
<1>8. /\ Len(barriers') = Len(barriers) /\ Len(barriers) \in Nat
      /\ barriers'[i] = g
      /\ \A j \in 1 .. Len(barriers) : j # i => barriers'[j] = barriers[j]
  BY <1>6, ChangesFacts DEF Inv
<1>9. /\ barriers'[i].submissions = barriers[i].submissions \cup {a}
      /\ \A j \in 1 .. Len(barriers) :
           /\ barriers'[j].step = barriers[j].step
           /\ j # i => barriers'[j].submissions = barriers[j].submissions
           /\ barriers'[j].participants = barriers[j].participants
           /\ barriers'[j].inFlight = barriers[j].inFlight
           /\ barriers'[j].decided = barriers[j].decided
           /\ barriers'[j].failed = barriers[j].failed
           /\ barriers'[j].commands = barriers[j].commands
           /\ barriers'[j].consumed = barriers[j].consumed
  BY <1>5, <1>8
<1>10. \A j \in 1 .. Len(barriers) : barriers[j].submissions \subseteq barriers'[j].submissions
  BY <1>9
<1>11. \A b \in Agent : Leads(b)' => b # a /\ Leads(b) /\ at'[b] = at[b]
  BY <1>1, <1>2
<1>12. AgentInv'
  <2> SUFFICES ASSUME NEW b \in Agent
      PROVE  /\ asked[b] <= round
             /\ pc'[b] # "idle" => asked[b] # 0 /\ text[b] = 0
             /\ pc'[b] # "idle" /\ b \in enabled => asked[b] = round
             /\ pc'[b] = "observing" /\ b \notin enabled => asked[b] \in strayed
             /\ Busy(b)' => at'[b] # 0 /\ b \in barriers'[at'[b]].submissions
             /\ pc'[b] = "leaving" => barriers'[at'[b]].decided \/ barriers'[at'[b]].failed
             /\ Leads(b)' => barriers'[at'[b]].inFlight /\ ~barriers'[at'[b]].decided
             /\ b \in late => /\ pc'[b] \in {"checking", "locking", "leaving"}
                              /\ barriers'[at'[b]].inFlight
    BY <1>1 DEF AgentInv, Settled
  <2>1. CASE b = a
    BY <1>1, <1>2, <1>3, <1>7, <1>9, <2>1 DEF Inv, AgentInv
  <2>2. CASE b # a
    <3>1. (Leads(b) => Busy(b)) /\ (pc[b] = "leaving" => Busy(b))
      BY DEF Leads, Busy
    <3>2. at'[b] = at[b] /\ pc'[b] = pc[b]
      BY <1>1, <1>2, <2>2
    <3>3. at[b] \in 1 .. Len(barriers) =>
            /\ barriers[at[b]].submissions \subseteq barriers'[at[b]].submissions
            /\ barriers'[at[b]].inFlight = barriers[at[b]].inFlight
            /\ barriers'[at[b]].decided = barriers[at[b]].decided
            /\ barriers'[at[b]].failed = barriers[at[b]].failed
      BY <1>9, <1>10
    <3>4. (Busy(b)' <=> Busy(b)) /\ (Leads(b)' <=> Leads(b))
          /\ (Busy(b) \/ b \in late => at[b] \in 1 .. Len(barriers))
      BY <1>1, <2>2
    <3> QED
      BY <3>1, <3>2, <3>3, <3>4 DEF Inv, AgentInv, Settled
  <2> QED
    BY <2>1, <2>2
<1>13. OneLeader'
  BY <1>11 DEF Inv, OneLeader
<1>14. BarrierInv'
  <2> SUFFICES ASSUME NEW j \in 1 .. Len(barriers)
      PROVE  /\ barriers'[j].submissions # {}
             /\ barriers[j].participants \subseteq barriers'[j].submissions
             /\ \A b \in barriers'[j].submissions :
                  /\ barriers[j].step <= asked[b]
                  /\ barriers[j].step = asked[b] => pc'[b] # "observing"
             /\ ~barriers[j].failed
                  /\ (~barriers[j].inFlight \/ \E b \in Agent : Leads(b)' /\ at'[b] = j)
                => \A b \in barriers'[j].submissions : at'[b] = j /\ Busy(b)'
    BY <1>1, <1>8, <1>9 DEF Inv, BarrierInv, Settled
  <2>1. /\ barriers[j].submissions # {} /\ barriers[j].submissions \subseteq Agent
        /\ barriers[j].participants \subseteq barriers[j].submissions
        /\ \A b \in barriers[j].submissions :
             /\ barriers[j].step <= asked[b]
             /\ barriers[j].step = asked[b] => pc[b] # "observing"
        /\ ~barriers[j].failed
             /\ (~barriers[j].inFlight \/ \E b \in Agent : Leads(b) /\ at[b] = j)
           => \A b \in barriers[j].submissions : at[b] = j /\ Busy(b)
    BY BarrierParts DEF Inv, BarrierInv
  <2>2. /\ \A b \in barriers[j].submissions :
             /\ barriers[j].step <= asked[b]
             /\ barriers[j].step = asked[b] => pc'[b] # "observing"
        /\ ~barriers[j].failed
             /\ (~barriers[j].inFlight \/ \E b \in Agent : Leads(b)' /\ at'[b] = j)
           => \A b \in barriers[j].submissions : at'[b] = j /\ Busy(b)'
    BY <1>1, <1>2, <1>11, <2>1
  <2>3. \A b \in barriers'[j].submissions : b \in barriers[j].submissions \/ (b = a /\ j = i)
    BY <1>9
  <2>4. s <= asked[a] /\ pc'[a] # "observing" /\ at'[a] = i /\ Busy(a)'
    BY <1>1, <1>2, BarrierParts DEF Inv
  <2> QED
    BY <1>3, <1>10, <2>1, <2>2, <2>3, <2>4
<1>15. TableInv'
  <2> SUFFICES ASSUME NEW t \in Step, states[t] # 0
      PROVE  /\ barriers'[states[t]].step = t
             /\ ~barriers'[states[t]].failed
             /\ \A b \in barriers'[states[t]].submissions \ barriers'[states[t]].consumed :
                  at'[b] = states[t] /\ Busy(b)'
             /\ barriers'[states[t]].decided
                  => ~(barriers'[states[t]].participants \subseteq barriers'[states[t]].consumed)
    BY <1>2 DEF TableInv
  <2>1. states[t] \in 1 .. Len(barriers)
    BY TableParts DEF Inv
  <2>2. barriers[states[t]].submissions \subseteq Agent
    BY <2>1, BarrierParts DEF Inv
  <2>3. /\ barriers[states[t]].step = t
        /\ ~barriers[states[t]].failed
        /\ \A b \in barriers[states[t]].submissions \ barriers[states[t]].consumed :
             at[b] = states[t] /\ Busy(b)
        /\ barriers[states[t]].decided
             => ~(barriers[states[t]].participants \subseteq barriers[states[t]].consumed)
    BY DEF Inv, TableInv
  <2>4. \A b \in barriers'[states[t]].submissions :
          b \in barriers[states[t]].submissions \/ (b = a /\ states[t] = i)
    BY <1>9, <2>1
  <2>5. at'[a] = i /\ Busy(a)'
    BY <1>1, <1>2
  <2>6. \A b \in barriers'[states[t]].submissions \ barriers'[states[t]].consumed :
          at'[b] = states[t] /\ Busy(b)'
    <3> SUFFICES ASSUME NEW b \in barriers'[states[t]].submissions \ barriers'[states[t]].consumed
        PROVE  at'[b] = states[t] /\ Busy(b)'
      OBVIOUS
    <3>1. CASE b = a /\ states[t] = i
      BY <2>5, <3>1
    <3>2. CASE b \in barriers[states[t]].submissions /\ b # a
      BY <1>1, <1>2, <1>9, <2>1, <2>2, <2>3, <3>2
    <3>3. CASE b \in barriers[states[t]].submissions /\ b = a
      BY <1>1, <1>9, <2>1, <2>3, <3>3
    <3> QED
      BY <2>4, <3>1, <3>2, <3>3
  <2> QED
    BY <1>9, <2>1, <2>3, <2>6
<1>16. StepInv'
  <2> SUFFICES ASSUME NEW t \in Step \ strayed, NEW j \in 1 .. Len(barriers),
                      barriers[j].step = t
               PROVE  /\ barriers[j].inFlight =>
                           \A b \in Agent :
                             pc'[b] = "observing" /\ asked[b] = t => b \in partial'[t]
                      /\ barriers[j].inFlight /\ round = t =>
                           \A b \in enabled : asked[b] < t => b \in partial'[t]
                      /\ ticks[t] # 0 => \A b \in Agent : at'[b] = j => pc'[b] # "leading"
    BY <1>1, <1>2, <1>8, <1>9 DEF Inv, StepInv
  <2>1. /\ barriers[j].inFlight =>
             \A b \in Agent : pc[b] = "observing" /\ asked[b] = t => b \in partial[t]
        /\ barriers[j].inFlight /\ round = t => \A b \in enabled : asked[b] < t => b \in partial[t]
        /\ ticks[t] # 0 => \A b \in Agent : at[b] = j => pc[b] # "leading"
    BY DEF Inv, StepInv
  <2>2. \A b \in Agent : \/ pc[b] = "observing" /\ asked[b] = t
                         \/ b \in enabled /\ round = t
          => partial'[t] = partial[t]
    BY <1>1, Remembers
  <2>3. enabled \subseteq Agent
    BY DEF Inv, Types
  <2>4. \A b \in Agent : /\ pc'[b] = "observing" => pc[b] = "observing"
                         /\ pc'[b] = "leading" => pc[b] = "leading" /\ at'[b] = at[b]
    BY <1>1, <1>2
  <2> QED
    BY <2>1, <2>2, <2>3, <2>4
<1>17. QueueInv'
  <2> SUFFICES ASSUME NEW b \in Agent, Clean(b)'
      PROVE  \/ text[b] # 0 /\ queue[b] = <<text[b]>>
             \/ /\ text[b] = 0 /\ queue[b] = <<>>
                /\ Busy(b)' => b \notin barriers'[at'[b]].commands
             \/ /\ text[b] = 0 /\ queue[b] = <<at'[b]>>
                /\ Busy(b)' /\ b \in barriers'[at'[b]].commands
    BY <1>1 DEF QueueInv
  <2>1. Clean(b)
    BY <1>1, <1>8, <1>9 DEF Clean, GivenUp
  <2>2. \/ text[b] # 0 /\ queue[b] = <<text[b]>>
        \/ /\ text[b] = 0 /\ queue[b] = <<>>
           /\ Busy(b) => b \notin barriers[at[b]].commands
        \/ /\ text[b] = 0 /\ queue[b] = <<at[b]>>
           /\ Busy(b) /\ b \in barriers[at[b]].commands
    BY <2>1 DEF Inv, QueueInv
  <2>3. CASE b = a
    <3>1. a \notin barriers[i].commands
      BY <1>3, <1>4 DEF Inv, BarrierInv
    <3>2. at'[a] = i /\ barriers'[i].commands = barriers[i].commands
      BY <1>2, <1>3, <1>9
    <3> QED
      BY <1>1, <2>2, <2>3, <3>1, <3>2
  <2>4. CASE b # a
    <3>1. at'[b] = at[b] /\ (Busy(b) <=> Busy(b)')
          /\ (Busy(b) => barriers'[at[b]].commands = barriers[at[b]].commands)
      BY <1>1, <1>2, <1>9, <2>4
    <3> QED
      BY <2>2, <3>1
  <2> QED
    BY <2>3, <2>4
<1> QED
  BY <1>12, <1>13, <1>14, <1>15, <1>16, <1>17 DEF Inv
-----------------------------------------------------------------------------
(* Every step keeps the invariant.                                         *)
LEMMA InvNext == Inv /\ [Next]_vars => Inv'
<1> SUFFICES ASSUME Inv, [Next]_vars PROVE Inv'
  OBVIOUS
<1>1. Types'
  BY TypesNext DEF Inv
<1>2. CASE UNCHANGED vars
  BY <1>1, <1>2, InvStutter DEF vars, workerVars, threadVars, brokerVars
<1>3. ASSUME NEW a \in Agent,
             StartQuery(a) \/ Execute(a) \/ Disable(a) \/ Enable(a) \/ DeadlinePasses(a)
      PROVE  Inv'
  BY <1>1, <1>3, InvStartQuery, InvExecute, InvDisable, InvEnable, InvWaits
<1>4. ASSUME NEW a \in Agent, QueryThread(a) PROVE Inv'
  BY <1>1, <1>4, InvSubmitSkipped, InvOpen, InvJoin, InvWaits, InvElect, InvGiveUp,
     InvBeginDecide, InvFinishDecide, InvLeave DEF QueryThread
<1>5. CASE NextRound
  BY <1>1, <1>5, InvNextRound
<1>6. CASE WaitForInitialDecision \/ InitialDecisionArrives
  BY <1>1, <1>6, InvStutter DEF WaitForInitialDecision, InitialDecisionArrives, threadVars,
     brokerVars
<1>7. ASSUME NEW i \in DOMAIN barriers, GracePasses(i) PROVE Inv'
  BY <1>1, <1>7, InvGrace
<1> QED
  BY <1>2, <1>3, <1>4, <1>5, <1>6, <1>7 DEF Next

(* The invariant holds in every state that the broker reaches.             *)
LEMMA Invariant == Spec => []Inv
<1>1. Init => Inv
  BY InvInit
<1>2. Inv /\ [Next]_vars => Inv'
  BY InvNext
<1> QED
  BY <1>1, <1>2, PTL DEF Spec

(* The state has its types: a barrier in the table is the one of its step  *)
(* and has not failed, every queue holds barriers that exist (broker.py,   *)
(* SharedDecisionBroker).                                                  *)
THEOREM TypeCorrect == Spec => []TypeOK
<1>1. Inv => TypeOK
  <2> SUFFICES ASSUME Inv PROVE TypeOK
    OBVIOUS
  <2>1. BarrierId = 1 .. Len(barriers)
    BY DEF BarrierId, Inv, Types
  <2>2. 0 .. Len(barriers) = BarrierId \cup {0}
    <3>1. Len(barriers) \in Nat
      BY BarrierParts DEF Inv
    <3> QED
      BY <2>1, <3>1
  <2>3. \A a \in Agent : \A k \in DOMAIN queue[a] : queue[a][k] \in BarrierId
    BY <2>1 DEF Inv, Types
  <2>4. \A s \in Step : states[s] # 0 => /\ barriers[states[s]].step = s
                                         /\ ~barriers[states[s]].failed
    BY DEF Inv, TableInv
  <2> HIDE DEF BarrierId
  <2> QED
    BY <2>2, <2>3, <2>4 DEF TypeOK, Inv, Types
<1> QED
  BY <1>1, Invariant, PTL

(* The Runtime is ticked at most once for a step, unless an agent left the *)
(* roster while it collected its observation: a barrier of the step is in  *)
(* the table until its leader is elected, who then records everyone that   *)
(* has not joined (submit, _partial_steps).                                *)
THEOREM TicksOnce == Spec => []OneTickPerStep
<1>1. Inv => OneTickPerStep
  BY DEF Inv, StepInv, OneTickPerStep
<1> QED
  BY <1>1, Invariant, PTL

(* The table is empty whenever no query runs: each barrier in it has a     *)
(* query that joined it and has not returned (submit, _decide).            *)
THEOREM TableDrains == Spec => []BarrierDrains
<1>1. Inv => BarrierDrains
  <2> SUFFICES ASSUME Inv, NEW s \in Step, states[s] # 0
               PROVE  \E a \in Agent : pc[a] # "idle"
    BY DEF BarrierDrains
  <2> DEFINE i == states[s]
  <2>1. i \in 1 .. Len(barriers) /\ barriers[i].submissions \subseteq Agent
    BY TableParts, BarrierParts DEF Inv
  <2>2. /\ barriers[i].submissions # {}
        /\ barriers[i].participants \subseteq barriers[i].submissions
        /\ ~barriers[i].decided => barriers[i].consumed = {}
    BY <2>1 DEF Inv, BarrierInv
  <2>3. /\ \A a \in barriers[i].submissions \ barriers[i].consumed : Busy(a)
        /\ barriers[i].decided => ~(barriers[i].participants \subseteq barriers[i].consumed)
    BY DEF Inv, TableInv
  <2>4. PICK a \in barriers[i].submissions \ barriers[i].consumed : TRUE
    BY <2>2, <2>3
  <2> QED
    BY <2>1, <2>3, <2>4 DEF Busy
<1> QED
  BY <1>1, Invariant, PTL

-----------------------------------------------------------------------------
(* Whatever was left in its queue, the ID of an agent's text, and of the   *)
(* command that its query is about to return, is in it.                    *)
Queued(a, i) == \E k \in DOMAIN queue[a] : queue[a][k] = i

Commanded(a) == Busy(a) /\ a \in barriers[at[a]].commands

OwnInv == \A a \in Agent : /\ text[a] # 0 => Queued(a, text[a])
                           /\ Commanded(a) => Queued(a, at[a])

(* Steps that leave the queues alone and command nobody anew.              *)
LEMMA OwnFrame ==
  ASSUME OwnInv, UNCHANGED queue,
         \A a \in Agent : /\ \/ text'[a] \in {0, text[a]}
                             \/ Commanded(a) /\ text'[a] = at[a]
                          /\ Commanded(a)' => Commanded(a) /\ at'[a] = at[a]
  PROVE  OwnInv'
BY DEF OwnInv, Queued

(* Such a step leaves the commands of the barriers alone.                  *)
LEMMA OwnBarriers ==
  ASSUME Inv, OwnInv, UNCHANGED <<queue, text, at>>,
         \A i \in 1 .. Len(barriers) : barriers'[i].commands = barriers[i].commands,
         \A a \in Agent : Busy(a)' => Busy(a)
  PROVE  OwnInv'
<1>1. \A a \in Agent : Busy(a) => barriers'[at[a]].commands = barriers[at[a]].commands
  BY AtBarrier DEF Inv
<1> QED
  BY <1>1, OwnFrame DEF Commanded

(* An agent takes its oldest ID and has nothing left to execute.           *)
LEMMA OwnTake ==
  ASSUME Inv, OwnInv, NEW a \in Agent, text[a] # 0, UNCHANGED <<barriers, pc, at>>,
         queue' = [queue EXCEPT ![a] = Tail(@)], text' = [text EXCEPT ![a] = 0]
  PROVE  OwnInv'
<1>1. \A b \in Agent : /\ text'[b] = IF b = a THEN 0 ELSE text[b]
                       /\ b # a => queue'[b] = queue[b]
  BY DEF Inv, Types
<1>2. ~Busy(a)
  BY DEF Inv, AgentInv, Busy
<1> QED
  BY <1>1, <1>2 DEF OwnInv, Queued, Commanded, Busy

(* A barrier that changes and keeps its commands.                          *)
LEMMA CommandsKept ==
  ASSUME Types, NEW i \in 1 .. Len(barriers), NEW g \in Barrier,
         g.commands = barriers[i].commands, barriers' = [barriers EXCEPT ![i] = g]
  PROVE  \A j \in 1 .. Len(barriers) : barriers'[j].commands = barriers[j].commands
BY ChangeBarrier DEF Types

(* A decision queues an ID for each agent that it commands.                *)
LEMMA OwnFinish ==
  ASSUME Inv, OwnInv, NEW a \in Agent, NEW commanded \in SUBSET Agent,
         FinishDecide(a, commanded)
  PROVE  OwnInv'
<1> DEFINE i == at[a]
<1>1. /\ pc[a] = "ticking" /\ Busy(a)
      /\ \A b \in Agent : /\ pc'[b] = IF b = a THEN "checking" ELSE pc[b]
                          /\ queue'[b] = IF b \in commanded THEN Append(queue[b], i)
                                                            ELSE queue[b]
      /\ UNCHANGED <<text, at>>
  BY DEF FinishDecide, Inv, Types, workerVars, Busy
<1>2. i \in 1 .. Len(barriers) /\ barriers[i] \in Barrier
  BY <1>1, AtBarrier DEF Inv
<1>3. /\ \A j \in 1 .. Len(barriers) : j # i => barriers'[j].commands = barriers[j].commands
      /\ barriers'[i].commands = commanded
  BY <1>2 DEF FinishDecide, Inv, Types, Barrier
<1>4. \A b \in Agent : \A j : Queued(b, j) => \E k \in DOMAIN queue'[b] : queue'[b][k] = j
  <2> SUFFICES ASSUME NEW b \in Agent, NEW j, Queued(b, j)
               PROVE  \E k \in DOMAIN queue'[b] : queue'[b][k] = j
    OBVIOUS
  <2>1. queue[b] \in Seq(1 .. Len(barriers))
    BY DEF Inv, Types
  <2>2. PICK k \in DOMAIN queue[b] : queue[b][k] = j
    BY DEF Queued
  <2>3. k \in DOMAIN Append(queue[b], i) /\ Append(queue[b], i)[k] = j
    BY <1>2, <2>1, <2>2, AppendProperties
  <2> QED
    BY <1>1, <2>2, <2>3
<1>5. \A b \in commanded : \E k \in DOMAIN queue'[b] : queue'[b][k] = i
  <2> SUFFICES ASSUME NEW b \in commanded PROVE \E k \in DOMAIN queue'[b] : queue'[b][k] = i
    OBVIOUS
  <2>1. queue[b] \in Seq(1 .. Len(barriers)) /\ Len(queue[b]) \in Nat
    BY DEF Inv, Types
  <2>2. /\ Len(queue[b]) + 1 \in DOMAIN Append(queue[b], i)
        /\ Append(queue[b], i)[Len(queue[b]) + 1] = i
    BY <1>2, <2>1, AppendProperties
  <2> QED
    BY <1>1, <2>2
<1>6. \A b \in Agent : Busy(b)' <=> Busy(b)
  BY <1>1 DEF Busy
<1>7. \A b \in Agent : Commanded(b)' => (at[b] # i /\ Commanded(b)) \/ (at[b] = i /\ b \in commanded)
  <2> SUFFICES ASSUME NEW b \in Agent, Commanded(b)'
               PROVE  (at[b] # i /\ Commanded(b)) \/ (at[b] = i /\ b \in commanded)
    OBVIOUS
  <2>1. Busy(b) /\ b \in barriers'[at[b]].commands
    BY <1>1, <1>6 DEF Commanded
  <2>2. at[b] \in 1 .. Len(barriers)
    BY <2>1, AtBarrier DEF Inv
  <2> HIDE DEF i
  <2> QED
    BY <1>3, <2>1, <2>2 DEF Commanded
<1> HIDE DEF i
<1> SUFFICES ASSUME NEW b \in Agent
             PROVE  /\ text[b] # 0 => \E k \in DOMAIN queue'[b] : queue'[b][k] = text[b]
                    /\ Commanded(b)' => \E k \in DOMAIN queue'[b] : queue'[b][k] = at[b]
  BY <1>1 DEF OwnInv, Queued
<1>8. text[b] # 0 => Queued(b, text[b])
  BY DEF OwnInv
<1>9. Commanded(b) => Queued(b, at[b])
  BY DEF OwnInv
<1> QED
  BY <1>4, <1>5, <1>7, <1>8, <1>9

(* A query that returns has its command's ID in the queue.                 *)
LEMMA OwnLeave ==
  ASSUME Inv, OwnInv, NEW a \in Agent, Leave(a)
  PROVE  OwnInv'
<1>1. /\ Busy(a) /\ text[a] = 0 /\ queue' = queue
      /\ \A b \in Agent : /\ pc'[b] = IF b = a THEN "idle" ELSE pc[b]
                          /\ at'[b] = IF b = a THEN 0 ELSE at[b]
                          /\ b # a => text'[b] = text[b]
      /\ text'[a] # 0 => a \in barriers[at[a]].commands /\ text'[a] = at[a]
  BY DEF Leave, Inv, Types, AgentInv, Busy
<1>2. at[a] \in 1 .. Len(barriers) /\ barriers[at[a]] \in Barrier
  BY <1>1, AtBarrier DEF Inv
<1>3. \A j \in 1 .. Len(barriers) : barriers'[j].commands = barriers[j].commands
  <2>1. CASE barriers[at[a]].failed
    BY <2>1 DEF Leave
  <2>2. CASE ~barriers[at[a]].failed
    <3> DEFINE g == [barriers[at[a]] EXCEPT !.consumed = @ \cup {a}]
    <3>1. g \in Barrier /\ g.commands = barriers[at[a]].commands
      BY <1>2 DEF Barrier
    <3>2. barriers' = [barriers EXCEPT ![at[a]] = g]
      BY <2>2, <1>2 DEF Leave, Inv, Types
    <3> QED
      BY <1>2, <3>1, <3>2, CommandsKept DEF Inv
  <2> QED
    BY <2>1, <2>2
<1>4. \A b \in Agent : Busy(b)' => b # a /\ Busy(b)
  BY <1>1 DEF Busy
<1>5. \A b \in Agent : Busy(b) => barriers'[at[b]].commands = barriers[at[b]].commands
  BY <1>3, AtBarrier DEF Inv
<1>6. \A b \in Agent : Commanded(b)' => Commanded(b) /\ at'[b] = at[b]
  BY <1>1, <1>4, <1>5 DEF Commanded
<1>7. \A b \in Agent : \/ text'[b] \in {0, text[b]}
                       \/ Commanded(b) /\ text'[b] = at[b]
  BY <1>1 DEF Commanded
<1> QED
  BY <1>1, <1>6, <1>7, OwnFrame

(* A query that joins a barrier is not among those it commands.            *)
LEMMA OwnSubmit ==
  ASSUME Inv, OwnInv, Types', NEW a \in Agent, Submit(a)
  PROVE  OwnInv'
<1>1. /\ pc[a] = "observing" /\ asked[a] \in Step
      /\ \A b \in Agent : /\ at'[b] = IF b = a THEN states'[asked[a]] ELSE at[b]
                          /\ b # a => (Busy(b)' <=> Busy(b))
      /\ UNCHANGED <<text, queue>>
  BY SubmitFacts
<1>2. /\ a \notin barriers'[states'[asked[a]]].commands
      /\ \A j \in 1 .. Len(barriers) : barriers'[j].commands = barriers[j].commands
  <2>1. CASE states[asked[a]] = 0
    <3>1. NewBarrier(asked[a], a) \in Barrier
      BY <1>1 DEF NewBarrier, Barrier
    <3>2. /\ barriers' = Append(barriers, NewBarrier(asked[a], a)) /\ barriers \in Seq(Barrier)
          /\ states'[asked[a]] = Len(barriers) + 1
      BY <1>1, <2>1 DEF Submit, Inv, Types
    <3>3. NewBarrier(asked[a], a).commands = {}
      BY DEF NewBarrier
    <3> QED
      BY <3>1, <3>2, <3>3, AppendBarrier
  <2>2. CASE states[asked[a]] # 0
    <3> DEFINE i == states[asked[a]]
    <3>1. i \in 1 .. Len(barriers) /\ barriers[i] \in Barrier /\ barriers[i].step = asked[a]
      BY <1>1, <2>2, TableParts, BarrierParts DEF Inv, TableInv
    <3>2. a \notin barriers[i].commands
      BY <1>1, <3>1 DEF Inv, BarrierInv
    <3> DEFINE g == [barriers[i] EXCEPT !.submissions = @ \cup {a}]
    <3>3. g \in Barrier /\ g.commands = barriers[i].commands
      BY <3>1 DEF Barrier
    <3>4. states' = states /\ barriers' = [barriers EXCEPT ![i] = g]
      BY <2>2, <3>1 DEF Submit, Inv, Types
    <3>5. \A j \in 1 .. Len(barriers) : barriers'[j].commands = barriers[j].commands
      BY <3>1, <3>3, <3>4, CommandsKept DEF Inv
    <3> QED
      BY <3>1, <3>2, <3>4, <3>5
  <2> QED
    BY <2>1, <2>2
<1>3. \A b \in Agent : Commanded(b)' => Commanded(b) /\ at'[b] = at[b]
  <2> SUFFICES ASSUME NEW b \in Agent, Commanded(b)' PROVE Commanded(b) /\ at'[b] = at[b]
    OBVIOUS
  <2>1. b # a
    BY <1>1, <1>2 DEF Commanded
  <2>2. Busy(b) /\ at'[b] = at[b]
    BY <1>1, <2>1 DEF Commanded
  <2>3. at[b] \in 1 .. Len(barriers)
    BY <2>2, AtBarrier DEF Inv
  <2> QED
    BY <1>2, <2>2, <2>3 DEF Commanded
<1> QED
  BY <1>1, <1>3, OwnFrame

(* Every step keeps an agent's own ID in its queue.                        *)
LEMMA OwnNext == Inv /\ OwnInv /\ [Next]_vars => OwnInv'
<1> SUFFICES ASSUME Inv, OwnInv, [Next]_vars PROVE OwnInv'
  OBVIOUS
<1> USE DEF workerVars, threadVars, brokerVars
<1>1. Types'
  BY TypesNext DEF Inv
<1>2. CASE UNCHANGED vars \/ NextRound \/ WaitForInitialDecision \/ InitialDecisionArrives
  <2>1. UNCHANGED <<queue, text, at, pc, barriers>>
    BY <1>2 DEF vars, NextRound, WaitForInitialDecision, InitialDecisionArrives
  <2> QED
    BY <2>1, OwnBarriers DEF Busy
<1>3. ASSUME NEW a \in Agent, StartQuery(a) \/ DeadlinePasses(a) \/ SubmitSkipped(a) PROVE OwnInv'
  <2>1. /\ UNCHANGED <<queue, text, at, barriers>>
        /\ \A b \in Agent : pc'[b] \in {pc[b], "observing", "idle"}
    BY <1>3 DEF StartQuery, DeadlinePasses, SubmitSkipped, Inv, Types
  <2>2. \A b \in Agent : Busy(b)' => Busy(b)
    BY <2>1 DEF Busy
  <2> QED
    BY <2>1, <2>2, OwnBarriers
<1>4. ASSUME NEW a \in Agent, Check(a) \/ WaitOn(a) \/ BeginDecide(a) PROVE OwnInv'
  <2>1. /\ UNCHANGED <<queue, text, at, barriers>> /\ Busy(a)
        /\ \A b \in Agent : b # a => pc'[b] = pc[b]
    BY <1>4 DEF Check, WaitOn, BeginDecide, Busy, Inv, Types
  <2>2. \A b \in Agent : Busy(b)' => Busy(b)
    BY <2>1 DEF Busy
  <2> QED
    BY <2>1, <2>2, OwnBarriers
<1>5. ASSUME NEW a \in Agent, Elect(a) \/ TimeOut(a) \/ FailDecide(a) PROVE OwnInv'
  <2>1. /\ UNCHANGED <<queue, text, at>> /\ Busy(a)
        /\ \A b \in Agent : b # a => pc'[b] = pc[b]
    BY <1>5 DEF Elect, TimeOut, FailDecide, Busy, Inv, Types
  <2>2. \A b \in Agent : Busy(b)' => Busy(b)
    BY <2>1 DEF Busy
  <2>3. at[a] \in 1 .. Len(barriers) /\ barriers[at[a]] \in Barrier
    BY <2>1, AtBarrier DEF Inv
  <2>4. \A i \in 1 .. Len(barriers) : barriers'[i].commands = barriers[i].commands
    <3>1. PICK g \in Barrier : /\ g.commands = barriers[at[a]].commands
                               /\ barriers' = [barriers EXCEPT ![at[a]] = g]
      <4>1. CASE Elect(a)
        <5> DEFINE g == [barriers[at[a]] EXCEPT !.inFlight = TRUE,
                                                !.participants = Participants(barriers[at[a]])]
        <5>1. g \in Barrier /\ g.commands = barriers[at[a]].commands
          BY <2>3 DEF Barrier, Participants, Inv, Types
        <5>2. barriers' = [barriers EXCEPT ![at[a]] = g]
          BY <4>1, <2>3 DEF Elect, Inv, Types
        <5> QED
          BY <5>1, <5>2
      <4>2. CASE TimeOut(a) \/ FailDecide(a)
        <5> DEFINE g == [barriers[at[a]] EXCEPT !.failed = TRUE]
        <5>1. g \in Barrier /\ g.commands = barriers[at[a]].commands
          BY <2>3 DEF Barrier
        <5>2. barriers' = [barriers EXCEPT ![at[a]] = g]
          BY <4>2, <2>3 DEF TimeOut, FailDecide, Fail, Inv, Types
        <5> QED
          BY <5>1, <5>2
      <4> QED
        BY <1>5, <4>1, <4>2
    <3> QED
      BY <2>3, <3>1, CommandsKept DEF Inv
  <2> QED
    BY <2>1, <2>2, <2>4, OwnBarriers
<1>6. ASSUME NEW i \in DOMAIN barriers, GracePasses(i) PROVE OwnInv'
  <2>1. UNCHANGED <<queue, text, at, pc>> /\ barriers[i] \in Barrier
    BY <1>6 DEF GracePasses, Inv, Types
  <2>2. \A j \in 1 .. Len(barriers) : barriers'[j].commands = barriers[j].commands
    BY <1>6, <2>1 DEF GracePasses, Inv, Types, Barrier
  <2> QED
    BY <2>1, <2>2, OwnBarriers DEF Busy
<1>7. ASSUME NEW a \in Agent, Execute(a) PROVE OwnInv'
  BY <1>7, OwnTake DEF Execute
<1>8. ASSUME NEW a \in Agent, Disable(a) \/ Enable(a) PROVE OwnInv'
  <2>1. Loses(a) /\ UNCHANGED <<barriers, pc, at>>
    BY <1>8 DEF Disable, Enable, Loses
  <2>2. CASE AbortAction(a)
    BY <2>1, <2>2, OwnTake DEF Loses, AbortAction, Abortable
  <2>3. CASE DropText(a)
    <3>1. queue' = queue /\ \A b \in Agent : text'[b] \in {0, text[b]}
      BY <2>1, <2>3 DEF Loses, DropText, Inv, Types
    <3> QED
      BY <2>1, <3>1, OwnFrame DEF Commanded, Busy
  <2> QED
    BY <2>1, <2>2, <2>3 DEF Loses
<1>9. ASSUME NEW a \in Agent, QueryThread(a) PROVE OwnInv'
  BY <1>1, <1>3, <1>4, <1>5, <1>9, OwnSubmit, OwnFinish, OwnLeave DEF QueryThread
<1> QED
  BY <1>2, <1>3, <1>6, <1>7, <1>8, <1>9 DEF Next

(* What an agent executes is charged to the command its own action text    *)
(* came from, as long as no decision that was given up has queued one for  *)
(* it and no text of it was thrown away: the queue then holds that command *)
(* alone.  Whatever a timeout, a failure or an agent's leaving has left in *)
(* the queues, that command is in it, so claim_primitive and               *)
(* reject_command find one and the worker does not end the run with an     *)
(* integrity error.                                                        *)
THEOREM ChargesOwnCommand == Spec => []ClaimsOwnCommand
<1>1. Init => OwnInv
  BY DEF Init, OwnInv, Commanded, Busy
<1>2. Inv /\ OwnInv => ClaimsOwnCommand
  <2> SUFFICES ASSUME Inv, OwnInv, NEW a \in Agent, text[a] # 0
               PROVE  /\ \E k \in DOMAIN queue[a] : queue[a][k] = text[a]
                      /\ Stale(a) \/ Head(queue[a]) = text[a]
    BY DEF ClaimsOwnCommand
  <2>1. \E k \in DOMAIN queue[a] : queue[a][k] = text[a]
    BY DEF OwnInv, Queued
  <2>2. BarrierId = 1 .. Len(barriers)
    BY DEF BarrierId, Inv, Types
  <2>3. ~Stale(a) => queue[a] = <<text[a]>>
    BY <2>2 DEF Inv, QueueInv, Clean, Stale
  <2>4. Head(<<text[a]>>) = text[a]
    OBVIOUS
  <2>5. ~Stale(a) => Head(queue[a]) = text[a]
    BY <2>3, <2>4, Zenon
  <2> QED
    BY <2>1, <2>5
<1> QED
  BY <1>1, <1>2, OwnNext, Invariant, PTL DEF Spec
=============================================================================
