------------------------ MODULE MacroSpecialistProofs ------------------------
(***************************************************************************)
(* What MacroSpecialist guarantees for every plan, every interval and time *)
(* to live, every number of sidecar restarts and of episodes.              *)
(***************************************************************************)
EXTENDS MacroSpecialist, TLAPS

(* Between a request and the sidecar: requests are suspended only while    *)
(* none is pending, and a restart runs only while they are suspended.  In  *)
(* the first episode, the inference that runs is the pending request's, or *)
(* that of one which timed out.                                            *)
RequestInv ==
  /\ suspended => task = "none"
  /\ recovering => suspended /\ restarts > 0
  /\ phase = "drain" => episode > 1
  /\ gpu = "mine" => task = "running"
  /\ episode = 1 => /\ task = "running" => gpu = "mine"
                    /\ gpu = "orphan" => suspended \/ task = "timeout"

LEMMA RequestInit == Init => RequestInv
BY DEF Init, RequestInv

LEMMA RequestStep ==
  ASSUME TypeOK, RequestInv, [Next]_vars
  PROVE  RequestInv'
<1> USE DEF RequestInv, Done, sidecarVars
<1>0. /\ episode \in Nat /\ restarts \in Nat /\ episode >= 1
      /\ gpu \in {"idle", "mine", "orphan"}
      /\ suspended \in BOOLEAN /\ recovering \in BOOLEAN
  BY MacroAssumption DEF TypeOK
<1>1. ASSUME NEW result \in {"answer", "error"}, Generate(result) PROVE RequestInv'
  <2>1. CASE gpu = "mine"
    BY <1>0, <1>1, <2>1 DEF Generate
  <2>2. CASE gpu = "orphan"
    <3>1. task' = task /\ (episode = 1 => task # "running" /\ gpu' = "idle")
      BY <1>1, <2>2 DEF Generate
    <3> QED
      BY <1>1, <3>1 DEF Generate
  <2> QED
    BY <1>0, <1>1, <2>1, <2>2 DEF Generate
<1>2. CASE TimeOut
  BY <1>2 DEF TimeOut
<1>3. CASE Refuse
  BY <1>3 DEF Refuse
<1>4. ASSUME NEW ready \in BOOLEAN, RecoverMacroSpecialist(ready) PROVE RequestInv'
  <2>1. task' = "none" /\ ~recovering'
    BY <1>4 DEF RecoverMacroSpecialist
  <2>2. gpu' = "idle" /\ phase' = phase /\ episode' = episode
    BY <1>4 DEF RecoverMacroSpecialist
  <2> QED
    BY <2>1, <2>2
<1>5. CASE ActivateEpisode
  BY <1>5, <1>0 DEF ActivateEpisode
<1>6. CASE Drain
  BY <1>6, <1>0 DEF Drain, ResetEpisode
<1>7. ASSUME CollectFinishedMacro, phase' # "drain" PROVE RequestInv'
  <2>1. CASE MacroTimedOut /\ task = "timeout"
    BY <1>7, <1>0, <2>1, MacroAssumption DEF CollectFinishedMacro, MacroTimedOut, Suspends, Restartable
  <2>2. CASE UNCHANGED <<recovering, suspended, restarts>> /\ task \in {"answer", "error"}
    BY <1>7, <1>0, <2>2 DEF CollectFinishedMacro
  <2> QED
    BY <1>7, <2>1, <2>2 DEF CollectFinishedMacro, RejectMacroPlan, AcceptMacroPlan, MacroFailed
<1>8. ASSUME NEW alert \in BOOLEAN, NEW c \in BOOLEAN, NEW moved \in BOOLEAN, Assess(alert, c, moved)
      PROVE  RequestInv'
  BY <1>8, <1>0 DEF Assess, ShouldStartMacro
<1>9. ASSUME UNCHANGED <<sidecarVars, task, episode>>, phase' = phase \/ phase' # "drain"
      PROVE  RequestInv'
  BY <1>9
<1>10. CASE BeginTick
  BY <1>9, <1>10 DEF BeginTick
<1>11. CASE Collect
  <2>1. CASE task \notin Done
    BY <1>9, <1>11, <2>1 DEF Collect, CollectFinishedMacro
  <2> QED
    BY <1>7, <1>11, <2>1 DEF Collect
<1>12. CASE WaitForInitialMacro
  BY <1>7, <1>12 DEF WaitForInitialMacro
<1>13. CASE Dispatch
  BY <1>9, <1>13
     DEF Dispatch, EndTick, Unready, HorizonExhausted, Waits, Blocked, Deduplicated,
         Dispatched, Recovers, HoldsForCollapse
<1>14. CASE Succeeds \/ Fails \/ OtherFails \/ EndEpisode
  BY <1>9, <1>14 DEF Succeeds, Fails, OtherFails, EndEpisode
<1>15. CASE UNCHANGED vars
  BY <1>9, <1>15 DEF vars
<1> QED
  BY <1>1, <1>2, <1>3, <1>4, <1>5, <1>6, <1>8, <1>10, <1>11, <1>12, <1>13, <1>14, <1>15
     DEF Next, Tick, Request, Recovery

LEMMA LessType ==
  /\ \A n \in Nat : Less(n) \in Nat /\ Less(n) <= n
  /\ \A m, n \in Nat : n \in 0 .. m => Less(n) \in 0 .. m
BY DEF Less

(* A plan never needs more than its steps ask for.                         *)
Bounded(w) == w \in [Step -> Nat] /\ \A i \in Step : w[i] <= Repeat[i]

LEMMA WorkBounded ==
  /\ Bounded(NoWork)
  /\ \A P \in SUBSET Step : Bounded(Work(P))
  /\ \A w, S : Bounded(w) => Bounded(Without(w, S))
  /\ \A w : \A i \in Step : Bounded(w) => Bounded([w EXCEPT ![i] = Less(@)])
<1>1. Bounded(NoWork)
  BY PlanAssumption DEF Bounded, NoWork
<1>2. \A P \in SUBSET Step : Bounded(Work(P))
  BY PlanAssumption DEF Bounded, Work
<1>3. \A w, S : Bounded(w) => Bounded(Without(w, S))
  BY PlanAssumption DEF Bounded, Without
<1>4. \A w : \A i \in Step : Bounded(w) => Bounded([w EXCEPT ![i] = Less(@)])
  <2> SUFFICES ASSUME NEW w, NEW i \in Step, Bounded(w) PROVE Bounded([w EXCEPT ![i] = Less(@)])
    OBVIOUS
  <2>1. \A j \in Step : w[j] \in Nat /\ Less(w[j]) \in Nat /\ Less(w[j]) <= w[j]
                        /\ w[j] <= Repeat[j] /\ Repeat[j] \in Nat
    BY PlanAssumption, LessType DEF Bounded
  <2> QED
    BY <2>1 DEF Bounded
<1> QED
  BY <1>1, <1>2, <1>3, <1>4

(* The flags of TypeOK.                                                    *)
FlagsOK ==
  /\ recovering \in BOOLEAN /\ suspended \in BOOLEAN /\ urgent \in BOOLEAN
  /\ hasPlan \in BOOLEAN /\ frozen \in BOOLEAN
  /\ collapse \in BOOLEAN /\ ended \in BOOLEAN

LEMMA TypeInit == Init => TypeOK
<1> SUFFICES ASSUME Init PROVE TypeOK
  OBVIOUS
<1>1. /\ recovering \in BOOLEAN /\ suspended \in BOOLEAN /\ urgent \in BOOLEAN
      /\ hasPlan \in BOOLEAN /\ frozen \in BOOLEAN
      /\ collapse \in BOOLEAN /\ ended \in BOOLEAN
  BY DEF Init
<1>2. left \in [Step -> Nat] /\ \A i \in Step : left[i] <= Repeat[i]
  BY WorkBounded DEF Init, Bounded
<1>3. inflight \in [step : {0} \cup Step, current : BOOLEAN, sent : BOOLEAN]
  BY DEF Init, None
<1>4. restarts \in 0 .. RestartLimit
      /\ retry \in 0 .. Interval /\ since \in 0 .. Interval /\ ttl \in 0 .. TTL
      /\ episode \in 1 .. Episodes
  BY MacroAssumption DEF Init
<1> QED
  BY <1>1, <1>2, <1>3, <1>4 DEF Init, TypeOK, Done

LEMMA FlagsStep ==
  ASSUME FlagsOK, [Next]_vars
  PROVE  FlagsOK'
<1> USE DEF FlagsOK, sidecarVars, planVars
<1>1. ASSUME NEW result \in {"answer", "error"}, Generate(result) PROVE FlagsOK'
  BY <1>1 DEF Generate
<1>2. CASE TimeOut
  BY <1>2 DEF TimeOut
<1>3. CASE Refuse
  BY <1>3 DEF Refuse
<1>4. ASSUME NEW ready \in BOOLEAN, RecoverMacroSpecialist(ready) PROVE FlagsOK'
  BY <1>4, Zenon DEF RecoverMacroSpecialist
<1>5. CASE BeginTick
  BY <1>5 DEF BeginTick
<1>6. CASE ActivateEpisode
  BY <1>6, Zenon DEF ActivateEpisode
<1>7. CASE Drain
  BY <1>7, Zenon DEF Drain, ResetEpisode
<1>8. ASSUME CollectFinishedMacro PROVE FlagsOK'
  <2>1. CASE MacroTimedOut
    BY <1>8, <2>1, Zenon DEF CollectFinishedMacro, MacroTimedOut, Suspends, Restartable
  <2>2. CASE MacroFailed
    BY <1>8, <2>2, Zenon DEF CollectFinishedMacro, MacroFailed
  <2>3. CASE RejectMacroPlan
    BY <1>8, <2>3, Zenon DEF CollectFinishedMacro, RejectMacroPlan
  <2>4. ASSUME NEW P, AcceptMacroPlan(P) PROVE FlagsOK'
    BY <1>8, <2>4, Zenon DEF CollectFinishedMacro, AcceptMacroPlan
  <2> QED
    BY <1>8, <2>1, <2>2, <2>3, <2>4 DEF CollectFinishedMacro
<1>9. ASSUME NEW alert \in BOOLEAN, NEW c \in BOOLEAN, NEW moved \in BOOLEAN, Assess(alert, c, moved)
      PROVE  FlagsOK'
  BY <1>9, Zenon DEF Assess
<1>10. ASSUME NEW refused \in BOOLEAN, Unready(refused) PROVE FlagsOK'
  BY <1>10, Zenon DEF Unready, EndTick
<1>11. ASSUME NEW refused \in BOOLEAN, HorizonExhausted(refused) PROVE FlagsOK'
  BY <1>11, Zenon DEF HorizonExhausted, EndTick
<1>12. ASSUME NEW refused \in BOOLEAN, Waits(refused) PROVE FlagsOK'
  BY <1>12, Zenon DEF Waits, EndTick
<1>13. ASSUME NEW refused \in BOOLEAN, HoldsForCollapse(refused) PROVE FlagsOK'
  BY <1>13, Zenon DEF HoldsForCollapse, EndTick
<1>14. ASSUME NEW refused \in BOOLEAN, NEW D \in SUBSET Step, Deduplicated(D, refused) PROVE FlagsOK'
  BY <1>14, Zenon DEF Deduplicated, EndTick
<1>15. ASSUME NEW refused \in BOOLEAN, NEW D \in SUBSET Step, Blocked(D, refused) PROVE FlagsOK'
  BY <1>15, Zenon DEF Blocked, EndTick
<1>16. ASSUME NEW refused \in BOOLEAN, NEW i \in {0} \cup Step, NEW D \in SUBSET Step,
              Dispatched(i, D, refused)
       PROVE  FlagsOK'
  BY <1>16, Zenon DEF Dispatched, EndTick
<1>17. ASSUME NEW refused \in BOOLEAN, NEW i \in {0} \cup Townhall, NEW sent \in BOOLEAN,
              Recovers(i, sent, refused)
       PROVE  FlagsOK'
  BY <1>17, Zenon DEF Recovers, EndTick
<1>18. CASE Succeeds
  BY <1>18, Zenon DEF Succeeds
<1>19. CASE Fails
  BY <1>19, Zenon DEF Fails
<1>20. CASE OtherFails
  BY <1>20, Zenon DEF OtherFails
<1>21. CASE EndEpisode
  BY <1>21, Zenon DEF EndEpisode
<1>22. CASE UNCHANGED vars
  BY <1>22 DEF vars
<1>23. Dispatch => FlagsOK'
  BY <1>10, <1>11, <1>12, <1>13, <1>14, <1>15, <1>16, <1>17 DEF Dispatch
<1>24. Tick => FlagsOK'
  <2>1. CASE task \notin Done /\ Collect
    BY <2>1 DEF Collect, CollectFinishedMacro
  <2>2. CASE task \in Done /\ Collect
    BY <1>8, <2>2 DEF Collect
  <2> QED
    BY <1>5, <1>6, <1>7, <1>8, <1>9, <1>23, <2>1, <2>2 DEF Tick, WaitForInitialMacro
<1> QED
  BY <1>1, <1>2, <1>3, <1>4, <1>18, <1>19, <1>20, <1>21, <1>22, <1>24
     DEF Next, Request, Recovery

(* The other types of TypeOK, with what they have to do with one another.  *)
ValuesOK ==
  /\ gpu \in {"idle", "mine", "orphan"} /\ task \in {"none", "running"} \cup Done
  /\ phase \in {"idle", "drain", "collect", "assess", "wait", "dispatch"}
  /\ hold \in {"none", "active", "old"}
  /\ restarts \in 0 .. RestartLimit /\ episode \in 1 .. Episodes
  /\ retry \in 0 .. Interval /\ since \in 0 .. Interval /\ ttl \in 0 .. TTL
  /\ Bounded(left)
  /\ inflight \in [step : {0} \cup Step, current : BOOLEAN, sent : BOOLEAN]

PlanOK == ValuesOK /\ InFlightStepOpen /\ HoldFreezesPlan

LEMMA PlanStep ==
  ASSUME FlagsOK, PlanOK, [Next]_vars
  PROVE  PlanOK'
<1> USE MacroAssumption, PlanAssumption, LessType, WorkBounded
    DEF PlanOK, ValuesOK, InFlightStepOpen, HoldFreezesPlan, FlagsOK, sidecarVars, planVars, Done
<1>1. ASSUME NEW result \in {"answer", "error"}, Generate(result) PROVE PlanOK'
  BY <1>1 DEF Generate
<1>2. CASE TimeOut
  BY <1>2 DEF TimeOut
<1>3. CASE Refuse
  BY <1>3 DEF Refuse
<1>4. ASSUME NEW ready \in BOOLEAN, RecoverMacroSpecialist(ready) PROVE PlanOK'
  BY <1>4 DEF RecoverMacroSpecialist
<1>5. CASE BeginTick
  BY <1>5 DEF BeginTick
<1>6. CASE ActivateEpisode
  BY <1>6 DEF ActivateEpisode
<1>7. CASE Drain
  BY <1>7 DEF Drain, ResetEpisode, None
<1>8. ASSUME CollectFinishedMacro, phase' \in {"assess", "idle", "dispatch"} PROVE PlanOK'
  <2>1. CASE MacroTimedOut
    BY <1>8, <2>1 DEF CollectFinishedMacro, MacroTimedOut, Suspends, Restartable
  <2>2. CASE MacroFailed
    BY <1>8, <2>2 DEF CollectFinishedMacro, MacroFailed
  <2>3. CASE RejectMacroPlan
    BY <1>8, <2>3 DEF CollectFinishedMacro, RejectMacroPlan
  <2>4. ASSUME NEW P \in SUBSET Step, AcceptMacroPlan(P) PROVE PlanOK'
    <3>1. inflight' \in [step : {0} \cup Step, current : BOOLEAN, sent : BOOLEAN]
          /\ ~inflight'.current
      BY <2>4 DEF AcceptMacroPlan
    <3>2. Bounded(left') /\ hold' \in {"none", "old"} /\ retry' = 0 /\ ttl' = TTL
      BY <2>4 DEF AcceptMacroPlan, HoldAfterPlan
    <3>3. task' = "none" /\ UNCHANGED <<gpu, since, episode, restarts>>
      BY <1>8, <2>4 DEF CollectFinishedMacro, AcceptMacroPlan
    <3> QED
      BY <1>8, <3>1, <3>2, <3>3
  <2> QED
    BY <1>8, <2>1, <2>2, <2>3, <2>4 DEF CollectFinishedMacro
<1>9. ASSUME NEW alert \in BOOLEAN, NEW c \in BOOLEAN, NEW moved \in BOOLEAN, Assess(alert, c, moved)
      PROVE  PlanOK'
  <2> DEFINE released == hold # "none" /\ (~c \/ moved)
             dropped  == released /\ hold = "active"
  <2>1. /\ gpu' \in {"idle", "mine", "orphan"} /\ task' \in {"none", "running"} \cup Done
        /\ phase' \in {"wait", "dispatch"}
        /\ retry' \in 0 .. Interval /\ since' \in 0 .. Interval
        /\ UNCHANGED <<restarts, episode>>
    BY <1>9 DEF Assess
  <2>2. /\ hold' = IF released THEN "none" ELSE hold
        /\ left' = IF dropped THEN NoWork ELSE left
        /\ ttl' = IF dropped THEN 0 ELSE ttl
        /\ inflight' = IF dropped THEN [inflight EXCEPT !.current = FALSE] ELSE inflight
        /\ ~dropped => (hasPlan' <=> hasPlan) /\ (frozen' <=> frozen)
    BY <1>9 DEF Assess
  <2>3. CASE dropped
    <3>1. inflight' \in [step : {0} \cup Step, current : BOOLEAN, sent : BOOLEAN]
          /\ ~inflight'.current
      BY <2>2, <2>3
    <3> QED
      BY <2>1, <2>2, <2>3, <3>1
  <2>4. CASE ~dropped
    BY <2>1, <2>2, <2>4
  <2> QED
    BY <2>3, <2>4
<1>10. ASSUME NEW refused \in BOOLEAN, Unready(refused) PROVE PlanOK'
  BY <1>10 DEF Unready, EndTick
<1>11. ASSUME NEW refused \in BOOLEAN, HorizonExhausted(refused) PROVE PlanOK'
  BY <1>11 DEF HorizonExhausted, EndTick
<1>12. ASSUME NEW refused \in BOOLEAN, Waits(refused) PROVE PlanOK'
  BY <1>12 DEF Waits, EndTick
<1>13. ASSUME NEW refused \in BOOLEAN, HoldsForCollapse(refused) PROVE PlanOK'
  BY <1>13 DEF HoldsForCollapse, EndTick, Ready
<1>14. ASSUME NEW refused \in BOOLEAN, NEW D \in SUBSET Step, Deduplicated(D, refused) PROVE PlanOK'
  BY <1>14 DEF Deduplicated, EndTick, Ready
<1>15. ASSUME NEW refused \in BOOLEAN, NEW D \in SUBSET Step, Blocked(D, refused) PROVE PlanOK'
  BY <1>15 DEF Blocked, EndTick, Ready
<1>16. ASSUME NEW refused \in BOOLEAN, NEW i \in {0} \cup Step, NEW D \in SUBSET Step,
              Dispatched(i, D, refused)
       PROVE  PlanOK'
  BY <1>16 DEF Dispatched, EndTick, Ready, Sent, Remaining, Without
<1>17. ASSUME NEW refused \in BOOLEAN, NEW i \in {0} \cup Townhall, NEW sent \in BOOLEAN,
              Recovers(i, sent, refused)
       PROVE  PlanOK'
  BY <1>17 DEF Recovers, EndTick, Ready, Sent, Remaining, Without
<1>18. CASE Succeeds
  BY <1>18 DEF Succeeds, Counts, None
<1>19. CASE Fails
  BY <1>19 DEF Fails, None
<1>20. CASE OtherFails
  BY <1>20 DEF OtherFails
<1>21. CASE EndEpisode
  BY <1>21 DEF EndEpisode
<1>22. CASE UNCHANGED vars
  BY <1>22 DEF vars
<1>23. Dispatch => PlanOK'
  BY <1>10, <1>11, <1>12, <1>13, <1>14, <1>15, <1>16, <1>17 DEF Dispatch
<1>24. Tick => PlanOK'
  <2>1. CASE task \notin Done /\ Collect
    BY <2>1 DEF Collect, CollectFinishedMacro
  <2>2. CASE task \in Done /\ Collect
    BY <1>8, <2>2 DEF Collect
  <2> QED
    BY <1>5, <1>6, <1>7, <1>8, <1>9, <1>23, <2>1, <2>2 DEF Tick, WaitForInitialMacro
<1> QED
  BY <1>1, <1>2, <1>3, <1>4, <1>18, <1>19, <1>20, <1>21, <1>22, <1>24
     DEF Next, Request, Recovery

IInv == TypeOK /\ RequestInv /\ InFlightStepOpen /\ HoldFreezesPlan

LEMMA Parts == IInv <=> FlagsOK /\ PlanOK /\ RequestInv
BY Zenon DEF IInv, TypeOK, FlagsOK, PlanOK, ValuesOK, Bounded

LEMMA InvInit == Init => IInv
BY TypeInit, RequestInit DEF Init, IInv, InFlightStepOpen, HoldFreezesPlan, None

LEMMA InvStep == IInv /\ [Next]_vars => IInv'
<1> SUFFICES ASSUME IInv, [Next]_vars PROVE IInv'
  OBVIOUS
<1>1. FlagsOK /\ PlanOK /\ RequestInv /\ TypeOK
  BY Parts DEF IInv
<1>2. FlagsOK' /\ PlanOK' /\ RequestInv'
  BY <1>1, FlagsStep, PlanStep, RequestStep
<1> QED
  BY <1>2 DEF IInv, TypeOK, FlagsOK, PlanOK, ValuesOK, Bounded

LEMMA Invariance == Spec => []IInv
BY InvInit, InvStep, PTL DEF Spec

(* The variables keep their types: ages saturate, no plan needs more than  *)
(* its steps ask for, and the sidecar is not restarted more than           *)
(* restart_limit times.                                                    *)
THEOREM TypeCorrect == Spec => []TypeOK
BY Invariance, PTL DEF IInv

(* Ticks, new plans, collapse boundaries and holds never confirm or drop   *)
(* the step that the command in flight is for.                             *)
THEOREM StepStaysOpen == Spec => []InFlightStepOpen
BY Invariance, PTL DEF IInv

(* The release of a hold throws away the plan that the hold was placed on. *)
THEOREM HoldIsOnItsPlan == Spec => []HoldFreezesPlan
BY Invariance, PTL DEF IInv

(* Steps that neither touch the requests nor start another episode.        *)
GateStutters == UNCHANGED <<sidecarVars, task, episode>>

LEMMA GateStep ==
  ASSUME IInv, IInv', [Next]_vars
  PROVE  [Gate!GateNext]_Gate!gateVars
<1> USE DEF sidecarVars, Gate!gateVars
<1>1. /\ gpu \in {"idle", "mine", "orphan"} /\ gpu' \in {"idle", "mine", "orphan"}
      /\ task \in {"none", "running"} \cup Done
      /\ restarts \in 0 .. RestartLimit /\ restarts' \in 0 .. RestartLimit
      /\ episode \in 1 .. Episodes
      /\ suspended \in BOOLEAN /\ recovering \in BOOLEAN
  BY DEF IInv, TypeOK
<1>2. RequestInv /\ RequestInv'
  BY DEF IInv
<1>3. GateStutters => UNCHANGED Gate!gateVars
  BY DEF GateStutters, GateState
<1>4. ASSUME episode > 1, UNCHANGED episode, restarts' >= restarts
      PROVE  Gate!GateNext
  BY <1>1, <1>4 DEF GateState, Gate!GateNext, Gate!Left
<1>5. ASSUME NEW result \in {"answer", "error"}, Generate(result)
      PROVE  Gate!GateNext
  <2>1. CASE episode = 1
    <3>1. gpu # "idle" /\ gpu' = "idle" /\ UNCHANGED <<restarts, suspended, recovering, episode>>
      BY <1>2, <1>5, <2>1 DEF Generate, RequestInv
    <3>2. task' # "none" <=> task # "none"
      BY <1>2, <1>5 DEF Generate, RequestInv
    <3> QED
      BY <2>1, <3>1, <3>2 DEF GateState, Gate!GateNext, Gate!Generated
  <2> QED
    BY <1>1, <1>4, <1>5, <2>1 DEF Generate
<1>6. CASE TimeOut
  <2>1. /\ (gpu' # "idle" <=> gpu # "idle") /\ (task' # "none" <=> task # "none")
        /\ UNCHANGED <<restarts, suspended, recovering, episode>>
    BY <1>6 DEF TimeOut
  <2> QED
    BY <2>1 DEF GateState
<1>7. CASE Refuse
  BY <1>1, <1>2, <1>4, <1>7 DEF Refuse, RequestInv
<1>8. ASSUME NEW ready \in BOOLEAN, RecoverMacroSpecialist(ready)
      PROVE  Gate!GateNext
  <2>1. /\ recovering /\ suspended /\ task = "none" /\ task' = "none" /\ ~recovering'
        /\ gpu' = "idle" /\ UNCHANGED <<restarts, episode>>
    BY <1>2, <1>8 DEF RecoverMacroSpecialist, RequestInv
  <2>2. CASE episode = 1
    <3>1. GateState = "restarting" /\ GateState' \in {"ready", "suspended"}
      BY <2>1, <2>2 DEF GateState
    <3> QED
      BY <2>1, <3>1 DEF Gate!GateNext, Gate!Restarted
  <2> QED
    BY <1>1, <1>4, <2>1, <2>2
<1>9. CASE ActivateEpisode
  <2>1. episode' > 1 /\ episode' = episode + 1 /\ UNCHANGED <<gpu, restarts>>
    BY <1>1, <1>9 DEF ActivateEpisode
  <2>2. GateState' = "left" /\ (GateState = "left" <=> episode > 1)
    BY <2>1 DEF GateState
  <2> QED
    BY <1>1, <2>1, <2>2 DEF Gate!GateNext, Gate!Leave, Gate!Left
<1>10. CASE Drain
  BY <1>1, <1>2, <1>4, <1>10 DEF Drain, RequestInv
<1>11. CASE CollectFinishedMacro
  <2>1. /\ task \in Done /\ task' = "none" /\ UNCHANGED <<gpu, episode>> /\ ~suspended
    BY <1>2, <1>11 DEF CollectFinishedMacro, RequestInv, Done
  <2>2. restarts' >= restarts
    BY <1>1, <1>11 DEF CollectFinishedMacro, MacroTimedOut, MacroFailed, RejectMacroPlan, AcceptMacroPlan
  <2>3. CASE episode = 1
    <3>1. GateState = "asking"
      BY <2>1, <2>3 DEF GateState, Done
    <3>2. CASE task # "timeout"
      <4>1. gpu = "idle" /\ UNCHANGED <<recovering, suspended, restarts>>
        BY <1>1, <1>2, <1>11, <2>1, <2>3, <3>2
           DEF RequestInv, CollectFinishedMacro, MacroFailed, RejectMacroPlan, AcceptMacroPlan, Done
      <4>2. GateState' = "ready"
        BY <2>1, <2>3, <4>1 DEF GateState
      <4> QED
        BY <2>1, <3>1, <4>1, <4>2 DEF Gate!GateNext, Gate!Answered
    <3>3. CASE task = "timeout"
      <4>1. suspended' /\ ~recovering /\ (recovering' <=> Restartable)
            /\ restarts' = IF Restartable THEN restarts + 1 ELSE restarts
        BY <1>2, <1>11, <2>1, <3>3 DEF CollectFinishedMacro, MacroTimedOut, Suspends, RequestInv
      <4>2. GateState' = IF Restartable THEN "restarting" ELSE "suspended"
        BY <2>1, <2>3, <4>1 DEF GateState
      <4> QED
        BY <2>1, <3>1, <4>1, <4>2 DEF Gate!GateNext, Gate!TimedOut, Restartable
    <3> QED
      BY <3>2, <3>3
  <2> QED
    BY <1>1, <1>4, <2>1, <2>2, <2>3
<1>12. ASSUME NEW alert \in BOOLEAN, NEW c \in BOOLEAN, NEW moved \in BOOLEAN, Assess(alert, c, moved)
       PROVE  [Gate!GateNext]_Gate!gateVars
  <2>1. UNCHANGED <<recovering, suspended, restarts, episode>>
    BY <1>12 DEF Assess
  <2>2. CASE UNCHANGED <<gpu, task>>
    BY <1>3, <2>1, <2>2 DEF GateStutters
  <2>3. CASE episode = 1 /\ ~UNCHANGED <<gpu, task>>
    <3>1. task = "none" /\ ~suspended /\ task' = "running" /\ (gpu = "idle" => gpu' = "mine")
      BY <1>12, <2>3 DEF Assess, ShouldStartMacro
    <3>2. gpu = "idle"
      BY <1>1, <1>2, <2>3, <3>1 DEF RequestInv
    <3>3. GateState = "ready" /\ GateState' = "asking"
      BY <2>1, <2>3, <3>1 DEF GateState
    <3> QED
      BY <2>1, <3>1, <3>2, <3>3 DEF Gate!GateNext, Gate!Ask
  <2> QED
    BY <1>1, <1>4, <2>1, <2>2, <2>3
<1>13. GateStutters \/ ~(BeginTick \/ Dispatch \/ Succeeds \/ Fails \/ OtherFails \/ EndEpisode
                         \/ UNCHANGED vars \/ (Collect /\ task \notin Done))
  BY DEF GateStutters, Dispatch, EndTick, Unready, HorizonExhausted, Waits, Blocked, Deduplicated,
         Dispatched, Recovers, HoldsForCollapse, BeginTick, Collect, CollectFinishedMacro,
         Succeeds, Fails, OtherFails, EndEpisode, vars
<1> QED
  BY <1>3, <1>5, <1>6, <1>7, <1>8, <1>9, <1>10, <1>11, <1>12, <1>13
     DEF Next, Tick, Request, Recovery, Collect, WaitForInitialMacro

(* The macro specialist implements the request gate: however plans, holds, *)
(* reports and restarts interleave, requests are single-flight, suspended  *)
(* by a timeout and opened again only by one of a bounded number of        *)
(* restarts.                                                               *)
THEOREM Refinement == Spec => ImplementsGate
<1>1. Init => Gate!GateInit
  BY DEF Init, Gate!GateInit, GateState
<1> QED
  BY <1>1, Invariance, GateStep, PTL DEF Spec, ImplementsGate, Gate!GateSpec

(* With at most one restart, suspended requests are being recovered, or no *)
(* restart is possible any more (_schedule_macro_recovery; a restart that  *)
(* fails starts no other).                                                 *)
THEOREM SuspensionHasCause ==
  ASSUME RestartLimit <= 1
  PROVE  Spec => []SuspensionJustified
<1>1. Init => SuspensionJustified
  BY DEF Init, SuspensionJustified
<1>2. IInv /\ IInv' /\ SuspensionJustified /\ [Next]_vars => SuspensionJustified'
  <2> SUFFICES ASSUME IInv, IInv', SuspensionJustified, [Next]_vars
               PROVE  SuspensionJustified'
    OBVIOUS
  <2>1. /\ restarts \in 0 .. RestartLimit /\ restarts' \in 0 .. RestartLimit
        /\ recovering => restarts > 0
    BY DEF IInv, TypeOK, RequestInv
  <2>2. CASE UNCHANGED <<recovering, suspended, restarts>>
    BY <2>2 DEF SuspensionJustified
  <2>3. ASSUME NEW ready \in BOOLEAN, RecoverMacroSpecialist(ready)
        PROVE  SuspensionJustified'
    <3>1. recovering /\ restarts' = restarts
      BY <2>3 DEF RecoverMacroSpecialist
    <3> QED
      BY <2>1, <3>1, MacroAssumption DEF SuspensionJustified
  <2>4. CASE MacroTimedOut
    BY <2>1, <2>4, MacroAssumption
       DEF MacroTimedOut, SuspensionJustified, Suspends, Restartable
  <2>5. CASE Drain \/ ActivateEpisode
    BY <2>2, <2>5 DEF Drain, ActivateEpisode, sidecarVars
  <2>6. ASSUME CollectFinishedMacro
        PROVE  SuspensionJustified'
    BY <2>2, <2>4, <2>6
       DEF CollectFinishedMacro, MacroFailed, RejectMacroPlan, AcceptMacroPlan
  <2>7. ASSUME NEW alert \in BOOLEAN, NEW c \in BOOLEAN, NEW moved \in BOOLEAN, Assess(alert, c, moved)
        PROVE  SuspensionJustified'
    BY <2>2, <2>7 DEF Assess
  <2>8. CASE Request
    BY <2>2, <2>8 DEF Request, Generate, TimeOut, Refuse, sidecarVars
  <2>9. \/ UNCHANGED <<recovering, suspended, restarts>>
        \/ ~(BeginTick \/ Dispatch \/ Succeeds \/ Fails \/ OtherFails \/ EndEpisode
             \/ UNCHANGED vars \/ (Collect /\ task \notin Done))
    BY DEF Dispatch, EndTick, Unready, HorizonExhausted, Waits, Blocked, Deduplicated,
           Dispatched, Recovers, HoldsForCollapse, BeginTick, Collect, CollectFinishedMacro,
           Succeeds, Fails, OtherFails, EndEpisode, vars, sidecarVars
  <2> QED
    BY <2>2, <2>3, <2>5, <2>6, <2>7, <2>8, <2>9
       DEF Next, Tick, Recovery, Collect, WaitForInitialMacro
<1> QED
  BY <1>1, <1>2, Invariance, PTL DEF Spec
=============================================================================
