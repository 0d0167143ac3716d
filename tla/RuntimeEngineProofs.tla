------------------------- MODULE RuntimeEngineProofs -------------------------
(***************************************************************************)
(* Proofs about RuntimeEngine, for every set of commands, actors and       *)
(* reports and every configuration the assumptions admit.                  *)
(*                                                                         *)
(* The invariant Inv is inductive as it stands.  Its proof goes handler by *)
(* handler; what the two handlers with the most control do to one command  *)
(* is stated in a lemma of its own (AcceptStep, DispatchStep), and the     *)
(* refinement of CommandLifecycle uses the same lemmas.                    *)
(***************************************************************************)
EXTENDS RuntimeEngine, FiniteSetTheorems, TLAPS

(* A listing of a set of commands enumerates it.                           *)
LEMMA ListingType ==
  ASSUME NEW S \in SUBSET Command
  PROVE  /\ Cardinality(S) \in Nat
         /\ Listing(S) \in [1 .. Cardinality(S) -> S]
<1>1. IsFiniteSet(Command)
  BY CommandAssumption, FS_Union DEF Command
<1>2. IsFiniteSet(S)
  BY <1>1, FS_Subset
<1>3. Cardinality(S) \in Nat /\ ExistsBijection(1 .. Cardinality(S), S)
  BY <1>2, FS_CardinalityType
<1>4. PICK f \in Bijection(1 .. Cardinality(S), S) : TRUE
  BY <1>3 DEF ExistsBijection
<1>5. /\ f \in [1 .. Cardinality(S) -> S]
      /\ \A x \in S : \E i \in DOMAIN f : f[i] = x
  BY <1>4 DEF Bijection, Injection, Surjection
<1> QED
  BY <1>3, <1>5 DEF Listing

(* The lifecycle events of a set of commands are a sequence of events.     *)
LEMMA MovedType ==
  ASSUME NEW S \in SUBSET Command, NEW s \in Status
  PROVE  Moved(S, s) \in Seq(Event)
<1>1. Cardinality(S) \in Nat /\ Listing(S) \in [1 .. Cardinality(S) -> S]
  BY ListingType
<1>2. \A i \in 1 .. Cardinality(S) : LifecycleEvent(Listing(S)[i], s) \in Event
  BY <1>1 DEF LifecycleEvent, Event
<1> QED
  BY <1>1, <1>2 DEF Moved

(* The events of the synthetic reports of end_episode are a sequence of    *)
(* events.                                                                 *)
LEMMA CancelledType ==
  ASSUME NEW S \in SUBSET Command
  PROVE  Cancelled(S) \in Seq(Event)
<1>1. Cardinality(S) \in Nat /\ Listing(S) \in [1 .. Cardinality(S) -> S]
  BY ListingType
<1> DEFINE n == Cardinality(S)
           e(i) == LET c == Listing(S)[(i + 1) \div 2]
                   IN  IF i % 2 = 1 THEN ExecutionEvent(c, Missing)
                                    ELSE LifecycleEvent(c, "cancelled")
<1>2. ASSUME NEW i \in 1 .. 2 * n
      PROVE  e(i) \in Event
  <2>1. (i + 1) \div 2 \in 1 .. n
    BY <1>1
  <2>2. Listing(S)[(i + 1) \div 2] \in Command
    BY <1>1, <2>1
  <2>3. "cancelled" \in Status
    BY DEF Status, Reported
  <2> QED
    BY <2>2, <2>3, ContentAssumption DEF ExecutionEvent, LifecycleEvent, Event
<1>3. 2 * n \in Nat
  BY <1>1
<1> HIDE DEF n
<1>4. [i \in 1 .. 2 * n |-> e(i)] \in Seq(Event)
  BY <1>2, <1>3
<1> QED
  BY <1>4 DEF Cancelled, n

(* Put moves the commands of S to s and leaves the others alone.           *)
LEMMA PutIsUpdate ==
  ASSUME NEW st \in [Command -> Status], NEW S, NEW s \in Status
  PROVE  /\ Put(st, S, s) \in [Command -> Status]
         /\ \A c \in Command : Put(st, S, s)[c] = IF c \in S THEN s ELSE st[c]
BY DEF Put
-----------------------------------------------------------------------------
(* What accepting a plan does to each command: it is untouched, or it was  *)
(* waiting and is superseded, or it is new and pending; and the planner    *)
(* commands that wait afterwards are in the new plan.                      *)
LEMMA AcceptStep ==
  ASSUME TypeOK, NEW P \in SUBSET Planner, AcceptPlan(P)
  PROVE  /\ status' \in [Command -> Status]
         /\ age' \in [Command -> 0..TTL]
         /\ hasPlan' = TRUE /\ plan' \in SUBSET Planner /\ exhausted' = FALSE
         /\ emitted' \in Seq(Event)
         /\ \A c \in Command :
              \/ status'[c] = status[c]
              \/ status[c] \in Actionable /\ status'[c] = "superseded"
              \/ status[c] = "none" /\ status'[c] = "pending"
         /\ \A c \in Planner : status'[c] \in Actionable => c \in plan'
<1>1. PICK R \in SUBSET LivePlanner(status), N \in SUBSET P :
        /\ Accepted(P, R, N)
        /\ status' = Put(Put(status, Outdated(R), "superseded"), N, "pending")
        /\ age' = [c \in Command |-> IF c \in N THEN 0 ELSE age[c]]
        /\ plan' = R \cup N
        /\ emitted' = Moved(Outdated(R), "superseded") \o <<PlanEvent(R \cup N)>>
                        \o Moved(N, "pending")
  BY DEF AcceptPlan
<1>2. /\ R \subseteq Planner /\ N \subseteq Planner
      /\ Planner \subseteq Command
      /\ Outdated(R) \subseteq Command
  BY <1>1 DEF LivePlanner, Outdated, Command
<1>3. /\ status \in [Command -> Status]
      /\ age \in [Command -> 0..TTL]
  BY DEF TypeOK
<1>4. "superseded" \in Status /\ "pending" \in Status
  BY DEF Status, Live, Actionable, Dropped
<1>5. /\ Put(status, Outdated(R), "superseded") \in [Command -> Status]
      /\ \A c \in Command : Put(status, Outdated(R), "superseded")[c]
                              = IF c \in Outdated(R) THEN "superseded" ELSE status[c]
  BY <1>3, <1>4, PutIsUpdate
<1>6. /\ status' \in [Command -> Status]
      /\ \A c \in Command : status'[c] =
           IF c \in N THEN "pending"
           ELSE IF c \in Outdated(R) THEN "superseded" ELSE status[c]
  BY <1>1, <1>4, <1>5, PutIsUpdate
<1>7. \A c \in N : status[c] = "none"
  BY <1>1 DEF AcceptPlan, Unused
<1>8. emitted' \in Seq(Event)
  <2>1. /\ Moved(Outdated(R), "superseded") \in Seq(Event)
        /\ Moved(N, "pending") \in Seq(Event)
    BY <1>2, <1>4, MovedType
  <2>2. <<PlanEvent(R \cup N)>> \in Seq(Event)
    BY <1>2 DEF PlanEvent, Event
  <2> QED
    BY <1>1, <2>1, <2>2
<1>9. age' \in [Command -> 0..TTL]
  BY <1>1, <1>3, ConfigAssumption
<1>10. \A c \in Command :
         \/ status'[c] = status[c]
         \/ status[c] \in Actionable /\ status'[c] = "superseded"
         \/ status[c] = "none" /\ status'[c] = "pending"
  BY <1>6, <1>7 DEF Outdated
<1>11. \A c \in Planner : status'[c] \in Actionable => c \in plan'
  <2> SUFFICES ASSUME NEW c \in Planner, status'[c] \in Actionable, c \notin N
               PROVE  c \in R
    BY <1>1
  <2> QED
    BY <1>2, <1>6 DEF Outdated, Actionable
<1> QED
  BY <1>1, <1>2, <1>6, <1>8, <1>9, <1>10, <1>11 DEF AcceptPlan

(* What the rest of the tick does to each command: the dispatched ones     *)
(* were waiting or new and their actors are free and different; the others *)
(* are untouched, or were waiting or new and are not in flight.            *)
LEMMA DispatchStep ==
  ASSUME TypeOK,
         NEW R \in SUBSET {c \in Reflex : status[c] = "none"},
         NEW V \in [PlanFrontier(status, plan) \cup R -> Verdict],
         NEW W \in SUBSET Judged(V, "accept"), NEW B \in SUBSET W, NEW snap \in BOOLEAN,
         SelectAndDispatch(V, W, B, snap)
  PROVE  /\ status' \in [Command -> Status]
         /\ urgent' \in BOOLEAN /\ exhausted' \in BOOLEAN
         /\ emitted' \in Seq(Event)
         /\ B \subseteq Command
         /\ \A c \in B : /\ status[c] \in {"none"} \cup Actionable
                         /\ status'[c] = "dispatched"
                         /\ ActorOf[c] \notin Busy
         /\ \A b, c \in B : ActorOf[b] = ActorOf[c] => b = c
         /\ \A c \in Command \ B :
              \/ status'[c] = status[c]
              \/ /\ status[c] \in {"none"} \cup Actionable
                 /\ status'[c] \in Actionable \cup {"rejected", "obsolete"}
         /\ \A c \in Planner : status[c] = "none" => status'[c] = "none"
<1> DEFINE unguard  == DOMAIN V \ Judged(V, "guard")
           blocked  == {c \in unguard : ActorOf[c] \in Busy}
           waiting  == blocked \cap Planner
           open     == unguard \ blocked
           valid    == open \cap Judged(V, "accept")
           deferred == open \cap Judged(V, "defer")
           rejected == open \cap Judged(V, "reject")
           obsolete == open \cap Judged(V, "obsolete")
           revived  == {c \in valid \cap Planner : status[c] = "deferred"}
           excess   == W \ B
           st0 == Put(status, Judged(V, "guard"), "rejected")
           st1 == Put(st0, waiting, "deferred")
           sta == Put(st1, deferred, "deferred")
           stb == Put(sta, rejected, "rejected")
           st2 == Put(stb, obsolete, "obsolete")
           st3 == Put(st2, revived, "pending")
           stc == Put(st3, excess, "deferred")
           st4 == Put(stc, B, "dispatched")
<1> HIDE DEF st0, st1, sta, stb, st2, st3, stc, st4
<1>1. /\ DOMAIN V \subseteq Command
      /\ Judged(V, "guard") \subseteq DOMAIN V
      /\ \A c \in DOMAIN V : status[c] \in {"none"} \cup Actionable
      /\ \A c \in DOMAIN V \cap Planner : status[c] \in Actionable
  <2>1. PlanFrontier(status, plan) \subseteq Planner
    BY DEF PlanFrontier, TypeOK
  <2>2. Planner \cap Reflex = {}
    BY CommandAssumption
  <2> QED
    BY <2>1, <2>2 DEF Command, PlanFrontier, Judged
<1>2. /\ {"rejected", "deferred", "obsolete", "pending", "dispatched"} \subseteq Status
      /\ status \in [Command -> Status]
  BY DEF Status, Live, Actionable, Dropped, TypeOK
<1>3. /\ W \subseteq valid
      /\ \A c, d \in W : ActorOf[c] = ActorOf[d] => c = d
  BY DEF SelectAndDispatch, Winners
<1>4. status' = st4
  BY DEF SelectAndDispatch, st0, st1, sta, stb, st2, st3, stc, st4
<1>5. /\ st0 \in [Command -> Status]
      /\ \A c \in Command : st0[c] = IF c \in Judged(V, "guard") THEN "rejected" ELSE status[c]
  BY <1>2, PutIsUpdate DEF st0
<1>6. /\ st1 \in [Command -> Status]
      /\ \A c \in Command : st1[c] = IF c \in waiting THEN "deferred" ELSE st0[c]
  BY <1>2, <1>5, PutIsUpdate DEF st1
<1>7. /\ sta \in [Command -> Status]
      /\ \A c \in Command : sta[c] = IF c \in deferred THEN "deferred" ELSE st1[c]
  BY <1>2, <1>6, PutIsUpdate DEF sta
<1>8. /\ stb \in [Command -> Status]
      /\ \A c \in Command : stb[c] = IF c \in rejected THEN "rejected" ELSE sta[c]
  BY <1>2, <1>7, PutIsUpdate DEF stb
<1>9. /\ st2 \in [Command -> Status]
      /\ \A c \in Command : st2[c] = IF c \in obsolete THEN "obsolete" ELSE stb[c]
  BY <1>2, <1>8, PutIsUpdate DEF st2
<1>10. /\ st3 \in [Command -> Status]
       /\ \A c \in Command : st3[c] = IF c \in revived THEN "pending" ELSE st2[c]
  BY <1>2, <1>9, PutIsUpdate DEF st3
<1>11. /\ stc \in [Command -> Status]
       /\ \A c \in Command : stc[c] = IF c \in excess THEN "deferred" ELSE st3[c]
  BY <1>2, <1>10, PutIsUpdate DEF stc
<1>12. /\ st4 \in [Command -> Status]
       /\ \A c \in Command : st4[c] = IF c \in B THEN "dispatched" ELSE stc[c]
  BY <1>2, <1>11, PutIsUpdate DEF st4
<1>13. \A c \in Command \ DOMAIN V : status'[c] = status[c]
  BY <1>1, <1>3, <1>4, <1>5, <1>6, <1>7, <1>8, <1>9, <1>10, <1>11, <1>12
<1>14. \A c \in Command \ B :
         \/ status'[c] = status[c]
         \/ status'[c] \in Actionable \cup {"rejected", "obsolete"}
  BY <1>4, <1>5, <1>6, <1>7, <1>8, <1>9, <1>10, <1>11, <1>12 DEF Actionable
<1>15. B \subseteq open /\ open \subseteq DOMAIN V
  BY <1>3
<1>16. \A c \in B : ActorOf[c] \notin Busy
  BY <1>15
<1>17. emitted' \in Seq(Event)
  <2>1. /\ Moved(Judged(V, "guard"), "rejected") \in Seq(Event)
        /\ Moved({c \in waiting : status[c] # "deferred"}, "deferred") \in Seq(Event)
        /\ Moved({c \in deferred : status[c] # "deferred"}, "deferred") \in Seq(Event)
        /\ Moved(rejected, "rejected") \in Seq(Event)
        /\ Moved(obsolete, "obsolete") \in Seq(Event)
        /\ Moved(revived, "pending") \in Seq(Event)
        /\ Moved(excess, "deferred") \in Seq(Event)
        /\ Moved(B, "dispatched") \in Seq(Event)
    BY <1>1, <1>2, <1>3, MovedType
  <2>2. PICK ur \in BOOLEAN :
          emitted' = Moved(Judged(V, "guard"), "rejected")
             \o Moved({c \in waiting : status[c] # "deferred"}, "deferred")
             \o Moved({c \in deferred : status[c] # "deferred"}, "deferred")
             \o Moved(rejected, "rejected") \o Moved(obsolete, "obsolete")
             \o Moved(revived, "pending")
             \o Moved(excess, "deferred") \o Moved(B, "dispatched")
             \o IF snap THEN <<Snapshot(st4, report, hasPlan, plan, ur, ended)>>
                        ELSE <<>>
    BY DEF SelectAndDispatch, st4, stc, st3, st2, stb, sta, st1, st0
  <2>3. Snapshot(st4, report, hasPlan, plan, ur, ended) \in Event
    BY <1>12 DEF Snapshot, Event, TypeOK
  <2>4. (IF snap THEN <<Snapshot(st4, report, hasPlan, plan, ur, ended)>>
                 ELSE <<>>) \in Seq(Event)
    BY <2>3
  <2> HIDE DEF unguard, blocked, waiting, open, valid, deferred, rejected,
               obsolete, revived, excess
  <2> QED
    BY <2>1, <2>2, <2>4
<1>18. urgent' \in BOOLEAN /\ exhausted' \in BOOLEAN
  BY DEF SelectAndDispatch, TypeOK
<1>19. \A c \in Planner : status[c] = "none" => status'[c] = "none"
  BY <1>1, <1>13 DEF Command, Actionable
<1>20. \A c \in B : /\ status[c] \in {"none"} \cup Actionable
                    /\ status'[c] = "dispatched"
  BY <1>1, <1>4, <1>12, <1>15
<1>21. \A c \in Command \ B :
         \/ status'[c] = status[c]
         \/ /\ status[c] \in {"none"} \cup Actionable
            /\ status'[c] \in Actionable \cup {"rejected", "obsolete"}
  BY <1>1, <1>13, <1>14
<1>22. B \subseteq Command /\ status' \in [Command -> Status]
  BY <1>1, <1>4, <1>12, <1>15
<1>23. \A b, c \in B : ActorOf[b] = ActorOf[c] => b = c
  BY <1>3
<1> HIDE DEF open
<1> QED
  BY <1>16, <1>17, <1>18, <1>19, <1>20, <1>21, <1>22, <1>23
-----------------------------------------------------------------------------
(* Every handler preserves the types.                                      *)
LEMMA TypeStep == TypeOK /\ [Next]_vars => TypeOK'
<1> SUFFICES ASSUME TypeOK, [Next]_vars PROVE TypeOK'
  OBVIOUS
<1>0. /\ status \in [Command -> Status]
      /\ age \in [Command -> 0..TTL] /\ since \in 0..Interval
      /\ report \in [Command -> Report \cup {NoReport}]
  BY DEF TypeOK
<1>1. CASE UNCHANGED vars
  BY <1>1 DEF vars, TypeOK
<1>2. ASSUME NEW d \in Lapses, BeginTick(d)
      PROVE  TypeOK'
  <2>1. \A n, cap \in Nat : Capped(n, cap) \in 0..cap
    BY DEF Capped
  <2>2. age' \in [Command -> 0..TTL] /\ since' \in 0..Interval
    <3>1. d \in Nat /\ TTL \in Nat /\ Interval \in Nat
      BY ConfigAssumption
    <3>2. \A c \in Command : age[c] + d \in Nat
      BY <1>0, <3>1
    <3>3. since + d \in Nat
      BY <1>0, <3>1
    <3>4. \A c \in Command : Capped(age[c] + d, TTL) \in 0..TTL
      BY <2>1, <3>1, <3>2
    <3>5. Capped(since + d, Interval) \in 0..Interval
      BY <2>1, <3>1, <3>3
    <3>6. age' = [c \in Command |-> IF status[c] = "none" THEN 0
                                    ELSE Capped(age[c] + d, TTL)]
      BY <1>2 DEF BeginTick
    <3>7. 0 \in 0..TTL
      BY <3>1
    <3>8. since' \in 0..Interval
      BY <1>2, <3>5 DEF BeginTick
    <3> QED
      BY <3>4, <3>6, <3>7, <3>8
  <2> QED
    BY <1>2, <2>2 DEF BeginTick, TypeOK
<1>3. CASE CollectFinishedPlanner
  <2>1. ASSUME NEW P \in SUBSET Planner, AcceptPlan(P), planner' = "idle"
        PROVE  TypeOK'
    BY <1>3, <2>1, AcceptStep DEF CollectFinishedPlanner, TypeOK
  <2>2. ASSUME RefusePlan, planner' \in {planner, "idle"}
        PROVE  TypeOK'
    BY <1>3, <2>2 DEF CollectFinishedPlanner, RefusePlan, TypeOK
  <2> QED
    BY <1>3, <2>1, <2>2 DEF CollectFinishedPlanner
<1>4. ASSUME NEW alert \in BOOLEAN, ExpireAndPlan(alert)
      PROVE  TypeOK'
  <2>1. Stale \in SUBSET Command /\ "expired" \in Status
    BY DEF Stale, PlanFrontier, Command, Status, Dropped, TypeOK
  <2>2. Moved(Stale, "expired") \in Seq(Event)
    BY <2>1, MovedType
  <2>3. Put(status, Stale, "expired") \in [Command -> Status]
    BY <1>0, <2>1, PutIsUpdate
  <2>4. since' \in 0..Interval
    BY <1>0, <1>4, ConfigAssumption DEF ExpireAndPlan
  <2>5. urgent' \in BOOLEAN
    BY <1>4 DEF ExpireAndPlan
  <2> QED
    BY <1>4, <2>2, <2>3, <2>4, <2>5 DEF ExpireAndPlan, TypeOK
<1>5. CASE FinishPlanner
  BY <1>5 DEF FinishPlanner, TypeOK
<1>6. CASE ResumeAwaitedTick
  <2>1. ASSUME NEW P \in SUBSET Planner, AcceptPlan(P)
        PROVE  TypeOK'
    <3>1. phase' \in {"select", "idle"}
      BY <1>6 DEF ResumeAwaitedTick
    <3> QED
      BY <1>6, <2>1, <3>1, AcceptStep DEF ResumeAwaitedTick, TypeOK
  <2>2. ASSUME RefusePlan
        PROVE  TypeOK'
    <3>1. phase' \in {"select", "idle"}
      BY <1>6 DEF ResumeAwaitedTick
    <3> QED
      BY <1>6, <2>2, <3>1 DEF ResumeAwaitedTick, RefusePlan, TypeOK
  <2> QED
    BY <1>6, <2>1, <2>2 DEF ResumeAwaitedTick
<1>7. ASSUME NEW R \in SUBSET {c \in Reflex : status[c] = "none"},
             NEW V \in [PlanFrontier(status, plan) \cup R -> Verdict],
             NEW W \in SUBSET Judged(V, "accept"), NEW B \in SUBSET W, NEW snap \in BOOLEAN,
             SelectAndDispatch(V, W, B, snap)
      PROVE  TypeOK'
  <2>1. /\ status' \in [Command -> Status]
        /\ urgent' \in BOOLEAN /\ exhausted' \in BOOLEAN
        /\ emitted' \in Seq(Event)
    BY <1>7, DispatchStep
  <2>2. /\ delivered' = [c \in Command |-> delivered[c] + IF c \in B THEN 1 ELSE 0]
        /\ phase' = "idle"
        /\ UNCHANGED <<report, hasPlan, plan, age, since, planner, ended>>
    BY <1>7 DEF SelectAndDispatch
  <2> QED
    BY <2>1, <2>2 DEF TypeOK
<1>8. ASSUME NEW c \in Command, NEW r \in Report, RecordExecution(c, r)
      PROVE  TypeOK'
  <2>1. OutcomeOf[r] \in Status
    BY ContentAssumption DEF Status
  <2>2. <<ExecutionEvent(c, r), LifecycleEvent(c, OutcomeOf[r])>> \in Seq(Event)
    BY <2>1 DEF ExecutionEvent, LifecycleEvent, Event
  <2> QED
    BY <1>8, <2>1, <2>2 DEF RecordExecution, AwaitsReport, TypeOK
<1>9. ASSUME NEW x \in Result, EndEpisode(x)
      PROVE  TypeOK'
  <2> DEFINE st == Put(status, Active, "cancelled")
             rp == [c \in Command |-> IF c \in Active THEN Missing ELSE report[c]]
             ur == urgent \/ Active # {}
  <2>1. Active \in SUBSET Command /\ "cancelled" \in Status
    BY DEF Active, Status, Reported
  <2>2. st \in [Command -> Status]
    BY <1>0, <2>1, PutIsUpdate
  <2>3. rp \in [Command -> Report \cup {NoReport}]
    BY <1>0, ContentAssumption
  <2> HIDE DEF st, rp
  <2>4. Snapshot(st, rp, hasPlan, plan, ur, x) \in Event /\ ResultEvent(x) \in Event
    BY <2>2, <2>3 DEF Snapshot, ResultEvent, Event, TypeOK
  <2>5. Cancelled(Active) \in Seq(Event)
    BY <2>1, CancelledType
  <2>6. /\ status' = st /\ report' = rp /\ urgent' = ur /\ ended' = x
        /\ emitted' = Cancelled(Active)
                        \o <<ResultEvent(x), Snapshot(st, rp, hasPlan, plan, ur, x)>>
        /\ UNCHANGED <<delivered, hasPlan, plan, age, since, planner, exhausted, phase>>
    BY <1>9 DEF EndEpisode, st, rp
  <2>7. emitted' \in Seq(Event)
    BY <2>4, <2>5, <2>6
  <2> QED
    BY <2>2, <2>3, <2>6, <2>7 DEF TypeOK
<1> QED
  BY <1>1, <1>2, <1>3, <1>4, <1>5, <1>6, <1>7, <1>8, <1>9 DEF Next, Tick, Select

LEMMA TypeInit == Init => TypeOK
<1> SUFFICES ASSUME Init PROVE TypeOK
  OBVIOUS
<1>1. "none" \in Status
  BY DEF Status
<1>2. 0 \in 0..TTL /\ Interval \in 0..Interval
  BY ConfigAssumption
<1>3. emitted \in Seq(Event)
  BY DEF Init
<1> QED
  BY <1>1, <1>2, <1>3 DEF Init, TypeOK

(* Type correctness of the engine's state, with every event it appends.    *)
THEOREM TypeCorrect == Spec => []TypeOK
BY TypeInit, TypeStep, PTL DEF Spec
-----------------------------------------------------------------------------
(* The safety of one command's life, as one inductive invariant.           *)
Inv == /\ TypeOK
       /\ OneInFlight
       /\ ReportClosesCommand
       /\ DeliveredOnce
       /\ NoOrphanedPlanCommand

(* A step that hands nothing to the worker and moves commands only among   *)
(* the statuses before dispatch keeps the invariant.                       *)
LEMMA QuietStep ==
  ASSUME Inv, TypeOK',
         UNCHANGED <<report, delivered>>,
         \A c \in Command :
           \/ status'[c] = status[c]
           \/ /\ status[c] \in {"none"} \cup Actionable
              /\ status'[c] \in Actionable \cup Dropped,
         \A c \in Planner : status'[c] \in Actionable => hasPlan' /\ c \in plan'
  PROVE  Inv'
<1>1. \A c \in Command : status[c] \in Status
  BY DEF Inv, TypeOK
<1>2. \A c \in Command : status'[c] = "dispatched" => status[c] = "dispatched"
  BY DEF Actionable, Dropped
<1>3. OneInFlight'
  BY <1>2 DEF Inv, OneInFlight, CL!OneInFlight
<1>4. ReportClosesCommand'
  <2>1. \A c \in Command : status[c] \in {"none"} \cup Actionable => report[c] = NoReport
    BY ContentAssumption
       DEF Inv, ReportClosesCommand, TypeOK, Reported, Actionable
  <2>2. \A c \in Command :
          \/ status'[c] = status[c]
          \/ report[c] = NoReport /\ status'[c] \notin Reported
    BY <2>1 DEF Reported, Actionable, Dropped
  <2> QED
    BY <2>2 DEF Inv, ReportClosesCommand
<1>5. DeliveredOnce'
  BY <1>1 DEF Inv, DeliveredOnce, Actionable, Dropped, Reported
<1>6. NoOrphanedPlanCommand'
  BY DEF NoOrphanedPlanCommand
<1> QED
  BY <1>3, <1>4, <1>5, <1>6 DEF Inv

LEMMA InvInit == Init => Inv
<1> SUFFICES ASSUME Init PROVE Inv
  OBVIOUS
<1>1. TypeOK
  BY TypeInit
<1>2. \A c \in Command : /\ status[c] = "none" /\ report[c] = NoReport
                         /\ delivered[c] = 0
  BY DEF Init
<1>3. OneInFlight
  BY <1>2 DEF OneInFlight, CL!OneInFlight
<1>4. ReportClosesCommand /\ DeliveredOnce
  BY <1>2 DEF ReportClosesCommand, DeliveredOnce, Reported, Dropped, Actionable
<1>5. NoOrphanedPlanCommand
  BY <1>2 DEF NoOrphanedPlanCommand, Actionable, Command
<1> QED
  BY <1>1, <1>3, <1>4, <1>5 DEF Inv

LEMMA InvStep == Inv /\ [Next]_vars => Inv'
<1> SUFFICES ASSUME Inv, [Next]_vars PROVE Inv'
  OBVIOUS
<1>1. TypeOK /\ TypeOK'
  BY TypeStep DEF Inv
<1>2. Planner \subseteq Command /\ plan \subseteq Command
  BY <1>1 DEF Command, TypeOK
<1>3. \A c \in Planner : status[c] \in Actionable => hasPlan /\ c \in plan
  BY DEF Inv, NoOrphanedPlanCommand
<1>4. ASSUME UNCHANGED <<status, report, delivered, hasPlan, plan>>
      PROVE  Inv'
  BY <1>1, <1>3, <1>4, QuietStep
<1>5. ASSUME NEW P \in SUBSET Planner, AcceptPlan(P), UNCHANGED <<report, delivered>>
      PROVE  Inv'
  <2>1. \A c \in Command :
          \/ status'[c] = status[c]
          \/ /\ status[c] \in {"none"} \cup Actionable
             /\ status'[c] \in Actionable \cup Dropped
    BY <1>1, <1>5, AcceptStep DEF Actionable, Dropped
  <2>2. \A c \in Planner : status'[c] \in Actionable => hasPlan' /\ c \in plan'
    BY <1>1, <1>5, AcceptStep
  <2> QED
    BY <1>1, <1>5, <2>1, <2>2, QuietStep
<1>6. CASE UNCHANGED vars
  BY <1>4, <1>6 DEF vars
<1>7. ASSUME NEW d \in Lapses, BeginTick(d)
      PROVE  Inv'
  BY <1>4, <1>7 DEF BeginTick
<1>8. CASE CollectFinishedPlanner
  BY <1>4, <1>5, <1>8 DEF CollectFinishedPlanner, RefusePlan
<1>9. ASSUME NEW alert \in BOOLEAN, ExpireAndPlan(alert)
      PROVE  Inv'
  <2>1. Stale \subseteq Command /\ \A c \in Stale : status[c] \in Actionable
    BY <1>2 DEF Stale, PlanFrontier
  <2>2. \A c \in Command : status'[c] = IF c \in Stale THEN "expired" ELSE status[c]
    BY <1>9 DEF ExpireAndPlan, Put
  <2>3. \A c \in Command :
          \/ status'[c] = status[c]
          \/ /\ status[c] \in {"none"} \cup Actionable
             /\ status'[c] \in Actionable \cup Dropped
    BY <2>1, <2>2 DEF Dropped
  <2>4. UNCHANGED <<report, delivered, hasPlan, plan>>
    BY <1>9 DEF ExpireAndPlan
  <2>5. \A c \in Planner : status'[c] \in Actionable => hasPlan' /\ c \in plan'
    BY <1>2, <1>3, <2>2, <2>4 DEF Actionable
  <2> QED
    BY <1>1, <2>3, <2>4, <2>5, QuietStep
<1>10. CASE FinishPlanner
  BY <1>4, <1>10 DEF FinishPlanner
<1>11. CASE ResumeAwaitedTick
  BY <1>4, <1>5, <1>11 DEF ResumeAwaitedTick, RefusePlan
<1>12. ASSUME NEW R \in SUBSET {c \in Reflex : status[c] = "none"},
              NEW V \in [PlanFrontier(status, plan) \cup R -> Verdict],
              NEW W \in SUBSET Judged(V, "accept"), NEW B \in SUBSET W, NEW snap \in BOOLEAN,
              SelectAndDispatch(V, W, B, snap)
       PROVE  Inv'
  <2>1. /\ status' \in [Command -> Status]
        /\ urgent' \in BOOLEAN /\ exhausted' \in BOOLEAN
        /\ emitted' \in Seq(Event)
        /\ B \subseteq Command
        /\ \A c \in B : /\ status[c] \in {"none"} \cup Actionable
                        /\ status'[c] = "dispatched"
                        /\ ActorOf[c] \notin Busy
        /\ \A b, c \in B : ActorOf[b] = ActorOf[c] => b = c
        /\ \A c \in Command \ B :
             \/ status'[c] = status[c]
             \/ /\ status[c] \in {"none"} \cup Actionable
                /\ status'[c] \in Actionable \cup {"rejected", "obsolete"}
        /\ \A c \in Planner : status[c] = "none" => status'[c] = "none"
    BY <1>1, <1>12, DispatchStep
  <2>2. /\ delivered' = [c \in Command |-> delivered[c] + IF c \in B THEN 1 ELSE 0]
        /\ UNCHANGED <<report, hasPlan, plan>>
    BY <1>12 DEF SelectAndDispatch
  <2>3. \A c \in Command : /\ delivered[c] \in Nat
                           /\ c \in B => delivered'[c] = delivered[c] + 1
                           /\ c \notin B => delivered'[c] = delivered[c]
    BY <1>1, <2>2 DEF TypeOK
  <2>4. OneInFlight'
    <3>1. SUFFICES ASSUME NEW c \in Command, NEW d \in Command,
                          status'[c] = "dispatched", status'[d] = "dispatched",
                          ActorOf[c] = ActorOf[d]
                   PROVE  c = d
      BY DEF OneInFlight, CL!OneInFlight
    <3>2. \A b \in Command \ B : status'[b] = "dispatched" =>
            status[b] = "dispatched" /\ ActorOf[b] \in Busy
      BY <2>1 DEF Actionable, Busy, InFlight
    <3>3. CASE c \in B /\ d \in B
      BY <2>1, <3>1, <3>3
    <3>4. CASE c \notin B /\ d \notin B
      BY <3>1, <3>2, <3>4 DEF Inv, OneInFlight, CL!OneInFlight
    <3> QED
      BY <2>1, <3>1, <3>2, <3>3, <3>4
  <2>5. ReportClosesCommand'
    <3>1. \A c \in Command : status[c] \in {"none"} \cup Actionable =>
            report[c] = NoReport
      BY <1>1, ContentAssumption
         DEF Inv, ReportClosesCommand, TypeOK, Reported, Actionable
    <3>2. \A c \in Command :
            \/ status'[c] = status[c]
            \/ report[c] = NoReport /\ status'[c] \notin Reported
      BY <2>1, <3>1 DEF Reported, Actionable
    <3> QED
      BY <2>2, <3>2 DEF Inv, ReportClosesCommand
  <2>6. DeliveredOnce'
    <3>1. \A c \in B : delivered[c] = 0
      BY <2>1 DEF Inv, DeliveredOnce
    <3>2. \A c \in B : delivered'[c] = 1 /\ status'[c] = "dispatched"
      BY <2>1, <2>3, <3>1
    <3>3. \A c \in Command \ B :
            \/ status'[c] = status[c] /\ delivered'[c] = delivered[c]
            \/ /\ delivered'[c] = 0
               /\ status'[c] \in Actionable \cup Dropped
      BY <2>1, <2>3 DEF Inv, DeliveredOnce, Dropped
    <3> QED
      BY <3>2, <3>3 DEF Inv, DeliveredOnce, Actionable, Dropped, Reported
  <2>7. NoOrphanedPlanCommand'
    BY <1>2, <1>3, <2>1, <2>2 DEF NoOrphanedPlanCommand, Actionable
  <2> QED
    BY <1>1, <2>4, <2>5, <2>6, <2>7 DEF Inv
<1>13. ASSUME NEW c \in Command, NEW r \in Report, RecordExecution(c, r)
       PROVE  Inv'
  <2>1. /\ status[c] = "dispatched"
        /\ status' = [status EXCEPT ![c] = OutcomeOf[r]]
        /\ report' = [report EXCEPT ![c] = r]
        /\ UNCHANGED <<delivered, hasPlan, plan>>
    BY <1>13 DEF RecordExecution, AwaitsReport
  <2>2. OutcomeOf[r] \in Reported /\ r # NoReport
    BY ContentAssumption
  <2>3. /\ status'[c] = OutcomeOf[r] /\ report'[c] = r
        /\ \A d \in Command \ {c} : status'[d] = status[d] /\ report'[d] = report[d]
    BY <1>1, <2>1 DEF TypeOK
  <2>4. OneInFlight'
    BY <2>2, <2>3 DEF Inv, OneInFlight, CL!OneInFlight, Reported
  <2>5. ReportClosesCommand'
    BY <2>2, <2>3 DEF Inv, ReportClosesCommand
  <2>6. DeliveredOnce'
    BY <2>1, <2>2, <2>3 DEF Inv, DeliveredOnce, Reported, Actionable, Dropped
  <2>7. NoOrphanedPlanCommand'
    BY <1>2, <2>1, <2>2, <2>3
       DEF Inv, NoOrphanedPlanCommand, Reported, Actionable
  <2> QED
    BY <1>1, <2>4, <2>5, <2>6, <2>7 DEF Inv
<1>14. ASSUME NEW x \in Result, EndEpisode(x)
       PROVE  Inv'
  <2>1. /\ status' = Put(status, Active, "cancelled")
        /\ report' = [c \in Command |-> IF c \in Active THEN Missing ELSE report[c]]
        /\ UNCHANGED <<delivered, hasPlan, plan>>
    BY <1>14 DEF EndEpisode
  <2>2. OutcomeOf[Missing] = "cancelled" /\ Missing # NoReport
    BY ContentAssumption
  <2>3. \A c \in Command :
          IF c \in Active THEN status'[c] = "cancelled" /\ report'[c] = Missing
                          ELSE status'[c] = status[c] /\ report'[c] = report[c]
    BY <2>1 DEF Put
  <2>4. OneInFlight'
    BY <2>3 DEF Inv, OneInFlight, CL!OneInFlight
  <2>5. ReportClosesCommand'
    BY <2>2, <2>3 DEF Inv, ReportClosesCommand
  <2>6. DeliveredOnce'
    BY <2>1, <2>3 DEF Inv, DeliveredOnce, Reported, Actionable, Dropped
  <2>7. NoOrphanedPlanCommand'
    BY <1>2, <2>1, <2>3 DEF Inv, NoOrphanedPlanCommand, Actionable
  <2> QED
    BY <1>1, <2>4, <2>5, <2>6, <2>7 DEF Inv
<1> QED
  BY <1>6, <1>7, <1>8, <1>9, <1>10, <1>11, <1>12, <1>13, <1>14
     DEF Next, Tick, Select

(* The inductive invariant holds in every behaviour of the engine.         *)
LEMMA Invariance == Spec => []Inv
  BY InvInit, InvStep, PTL DEF Spec

(* An actor never has two commands in flight, whatever plans, reflexes and *)
(* reports do in between (_defer_busy_actor_commands, ActionArbiter).      *)
THEOREM OneCommandPerActor == Spec => []OneInFlight
<1>1. Inv => OneInFlight
  BY DEF Inv
<1> QED
  BY <1>1, Invariance, PTL

(* A report is kept for exactly the commands it closed, with the status    *)
(* that it stands for (record_execution, end_episode).                     *)
THEOREM ReportsCloseCommands == Spec => []ReportClosesCommand
<1>1. Inv => ReportClosesCommand
  BY DEF Inv
<1> QED
  BY <1>1, Invariance, PTL

(* No plan command waits outside the cached plan, where nothing would      *)
(* dispatch, expire or supersede it (_accept_plan).                        *)
THEOREM NoPlanCommandIsOrphaned == Spec => []NoOrphanedPlanCommand
<1>1. Inv => NoOrphanedPlanCommand
  BY DEF Inv
<1> QED
  BY <1>1, Invariance, PTL

(* A command is returned to the worker at most once, and exactly once when *)
(* it is in flight or has an outcome of its own (tick, record_execution).  *)
THEOREM NoCommandTwice == Spec => []DeliveredOnce
<1>1. Inv => DeliveredOnce
  BY DEF Inv
<1> QED
  BY <1>1, Invariance, PTL
-----------------------------------------------------------------------------
(* What any handler can do to one command.                                 *)
Untouched(c) == /\ status'[c] = status[c]
                /\ report'[c] = report[c]
                /\ delivered'[c] = delivered[c]

HeldBack(c) == /\ status[c] \in {"none"} \cup Actionable
               /\ status'[c] \in Actionable \cup Dropped
               /\ report'[c] = report[c]
               /\ delivered'[c] = delivered[c]

HandedOver(c) == /\ status[c] \in {"none"} \cup Actionable
                 /\ status'[c] = "dispatched"
                 /\ report'[c] = report[c]
                 /\ delivered'[c] = delivered[c] + 1

ReportedOn(c) == /\ status[c] \in Live
                 /\ report'[c] \in Report
                 /\ status'[c] = OutcomeOf[report'[c]]
                 /\ status[c] = "dispatched" \/ status'[c] = "cancelled"
                 /\ delivered'[c] = delivered[c]

LEMMA HandlerStep ==
  ASSUME TypeOK, Next, NEW c \in Command
  PROVE  Untouched(c) \/ HeldBack(c) \/ HandedOver(c) \/ ReportedOn(c)
<1>1. ASSUME UNCHANGED <<status, report, delivered>>
      PROVE  Untouched(c)
  BY <1>1 DEF Untouched
<1>2. ASSUME NEW P \in SUBSET Planner, AcceptPlan(P), UNCHANGED <<report, delivered>>
      PROVE  Untouched(c) \/ HeldBack(c)
  <2>1. \/ status'[c] = status[c]
        \/ status[c] \in Actionable /\ status'[c] = "superseded"
        \/ status[c] = "none" /\ status'[c] = "pending"
    BY <1>2, AcceptStep
  <2> QED
    BY <1>2, <2>1 DEF Untouched, HeldBack, Actionable, Dropped
<1>3. ASSUME NEW d \in Lapses, BeginTick(d)
      PROVE  Untouched(c)
  BY <1>1, <1>3 DEF BeginTick
<1>4. CASE CollectFinishedPlanner
  BY <1>1, <1>2, <1>4 DEF CollectFinishedPlanner, RefusePlan
<1>5. ASSUME NEW alert \in BOOLEAN, ExpireAndPlan(alert)
      PROVE  Untouched(c) \/ HeldBack(c)
  <2>1. \A d \in Stale : status[d] \in Actionable
    BY DEF Stale, PlanFrontier
  <2>2. status'[c] = IF c \in Stale THEN "expired" ELSE status[c]
    BY <1>5 DEF ExpireAndPlan, Put
  <2>3. UNCHANGED <<report, delivered>>
    BY <1>5 DEF ExpireAndPlan
  <2> QED
    BY <2>1, <2>2, <2>3 DEF Untouched, HeldBack, Dropped
<1>6. CASE FinishPlanner
  BY <1>1, <1>6 DEF FinishPlanner
<1>7. CASE ResumeAwaitedTick
  BY <1>1, <1>2, <1>7 DEF ResumeAwaitedTick, RefusePlan
<1>8. ASSUME NEW R \in SUBSET {d \in Reflex : status[d] = "none"},
             NEW V \in [PlanFrontier(status, plan) \cup R -> Verdict],
             NEW W \in SUBSET Judged(V, "accept"), NEW B \in SUBSET W, NEW snap \in BOOLEAN,
             SelectAndDispatch(V, W, B, snap)
      PROVE  Untouched(c) \/ HeldBack(c) \/ HandedOver(c)
  <2>1. /\ status' \in [Command -> Status]
        /\ urgent' \in BOOLEAN /\ exhausted' \in BOOLEAN
        /\ emitted' \in Seq(Event)
        /\ B \subseteq Command
        /\ \A b \in B : /\ status[b] \in {"none"} \cup Actionable
                        /\ status'[b] = "dispatched"
                        /\ ActorOf[b] \notin Busy
        /\ \A b, d \in B : ActorOf[b] = ActorOf[d] => b = d
        /\ \A d \in Command \ B :
             \/ status'[d] = status[d]
             \/ /\ status[d] \in {"none"} \cup Actionable
                /\ status'[d] \in Actionable \cup {"rejected", "obsolete"}
        /\ \A d \in Planner : status[d] = "none" => status'[d] = "none"
    BY <1>8, DispatchStep
  <2>2. /\ delivered' = [d \in Command |-> delivered[d] + IF d \in B THEN 1 ELSE 0]
        /\ report' = report
    BY <1>8 DEF SelectAndDispatch
  <2>3. delivered[c] \in Nat
    BY DEF TypeOK
  <2>4. CASE c \in B
    BY <2>1, <2>2, <2>4 DEF HandedOver
  <2>5. CASE c \notin B
    BY <2>1, <2>2, <2>3, <2>5 DEF Untouched, HeldBack, Dropped
  <2> QED
    BY <2>4, <2>5
<1>9. ASSUME NEW d \in Command, NEW r \in Report, RecordExecution(d, r)
      PROVE  Untouched(c) \/ ReportedOn(c)
  <2>1. CASE c = d
    BY <1>9, <2>1 DEF RecordExecution, AwaitsReport, ReportedOn, TypeOK, Live
  <2>2. CASE c # d
    BY <1>9, <2>2 DEF RecordExecution, AwaitsReport, Untouched, TypeOK
  <2> QED
    BY <2>1, <2>2
<1>10. ASSUME NEW x \in Result, EndEpisode(x)
       PROVE  Untouched(c) \/ ReportedOn(c)
  <2>1. /\ status' = Put(status, Active, "cancelled")
        /\ report' = [d \in Command |-> IF d \in Active THEN Missing ELSE report[d]]
        /\ delivered' = delivered
    BY <1>10 DEF EndEpisode
  <2>2. CASE c \in Active
    BY <2>1, <2>2, ContentAssumption DEF Put, ReportedOn, Active
  <2>3. CASE c \notin Active
    BY <2>1, <2>3 DEF Put, Untouched
  <2> QED
    BY <2>2, <2>3
<1> QED
  BY <1>3, <1>4, <1>5, <1>6, <1>7, <1>8, <1>9, <1>10 DEF Next, Tick, Select

(* The abstract specification's sets of statuses are the engine's.         *)
LEMMA SameStatus ==
  /\ CL!Actionable = Actionable /\ CL!Live = Live /\ CL!Reported = Reported
  /\ CL!Dropped = Dropped /\ CL!Status = Status
BY DEF Actionable, Live, Reported, Dropped, Status,
       CL!Actionable, CL!Live, CL!Reported, CL!Dropped, CL!Status

(* Each of these is a step, or a stutter, of the abstract command.         *)
LEMMA CommandStep ==
  ASSUME Inv, NEW c \in Command,
         Untouched(c) \/ HeldBack(c) \/ HandedOver(c) \/ ReportedOn(c)
  PROVE  /\ status'[c] \in CL!After(status[c])
         /\ CL!Reporting(c)
         /\ CL!Delivering(c)
<1>1. status[c] \in Status
  BY DEF Inv, TypeOK
<1>2. /\ status[c] \in Live => report[c] = NoReport
      /\ status[c] \in {"none"} \cup Actionable => delivered[c] = 0
  BY ContentAssumption
     DEF Inv, ReportClosesCommand, DeliveredOnce, TypeOK, Live, Actionable, Reported
<1>3. CASE Untouched(c)
  BY <1>1, <1>3, SameStatus
     DEF Untouched, CL!After, CL!Reporting, CL!Delivering, Status, Live,
         Actionable, Reported, Dropped
<1>4. CASE HeldBack(c)
  BY <1>1, <1>4, SameStatus
     DEF HeldBack, CL!After, CL!Reporting, CL!Delivering, Status, Live,
         Actionable, Reported, Dropped
<1>5. CASE HandedOver(c)
  BY <1>1, <1>2, <1>5, SameStatus
     DEF HandedOver, CL!After, CL!Reporting, CL!Delivering, Status, Live,
         Actionable, Reported, Dropped
<1>6. CASE ReportedOn(c)
  <2>1. status'[c] \in Reported
    BY <1>6, ContentAssumption DEF ReportedOn
  <2>2. status'[c] \in CL!After(status[c])
    BY <1>6, <2>1, SameStatus DEF ReportedOn, CL!After, Live, Actionable
  <2>3. CL!Reporting(c)
    BY <1>2, <1>6, SameStatus DEF ReportedOn, CL!Reporting
  <2>4. CL!Delivering(c)
    BY <1>6, <2>1 DEF ReportedOn, CL!Delivering, Reported
  <2> QED
    BY <2>2, <2>3, <2>4
<1> QED
  BY <1>3, <1>4, <1>5, <1>6

(* The engine implements CommandLifecycle: whatever the planner, the       *)
(* reflexes, the validator and the worker do, commands only take the       *)
(* abstract specification's steps.                                         *)
THEOREM Refinement == Spec => Implements
<1>1. Init => CL!Init
  BY DEF Init, CL!Init
<1>2. Inv /\ Inv' /\ [Next]_vars => [CL!Step]_CL!vars
  <2> SUFFICES ASSUME Inv, Inv', [Next]_vars PROVE [CL!Step]_CL!vars
    OBVIOUS
  <2>1. CASE UNCHANGED vars
    BY <2>1 DEF vars, CL!vars
  <2>2. CASE Next
    <3>1. \A c \in Command : /\ status'[c] \in CL!After(status[c])
                             /\ CL!Reporting(c)
                             /\ CL!Delivering(c)
      BY <2>2, HandlerStep, CommandStep DEF Inv
    <3>2. /\ status' \in [Command -> Status]
          /\ report' \in [Command -> Report \cup {NoReport}]
          /\ CL!OneInFlight'
      BY DEF Inv, TypeOK, OneInFlight
    <3>3. delivered' \in [Command -> 0..1]
      BY DEF Inv, TypeOK, DeliveredOnce
    <3> QED
      BY <3>1, <3>2, <3>3, SameStatus DEF CL!Step
  <2> QED
    BY <2>1, <2>2
<1> QED
  BY <1>1, <1>2, InvInit, InvStep, PTL DEF Spec, Implements, CL!Spec
=============================================================================
