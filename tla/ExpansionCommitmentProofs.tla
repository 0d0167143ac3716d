----------------------- MODULE ExpansionCommitmentProofs ----------------------
(***************************************************************************)
(* Proofs about ExpansionCommitment.  Tracks says that a recovery from the *)
(* checkpoint and the events after it finds the commitment and the goal    *)
(* that the engine keeps; every change of the engine's memory keeps it for *)
(* the log with the events of that change.  Paid says why an exhausted     *)
(* epoch is paid for once: an open commitment is of a later epoch.         *)
(***************************************************************************)
EXTENDS ExpansionCommitment, FiniteSetTheorems, SequenceTheorems,
        WellFoundedInduction, TLAPS

(* What the engine keeps of the expansion, and the events of a change.     *)
Commitment == [rev : Nat, epoch : Epoch]

Mem == [commit : Commitment \cup {NoCommitment}, gen : Epoch, sent : BOOLEAN,
        goal : Goal \cup {NoGoal}, scout : Epoch, exhaustedGen : {-1} \cup Epoch]

MemOK(m) == /\ m \in Mem
            /\ m.sent => Open(m)
            /\ Open(m) => HasGoal(m)

Reason == {"strategic_cancellation", "desired_base_count_satisfied",
           "expansion_candidates_exhausted", "townhall_effect_confirmed"}

Event == [kind : {"started"}, commit : Commitment, gen : Epoch]
           \cup [kind : {"terminal"}, why : Reason, gen : Epoch]
           \cup [kind : {"dispatched"}]
           \cup [kind : {"goal"}, goal : Goal]

(* A commitment in the log serves a goal that a recovery knows before it.  *)
Introduced(c, es) ==
  \A i \in DOMAIN es : es[i].kind = "started"
     => HasGoal(c) \/ \E j \in 1 .. i : es[j].kind = "goal"

(* What a recovery makes of the commitment and the goal of a checkpoint.   *)
CommitAfter(c, es) ==
  LET s == LastOf(es, "started")
      t == LastOf(es, "terminal")
  IN  IF s > t THEN es[s].commit ELSE IF t > 0 THEN NoCommitment ELSE c.commit

GoalAfter(c, es) == IF LastOf(es, "goal") = 0 THEN c.goal ELSE es[LastOf(es, "goal")].goal

SameGoal(g, h) == [g EXCEPT !.observed = 0, !.epoch = 0]
                    = [h EXCEPT !.observed = 0, !.epoch = 0]

(* The engine's memory is what a recovery would find.                      *)
Tracks(c, es, m) ==
  /\ MemOK(m) /\ MemOK(c) /\ es \in Seq(Event) /\ Introduced(c, es)
  /\ CommitAfter(c, es) = m.commit
  /\ SameGoal(GoalAfter(c, es), m.goal)

(* A change that is tracked when its events follow es.                     *)
Tracked(c, es, d) == d.log \in Seq(Event) /\ Tracks(c, es \o d.log, d.mem)

(* The invariant of the recovery theorems.                                 *)
RecoveryInv == /\ Tracks(checkpoint, log, mem)
               /\ Len(log) <= MaxLog /\ epoch \in Epoch

(* Why an epoch is paid for once, in one process.                          *)
Paid(m) ==
  /\ m.exhaustedGen <= m.scout
  /\ Open(m) => m.exhaustedGen # m.scout
  /\ HasGoal(m) =>
       /\ m.goal.budget = Budget - Cardinality(m.goal.exhausted)
       /\ \A e \in m.goal.exhausted : e <= m.scout
       /\ m.scout \in m.goal.exhausted => m.exhaustedGen = m.scout
       /\ m.goal.budget = 0 => m.goal.closed /\ ~Open(m)
-----------------------------------------------------------------------------
(* The greatest of some natural numbers, of two, and of one.               *)
LEMMA MaxExists ==
  ASSUME NEW S, NEW n \in Nat, S \subseteq 0 .. n, S # {}
  PROVE  /\ Max(S) \in S
         /\ \A k \in S : k <= Max(S)
<1> DEFINE U == {u \in Nat : \A k \in S : k <= u}
<1>1. U \subseteq Nat /\ U # {}
  OBVIOUS
<1>2. PICK u \in U : \A y \in U : ~ (<<y, u>> \in OpToRel(<, Nat))
  BY <1>1, NatLessThanWellFounded, WFMin
<1>3. \A y \in U : ~(y < u)
  BY <1>2 DEF OpToRel
<1>4. u \in S
  <2> SUFFICES ASSUME u \notin S PROVE FALSE
    OBVIOUS
  <2> PICK k \in S : k \in 0 .. n
    OBVIOUS
  <2>1. k <= u /\ k # u
    OBVIOUS
  <2>2. u - 1 \in U
    BY <2>1
  <2> QED
    BY <2>2, <1>3
<1> QED
  BY <1>4 DEF Max

(* Nothing else is the greatest.                                           *)
LEMMA MaxUnique ==
  ASSUME NEW S, S \subseteq Nat, NEW x \in S, \A k \in S : k <= x
  PROVE  Max(S) = x
<1>1. Max(S) \in S /\ \A k \in S : k <= Max(S)
  BY DEF Max
<1>2. Max(S) \in Nat /\ x \in Nat /\ x <= Max(S) /\ Max(S) <= x
  BY <1>1
<1> QED
  BY <1>2

(* The last event of a kind.                                               *)
LEMMA LastOfFacts ==
  ASSUME NEW es \in Seq(Event), NEW kind
  PROVE  /\ LastOf(es, kind) \in 0 .. Len(es)
         /\ LastOf(es, kind) # 0 => es[LastOf(es, kind)].kind = kind
         /\ \A i \in DOMAIN es : es[i].kind = kind => i <= LastOf(es, kind)
<1> DEFINE S == {0} \cup {i \in DOMAIN es : es[i].kind = kind}
<1>1. DOMAIN es = 1 .. Len(es) /\ Len(es) \in Nat
  OBVIOUS
<1>2. S \subseteq 0 .. Len(es) /\ S # {}
  BY <1>1
<1>3. Max(S) \in S /\ \A k \in S : k <= Max(S)
  <2> HIDE DEF S
  <2> QED BY <1>1, <1>2, MaxExists
<1> QED
  BY <1>1, <1>2, <1>3 DEF LastOf

(* It is the one in this position.                                         *)
LEMMA LastOfIs ==
  ASSUME NEW es \in Seq(Event), NEW kind, NEW n \in 0 .. Len(es),
         n # 0 => es[n].kind = kind,
         \A i \in DOMAIN es : es[i].kind = kind => i <= n
  PROVE  LastOf(es, kind) = n
<1> DEFINE S == {0} \cup {i \in DOMAIN es : es[i].kind = kind}
<1>1. S \subseteq Nat /\ n \in S /\ \A k \in S : k <= n
  OBVIOUS
<1>2. Max(S) = n
  <2> HIDE DEF S
  <2> QED BY <1>1, MaxUnique
<1> QED
  BY <1>2 DEF LastOf

(* Events are numbered on by an append.                                    *)
LEMMA AppendFacts ==
  ASSUME NEW es \in Seq(Event), NEW e \in Event
  PROVE  /\ Append(es, e) \in Seq(Event)
         /\ Len(Append(es, e)) = Len(es) + 1
         /\ \A i \in 1 .. Len(es) : Append(es, e)[i] = es[i]
         /\ Append(es, e)[Len(es) + 1] = e
         /\ es \o <<e>> = Append(es, e)
BY AppendProperties, AppendIsConcat

(* The last event of a kind, after one more event.                         *)
LEMMA LastOfAppend ==
  ASSUME NEW es \in Seq(Event), NEW e \in Event, NEW kind
  PROVE  LastOf(Append(es, e), kind) = IF e.kind = kind THEN Len(es) + 1
                                                      ELSE LastOf(es, kind)
<1> DEFINE as == Append(es, e)
           n == IF e.kind = kind THEN Len(es) + 1 ELSE LastOf(es, kind)
<1>1. as \in Seq(Event) /\ Len(as) = Len(es) + 1 /\ Len(es) \in Nat
      /\ DOMAIN as = 1 .. (Len(es) + 1) /\ DOMAIN es = 1 .. Len(es)
  BY AppendFacts
<1>2. n \in 0 .. Len(as) /\ (n # 0 => as[n].kind = kind)
  BY <1>1, AppendFacts, LastOfFacts
<1>3. \A i \in DOMAIN as : as[i].kind = kind => i <= n
  BY <1>1, AppendFacts, LastOfFacts
<1> HIDE DEF n, as
<1>4. LastOf(as, kind) = n
  BY <1>1, <1>2, <1>3, LastOfIs
<1> QED
  BY <1>4 DEF n, as

(* Nothing happened since the checkpoint.                                  *)
LEMMA LastOfEmpty == \A kind : LastOf(<<>>, kind) = 0
<1> SUFFICES ASSUME NEW kind PROVE LastOf(<<>>, kind) = 0
  OBVIOUS
<1>1. <<>> \in Seq(Event) /\ Len(<<>>) = 0
  OBVIOUS
<1>2. LastOf(<<>>, kind) \in 0 .. Len(<<>>)
  BY <1>1, LastOfFacts
<1> QED
  BY <1>1, <1>2
-----------------------------------------------------------------------------
(* What one more event does to the commitment and the goal of a recovery.  *)
LEMMA CommitAppend ==
  ASSUME NEW c, NEW es \in Seq(Event), NEW e \in Event
  PROVE  CommitAfter(c, Append(es, e)) =
           IF e.kind = "started" THEN e.commit
           ELSE IF e.kind = "terminal" THEN NoCommitment ELSE CommitAfter(c, es)
<1> DEFINE as == Append(es, e)
           s == LastOf(es, "started")
           t == LastOf(es, "terminal")
<1>1. s \in 0 .. Len(es) /\ t \in 0 .. Len(es) /\ Len(es) \in Nat
  BY LastOfFacts
<1>2. as[Len(es) + 1] = e /\ \A i \in 1 .. Len(es) : as[i] = es[i]
  BY AppendFacts
<1>3. /\ LastOf(as, "started") = IF e.kind = "started" THEN Len(es) + 1 ELSE s
      /\ LastOf(as, "terminal") = IF e.kind = "terminal" THEN Len(es) + 1 ELSE t
  BY LastOfAppend
<1>4. s > t => as[s] = es[s]
  BY <1>1, <1>2
<1> HIDE DEF as
<1>5. CASE e.kind = "started"
  <2>1. LastOf(as, "started") = Len(es) + 1 /\ LastOf(as, "terminal") = t
    BY <1>3, <1>5
  <2> QED
    BY <1>1, <1>2, <1>5, <2>1 DEF CommitAfter, as
<1>6. CASE e.kind = "terminal"
  <2>1. LastOf(as, "started") = s /\ LastOf(as, "terminal") = Len(es) + 1
    BY <1>3, <1>6
  <2> QED
    BY <1>1, <1>6, <2>1 DEF CommitAfter, as
<1>7. CASE e.kind \notin {"started", "terminal"}
  <2>1. LastOf(as, "started") = s /\ LastOf(as, "terminal") = t
    BY <1>3, <1>7
  <2> QED
    BY <1>1, <1>4, <1>7, <2>1 DEF CommitAfter, as
<1> QED
  BY <1>5, <1>6, <1>7

(* What one more event of the log says of the goal: the last one set counts. *)
LEMMA GoalAppend ==
  ASSUME NEW c, NEW es \in Seq(Event), NEW e \in Event
  PROVE  GoalAfter(c, Append(es, e)) = IF e.kind = "goal" THEN e.goal ELSE GoalAfter(c, es)
<1> DEFINE as == Append(es, e)
           g == LastOf(es, "goal")
<1>1. g \in 0 .. Len(es) /\ Len(es) \in Nat
  BY LastOfFacts
<1>2. as[Len(es) + 1] = e /\ \A i \in 1 .. Len(es) : as[i] = es[i]
  BY AppendFacts
<1>3. LastOf(as, "goal") = IF e.kind = "goal" THEN Len(es) + 1 ELSE g
  BY LastOfAppend
<1>6. g # 0 => as[g] = es[g]
  BY <1>1, <1>2
<1> HIDE DEF as
<1>4. CASE e.kind = "goal"
  <2>1. LastOf(as, "goal") = Len(es) + 1
    BY <1>3, <1>4
  <2> QED
    BY <1>1, <1>2, <1>4, <2>1 DEF GoalAfter, as
<1>5. CASE e.kind # "goal"
  <2>1. LastOf(as, "goal") = g
    BY <1>3, <1>5
  <2> QED
    BY <1>5, <1>6, <2>1 DEF GoalAfter, as
<1> QED
  BY <1>4, <1>5

(* The recovery of the code finds these two.                               *)
LEMMA RecoveredParts ==
  ASSUME NEW c, MemOK(c), NEW es \in Seq(Event)
  PROVE  /\ Recovered(c, es).commit = CommitAfter(c, es)
         /\ Recovered(c, es).goal = GoalAfter(c, es)
<1> DEFINE s == LastOf(es, "started")
           t == LastOf(es, "terminal")
           a == WithGoal(c, es)
           b == WithCommitment(a, es)
<1>1. s \in Nat /\ t \in Nat
  BY LastOfFacts
<1>2. /\ a.goal = GoalAfter(c, es) /\ a.commit = c.commit
      /\ DOMAIN a = DOMAIN c
  BY DEF WithGoal, GoalAfter, MemOK, Mem
<1>3. /\ b.goal = a.goal /\ DOMAIN b = DOMAIN c
      /\ b.commit = CommitAfter(c, es)
  <2> HIDE DEF a
  <2>1. {"commit", "goal", "gen", "sent"} \subseteq DOMAIN a
    BY <1>2 DEF MemOK, Mem
  <2>2. CASE s > t
    BY <1>1, <1>2, <2>1, <2>2 DEF WithCommitment, CommitAfter
  <2>3. CASE s <= t /\ t > 0
    BY <1>1, <1>2, <2>1, <2>3 DEF WithCommitment, CommitAfter, Released
  <2>4. CASE ~(s > t) /\ ~(s <= t /\ t > 0)
    BY <1>1, <1>2, <2>1, <2>4 DEF WithCommitment, CommitAfter
  <2> QED
    BY <1>1, <2>2, <2>3, <2>4
<1>4. Recovered(c, es) = WithExhaustion(b, es)
  BY DEF Recovered
<1>5. WithExhaustion(b, es).commit = b.commit /\ WithExhaustion(b, es).goal = b.goal
  <2> HIDE DEF b
  <2> QED BY <1>3 DEF WithExhaustion, MemOK, Mem
<1> QED
  BY <1>2, <1>3, <1>4, <1>5

(* A goal in the log, or that of the checkpoint.                           *)
LEMMA GoalAfterType ==
  ASSUME NEW c, MemOK(c), NEW es \in Seq(Event)
  PROVE  /\ GoalAfter(c, es) \in Goal \cup {NoGoal}
         /\ LastOf(es, "goal") # 0 => GoalAfter(c, es) \in Goal
         /\ HasGoal(c) \/ (\E i \in DOMAIN es : es[i].kind = "goal")
              => GoalAfter(c, es) \in Goal
<1>1. /\ LastOf(es, "goal") \in 0 .. Len(es)
      /\ LastOf(es, "goal") # 0 => es[LastOf(es, "goal")].kind = "goal"
      /\ \A i \in DOMAIN es : es[i].kind = "goal" => i <= LastOf(es, "goal")
  BY LastOfFacts
<1>2. \A i \in 1 .. Len(es) : es[i] \in Event /\ (es[i].kind = "goal" => es[i].goal \in Goal)
  BY DEF Event
<1>3. DOMAIN es = 1 .. Len(es) /\ Len(es) \in Nat
  OBVIOUS
<1>4. c.goal \in Goal \cup {NoGoal} /\ (HasGoal(c) => c.goal \in Goal)
  BY DEF MemOK, Mem, HasGoal
<1> QED
  BY <1>1, <1>2, <1>3, <1>4 DEF GoalAfter

(* The memory that a recovery starts with is well formed.                  *)
LEMMA RecoveredOK ==
  ASSUME NEW c, MemOK(c), NEW es \in Seq(Event), Introduced(c, es)
  PROVE  MemOK(Recovered(c, es))
<1> DEFINE s == LastOf(es, "started")
           t == LastOf(es, "terminal")
           a == WithGoal(c, es)
           b == WithCommitment(a, es)
<1>1. \A i \in 1 .. Len(es) :
        /\ es[i].kind = "started" => es[i].commit \in Commitment /\ es[i].gen \in Epoch
        /\ es[i].kind = "terminal" => es[i].gen \in Epoch
        /\ es[i].kind = "goal" => es[i].goal \in Goal
  BY DEF Event
<1>2. /\ s \in 0 .. Len(es) /\ (s # 0 => es[s].kind = "started")
      /\ t \in 0 .. Len(es) /\ (t # 0 => es[t].kind = "terminal")
      /\ DOMAIN es = 1 .. Len(es) /\ Len(es) \in Nat
  BY LastOfFacts
<1>3. a \in Mem /\ a.commit = c.commit /\ a.sent = c.sent
      /\ a.goal = GoalAfter(c, es)
  <2> DEFINE i == LastOf(es, "goal")
             g == es[i].goal
  <2>1. i \in 0 .. Len(es) /\ (i # 0 => g \in Goal)
    BY <1>1, LastOfFacts
  <2>2. CASE i = 0
    BY <2>2 DEF WithGoal, GoalAfter, MemOK
  <2>3. CASE i # 0
    <3>1. g \in Goal /\ g.exhausted \subseteq Epoch /\ g.epoch \in Epoch
      BY <2>1, <2>3 DEF Goal
    <3>2. g.exhausted # {} => Max(g.exhausted) \in Epoch
      BY <3>1, MaxExists, BoundAssumption DEF Epoch
    <3>3. Max({c.scout, g.epoch}) \in Epoch
      <4>1. {c.scout, g.epoch} \subseteq Epoch
        BY <3>1 DEF MemOK, Mem
      <4> QED
        BY <4>1, MaxExists, BoundAssumption DEF Epoch
    <3> HIDE DEF i, g
    <3>4. a = [c EXCEPT !.goal = g,
                        !.exhaustedGen = IF g.exhausted = {} THEN @ ELSE Max(g.exhausted),
                        !.scout = Max({@, g.epoch})]
      BY <2>3 DEF WithGoal, i, g
    <3>5. GoalAfter(c, es) = g
      BY <2>3 DEF GoalAfter, i, g
    <3> QED
      BY <3>1, <3>2, <3>3, <3>4, <3>5 DEF MemOK, Mem
  <2> QED
    BY <2>2, <2>3
<1>4. s # 0 => HasGoal(a)
  <2> SUFFICES ASSUME s # 0 PROVE HasGoal(a)
    OBVIOUS
  <2>1. HasGoal(c) \/ \E j \in 1 .. s : es[j].kind = "goal"
    BY <1>2 DEF Introduced
  <2>2. a.goal \in Goal
    BY <1>2, <1>3, <2>1, GoalAfterType
  <2> QED
    BY <2>2, BoundAssumption DEF HasGoal, NoGoal, Goal
<1>5. c.commit # NoCommitment => HasGoal(a)
  <2>1. c.commit # NoCommitment => a.goal \in Goal
    BY <1>3, GoalAfterType DEF MemOK, Open
  <2> QED
    BY <2>1, BoundAssumption DEF HasGoal, NoGoal, Goal
<1> HIDE DEF a
<1>6. MemOK(b)
  <2>1. NoCommitment \notin Commitment
    BY DEF NoCommitment, Commitment, Epoch
  <2>2. CASE s > t
    <3>1. es[s].commit \in Commitment /\ es[s].gen \in Epoch /\ s # 0
      BY <1>1, <1>2, <2>2
    <3>2. (LastOf(es, "dispatched") > s) \in BOOLEAN
      OBVIOUS
    <3>3. b = [a EXCEPT !.commit = es[s].commit, !.gen = es[s].gen,
                        !.sent = LastOf(es, "dispatched") > s]
      BY <1>2, <2>2 DEF WithCommitment
    <3> QED
      BY <1>3, <1>4, <2>1, <3>1, <3>2, <3>3, Zenon DEF MemOK, Mem, Open, HasGoal
  <2>3. CASE s <= t /\ t > 0
    <3>1. b = Released(a)
      BY <1>2, <2>3 DEF WithCommitment
    <3>2. 0 \in Epoch
      BY BoundAssumption DEF Epoch
    <3>3. b.commit = NoCommitment /\ b.sent = FALSE /\ b \in Mem
      BY <1>3, <3>1, <3>2 DEF Released, Mem
    <3> QED
      BY <3>3 DEF MemOK, Open
  <2>4. CASE ~(s > t) /\ ~(s <= t /\ t > 0)
    <3>1. b = a
      BY <1>2, <2>4 DEF WithCommitment
    <3> QED
      BY <1>3, <1>5, <3>1 DEF MemOK, Open, HasGoal
  <2> QED
    BY <2>2, <2>3, <2>4
<1> HIDE DEF b
<1>7. MemOK(WithExhaustion(b, es))
  BY <1>1, <1>2, <1>6 DEF WithExhaustion, MemOK, Mem, Open, HasGoal
<1> QED
  BY <1>7 DEF Recovered, a, b
-----------------------------------------------------------------------------
(* One more event keeps the recovery right when it says what it changes.   *)
LEMMA TracksAppend ==
  ASSUME NEW c, NEW es, NEW m, NEW n, NEW e \in Event, Tracks(c, es, m), MemOK(n),
         e.kind = "started" => HasGoal(m) /\ n.commit = e.commit,
         e.kind = "terminal" => n.commit = NoCommitment,
         e.kind \in {"dispatched", "goal"} => n.commit = m.commit,
         e.kind = "goal" => SameGoal(e.goal, n.goal),
         e.kind # "goal" => SameGoal(m.goal, n.goal)
  PROVE  Tracks(c, Append(es, e), n)
<1> DEFINE as == Append(es, e)
<1>1. es \in Seq(Event) /\ MemOK(c) /\ MemOK(m)
  BY DEF Tracks
<1>2. as \in Seq(Event) /\ Len(as) = Len(es) + 1 /\ Len(es) \in Nat
      /\ DOMAIN as = 1 .. (Len(es) + 1) /\ DOMAIN es = 1 .. Len(es)
  BY <1>1, AppendFacts
<1>3. as[Len(es) + 1] = e /\ \A i \in 1 .. Len(es) : as[i] = es[i]
  BY <1>1, AppendFacts
<1>4. CommitAfter(c, as) = n.commit
  <2>1. e.kind \in {"started", "terminal", "dispatched", "goal"}
    BY DEF Event
  <2> QED
    BY <1>1, <2>1, CommitAppend DEF Tracks
<1>5. SameGoal(GoalAfter(c, as), n.goal)
  <2>1. GoalAfter(c, as) = IF e.kind = "goal" THEN e.goal ELSE GoalAfter(c, es)
    BY <1>1, GoalAppend
  <2>2. SameGoal(GoalAfter(c, es), m.goal)
    BY DEF Tracks
  <2>3. e.kind # "goal" => SameGoal(GoalAfter(c, es), n.goal)
    BY <2>2 DEF SameGoal
  <2> HIDE DEF as
  <2> QED
    BY <2>1, <2>3
<1>6. Introduced(c, as)
  <2> SUFFICES ASSUME NEW i \in 1 .. (Len(es) + 1), as[i].kind = "started", ~HasGoal(c)
               PROVE  \E j \in 1 .. i : as[j].kind = "goal"
    BY <1>2 DEF Introduced
  <2>1. CASE i \in 1 .. Len(es)
    <3>1. es[i].kind = "started"
      BY <1>3, <2>1
    <3>2. PICK j \in 1 .. i : es[j].kind = "goal"
      BY <1>2, <2>1, <3>1 DEF Tracks, Introduced
    <3>3. j \in 1 .. Len(es)
      BY <2>1, <1>2
    <3>4. as[j].kind = "goal"
      BY <1>3, <3>2, <3>3
    <3> QED
      BY <3>4
  <2>2. CASE i = Len(es) + 1
    <3>1. e.kind = "started"
      BY <1>3, <2>2
    <3>2. GoalAfter(c, es).desired = m.goal.desired /\ m.goal.desired # 0
      <4>1. m.goal \in Goal /\ GoalAfter(c, es) \in Goal \cup {NoGoal}
        BY <1>1, <3>1, GoalAfterType DEF MemOK, Mem, HasGoal
      <4>2. \A g \in Goal \cup {NoGoal} :
              [g EXCEPT !.observed = 0, !.epoch = 0].desired = g.desired
        BY DEF Goal, NoGoal
      <4> QED
        BY <4>1, <4>2, BoundAssumption DEF Tracks, SameGoal, Goal
    <3>3. GoalAfter(c, es) # c.goal
      BY <3>2 DEF HasGoal, NoGoal
    <3>4. LastOf(es, "goal") \in 1 .. Len(es) /\ es[LastOf(es, "goal")].kind = "goal"
      BY <1>1, <1>2, <3>3, LastOfFacts DEF GoalAfter
    <3>5. as[LastOf(es, "goal")].kind = "goal" /\ LastOf(es, "goal") \in 1 .. i
      BY <1>2, <1>3, <2>2, <3>4
    <3> QED
      BY <3>5
  <2> QED
    BY <1>2, <2>1, <2>2
<1> HIDE DEF as
<1>7. Tracks(c, as, n)
  BY <1>1, <1>2, <1>4, <1>5, <1>6 DEF Tracks
<1> QED
  BY <1>7 DEF as

(* A change without an event keeps the commitment and the goal.            *)
LEMMA TrackedKeep ==
  ASSUME NEW c, NEW es, NEW m, NEW n, Tracks(c, es, m), MemOK(n),
         n.commit = m.commit, SameGoal(m.goal, n.goal)
  PROVE  Tracked(c, es, Keep(n))
<1>1. Keep(n).log = <<>> /\ Keep(n).mem = n /\ es \o <<>> = es
  BY ConcatEmptySeq DEF Tracks, Keep, Change
<1>2. Tracks(c, es, n)
  BY DEF Tracks, SameGoal
<1> QED
  BY <1>1, <1>2 DEF Tracked

(* A change with one event.                                                *)
LEMMA TrackedChange ==
  ASSUME NEW c, NEW es, NEW n, NEW e \in Event, es \in Seq(Event), Tracks(c, Append(es, e), n)
  PROVE  Tracked(c, es, Change(n, <<e>>))
<1>1. Change(n, <<e>>).log = <<e>> /\ Change(n, <<e>>).mem = n
  BY DEF Change
<1>2. es \o <<e>> = Append(es, e) /\ <<e>> \in Seq(Event)
  BY AppendFacts
<1> QED
  BY <1>1, <1>2 DEF Tracked

(* Events are concatenated in any order.                                   *)
LEMMA EventsAssociative ==
  ASSUME NEW s \in Seq(Event), NEW t \in Seq(Event), NEW u \in Seq(Event)
  PROVE  (s \o t) \o u = s \o (t \o u)
<1> DEFINE E == Event
<1>1. s \in Seq(E) /\ t \in Seq(E) /\ u \in Seq(E)
  OBVIOUS
<1> HIDE DEF E
<1> QED
  BY <1>1, ConcatAssociative

(* One change after another.                                               *)
LEMMA TrackedThen ==
  ASSUME NEW c, NEW es \in Seq(Event), NEW d, NEW f, Tracked(c, es, d),
         Tracked(c, es \o d.log, f)
  PROVE  Tracked(c, es, Then(d, f))
<1>1. d.log \in Seq(Event) /\ f.log \in Seq(Event)
  BY DEF Tracked
<1>2. d.log \o f.log \in Seq(Event)
  BY <1>1, ConcatProperties
<1>4. (es \o d.log) \o f.log = es \o (d.log \o f.log)
  <2> DEFINE a == d.log
             b == f.log
  <2>1. a \in Seq(Event) /\ b \in Seq(Event)
    BY <1>1
  <2> HIDE DEF a, b
  <2>2. (es \o a) \o b = es \o (a \o b)
    BY <2>1, EventsAssociative
  <2> QED
    BY <2>2 DEF a, b
<1>3. Then(d, f).log = d.log \o f.log /\ Then(d, f).mem = f.mem
  BY DEF Then, Change
<1> QED
  BY <1>2, <1>3, <1>4 DEF Tracked
-----------------------------------------------------------------------------
(* The end of a commitment.                                                *)
LEMMA ReleasedOK ==
  ASSUME NEW m, MemOK(m)
  PROVE  MemOK(Released(m)) /\ Released(m).commit = NoCommitment
         /\ Released(m).goal = m.goal /\ Released(m).scout = m.scout
         /\ Released(m).exhaustedGen = m.exhaustedGen
<1>1. 0 \in Epoch
  BY BoundAssumption DEF Epoch
<1>2. Released(m) \in Mem /\ Released(m).sent = FALSE /\ Released(m).commit = NoCommitment
  BY <1>1 DEF Released, MemOK, Mem
<1> QED
  BY <1>2 DEF Released, MemOK, Mem, Open

(* A commitment that ends is found ended: the event says so.               *)
LEMMA TerminateTracked ==
  ASSUME NEW c, NEW es, NEW m, Tracks(c, es, m), NEW why \in Reason
  PROVE  Tracked(c, es, Terminate(m, why))
<1>1. MemOK(m) /\ es \in Seq(Event)
  BY DEF Tracks
<1>2. CASE Open(m)
  <2> DEFINE e == Terminal(m, why)
  <2>1. e \in Event /\ e.kind = "terminal"
    BY <1>1 DEF Terminal, Event, MemOK, Mem
  <2>2. Tracks(c, Append(es, e), Released(m))
    <3> HIDE DEF e
    <3> QED BY <1>1, <2>1, ReleasedOK, TracksAppend DEF SameGoal
  <2> HIDE DEF e
  <2>3. Tracked(c, es, Change(Released(m), <<e>>))
    BY <1>1, <2>1, <2>2, TrackedChange
  <2> QED
    BY <1>2, <2>3 DEF Terminate, e
<1>3. CASE ~Open(m)
  BY <1>1, <1>3, TrackedKeep DEF Terminate, SameGoal
<1> QED
  BY <1>2, <1>3

(* The end of a goal.                                                      *)
LEMMA CloseGoalTracked ==
  ASSUME NEW c, NEW es, NEW m, Tracks(c, es, m)
  PROVE  Tracked(c, es, CloseGoal(m))
<1>1. MemOK(m) /\ es \in Seq(Event)
  BY DEF Tracks
<1>2. CASE HasGoal(m) /\ ~m.goal.closed
  <2> DEFINE n == [m EXCEPT !.goal.closed = TRUE]
             e == GoalEvent(n)
  <2>1. m.goal \in Goal
    BY <1>1, <1>2 DEF MemOK, Mem, HasGoal
  <2>2. n \in Mem /\ n.commit = m.commit /\ n.sent = m.sent /\ n.goal \in Goal
    BY <1>1, <2>1 DEF MemOK, Mem, Goal
  <2>3. MemOK(n)
    BY <1>1, <2>2, BoundAssumption DEF MemOK, Open, HasGoal, NoGoal, Goal
  <2> HIDE DEF n
  <2>4. e \in Event /\ e.kind = "goal" /\ e.goal = n.goal
    BY <2>2 DEF GoalEvent, Event
  <2> HIDE DEF e
  <2>5. Tracks(c, Append(es, e), n)
    BY <2>2, <2>3, <2>4, TracksAppend DEF SameGoal
  <2>6. Tracked(c, es, Change(n, <<e>>))
    BY <1>1, <2>4, <2>5, TrackedChange
  <2> QED
    BY <1>2, <2>6 DEF CloseGoal, e, n
<1>3. CASE ~(HasGoal(m) /\ ~m.goal.closed)
  <2>1. CloseGoal(m) = Keep(m)
    BY <1>3 DEF CloseGoal
  <2> QED
    BY <1>1, <2>1, TrackedKeep DEF SameGoal
<1> QED
  BY <1>2, <1>3

(* A goal event with any other goal.                                       *)
LEMMA GoalEventTracked ==
  ASSUME NEW c, NEW es, NEW m, NEW n, Tracks(c, es, m), MemOK(n),
         n.commit = m.commit, n.goal \in Goal
  PROVE  Tracked(c, es, Change(n, <<GoalEvent(n)>>))
<1> DEFINE e == GoalEvent(n)
<1>1. e \in Event /\ e.kind = "goal" /\ e.goal = n.goal
  BY DEF GoalEvent, Event
<1> HIDE DEF e
<1>2. Tracks(c, Append(es, e), n)
  BY <1>1, TracksAppend DEF SameGoal
<1>3. Tracked(c, es, Change(n, <<e>>))
  BY <1>1, <1>2, TrackedChange DEF Tracks
<1> QED
  BY <1>3 DEF e

(* What differs in what was last seen is the same goal.                    *)
LEMMA ObservedSame ==
  ASSUME NEW g \in Goal, NEW b \in Nat, NEW e \in Epoch
  PROVE  /\ [g EXCEPT !.observed = b] \in Goal
         /\ [g EXCEPT !.observed = b, !.epoch = e] \in Goal
         /\ SameGoal(g, [g EXCEPT !.observed = b])
         /\ SameGoal(g, [g EXCEPT !.observed = b, !.epoch = e])
<1>1. /\ [g EXCEPT !.observed = b] \in Goal
      /\ [g EXCEPT !.observed = b, !.epoch = e] \in Goal
  BY DEF Goal
<1>2. /\ SameGoal(g, [g EXCEPT !.observed = b])
      /\ SameGoal(g, [g EXCEPT !.observed = b, !.epoch = e])
  BY DEF SameGoal, Goal
<1> QED
  BY <1>1, <1>2

(* A well-formed memory with another goal.                                 *)
LEMMA GoalChangeOK ==
  ASSUME NEW m, MemOK(m), NEW g \in Goal
  PROVE  /\ MemOK([m EXCEPT !.goal = g])
         /\ [m EXCEPT !.goal = g].goal = g
         /\ [m EXCEPT !.goal = g].commit = m.commit
         /\ HasGoal([m EXCEPT !.goal = g])
<1> DEFINE n == [m EXCEPT !.goal = g]
<1>1. n \in Mem /\ n.goal = g /\ n.commit = m.commit /\ n.sent = m.sent
  BY DEF MemOK, Mem
<1>2. g # NoGoal
  BY BoundAssumption DEF NoGoal, Goal
<1> HIDE DEF n
<1>3. MemOK(n) /\ HasGoal(n)
  BY <1>1, <1>2 DEF MemOK, Open, HasGoal
<1> QED
  BY <1>1, <1>3 DEF n

(* A new goal.                                                             *)
LEMMA NewGoalTracked ==
  ASSUME NEW c, NEW es, NEW m, Tracks(c, es, m), NEW o \in Observation, NEW desired \in Desired
  PROVE  Tracked(c, es, NewGoal(m, o, desired)) /\ HasGoal(NewGoal(m, o, desired).mem)
<1>1. MemOK(m) /\ m.goal.rev \in Nat /\ m.scout \in Epoch
  BY DEF Tracks, MemOK, Mem, Goal, NoGoal
<1> DEFINE g == [NoGoal EXCEPT !.rev = m.goal.rev + 1, !.desired = desired,
                               !.observed = o.bases, !.epoch = m.scout, !.budget = Budget]
           n == [m EXCEPT !.goal = g]
<1>2. g \in Goal
  <2>1. Budget \in 0 .. Budget /\ 0 \in 0 .. Cooldown /\ 0 \in Epoch
    BY BoundAssumption DEF Epoch
  <2>2. o.bases \in Nat
    BY BoundAssumption DEF Observation
  <2> DEFINE R == [rev : Nat, desired : Nat, observed : Nat, epoch : Epoch,
                   exhausted : SUBSET Epoch, budget : Nat, cool : 0 .. Cooldown,
                   waiting : BOOLEAN, closed : BOOLEAN]
  <2>3. NoGoal \in R
    BY <2>1 DEF NoGoal
  <2>4. \A r \in R, rev \in Nat :
          [r EXCEPT !.rev = rev, !.desired = desired, !.observed = o.bases,
                    !.epoch = m.scout, !.budget = Budget] \in Goal
    BY <1>1, <2>1, <2>2 DEF Goal
  <2>5. m.goal.rev + 1 \in Nat
    BY <1>1
  <2> HIDE DEF R
  <2> QED
    BY <2>3, <2>4, <2>5
<1>3. NewGoal(m, o, desired) = Change(n, <<GoalEvent(n)>>)
  BY DEF NewGoal
<1> HIDE DEF g
<1>4. MemOK(n) /\ n.goal = g /\ n.commit = m.commit /\ HasGoal(n)
  BY <1>1, <1>2, GoalChangeOK
<1> HIDE DEF n
<1> QED
  BY <1>2, <1>3, <1>4, GoalEventTracked DEF Change

(* Another number of bases that was seen.                                  *)
LEMMA SeenTracks ==
  ASSUME NEW c, NEW es, NEW m, Tracks(c, es, m), HasGoal(m), NEW o \in Observation
  PROVE  LET n == [m EXCEPT !.goal.observed = o.bases]
         IN  Tracks(c, es, n) /\ HasGoal(n) /\ Tracked(c, es, Keep(n))
<1> DEFINE n == [m EXCEPT !.goal.observed = o.bases]
           g == [m.goal EXCEPT !.observed = o.bases]
<1>1. MemOK(m) /\ m.goal \in Goal /\ o.bases \in Nat /\ es \in Seq(Event)
  BY BoundAssumption DEF Tracks, MemOK, Mem, HasGoal, Observation
<1>2. g \in Goal /\ SameGoal(m.goal, g)
  <2>1. 0 \in Epoch
    BY BoundAssumption DEF Epoch
  <2> QED
    BY <1>1, <2>1, ObservedSame
<1>3. n = [m EXCEPT !.goal = g]
  BY <1>1 DEF MemOK, Mem
<1> HIDE DEF n, g
<1>4. MemOK(n) /\ HasGoal(n) /\ n.commit = m.commit /\ SameGoal(m.goal, n.goal)
  BY <1>1, <1>2, <1>3, GoalChangeOK
<1>5. Tracked(c, es, Keep(n))
  BY <1>1, <1>4, TrackedKeep
<1>6. Tracks(c, es, n)
  BY <1>4 DEF Tracks, SameGoal
<1> QED
  BY <1>4, <1>5, <1>6 DEF n

(* _ensure_expansion_goal.                                                 *)
LEMMA EnsureGoalTracked ==
  ASSUME NEW c, NEW es, NEW m, Tracks(c, es, m), NEW o \in Observation, NEW desired \in Desired
  PROVE  Tracked(c, es, EnsureGoal(m, o, desired)) /\ HasGoal(EnsureGoal(m, o, desired).mem)
<1> DEFINE seen == [m EXCEPT !.goal.observed = o.bases]
<1>1. CASE ~HasGoal(m)
  <2>1. EnsureGoal(m, o, desired) = NewGoal(m, o, desired)
    BY <1>1 DEF EnsureGoal
  <2> QED
    BY <2>1, NewGoalTracked
<1>2. CASE HasGoal(m)
  <2>1. Tracks(c, es, seen) /\ HasGoal(seen) /\ Tracked(c, es, Keep(seen))
    BY <1>2, SeenTracks
  <2>2. o.bases \in Nat /\ m.goal.desired \in Nat
    BY <1>2, BoundAssumption DEF Tracks, MemOK, Mem, HasGoal, Goal, Observation
  <2>3. CASE o.bases >= m.goal.desired
    <3>1. EnsureGoal(m, o, desired) = CloseGoal(seen)
      BY <1>2, <2>2, <2>3 DEF EnsureGoal
    <3> HIDE DEF seen
    <3>2. HasGoal(CloseGoal(seen).mem)
      <4>1. seen.goal \in Goal /\ seen \in Mem
        BY <2>1 DEF Tracks, MemOK, Mem, HasGoal
      <4>2. [seen EXCEPT !.goal.closed = TRUE].goal.desired = seen.goal.desired
        BY <4>1 DEF Goal, Mem
      <4> QED
        BY <2>1, <4>1, <4>2, BoundAssumption DEF CloseGoal, Keep, Change, HasGoal, NoGoal, Goal
    <3> QED
      BY <2>1, <3>1, <3>2, CloseGoalTracked
  <2>4. CASE o.bases < m.goal.desired
    <3>1. EnsureGoal(m, o, desired)
            = IF desired > m.goal.desired THEN NewGoal(seen, o, desired) ELSE Keep(seen)
      BY <1>2, <2>2, <2>4 DEF EnsureGoal
    <3> HIDE DEF seen
    <3> QED
      BY <2>1, <3>1, NewGoalTracked DEF Keep, Change
  <2> QED
    BY <2>2, <2>3, <2>4
<1> QED
  BY <1>1, <1>2

(* Another memory with the same commitment and goal.                       *)
LEMMA TracksKeep ==
  ASSUME NEW c, NEW es, NEW m, NEW n, Tracks(c, es, m), MemOK(n),
         n.commit = m.commit, SameGoal(m.goal, n.goal)
  PROVE  Tracks(c, es, n)
BY DEF Tracks, SameGoal

(* _ensure_expansion_commitment.                                           *)
LEMMA CommitTracked ==
  ASSUME NEW c, NEW es, NEW m, Tracks(c, es, m), HasGoal(m)
  PROVE  Tracked(c, es, Commit(m))
<1>1. MemOK(m) /\ m.goal \in Goal /\ m.scout \in Epoch /\ es \in Seq(Event)
  BY DEF Tracks, MemOK, Mem, HasGoal
<1>2. CASE MayCommit(m)
  <2> DEFINE k == [rev |-> m.goal.rev, epoch |-> m.scout]
             n == [m EXCEPT !.commit = k, !.gen = m.scout, !.sent = FALSE]
             e == Started(n)
  <2>1. k \in Commitment
    BY <1>1 DEF Commitment, Goal
  <2>2. Commit(m) = Change(n, <<e>>)
    BY <1>2 DEF Commit
  <2> HIDE DEF k
  <2>3. n \in Mem /\ n.commit = k /\ n.sent = FALSE /\ n.goal = m.goal
    BY <1>1, <2>1 DEF MemOK, Mem
  <2> HIDE DEF n
  <2>4. MemOK(n)
    BY <2>3 DEF MemOK, HasGoal
  <2>5. e \in Event /\ e.kind = "started" /\ e.commit = k
    BY <2>1, <2>3 DEF Started, Event, Mem
  <2> HIDE DEF e
  <2>6. Tracks(c, Append(es, e), n)
    BY <2>3, <2>4, <2>5, TracksAppend DEF SameGoal
  <2> QED
    BY <1>1, <2>2, <2>5, <2>6, TrackedChange
<1>3. CASE ~MayCommit(m)
  BY <1>1, <1>3, TrackedKeep DEF Commit, SameGoal
<1> QED
  BY <1>2, <1>3

(* The commitment that an observation leaves is the one a recovery finds.  *)
LEMMA EnsureCommitmentTracked ==
  ASSUME NEW c, NEW es, NEW m, Tracks(c, es, m), NEW o \in Observation,
         NEW desired \in {0} \cup Desired
  PROVE  Tracked(c, es, EnsureCommitment(m, o, desired))
<1>1. MemOK(m) /\ es \in Seq(Event)
  BY DEF Tracks
<1>2. CASE desired = 0
  <2>1. Tracked(c, es, Keep(m))
    BY <1>1, TrackedKeep DEF SameGoal
  <2>2. Tracked(c, es, Terminate(m, "strategic_cancellation"))
    BY TerminateTracked DEF Reason
  <2> QED
    BY <1>2, <2>1, <2>2 DEF EnsureCommitment
<1>3. CASE desired # 0
  <2> DEFINE g == EnsureGoal(m, o, desired)
  <2>1. Tracked(c, es, g) /\ HasGoal(g.mem)
    BY <1>3, EnsureGoalTracked
  <2>2. EnsureCommitment(m, o, desired) = Then(g, Commit(g.mem))
    BY <1>3 DEF EnsureCommitment
  <2> HIDE DEF g
  <2>3. Tracked(c, es \o g.log, Commit(g.mem))
    BY <2>1, CommitTracked DEF Tracked
  <2> QED
    BY <1>1, <2>1, <2>2, <2>3, TrackedThen
<1> QED
  BY <1>2, <1>3

(* The bases of an observation.                                            *)
LEMMA ObserveBasesTracked ==
  ASSUME NEW c, NEW es, NEW m, Tracks(c, es, m), NEW o \in Observation
  PROVE  Tracked(c, es, ObserveBases(m, o))
<1> DEFINE g    == [m.goal EXCEPT !.observed = o.bases, !.epoch = m.scout]
           seen == [m EXCEPT !.goal.observed = o.bases, !.goal.epoch = m.scout]
           end  == Terminate(seen, "desired_base_count_satisfied")
<1>1. MemOK(m) /\ es \in Seq(Event) /\ m.scout \in Epoch /\ o.bases \in Nat
  BY BoundAssumption DEF Tracks, MemOK, Mem, Observation
<1>2. CASE ~HasGoal(m)
  <2>1. ObserveBases(m, o) = Keep(m)
    BY <1>2 DEF ObserveBases
  <2> QED
    BY <1>1, <2>1, TrackedKeep DEF SameGoal
<1>3. CASE HasGoal(m)
  <2>1. m.goal \in Goal
    BY <1>1, <1>3 DEF MemOK, Mem, HasGoal
  <2>2. g \in Goal /\ SameGoal(m.goal, g)
    BY <1>1, <2>1, ObservedSame
  <2>3. seen = [m EXCEPT !.goal = g]
    BY <1>1, <2>1 DEF MemOK, Mem
  <2>4. ObserveBases(m, o) = IF ~m.goal.closed /\ o.bases >= m.goal.desired
                             THEN Then(end, CloseGoal(end.mem)) ELSE Keep(seen)
    BY <1>3 DEF ObserveBases
  <2> HIDE DEF g, seen
  <2>5. MemOK(seen) /\ seen.commit = m.commit /\ SameGoal(m.goal, seen.goal)
    BY <1>1, <2>2, <2>3, GoalChangeOK
  <2>6. Tracks(c, es, seen) /\ Tracked(c, es, Keep(seen))
    BY <2>5, TracksKeep, TrackedKeep
  <2>7. Tracked(c, es, end)
    BY <2>6, TerminateTracked DEF Reason
  <2> HIDE DEF end
  <2>8. Tracked(c, es \o end.log, CloseGoal(end.mem))
    BY <2>7, CloseGoalTracked DEF Tracked
  <2>9. Tracked(c, es, Then(end, CloseGoal(end.mem)))
    BY <1>1, <2>7, <2>8, TrackedThen
  <2> QED
    BY <2>4, <2>6, <2>9
<1> QED
  BY <1>2, <1>3

(* A newer scouting generation.                                            *)
LEMMA ObserveEpochTracked ==
  ASSUME NEW c, NEW es, NEW m, Tracks(c, es, m), NEW o \in Observation
  PROVE  Tracked(c, es, ObserveEpoch(m, o))
<1> DEFINE next == [m EXCEPT !.scout = o.gen,
                             !.gen = IF Open(m) /\ m.gen = 0 THEN o.gen ELSE m.gen]
<1>1. MemOK(m) /\ es \in Seq(Event) /\ o.gen \in Epoch
  BY DEF Tracks, Observation
<1>2. next \in Mem /\ next.commit = m.commit /\ next.goal = m.goal /\ next.sent = m.sent
  BY <1>1 DEF MemOK, Mem
<1>3. ObserveEpoch(m, o) = IF o.gen <= m.scout THEN Keep(m)
                           ELSE IF m.goal.waiting /\ ~m.goal.closed THEN Reopen(next)
                           ELSE Keep(next)
  BY DEF ObserveEpoch
<1> HIDE DEF next
<1>4. MemOK(next)
  BY <1>1, <1>2 DEF MemOK, Open, HasGoal
<1>5. Tracks(c, es, next) /\ Tracked(c, es, Keep(next)) /\ Tracked(c, es, Keep(m))
  BY <1>1, <1>2, <1>4, TracksKeep, TrackedKeep DEF SameGoal
<1>6. ASSUME m.goal.waiting PROVE Tracked(c, es, Reopen(next))
  <2> DEFINE g == [next.goal EXCEPT !.waiting = FALSE, !.cool = 0, !.epoch = next.scout]
             open == [next EXCEPT !.goal.waiting = FALSE, !.goal.cool = 0,
                                  !.goal.epoch = next.scout]
  <2>1. next.goal \in Goal
    BY <1>2, <1>6 DEF Mem, NoGoal
  <2>2. g \in Goal
    <3>1. 0 \in 0 .. Cooldown /\ next.scout \in Epoch
      BY <1>2, BoundAssumption DEF Mem
    <3> QED
      BY <2>1, <3>1 DEF Goal
  <2>3. open = [next EXCEPT !.goal = g]
    BY <1>2, <2>1 DEF Mem
  <2>4. Reopen(next) = Change(open, <<GoalEvent(open)>>)
    BY DEF Reopen
  <2> HIDE DEF g, open
  <2>5. MemOK(open) /\ open.commit = next.commit /\ open.goal \in Goal
    BY <1>4, <2>2, <2>3, GoalChangeOK
  <2> QED
    BY <1>5, <2>4, <2>5, GoalEventTracked
<1> QED
  BY <1>3, <1>5, <1>6

(* What the end of a commitment leaves alone.                              *)
LEMMA TerminateKeeps ==
  ASSUME NEW m, MemOK(m), NEW why \in Reason
  PROVE  /\ Terminate(m, why).mem.goal = m.goal
         /\ Terminate(m, why).mem.commit = NoCommitment
         /\ Terminate(m, why).mem.scout = m.scout
         /\ Terminate(m, why).mem.exhaustedGen = m.exhaustedGen
         /\ MemOK(Terminate(m, why).mem)
BY ReleasedOK DEF Terminate, Change, Keep, Open

(* The end of a search.                                                    *)
LEMMA ExhaustTracked ==
  ASSUME NEW c, NEW es, NEW m, Tracks(c, es, m)
  PROVE  Tracked(c, es, Exhaust(m))
<1> DEFINE m1    == [m EXCEPT !.exhaustedGen = m.scout]
           end   == Terminate(m1, "expansion_candidates_exhausted")
           g     == m.goal
           h     == [g EXCEPT !.exhausted = @ \cup {m.scout}, !.waiting = TRUE,
                              !.budget = IF @ = 0 THEN 0 ELSE @ - 1, !.cool = Cooldown]
           spent == [end.mem EXCEPT !.goal = h]
           paid  == Then(end, Change(spent, <<GoalEvent(spent)>>))
<1>1. MemOK(m) /\ es \in Seq(Event)
  BY DEF Tracks
<1>2. m1 \in Mem /\ m1.commit = m.commit /\ m1.goal = m.goal /\ m1.sent = m.sent
  BY <1>1 DEF MemOK, Mem
<1>3. Exhaust(m) = IF ~HasGoal(m) THEN end
                   ELSE IF spent.goal.budget = 0 THEN Then(paid, CloseGoal(spent)) ELSE paid
  BY DEF Exhaust
<1>4. HasGoal(m) => h \in Goal
  <2> SUFFICES ASSUME HasGoal(m) PROVE h \in Goal
    OBVIOUS
  <2>1. g \in Goal /\ m.scout \in Epoch
    BY <1>1 DEF MemOK, Mem, HasGoal
  <2>2. Budget \in Nat /\ Cooldown \in 0 .. Cooldown
    BY BoundAssumption
  <2>3. (IF g.budget = 0 THEN 0 ELSE g.budget - 1) \in 0 .. Budget
    BY <2>1, <2>2 DEF Goal
  <2>4. g.exhausted \cup {m.scout} \in SUBSET Epoch
    BY <2>1 DEF Goal
  <2> HIDE DEF g
  <2> QED
    BY <2>1, <2>2, <2>3, <2>4 DEF Goal
<1> HIDE DEF m1, h
<1>5. MemOK(m1)
  BY <1>1, <1>2 DEF MemOK, Open, HasGoal
<1>6. Tracks(c, es, m1)
  BY <1>2, <1>5, TracksKeep DEF SameGoal
<1>7. Tracked(c, es, end) /\ MemOK(end.mem)
  BY <1>5, <1>6, TerminateTracked, TerminateKeeps DEF Reason
<1> HIDE DEF end
<1>8. ASSUME HasGoal(m)
      PROVE  Tracked(c, es, paid) /\ Tracked(c, es, Then(paid, CloseGoal(spent)))
  <2>1. MemOK(spent) /\ spent.goal = h /\ spent.commit = end.mem.commit
    BY <1>4, <1>7, <1>8, GoalChangeOK
  <2> HIDE DEF spent
  <2>2. Tracked(c, es \o end.log, Change(spent, <<GoalEvent(spent)>>))
    BY <1>4, <1>7, <1>8, <2>1, GoalEventTracked DEF Tracked
  <2>3. Tracked(c, es, paid) /\ paid.mem = spent
    BY <1>1, <1>7, <2>2, TrackedThen DEF Then, Change
  <2> HIDE DEF paid
  <2>4. Tracked(c, es \o paid.log, CloseGoal(spent))
    BY <2>3, CloseGoalTracked DEF Tracked
  <2> QED
    BY <1>1, <2>3, <2>4, TrackedThen
<1> QED
  BY <1>3, <1>7, <1>8

(* _update_expansion_candidate_state.                                      *)
LEMMA UpdateCandidatesTracked ==
  ASSUME NEW c, NEW es, NEW m, Tracks(c, es, m), NEW o \in Observation
  PROVE  Tracked(c, es, UpdateCandidates(m, o))
<1> DEFINE a == ObserveBases(m, o)
           b == Then(a, ObserveEpoch(a.mem, o))
<1>1. es \in Seq(Event)
  BY DEF Tracks
<1>2. Tracked(c, es, a)
  BY ObserveBasesTracked
<1>3. UpdateCandidates(m, o) = Then(b, ObserveReport(b.mem, o))
  BY DEF UpdateCandidates
<1> HIDE DEF a
<1>4. Tracked(c, es \o a.log, ObserveEpoch(a.mem, o))
  BY <1>2, ObserveEpochTracked DEF Tracked
<1>5. Tracked(c, es, b)
  BY <1>1, <1>2, <1>4, TrackedThen
<1> HIDE DEF b
<1>6. Tracked(c, es \o b.log, ObserveReport(b.mem, o))
  <2>1. Tracks(c, es \o b.log, b.mem)
    BY <1>5 DEF Tracked
  <2>2. Tracked(c, es \o b.log, Keep(b.mem))
    BY <2>1, TrackedKeep DEF Tracks, SameGoal
  <2>3. Tracked(c, es \o b.log, Exhaust(b.mem))
    BY <2>1, ExhaustTracked
  <2> QED
    BY <2>2, <2>3 DEF ObserveReport
<1> QED
  BY <1>1, <1>3, <1>5, <1>6, TrackedThen
-----------------------------------------------------------------------------
(* record_execution, for the townhall command.                             *)
LEMMA ConfirmTracked ==
  ASSUME NEW c, NEW es, NEW m, Tracks(c, es, m)
  PROVE  Tracked(c, es, Confirm(m))
<1> DEFINE end == Terminate(m, "townhall_effect_confirmed")
           g   == m.goal
           h   == [g EXCEPT !.observed = IF @ < g.desired THEN @ + 1 ELSE g.desired]
           n   == [end.mem EXCEPT !.goal.observed = IF @ < g.desired THEN @ + 1 ELSE g.desired]
           d   == [n EXCEPT !.goal.closed = TRUE]
<1>1. MemOK(m) /\ es \in Seq(Event)
  BY DEF Tracks
<1>2. CASE ~Open(m)
  <2>1. Confirm(m) = Keep(m)
    BY <1>2 DEF Confirm
  <2> QED
    BY <1>1, <2>1, TrackedKeep DEF SameGoal
<1>3. CASE Open(m)
  <2>1. g \in Goal
    BY <1>1, <1>3 DEF MemOK, Mem, HasGoal
  <2>2. (IF g.observed < g.desired THEN g.observed + 1 ELSE g.desired) \in Nat
    <3>1. g.observed \in Nat /\ g.desired \in Nat
      BY <2>1, BoundAssumption DEF Goal
    <3> HIDE DEF g
    <3> QED
      BY <3>1
  <2>3. h \in Goal /\ SameGoal(g, h)
    <3>1. 0 \in Epoch
      BY BoundAssumption DEF Epoch
    <3> QED
      BY <2>1, <2>2, <3>1, ObservedSame
  <2>4. Tracked(c, es, end) /\ end.mem.goal = g /\ MemOK(end.mem)
    BY <1>1, TerminateTracked, TerminateKeeps DEF Reason
  <2>5. Confirm(m) = IF n.goal.observed < g.desired THEN Change(n, end.log)
                     ELSE Change(d, end.log \o <<GoalEvent(d)>>)
    BY <1>3 DEF Confirm
  <2> HIDE DEF end
  <2>6. n = [end.mem EXCEPT !.goal = h]
    BY <2>1, <2>4 DEF MemOK, Mem
  <2> HIDE DEF n, h
  <2>7. MemOK(n) /\ n.goal = h /\ n.commit = end.mem.commit
    BY <2>3, <2>4, <2>6, GoalChangeOK
  <2>8. Tracks(c, es \o end.log, n)
    BY <2>3, <2>4, <2>7, TracksKeep DEF Tracked
  <2>9. Tracked(c, es, Change(n, end.log))
    BY <2>4, <2>8 DEF Tracked, Change
  <2>10. Tracked(c, es, Change(d, end.log \o <<GoalEvent(d)>>))
    <3>1. [n.goal EXCEPT !.closed = TRUE] \in Goal
      BY <2>3, <2>7 DEF Goal
    <3>2. d = [n EXCEPT !.goal = [n.goal EXCEPT !.closed = TRUE]]
      BY <2>3, <2>7 DEF MemOK, Mem
    <3> HIDE DEF d
    <3>3. MemOK(d) /\ d.commit = n.commit /\ d.goal \in Goal
      BY <2>7, <3>1, <3>2, GoalChangeOK
    <3>4. Tracked(c, es \o end.log, Change(d, <<GoalEvent(d)>>))
      BY <2>8, <3>3, GoalEventTracked
    <3>5. Tracked(c, es, Then(end, Change(d, <<GoalEvent(d)>>)))
      BY <1>1, <2>4, <3>4, TrackedThen
    <3> QED
      BY <3>5 DEF Then, Change
  <2> QED
    BY <2>5, <2>9, <2>10
<1> QED
  BY <1>2, <1>3

(* A townhall command is dispatched.                                       *)
LEMMA DispatchTracked ==
  ASSUME NEW c, NEW es, NEW m, Tracks(c, es, m)
  PROVE  Tracked(c, es, DispatchTownhall(m))
<1>1. MemOK(m) /\ es \in Seq(Event)
  BY DEF Tracks
<1>2. CASE Open(m) /\ ~m.sent
  <2> DEFINE n == [m EXCEPT !.sent = TRUE]
  <2>1. n \in Mem /\ n.commit = m.commit /\ n.goal = m.goal
    BY <1>1 DEF MemOK, Mem
  <2>2. MemOK(n)
    BY <1>1, <1>2, <2>1 DEF MemOK, Open, HasGoal
  <2>3. Sent \in Event /\ Sent.kind = "dispatched"
    BY DEF Sent, Event
  <2>4. DispatchTownhall(m) = Change(n, <<Sent>>)
    BY <1>2 DEF DispatchTownhall
  <2> HIDE DEF n
  <2>5. Tracks(c, Append(es, Sent), n)
    BY <2>1, <2>2, <2>3, TracksAppend DEF SameGoal
  <2> QED
    BY <1>1, <2>3, <2>4, <2>5, TrackedChange
<1>3. CASE ~(Open(m) /\ ~m.sent)
  <2>1. DispatchTownhall(m) = Keep(m)
    BY <1>3 DEF DispatchTownhall
  <2> QED
    BY <1>1, <2>1, TrackedKeep DEF SameGoal
<1> QED
  BY <1>2, <1>3

(* Time passes for a goal.                                                 *)
LEMMA CoolerType ==
  /\ \A g \in Goal : Cooler(g) \in Goal
  /\ Cooler(NoGoal) = NoGoal
  /\ \A m : MemOK(m) => /\ MemOK(CoolerMem(m)) /\ CoolerMem(m).commit = m.commit
                        /\ CoolerMem(m).goal = Cooler(m.goal)
                        /\ HasGoal(m) => HasGoal(CoolerMem(m))
<1>1. ASSUME NEW g \in Goal PROVE Cooler(g) \in Goal
  <2>1. (IF g.cool = 0 THEN 0 ELSE g.cool - 1) \in 0 .. Cooldown
    BY BoundAssumption DEF Goal
  <2> QED
    BY <2>1 DEF Cooler, Goal
<1>2. Cooler(NoGoal) = NoGoal
  BY DEF Cooler, NoGoal
<1>3. ASSUME NEW m, MemOK(m)
      PROVE  /\ MemOK(CoolerMem(m)) /\ CoolerMem(m).commit = m.commit
             /\ CoolerMem(m).goal = Cooler(m.goal)
             /\ HasGoal(m) => HasGoal(CoolerMem(m))
  <2> DEFINE n == CoolerMem(m)
  <2>1. Cooler(m.goal) \in Goal \cup {NoGoal}
    BY <1>1, <1>2, <1>3 DEF MemOK, Mem
  <2>2. n \in Mem /\ n.commit = m.commit /\ n.goal = Cooler(m.goal) /\ n.sent = m.sent
    BY <1>3, <2>1 DEF CoolerMem, MemOK, Mem
  <2>3. HasGoal(m) => HasGoal(n)
    <3>1. HasGoal(m) => n.goal \in Goal
      BY <1>1, <1>3, <2>2 DEF MemOK, Mem, HasGoal
    <3> QED
      BY <3>1, BoundAssumption DEF HasGoal, NoGoal, Goal
  <2> HIDE DEF n
  <2>4. MemOK(n)
    BY <1>3, <2>2, <2>3 DEF MemOK, Open
  <2> QED
    BY <2>2, <2>3, <2>4 DEF n
<1> QED
  BY <1>1, <1>2, <1>3

(* Time passes for the events.                                             *)
LEMMA CoolerLogFacts ==
  ASSUME NEW es \in Seq(Event)
  PROVE  /\ CoolerLog(es) \in Seq(Event) /\ Len(CoolerLog(es)) = Len(es)
         /\ \A i \in 1 .. Len(es) :
              /\ CoolerLog(es)[i].kind = es[i].kind
              /\ es[i].kind = "goal" => CoolerLog(es)[i].goal = Cooler(es[i].goal)
              /\ es[i].kind # "goal" => CoolerLog(es)[i] = es[i]
         /\ \A kind : LastOf(CoolerLog(es), kind) = LastOf(es, kind)
<1> DEFINE cs == CoolerLog(es)
<1>1. DOMAIN es = 1 .. Len(es) /\ Len(es) \in Nat
  OBVIOUS
<1>2. \A i \in 1 .. Len(es) :
        /\ cs[i] \in Event /\ cs[i].kind = es[i].kind
        /\ es[i].kind = "goal" => cs[i].goal = Cooler(es[i].goal)
        /\ es[i].kind # "goal" => cs[i] = es[i]
  <2> SUFFICES ASSUME NEW i \in 1 .. Len(es)
               PROVE  /\ cs[i] \in Event /\ cs[i].kind = es[i].kind
                      /\ es[i].kind = "goal" => cs[i].goal = Cooler(es[i].goal)
                      /\ es[i].kind # "goal" => cs[i] = es[i]
    OBVIOUS
  <2>1. es[i] \in Event
    OBVIOUS
  <2>2. CASE es[i].kind = "goal"
    <3>1. es[i] \in [kind : {"goal"}, goal : Goal]
      BY <2>1, <2>2 DEF Event
    <3>2. cs[i] = [es[i] EXCEPT !.goal = Cooler(@)]
      BY <1>1, <2>2 DEF CoolerLog
    <3>3. Cooler(es[i].goal) \in Goal
      BY <3>1, CoolerType
    <3>4. cs[i] \in [kind : {"goal"}, goal : Goal] /\ cs[i].goal = Cooler(es[i].goal)
      BY <3>1, <3>2, <3>3
    <3> QED
      BY <2>2, <3>4 DEF Event
  <2>3. CASE es[i].kind # "goal"
    BY <1>1, <2>1, <2>3 DEF CoolerLog
  <2> QED
    BY <2>2, <2>3
<1>3. DOMAIN cs = 1 .. Len(es)
  BY <1>1 DEF CoolerLog
<1>4. cs \in Seq(Event) /\ Len(cs) = Len(es)
  <2>1. cs = [i \in 1 .. Len(es) |-> cs[i]]
    BY <1>1 DEF CoolerLog
  <2> HIDE DEF cs
  <2>2. cs \in [1 .. Len(es) -> Event]
    BY <1>2, <2>1
  <2> QED
    BY <1>1, <2>2, IsASeq, LenProperties
<1> HIDE DEF cs
<1>5. ASSUME NEW kind PROVE LastOf(cs, kind) = LastOf(es, kind)
  <2> DEFINE n == LastOf(es, kind)
  <2>1. /\ n \in 0 .. Len(es) /\ (n # 0 => es[n].kind = kind)
        /\ \A i \in DOMAIN es : es[i].kind = kind => i <= n
    BY LastOfFacts
  <2> HIDE DEF n
  <2>2. LastOf(cs, kind) = n
    BY <1>1, <1>2, <1>3, <1>4, <2>1, LastOfIs
  <2> QED
    BY <2>2 DEF n
<1> QED
  BY <1>2, <1>4, <1>5 DEF cs

(* Time passes for the checkpoint, the log and the memory alike.           *)
LEMMA CoolerTracks ==
  ASSUME NEW c, NEW es, NEW m, Tracks(c, es, m)
  PROVE  Tracks(CoolerMem(c), CoolerLog(es), CoolerMem(m))
<1> DEFINE cs == CoolerLog(es)
           cc == CoolerMem(c)
<1>1. MemOK(m) /\ MemOK(c) /\ es \in Seq(Event)
  BY DEF Tracks
<1>2. /\ MemOK(cc) /\ cc.commit = c.commit /\ cc.goal = Cooler(c.goal)
      /\ MemOK(CoolerMem(m)) /\ CoolerMem(m).commit = m.commit
      /\ CoolerMem(m).goal = Cooler(m.goal)
      /\ HasGoal(c) => HasGoal(cc)
  BY <1>1, CoolerType
<1>3. /\ cs \in Seq(Event) /\ Len(cs) = Len(es)
      /\ \A i \in 1 .. Len(es) :
           /\ cs[i].kind = es[i].kind
           /\ es[i].kind = "goal" => cs[i].goal = Cooler(es[i].goal)
           /\ es[i].kind # "goal" => cs[i] = es[i]
      /\ \A kind : LastOf(cs, kind) = LastOf(es, kind)
  BY <1>1, CoolerLogFacts
<1>4. DOMAIN es = 1 .. Len(es) /\ DOMAIN cs = 1 .. Len(es) /\ Len(es) \in Nat
  BY <1>1, <1>3
<1>5. \A kind : /\ LastOf(es, kind) \in 0 .. Len(es)
                /\ LastOf(es, kind) # 0 => es[LastOf(es, kind)].kind = kind
  BY <1>1, LastOfFacts
<1> HIDE DEF cs, cc
<1>6. CommitAfter(cc, cs) = CommitAfter(c, es)
  <2> DEFINE s == LastOf(es, "started")
             t == LastOf(es, "terminal")
  <2>1. s \in 0 .. Len(es) /\ t \in 0 .. Len(es) /\ (s # 0 => es[s].kind = "started")
        /\ LastOf(cs, "started") = s /\ LastOf(cs, "terminal") = t
    BY <1>3, <1>5
  <2> HIDE DEF s, t
  <2>2. s > t => cs[s] = es[s]
    BY <1>3, <1>4, <2>1
  <2>3. CommitAfter(cc, cs) = IF s > t THEN cs[s].commit
                              ELSE IF t > 0 THEN NoCommitment ELSE cc.commit
    BY <2>1 DEF CommitAfter
  <2>4. CommitAfter(c, es) = IF s > t THEN es[s].commit
                             ELSE IF t > 0 THEN NoCommitment ELSE c.commit
    BY DEF CommitAfter, s, t
  <2> QED
    BY <1>2, <2>2, <2>3, <2>4
<1>7. GoalAfter(cc, cs) = Cooler(GoalAfter(c, es))
  <2> DEFINE g == LastOf(es, "goal")
  <2>1. g \in 0 .. Len(es) /\ (g # 0 => es[g].kind = "goal") /\ LastOf(cs, "goal") = g
    BY <1>3, <1>5
  <2> HIDE DEF g
  <2>2. g # 0 => cs[g].goal = Cooler(es[g].goal)
    BY <1>3, <1>4, <2>1
  <2>3. GoalAfter(cc, cs) = IF g = 0 THEN cc.goal ELSE cs[g].goal
    BY <2>1 DEF GoalAfter
  <2>4. GoalAfter(c, es) = IF g = 0 THEN c.goal ELSE es[g].goal
    BY DEF GoalAfter, g
  <2> QED
    BY <1>2, <2>2, <2>3, <2>4
<1>8. SameGoal(Cooler(GoalAfter(c, es)), Cooler(m.goal))
  <2>1. GoalAfter(c, es) \in Goal \cup {NoGoal} /\ m.goal \in Goal \cup {NoGoal}
    BY <1>1, GoalAfterType DEF MemOK, Mem
  <2>2. SameGoal(GoalAfter(c, es), m.goal)
    BY DEF Tracks
  <2>3. \A g \in Goal \cup {NoGoal} :
          [Cooler(g) EXCEPT !.observed = 0, !.epoch = 0]
            = Cooler([g EXCEPT !.observed = 0, !.epoch = 0])
    BY DEF Cooler, Goal, NoGoal
  <2> QED
    BY <2>1, <2>2, <2>3 DEF SameGoal
<1>9. Introduced(cc, cs)
  <2> SUFFICES ASSUME NEW i \in 1 .. Len(es), cs[i].kind = "started"
               PROVE  HasGoal(cc) \/ \E j \in 1 .. i : cs[j].kind = "goal"
    BY <1>4 DEF Introduced
  <2>1. es[i].kind = "started"
    BY <1>3
  <2>2. HasGoal(c) \/ \E j \in 1 .. i : es[j].kind = "goal"
    BY <1>4, <2>1 DEF Tracks, Introduced
  <2>3. \A j \in 1 .. i : es[j].kind = "goal" => cs[j].kind = "goal"
    BY <1>3, <1>4
  <2> QED
    BY <1>2, <2>2, <2>3
<1> QED
  BY <1>2, <1>3, <1>6, <1>7, <1>8, <1>9 DEF Tracks, cs, cc
-----------------------------------------------------------------------------
(* A recovery from a checkpoint alone finds the checkpoint.                *)
LEMMA TracksCheckpoint ==
  ASSUME NEW m, MemOK(m)
  PROVE  Tracks(m, <<>>, m)
<1>1. <<>> \in Seq(Event) /\ DOMAIN <<>> = {} /\ Len(<<>>) = 0
  OBVIOUS
<1>2. CommitAfter(m, <<>>) = m.commit /\ GoalAfter(m, <<>>) = m.goal
  BY LastOfEmpty DEF CommitAfter, GoalAfter
<1>3. Introduced(m, <<>>)
  BY <1>1 DEF Introduced
<1> QED
  BY <1>1, <1>2, <1>3 DEF Tracks, SameGoal

(* The initial state.                                                      *)
LEMMA RecoveryInit == Init => RecoveryInv
<1> SUFFICES ASSUME Init PROVE RecoveryInv
  OBVIOUS
<1>1. 0 \in Epoch /\ MaxLog \in Nat
  BY BoundAssumption DEF Epoch
<1>2. MemOK(InitMem)
  BY <1>1 DEF InitMem, MemOK, Mem, Open, HasGoal
<1>3. Tracks(InitMem, <<>>, InitMem)
  BY <1>2, TracksCheckpoint
<1> QED
  BY <1>1, <1>3 DEF Init, RecoveryInv

(* A tick, with or without a checkpoint at its end.                        *)
LEMMA RecoveryTick ==
  ASSUME RecoveryInv, NEW o \in Observation, NEW desired \in {NoPlan, 0} \cup Desired,
         Tick(o, desired)
  PROVE  RecoveryInv'
<1> DEFINE C  == CoolerMem(checkpoint)
           L  == CoolerLog(log)
           a  == Keep(CoolerMem(mem))
           b  == IF desired = NoPlan THEN a ELSE EnsureCommitment(a.mem, o, desired)
           u  == Then(b, UpdateCandidates(b.mem, o))
<1>1. Tracks(C, L, CoolerMem(mem)) /\ L \in Seq(Event)
  BY CoolerTracks DEF RecoveryInv, Tracks
<1>2. Tracked(C, L, a) /\ a.mem = CoolerMem(mem)
  BY <1>1, TrackedKeep DEF Tracks, SameGoal, Keep, Change
<1>3. Tracked(C, L, b)
  BY <1>1, <1>2, EnsureCommitmentTracked
<1>4. PICK send \in BOOLEAN :
        LET d == IF send THEN Then(u, DispatchTownhall(u.mem)) ELSE u
        IN  /\ mem' = d.mem
            /\ \/ checkpoint' = d.mem /\ log' = <<>>
               \/ /\ checkpoint' = C
                  /\ log' = L \o d.log
                  /\ Len(log') <= MaxLog
  BY DEF Tick
<1>5. epoch' \in Epoch
  BY DEF Tick, Observation
<1> HIDE DEF C, L, a, b
<1>6. Tracked(C, L \o b.log, UpdateCandidates(b.mem, o))
  BY <1>3, UpdateCandidatesTracked DEF Tracked
<1>7. Tracked(C, L, u)
  BY <1>1, <1>3, <1>6, TrackedThen
<1> HIDE DEF u
<1>8. Tracked(C, L, Then(u, DispatchTownhall(u.mem)))
  <2>1. Tracked(C, L \o u.log, DispatchTownhall(u.mem))
    BY <1>7, DispatchTracked DEF Tracked
  <2> QED
    BY <1>1, <1>7, <2>1, TrackedThen
<1> DEFINE d == IF send THEN Then(u, DispatchTownhall(u.mem)) ELSE u
<1>9. Tracked(C, L, d)
  BY <1>7, <1>8
<1>10. /\ mem' = d.mem
       /\ \/ checkpoint' = d.mem /\ log' = <<>>
          \/ /\ checkpoint' = C
             /\ log' = L \o d.log
             /\ Len(log') <= MaxLog
  BY <1>4
<1> HIDE DEF d
<1>11. Tracks(C, L \o d.log, d.mem) /\ Tracks(d.mem, <<>>, d.mem)
  BY <1>9, TracksCheckpoint DEF Tracked, Tracks
<1>12. Tracks(checkpoint', log', mem') /\ Len(log') <= MaxLog
  <2>1. Len(<<>>) = 0 /\ 0 <= MaxLog
    BY BoundAssumption
  <2> QED
    BY <1>10, <1>11, <2>1
<1> QED
  BY <1>5, <1>12 DEF RecoveryInv

(* A report.                                                               *)
LEMMA RecoveryReport ==
  ASSUME RecoveryInv, NEW succeeded \in BOOLEAN, Report(succeeded)
  PROVE  RecoveryInv'
<1> DEFINE d == IF succeeded THEN Confirm(mem) ELSE Keep(mem)
<1>1. Tracked(checkpoint, log, d)
  BY ConfirmTracked, TrackedKeep DEF RecoveryInv, Tracks, SameGoal
<1>2. mem' = d.mem /\ log' = log \o d.log /\ Len(log') <= MaxLog
      /\ UNCHANGED <<checkpoint, epoch>>
  BY DEF Report
<1> HIDE DEF d
<1> QED
  BY <1>1, <1>2 DEF RecoveryInv, Tracked

(* The end of the episode.                                                 *)
LEMMA RecoveryEnd ==
  ASSUME RecoveryInv, EndEpisode
  PROVE  RecoveryInv'
<1>1. MemOK(mem')
  BY TerminateKeeps DEF RecoveryInv, Tracks, EndEpisode, Reason
<1>2. Tracks(checkpoint', log', mem')
  BY <1>1, TracksCheckpoint DEF EndEpisode
<1>3. Len(log') <= MaxLog
  BY BoundAssumption DEF EndEpisode
<1> QED
  BY <1>2, <1>3 DEF RecoveryInv, EndEpisode

(* A restart that loses the last events of the log.                        *)
LEMMA RecoveryCrash ==
  ASSUME RecoveryInv, NEW n \in 0 .. MaxLog, Crash(n)
  PROVE  RecoveryInv'
<1>1. /\ MemOK(checkpoint) /\ log \in Seq(Event) /\ Introduced(checkpoint, log)
      /\ Len(log) <= MaxLog /\ Len(log) \in Nat
  BY DEF RecoveryInv, Tracks
<1>2. /\ n \in 0 .. Len(log) /\ log' = SubSeq(log, 1, n)
      /\ mem' = Recovered(checkpoint, log') /\ UNCHANGED <<checkpoint, epoch>>
  BY DEF Crash
<1>3. log' \in Seq(Event) /\ Len(log') = n /\ \A i \in 1 .. n : log'[i] = log[i]
  BY <1>1, <1>2
<1>4. Introduced(checkpoint, log')
  <2> SUFFICES ASSUME NEW i \in 1 .. n, log'[i].kind = "started"
               PROVE  HasGoal(checkpoint) \/ \E j \in 1 .. i : log'[j].kind = "goal"
    BY <1>3 DEF Introduced
  <2>1. i \in DOMAIN log /\ log[i].kind = "started"
    BY <1>1, <1>2, <1>3
  <2>2. HasGoal(checkpoint) \/ \E j \in 1 .. i : log[j].kind = "goal"
    BY <1>1, <2>1 DEF Introduced
  <2>3. \A j \in 1 .. i : log'[j] = log[j]
    BY <1>2, <1>3
  <2> QED
    BY <2>2, <2>3
<1>5. MemOK(mem')
  BY <1>1, <1>2, <1>3, <1>4, RecoveredOK
<1>6. /\ mem'.commit = CommitAfter(checkpoint, log')
      /\ mem'.goal = GoalAfter(checkpoint, log')
  BY <1>1, <1>2, <1>3, RecoveredParts
<1>7. Tracks(checkpoint, log', mem')
  BY <1>1, <1>3, <1>4, <1>5, <1>6 DEF Tracks, SameGoal
<1>8. Len(log') <= MaxLog
  BY <1>1, <1>2, <1>3
<1> QED
  BY <1>2, <1>7, <1>8 DEF RecoveryInv

(* The invariant of the recovery holds in every reachable state.           *)
LEMMA RecoveryInvariant == Spec => []RecoveryInv
<1>1. RecoveryInv /\ [Next]_vars => RecoveryInv'
  <2> SUFFICES ASSUME RecoveryInv, [Next]_vars PROVE RecoveryInv'
    OBVIOUS
  <2>1. CASE UNCHANGED vars
    BY <2>1 DEF RecoveryInv, vars
  <2> QED
    BY <2>1, RecoveryTick, RecoveryReport, RecoveryEnd, RecoveryCrash DEF Next
<1> QED
  BY <1>1, RecoveryInit, PTL DEF Spec

(* The memory of the engine is well typed, through checkpoints, lost       *)
(* events and recoveries (ExpansionGoalState, _recover_cortex_episode).    *)
THEOREM TypeCorrect == Spec => []TypeOK
<1>1. RecoveryInv => TypeOK
  <2> SUFFICES ASSUME RecoveryInv PROVE TypeOK
    OBVIOUS
  <2>1. MemOK(mem) /\ Len(log) <= MaxLog
    BY DEF RecoveryInv, Tracks
  <2>2. mem.commit \in [rev : Nat, epoch : {-1} \cup Epoch]
    BY <2>1 DEF MemOK, Mem, Commitment, NoCommitment
  <2> QED
    BY <2>1, <2>2 DEF TypeOK, MemOK, Mem
<1> QED
  BY <1>1, RecoveryInvariant, PTL

(* A restart that loses nothing continues the same commitment, wherever    *)
(* the checkpoint was taken (_recover_cortex_episode).                     *)
THEOREM CommitmentRecovers == Spec => []RecoversCommitment
<1>1. RecoveryInv => RecoversCommitment
  BY RecoveredParts DEF RecoveryInv, Tracks, RecoversCommitment, Recovery
<1> QED
  BY <1>1, RecoveryInvariant, PTL

(* A restart that loses nothing continues the same goal: its revision,     *)
(* exhausted epochs, retry budget, cooldown and phase are those of the     *)
(* engine that died (_recover_cortex_episode).                             *)
THEOREM GoalRecovers == Spec => []RecoversGoal
<1>1. RecoveryInv => RecoversGoal
  BY RecoveredParts DEF RecoveryInv, Tracks, RecoversGoal, Recovery, SameGoal
<1> QED
  BY <1>1, RecoveryInvariant, PTL
-----------------------------------------------------------------------------
(* A change that does not concern what is paid.                            *)
LEMMA PaidSame ==
  ASSUME NEW m, NEW n, Paid(m),
         n.exhaustedGen = m.exhaustedGen, n.scout = m.scout, Open(n) => Open(m),
         HasGoal(n) => /\ HasGoal(m)
                       /\ n.goal.budget = m.goal.budget
                       /\ n.goal.exhausted = m.goal.exhausted
                       /\ m.goal.closed => n.goal.closed
  PROVE  Paid(n)
BY DEF Paid

(* The budget, the epochs and the memory that a change starts from.        *)
LEMMA PaidTypes ==
  ASSUME NEW m, MemOK(m)
  PROVE  /\ m.scout \in Nat /\ m.exhaustedGen \in Int /\ m \in Mem
         /\ HasGoal(m) => /\ m.goal \in Goal /\ m.goal.budget \in Nat
                          /\ m.goal.exhausted \subseteq Nat
                          /\ IsFiniteSet(m.goal.exhausted)
<1>1. Epoch \subseteq Nat /\ {-1} \cup Epoch \subseteq Int /\ MaxEpoch \in Int
  BY BoundAssumption DEF Epoch
<1>2. m \in Mem /\ m.scout \in Nat /\ m.exhaustedGen \in Int
  BY <1>1 DEF MemOK, Mem
<1>3. HasGoal(m) => m.goal \in Goal
  BY DEF MemOK, Mem, HasGoal
<1>4. HasGoal(m) => m.goal.budget \in Nat /\ m.goal.exhausted \in SUBSET Epoch
  BY <1>3, BoundAssumption DEF Goal
<1>5. IsFiniteSet(Epoch)
  BY <1>1, FS_Interval DEF Epoch
<1> QED
  BY <1>1, <1>2, <1>3, <1>4, <1>5, FS_Subset

(* The end of a commitment costs nothing.                                  *)
LEMMA TerminatePaid ==
  ASSUME NEW m, MemOK(m), Paid(m), NEW why \in Reason
  PROVE  Paid(Terminate(m, why).mem)
<1> DEFINE n == Terminate(m, why).mem
<1>1. n.goal = m.goal /\ n.commit = NoCommitment /\ n.scout = m.scout
      /\ n.exhaustedGen = m.exhaustedGen
  BY TerminateKeeps
<1> HIDE DEF n
<1>2. Paid(n)
  BY <1>1, PaidSame DEF Open, HasGoal
<1> QED
  BY <1>2 DEF n

(* Nor does the end of a goal.                                             *)
LEMMA CloseGoalPaid ==
  ASSUME NEW m, MemOK(m), Paid(m)
  PROVE  Paid(CloseGoal(m).mem)
<1>1. CASE HasGoal(m) /\ ~m.goal.closed
  <2> DEFINE n == [m EXCEPT !.goal.closed = TRUE]
  <2>1. m \in Mem /\ m.goal \in Goal
    BY <1>1, PaidTypes
  <2>2. /\ n.exhaustedGen = m.exhaustedGen /\ n.scout = m.scout /\ n.commit = m.commit
        /\ n.goal.budget = m.goal.budget /\ n.goal.exhausted = m.goal.exhausted
        /\ n.goal.closed
    BY <2>1 DEF Mem, Goal
  <2> HIDE DEF n
  <2>3. Paid(n)
    BY <1>1, <2>2, PaidSame DEF Open
  <2> QED
    BY <1>1, <2>3 DEF CloseGoal, Change, n
<1>2. CASE ~(HasGoal(m) /\ ~m.goal.closed)
  BY <1>2 DEF CloseGoal, Keep, Change
<1> QED
  BY <1>1, <1>2

(* A new goal has its whole budget.                                        *)
LEMMA NewGoalPaid ==
  ASSUME NEW m, MemOK(m), Paid(m), NEW o \in Observation, NEW desired \in Desired
  PROVE  Paid(NewGoal(m, o, desired).mem)
<1> DEFINE g == [NoGoal EXCEPT !.rev = m.goal.rev + 1, !.desired = desired,
                               !.observed = o.bases, !.epoch = m.scout, !.budget = Budget]
           n == [m EXCEPT !.goal = g]
<1>1. g.budget = Budget /\ g.exhausted = {}
  BY DEF NoGoal
<1>2. NewGoal(m, o, desired).mem = n
  BY DEF NewGoal, Change
<1> HIDE DEF g
<1>3. n.goal = g /\ n.scout = m.scout /\ n.exhaustedGen = m.exhaustedGen /\ n.commit = m.commit
  BY DEF MemOK, Mem
<1> HIDE DEF n
<1>4. Paid(n)
  <2>1. Budget = Budget - Cardinality({}) /\ Budget # 0
    BY BoundAssumption, FS_EmptySet
  <2> QED
    BY <1>1, <1>3, <2>1 DEF Paid, Open
<1> QED
  BY <1>2, <1>4

(* Another number of bases, or the same goal in a later epoch.             *)
LEMMA SeenPaid ==
  ASSUME NEW m, MemOK(m), Paid(m), HasGoal(m), NEW b, NEW e
  PROVE  /\ Paid([m EXCEPT !.goal.observed = b])
         /\ Paid([m EXCEPT !.goal.observed = b, !.goal.epoch = e])
<1>1. m \in Mem /\ m.goal \in Goal
  BY PaidTypes
<1>2. ASSUME NEW n \in {[m EXCEPT !.goal.observed = b],
                        [m EXCEPT !.goal.observed = b, !.goal.epoch = e]}
      PROVE  Paid(n)
  <2>1. n.exhaustedGen = m.exhaustedGen /\ n.scout = m.scout /\ n.commit = m.commit
    BY <1>1, <1>2 DEF Mem
  <2>2. n.goal \in {[m.goal EXCEPT !.observed = b], [m.goal EXCEPT !.observed = b, !.epoch = e]}
    BY <1>1, <1>2 DEF Mem
  <2>3. /\ n.goal.budget = m.goal.budget /\ n.goal.exhausted = m.goal.exhausted
        /\ n.goal.closed = m.goal.closed
    BY <1>1, <2>2 DEF Goal
  <2> QED
    BY <2>1, <2>3, PaidSame DEF Open
<1> QED
  BY <1>2

(* _ensure_expansion_commitment: what it opens is of an epoch that was not *)
(* exhausted, for a goal with a budget.                                    *)
LEMMA EnsureCommitmentPaid ==
  ASSUME NEW m, MemOK(m), Paid(m), NEW o \in Observation, NEW desired \in {0} \cup Desired
  PROVE  Paid(EnsureCommitment(m, o, desired).mem)
<1>1. CASE desired = 0
  <2>1. Paid(Terminate(m, "strategic_cancellation").mem)
    BY TerminatePaid DEF Reason
  <2> QED
    BY <1>1, <2>1 DEF EnsureCommitment, Keep, Change
<1>2. CASE desired # 0
  <2> DEFINE g == EnsureGoal(m, o, desired)
             k == g.mem
  <2>1. MemOK(k) /\ HasGoal(k)
    BY <1>2, EnsureGoalTracked, TracksCheckpoint DEF Tracked, Tracks
  <2>2. Paid(k)
    <3> DEFINE seen == [m EXCEPT !.goal.observed = o.bases]
    <3>1. CASE ~HasGoal(m)
      <4>1. g = NewGoal(m, o, desired)
        BY <3>1 DEF EnsureGoal
      <4> QED
        BY <1>2, <4>1, NewGoalPaid
    <3>2. CASE HasGoal(m)
      <4>1. MemOK(seen) /\ Paid(seen)
        BY <3>2, SeenPaid, SeenTracks, TracksCheckpoint DEF Tracks
      <4>2. m.goal.desired \in Nat /\ o.bases \in Nat
        BY <3>2, PaidTypes, BoundAssumption DEF Goal, Observation
      <4>3. \/ g = CloseGoal(seen) \/ g = NewGoal(seen, o, desired) \/ g = Keep(seen)
        <5>1. CASE o.bases >= m.goal.desired
          BY <3>2, <4>2, <5>1 DEF EnsureGoal
        <5>2. CASE o.bases < m.goal.desired
          BY <3>2, <4>2, <5>2 DEF EnsureGoal
        <5> QED
          BY <4>2, <5>1, <5>2
      <4> HIDE DEF seen, g
      <4> QED
        BY <1>2, <4>1, <4>3, CloseGoalPaid, NewGoalPaid DEF Keep, Change
    <3> QED
      BY <3>1, <3>2
  <2>3. EnsureCommitment(m, o, desired).mem = Commit(k).mem
    BY <1>2 DEF EnsureCommitment, Then, Change
  <2> HIDE DEF g, k
  <2>4. CASE MayCommit(k)
    <3> DEFINE n == [k EXCEPT !.commit = [rev |-> k.goal.rev, epoch |-> k.scout],
                              !.gen = k.scout, !.sent = FALSE]
    <3>1. Commit(k).mem = n
      BY <2>4 DEF Commit, Change
    <3>2. n.goal = k.goal /\ n.scout = k.scout /\ n.exhaustedGen = k.exhaustedGen
      BY <2>1 DEF MemOK, Mem
    <3> HIDE DEF n
    <3>3. Paid(n)
      BY <2>1, <2>2, <2>4, <3>2 DEF Paid, MayCommit, HasGoal
    <3> QED
      BY <2>3, <3>1, <3>3
  <2>5. CASE ~MayCommit(k)
    BY <2>2, <2>3, <2>5 DEF Commit, Keep, Change
  <2> QED
    BY <2>4, <2>5
<1> QED
  BY <1>1, <1>2

(* The bases of an observation cost nothing.                               *)
LEMMA ObserveBasesPaid ==
  ASSUME NEW m, MemOK(m), Paid(m), NEW o \in Observation
  PROVE  Paid(ObserveBases(m, o).mem)
<1> DEFINE seen == [m EXCEPT !.goal.observed = o.bases, !.goal.epoch = m.scout]
           end  == Terminate(seen, "desired_base_count_satisfied")
<1>1. CASE ~HasGoal(m)
  BY <1>1 DEF ObserveBases, Keep, Change
<1>2. CASE HasGoal(m)
  <2>1. Paid(seen)
    BY <1>2, SeenPaid
  <2>2. MemOK(seen)
    <3> DEFINE g == [m.goal EXCEPT !.observed = o.bases, !.epoch = m.scout]
    <3>1. m.goal \in Goal /\ m \in Mem /\ m.scout \in Epoch /\ o.bases \in Nat
      BY <1>2, PaidTypes, BoundAssumption DEF Mem, Observation
    <3>2. g \in Goal
      BY <3>1, ObservedSame
    <3>3. seen = [m EXCEPT !.goal = g]
      BY <3>1 DEF Mem
    <3> HIDE DEF g, seen
    <3> QED
      BY <3>2, <3>3, GoalChangeOK
  <2>3. ObserveBases(m, o).mem = IF ~m.goal.closed /\ o.bases >= m.goal.desired
                                 THEN CloseGoal(end.mem).mem ELSE seen
    BY <1>2 DEF ObserveBases, Then, Keep, Change
  <2> HIDE DEF seen
  <2>4. MemOK(end.mem) /\ Paid(end.mem)
    BY <2>1, <2>2, TerminateKeeps, TerminatePaid DEF Reason
  <2> HIDE DEF end
  <2> QED
    BY <2>1, <2>3, <2>4, CloseGoalPaid
<1> QED
  BY <1>1, <1>2

(* A newer generation was not exhausted yet.                               *)
LEMMA ObserveEpochPaid ==
  ASSUME NEW m, MemOK(m), Paid(m), NEW o \in Observation
  PROVE  Paid(ObserveEpoch(m, o).mem)
<1> DEFINE next == [m EXCEPT !.scout = o.gen,
                             !.gen = IF Open(m) /\ m.gen = 0 THEN o.gen ELSE m.gen]
           open == [next EXCEPT !.goal.waiting = FALSE, !.goal.cool = 0,
                                !.goal.epoch = next.scout]
<1>1. m \in Mem /\ m.scout \in Nat /\ m.exhaustedGen \in Int /\ o.gen \in Nat
      /\ (HasGoal(m) => m.goal \in Goal /\ m.goal.exhausted \subseteq Nat)
  BY PaidTypes, BoundAssumption DEF Observation, Epoch
<1>2. /\ next.goal = m.goal /\ next.commit = m.commit /\ next.scout = o.gen
      /\ next.exhaustedGen = m.exhaustedGen /\ DOMAIN next = DOMAIN m
  BY <1>1 DEF Mem
<1>3. ObserveEpoch(m, o).mem = IF o.gen <= m.scout THEN m
                               ELSE IF m.goal.waiting /\ ~m.goal.closed THEN open
                               ELSE next
  BY DEF ObserveEpoch, Reopen, Keep, Change
<1>4. m.goal.waiting => HasGoal(m)
  BY DEF HasGoal, NoGoal
<1> HIDE DEF next
<1>5. ~(o.gen <= m.scout) => Paid(next)
  <2> SUFFICES ASSUME o.gen > m.scout PROVE Paid(next)
    BY <1>1
  <2>1. next.exhaustedGen <= next.scout /\ next.exhaustedGen # next.scout
    BY <1>1, <1>2 DEF Paid
  <2>2. HasGoal(next) => \A e \in next.goal.exhausted : e <= next.scout /\ e # next.scout
    BY <1>1, <1>2 DEF Paid, HasGoal
  <2> QED
    BY <1>2, <2>1, <2>2 DEF Paid, HasGoal, Open
<1>6. ~(o.gen <= m.scout) /\ m.goal.waiting => Paid(open)
  <2> SUFFICES ASSUME Paid(next), m.goal.waiting PROVE Paid(open)
    BY <1>5
  <2>1. /\ open.commit = next.commit /\ open.scout = next.scout
        /\ open.exhaustedGen = next.exhaustedGen
        /\ open.goal.budget = next.goal.budget /\ open.goal.exhausted = next.goal.exhausted
        /\ open.goal.closed = next.goal.closed
    BY <1>1, <1>2, <1>4 DEF Mem, Goal
  <2>2. HasGoal(next)
    BY <1>2, <1>4 DEF HasGoal
  <2> HIDE DEF open
  <2> QED
    BY <2>1, <2>2, PaidSame DEF Open
<1> QED
  BY <1>3, <1>5, <1>6

(* The end of a search takes one retry for one more exhausted epoch.       *)
LEMMA ExhaustPaid ==
  ASSUME NEW m, MemOK(m), Paid(m), Open(m)
  PROVE  Paid(Exhaust(m).mem)
<1> DEFINE m1    == [m EXCEPT !.exhaustedGen = m.scout]
           end   == Terminate(m1, "expansion_candidates_exhausted")
           g     == m.goal
           h     == [g EXCEPT !.exhausted = @ \cup {m.scout}, !.waiting = TRUE,
                              !.budget = IF @ = 0 THEN 0 ELSE @ - 1, !.cool = Cooldown]
           spent == [end.mem EXCEPT !.goal = h]
           last  == [spent EXCEPT !.goal.closed = TRUE]
<1>1. m \in Mem /\ HasGoal(m) /\ g \in Goal /\ g.budget \in Nat /\ g.exhausted \subseteq Nat
      /\ IsFiniteSet(g.exhausted) /\ m.scout \in Nat
  BY PaidTypes DEF MemOK
<1>2. m1 \in Mem /\ m1.commit = m.commit /\ m1.goal = m.goal /\ m1.sent = m.sent
      /\ m1.scout = m.scout /\ m1.exhaustedGen = m.scout
  BY <1>1 DEF Mem
<1>3. m.scout \notin g.exhausted /\ g.budget # 0
      /\ g.budget = Budget - Cardinality(g.exhausted)
      /\ \A e \in g.exhausted : e <= m.scout
  BY <1>1 DEF Paid
<1>4. /\ h.exhausted = g.exhausted \cup {m.scout} /\ h.budget = g.budget - 1
      /\ h.closed = g.closed
  BY <1>1, <1>3 DEF Goal
<1>5. Cardinality(h.exhausted) = Cardinality(g.exhausted) + 1
      /\ Cardinality(g.exhausted) \in Nat
  BY <1>1, <1>3, <1>4, FS_AddElement, FS_CardinalityType
<1>6. h.budget = Budget - Cardinality(h.exhausted)
  BY <1>1, <1>3, <1>4, <1>5, BoundAssumption
<1>7. Exhaust(m).mem = IF spent.goal.budget = 0 THEN CloseGoal(spent).mem ELSE spent
  BY <1>1 DEF Exhaust, Then, Change
<1> HIDE DEF m1, h
<1>8. MemOK(m1)
  BY <1>2, MemOK(m) DEF MemOK, Open, HasGoal
<1>9. end.mem.commit = NoCommitment /\ end.mem.scout = m.scout
      /\ end.mem.exhaustedGen = m.scout /\ MemOK(end.mem)
  BY <1>2, <1>8, TerminateKeeps DEF Reason
<1> HIDE DEF end
<1>10. spent.goal = h /\ spent.commit = NoCommitment /\ spent.scout = m.scout
       /\ spent.exhaustedGen = m.scout /\ DOMAIN spent = DOMAIN end.mem
  BY <1>9 DEF MemOK, Mem
<1> HIDE DEF spent
<1>11. ASSUME spent.goal.budget # 0 PROVE Paid(spent)
  BY <1>1, <1>3, <1>4, <1>6, <1>10, <1>11 DEF Paid, Open
<1>12. ASSUME spent.goal.budget = 0 PROVE Paid(CloseGoal(spent).mem)
  <2>1. g \in Goal /\ DOMAIN h = DOMAIN g
    BY <1>1 DEF h
  <2>2. last.goal.budget = h.budget /\ last.goal.exhausted = h.exhausted
        /\ last.goal.closed /\ last.commit = NoCommitment /\ last.scout = m.scout
        /\ last.exhaustedGen = m.scout
    BY <1>9, <1>10, <2>1 DEF MemOK, Mem, Goal
  <2>3. Paid(last)
    <3> HIDE DEF last
    <3> QED BY <1>1, <1>3, <1>4, <1>6, <2>2 DEF Paid, Open
  <2>4. h.desired # 0
    BY <1>1, BoundAssumption DEF h, Goal
  <2>5. HasGoal(spent)
    BY <1>10, <2>4 DEF HasGoal, NoGoal
  <2>6. CASE ~spent.goal.closed
    BY <2>3, <2>5, <2>6 DEF CloseGoal, Change
  <2>7. CASE spent.goal.closed
    <3>1. CloseGoal(spent).mem = spent
      BY <2>7 DEF CloseGoal, Keep, Change
    <3>2. Paid(spent)
      <4>1. ~Open(spent) /\ spent.exhaustedGen <= spent.scout
            /\ spent.exhaustedGen = spent.scout
        BY <1>1, <1>10 DEF Open
      <4>2. spent.goal.budget = Budget - Cardinality(spent.goal.exhausted)
        BY <1>6, <1>10
      <4>3. \A e \in h.exhausted : e <= m.scout
        BY <1>1, <1>3, <1>4
      <4>4. \A e \in spent.goal.exhausted : e <= spent.scout
        BY <1>10, <4>3
      <4> QED
        BY <2>7, <4>1, <4>2, <4>4, Zenon DEF Paid
    <3> QED
      BY <3>1, <3>2
  <2> QED
    BY <2>6, <2>7
<1> QED
  BY <1>7, <1>11, <1>12

(* _update_expansion_candidate_state.                                      *)
LEMMA UpdateCandidatesPaid ==
  ASSUME NEW m, MemOK(m), Paid(m), NEW o \in Observation
  PROVE  Paid(UpdateCandidates(m, o).mem)
<1> DEFINE a == ObserveBases(m, o)
           b == ObserveEpoch(a.mem, o)
<1>1. MemOK(a.mem) /\ Paid(a.mem)
  BY ObserveBasesPaid, ObserveBasesTracked, TracksCheckpoint DEF Tracked, Tracks
<1>2. UpdateCandidates(m, o).mem = ObserveReport(b.mem, o).mem
  BY DEF UpdateCandidates, Then, Change
<1> HIDE DEF a
<1>3. MemOK(b.mem) /\ Paid(b.mem)
  BY <1>1, ObserveEpochPaid, ObserveEpochTracked, TracksCheckpoint DEF Tracked, Tracks
<1> HIDE DEF b
<1>4. Paid(ObserveReport(b.mem, o).mem)
  BY <1>3, ExhaustPaid DEF ObserveReport, Keep, Change
<1> QED
  BY <1>2, <1>4

(* Neither a dispatch nor a report costs a retry.                          *)
LEMMA ReportPaid ==
  ASSUME NEW m, MemOK(m), Paid(m)
  PROVE  Paid(DispatchTownhall(m).mem) /\ Paid(Confirm(m).mem)
<1>1. Paid(DispatchTownhall(m).mem)
  <2> DEFINE n == [m EXCEPT !.sent = TRUE]
  <2>1. /\ n.goal = m.goal /\ n.commit = m.commit /\ n.scout = m.scout
        /\ n.exhaustedGen = m.exhaustedGen
    BY DEF MemOK, Mem
  <2>2. Paid(n)
    <3> HIDE DEF n
    <3> QED BY <2>1, PaidSame DEF Open, HasGoal
  <2> QED
    BY <2>2 DEF DispatchTownhall, Keep, Change
<1>2. Paid(Confirm(m).mem)
  <2> DEFINE end == Terminate(m, "townhall_effect_confirmed")
             x   == IF end.mem.goal.observed < m.goal.desired
                    THEN end.mem.goal.observed + 1 ELSE m.goal.desired
             n   == [end.mem EXCEPT !.goal.observed =
                       IF @ < m.goal.desired THEN @ + 1 ELSE m.goal.desired]
             d   == [n EXCEPT !.goal.closed = TRUE]
  <2>1. CASE ~Open(m)
    BY <2>1 DEF Confirm, Keep, Change
  <2>2. CASE Open(m)
    <3>1. MemOK(end.mem) /\ Paid(end.mem) /\ HasGoal(end.mem) /\ end.mem.goal = m.goal
      BY <2>2, TerminateKeeps, TerminatePaid DEF Reason, MemOK, HasGoal
    <3>2. Confirm(m).mem \in {n, d}
      BY <2>2 DEF Confirm, Change
    <3> HIDE DEF end
    <3>3. n = [end.mem EXCEPT !.goal.observed = x]
      BY <3>1 DEF MemOK, Mem
    <3>4. end.mem \in Mem /\ end.mem.goal \in Goal
      BY <3>1, PaidTypes
    <3>5. Paid(n)
      <4> HIDE DEF x, n
      <4> QED BY <3>1, <3>3, SeenPaid
    <3>6. /\ d.exhaustedGen = n.exhaustedGen /\ d.scout = n.scout /\ d.commit = n.commit
          /\ d.goal.budget = n.goal.budget /\ d.goal.exhausted = n.goal.exhausted
          /\ d.goal.closed
      BY <3>4 DEF Mem, Goal
    <3>7. HasGoal(n)
      <4>1. n.goal.desired = end.mem.goal.desired
        BY <3>4 DEF Mem, Goal
      <4> QED
        BY <3>4, <4>1, BoundAssumption DEF HasGoal, NoGoal, Goal
    <3> HIDE DEF n, d
    <3>8. Paid(d)
      BY <3>5, <3>6, <3>7, PaidSame DEF Open
    <3> QED
      BY <3>2, <3>5, <3>8
  <2> QED
    BY <2>1, <2>2
<1> QED
  BY <1>1, <1>2

(* Time passes.                                                            *)
LEMMA CoolerPaid ==
  ASSUME NEW m, MemOK(m), Paid(m)
  PROVE  Paid(CoolerMem(m))
<1> DEFINE n == CoolerMem(m)
<1>1. m \in Mem /\ (HasGoal(m) => m.goal \in Goal) /\ n.goal = Cooler(m.goal)
  BY PaidTypes, CoolerType
<1>2. n.scout = m.scout /\ n.exhaustedGen = m.exhaustedGen /\ n.commit = m.commit
  BY <1>1 DEF CoolerMem, Mem
<1>3. HasGoal(m) => /\ Cooler(m.goal).budget = m.goal.budget
                    /\ Cooler(m.goal).exhausted = m.goal.exhausted
                    /\ Cooler(m.goal).closed = m.goal.closed
  BY <1>1 DEF Cooler, Goal
<1>4. HasGoal(n) => HasGoal(m)
  BY <1>1, CoolerType DEF HasGoal
<1> HIDE DEF n
<1>5. Paid(n)
  BY <1>1, <1>2, <1>3, <1>4, PaidSame DEF Open
<1> QED
  BY <1>5 DEF n

(* The invariant of the budget theorem.                                    *)
BudgetInv == RecoveryInv /\ (crashes = 0 => Paid(mem)) /\ crashes \in Nat

(* A tick pays for the epochs that it exhausts.                            *)
LEMMA TickPaid ==
  ASSUME MemOK(mem), Paid(mem), NEW o \in Observation,
         NEW desired \in {NoPlan, 0} \cup Desired, Tick(o, desired)
  PROVE  Paid(mem')
<1> DEFINE m  == CoolerMem(mem)
           b  == IF desired = NoPlan THEN Keep(m) ELSE EnsureCommitment(m, o, desired)
           u  == UpdateCandidates(b.mem, o)
<1>1. MemOK(m) /\ Paid(m)
  BY CoolerPaid, CoolerType
<1>2. mem' \in {u.mem, DispatchTownhall(u.mem).mem}
  BY DEF Tick, Then, Keep, Change
<1> HIDE DEF m
<1>3. MemOK(b.mem) /\ Paid(b.mem)
  <2>1. CASE desired = NoPlan
    BY <1>1, <2>1 DEF Keep, Change
  <2>2. CASE desired # NoPlan
    BY <1>1, <2>2, EnsureCommitmentPaid, EnsureCommitmentTracked, TracksCheckpoint
       DEF Tracked, Tracks
  <2> QED
    BY <2>1, <2>2
<1> HIDE DEF b
<1>4. MemOK(u.mem) /\ Paid(u.mem)
  BY <1>3, UpdateCandidatesPaid, UpdateCandidatesTracked, TracksCheckpoint DEF Tracked, Tracks
<1> HIDE DEF u
<1> QED
  BY <1>2, <1>4, ReportPaid

(* In one process, each exhausted epoch takes one retry of the goal's      *)
(* budget, which is never overdrawn, and no epoch is paid for twice        *)
(* (_update_expansion_candidate_state, _ensure_expansion_commitment).      *)
THEOREM BudgetPays == Spec => []BudgetPaysPerEpoch
<1>1. Init => BudgetInv
  <2> SUFFICES ASSUME Init PROVE BudgetInv
    OBVIOUS
  <2>1. Paid(InitMem)
    BY DEF InitMem, Paid, Open, HasGoal
  <2> QED
    BY <2>1, RecoveryInit DEF Init, BudgetInv
<1>2. BudgetInv /\ [Next]_vars => BudgetInv'
  <2> SUFFICES ASSUME BudgetInv, [Next]_vars PROVE BudgetInv'
    OBVIOUS
  <2>1. RecoveryInv /\ RecoveryInv' /\ MemOK(mem)
    <3>1. CASE UNCHANGED vars
      BY <3>1 DEF BudgetInv, RecoveryInv, Tracks, vars
    <3> QED
      BY <3>1, RecoveryTick, RecoveryReport, RecoveryEnd, RecoveryCrash
         DEF Next, BudgetInv, RecoveryInv, Tracks
  <2>2. ASSUME NEW o \in Observation, NEW desired \in {NoPlan, 0} \cup Desired,
               Tick(o, desired)
        PROVE  BudgetInv'
    BY <2>1, <2>2, TickPaid DEF BudgetInv, Tick
  <2>3. ASSUME NEW succeeded \in BOOLEAN, Report(succeeded)
        PROVE  BudgetInv'
    BY <2>1, <2>3, ReportPaid DEF BudgetInv, Report, Keep, Change
  <2>4. CASE EndEpisode
    BY <2>1, <2>4, TerminatePaid DEF BudgetInv, EndEpisode, Reason
  <2>5. ASSUME NEW n \in 0 .. MaxLog, Crash(n)
        PROVE  BudgetInv'
    BY <2>1, <2>5 DEF BudgetInv, Crash
  <2>6. CASE UNCHANGED vars
    BY <2>1, <2>6 DEF BudgetInv, vars
  <2> QED
    BY <2>2, <2>3, <2>4, <2>5, <2>6 DEF Next
<1>3. BudgetInv => BudgetPaysPerEpoch
  BY DEF BudgetInv, Paid, BudgetPaysPerEpoch
<1> QED
  BY <1>1, <1>2, <1>3, PTL DEF Spec
=============================================================================
