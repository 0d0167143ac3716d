------------------------ MODULE RuntimeRecoveryProofs ------------------------
(***************************************************************************)
(* Proofs about RuntimeRecovery: whatever prefix of the log a crash leaves *)
(* the engine recovers from, and what it restores is what its events say.  *)
(*                                                                         *)
(* The invariant RInv says which logs the engine can have written.  A log  *)
(* is Good when, after each of its events, what a replay up to there gives *)
(* is Sound, and when each event is one that the events before it admit.   *)
(* Both speak of prefixes only, so a prefix of a good log is good: that is *)
(* all a crash needs.  The rest of the module is one lemma for each batch  *)
(* of events a handler appends (the *Piece lemmas: a good log that has     *)
(* reached a state stays good and reaches the next one), one for each      *)
(* handler (the *Log lemmas), and the restart, whose own events complete   *)
(* the transitions that the crash cut in two.                              *)
(***************************************************************************)
EXTENDS RuntimeRecovery, RuntimeEngineProofs, SequenceTheorems, WellFoundedInduction

(* What a replay of the first k events of L gives.  About is an interval   *)
(* of indices, so these are maxima, as in RuntimeRecovery.                 *)
Upto(I, k) == Max({0} \cup {i \in I : i <= k})

StatusAt(L, k) ==
  [c \in Command |-> LET i == Upto(About(L, "lifecycle", c), k)
                     IN  IF i = 0 THEN "none" ELSE L[i].status]

ReportAt(L, k) ==
  [c \in Command |-> LET i == Upto(About(L, "execution", c), k)
                     IN  IF i = 0 THEN NoReport ELSE L[i].report]

PlanAt(L, k) ==
  LET i == Upto(Indices(L, {"plan"}), k)
  IN  IF i = 0 THEN [has |-> FALSE, cmds |-> {}] ELSE [has |-> TRUE, cmds |-> L[i].cmds]

(* A command that has a report is closed by it, or is about to be; one     *)
(* that has none is not closed.                                            *)
Closing(st, rp) ==
  \A c \in Command :
    IF rp[c] = NoReport THEN st[c] \notin Reported
    ELSE st[c] = OutcomeOf[rp[c]] \/ (st[c] \in Live /\ OutcomeOf[rp[c]] \in Allowed(st[c]))

OnePerActor(st) ==
  \A c, d \in Command :
    st[c] = "dispatched" /\ st[d] = "dispatched" /\ ActorOf[c] = ActorOf[d] => c = d

Planned(st, P) == {c \in Planner : st[c] \in Actionable} \subseteq P

(* A command that was dispatched, or closed by a report, stays so.         *)
Lasting(L, k) ==
  \A c \in Command : \A i \in About(L, "lifecycle", c) :
    i <= k =>
      /\ L[i].status \in Reported => StatusAt(L, k)[c] \in Reported
      /\ L[i].status \in {"dispatched"} \cup Reported
           => StatusAt(L, k)[c] \in {"dispatched"} \cup Reported

Sound(L, k) == /\ Closing(StatusAt(L, k), ReportAt(L, k))
               /\ OnePerActor(StatusAt(L, k))
               /\ Planned(StatusAt(L, k), PlanAt(L, k).cmds)
               /\ Lasting(L, k)

(* An event is one that the events before it admit.                        *)
EventOK(L, k) ==
  /\ L[k].kind = "lifecycle" => L[k].status \in Allowed(StatusAt(L, k - 1)[L[k].cmd])
  /\ L[k].kind = "execution" => ReportAt(L, k - 1)[L[k].cmd] = NoReport
  /\ L[k].kind = "snapshot" /\ L[k].ended = NoResult =>
       /\ \A i \in Indices(L, {"result"}) : i > k
       /\ L[k].status = StatusAt(L, k - 1) /\ L[k].report = ReportAt(L, k - 1)
       /\ [has |-> L[k].hasPlan, cmds |-> L[k].plan] = PlanAt(L, k - 1)
       /\ \A c \in Command : L[k].report[c] # NoReport => L[k].status[c] \in Reported
  /\ L[k].kind = "snapshot" /\ L[k].ended # NoResult =>
       \E i \in 1 .. k - 1 : L[i].kind = "result"

Good(L) == /\ L \in Seq(Event)
           /\ \A k \in 0 .. Len(L) : Sound(L, k)
           /\ \A k \in DOMAIN L : EventOK(L, k)

MemInv ==
  IF phase = "unbound" THEN status = [c \in Command |-> "none"]
  ELSE /\ status = StatusAt(log, Len(log))
       /\ report = ReportAt(log, Len(log))
       /\ [has |-> hasPlan, cmds |-> plan] = PlanAt(log, Len(log))
       /\ ReportClosesCommand
       /\ ended = NoResult <=> Indices(log, {"result"}) = {}

(* The log has come to a state: its statuses, fingerprints and plan, and   *)
(* the results in it.                                                      *)
Reaches(L, st, rp, pl, res) ==
  /\ Good(L)
  /\ StatusAt(L, Len(L)) = st
  /\ ReportAt(L, Len(L)) = rp
  /\ PlanAt(L, Len(L)) = pl
  /\ Indices(L, {"result"}) = res

(* Lifecycle events of the commands of q, and what they do to the statuses. *)
Written(q, f) == [i \in 1 .. Len(q) |-> LifecycleEvent(q[i], f[q[i]])]

Moves(st, T, f) == [c \in Command |-> IF c \in T THEN f[c] ELSE st[c]]

(* The commands of S may move to f in any order.                           *)
MayWrite(st, rp, P, S, f) ==
  \A c \in S :
    /\ f[c] \in Allowed(st[c])
    /\ IF rp[c] = NoReport THEN f[c] \notin Reported ELSE f[c] = OutcomeOf[rp[c]]
    /\ f[c] \in Actionable /\ c \in Planner => c \in P
    /\ f[c] = "dispatched" =>
         \A d \in Command \ {c} :
           ActorOf[d] = ActorOf[c] => /\ st[d] # "dispatched"
                                      /\ d \in S => f[d] # "dispatched"
-----------------------------------------------------------------------------
(* Greatest indices.  A set of numbers that is not empty has a least       *)
(* element, so one that is bounded has a greatest.                         *)
LEMMA LeastNumber ==
  ASSUME NEW S \in SUBSET Nat, S # {}
  PROVE  \E x \in S : \A y \in S : x <= y
<1> DEFINE R == {ss \in Nat \X Nat : ss[1] < ss[2]}
<1>1. IsWellFoundedOn(OpToRel(<, Nat), Nat)
  BY NatLessThanWellFounded
<1>2. R = OpToRel(<, Nat)
  BY DEF OpToRel
<1>3. IsWellFoundedOn(R, Nat)
  BY <1>1, <1>2
<1>4. PICK x \in S : \A y \in S : <<y, x>> \notin R
  <2> HIDE DEF R
  <2> QED
    BY <1>3, WFMin
<1>5. \A y \in S : ~(y < x)
  BY <1>4
<1> QED
  BY <1>5

(* A bounded set of numbers that is not empty has a maximum.               *)
LEMMA MaxOf ==
  ASSUME NEW S \in SUBSET Nat, S # {}, NEW n \in Nat, \A i \in S : i <= n
  PROVE  Max(S) \in S /\ \A i \in S : i <= Max(S)
<1> DEFINE D == {m \in Nat : \A i \in S : i <= m}
<1>1. PICK m \in D : \A k \in D : m <= k
  <2>1. n \in D /\ D \subseteq Nat
    OBVIOUS
  <2> QED
    BY <2>1, LeastNumber
<1>2. m \in S
  <2> SUFFICES ASSUME m \notin S PROVE FALSE
    OBVIOUS
  <2>1. PICK i \in S : TRUE
    OBVIOUS
  <2>2. m # 0 /\ m - 1 \in Nat
    BY <2>1
  <2>3. \A j \in S : j <= m - 1
    BY <2>2
  <2>4. m - 1 \in D
    BY <2>2, <2>3
  <2> QED
    BY <1>1, <2>2, <2>4
<1>3. \A i \in S : m >= i
  OBVIOUS
<1>4. Max(S) \in S /\ \A i \in S : Max(S) >= i
  BY <1>2, <1>3 DEF Max
<1> QED
  BY <1>4

(* Upto is the last index of I up to k, and 0 when there is none.          *)
LEMMA UptoIsLast ==
  ASSUME NEW I \in SUBSET (Nat \ {0}), NEW k \in Nat
  PROVE  /\ Upto(I, k) \in 0 .. k
         /\ Upto(I, k) # 0 => Upto(I, k) \in I
         /\ \A i \in I : i <= k => i <= Upto(I, k)
<1> DEFINE S == {0} \cup {i \in I : i <= k}
<1>1. S \in SUBSET Nat /\ S # {} /\ \A i \in S : i <= k
  <2>1. 0 \in S /\ \A i \in S : i \in Nat /\ i <= k
    OBVIOUS
  <2> QED
    BY <2>1
<1>2. Max(S) \in S /\ \A i \in S : i <= Max(S)
  BY <1>1, MaxOf
<1>3. Upto(I, k) = Max(S)
  BY DEF Upto
<1> HIDE DEF S
<1>4. \A i : i \in S <=> i = 0 \/ (i \in I /\ i <= k)
  BY DEF S
<1>5. Max(S) = 0 \/ (Max(S) \in I /\ Max(S) <= k)
  BY <1>2, <1>4
<1>6. \A i \in I : i <= k => i <= Max(S)
  BY <1>2, <1>4
<1>7. Max(S) \in Nat /\ Max(S) <= k
  BY <1>1, <1>2
<1> QED
  BY <1>3, <1>5, <1>6, <1>7

(* ... and the only such number.                                           *)
LEMMA UptoIs ==
  ASSUME NEW I \in SUBSET (Nat \ {0}), NEW k \in Nat, NEW n \in 0 .. k,
         n # 0 => n \in I, \A i \in I : i <= k => i <= n
  PROVE  Upto(I, k) = n
<1>1. /\ Upto(I, k) \in 0 .. k
      /\ Upto(I, k) # 0 => Upto(I, k) \in I
      /\ \A i \in I : i <= k => i <= Upto(I, k)
  BY UptoIsLast
<1>2. Upto(I, k) <= n
  BY <1>1
<1>3. n <= Upto(I, k)
  BY <1>1
<1> QED
  BY <1>1, <1>2, <1>3

(* Indices between which I has none see the same last one.                 *)
LEMMA UptoKept ==
  ASSUME NEW I \in SUBSET (Nat \ {0}), NEW n \in Nat, NEW m \in Nat, n <= m,
         \A i \in I : i <= m => i <= n
  PROVE  Upto(I, m) = Upto(I, n)
<1>1. /\ Upto(I, n) \in 0 .. n
      /\ Upto(I, n) # 0 => Upto(I, n) \in I
      /\ \A i \in I : i <= n => i <= Upto(I, n)
  BY UptoIsLast
<1>2. Upto(I, n) \in 0 .. m /\ \A i \in I : i <= m => i <= Upto(I, n)
  BY <1>1
<1> QED
  BY <1>1, <1>2, UptoIs

(* An index of I that is passed moves the last one forward.                *)
LEMMA UptoNew ==
  ASSUME NEW I \in SUBSET (Nat \ {0}), NEW n \in Nat, NEW m \in Nat,
         NEW j \in I, n < j, j <= m
  PROVE  Upto(I, m) \in I /\ Upto(I, m) \in n + 1 .. m
<1>1. /\ Upto(I, m) \in 0 .. m
      /\ Upto(I, m) # 0 => Upto(I, m) \in I
      /\ j <= Upto(I, m)
  BY UptoIsLast
<1> QED
  BY <1>1
-----------------------------------------------------------------------------
(* The state that the events of a log stand for.                           *)
LEMMA EventParts ==
  ASSUME NEW e \in Event
  PROVE  /\ e.kind \in {"lifecycle", "execution", "plan", "result", "snapshot"}
         /\ e.kind = "lifecycle" => e.cmd \in Command /\ e.status \in Status
         /\ e.kind = "execution" => e.cmd \in Command /\ e.report \in Report
         /\ e.kind = "plan" => e.cmds \in SUBSET Planner
         /\ e.kind = "result" => e.result \in Result
         /\ e.kind = "snapshot" => /\ e.status \in [Command -> Status]
                                   /\ e.report \in [Command -> Report \cup {NoReport}]
                                   /\ e.hasPlan \in BOOLEAN /\ e.plan \in SUBSET Planner
                                   /\ e.ended \in Result \cup {NoResult}
BY DEF Event

(* The indices of a log at which a replay looks.                           *)
LEMMA IndexSets ==
  ASSUME NEW L \in Seq(Event), NEW c
  PROVE  /\ Len(L) \in Nat /\ DOMAIN L = 1 .. Len(L)
         /\ \A i \in 1 .. Len(L) : L[i] \in Event
         /\ About(L, "lifecycle", c) \in SUBSET (Nat \ {0})
         /\ About(L, "execution", c) \in SUBSET (Nat \ {0})
         /\ Indices(L, {"plan"}) \in SUBSET (Nat \ {0})
         /\ \A i : i \in About(L, "lifecycle", c)
                     <=> i \in 1 .. Len(L) /\ L[i].kind = "lifecycle" /\ L[i].cmd = c
         /\ \A i : i \in About(L, "execution", c)
                     <=> i \in 1 .. Len(L) /\ L[i].kind = "execution" /\ L[i].cmd = c
         /\ \A i : i \in Indices(L, {"plan"}) <=> i \in 1 .. Len(L) /\ L[i].kind = "plan"
BY DEF About, Indices

(* What a replay gives is well-typed.                                      *)
LEMMA AtTypes ==
  ASSUME NEW L \in Seq(Event), NEW k \in Nat
  PROVE  /\ StatusAt(L, k) \in [Command -> Status]
         /\ ReportAt(L, k) \in [Command -> Report \cup {NoReport}]
         /\ PlanAt(L, k) \in [has : BOOLEAN, cmds : SUBSET Planner]
<1>1. StatusAt(L, k) \in [Command -> Status]
  <2> SUFFICES ASSUME NEW c \in Command
               PROVE  LET i == Upto(About(L, "lifecycle", c), k)
                      IN  (IF i = 0 THEN "none" ELSE L[i].status) \in Status
    BY DEF StatusAt
  <2> DEFINE i == Upto(About(L, "lifecycle", c), k)
  <2>1. i # 0 => i \in About(L, "lifecycle", c)
    BY IndexSets, UptoIsLast
  <2>2. i # 0 => L[i] \in Event /\ L[i].kind = "lifecycle"
    BY <2>1, IndexSets
  <2>3. i # 0 => L[i].status \in Status
    BY <2>2, EventParts
  <2>4. "none" \in Status
    BY DEF Status
  <2> QED
    BY <2>3, <2>4
<1>2. ReportAt(L, k) \in [Command -> Report \cup {NoReport}]
  <2> SUFFICES ASSUME NEW c \in Command
               PROVE  LET i == Upto(About(L, "execution", c), k)
                      IN  (IF i = 0 THEN NoReport ELSE L[i].report) \in Report \cup {NoReport}
    BY DEF ReportAt
  <2> DEFINE i == Upto(About(L, "execution", c), k)
  <2>1. i # 0 => i \in About(L, "execution", c)
    BY IndexSets, UptoIsLast
  <2>2. i # 0 => L[i] \in Event /\ L[i].kind = "execution"
    BY <2>1, IndexSets
  <2>3. i # 0 => L[i].report \in Report
    BY <2>2, EventParts
  <2> QED
    BY <2>3
<1>3. PlanAt(L, k) \in [has : BOOLEAN, cmds : SUBSET Planner]
  <2> DEFINE i == Upto(Indices(L, {"plan"}), k)
  <2>1. i # 0 => i \in Indices(L, {"plan"})
    BY IndexSets, UptoIsLast
  <2>2. i # 0 => L[i] \in Event /\ L[i].kind = "plan"
    BY <2>1, IndexSets
  <2>3. i # 0 => L[i].cmds \in SUBSET Planner
    BY <2>2, EventParts
  <2> QED
    BY <2>3 DEF PlanAt
<1> QED
  BY <1>1, <1>2, <1>3

(* Events about other things leave a part of the state as it is, and the   *)
(* last event about it tells what it is.                                   *)
LEMMA StatusKept ==
  ASSUME NEW L \in Seq(Event), NEW n \in 0 .. Len(L), NEW m \in n .. Len(L),
         NEW c \in Command,
         \A i \in n + 1 .. m : ~(L[i].kind = "lifecycle" /\ L[i].cmd = c)
  PROVE  StatusAt(L, m)[c] = StatusAt(L, n)[c]
<1> DEFINE I == About(L, "lifecycle", c)
<1>1. /\ I \in SUBSET (Nat \ {0}) /\ Len(L) \in Nat /\ n \in Nat /\ m \in Nat /\ n <= m
      /\ m <= Len(L)
      /\ \A i : i \in I <=> i \in 1 .. Len(L) /\ L[i].kind = "lifecycle" /\ L[i].cmd = c
  BY IndexSets
<1>2. /\ StatusAt(L, m)[c] = IF Upto(I, m) = 0 THEN "none" ELSE L[Upto(I, m)].status
      /\ StatusAt(L, n)[c] = IF Upto(I, n) = 0 THEN "none" ELSE L[Upto(I, n)].status
  BY DEF StatusAt
<1> HIDE DEF I
<1>3. \A i \in I : i <= m => i <= n
  <2> SUFFICES ASSUME NEW i \in I, i <= m, ~(i <= n) PROVE FALSE
    OBVIOUS
  <2>1. i \in Nat /\ i \in n + 1 .. m
    BY <1>1
  <2> QED
    BY <1>1, <2>1
<1>4. Upto(I, m) = Upto(I, n)
  BY <1>1, <1>3, UptoKept
<1> QED
  BY <1>2, <1>4

(* Events that move a command to one status leave it there.                *)
LEMMA StatusSet ==
  ASSUME NEW L \in Seq(Event), NEW n \in 0 .. Len(L), NEW m \in n .. Len(L),
         NEW c \in Command,
         NEW j \in n + 1 .. m, L[j].kind = "lifecycle", L[j].cmd = c,
         \A i \in n + 1 .. m : L[i].kind = "lifecycle" /\ L[i].cmd = c => L[i].status = L[j].status
  PROVE  StatusAt(L, m)[c] = L[j].status
<1> DEFINE I == About(L, "lifecycle", c)
<1>1. /\ I \in SUBSET (Nat \ {0}) /\ Len(L) \in Nat /\ n \in Nat /\ m \in Nat /\ n <= m
      /\ m <= Len(L)
      /\ \A i : i \in I <=> i \in 1 .. Len(L) /\ L[i].kind = "lifecycle" /\ L[i].cmd = c
  BY IndexSets
<1>2. StatusAt(L, m)[c] = IF Upto(I, m) = 0 THEN "none" ELSE L[Upto(I, m)].status
  BY DEF StatusAt
<1> HIDE DEF I
<1>3. j \in I /\ n < j /\ j <= m
  BY <1>1
<1>4. Upto(I, m) \in I /\ Upto(I, m) \in n + 1 .. m
  BY <1>1, <1>3, UptoNew
<1>5. L[Upto(I, m)].status = L[j].status /\ Upto(I, m) # 0
  BY <1>1, <1>4
<1> QED
  BY <1>2, <1>5

(* Without an execution event of the command its fingerprint stays.        *)
LEMMA ReportKept ==
  ASSUME NEW L \in Seq(Event), NEW n \in 0 .. Len(L), NEW m \in n .. Len(L),
         NEW c \in Command,
         \A i \in n + 1 .. m : ~(L[i].kind = "execution" /\ L[i].cmd = c)
  PROVE  ReportAt(L, m)[c] = ReportAt(L, n)[c]
<1> DEFINE I == About(L, "execution", c)
<1>1. /\ I \in SUBSET (Nat \ {0}) /\ Len(L) \in Nat /\ n \in Nat /\ m \in Nat /\ n <= m
      /\ m <= Len(L)
      /\ \A i : i \in I <=> i \in 1 .. Len(L) /\ L[i].kind = "execution" /\ L[i].cmd = c
  BY IndexSets
<1>2. /\ ReportAt(L, m)[c] = IF Upto(I, m) = 0 THEN NoReport ELSE L[Upto(I, m)].report
      /\ ReportAt(L, n)[c] = IF Upto(I, n) = 0 THEN NoReport ELSE L[Upto(I, n)].report
  BY DEF ReportAt
<1> HIDE DEF I
<1>3. \A i \in I : i <= m => i <= n
  <2> SUFFICES ASSUME NEW i \in I, i <= m, ~(i <= n) PROVE FALSE
    OBVIOUS
  <2>1. i \in Nat /\ i \in n + 1 .. m
    BY <1>1
  <2> QED
    BY <1>1, <2>1
<1>4. Upto(I, m) = Upto(I, n)
  BY <1>1, <1>3, UptoKept
<1> QED
  BY <1>2, <1>4

(* Execution events of one content leave that content.                     *)
LEMMA ReportSet ==
  ASSUME NEW L \in Seq(Event), NEW n \in 0 .. Len(L), NEW m \in n .. Len(L),
         NEW c \in Command,
         NEW j \in n + 1 .. m, L[j].kind = "execution", L[j].cmd = c,
         \A i \in n + 1 .. m : L[i].kind = "execution" /\ L[i].cmd = c => L[i].report = L[j].report
  PROVE  ReportAt(L, m)[c] = L[j].report
<1> DEFINE I == About(L, "execution", c)
<1>1. /\ I \in SUBSET (Nat \ {0}) /\ Len(L) \in Nat /\ n \in Nat /\ m \in Nat /\ n <= m
      /\ m <= Len(L)
      /\ \A i : i \in I <=> i \in 1 .. Len(L) /\ L[i].kind = "execution" /\ L[i].cmd = c
  BY IndexSets
<1>2. ReportAt(L, m)[c] = IF Upto(I, m) = 0 THEN NoReport ELSE L[Upto(I, m)].report
  BY DEF ReportAt
<1> HIDE DEF I
<1>3. j \in I /\ n < j /\ j <= m
  BY <1>1
<1>4. Upto(I, m) \in I /\ Upto(I, m) \in n + 1 .. m
  BY <1>1, <1>3, UptoNew
<1>5. L[Upto(I, m)].report = L[j].report /\ Upto(I, m) # 0
  BY <1>1, <1>4
<1> QED
  BY <1>2, <1>5

(* The plan changes at plan events only.                                   *)
LEMMA PlanBetween ==
  ASSUME NEW L \in Seq(Event), NEW n \in 0 .. Len(L), NEW m \in n .. Len(L)
  PROVE  /\ (\A i \in n + 1 .. m : L[i].kind # "plan") => PlanAt(L, m) = PlanAt(L, n)
         /\ m # 0 /\ L[m].kind = "plan"
              => PlanAt(L, m) = [has |-> TRUE, cmds |-> L[m].cmds]
<1> DEFINE I == Indices(L, {"plan"})
<1>1. /\ I \in SUBSET (Nat \ {0}) /\ Len(L) \in Nat /\ n \in Nat /\ m \in Nat /\ n <= m
      /\ m <= Len(L)
      /\ \A i : i \in I <=> i \in 1 .. Len(L) /\ L[i].kind = "plan"
  BY IndexSets
<1>2. /\ PlanAt(L, m) = IF Upto(I, m) = 0 THEN [has |-> FALSE, cmds |-> {}]
                        ELSE [has |-> TRUE, cmds |-> L[Upto(I, m)].cmds]
      /\ PlanAt(L, n) = IF Upto(I, n) = 0 THEN [has |-> FALSE, cmds |-> {}]
                        ELSE [has |-> TRUE, cmds |-> L[Upto(I, n)].cmds]
  BY DEF PlanAt
<1> HIDE DEF I
<1>3. ASSUME \A i \in n + 1 .. m : L[i].kind # "plan"
      PROVE  PlanAt(L, m) = PlanAt(L, n)
  <2>1. \A i \in I : i <= m => i <= n
    <3> SUFFICES ASSUME NEW i \in I, i <= m, ~(i <= n) PROVE FALSE
      OBVIOUS
    <3>1. i \in Nat /\ i \in n + 1 .. m
      BY <1>1
    <3> QED
      BY <1>1, <1>3, <3>1
  <2>2. Upto(I, m) = Upto(I, n)
    BY <1>1, <2>1, UptoKept
  <2> QED
    BY <1>2, <2>2
<1>4. ASSUME m # 0, L[m].kind = "plan"
      PROVE  PlanAt(L, m) = [has |-> TRUE, cmds |-> L[m].cmds]
  <2>1. m \in I /\ m \in 0 .. m /\ \A i \in I : i <= m => i <= m
    BY <1>1, <1>4
  <2>2. Upto(I, m) = m
    BY <1>1, <2>1, UptoIs
  <2> QED
    BY <1>2, <1>4, <2>2
<1> QED
  BY <1>3, <1>4
(* The state at a cut depends on the events before it only.                *)
LEMMA SamePrefix ==
  ASSUME NEW L \in Seq(Event), NEW M \in Seq(Event), NEW n \in Nat,
         n <= Len(L), n <= Len(M), \A i \in 1 .. n : L[i] = M[i]
  PROVE  /\ \A k \in 0 .. n : /\ StatusAt(L, k) = StatusAt(M, k)
                              /\ ReportAt(L, k) = ReportAt(M, k)
                              /\ PlanAt(L, k) = PlanAt(M, k)
                              /\ Sound(M, k) => Sound(L, k)
<1> SUFFICES ASSUME NEW k \in 0 .. n
             PROVE  /\ StatusAt(L, k) = StatusAt(M, k)
                    /\ ReportAt(L, k) = ReportAt(M, k)
                    /\ PlanAt(L, k) = PlanAt(M, k)
                    /\ Sound(M, k) => Sound(L, k)
  OBVIOUS
<1>1. k \in Nat /\ Len(L) \in Nat /\ Len(M) \in Nat
  OBVIOUS
<1>2. \A c \in Command :
        LET I == About(L, "lifecycle", c)
            J == About(M, "lifecycle", c)
        IN  /\ Upto(I, k) = Upto(J, k)
            /\ Upto(J, k) # 0 => L[Upto(J, k)] = M[Upto(J, k)]
            /\ \A i \in I : i <= k => i \in J /\ L[i] = M[i]
  <2> SUFFICES ASSUME NEW c \in Command
               PROVE  LET I == About(L, "lifecycle", c)
                          J == About(M, "lifecycle", c)
                      IN  /\ Upto(I, k) = Upto(J, k)
                          /\ Upto(J, k) # 0 => L[Upto(J, k)] = M[Upto(J, k)]
                          /\ \A i \in I : i <= k => i \in J /\ L[i] = M[i]
    OBVIOUS
  <2> DEFINE I == About(L, "lifecycle", c)
             J == About(M, "lifecycle", c)
  <2>1. /\ I \in SUBSET (Nat \ {0}) /\ J \in SUBSET (Nat \ {0})
        /\ \A i \in I : i <= k => i \in J /\ L[i] = M[i]
        /\ \A i \in J : i <= k => i \in I /\ L[i] = M[i]
    BY <1>1, IndexSets
  <2> HIDE DEF I, J
  <2>2. /\ Upto(J, k) \in 0 .. k
        /\ Upto(J, k) # 0 => Upto(J, k) \in J
        /\ \A i \in J : i <= k => i <= Upto(J, k)
    BY <1>1, <2>1, UptoIsLast
  <2>3. Upto(J, k) # 0 => Upto(J, k) \in I /\ L[Upto(J, k)] = M[Upto(J, k)]
    BY <1>1, <2>1, <2>2
  <2>4. \A i \in I : i <= k => i <= Upto(J, k)
    BY <2>1, <2>2
  <2>5. Upto(I, k) = Upto(J, k)
    BY <1>1, <2>1, <2>2, <2>3, <2>4, UptoIs
  <2> QED
    BY <2>1, <2>3, <2>5 DEF I, J
<1>3. \A c \in Command :
        LET I == About(L, "execution", c)
            J == About(M, "execution", c)
        IN  /\ Upto(I, k) = Upto(J, k)
            /\ Upto(J, k) # 0 => L[Upto(J, k)] = M[Upto(J, k)]
  <2> SUFFICES ASSUME NEW c \in Command
               PROVE  LET I == About(L, "execution", c)
                          J == About(M, "execution", c)
                      IN  /\ Upto(I, k) = Upto(J, k)
                          /\ Upto(J, k) # 0 => L[Upto(J, k)] = M[Upto(J, k)]
    OBVIOUS
  <2> DEFINE I == About(L, "execution", c)
             J == About(M, "execution", c)
  <2>1. /\ I \in SUBSET (Nat \ {0}) /\ J \in SUBSET (Nat \ {0})
        /\ \A i \in I : i <= k => i \in J /\ L[i] = M[i]
        /\ \A i \in J : i <= k => i \in I /\ L[i] = M[i]
    <3>1. /\ I \in SUBSET (Nat \ {0})
          /\ \A i : i \in I <=> i \in 1 .. Len(L) /\ L[i].kind = "execution" /\ L[i].cmd = c
      BY IndexSets
    <3>2. /\ J \in SUBSET (Nat \ {0})
          /\ \A i : i \in J <=> i \in 1 .. Len(M) /\ M[i].kind = "execution" /\ M[i].cmd = c
      BY IndexSets
    <3> HIDE DEF I, J
    <3>3. \A i \in Nat \ {0} : i <= k => i \in 1 .. Len(L) /\ i \in 1 .. Len(M) /\ L[i] = M[i]
      BY <1>1
    <3> QED
      BY <3>1, <3>2, <3>3
  <2> HIDE DEF I, J
  <2>2. /\ Upto(J, k) \in 0 .. k
        /\ Upto(J, k) # 0 => Upto(J, k) \in J
        /\ \A i \in J : i <= k => i <= Upto(J, k)
    BY <1>1, <2>1, UptoIsLast
  <2>3. Upto(J, k) # 0 => Upto(J, k) \in I /\ L[Upto(J, k)] = M[Upto(J, k)]
    BY <1>1, <2>1, <2>2
  <2>4. \A i \in I : i <= k => i <= Upto(J, k)
    BY <2>1, <2>2
  <2>5. Upto(I, k) = Upto(J, k)
    BY <1>1, <2>1, <2>2, <2>3, <2>4, UptoIs
  <2> QED
    BY <2>3, <2>5 DEF I, J
<1>4. LET I == Indices(L, {"plan"})
          J == Indices(M, {"plan"})
      IN  /\ Upto(I, k) = Upto(J, k)
          /\ Upto(J, k) # 0 => L[Upto(J, k)] = M[Upto(J, k)]
  <2> DEFINE I == Indices(L, {"plan"})
             J == Indices(M, {"plan"})
  <2>1. /\ I \in SUBSET (Nat \ {0}) /\ J \in SUBSET (Nat \ {0})
        /\ \A i \in I : i <= k => i \in J /\ L[i] = M[i]
        /\ \A i \in J : i <= k => i \in I /\ L[i] = M[i]
    <3>1. /\ I \in SUBSET (Nat \ {0})
          /\ \A i : i \in I <=> i \in 1 .. Len(L) /\ L[i].kind = "plan"
      BY IndexSets
    <3>2. /\ J \in SUBSET (Nat \ {0})
          /\ \A i : i \in J <=> i \in 1 .. Len(M) /\ M[i].kind = "plan"
      BY IndexSets
    <3> HIDE DEF I, J
    <3>3. \A i \in Nat \ {0} : i <= k => i \in 1 .. Len(L) /\ i \in 1 .. Len(M) /\ L[i] = M[i]
      BY <1>1
    <3> QED
      BY <3>1, <3>2, <3>3
  <2> HIDE DEF I, J
  <2>2. /\ Upto(J, k) \in 0 .. k
        /\ Upto(J, k) # 0 => Upto(J, k) \in J
        /\ \A i \in J : i <= k => i <= Upto(J, k)
    BY <1>1, <2>1, UptoIsLast
  <2>3. Upto(J, k) # 0 => Upto(J, k) \in I /\ L[Upto(J, k)] = M[Upto(J, k)]
    BY <1>1, <2>1, <2>2
  <2>4. \A i \in I : i <= k => i <= Upto(J, k)
    BY <2>1, <2>2
  <2>5. Upto(I, k) = Upto(J, k)
    BY <1>1, <2>1, <2>2, <2>3, <2>4, UptoIs
  <2> QED
    BY <2>3, <2>5 DEF I, J
<1>5. StatusAt(L, k) = StatusAt(M, k)
  BY <1>2 DEF StatusAt
<1>6. ReportAt(L, k) = ReportAt(M, k)
  BY <1>3 DEF ReportAt
<1>7. PlanAt(L, k) = PlanAt(M, k)
  BY <1>4 DEF PlanAt
<1>8. ASSUME Sound(M, k) PROVE Sound(L, k)
  <2>1. Lasting(M, k)
    BY <1>8 DEF Sound
  <2>2. Lasting(L, k)
    <3> SUFFICES ASSUME NEW c \in Command, NEW i \in About(L, "lifecycle", c), i <= k
                 PROVE  /\ L[i].status \in Reported => StatusAt(L, k)[c] \in Reported
                        /\ L[i].status \in {"dispatched"} \cup Reported
                             => StatusAt(L, k)[c] \in {"dispatched"} \cup Reported
      BY DEF Lasting
    <3>1. i \in About(M, "lifecycle", c) /\ L[i] = M[i]
      BY <1>2
    <3>2. /\ M[i].status \in Reported => StatusAt(M, k)[c] \in Reported
          /\ M[i].status \in {"dispatched"} \cup Reported
               => StatusAt(M, k)[c] \in {"dispatched"} \cup Reported
      BY <2>1, <3>1 DEF Lasting
    <3> QED
      BY <1>5, <3>1, <3>2
  <2> QED
    BY <1>5, <1>6, <1>7, <1>8, <2>2 DEF Sound
<1> QED
  BY <1>5, <1>6, <1>7, <1>8

(* Events that stay admitted: those of a beginning of a log, or of a log   *)
(* that has grown.                                                         *)
LEMMA SameEvent ==
  ASSUME NEW L \in Seq(Event), NEW M \in Seq(Event), NEW n \in Nat,
         n <= Len(L), n <= Len(M), \A i \in 1 .. n : L[i] = M[i],
         NEW k \in 1 .. n, EventOK(M, k)
  PROVE  EventOK(L, k)
<1>1. k - 1 \in 0 .. n /\ k \in Nat /\ Len(L) \in Nat /\ Len(M) \in Nat
  OBVIOUS
<1>2. /\ StatusAt(L, k - 1) = StatusAt(M, k - 1)
      /\ ReportAt(L, k - 1) = ReportAt(M, k - 1)
      /\ PlanAt(L, k - 1) = PlanAt(M, k - 1)
  BY <1>1, SamePrefix
<1>3. L[k] = M[k]
  OBVIOUS
<1>4. ASSUME \A i \in Indices(M, {"result"}) : i > k
      PROVE  \A i \in Indices(L, {"result"}) : i > k
  <2> SUFFICES ASSUME NEW i \in Indices(L, {"result"}), ~(i > k) PROVE FALSE
    OBVIOUS
  <2>1. i \in 1 .. Len(L) /\ L[i].kind = "result"
    BY DEF Indices
  <2>2. i \in 1 .. n /\ i \in 1 .. Len(M)
    BY <1>1, <2>1
  <2>3. i \in Indices(M, {"result"})
    BY <2>1, <2>2 DEF Indices
  <2> QED
    BY <1>1, <1>4, <2>1, <2>3
<1>5. (\E i \in 1 .. k - 1 : M[i].kind = "result") => \E i \in 1 .. k - 1 : L[i].kind = "result"
  <2>1. \A i \in 1 .. k - 1 : i \in 1 .. n
    BY <1>1
  <2> QED
    BY <2>1
<1> QED
  BY <1>2, <1>3, <1>4, <1>5 DEF EventOK

(* A log that is cut stays good.                                           *)
LEMMA CutParts ==
  ASSUME NEW L \in Seq(Event), NEW k \in 0 .. Len(L)
  PROVE  /\ SubSeq(L, 1, k) \in Seq(Event) /\ Len(SubSeq(L, 1, k)) = k
         /\ \A i \in 1 .. k : SubSeq(L, 1, k)[i] = L[i]
<1>1. \A i \in 1 .. k : L[i] \in Event
  OBVIOUS
<1> QED
  BY <1>1, SubSeqProperties

(* A prefix of a good log is good.                                         *)
LEMMA GoodCut ==
  ASSUME NEW L, Good(L), NEW k \in 0 .. Len(L)
  PROVE  Good(SubSeq(L, 1, k))
<1> DEFINE M == SubSeq(L, 1, k)
<1>1. L \in Seq(Event) /\ Len(L) \in Nat /\ k \in Nat /\ k <= Len(L)
  BY DEF Good
<1>2. M \in Seq(Event) /\ Len(M) = k /\ \A i \in 1 .. k : M[i] = L[i]
  BY <1>1, CutParts
<1> HIDE DEF M
<1>3. \A j \in 0 .. k : Sound(L, j)
  BY <1>1 DEF Good
<1>4. \A j \in 1 .. k : EventOK(L, j)
  BY <1>1 DEF Good
<1>5. \A j \in 0 .. k : Sound(M, j)
  BY <1>1, <1>2, <1>3, SamePrefix
<1>6. \A j \in 1 .. k : EventOK(M, j)
  BY <1>1, <1>2, <1>4, SameEvent
<1>7. DOMAIN M = 1 .. k
  BY <1>2
<1> QED
  BY <1>2, <1>5, <1>6, <1>7 DEF Good, M

(* A log that grows by admitted events stays good.                         *)
LEMMA GrownParts ==
  ASSUME NEW L \in Seq(Event), NEW E \in Seq(Event)
  PROVE  /\ L \o E \in Seq(Event) /\ Len(L \o E) = Len(L) + Len(E)
         /\ Len(L) \in Nat /\ Len(E) \in Nat
         /\ \A i \in 1 .. Len(L) : (L \o E)[i] = L[i]
         /\ \A i \in 1 .. Len(E) : (L \o E)[Len(L) + i] = E[i]
         /\ \A i \in Len(L) + 1 .. Len(L) + Len(E) :
              i - Len(L) \in 1 .. Len(E) /\ (L \o E)[i] = E[i - Len(L)]
BY ConcatProperties

(* A good log that grows by events which it admits is good.                *)
LEMMA GoodGrown ==
  ASSUME NEW L, Good(L), NEW E \in Seq(Event),
         \A j \in 1 .. Len(E) : /\ Sound(L \o E, Len(L) + j)
                                /\ EventOK(L \o E, Len(L) + j)
  PROVE  Good(L \o E)
<1> DEFINE n == Len(L)
           M == L \o E
<1>1. L \in Seq(Event)
  BY DEF Good
<1>2. /\ M \in Seq(Event) /\ Len(M) = n + Len(E) /\ n \in Nat /\ Len(E) \in Nat
      /\ \A i \in 1 .. n : M[i] = L[i]
      /\ DOMAIN M = 1 .. n + Len(E)
  BY <1>1, GrownParts
<1>3. \A j \in 1 .. Len(E) : Sound(M, n + j) /\ EventOK(M, n + j)
  OBVIOUS
<1>4. (\A k \in 0 .. n : Sound(L, k)) /\ (\A k \in 1 .. n : EventOK(L, k))
  BY <1>1 DEF Good
<1> HIDE DEF n, M
<1>n. n = Len(L)
  BY DEF n
<1>m. n <= Len(L) /\ n <= Len(M) /\ \A i \in 1 .. n : M[i] = L[i]
  BY <1>2, <1>n
<1>5. \A k \in 0 .. n : Sound(M, k)
  BY <1>1, <1>2, <1>4, <1>m, SamePrefix
<1>6. \A k \in 1 .. n : EventOK(M, k)
  BY <1>1, <1>2, <1>4, <1>m, SameEvent
<1>7. \A k \in n + 1 .. n + Len(E) : Sound(M, k) /\ EventOK(M, k)
  <2> SUFFICES ASSUME NEW k \in n + 1 .. n + Len(E) PROVE Sound(M, k) /\ EventOK(M, k)
    OBVIOUS
  <2>1. k - n \in 1 .. Len(E) /\ n + (k - n) = k
    BY <1>2
  <2> QED
    BY <1>3, <2>1
<1>8. \A k \in 0 .. n + Len(E) : k \in 0 .. n \/ k \in n + 1 .. n + Len(E)
  BY <1>2
<1>9. \A k \in 1 .. n + Len(E) : k \in 1 .. n \/ k \in n + 1 .. n + Len(E)
  BY <1>2
<1>10. \A k \in 0 .. Len(M) : Sound(M, k)
  BY <1>2, <1>5, <1>7, <1>8
<1>11. \A k \in DOMAIN M : EventOK(M, k)
  BY <1>2, <1>6, <1>7, <1>9
<1> QED
  BY <1>2, <1>10, <1>11 DEF Good, M
-----------------------------------------------------------------------------
(* Pieces of what a handler appends.                                       *)
LEMMA ListingSeq ==
  ASSUME NEW S \in SUBSET Command
  PROVE  /\ Listing(S) \in Seq(Command) /\ Len(Listing(S)) = Cardinality(S)
         /\ Cardinality(S) \in Nat
         /\ S = {Listing(S)[i] : i \in 1 .. Len(Listing(S))}
         /\ \A i, j \in 1 .. Len(Listing(S)) : Listing(S)[i] = Listing(S)[j] => i = j
<1>1. IsFiniteSet(Command)
  BY CommandAssumption, FS_Union DEF Command
<1>2. IsFiniteSet(S)
  BY <1>1, FS_Subset
<1>3. Cardinality(S) \in Nat /\ ExistsBijection(1 .. Cardinality(S), S)
  BY <1>2, FS_CardinalityType
<1>4. PICK f \in Bijection(1 .. Cardinality(S), S) : TRUE
  BY <1>3 DEF ExistsBijection
<1>5. /\ f \in [1 .. Cardinality(S) -> S]
      /\ \A x \in S : \E i \in DOMAIN f : f[i] = x
  BY <1>4 DEF Bijection, Injection, Surjection
<1>6. /\ Listing(S) \in [1 .. Cardinality(S) -> S]
      /\ \A x \in S : \E i \in DOMAIN Listing(S) : Listing(S)[i] = x
  BY <1>5 DEF Listing
<1>7. Listing(S) \in Surjection(1 .. Cardinality(S), S)
  BY <1>6 DEF Surjection
<1>8. IsFiniteSet(1 .. Cardinality(S)) /\ Cardinality(1 .. Cardinality(S)) = Cardinality(S)
  <2>1. 1 \in Int /\ Cardinality(S) \in Int
    BY <1>3
  <2> QED
    BY <1>3, <2>1, FS_Interval
<1>9. Listing(S) \in Injection(1 .. Cardinality(S), S)
  BY <1>7, <1>8, FS_SurjSameCardinalityImpliesInj
<1>10. \A i, j \in 1 .. Cardinality(S) : Listing(S)[i] = Listing(S)[j] => i = j
  BY <1>6, <1>9 DEF Injection, IsInjective
<1>11. Listing(S) \in Seq(Command) /\ Len(Listing(S)) = Cardinality(S)
  BY <1>3, <1>6
<1> QED
  BY <1>3, <1>6, <1>10, <1>11

(* The events that Written lists, one for each command.                    *)
LEMMA WrittenType ==
  ASSUME NEW q \in Seq(Command), NEW f \in [Command -> Status]
  PROVE  /\ Written(q, f) \in Seq(Event) /\ Len(Written(q, f)) = Len(q)
         /\ \A i \in 1 .. Len(q) : /\ q[i] \in Command
                                   /\ Written(q, f)[i] = LifecycleEvent(q[i], f[q[i]])
                                   /\ Written(q, f)[i].kind = "lifecycle"
                                   /\ Written(q, f)[i].cmd = q[i]
                                   /\ Written(q, f)[i].status = f[q[i]]
<1>1. Len(q) \in Nat /\ \A i \in 1 .. Len(q) : q[i] \in Command
  OBVIOUS
<1>2. \A i \in 1 .. Len(q) : LifecycleEvent(q[i], f[q[i]]) \in Event
  BY <1>1 DEF LifecycleEvent, Event
<1>3. Written(q, f) \in Seq(Event) /\ Len(Written(q, f)) = Len(q)
  BY <1>1, <1>2 DEF Written
<1>4. \A i \in 1 .. Len(q) : Written(q, f)[i] = LifecycleEvent(q[i], f[q[i]])
  BY DEF Written
<1> QED
  BY <1>1, <1>3, <1>4 DEF LifecycleEvent

(* Statuses stay sound while some of the commands have moved.              *)
LEMMA SoundMoves ==
  ASSUME NEW st \in [Command -> Status], NEW rp, NEW P, NEW S \in SUBSET Command,
         NEW f \in [Command -> Status], NEW T \in SUBSET S,
         MayWrite(st, rp, P, S, f),
         Closing(st, rp), OnePerActor(st), Planned(st, P)
  PROVE  /\ Closing(Moves(st, T, f), rp) /\ OnePerActor(Moves(st, T, f))
         /\ Planned(Moves(st, T, f), P)
<1>1. \A c \in Command : Moves(st, T, f)[c] = IF c \in T THEN f[c] ELSE st[c]
  BY DEF Moves
<1>2. Closing(Moves(st, T, f), rp)
  BY <1>1 DEF Closing, MayWrite
<1>3. OnePerActor(Moves(st, T, f))
  BY <1>1 DEF OnePerActor, MayWrite
<1>4. Planned(Moves(st, T, f), P)
  BY <1>1 DEF Planned, MayWrite, Command
<1> QED
  BY <1>2, <1>3, <1>4

(* In the transition table a report is final, and is all that can follow   *)
(* a dispatch.                                                             *)
LEMMA Finality ==
  ASSUME NEW s \in Status, NEW t \in Allowed(s)
  PROVE  /\ s \notin Reported
         /\ s = "dispatched" => t \in Reported
BY DEF Allowed, Status, Reported, Live, Actionable, Dropped

(* Lifecycle events of different commands.                                 *)
LEMMA WrittenPiece ==
  ASSUME NEW L, NEW st, NEW rp, NEW pl, NEW res, Reaches(L, st, rp, pl, res),
         NEW q \in Seq(Command), \A i, j \in 1 .. Len(q) : q[i] = q[j] => i = j,
         NEW S, S = {q[i] : i \in 1 .. Len(q)},
         NEW f \in [Command -> Status], MayWrite(st, rp, pl.cmds, S, f)
  PROVE  Reaches(L \o Written(q, f), Moves(st, S, f), rp, pl, res)
<1> DEFINE n == Len(L)
           E == Written(q, f)
           M == L \o E
           T(j) == {q[i] : i \in 1 .. j}
<1>1. /\ L \in Seq(Event) /\ n \in Nat /\ Len(q) \in Nat
      /\ StatusAt(L, n) = st /\ ReportAt(L, n) = rp /\ PlanAt(L, n) = pl
      /\ Sound(L, n) /\ Good(L)
  BY DEF Reaches, Good
<1>2. /\ E \in Seq(Event) /\ Len(E) = Len(q)
      /\ \A i \in 1 .. Len(q) : /\ q[i] \in Command
                                /\ E[i].kind = "lifecycle" /\ E[i].cmd = q[i]
                                /\ E[i].status = f[q[i]]
  BY WrittenType
<1> HIDE DEF E
<1>3. /\ M \in Seq(Event) /\ Len(M) = n + Len(q)
      /\ \A i \in 1 .. n : M[i] = L[i]
      /\ \A i \in 1 .. Len(q) : M[n + i] = E[i]
      /\ \A i \in n + 1 .. n + Len(q) : i - n \in 1 .. Len(q) /\ M[i] = E[i - n]
  <2>1. /\ M \in Seq(Event) /\ Len(M) = Len(L) + Len(E)
        /\ \A i \in 1 .. Len(L) : M[i] = L[i]
        /\ \A i \in 1 .. Len(E) : M[Len(L) + i] = E[i]
        /\ \A i \in Len(L) + 1 .. Len(L) + Len(E) :
             i - Len(L) \in 1 .. Len(E) /\ M[i] = E[i - Len(L)]
    BY <1>1, <1>2, GrownParts
  <2> HIDE DEF M
  <2> QED
    BY <1>2, <2>1
<1>4. /\ st \in [Command -> Status] /\ rp \in [Command -> Report \cup {NoReport}]
  BY <1>1, AtTypes
<1>t. \A j, x : x \in T(j) <=> \E i \in 1 .. j : q[i] = x
  OBVIOUS
<1> HIDE DEF n, M, T
<1>5. n <= Len(L) /\ n <= Len(M)
  BY <1>1, <1>3 DEF n
<1>6. StatusAt(M, n) = st /\ ReportAt(M, n) = rp /\ PlanAt(M, n) = pl
  <2>1. n \in 0 .. n
    BY <1>1
  <2> QED
    BY <1>1, <1>3, <1>5, <2>1, SamePrefix
<1>7. ASSUME NEW j \in 0 .. Len(q)
      PROVE  /\ n \in 0 .. Len(M) /\ n + j \in n .. Len(M)
             /\ \A i \in n + 1 .. n + j :
                  /\ i - n \in 1 .. j /\ i - n \in 1 .. Len(q)
                  /\ M[i].kind = "lifecycle" /\ M[i].cmd = q[i - n]
                  /\ M[i].status = f[q[i - n]]
             /\ \A i \in 1 .. j : /\ n + i \in n + 1 .. n + j
                                  /\ M[n + i].kind = "lifecycle" /\ M[n + i].cmd = q[i]
             /\ T(j) \in SUBSET S
  <2>1. n \in 0 .. Len(M) /\ n + j \in n .. Len(M)
    BY <1>1, <1>3
  <2>2. \A i \in n + 1 .. n + j : i - n \in 1 .. j /\ i - n \in 1 .. Len(q)
                                  /\ i \in n + 1 .. n + Len(q)
    BY <1>1
  <2>3. \A i \in 1 .. j : n + i \in n + 1 .. n + j /\ i \in 1 .. Len(q)
    BY <1>1
  <2>4. \A i \in n + 1 .. n + j :
          M[i].kind = "lifecycle" /\ M[i].cmd = q[i - n] /\ M[i].status = f[q[i - n]]
    BY <1>2, <1>3, <2>2
  <2>5. \A i \in 1 .. j : M[n + i].kind = "lifecycle" /\ M[n + i].cmd = q[i]
    BY <1>2, <1>3, <2>3
  <2>6. T(j) \in SUBSET S
    BY <1>t, <2>3
  <2> QED
    BY <2>1, <2>2, <2>3, <2>4, <2>5, <2>6
<1>8. ASSUME NEW j \in 0 .. Len(q)
      PROVE  /\ StatusAt(M, n + j) = Moves(st, T(j), f)
             /\ ReportAt(M, n + j) = rp /\ PlanAt(M, n + j) = pl
  <2>1. ASSUME NEW c \in Command
        PROVE  StatusAt(M, n + j)[c] = IF c \in T(j) THEN f[c] ELSE st[c]
    <3>1. CASE c \in T(j)
      <4>1. PICK i \in 1 .. j : q[i] = c
        BY <1>t, <3>1
      <4>2. PICK k \in n + 1 .. n + j : M[k].kind = "lifecycle" /\ M[k].cmd = c
        BY <1>7, <4>1
      <4>3. \A h \in n + 1 .. n + j :
              M[h].kind = "lifecycle" /\ M[h].cmd = c => M[h].status = f[c]
        <5> SUFFICES ASSUME NEW h \in n + 1 .. n + j, M[h].cmd = c PROVE M[h].status = f[c]
          OBVIOUS
        <5>1. M[h].cmd = q[h - n] /\ M[h].status = f[q[h - n]]
          BY <1>7
        <5> QED
          BY <5>1
      <4>4. n \in 0 .. Len(M) /\ n + j \in n .. Len(M)
        BY <1>7
      <4>5. StatusAt(M, n + j)[c] = f[c]
        <5>1. M \in Seq(Event)
          BY <1>3
        <5>2. \A h \in n + 1 .. n + j :
                M[h].kind = "lifecycle" /\ M[h].cmd = c => M[h].status = M[k].status
          BY <4>2, <4>3
        <5>3. StatusAt(M, n + j)[c] = M[k].status
          BY <4>2, <4>4, <5>1, <5>2, StatusSet
        <5> QED
          BY <4>2, <4>3, <5>3
      <4> QED
        BY <3>1, <4>5
    <3>2. CASE c \notin T(j)
      <4>1. \A k \in n + 1 .. n + j : ~(M[k].kind = "lifecycle" /\ M[k].cmd = c)
        <5> SUFFICES ASSUME NEW k \in n + 1 .. n + j, M[k].cmd = c PROVE FALSE
          OBVIOUS
        <5>1. k - n \in 1 .. j /\ M[k].cmd = q[k - n]
          BY <1>7
        <5>2. c \in T(j)
          BY <1>t, <5>1
        <5> QED
          BY <3>2, <5>2
      <4>2. n \in 0 .. Len(M) /\ n + j \in n .. Len(M)
        BY <1>7
      <4>3. StatusAt(M, n + j)[c] = StatusAt(M, n)[c]
        <5>1. M \in Seq(Event)
          BY <1>3
        <5> QED
          BY <4>1, <4>2, <5>1, StatusKept
      <4> QED
        BY <1>6, <3>2, <4>3
    <3> QED
      BY <3>1, <3>2
  <2>2. StatusAt(M, n + j) = Moves(st, T(j), f)
    BY <2>1 DEF StatusAt, Moves
  <2>3. \A k \in n + 1 .. n + j : M[k].kind # "execution" /\ M[k].kind # "plan"
    BY <1>7
  <2>7. n \in 0 .. Len(M) /\ n + j \in n .. Len(M)
    BY <1>7
  <2>4. \A c \in Command : ReportAt(M, n + j)[c] = rp[c]
    <3> SUFFICES ASSUME NEW c \in Command PROVE ReportAt(M, n + j)[c] = rp[c]
      OBVIOUS
    <3>1. M \in Seq(Event)
      BY <1>3
    <3>2. ReportAt(M, n + j)[c] = ReportAt(M, n)[c]
      BY <2>3, <2>7, <3>1, ReportKept
    <3> QED
      BY <1>6, <3>2
  <2>5. ReportAt(M, n + j) = rp
    <3>1. n + j \in Nat
      BY <1>1
    <3>2. ReportAt(M, n + j) \in [Command -> Report \cup {NoReport}]
      BY <1>3, <3>1, AtTypes
    <3> QED
      BY <1>4, <2>4, <3>2
  <2>6. PlanAt(M, n + j) = pl
    BY <1>3, <1>6, <2>3, <2>7, PlanBetween
  <2> QED
    BY <2>2, <2>5, <2>6
<1>9. ASSUME NEW j \in 0 .. Len(q)
      PROVE  Lasting(M, n + j)
  <2> SUFFICES ASSUME NEW c \in Command, NEW i \in About(M, "lifecycle", c), i <= n + j
               PROVE  /\ M[i].status \in Reported => StatusAt(M, n + j)[c] \in Reported
                      /\ M[i].status \in {"dispatched"} \cup Reported
                           => StatusAt(M, n + j)[c] \in {"dispatched"} \cup Reported
    BY DEF Lasting
  <2>1. StatusAt(M, n + j)[c] = IF c \in T(j) THEN f[c] ELSE st[c]
    BY <1>8 DEF Moves
  <2>2. i \in 1 .. Len(M) /\ M[i].kind = "lifecycle" /\ M[i].cmd = c
    BY <1>3, IndexSets
  <2>3. CASE i <= n
    <3>1. i \in About(L, "lifecycle", c) /\ M[i] = L[i]
      <4>1. i \in 1 .. n
        BY <1>1, <2>2, <2>3
      <4>2. i \in 1 .. Len(L) /\ M[i] = L[i]
        BY <1>3, <4>1 DEF n
      <4> QED
        BY <1>1, <2>2, <4>2, IndexSets
    <3>2. /\ L[i].status \in Reported => st[c] \in Reported
          /\ L[i].status \in {"dispatched"} \cup Reported => st[c] \in {"dispatched"} \cup Reported
      BY <1>1, <2>3, <3>1 DEF Sound, Lasting
    <3>3. c \in T(j) => f[c] \in Allowed(st[c])
      BY <1>7 DEF MayWrite
    <3>4. c \in T(j) => st[c] \notin Reported /\ (st[c] = "dispatched" => f[c] \in Reported)
      BY <1>4, <3>3, Finality
    <3> QED
      BY <2>1, <3>1, <3>2, <3>4
  <2>4. CASE ~(i <= n)
    <3>1. i \in n + 1 .. n + j
      BY <1>1, <2>2, <2>4
    <3>2. M[i].status = f[c] /\ c \in T(j)
      <4>1. /\ i - n \in 1 .. j /\ M[i].cmd = q[i - n]
            /\ M[i].status = f[q[i - n]]
        BY <1>7, <3>1
      <4> QED
        BY <1>t, <2>2, <4>1
    <3> QED
      BY <2>1, <3>2
  <2> QED
    BY <2>3, <2>4
<1>10. ASSUME NEW j \in 0 .. Len(q)
       PROVE  Sound(M, n + j)
  <2>1. Closing(st, rp) /\ OnePerActor(st) /\ Planned(st, pl.cmds)
    BY <1>1 DEF Sound
  <2>2. T(j) \in SUBSET S /\ S \in SUBSET Command
    BY <1>2, <1>7
  <2>3. /\ Closing(Moves(st, T(j), f), rp) /\ OnePerActor(Moves(st, T(j), f))
        /\ Planned(Moves(st, T(j), f), pl.cmds)
    BY <1>4, <2>1, <2>2, SoundMoves
  <2>4. /\ StatusAt(M, n + j) = Moves(st, T(j), f)
        /\ ReportAt(M, n + j) = rp /\ PlanAt(M, n + j) = pl
    BY <1>8
  <2> QED
    BY <1>9, <2>3, <2>4 DEF Sound
<1>11. ASSUME NEW j \in 1 .. Len(q)
       PROVE  EventOK(M, n + j)
  <2>1. j - 1 \in 0 .. Len(q) /\ n + (j - 1) = (n + j) - 1
    BY <1>1
  <2>2. M[n + j].kind = "lifecycle" /\ M[n + j].cmd = q[j] /\ M[n + j].status = f[q[j]]
        /\ q[j] \in Command
    BY <1>2, <1>3
  <2>3. q[j] \notin T(j - 1)
    <3> SUFFICES ASSUME NEW i \in 1 .. j - 1, q[i] = q[j] PROVE FALSE
      BY <1>t
    <3>1. i \in 1 .. Len(q) /\ i # j
      BY <1>1
    <3> QED
      BY <3>1
  <2>4. StatusAt(M, (n + j) - 1)[q[j]] = st[q[j]]
    <3>1. StatusAt(M, n + (j - 1)) = Moves(st, T(j - 1), f)
      BY <1>8, <2>1
    <3> QED
      BY <2>1, <2>2, <2>3, <3>1 DEF Moves
  <2>5. f[q[j]] \in Allowed(st[q[j]])
    BY DEF MayWrite
  <2> QED
    BY <2>2, <2>4, <2>5 DEF EventOK
<1>12. Good(M)
  <2>1. \A j \in 1 .. Len(E) : Sound(L \o E, Len(L) + j) /\ EventOK(L \o E, Len(L) + j)
    BY <1>2, <1>10, <1>11 DEF M, n
  <2> QED
    BY <1>1, <1>2, <2>1, GoodGrown DEF M
<1>13. Indices(M, {"result"}) = Indices(L, {"result"})
  <2>1. \A i : i \in Indices(L, {"result"}) <=> i \in 1 .. n /\ L[i].kind = "result"
    BY <1>1 DEF Indices, n
  <2>2. \A i : i \in Indices(M, {"result"}) <=> i \in 1 .. n + Len(q) /\ M[i].kind = "result"
    BY <1>3 DEF Indices
  <2>3. \A i \in n + 1 .. n + Len(q) : M[i].kind # "result"
    BY <1>2, <1>3
  <2>4. \A i : i \in 1 .. n + Len(q) <=> i \in 1 .. n \/ i \in n + 1 .. n + Len(q)
    BY <1>1
  <2>5. \A i : i \in Indices(M, {"result"}) <=> i \in Indices(L, {"result"})
    BY <1>3, <2>1, <2>2, <2>3, <2>4
  <2> QED
    BY <2>5
<1>14. StatusAt(M, Len(M)) = Moves(st, S, f) /\ ReportAt(M, Len(M)) = rp /\ PlanAt(M, Len(M)) = pl
  <2>1. Len(q) \in 0 .. Len(q) /\ T(Len(q)) = S /\ n + Len(q) = Len(M)
    BY <1>1, <1>3 DEF T
  <2>2. StatusAt(M, n + Len(q)) = Moves(st, T(Len(q)), f)
        /\ ReportAt(M, n + Len(q)) = rp /\ PlanAt(M, n + Len(q)) = pl
    BY <1>8, <2>1
  <2> QED
    BY <2>1, <2>2
<1> QED
  BY <1>12, <1>13, <1>14 DEF Reaches, M, E
(* What the log M says when an event has followed its first n.             *)
OneMore(M, n, e, st, rp, pl, res) ==
  /\ M \in Seq(Event) /\ Len(M) = n + 1 /\ n \in Nat /\ M[n + 1] = e
  /\ StatusAt(M, n) = st /\ ReportAt(M, n) = rp /\ PlanAt(M, n) = pl
  /\ e.kind # "lifecycle" => StatusAt(M, n + 1) = st /\ Lasting(M, n + 1)
  /\ e.kind # "execution" => ReportAt(M, n + 1) = rp
  /\ e.kind = "execution" =>
       ReportAt(M, n + 1) = [c \in Command |-> IF c = e.cmd THEN e.report ELSE rp[c]]
  /\ e.kind # "plan" => PlanAt(M, n + 1) = pl
  /\ e.kind = "plan" => PlanAt(M, n + 1) = [has |-> TRUE, cmds |-> e.cmds]
  /\ e.kind # "result" => Indices(M, {"result"}) = res
  /\ e.kind = "result" => Indices(M, {"result"}) = res \cup {n + 1}

(* One event.                                                              *)
LEMMA OneEvent ==
  ASSUME NEW L, NEW st, NEW rp, NEW pl, NEW res, Reaches(L, st, rp, pl, res),
         NEW e \in Event
  PROVE  OneMore(L \o <<e>>, Len(L), e, st, rp, pl, res)
<1> DEFINE M == L \o <<e>>
           n == Len(L)
<1>1. /\ L \in Seq(Event) /\ n \in Nat /\ Sound(L, n)
      /\ StatusAt(L, n) = st /\ ReportAt(L, n) = rp /\ PlanAt(L, n) = pl
      /\ Indices(L, {"result"}) = res
  BY DEF Reaches, Good
<1>2. /\ M \in Seq(Event) /\ Len(M) = n + 1 /\ M[n + 1] = e
      /\ \A i \in 1 .. n : M[i] = L[i]
  <2>1. <<e>> \in Seq(Event) /\ Len(<<e>>) = 1 /\ <<e>>[1] = e
    OBVIOUS
  <2>2. /\ M \in Seq(Event) /\ Len(M) = Len(L) + Len(<<e>>)
        /\ \A i \in 1 .. Len(L) : M[i] = L[i]
        /\ \A i \in 1 .. Len(<<e>>) : M[Len(L) + i] = <<e>>[i]
    BY <1>1, <2>1, GrownParts
  <2> HIDE DEF M
  <2> QED
    BY <2>1, <2>2
<1>3. /\ st \in [Command -> Status] /\ rp \in [Command -> Report \cup {NoReport}]
  BY <1>1, AtTypes
<1>l. n = Len(L)
  OBVIOUS
<1> HIDE DEF n, M
<1>4. n <= Len(L) /\ n <= Len(M) /\ n \in 0 .. n
  BY <1>1, <1>2, <1>l
<1>5. StatusAt(M, n) = st /\ ReportAt(M, n) = rp /\ PlanAt(M, n) = pl
  BY <1>1, <1>2, <1>4, SamePrefix
<1>6. /\ n \in 0 .. Len(M) /\ n + 1 \in n .. Len(M) /\ n + 1 \in n + 1 .. n + 1 /\ n + 1 # 0
      /\ \A i \in n + 1 .. n + 1 : M[i] = e
  BY <1>1, <1>2
<1>7. ASSUME e.kind # "lifecycle" PROVE StatusAt(M, n + 1) = st
  <2>1. \A c \in Command : \A i \in n + 1 .. n + 1 : ~(M[i].kind = "lifecycle" /\ M[i].cmd = c)
    BY <1>6, <1>7
  <2>2. \A c \in Command : StatusAt(M, n + 1)[c] = StatusAt(M, n)[c]
    BY <1>2, <1>6, <2>1, StatusKept
  <2>3. StatusAt(M, n + 1) \in [Command -> Status]
    BY <1>1, <1>2, AtTypes
  <2> QED
    BY <1>3, <1>5, <2>2, <2>3
<1>8. ASSUME e.kind # "lifecycle" PROVE Lasting(M, n + 1)
  <2> SUFFICES ASSUME NEW c \in Command, NEW i \in About(M, "lifecycle", c)
               PROVE  /\ M[i].status \in Reported => StatusAt(M, n + 1)[c] \in Reported
                      /\ M[i].status \in {"dispatched"} \cup Reported
                           => StatusAt(M, n + 1)[c] \in {"dispatched"} \cup Reported
    BY DEF Lasting
  <2>1. i \in 1 .. n + 1 /\ M[i].kind = "lifecycle" /\ M[i].cmd = c
    BY <1>2, IndexSets
  <2>2. i \in 1 .. n /\ M[i] = L[i]
    BY <1>1, <1>2, <1>8, <2>1
  <2>3. i \in About(L, "lifecycle", c) /\ i <= n
    BY <1>1, <1>l, <2>1, <2>2, IndexSets
  <2>4. /\ L[i].status \in Reported => st[c] \in Reported
        /\ L[i].status \in {"dispatched"} \cup Reported => st[c] \in {"dispatched"} \cup Reported
    BY <1>1, <2>3 DEF Sound, Lasting
  <2> QED
    BY <1>7, <1>8, <2>2, <2>4
<1>9. ASSUME e.kind # "execution" PROVE ReportAt(M, n + 1) = rp
  <2>1. \A c \in Command : \A i \in n + 1 .. n + 1 : ~(M[i].kind = "execution" /\ M[i].cmd = c)
    BY <1>6, <1>9
  <2>2. \A c \in Command : ReportAt(M, n + 1)[c] = ReportAt(M, n)[c]
    BY <1>2, <1>6, <2>1, ReportKept
  <2>3. ReportAt(M, n + 1) \in [Command -> Report \cup {NoReport}]
    BY <1>1, <1>2, AtTypes
  <2> QED
    BY <1>3, <1>5, <2>2, <2>3
<1>10. ASSUME e.kind = "execution"
       PROVE  ReportAt(M, n + 1) = [c \in Command |-> IF c = e.cmd THEN e.report ELSE rp[c]]
  <2>1. ASSUME NEW c \in Command
        PROVE  ReportAt(M, n + 1)[c] = IF c = e.cmd THEN e.report ELSE rp[c]
    <3>1. CASE c = e.cmd
      <4>1. /\ M[n + 1].kind = "execution" /\ M[n + 1].cmd = c
            /\ \A i \in n + 1 .. n + 1 : M[i].report = M[n + 1].report
        BY <1>6, <1>10, <3>1
      <4>2. ReportAt(M, n + 1)[c] = M[n + 1].report
        BY <1>2, <1>6, <4>1, ReportSet
      <4> QED
        BY <1>2, <3>1, <4>2
    <3>2. CASE c # e.cmd
      <4>1. \A i \in n + 1 .. n + 1 : ~(M[i].kind = "execution" /\ M[i].cmd = c)
        BY <1>6, <3>2
      <4>2. ReportAt(M, n + 1)[c] = ReportAt(M, n)[c]
        BY <1>2, <1>6, <4>1, ReportKept
      <4> QED
        BY <1>5, <3>2, <4>2
    <3> QED
      BY <3>1, <3>2
  <2>2. ReportAt(M, n + 1) \in [Command -> Report \cup {NoReport}]
    BY <1>1, <1>2, AtTypes
  <2> QED
    BY <2>1, <2>2
<1>11. e.kind # "plan" => PlanAt(M, n + 1) = pl
  BY <1>2, <1>5, <1>6, PlanBetween
<1>12. e.kind = "plan" => PlanAt(M, n + 1) = [has |-> TRUE, cmds |-> e.cmds]
  BY <1>2, <1>6, PlanBetween
<1>13. \A i : i \in Indices(M, {"result"})
                <=> i \in Indices(L, {"result"}) \/ (i = n + 1 /\ e.kind = "result")
  <2>1. \A i : i \in Indices(L, {"result"}) <=> i \in 1 .. n /\ L[i].kind = "result"
    BY <1>1, <1>l DEF Indices
  <2>2. \A i : i \in Indices(M, {"result"}) <=> i \in 1 .. n + 1 /\ M[i].kind = "result"
    BY <1>2 DEF Indices
  <2>3. \A i : i \in 1 .. n + 1 <=> i \in 1 .. n \/ i = n + 1
    BY <1>1
  <2> QED
    BY <1>2, <2>1, <2>2, <2>3
<1>14. /\ e.kind # "result" => Indices(M, {"result"}) = res
       /\ e.kind = "result" => Indices(M, {"result"}) = res \cup {n + 1}
  BY <1>1, <1>13
<1> QED
  <2>1. OneMore(M, n, e, st, rp, pl, res)
    BY <1>1, <1>2, <1>5, <1>7, <1>8, <1>9, <1>10, <1>11, <1>12, <1>14 DEF OneMore
  <2> QED
    BY <2>1 DEF M, n

(* A good log that grows by one event.                                     *)
LEMMA GoodOne ==
  ASSUME NEW L, Good(L), NEW e \in Event,
         Sound(L \o <<e>>, Len(L) + 1), EventOK(L \o <<e>>, Len(L) + 1)
  PROVE  Good(L \o <<e>>)
<1>1. <<e>> \in Seq(Event) /\ Len(<<e>>) = 1
  OBVIOUS
<1>2. \A j \in 1 .. Len(<<e>>) : j = 1
  BY <1>1
<1>3. \A j \in 1 .. Len(<<e>>) : /\ Sound(L \o <<e>>, Len(L) + j)
                                 /\ EventOK(L \o <<e>>, Len(L) + j)
  BY <1>2
<1> QED
  BY <1>1, <1>3, GoodGrown

(* An execution event of a command that has none.                          *)
LEMMA ExecutionPiece ==
  ASSUME NEW L, NEW st, NEW rp, NEW pl, NEW res, Reaches(L, st, rp, pl, res),
         NEW c \in Command, NEW r \in Report,
         rp[c] = NoReport, st[c] \in Live, OutcomeOf[r] \in Allowed(st[c])
  PROVE  Reaches(L \o <<ExecutionEvent(c, r)>>, st,
                 [d \in Command |-> IF d = c THEN r ELSE rp[d]], pl, res)
<1> DEFINE e == ExecutionEvent(c, r)
           M == L \o <<e>>
           n == Len(L)
           rp2 == [d \in Command |-> IF d = c THEN r ELSE rp[d]]
<1>1. e \in Event /\ e.kind = "execution" /\ e.cmd = c /\ e.report = r
  BY DEF ExecutionEvent, Event
<1> HIDE DEF e
<1>2. OneMore(M, n, e, st, rp, pl, res)
  BY <1>1, OneEvent
<1>3. Good(L) /\ Closing(st, rp) /\ OnePerActor(st) /\ Planned(st, pl.cmds)
  <2>1. Len(L) \in 0 .. Len(L)
    BY DEF Reaches, Good
  <2> QED
    BY <2>1 DEF Reaches, Good, Sound
<1>4. Closing(st, rp2)
  BY <1>3, ContentAssumption DEF Closing
<1> HIDE DEF M, n
<1>9. ReportAt(M, n + 1) = rp2
  BY <1>1, <1>2 DEF OneMore
<1> HIDE DEF rp2
<1>5. Sound(M, n + 1)
  BY <1>1, <1>2, <1>3, <1>4, <1>9 DEF Sound, OneMore
<1>6. (n + 1) - 1 = n
  BY <1>2 DEF OneMore
<1>7. EventOK(M, n + 1)
  BY <1>1, <1>2, <1>6 DEF EventOK, OneMore
<1>8. Good(M)
  BY <1>1, <1>3, <1>5, <1>7, <1>2, GoodOne DEF M, n, OneMore
<1> QED
  <2>1. StatusAt(M, Len(M)) = st /\ ReportAt(M, Len(M)) = rp2 /\ PlanAt(M, Len(M)) = pl
        /\ Indices(M, {"result"}) = res
    BY <1>1, <1>2, <1>9 DEF OneMore
  <2>2. Reaches(M, st, rp2, pl, res)
    BY <1>8, <2>1 DEF Reaches
  <2> QED
    BY <2>2 DEF M, rp2, e

(* The event of a plan with all the plan commands that wait.               *)
LEMMA PlanPiece ==
  ASSUME NEW L, NEW st, NEW rp, NEW pl, NEW res, Reaches(L, st, rp, pl, res),
         NEW P \in SUBSET Planner, Planned(st, P)
  PROVE  Reaches(L \o <<PlanEvent(P)>>, st, rp, [has |-> TRUE, cmds |-> P], res)
<1> DEFINE e == PlanEvent(P)
           M == L \o <<e>>
           n == Len(L)
<1>1. e \in Event /\ e.kind = "plan" /\ e.cmds = P
  BY DEF PlanEvent, Event
<1> HIDE DEF e
<1>2. OneMore(M, n, e, st, rp, pl, res)
  BY <1>1, OneEvent
<1>3. Good(L) /\ Closing(st, rp) /\ OnePerActor(st)
  <2>1. Len(L) \in 0 .. Len(L)
    BY DEF Reaches, Good
  <2> QED
    BY <2>1 DEF Reaches, Good, Sound
<1> HIDE DEF M, n
<1>4. Sound(M, n + 1)
  BY <1>1, <1>2, <1>3 DEF Sound, OneMore
<1>5. EventOK(M, n + 1)
  BY <1>1, <1>2 DEF EventOK, OneMore
<1>6. Good(M)
  BY <1>1, <1>3, <1>4, <1>5, <1>2, GoodOne DEF M, n, OneMore
<1> QED
  <2>1. StatusAt(M, Len(M)) = st /\ ReportAt(M, Len(M)) = rp /\ PlanAt(M, Len(M)) = [has |-> TRUE, cmds |-> P]
        /\ Indices(M, {"result"}) = res
    BY <1>1, <1>2 DEF OneMore
  <2>2. Reaches(M, st, rp, [has |-> TRUE, cmds |-> P], res)
    BY <1>6, <2>1 DEF Reaches
  <2> QED
    BY <2>2 DEF M, n, e

(* The event of a result.                                                  *)
LEMMA ResultPiece ==
  ASSUME NEW L, NEW st, NEW rp, NEW pl, NEW res, Reaches(L, st, rp, pl, res),
         NEW x \in Result
  PROVE  Reaches(L \o <<ResultEvent(x)>>, st, rp, pl, res \cup {Len(L) + 1})
<1> DEFINE e == ResultEvent(x)
           M == L \o <<e>>
           n == Len(L)
<1>1. e \in Event /\ e.kind = "result"
  BY DEF ResultEvent, Event
<1> HIDE DEF e
<1>2. OneMore(M, n, e, st, rp, pl, res)
  BY <1>1, OneEvent
<1>3. Good(L) /\ Closing(st, rp) /\ OnePerActor(st) /\ Planned(st, pl.cmds)
  <2>1. Len(L) \in 0 .. Len(L)
    BY DEF Reaches, Good
  <2> QED
    BY <2>1 DEF Reaches, Good, Sound
<1> HIDE DEF M, n
<1>4. Sound(M, n + 1)
  BY <1>1, <1>2, <1>3 DEF Sound, OneMore
<1>5. EventOK(M, n + 1)
  BY <1>1, <1>2 DEF EventOK, OneMore
<1>6. Good(M)
  BY <1>1, <1>3, <1>4, <1>5, <1>2, GoodOne DEF M, n, OneMore
<1> QED
  <2>1. StatusAt(M, Len(M)) = st /\ ReportAt(M, Len(M)) = rp /\ PlanAt(M, Len(M)) = pl
        /\ Indices(M, {"result"}) = res \cup {n + 1}
    BY <1>1, <1>2 DEF OneMore
  <2>2. Reaches(M, st, rp, pl, res \cup {n + 1})
    BY <1>6, <2>1 DEF Reaches
  <2> QED
    BY <2>2 DEF M, n, e

(* A checkpoint of the state the log has come to, unless there is a result. *)
LEMMA SnapshotPiece ==
  ASSUME NEW L, NEW st, NEW rp, NEW pl, NEW res, Reaches(L, st, rp, pl, res),
         NEW e \in Event, e.kind = "snapshot",
         e.ended = NoResult =>
           /\ res = {} /\ e.status = st /\ e.report = rp
           /\ [has |-> e.hasPlan, cmds |-> e.plan] = pl
           /\ \A c \in Command : rp[c] # NoReport => st[c] \in Reported,
         e.ended # NoResult => res # {}
  PROVE  Reaches(L \o <<e>>, st, rp, pl, res)
<1> DEFINE M == L \o <<e>>
           n == Len(L)
<1>2. OneMore(M, n, e, st, rp, pl, res)
  BY OneEvent
<1>3. Good(L) /\ Closing(st, rp) /\ OnePerActor(st) /\ Planned(st, pl.cmds)
  <2>1. Len(L) \in 0 .. Len(L)
    BY DEF Reaches, Good
  <2> QED
    BY <2>1 DEF Reaches, Good, Sound
<1> HIDE DEF M, n
<1>4. Sound(M, n + 1)
  BY <1>2, <1>3 DEF Sound, OneMore
<1>5. EventOK(M, n + 1)
  <2>1. (n + 1) - 1 = n
    BY <1>2 DEF OneMore
  <2>2. e.ended # NoResult => \E i \in 1 .. (n + 1) - 1 : M[i].kind = "result"
    <3> SUFFICES ASSUME res # {} PROVE \E i \in 1 .. n : M[i].kind = "result"
      BY <2>1
    <3>1. PICK i \in Indices(M, {"result"}) : TRUE
      BY <1>2 DEF OneMore
    <3>2. i \in 1 .. n + 1 /\ M[i].kind = "result"
      BY <1>2 DEF OneMore, Indices
    <3>3. i # n + 1
      BY <1>2, <3>2 DEF OneMore
    <3>4. i \in 1 .. n
      BY <1>2, <3>2, <3>3 DEF OneMore
    <3> QED
      BY <3>2, <3>4
  <2>3. \A i \in Indices(M, {"result"}) : res # {}
    BY <1>2 DEF OneMore
  <2> QED
    BY <1>2, <2>1, <2>2, <2>3 DEF EventOK, OneMore
<1>6. Good(M)
  BY <1>3, <1>4, <1>5, <1>2, GoodOne DEF M, n, OneMore
<1> QED
  BY <1>2, <1>6 DEF Reaches, OneMore, M, n
-----------------------------------------------------------------------------
(* Lifecycle events of one status, as the handlers write them.             *)
LEMMA MovedPiece ==
  ASSUME NEW L, NEW st \in [Command -> Status], NEW rp, NEW pl, NEW res,
         Reaches(L, st, rp, pl, res),
         NEW S \in SUBSET Command, NEW v \in Status \ Reported,
         \A c \in S : /\ v \in Allowed(st[c])
                      /\ rp[c] = NoReport
                      /\ v \in Actionable /\ c \in Planner => c \in pl.cmds,
         v = "dispatched" =>
           \A c \in S : \A d \in Command \ {c} :
             ActorOf[d] = ActorOf[c] => st[d] # "dispatched" /\ d \notin S
  PROVE  Reaches(L \o Moved(S, v), Put(st, S, v), rp, pl, res)
<1> DEFINE q == Listing(S)
           f == [c \in Command |-> v]
<1>1. /\ q \in Seq(Command) /\ Len(q) = Cardinality(S)
      /\ S = {q[i] : i \in 1 .. Len(q)}
      /\ \A i, j \in 1 .. Len(q) : q[i] = q[j] => i = j
  BY ListingSeq
<1>2. f \in [Command -> Status] /\ \A c \in Command : f[c] = v
  OBVIOUS
<1>3. Moved(S, v) = Written(q, f)
  <2>1. \A i \in 1 .. Len(q) : q[i] \in Command
    BY <1>1
  <2> HIDE DEF f, q
  <2>2. \A i \in 1 .. Len(q) : f[q[i]] = v
    BY <1>2, <2>1
  <2> QED
    BY <1>1, <2>2 DEF Moved, Written, q
<1>4. Put(st, S, v) = Moves(st, S, f)
  <2> HIDE DEF f
  <2> QED
    BY <1>2 DEF Put, Moves
<1> HIDE DEF q, f
<1>5. MayWrite(st, rp, pl.cmds, S, f)
  <2> SUFFICES ASSUME NEW c \in S
               PROVE  /\ v \in Allowed(st[c])
                      /\ IF rp[c] = NoReport THEN v \notin Reported ELSE v = OutcomeOf[rp[c]]
                      /\ v \in Actionable /\ c \in Planner => c \in pl.cmds
                      /\ v = "dispatched" =>
                           \A d \in Command \ {c} :
                             ActorOf[d] = ActorOf[c] => /\ st[d] # "dispatched"
                                                        /\ d \in S => v # "dispatched"
    BY <1>2 DEF MayWrite
  <2> QED
    OBVIOUS
<1>6. Reaches(L \o Written(q, f), Moves(st, S, f), rp, pl, res)
  BY <1>1, <1>2, <1>5, WrittenPiece
<1> QED
  BY <1>3, <1>4, <1>6

(* One lifecycle event that is no dispatch.                                *)
LEMMA LifePiece ==
  ASSUME NEW L, NEW st \in [Command -> Status], NEW rp, NEW pl, NEW res,
         Reaches(L, st, rp, pl, res),
         NEW c \in Command, NEW v \in Status \ {"dispatched"}, v \in Allowed(st[c]),
         IF rp[c] = NoReport THEN v \notin Reported ELSE v = OutcomeOf[rp[c]],
         v \in Actionable /\ c \in Planner => c \in pl.cmds
  PROVE  Reaches(L \o <<LifecycleEvent(c, v)>>, Put(st, {c}, v), rp, pl, res)
<1> DEFINE q == <<c>>
           f == [d \in Command |-> v]
<1>1. /\ q \in Seq(Command) /\ Len(q) = 1 /\ q[1] = c
      /\ f \in [Command -> Status] /\ \A d \in Command : f[d] = v
  OBVIOUS
<1>3. <<LifecycleEvent(c, v)>> = Written(q, f)
  <2> DEFINE w == <<LifecycleEvent(c, v)>>
  <2>1. w = [i \in 1 .. 1 |-> LifecycleEvent(c, v)]
    OBVIOUS
  <2>2. Written(q, f) = [i \in 1 .. 1 |-> LifecycleEvent(q[i], f[q[i]])]
    BY <1>1 DEF Written
  <2>3. \A i \in 1 .. 1 : q[i] = c /\ f[q[i]] = v
    OBVIOUS
  <2> QED
    BY <2>1, <2>2, <2>3
<1> HIDE DEF q, f
<1>4. Put(st, {c}, v) = Moves(st, {c}, f)
  BY <1>1 DEF Put, Moves
<1>5. MayWrite(st, rp, pl.cmds, {c}, f)
  BY <1>1 DEF MayWrite
<1>6. /\ {c} = {q[i] : i \in 1 .. Len(q)}
      /\ \A i, j \in 1 .. Len(q) : q[i] = q[j] => i = j
  BY <1>1
<1>7. Reaches(L \o Written(q, f), Moves(st, {c}, f), rp, pl, res)
  BY <1>1, <1>5, <1>6, WrittenPiece
<1> QED
  BY <1>3, <1>4, <1>7

(* The statuses and fingerprints a log has come to have their types.       *)
LEMMA ReachesTypes ==
  ASSUME NEW L, NEW st, NEW rp, NEW pl, NEW res, Reaches(L, st, rp, pl, res)
  PROVE  /\ L \in Seq(Event) /\ Len(L) \in Nat
         /\ st \in [Command -> Status] /\ rp \in [Command -> Report \cup {NoReport}]
         /\ pl \in [has : BOOLEAN, cmds : SUBSET Planner]
         /\ Closing(st, rp) /\ OnePerActor(st) /\ Planned(st, pl.cmds)
         /\ Lasting(L, Len(L))
<1>1. L \in Seq(Event) /\ Len(L) \in Nat /\ Len(L) \in 0 .. Len(L)
  BY DEF Reaches, Good
<1>2. /\ StatusAt(L, Len(L)) \in [Command -> Status]
      /\ ReportAt(L, Len(L)) \in [Command -> Report \cup {NoReport}]
      /\ PlanAt(L, Len(L)) \in [has : BOOLEAN, cmds : SUBSET Planner]
  BY <1>1, AtTypes
<1>3. Sound(L, Len(L))
  BY <1>1 DEF Reaches, Good
<1> QED
  BY <1>1, <1>2, <1>3 DEF Reaches, Sound

(* A report and the closing of its command.                                *)
LEMMA ClosePiece ==
  ASSUME NEW L, NEW st, NEW rp, NEW pl, NEW res, Reaches(L, st, rp, pl, res),
         NEW c \in Command, NEW r \in Report,
         rp[c] = NoReport, st[c] \in Live, OutcomeOf[r] \in Allowed(st[c])
  PROVE  Reaches((L \o <<ExecutionEvent(c, r)>>) \o <<LifecycleEvent(c, OutcomeOf[r])>>,
                 Put(st, {c}, OutcomeOf[r]),
                 [d \in Command |-> IF d = c THEN r ELSE rp[d]], pl, res)
<1> DEFINE rp2 == [d \in Command |-> IF d = c THEN r ELSE rp[d]]
           K == L \o <<ExecutionEvent(c, r)>>
<1>1. Reaches(K, st, rp2, pl, res)
  BY ExecutionPiece
<1>2. st \in [Command -> Status]
  BY ReachesTypes
<1>3. rp2[c] = r /\ r # NoReport
  BY ContentAssumption
<1>4. OutcomeOf[r] \in Status \ {"dispatched"} /\ OutcomeOf[r] \notin Actionable
  BY ContentAssumption DEF Reported, Status, Actionable, Live
<1> HIDE DEF rp2, K
<1>5. Reaches(K \o <<LifecycleEvent(c, OutcomeOf[r])>>, Put(st, {c}, OutcomeOf[r]), rp2, pl, res)
  BY <1>1, <1>2, <1>3, <1>4, LifePiece
<1> QED
  BY <1>5 DEF rp2, K

(* A set of natural numbers that holds 0, and the next after each of its   *)
(* members below n, holds all up to n.                                     *)
LEMMA Climb ==
  ASSUME NEW n \in Nat, NEW S \in SUBSET (0 .. n), 0 \in S,
         \A k \in 1 .. n : k - 1 \in S => k \in S
  PROVE  n \in S
<1> SUFFICES ASSUME n \notin S PROVE FALSE
  OBVIOUS
<1> DEFINE Bad == (0 .. n) \ S
<1>1. Bad \in SUBSET Nat /\ n \in Bad
  OBVIOUS
<1>2. PICK b \in Bad : \A k \in Bad : b <= k
  <2> HIDE DEF Bad
  <2> QED BY <1>1, LeastNumber
<1>3. b \in 1 .. n /\ b - 1 \in 0 .. n /\ b \notin S
  OBVIOUS
<1>4. b - 1 \notin Bad
  BY <1>2, <1>3
<1>5. b - 1 \in S
  BY <1>3, <1>4
<1> QED
  BY <1>3, <1>5

(* The synthetic reports of a set of live commands.                        *)
LEMMA CancelledPiece ==
  ASSUME NEW L, NEW st, NEW rp, NEW pl, NEW res, Reaches(L, st, rp, pl, res),
         NEW S \in SUBSET Command,
         \A c \in S : st[c] \in Live /\ rp[c] = NoReport
  PROVE  Reaches(L \o Cancelled(S), Put(st, S, "cancelled"),
                 [c \in Command |-> IF c \in S THEN Missing ELSE rp[c]], pl, res)
<1> DEFINE q == Listing(S)
           n == Cardinality(S)
           e(i) == LET c == q[(i + 1) \div 2]
                   IN  IF i % 2 = 1 THEN ExecutionEvent(c, Missing)
                                    ELSE LifecycleEvent(c, "cancelled")
           G(k) == [i \in 1 .. 2 * k |-> e(i)]
           T(k) == {q[i] : i \in 1 .. k}
           sk(k) == Put(st, T(k), "cancelled")
           rk(k) == [c \in Command |-> IF c \in T(k) THEN Missing ELSE rp[c]]
           Done == {k \in 0 .. n : Reaches(L \o G(k), sk(k), rk(k), pl, res)}
<1>1. /\ q \in Seq(Command) /\ Len(q) = n /\ n \in Nat
      /\ S = {q[i] : i \in 1 .. n}
      /\ \A i, j \in 1 .. n : q[i] = q[j] => i = j
  BY ListingSeq
<1>2. /\ L \in Seq(Event) /\ st \in [Command -> Status]
      /\ rp \in [Command -> Report \cup {NoReport}]
  BY ReachesTypes
<1>3. 0 \in Done
  <2>1. G(0) = <<>>
    <3>1. 1 .. 2 * 0 = {}
      OBVIOUS
    <3> QED
      BY <3>1
  <2>2. L \o G(0) = L
    <3> HIDE DEF G
    <3> QED BY <1>2, <2>1
  <2>3. T(0) = {}
    OBVIOUS
  <2> HIDE DEF T, G
  <2>4. sk(0) = st
    BY <1>2, <2>3 DEF Put
  <2>5. rk(0) = rp
    BY <1>2, <2>3
  <2>6. Reaches(L \o G(0), sk(0), rk(0), pl, res)
    BY <2>2, <2>4, <2>5
  <2> QED
    BY <1>1, <2>6
<1>4. ASSUME NEW k \in 1 .. n, k - 1 \in Done PROVE k \in Done
  <2> DEFINE c == q[k]
             K == L \o G(k - 1)
  <2>1. Reaches(K, sk(k - 1), rk(k - 1), pl, res)
    BY <1>4
  <2>2. c \in Command /\ c \in S
    BY <1>1
  <2>3. T(k) = T(k - 1) \cup {c} /\ c \notin T(k - 1)
    <3>1. 1 .. k = (1 .. (k - 1)) \cup {k} /\ k \notin 1 .. (k - 1)
      BY <1>1
    <3>2. \A i \in 1 .. (k - 1) : i \in 1 .. n /\ i # k
      BY <1>1
    <3> HIDE DEF q
    <3>3. \A i \in 1 .. (k - 1) : q[i] # q[k]
      BY <1>1, <3>2
    <3> QED
      BY <3>1, <3>3
  <2>a. /\ 2 * k \in Nat /\ 2 * (k - 1) \in Nat
        /\ e(2 * k - 1) = ExecutionEvent(c, Missing)
        /\ e(2 * k) = LifecycleEvent(c, "cancelled")
    <3>1. /\ ((2 * k - 1) + 1) \div 2 = k /\ (2 * k + 1) \div 2 = k
          /\ (2 * k - 1) % 2 = 1 /\ (2 * k) % 2 = 0
      BY <1>1
    <3> HIDE DEF q
    <3> QED
      BY <3>1
  <2>b. G(k) \in Seq(Event) /\ G(k - 1) \in Seq(Event)
    <3>1. ASSUME NEW i \in 1 .. 2 * k PROVE e(i) \in Event
      <4>1. (i + 1) \div 2 \in 1 .. k
        BY <1>1
      <4>2. (i + 1) \div 2 \in 1 .. n
        BY <1>1, <4>1
      <4>3. q[(i + 1) \div 2] \in Command
        <5> HIDE DEF q
        <5> QED BY <1>1, <4>2
      <4>4. \A d \in Command : /\ ExecutionEvent(d, Missing) \in Event
                               /\ LifecycleEvent(d, "cancelled") \in Event
        BY ContentAssumption DEF ExecutionEvent, LifecycleEvent, Event, Status, Reported
      <4> QED
        BY <4>3, <4>4
    <3>2. \A i \in 1 .. 2 * (k - 1) : i \in 1 .. 2 * k
      BY <1>1
    <3>3. G(k) \in [1 .. 2 * k -> Event] /\ G(k - 1) \in [1 .. 2 * (k - 1) -> Event]
      <4> HIDE DEF e
      <4> QED
        BY <3>1, <3>2
    <3> HIDE DEF G
    <3> QED
      BY <2>a, <3>3
  <2>c. <<ExecutionEvent(c, Missing)>> \in Seq(Event) /\ <<LifecycleEvent(c, "cancelled")>> \in Seq(Event)
    BY <2>2, ContentAssumption DEF ExecutionEvent, LifecycleEvent, Event, Status, Reported
  <2>4. G(k) = (G(k - 1) \o <<ExecutionEvent(c, Missing)>>) \o <<LifecycleEvent(c, "cancelled")>>
    <3> DEFINE a == ExecutionEvent(c, Missing)
               b == LifecycleEvent(c, "cancelled")
               A == G(k - 1)
               R == (A \o <<a>>) \o <<b>>
    <3>1. Len(G(k)) = 2 * k /\ Len(A) = 2 * (k - 1) /\ \A i \in 1 .. Len(A) : A[i] = e(i)
      BY <2>a
    <3>2. \A i \in 1 .. 2 * k : G(k)[i] = e(i)
      OBVIOUS
    <3>3. a \in Event /\ b \in Event
      BY <2>2, ContentAssumption DEF ExecutionEvent, LifecycleEvent, Event, Status, Reported
    <3> HIDE DEF G, e, a, b, A
    <3>4. A \in Seq(Event)
      BY <2>b DEF A
    <3>5. R \in Seq(Event) /\ Len(R) = Len(A) + 2
      BY <3>3, <3>4
    <3>6. /\ \A i \in 1 .. Len(A) : R[i] = A[i]
          /\ R[Len(A) + 1] = a /\ R[Len(A) + 2] = b
      BY <3>3, <3>4
    <3> HIDE DEF R
    <3>7. \A i \in 1 .. 2 * k : i \in 1 .. Len(A) \/ i = Len(A) + 1 \/ i = Len(A) + 2
      BY <3>1, <2>a
    <3>8. Len(A) + 1 = 2 * k - 1 /\ Len(A) + 2 = 2 * k
      BY <3>1, <2>a
    <3>9. \A i \in 1 .. 2 * k : R[i] = G(k)[i]
      BY <3>1, <3>2, <3>6, <3>7, <3>8, <2>a DEF a, b
    <3>10. Len(R) = 2 * k
      BY <3>1, <3>5, <2>a
    <3>11. G(k) = R
      BY <2>b, <3>1, <3>5, <3>9, <3>10, SeqEqual
    <3> QED
      BY <3>11 DEF R, A, a, b
  <2> HIDE DEF T, c, K, G
  <2>5. sk(k - 1)[c] = st[c] /\ rk(k - 1)[c] = rp[c]
    BY <2>2, <2>3 DEF Put
  <2>6. /\ rk(k - 1)[c] = NoReport /\ sk(k - 1)[c] \in Live
        /\ OutcomeOf[Missing] = "cancelled" /\ "cancelled" \in Allowed(sk(k - 1)[c])
        /\ Missing \in Report
    <3>1. st[c] \in Live /\ rp[c] = NoReport
      BY <2>2
    <3> HIDE DEF sk, rk
    <3> QED
      BY <2>5, <3>1, ContentAssumption DEF Live, Actionable, Allowed, Reported
  <2>7. Put(sk(k - 1), {c}, "cancelled") = sk(k)
    BY <2>3 DEF Put
  <2>8. [d \in Command |-> IF d = c THEN Missing ELSE rk(k - 1)[d]] = rk(k)
    BY <2>3
  <2>9. Reaches((K \o <<ExecutionEvent(c, Missing)>>) \o <<LifecycleEvent(c, OutcomeOf[Missing])>>,
                Put(sk(k - 1), {c}, OutcomeOf[Missing]),
                [d \in Command |-> IF d = c THEN Missing ELSE rk(k - 1)[d]], pl, res)
    <3> HIDE DEF sk, rk
    <3> QED
      BY <2>1, <2>2, <2>6, ClosePiece
  <2>10. L \o G(k) = (K \o <<ExecutionEvent(c, Missing)>>) \o <<LifecycleEvent(c, "cancelled")>>
    BY <1>2, <2>b, <2>c, <2>4, ConcatAssociative, ConcatProperties DEF K
  <2>11. Reaches(L \o G(k), sk(k), rk(k), pl, res)
    <3> HIDE DEF sk, rk
    <3> QED
      BY <2>6, <2>7, <2>8, <2>9, <2>10
  <2> QED
    BY <1>1, <2>11
<1>5. n \in Done
  <2>1. Done \in SUBSET (0 .. n)
    OBVIOUS
  <2>2. \A k \in 1 .. n : k - 1 \in Done => k \in Done
    BY <1>4
  <2> HIDE DEF Done
  <2> QED
    BY <1>1, <1>3, <2>1, <2>2, Climb
<1>6. G(n) = Cancelled(S)
  BY DEF Cancelled
<1>7. T(n) = S
  BY <1>1
<1>8. Reaches(L \o G(n), sk(n), rk(n), pl, res)
  BY <1>5
<1> HIDE DEF G, T
<1> QED
  BY <1>6, <1>7, <1>8
-----------------------------------------------------------------------------
(* Replay of a good log, from its last checkpoint or from nothing, gives   *)
(* what its events give.                                                   *)
LEMMA LastAfterIs ==
  ASSUME NEW I \in SUBSET (Nat \ {0}), NEW k \in Nat, \A i \in I : i <= k,
         NEW s \in 0 .. k, s \notin I, NEW L
  PROVE  /\ Upto(I, k) \in 0 .. k
         /\ Upto(I, k) > s => /\ LastAfter(L, s, I) = Upto(I, k)
                              /\ Upto(I, k) \in I
         /\ ~(Upto(I, k) > s) => /\ LastAfter(L, s, I) = s
                                 /\ \A i \in I : i < s
<1> DEFINE u == Upto(I, k)
           T == {s} \cup {i \in I : i > s}
<1>1. u \in 0 .. k /\ (u # 0 => u \in I) /\ \A i \in I : i <= u
  BY UptoIsLast
<1>2. T \in SUBSET Nat /\ T # {} /\ \A i \in T : i <= k
  <2>1. ASSUME NEW i \in T PROVE i \in Nat /\ i <= k
    <3>1. CASE i = s
      BY <3>1
    <3>2. CASE i \in I
      BY <3>2
    <3> QED
      BY <3>1, <3>2
  <2>2. s \in T
    OBVIOUS
  <2> HIDE DEF T
  <2> QED
    BY <2>1, <2>2
<1> HIDE DEF u
<1>3. Max(T) \in T /\ \A i \in T : i <= Max(T)
  <2> HIDE DEF T
  <2> QED BY <1>2, MaxOf
<1>4. LastAfter(L, s, I) = Max(T)
  BY DEF LastAfter
<1>5. ASSUME u > s PROVE Max(T) = u
  <2>1. u \in T
    BY <1>1, <1>5
  <2>2. Max(T) \in I
    BY <1>1, <1>3, <1>5, <2>1
  <2> QED
    BY <1>1, <1>2, <1>3, <2>1, <2>2
<1>6. ASSUME ~(u > s) PROVE Max(T) = s /\ \A i \in I : i < s
  <2>1. \A i \in I : i \in Nat /\ i <= u /\ i # s
    BY <1>1
  <2>2. s \in Nat /\ u \in Nat /\ u <= s
    BY <1>1, <1>6
  <2>3. \A i \in I : i < s
    BY <2>1, <2>2
  <2>4. \A i \in I : ~(i > s)
    BY <2>1, <2>2, <2>3
  <2>5. T = {s}
    BY <2>4
  <2> QED
    BY <1>3, <2>3, <2>5
<1> QED
  BY <1>1, <1>4, <1>5, <1>6 DEF u

(* From where a replay may start: nothing, or a checkpoint of the episode. *)
Start(L, s) == \/ s = 0
               \/ s \in Indices(L, {"snapshot"}) /\ L[s].ended = NoResult

(* What the state at a start says.                                         *)
LEMMA StartParts ==
  ASSUME NEW L, Good(L), NEW s, Start(L, s)
  PROVE  /\ L \in Seq(Event) /\ Len(L) \in Nat /\ s \in 0 .. Len(L)
         /\ \A c \in Command : /\ s \notin About(L, "lifecycle", c)
                               /\ s \notin About(L, "execution", c)
         /\ s \notin Indices(L, {"plan"})
         /\ Base(L, s).status = StatusAt(L, s) /\ Base(L, s).report = ReportAt(L, s)
         /\ [has |-> Base(L, s).hasPlan, cmds |-> Base(L, s).plan] = PlanAt(L, s)
         /\ \A c \in Command : Base(L, s).report[c] # NoReport => Base(L, s).status[c] \in Reported
         /\ Base(L, s).ended = NoResult
         /\ s # 0 => \A i \in Indices(L, {"result"}) : i > s
<1>1. L \in Seq(Event) /\ Len(L) \in Nat /\ DOMAIN L = 1 .. Len(L)
  BY IndexSets DEF Good
<1>2. CASE s = 0
  <2>1. /\ Base(L, s).status = [c \in Command |-> "none"]
        /\ Base(L, s).report = [c \in Command |-> NoReport]
        /\ Base(L, s).hasPlan = FALSE /\ Base(L, s).plan = {}
        /\ Base(L, s).ended = NoResult
    BY <1>2 DEF Base, Empty, Snapshot
  <2>2. /\ StatusAt(L, 0) = [c \in Command |-> "none"]
        /\ ReportAt(L, 0) = [c \in Command |-> NoReport]
        /\ PlanAt(L, 0) = [has |-> FALSE, cmds |-> {}]
    <3>1. ASSUME NEW I \in SUBSET (Nat \ {0}) PROVE Upto(I, 0) = 0
      BY UptoIs
    <3>2. \A c \in Command : /\ Upto(About(L, "lifecycle", c), 0) = 0
                             /\ Upto(About(L, "execution", c), 0) = 0
      BY <1>1, <3>1, IndexSets
    <3>3. Upto(Indices(L, {"plan"}), 0) = 0
      BY <1>1, <3>1, IndexSets
    <3> QED
      BY <3>2, <3>3 DEF StatusAt, ReportAt, PlanAt
  <2>3. \A c \in Command : 0 \notin About(L, "lifecycle", c) /\ 0 \notin About(L, "execution", c)
    BY <1>1, IndexSets
  <2>4. 0 \notin Indices(L, {"plan"})
    BY <1>1 DEF Indices
  <2>5. \A c \in Command : Base(L, s).report[c] = NoReport
    BY <2>1
  <2>6. 0 \in 0 .. Len(L)
    BY <1>1
  <2>7. /\ Base(L, s).status = StatusAt(L, s) /\ Base(L, s).report = ReportAt(L, s)
        /\ [has |-> Base(L, s).hasPlan, cmds |-> Base(L, s).plan] = PlanAt(L, s)
    BY <1>2, <2>1, <2>2
  <2> QED
    BY <1>1, <1>2, <2>1, <2>3, <2>4, <2>5, <2>6, <2>7
<1>3. CASE s # 0
  <2>1. s \in 1 .. Len(L) /\ L[s].kind = "snapshot" /\ L[s].ended = NoResult
    BY <1>1, <1>3 DEF Start, Indices
  <2>2. /\ \A i \in Indices(L, {"result"}) : i > s
        /\ L[s].status = StatusAt(L, s - 1) /\ L[s].report = ReportAt(L, s - 1)
        /\ [has |-> L[s].hasPlan, cmds |-> L[s].plan] = PlanAt(L, s - 1)
        /\ \A c \in Command : L[s].report[c] # NoReport => L[s].status[c] \in Reported
    BY <1>1, <2>1 DEF Good, EventOK
  <2>3. /\ s - 1 \in 0 .. Len(L) /\ s \in s - 1 .. Len(L) /\ (s - 1) + 1 = s
        /\ s - 1 \in Nat /\ s \in Nat
        /\ \A i \in (s - 1) + 1 .. s : i = s
    BY <1>1, <2>1
  <2>4. /\ StatusAt(L, s) = StatusAt(L, s - 1) /\ ReportAt(L, s) = ReportAt(L, s - 1)
        /\ PlanAt(L, s) = PlanAt(L, s - 1)
    <3>1. ASSUME NEW c \in Command
          PROVE  StatusAt(L, s)[c] = StatusAt(L, s - 1)[c] /\ ReportAt(L, s)[c] = ReportAt(L, s - 1)[c]
      <4>1. \A i \in (s - 1) + 1 .. s : ~(L[i].kind = "lifecycle" /\ L[i].cmd = c)
        BY <2>1, <2>3
      <4>2. \A i \in (s - 1) + 1 .. s : ~(L[i].kind = "execution" /\ L[i].cmd = c)
        BY <2>1, <2>3
      <4> QED
        BY <1>1, <2>3, <4>1, <4>2, StatusKept, ReportKept
    <3>2. \A i \in (s - 1) + 1 .. s : L[i].kind # "plan"
      BY <2>1, <2>3
    <3>3. PlanAt(L, s) = PlanAt(L, s - 1)
      BY <1>1, <2>3, <3>2, PlanBetween
    <3>4. /\ StatusAt(L, s) \in [Command -> Status] /\ StatusAt(L, s - 1) \in [Command -> Status]
          /\ ReportAt(L, s) \in [Command -> Report \cup {NoReport}]
          /\ ReportAt(L, s - 1) \in [Command -> Report \cup {NoReport}]
      BY <1>1, <2>3, AtTypes
    <3> QED
      BY <3>1, <3>3, <3>4
  <2>5. \A c \in Command : s \notin About(L, "lifecycle", c) /\ s \notin About(L, "execution", c)
    BY <1>1, <2>1, IndexSets
  <2>6. s \notin Indices(L, {"plan"})
    BY <2>1 DEF Indices
  <2>7. Base(L, s) = L[s]
    BY <1>3 DEF Base
  <2> QED
    BY <1>1, <2>1, <2>2, <2>3, <2>4, <2>5, <2>6, <2>7
<1> QED
  BY <1>2, <1>3

(* From a checkpoint, or from nothing, a replay of a good log gives what   *)
(* a replay of all its events gives.                                       *)
LEMMA ReplayGives ==
  ASSUME NEW L, Good(L), NEW s, Start(L, s)
  PROVE  /\ ReplayedStatus(L, s) = StatusAt(L, Len(L))
         /\ ReplayedReport(L, s) = ReportAt(L, Len(L))
         /\ ReplayedPlan(L, s) = PlanAt(L, Len(L))
<1> DEFINE n == Len(L)
<1>1. /\ L \in Seq(Event) /\ n \in Nat /\ s \in 0 .. n
      /\ \A c \in Command : /\ s \notin About(L, "lifecycle", c)
                            /\ s \notin About(L, "execution", c)
      /\ s \notin Indices(L, {"plan"})
      /\ Base(L, s).status = StatusAt(L, s) /\ Base(L, s).report = ReportAt(L, s)
      /\ [has |-> Base(L, s).hasPlan, cmds |-> Base(L, s).plan] = PlanAt(L, s)
  BY StartParts
<1>2. s \in Nat /\ n \in s .. n /\ n \in 0 .. n /\ s + 1 \in Nat /\ n <= Len(L)
  BY <1>1
<1>n. n = Len(L)
  OBVIOUS
<1> HIDE DEF n
<1>3. ASSUME NEW c \in Command
      PROVE  (LET i == LastAfter(L, s, About(L, "lifecycle", c))
              IN  IF i = s THEN Base(L, s).status[c] ELSE L[i].status) = StatusAt(L, n)[c]
  <2> DEFINE I == About(L, "lifecycle", c)
             u == Upto(I, n)
  <2>1. /\ I \in SUBSET (Nat \ {0}) /\ \A i \in I : i <= n
        /\ \A i : i \in I <=> i \in 1 .. Len(L) /\ L[i].kind = "lifecycle" /\ L[i].cmd = c
    BY <1>1, <1>n, IndexSets
  <2>2. StatusAt(L, n)[c] = IF u = 0 THEN "none" ELSE L[u].status
    BY DEF StatusAt
  <2>3. s \notin I
    BY <1>1
  <2> HIDE DEF I, u
  <2>4. /\ Upto(I, n) \in 0 .. n
        /\ Upto(I, n) > s => /\ LastAfter(L, s, I) = Upto(I, n)
                             /\ Upto(I, n) \in I
        /\ ~(Upto(I, n) > s) => /\ LastAfter(L, s, I) = s
                                /\ \A i \in I : i < s
    BY <1>1, <2>1, <2>3, LastAfterIs
  <2>5. CASE u > s
    BY <1>1, <2>2, <2>4, <2>5 DEF I, u
  <2>6. CASE ~(u > s)
    <3>1. LastAfter(L, s, I) = s /\ \A i \in I : i < s
      BY <2>4, <2>6 DEF u
    <3>2. \A i \in s + 1 .. n : ~(L[i].kind = "lifecycle" /\ L[i].cmd = c)
      BY <1>1, <1>n, <2>1, <3>1
    <3>3. s \in 0 .. Len(L) /\ n \in s .. Len(L)
      BY <1>1, <1>2, <1>n
    <3>4. StatusAt(L, n)[c] = StatusAt(L, s)[c]
      BY <1>1, <3>2, <3>3, StatusKept
    <3> QED
      BY <1>1, <3>1, <3>4 DEF I
  <2> QED
    BY <2>5, <2>6
<1>4. ASSUME NEW c \in Command
      PROVE  (LET i == LastAfter(L, s, About(L, "execution", c))
              IN  IF i = s THEN Base(L, s).report[c] ELSE L[i].report) = ReportAt(L, n)[c]
  <2> DEFINE I == About(L, "execution", c)
             u == Upto(I, n)
  <2>1. /\ I \in SUBSET (Nat \ {0}) /\ \A i \in I : i <= n
        /\ \A i : i \in I <=> i \in 1 .. Len(L) /\ L[i].kind = "execution" /\ L[i].cmd = c
    BY <1>1, <1>n, IndexSets
  <2>2. ReportAt(L, n)[c] = IF u = 0 THEN NoReport ELSE L[u].report
    BY DEF ReportAt
  <2>3. s \notin I
    BY <1>1
  <2> HIDE DEF I, u
  <2>4. /\ Upto(I, n) \in 0 .. n
        /\ Upto(I, n) > s => /\ LastAfter(L, s, I) = Upto(I, n)
                             /\ Upto(I, n) \in I
        /\ ~(Upto(I, n) > s) => /\ LastAfter(L, s, I) = s
                                /\ \A i \in I : i < s
    BY <1>1, <2>1, <2>3, LastAfterIs
  <2>5. CASE u > s
    BY <1>1, <2>2, <2>4, <2>5 DEF I, u
  <2>6. CASE ~(u > s)
    <3>1. LastAfter(L, s, I) = s /\ \A i \in I : i < s
      BY <2>4, <2>6 DEF u
    <3>2. \A i \in s + 1 .. n : ~(L[i].kind = "execution" /\ L[i].cmd = c)
      BY <1>1, <1>n, <2>1, <3>1
    <3>3. s \in 0 .. Len(L) /\ n \in s .. Len(L)
      BY <1>1, <1>2, <1>n
    <3>4. ReportAt(L, n)[c] = ReportAt(L, s)[c]
      BY <1>1, <3>2, <3>3, ReportKept
    <3> QED
      BY <1>1, <3>1, <3>4 DEF I
  <2> QED
    BY <2>5, <2>6
<1>5. ReplayedPlan(L, s) = PlanAt(L, n)
  <2> DEFINE I == Indices(L, {"plan"})
             u == Upto(I, n)
  <2>1. /\ I \in SUBSET (Nat \ {0}) /\ \A i \in I : i <= n
        /\ \A i : i \in I <=> i \in 1 .. Len(L) /\ L[i].kind = "plan"
    BY <1>1, <1>n, IndexSets
  <2>2. PlanAt(L, n) = IF u = 0 THEN [has |-> FALSE, cmds |-> {}]
                                ELSE [has |-> TRUE, cmds |-> L[u].cmds]
    BY DEF PlanAt
  <2>3. s \notin I
    BY <1>1
  <2>7. ReplayedPlan(L, s) =
          IF LastAfter(L, s, I) = s THEN [has |-> Base(L, s).hasPlan, cmds |-> Base(L, s).plan]
          ELSE [has |-> TRUE, cmds |-> L[LastAfter(L, s, I)].cmds]
    BY DEF ReplayedPlan
  <2> HIDE DEF I, u
  <2>4. /\ Upto(I, n) \in 0 .. n
        /\ Upto(I, n) > s => /\ LastAfter(L, s, I) = Upto(I, n)
                             /\ Upto(I, n) \in I
        /\ ~(Upto(I, n) > s) => /\ LastAfter(L, s, I) = s
                                /\ \A i \in I : i < s
    BY <1>1, <2>1, <2>3, LastAfterIs
  <2>5. CASE u > s
    <3>1. LastAfter(L, s, I) = u /\ u # s /\ u # 0
      BY <1>1, <2>4, <2>5 DEF u
    <3> QED
      BY <2>2, <2>7, <3>1
  <2>6. CASE ~(u > s)
    <3>1. LastAfter(L, s, I) = s /\ \A i \in I : i < s
      BY <2>4, <2>6 DEF u
    <3>2. \A i \in s + 1 .. n : L[i].kind # "plan"
      BY <1>1, <1>n, <2>1, <3>1
    <3>3. s \in 0 .. Len(L) /\ n \in s .. Len(L)
      BY <1>1, <1>2, <1>n
    <3>4. PlanAt(L, n) = PlanAt(L, s)
      BY <1>1, <3>2, <3>3, PlanBetween
    <3> QED
      BY <1>1, <2>7, <3>1, <3>4
  <2> QED
    BY <2>5, <2>6
<1>6. /\ StatusAt(L, n) \in [Command -> Status]
      /\ ReportAt(L, n) \in [Command -> Report \cup {NoReport}]
  BY <1>1, AtTypes
<1>7. ReplayedStatus(L, s) = StatusAt(L, n)
  BY <1>3, <1>6 DEF ReplayedStatus
<1>8. ReplayedReport(L, s) = ReportAt(L, n)
  BY <1>4, <1>6 DEF ReplayedReport
<1> QED
  BY <1>5, <1>7, <1>8 DEF n

(* A result in a replay is one in the log, and a checkpoint that has one   *)
(* follows it.                                                             *)
LEMMA ResultGives ==
  ASSUME NEW L, Good(L)
  PROVE  /\ ReplayedResult(L, LastSnapshot(L)) = NoResult
              => Start(L, LastSnapshot(L)) /\ Indices(L, {"result"}) = {}
         /\ Indices(L, {"result"}) = {} => Start(L, LastSnapshot(L))
<1> DEFINE s == LastSnapshot(L)
           S == Indices(L, {"snapshot"})
           R == Indices(L, {"result"})
           n == Len(L)
<1>1. L \in Seq(Event) /\ n \in Nat /\ DOMAIN L = 1 .. n
  BY DEF Good
<1>2. /\ \A i : i \in S <=> i \in 1 .. n /\ L[i].kind = "snapshot"
      /\ \A i : i \in R <=> i \in 1 .. n /\ L[i].kind = "result"
  BY <1>1 DEF Indices
<1>n. n = Len(L)
  OBVIOUS
<1> HIDE DEF S, R, n
<1>3. S \in SUBSET (Nat \ {0}) /\ R \in SUBSET (Nat \ {0}) /\ 0 \notin S
      /\ (\A i \in S : i <= n) /\ (\A i \in R : i <= n) /\ 0 \in 0 .. n
  BY <1>1, <1>2
<1>4. s = 0 \/ s \in S
  <2> DEFINE z == 0
  <2>z. z \in 0 .. n /\ z \notin S
    BY <1>3
  <2> HIDE DEF z
  <2>2. /\ Upto(S, n) > z => LastAfter(L, z, S) = Upto(S, n) /\ Upto(S, n) \in S
        /\ ~(Upto(S, n) > z) => LastAfter(L, z, S) = z
    BY <1>1, <1>3, <2>z, LastAfterIs
  <2>1. LastAfter(L, 0, S) \in S \/ LastAfter(L, 0, S) = 0
    BY <2>2 DEF z
  <2> QED
    BY <2>1 DEF LastSnapshot, S
<1> HIDE DEF s
<1>5. s \in 0 .. n /\ s \notin R
  BY <1>1, <1>2, <1>3, <1>4
<1>6. /\ Upto(R, n) \in 0 .. n
      /\ Upto(R, n) > s => LastAfter(L, s, R) = Upto(R, n) /\ Upto(R, n) \in R
      /\ ~(Upto(R, n) > s) => LastAfter(L, s, R) = s /\ \A i \in R : i < s
  BY <1>1, <1>3, <1>5, LastAfterIs
<1>7. ReplayedResult(L, s) = IF LastAfter(L, s, R) = s THEN Base(L, s).ended
                             ELSE L[LastAfter(L, s, R)].result
  BY DEF ReplayedResult, R
<1>8. ASSUME s # 0, L[s].ended # NoResult PROVE R # {}
  <2>1. s \in DOMAIN L /\ L[s].kind = "snapshot" /\ s - 1 \in Nat
    BY <1>1, <1>2, <1>4, <1>8
  <2>2. PICK i \in 1 .. s - 1 : L[i].kind = "result"
    BY <1>8, <2>1 DEF Good, EventOK
  <2>3. i \in 1 .. n
    BY <1>1, <1>5, <2>1, <2>2
  <2> QED
    BY <1>2, <2>2, <2>3
<1>9. ASSUME R = {} PROVE Start(L, s)
  BY <1>4, <1>8, <1>9 DEF Start, S
<1>10. ASSUME ReplayedResult(L, s) = NoResult PROVE Start(L, s) /\ R = {}
  <2>1. ~(Upto(R, n) > s)
    <3> SUFFICES ASSUME Upto(R, n) > s PROVE FALSE
      OBVIOUS
    <3>1. LastAfter(L, s, R) = Upto(R, n) /\ Upto(R, n) \in R /\ Upto(R, n) # s
      BY <1>6, <1>5, <1>1
    <3>2. L[Upto(R, n)] \in Event /\ L[Upto(R, n)].kind = "result"
      BY <1>1, <1>2, <3>1
    <3>3. L[Upto(R, n)].result \in Result
      BY <3>2, EventParts
    <3> QED
      BY <1>7, <1>10, <3>1, <3>3, ContentAssumption
  <2>2. Base(L, s).ended = NoResult /\ \A i \in R : i < s
    BY <1>6, <1>7, <1>10, <2>1
  <2>3. Start(L, s)
    BY <1>4, <2>2 DEF Start, Base, S
  <2>4. R = {}
    <3> SUFFICES ASSUME NEW i \in R PROVE FALSE
      OBVIOUS
    <3>1. s # 0 => i > s
      BY <2>3, StartParts DEF R
    <3>2. i \in Nat \ {0} /\ i < s /\ s \in Nat
      BY <1>1, <1>3, <1>5, <2>2
    <3> QED
      BY <3>1, <3>2
  <2> QED
    BY <2>3, <2>4
<1> QED
  BY <1>9, <1>10 DEF s, R

(* A command has one execution event, and a report from it on.             *)
LEMMA OneExecution ==
  ASSUME NEW L, Good(L), NEW c \in Command, NEW i \in About(L, "execution", c)
  PROVE  /\ L[i] \in Event /\ L[i].report \in Report /\ i \in 1 .. Len(L)
         /\ \A j \in About(L, "execution", c) : j = i
         /\ ReportAt(L, Len(L))[c] = L[i].report
         /\ \A k \in 0 .. Len(L) : ReportAt(L, k)[c] # NoReport => i <= k
<1> DEFINE I == About(L, "execution", c)
           n == Len(L)
<1>1. /\ L \in Seq(Event) /\ n \in Nat /\ I \in SUBSET (Nat \ {0})
      /\ \A j : j \in I <=> j \in 1 .. n /\ L[j].kind = "execution" /\ L[j].cmd = c
      /\ \A j \in 1 .. n : L[j] \in Event
      /\ DOMAIN L = 1 .. n
  BY IndexSets DEF Good
<1>2. \A k : ReportAt(L, k)[c] = IF Upto(I, k) = 0 THEN NoReport ELSE L[Upto(I, k)].report
  BY DEF ReportAt
<1>n. n = Len(L) /\ i \in I
  OBVIOUS
<1> HIDE DEF I, n
<1>3. ASSUME NEW j \in I PROVE L[j].report \in Report
  BY <1>1, EventParts
<1>4. ASSUME NEW j \in I, NEW k \in I, j < k PROVE FALSE
  <2>1. /\ k - 1 \in Nat /\ j <= k - 1 /\ k \in 1 .. n
        /\ L[k].kind = "execution" /\ L[k].cmd = c
    BY <1>1, <1>4
  <2>2. ReportAt(L, k - 1)[c] = NoReport
    BY <1>1, <2>1 DEF Good, EventOK
  <2>3. Upto(I, k - 1) # 0 /\ Upto(I, k - 1) \in I
    BY <1>1, <2>1, UptoIsLast
  <2> QED
    BY <1>2, <1>3, <2>2, <2>3, ContentAssumption
<1>5. \A j \in I : j = i
  <2> SUFFICES ASSUME NEW j \in I, j # i PROVE FALSE
    OBVIOUS
  <2>1. j \in Nat /\ i \in Nat
    BY <1>1, <1>n
  <2>2. j < i \/ i < j
    BY <2>1
  <2> QED
    BY <1>4, <1>n, <2>2
<1>6. ASSUME NEW k \in 0 .. n, ReportAt(L, k)[c] # NoReport PROVE i <= k
  <2>1. Upto(I, k) # 0
    BY <1>2, <1>6
  <2>2. Upto(I, k) \in I /\ Upto(I, k) \in 0 .. k
    BY <1>1, <1>6, <2>1, UptoIsLast
  <2>3. Upto(I, k) = i
    BY <1>5, <2>2
  <2> QED
    BY <1>1, <2>2, <2>3
<1>7. ReportAt(L, n)[c] = L[i].report
  <2>1. i \in 1 .. n
    BY <1>1, <1>n
  <2>2. Upto(I, n) # 0 /\ Upto(I, n) \in I
    BY <1>1, <1>n, <2>1, UptoIsLast
  <2> QED
    BY <1>2, <1>5, <2>2
<1>8. L[i] \in Event /\ L[i].report \in Report /\ i \in 1 .. n
  BY <1>1, <1>3, <1>n
<1> QED
  BY <1>5, <1>6, <1>7, <1>8 DEF I, n

(* The commands whose closing a crash has cut off.                         *)
Cut(st, rp) == {c \in Command : rp[c] # NoReport /\ st[c] \notin Reported}

(* A recovery finds exactly these, and nothing it would refuse.            *)
LEMMA UnfinishedIs ==
  ASSUME NEW L, Good(L), NEW s, Start(L, s)
  PROVE  Unfinished(L, s) = Cut(StatusAt(L, Len(L)), ReportAt(L, Len(L)))
<1> DEFINE n == Len(L)
           st == StatusAt(L, n)
           rp == ReportAt(L, n)
<1>1. /\ L \in Seq(Event) /\ n \in Nat /\ s \in 0 .. n
      /\ \A c \in Command : s \notin About(L, "execution", c)
      /\ Base(L, s).status = StatusAt(L, s) /\ Base(L, s).report = ReportAt(L, s)
      /\ \A c \in Command : Base(L, s).report[c] # NoReport => Base(L, s).status[c] \in Reported
  BY StartParts
<1>2. ReplayedStatus(L, s) = st
  BY ReplayGives
<1>3. ASSUME NEW c \in Command, NEW i \in About(L, "execution", c), i > s PROVE rp[c] # NoReport
  BY <1>3, OneExecution, ContentAssumption
<1>4. ASSUME NEW c \in Command, rp[c] # NoReport, st[c] \notin Reported
      PROVE  \E i \in About(L, "execution", c) : i > s
  <2>1. PICK i \in About(L, "execution", c) : TRUE
    <3> DEFINE I == About(L, "execution", c)
    <3>1. rp[c] = IF Upto(I, n) = 0 THEN NoReport ELSE L[Upto(I, n)].report
      BY DEF ReportAt
    <3>2. I \in SUBSET (Nat \ {0})
      BY <1>1, IndexSets
    <3> HIDE DEF I
    <3>3. Upto(I, n) # 0
      BY <1>4, <3>1
    <3>4. Upto(I, n) \in I
      BY <1>1, <3>2, <3>3, UptoIsLast
    <3> QED
      BY <3>4 DEF I
  <2> SUFFICES ASSUME ~(i > s) PROVE FALSE
    BY <2>1
  <2>2. i \in 1 .. n /\ i # s
    BY <1>1, IndexSets
  <2>3. s \in 1 .. n /\ i <= s
    BY <1>1, <2>2
  <2>4. ReportAt(L, s)[c] # NoReport
    <3> DEFINE I == About(L, "execution", c)
    <3>1. ReportAt(L, s)[c] = IF Upto(I, s) = 0 THEN NoReport ELSE L[Upto(I, s)].report
      BY DEF ReportAt
    <3>2. I \in SUBSET (Nat \ {0}) /\ i \in I
      BY <1>1, IndexSets
    <3>3. \A j \in I : L[j].report \in Report
      BY OneExecution
    <3> HIDE DEF I
    <3>4. Upto(I, s) # 0 /\ Upto(I, s) \in I
      BY <2>3, <3>2, UptoIsLast
    <3> QED
      BY <3>1, <3>3, <3>4, ContentAssumption
  <2>5. StatusAt(L, s)[c] \in Reported
    BY <1>1, <2>4
  <2>6. PICK j \in About(L, "lifecycle", c) : j <= n /\ L[j].status \in Reported
    <3> DEFINE I == About(L, "lifecycle", c)
    <3>1. StatusAt(L, s)[c] = IF Upto(I, s) = 0 THEN "none" ELSE L[Upto(I, s)].status
      BY DEF StatusAt
    <3>2. I \in SUBSET (Nat \ {0}) /\ \A j \in I : j \in 1 .. n
      BY <1>1, IndexSets
    <3> HIDE DEF I
    <3>3. Upto(I, s) # 0
      BY <2>5, <3>1 DEF Reported
    <3>4. Upto(I, s) \in I /\ L[Upto(I, s)].status \in Reported
      BY <2>3, <2>5, <3>1, <3>2, <3>3, UptoIsLast
    <3>5. Upto(I, s) \in 1 .. n
      BY <3>2, <3>4
    <3>6. Upto(I, s) <= n
      BY <1>1, <3>5
    <3> QED
      BY <3>4, <3>6 DEF I
  <2>7. Lasting(L, n)
    BY <1>1 DEF Good, Sound
  <2>8. st[c] \in Reported
    BY <2>6, <2>7 DEF Lasting
  <2> QED
    BY <1>4, <2>8
<1>5. \A c \in Command : c \in Unfinished(L, s) <=> c \in Cut(st, rp)
  BY <1>2, <1>3, <1>4 DEF Unfinished, Cut
<1>6. Unfinished(L, s) \subseteq Command /\ Cut(st, rp) \subseteq Command
  BY DEF Unfinished, Cut
<1>7. Unfinished(L, s) = Cut(st, rp)
  <2> HIDE DEF st, rp, n
  <2> QED BY <1>5, <1>6
<1> QED
  BY <1>7

(* _activate_episode raises no error on a good log.                        *)
LEMMA RecoverableIs ==
  ASSUME NEW L, Good(L), NEW s, Start(L, s)
  PROVE  Recoverable(L, s)
<1> DEFINE n == Len(L)
           st == StatusAt(L, n)
           rp == ReportAt(L, n)
<1>1. /\ L \in Seq(Event) /\ n \in Nat /\ s \in 0 .. n /\ DOMAIN L = 1 .. n
      /\ Base(L, s).report = ReportAt(L, s)
      /\ ReportAt(L, s) \in [Command -> Report \cup {NoReport}]
      /\ st \in [Command -> Status]
  BY StartParts, AtTypes
<1>2. ReplayedStatus(L, s) = st
  BY ReplayGives
<1>3. Closing(st, rp)
  BY <1>1 DEF Good, Sound
<1> SUFFICES ASSUME NEW i \in Indices(L, {"execution"}), i > s
             PROVE  /\ st[L[i].cmd] # "none" \/ L[i].cmd \in ReplayedPlan(L, s).cmds
                    /\ \A j \in About(L, "execution", L[i].cmd) : j > s => L[j].report = L[i].report
                    /\ Base(L, s).report[L[i].cmd] \in {NoReport, L[i].report}
                    /\ IF st[L[i].cmd] \in Reported
                       THEN st[L[i].cmd] = OutcomeOf[L[i].report]
                       ELSE OutcomeOf[L[i].report] \in Allowed(st[L[i].cmd])
  BY <1>2 DEF Recoverable
<1> DEFINE c == L[i].cmd
<1>4. i \in 1 .. n /\ L[i].kind = "execution" /\ L[i] \in Event
  BY <1>1 DEF Indices
<1>5. c \in Command
  BY <1>4, EventParts
<1>6. i \in About(L, "execution", c)
  BY DEF About
<1> HIDE DEF c
<1>7. /\ L[i].report \in Report
      /\ \A j \in About(L, "execution", c) : j = i
      /\ rp[c] = L[i].report
      /\ \A k \in 0 .. n : ReportAt(L, k)[c] # NoReport => i <= k
  BY <1>5, <1>6, OneExecution
<1>8. ReportAt(L, s)[c] = NoReport
  BY <1>1, <1>4, <1>7
<1>9. L[i].report # NoReport /\ OutcomeOf[L[i].report] \in Reported
  BY <1>7, ContentAssumption
<1> HIDE DEF st, rp
<1>10. \/ st[c] = OutcomeOf[L[i].report]
       \/ st[c] \in Live /\ OutcomeOf[L[i].report] \in Allowed(st[c])
  BY <1>3, <1>5, <1>7, <1>9 DEF Closing
<1>11. /\ st[c] # "none"
       /\ IF st[c] \in Reported THEN st[c] = OutcomeOf[L[i].report]
                                ELSE OutcomeOf[L[i].report] \in Allowed(st[c])
  BY <1>9, <1>10 DEF Live, Actionable, Reported
<1>12. \A j \in About(L, "execution", c) : j > s => L[j].report = L[i].report
  BY <1>7
<1> QED
  BY <1>1, <1>8, <1>11, <1>12 DEF c

(* The state a restart restores from a good log.                           *)
LEMMA RestoredIs ==
  ASSUME NEW L, Good(L), NEW s, Start(L, s),
         NEW st, st = StatusAt(L, Len(L)), NEW rp, rp = ReportAt(L, Len(L)),
         NEW pl, pl = PlanAt(L, Len(L))
  PROVE  /\ st \in [Command -> Status] /\ rp \in [Command -> Report \cup {NoReport}]
         /\ Completed(L, s) \in [Command -> Status]
         /\ \A c \in Command :
              Completed(L, s)[c] = IF c \in Cut(st, rp) THEN OutcomeOf[rp[c]] ELSE st[c]
         /\ \A c : c \in Unwritten(L, s) <=> c \in pl.cmds /\ Completed(L, s)[c] = "none"
         /\ Unwritten(L, s) \subseteq Planner
         /\ RecoveredStatus(L, s) \in [Command -> Status]
         /\ \A c \in Command :
              /\ RecoveredStatus(L, s)[c] =
                   IF c \in Unwritten(L, s) THEN "pending" ELSE Completed(L, s)[c]
              /\ IF rp[c] = NoReport THEN RecoveredStatus(L, s)[c] \notin Reported
                                     ELSE RecoveredStatus(L, s)[c] = OutcomeOf[rp[c]]
              /\ Completed(L, s)[c] = "none" => rp[c] = NoReport
         /\ OnePerActor(RecoveredStatus(L, s)) /\ Planned(RecoveredStatus(L, s), pl.cmds)
         /\ Planned(Completed(L, s), pl.cmds)
<1>1. /\ L \in Seq(Event) /\ Len(L) \in Nat /\ Len(L) \in 0 .. Len(L)
  BY DEF Good
<1>2. /\ st \in [Command -> Status] /\ rp \in [Command -> Report \cup {NoReport}]
      /\ pl \in [has : BOOLEAN, cmds : SUBSET Planner]
  BY <1>1, AtTypes
<1>3. Closing(st, rp) /\ OnePerActor(st) /\ Planned(st, pl.cmds)
  BY <1>1 DEF Good, Sound
<1>4. /\ ReplayedStatus(L, s) = st /\ ReplayedReport(L, s) = rp /\ ReplayedPlan(L, s) = pl
      /\ Unfinished(L, s) = Cut(st, rp)
  BY ReplayGives, UnfinishedIs
<1> DEFINE C == Completed(L, s)
           N == Unwritten(L, s)
           R == RecoveredStatus(L, s)
<1>5. C = [c \in Command |-> IF c \in Cut(st, rp) THEN OutcomeOf[rp[c]] ELSE st[c]]
  BY <1>4 DEF Completed
<1>6. \A c : c \in N <=> c \in pl.cmds /\ C[c] = "none"
  BY <1>4 DEF Unwritten
<1>7. R = [c \in Command |-> IF c \in N THEN "pending" ELSE C[c]]
  BY DEF RecoveredStatus, Put
<1> HIDE DEF C, N, R
<1>8. ASSUME NEW c \in Command
      PROVE  /\ C[c] \in Status
             /\ C[c] = IF c \in Cut(st, rp) THEN OutcomeOf[rp[c]] ELSE st[c]
             /\ IF rp[c] = NoReport THEN C[c] \notin Reported /\ C[c] = st[c] ELSE C[c] = OutcomeOf[rp[c]]
             /\ C[c] \in Reported \/ C[c] = st[c]
             /\ rp[c] # NoReport => OutcomeOf[rp[c]] \in Reported
  <2>1. rp[c] \in Report \cup {NoReport} /\ st[c] \in Status
    BY <1>2
  <2>2. rp[c] # NoReport => OutcomeOf[rp[c]] \in Reported
    BY <2>1, ContentAssumption
  <2>3. C[c] = IF c \in Cut(st, rp) THEN OutcomeOf[rp[c]] ELSE st[c]
    BY <1>5
  <2>4. c \in Cut(st, rp) <=> rp[c] # NoReport /\ st[c] \notin Reported
    BY DEF Cut
  <2>5. IF rp[c] = NoReport THEN st[c] \notin Reported
        ELSE st[c] = OutcomeOf[rp[c]] \/ (st[c] \in Live /\ OutcomeOf[rp[c]] \in Allowed(st[c]))
    BY <1>3 DEF Closing
  <2>6. Reported \subseteq Status /\ Live \cap Reported = {}
    BY DEF Status, Reported, Live, Actionable
  <2> QED
    BY <2>1, <2>2, <2>3, <2>4, <2>5, <2>6
<1>9. ASSUME NEW c \in Command
      PROVE  /\ R[c] = IF c \in N THEN "pending" ELSE C[c]
             /\ R[c] \in Status
             /\ IF rp[c] = NoReport THEN R[c] \notin Reported ELSE R[c] = OutcomeOf[rp[c]]
             /\ C[c] = "none" => rp[c] = NoReport
             /\ R[c] = "dispatched" => st[c] = "dispatched"
             /\ R[c] \in Actionable => c \in N \/ st[c] \in Actionable
             /\ C[c] \in Actionable => st[c] \in Actionable
  <2>1. R[c] = IF c \in N THEN "pending" ELSE C[c]
    BY <1>7
  <2>2. c \in N => C[c] = "none"
    BY <1>6
  <2>3. "none" \notin Reported /\ "pending" \notin Reported /\ "pending" \in Status
        /\ "dispatched" \notin Reported /\ Actionable \cap Reported = {}
    BY DEF Reported, Status, Live, Actionable
  <2> QED
    BY <1>8, <2>1, <2>2, <2>3
<1>10. /\ C \in [Command -> Status] /\ R \in [Command -> Status]
  BY <1>5, <1>7, <1>8, <1>9
<1>11. N \subseteq Planner
  BY <1>2, <1>6
<1>12. OnePerActor(R)
  BY <1>3, <1>9 DEF OnePerActor
<1>13. Planned(R, pl.cmds) /\ Planned(C, pl.cmds)
  <2>1. \A c \in Planner : c \in Command
    BY DEF Command
  <2> QED
    BY <1>3, <1>6, <1>9, <2>1 DEF Planned
<1> QED
  BY <1>2, <1>6, <1>8, <1>9, <1>10, <1>11, <1>12, <1>13 DEF C, N, R

(* Logs are joined in any order.                                           *)
LEMMA JoinEvents ==
  ASSUME NEW A \in Seq(Event), NEW B \in Seq(Event), NEW C \in Seq(Event)
  PROVE  (A \o B) \o C = A \o (B \o C) /\ B \o C \in Seq(Event)
<1> DEFINE S == Event
<1>1. A \in Seq(S) /\ B \in Seq(S) /\ C \in Seq(S)
  OBVIOUS
<1> HIDE DEF S
<1>2. (A \o B) \o C = A \o (B \o C)
  BY <1>1, ConcatAssociative
<1> QED
  BY <1>2

(* What a restart writes before it goes on.                                *)
LEMMA RestartPiece ==
  ASSUME NEW L, Good(L), NEW s, Start(L, s), Indices(L, {"result"}) = {},
         NEW E, E = [i \in 1 .. Cardinality(Unfinished(L, s)) |->
                       LET c == Listing(Unfinished(L, s))[i]
                       IN  LifecycleEvent(c, OutcomeOf[ReplayedReport(L, s)[c]])]
  PROVE  /\ E \o Moved(Unwritten(L, s), "pending") \in Seq(Event)
         /\ Reaches(L \o (E \o Moved(Unwritten(L, s), "pending")), RecoveredStatus(L, s),
                    ReplayedReport(L, s), ReplayedPlan(L, s), {})
<1> DEFINE st == StatusAt(L, Len(L))
           rp == ReportAt(L, Len(L))
           pl == PlanAt(L, Len(L))
           U == Unfinished(L, s)
           N == Unwritten(L, s)
           C == Completed(L, s)
           R == RecoveredStatus(L, s)
           q == Listing(U)
           f == [c \in Command |-> IF c \in U THEN OutcomeOf[rp[c]] ELSE "none"]
<1>1. /\ Reaches(L, st, rp, pl, {}) /\ L \in Seq(Event)
      /\ Closing(st, rp)
  <2>1. Reaches(L, st, rp, pl, {})
    BY DEF Reaches
  <2> QED
    BY <2>1, ReachesTypes
<1>2. /\ ReplayedReport(L, s) = rp /\ ReplayedPlan(L, s) = pl /\ U = Cut(st, rp)
  BY ReplayGives, UnfinishedIs
<1>3. /\ st \in [Command -> Status] /\ rp \in [Command -> Report \cup {NoReport}]
      /\ C \in [Command -> Status]
      /\ \A c \in Command : C[c] = IF c \in Cut(st, rp) THEN OutcomeOf[rp[c]] ELSE st[c]
      /\ \A c : c \in N <=> c \in pl.cmds /\ C[c] = "none"
      /\ N \subseteq Planner
      /\ R \in [Command -> Status]
      /\ \A c \in Command : /\ R[c] = IF c \in N THEN "pending" ELSE C[c]
                            /\ C[c] = "none" => rp[c] = NoReport
  BY RestoredIs
<1>4. U \in SUBSET Command
  BY DEF Unfinished
<1> HIDE DEF st, rp, pl, U, N, C, R
<1>5. /\ q \in Seq(Command) /\ Len(q) = Cardinality(U)
      /\ U = {q[i] : i \in 1 .. Len(q)}
      /\ \A i, j \in 1 .. Len(q) : q[i] = q[j] => i = j
  BY <1>4, ListingSeq
<1>6. \A c \in U : /\ rp[c] # NoReport /\ st[c] \notin Reported
                   /\ OutcomeOf[rp[c]] \in Reported /\ OutcomeOf[rp[c]] \in Allowed(st[c])
  <2> SUFFICES ASSUME NEW c \in U
               PROVE /\ rp[c] # NoReport /\ st[c] \notin Reported
                     /\ OutcomeOf[rp[c]] \in Reported /\ OutcomeOf[rp[c]] \in Allowed(st[c])
    OBVIOUS
  <2>1. c \in Command /\ rp[c] # NoReport /\ st[c] \notin Reported
    BY <1>2 DEF Cut
  <2>2. OutcomeOf[rp[c]] \in Reported
    BY <1>3, <2>1, ContentAssumption
  <2>3. st[c] = OutcomeOf[rp[c]] \/ (st[c] \in Live /\ OutcomeOf[rp[c]] \in Allowed(st[c]))
    BY <1>1, <2>1 DEF Closing
  <2> QED
    BY <2>1, <2>2, <2>3
<1>7. /\ f \in [Command -> Status]
      /\ \A c \in Command : f[c] = IF c \in U THEN OutcomeOf[rp[c]] ELSE "none"
  <2>1. Reported \subseteq Status /\ "none" \in Status
    BY DEF Status
  <2> QED
    BY <1>6, <2>1
<1> HIDE DEF q, f
<1>8. E = Written(q, f)
  <2>1. \A i \in 1 .. Len(q) : q[i] \in U /\ q[i] \in Command
    BY <1>4, <1>5
  <2>2. \A i \in 1 .. Len(q) : f[q[i]] = OutcomeOf[rp[q[i]]]
    BY <1>7, <2>1
  <2>3. E = [i \in 1 .. Len(q) |-> LifecycleEvent(q[i], OutcomeOf[rp[q[i]]])]
    BY <1>2, <1>5 DEF q, U
  <2> QED
    BY <2>2, <2>3 DEF Written
<1>9. MayWrite(st, rp, pl.cmds, U, f)
  <2> SUFFICES ASSUME NEW c \in U
               PROVE  /\ f[c] \in Allowed(st[c])
                      /\ rp[c] # NoReport /\ f[c] = OutcomeOf[rp[c]]
                      /\ f[c] \notin Actionable /\ f[c] # "dispatched"
    BY DEF MayWrite
  <2>1. f[c] = OutcomeOf[rp[c]]
    BY <1>4, <1>7
  <2> QED
    BY <1>6, <2>1 DEF Reported, Actionable
<1>10. Moves(st, U, f) = C
  <2>1. \A c \in Command : (IF c \in U THEN f[c] ELSE st[c]) = C[c]
    BY <1>2, <1>3, <1>7
  <2> QED
    BY <1>3, <2>1 DEF Moves
<1>11. Reaches(L \o E, C, rp, pl, {})
  <2>1. Reaches(L \o Written(q, f), Moves(st, U, f), rp, pl, {})
    BY <1>1, <1>5, <1>7, <1>9, WrittenPiece
  <2> QED
    BY <1>8, <1>10, <2>1
<1>12. N \in SUBSET Command
  BY <1>3 DEF Command
<1>13. \A c \in N : /\ "pending" \in Allowed(C[c]) /\ rp[c] = NoReport
                    /\ c \in pl.cmds
  <2>1. "pending" \in Allowed("none")
    BY DEF Allowed, Status, Live, Actionable
  <2> QED
    BY <1>3, <1>12, <2>1
<1>14. "pending" \in Status \ Reported
  BY DEF Status, Live, Actionable, Reported
<1>15. Reaches((L \o E) \o Moved(N, "pending"), Put(C, N, "pending"), rp, pl, {})
  BY <1>3, <1>11, <1>12, <1>13, <1>14, MovedPiece
<1>16. Put(C, N, "pending") = R
  BY <1>3 DEF Put
<1>17. E \in Seq(Event) /\ Moved(N, "pending") \in Seq(Event)
  <2>1. Written(q, f) \in Seq(Event)
    BY <1>5, <1>7, WrittenType
  <2>2. "pending" \in Status
    BY <1>14
  <2>3. Moved(N, "pending") \in Seq(Event)
    BY <1>12, <2>2, MovedType
  <2> QED
    BY <1>8, <2>1, <2>3
<1>18. (L \o E) \o Moved(N, "pending") = L \o (E \o Moved(N, "pending"))
       /\ E \o Moved(N, "pending") \in Seq(Event)
  <2> DEFINE M == Moved(N, "pending")
  <2>1. E \in Seq(Event) /\ M \in Seq(Event) /\ L \in Seq(Event)
    BY <1>1, <1>17
  <2> HIDE DEF M
  <2>2. (L \o E) \o M = L \o (E \o M)
    BY <2>1, JoinEvents
  <2>3. E \o M \in Seq(Event)
    BY <2>1
  <2> QED
    BY <2>2, <2>3 DEF M
<1> QED
  BY <1>2, <1>15, <1>16, <1>18 DEF N, R
-----------------------------------------------------------------------------
(* Each handler leaves the log where it leaves the engine's memory.        *)
Memory == [has |-> hasPlan, cmds |-> plan]

(* The episode's memory, as a replay of the log would give it.             *)
Follows(res) == Reaches(log, status, report, Memory, res)

(* Two events are the first followed by the second.                        *)
LEMMA TwoEvents ==
  ASSUME NEW a \in Event, NEW b \in Event
  PROVE  /\ <<a>> \in Seq(Event) /\ <<b>> \in Seq(Event)
         /\ <<a>> \o <<b>> = <<a, b>>
<1> DEFINE A == <<a>>
           B == <<b>>
           C == <<a, b>>
<1>1. /\ A \in Seq(Event) /\ B \in Seq(Event) /\ C \in Seq(Event)
      /\ Len(A) = 1 /\ Len(B) = 1 /\ Len(C) = 2
      /\ A[1] = a /\ B[1] = b /\ C[1] = a /\ C[2] = b
  OBVIOUS
<1> HIDE DEF A, B, C
<1>2. /\ A \o B \in Seq(Event) /\ Len(A \o B) = 2
      /\ (A \o B)[1] = a /\ (A \o B)[2] = b
  <2>1. /\ A \o B \in Seq(Event) /\ Len(A \o B) = Len(A) + Len(B)
        /\ \A i \in 1 .. Len(A) : (A \o B)[i] = A[i]
        /\ \A i \in 1 .. Len(B) : (A \o B)[Len(A) + i] = B[i]
    BY <1>1, GrownParts
  <2>2. 1 \in 1 .. Len(A) /\ 1 \in 1 .. Len(B) /\ Len(A) + 1 = 2 /\ Len(A) + Len(B) = 2
    BY <1>1
  <2>3. (A \o B)[1] = A[1] /\ (A \o B)[Len(A) + 1] = B[1]
    BY <2>1, <2>2
  <2> QED
    BY <1>1, <2>1, <2>2, <2>3
<1>3. \A i \in 1 .. 2 : i = 1 \/ i = 2
  OBVIOUS
<1>4. \A i \in 1 .. Len(A \o B) : (A \o B)[i] = C[i]
  BY <1>1, <1>2, <1>3
<1>5. A \o B = C
  BY <1>1, <1>2, <1>4, SeqEqual
<1> QED
  BY <1>1, <1>5 DEF A, B, C

(* A command that no report has closed has no fingerprint.                 *)
LEMMA ClosedTypes ==
  ASSUME TypeOK, ReportClosesCommand, NEW c \in Command, status[c] \notin Reported
  PROVE  report[c] = NoReport
BY ContentAssumption DEF ReportClosesCommand, TypeOK

(* A plan that is accepted.                                                *)
LEMMA AcceptLog ==
  ASSUME TypeOK, ReportClosesCommand, NEW res, Follows(res),
         NEW P \in SUBSET Planner, AcceptPlan(P)
  PROVE  Reaches(log \o emitted', status', report, Memory', res)
<1>1. PICK R \in SUBSET LivePlanner(status), N \in SUBSET P :
        /\ Accepted(P, R, N)
        /\ status' = Put(Put(status, Outdated(R), "superseded"), N, "pending")
        /\ plan' = R \cup N
        /\ emitted' = Moved(Outdated(R), "superseded") \o <<PlanEvent(R \cup N)>>
                           \o Moved(N, "pending")
  BY DEF AcceptPlan
<1>2. hasPlan' = TRUE /\ Unused(P)
  BY DEF AcceptPlan
<1> DEFINE G == Outdated(R)
           st1 == Put(status, G, "superseded")
           K1 == log \o Moved(G, "superseded")
           K2 == K1 \o <<PlanEvent(R \cup N)>>
           M2 == [has |-> TRUE, cmds |-> R \cup N]
<1>3. status \in [Command -> Status] /\ log \in Seq(Event)
  BY ReachesTypes DEF Follows
<1>4. G \in SUBSET Command /\ \A c \in G : status[c] \in Actionable
  BY DEF Outdated
<1>5. N \in SUBSET Command /\ R \cup N \in SUBSET Planner /\ R \in SUBSET Planner
  BY DEF Command, LivePlanner
<1>6. \A c \in N : status[c] = "none"
  BY <1>2 DEF Unused
<1>7. /\ {"superseded", "pending"} \subseteq Status \ Reported
      /\ "superseded" \notin Actionable /\ Actionable \cap Reported = {}
      /\ "none" \notin Actionable \cup Reported
      /\ \A v \in Actionable : "superseded" \in Allowed(v)
      /\ "pending" \in Allowed("none")
  BY DEF Status, Live, Actionable, Reported, Dropped, Allowed
<1>8. Reaches(K1, st1, report, Memory, res)
  <2>1. \A c \in G : /\ "superseded" \in Allowed(status[c])
                     /\ report[c] = NoReport
                     /\ ~("superseded" \in Actionable)
    BY <1>4, <1>7, ClosedTypes
  <2> HIDE DEF G
  <2> QED
    BY <1>3, <1>4, <1>7, <2>1, MovedPiece DEF Follows
<1>9. /\ st1 \in [Command -> Status]
      /\ \A c \in Command : st1[c] = IF c \in G THEN "superseded" ELSE status[c]
  BY <1>3, <1>7, PutIsUpdate
<1>10. Planned(st1, R \cup N)
  <2> SUFFICES ASSUME NEW c \in Planner, st1[c] \in Actionable PROVE c \in R
    BY DEF Planned
  <2>1. c \in Command /\ c \notin G
    BY <1>7, <1>9 DEF Command
  <2>2. status[c] \in Actionable
    BY <1>9, <2>1
  <2> QED
    BY <2>1, <2>2 DEF Outdated
<1>11. Reaches(K2, st1, report, M2, res)
  <2> HIDE DEF K1, st1
  <2> QED
    BY <1>5, <1>8, <1>10, PlanPiece
<1>12. Reaches(K2 \o Moved(N, "pending"), Put(st1, N, "pending"), report, M2, res)
  <2>1. \A c \in N : /\ "pending" \in Allowed(st1[c])
                     /\ report[c] = NoReport
                     /\ c \in M2.cmds
    <3> SUFFICES ASSUME NEW c \in N
                 PROVE  "pending" \in Allowed(st1[c]) /\ report[c] = NoReport
      OBVIOUS
    <3>1. c \in Command /\ status[c] = "none" /\ c \notin G
      BY <1>4, <1>5, <1>6, <1>7
    <3> QED
      BY <1>7, <1>9, <3>1, ClosedTypes
  <2> HIDE DEF K2, st1, M2
  <2> QED
    BY <1>5, <1>7, <1>9, <1>11, <2>1, MovedPiece
<1>13. log \o emitted' = K2 \o Moved(N, "pending")
  <2> DEFINE A == Moved(G, "superseded")
             B == <<PlanEvent(R \cup N)>>
             C == Moved(N, "pending")
  <2>1. A \in Seq(Event) /\ C \in Seq(Event)
    BY <1>4, <1>5, <1>7, MovedType
  <2>2. B \in Seq(Event)
    BY <1>5 DEF PlanEvent, Event
  <2>3. emitted' = (A \o B) \o C
    BY <1>1
  <2> HIDE DEF A, B, C
  <2>4. A \o B \in Seq(Event) /\ log \o (A \o B) = (log \o A) \o B
    BY <1>3, <2>1, <2>2, JoinEvents
  <2>5. log \o ((A \o B) \o C) = (log \o (A \o B)) \o C
    BY <1>3, <2>1, <2>4, JoinEvents
  <2> QED
    BY <2>3, <2>4, <2>5 DEF A, B, C
<1>14. status' = Put(st1, N, "pending") /\ Memory' = M2
  BY <1>1, <1>2 DEF Memory
<1> QED
  BY <1>12, <1>13, <1>14

(* Nothing is written, and nothing changes.                                *)
LEMMA NoEvents ==
  ASSUME NEW res, Follows(res), emitted' = <<>>,
         UNCHANGED <<status, report, hasPlan, plan>>
  PROVE  Reaches(log \o emitted', status', report', Memory', res)
<1>1. log \in Seq(Event)
  BY ReachesTypes DEF Follows
<1>2. log \o emitted' = log
  BY <1>1
<1> QED
  BY <1>2 DEF Follows, Memory

(* _collect_finished_planner.                                              *)
LEMMA CollectLog ==
  ASSUME TypeOK, ReportClosesCommand, NEW res, Follows(res), CollectFinishedPlanner
  PROVE  Reaches(log \o emitted', status', report', Memory', res)
<1>1. report' = report
  BY DEF CollectFinishedPlanner
<1>2. CASE RefusePlan
  BY <1>1, <1>2, NoEvents DEF RefusePlan
<1>3. CASE \E P \in SUBSET Planner : AcceptPlan(P)
  BY <1>1, <1>3, AcceptLog
<1> QED
  BY <1>2, <1>3 DEF CollectFinishedPlanner

(* The tick that awaited its plan goes on.                                 *)
LEMMA ResumeLog ==
  ASSUME TypeOK, ReportClosesCommand, NEW res, Follows(res), ResumeAwaitedTick
  PROVE  Reaches(log \o emitted', status', report', Memory', res)
<1>1. report' = report
  BY DEF ResumeAwaitedTick
<1>2. CASE RefusePlan
  BY <1>1, <1>2, NoEvents DEF RefusePlan
<1>3. CASE \E P \in SUBSET Planner : AcceptPlan(P)
  BY <1>1, <1>3, AcceptLog
<1> QED
  BY <1>2, <1>3 DEF ResumeAwaitedTick

(* The commands past their TTL expire.                                     *)
LEMMA ExpireLog ==
  ASSUME TypeOK, ReportClosesCommand, NEW res, Follows(res),
         NEW alert \in BOOLEAN, ExpireAndPlan(alert)
  PROVE  Reaches(log \o emitted', status', report', Memory', res)
<1>1. /\ status' = Put(status, Stale, "expired") /\ emitted' = Moved(Stale, "expired")
      /\ UNCHANGED <<report, hasPlan, plan>>
  BY DEF ExpireAndPlan
<1>2. Stale \in SUBSET Command /\ \A c \in Stale : status[c] \in Actionable
  BY DEF Stale, PlanFrontier, TypeOK, Command
<1>3. /\ "expired" \in Status \ Reported /\ "expired" \notin Actionable
      /\ Actionable \cap Reported = {}
      /\ \A v \in Actionable : "expired" \in Allowed(v)
  BY DEF Status, Live, Actionable, Reported, Dropped, Allowed
<1>4. \A c \in Stale : /\ "expired" \in Allowed(status[c])
                       /\ report[c] = NoReport
  BY <1>2, <1>3, ClosedTypes
<1>5. status \in [Command -> Status]
  BY DEF TypeOK
<1>6. Reaches(log \o Moved(Stale, "expired"), Put(status, Stale, "expired"), report, Memory, res)
  BY <1>2, <1>3, <1>4, <1>5, MovedPiece DEF Follows
<1> QED
  BY <1>1, <1>6 DEF Memory

(* record_execution.                                                       *)
LEMMA ReportLog ==
  ASSUME TypeOK, NEW res, Follows(res), NEW c \in Command, NEW r \in Report,
         RecordExecution(c, r)
  PROVE  Reaches(log \o emitted', status', report', Memory', res)
<1>1. /\ report[c] = NoReport /\ status[c] = "dispatched"
      /\ report' = [report EXCEPT ![c] = r]
      /\ status' = [status EXCEPT ![c] = OutcomeOf[r]]
      /\ emitted' = <<ExecutionEvent(c, r), LifecycleEvent(c, OutcomeOf[r])>>
      /\ UNCHANGED <<hasPlan, plan>>
  BY DEF RecordExecution, AwaitsReport
<1>2. OutcomeOf[r] \in Reported /\ "dispatched" \in Live /\ Allowed("dispatched") = Reported
  BY ContentAssumption DEF Live, Allowed
<1>3. Reaches((log \o <<ExecutionEvent(c, r)>>) \o <<LifecycleEvent(c, OutcomeOf[r])>>,
              Put(status, {c}, OutcomeOf[r]),
              [d \in Command |-> IF d = c THEN r ELSE report[d]], Memory, res)
  BY <1>1, <1>2, ClosePiece DEF Follows
<1>4. status' = Put(status, {c}, OutcomeOf[r])
  BY <1>1 DEF TypeOK, Put
<1>5. report' = [d \in Command |-> IF d = c THEN r ELSE report[d]]
  BY <1>1 DEF TypeOK
<1>6. log \o emitted' = (log \o <<ExecutionEvent(c, r)>>) \o <<LifecycleEvent(c, OutcomeOf[r])>>
  <2> DEFINE a == ExecutionEvent(c, r)
             b == LifecycleEvent(c, OutcomeOf[r])
  <2>1. a \in Event /\ b \in Event
    BY <1>2 DEF ExecutionEvent, LifecycleEvent, Event, Status
  <2>2. emitted' = <<a, b>> /\ log \in Seq(Event)
    BY <1>1, ReachesTypes DEF Follows
  <2> HIDE DEF a, b
  <2>3. <<a>> \in Seq(Event) /\ <<b>> \in Seq(Event) /\ <<a>> \o <<b>> = <<a, b>>
    BY <2>1, TwoEvents
  <2>4. log \o (<<a>> \o <<b>>) = (log \o <<a>>) \o <<b>>
    BY <2>2, <2>3, JoinEvents
  <2> QED
    BY <2>2, <2>3, <2>4 DEF a, b
<1> QED
  BY <1>1, <1>3, <1>4, <1>5, <1>6 DEF Memory

(* The end of an episode: its result and a checkpoint of it.               *)
LEMMA EndPiece ==
  ASSUME NEW L, NEW st, NEW rp, NEW pl, NEW res, Reaches(L, st, rp, pl, res),
         NEW x \in Result, NEW e \in Event, e.kind = "snapshot", e.ended = x
  PROVE  Reaches(L \o <<ResultEvent(x), e>>, st, rp, pl, res \cup {Len(L) + 1})
<1>1. x # NoResult
  BY ContentAssumption
<1>2. Reaches(L \o <<ResultEvent(x)>>, st, rp, pl, res \cup {Len(L) + 1})
  BY ResultPiece
<1> DEFINE K == L \o <<ResultEvent(x)>>
           res2 == res \cup {Len(L) + 1}
<1>3. res2 # {}
  OBVIOUS
<1> HIDE DEF K, res2
<1>4. Reaches(K, st, rp, pl, res2)
  BY <1>2 DEF K, res2
<1>5. Reaches(K \o <<e>>, st, rp, pl, res2)
  BY <1>1, <1>3, <1>4, SnapshotPiece
<1>6. K \o <<e>> = L \o <<ResultEvent(x), e>>
  <2> DEFINE a == ResultEvent(x)
  <2>1. a \in Event /\ L \in Seq(Event)
    BY ReachesTypes DEF ResultEvent, Event
  <2> HIDE DEF a
  <2>2. <<a>> \in Seq(Event) /\ <<e>> \in Seq(Event) /\ <<a>> \o <<e>> = <<a, e>>
    BY <2>1, TwoEvents
  <2>3. (L \o <<a>>) \o <<e>> = L \o (<<a>> \o <<e>>)
    BY <2>1, <2>2, JoinEvents
  <2> QED
    BY <2>2, <2>3 DEF a, K
<1> QED
  BY <1>5, <1>6 DEF res2

(* What end_episode appends: the cancellations, the result, a checkpoint.  *)
LEMMA EndEvents ==
  ASSUME TypeOK, NEW x \in Result, EndEpisode(x)
  PROVE  \E e \in Event : /\ e.kind = "snapshot" /\ e.ended = x
                          /\ emitted' = Cancelled(Active) \o <<ResultEvent(x), e>>
<1> DEFINE st == Put(status, Active, "cancelled")
           rp == [c \in Command |-> IF c \in Active THEN Missing ELSE report[c]]
           ur == urgent \/ Active # {}
           e == Snapshot(st, rp, hasPlan, plan, ur, x)
<1>1. emitted' = Cancelled(Active) \o <<ResultEvent(x), e>>
  BY DEF EndEpisode
<1>2. st \in [Command -> Status]
  BY PutIsUpdate DEF TypeOK, Status, Reported
<1>3. rp \in [Command -> Report \cup {NoReport}]
  BY ContentAssumption DEF TypeOK
<1>4. ur \in BOOLEAN /\ hasPlan \in BOOLEAN /\ plan \in SUBSET Planner
  BY DEF TypeOK
<1> HIDE DEF st, rp, ur
<1>5. e \in Event /\ e.kind = "snapshot" /\ e.ended = x
  BY <1>2, <1>3, <1>4 DEF Snapshot, Event
<1> HIDE DEF e
<1> QED
  BY <1>1, <1>5

(* end_episode.                                                            *)
LEMMA EndLog ==
  ASSUME TypeOK, ReportClosesCommand, NEW res, Follows(res), NEW x \in Result, EndEpisode(x)
  PROVE  \E more : /\ more # {}
                   /\ Reaches(log \o emitted', status', report', Memory', more)
<1>1. PICK e \in Event : /\ e.kind = "snapshot" /\ e.ended = x
                         /\ emitted' = Cancelled(Active) \o <<ResultEvent(x), e>>
  BY EndEvents
<1>2. /\ status' = Put(status, Active, "cancelled")
      /\ report' = [c \in Command |-> IF c \in Active THEN Missing ELSE report[c]]
      /\ UNCHANGED <<hasPlan, plan>>
  BY DEF EndEpisode
<1>3. Active \in SUBSET Command /\ \A c \in Active : status[c] \in Live /\ report[c] = NoReport
  <2>1. Live \cap Reported = {}
    BY DEF Live, Actionable, Reported
  <2> QED
    BY <2>1, ClosedTypes DEF Active
<1> DEFINE K == log \o Cancelled(Active)
<1>4. Reaches(K, status', report', Memory, res)
  BY <1>2, <1>3, CancelledPiece DEF Follows
<1> HIDE DEF K
<1>5. Reaches(K \o <<ResultEvent(x), e>>, status', report', Memory, res \cup {Len(K) + 1})
  BY <1>1, <1>4, EndPiece
<1>6. log \o emitted' = K \o <<ResultEvent(x), e>>
  <2> DEFINE a == ResultEvent(x)
             B == <<a, e>>
             A == Cancelled(Active)
  <2>1. A \in Seq(Event) /\ log \in Seq(Event)
    BY <1>3, CancelledType, ReachesTypes DEF Follows
  <2>2. a \in Event
    BY DEF ResultEvent, Event
  <2>3. B \in Seq(Event)
    BY <1>1, <2>2
  <2>4. emitted' = A \o B /\ K = log \o A
    BY <1>1 DEF K
  <2> HIDE DEF A, B
  <2>5. log \o (A \o B) = (log \o A) \o B
    BY <2>1, <2>3, JoinEvents
  <2> QED
    BY <2>4, <2>5 DEF B
<1>7. Reaches(log \o emitted', status', report', Memory', res \cup {Len(K) + 1})
  BY <1>2, <1>5, <1>6 DEF Memory
<1> QED
  BY <1>7

(* A result before the first tick, when the engine knows no command yet.   *)
LEMMA EarlyEndLog ==
  ASSUME TypeOK, Good(log), status = [c \in Command |-> "none"],
         NEW x \in Result, EndEpisode(x)
  PROVE  Good(log \o emitted') /\ status' = status
<1>1. PICK e \in Event : /\ e.kind = "snapshot" /\ e.ended = x
                         /\ emitted' = Cancelled(Active) \o <<ResultEvent(x), e>>
  BY EndEvents
<1>2. Active = {}
  BY DEF Active, Live, Actionable
<1>3. status' = status
  BY <1>2 DEF EndEpisode, Put
<1> DEFINE st == StatusAt(log, Len(log))
           rp == ReportAt(log, Len(log))
           pl == PlanAt(log, Len(log))
           res == Indices(log, {"result"})
           K == log \o Cancelled(Active)
           st2 == Put(st, Active, "cancelled")
           rp2 == [c \in Command |-> IF c \in Active THEN Missing ELSE rp[c]]
<1>4. Reaches(log, st, rp, pl, res)
  BY DEF Reaches
<1> HIDE DEF st, rp, pl, res
<1>5. Reaches(K, st2, rp2, pl, res)
  BY <1>2, <1>4, CancelledPiece
<1> HIDE DEF K, st2, rp2
<1>6. Reaches(K \o <<ResultEvent(x), e>>, st2, rp2, pl, res \cup {Len(K) + 1})
  BY <1>1, <1>5, EndPiece
<1>7. log \o emitted' = K \o <<ResultEvent(x), e>>
  <2> DEFINE a == ResultEvent(x)
             B == <<a, e>>
             A == Cancelled(Active)
  <2>1. A \in Seq(Event) /\ log \in Seq(Event)
    BY <1>2, CancelledType DEF Good
  <2>2. a \in Event
    BY DEF ResultEvent, Event
  <2>3. B \in Seq(Event)
    BY <1>1, <2>2
  <2>4. emitted' = A \o B /\ K = log \o A
    BY <1>1 DEF K
  <2> HIDE DEF A, B
  <2>5. log \o (A \o B) = (log \o A) \o B
    BY <2>1, <2>3, JoinEvents
  <2> QED
    BY <2>4, <2>5 DEF B
<1> QED
  BY <1>3, <1>6, <1>7 DEF Reaches

(* Candidates that are not sent: their event is left out when they already *)
(* have the status.                                                        *)
MayJudge(st, rp, pl, S, T, v) ==
  /\ st \in [Command -> Status] /\ S \in SUBSET Command /\ T \in SUBSET Command
  /\ v \in {"deferred", "rejected", "obsolete", "pending"}
  /\ \A c \in Command : c \in T <=> c \in S /\ st[c] # v
  /\ \A c \in S : /\ rp[c] = NoReport /\ st[c] \in {"none"} \cup Actionable
                  /\ c \in Planner => c \in pl.cmds

Judgement(L, st, rp, pl, res, S, T, v) ==
  /\ Reaches(L \o Moved(T, v), Put(st, S, v), rp, pl, res)
  /\ Put(st, S, v) \in [Command -> Status]
  /\ \A c \in Command : Put(st, S, v)[c] = IF c \in S THEN v ELSE st[c]
  /\ Moved(T, v) \in Seq(Event)

(* Their events keep the log in step with the statuses.                    *)
LEMMA JudgedPiece ==
  ASSUME NEW L, NEW st, NEW rp, NEW pl, NEW res, Reaches(L, st, rp, pl, res),
         NEW S, NEW T, NEW v, MayJudge(st, rp, pl, S, T, v)
  PROVE  Judgement(L, st, rp, pl, res, S, T, v)
<1>0. /\ st \in [Command -> Status] /\ S \in SUBSET Command /\ T \in SUBSET Command
      /\ v \in {"deferred", "rejected", "obsolete", "pending"}
      /\ \A c \in Command : c \in T <=> c \in S /\ st[c] # v
      /\ \A c \in S : /\ rp[c] = NoReport /\ st[c] \in {"none"} \cup Actionable
                      /\ c \in Planner => c \in pl.cmds
  BY DEF MayJudge
<1>1. /\ v \in Status \ Reported /\ v # "dispatched"
      /\ \A w \in {"none"} \cup Actionable : w # v => v \in Allowed(w)
  BY <1>0 DEF Status, Live, Actionable, Reported, Dropped, Allowed
<1>2. \A c \in T : /\ v \in Allowed(st[c]) /\ rp[c] = NoReport
                   /\ c \in Planner => c \in pl.cmds
  <2> SUFFICES ASSUME NEW c \in T
               PROVE  /\ v \in Allowed(st[c]) /\ rp[c] = NoReport
                      /\ c \in Planner => c \in pl.cmds
    OBVIOUS
  <2>1. c \in Command /\ c \in S /\ st[c] # v
    BY <1>0
  <2>2. /\ rp[c] = NoReport /\ st[c] \in {"none"} \cup Actionable
        /\ c \in Planner => c \in pl.cmds
    BY <1>0, <2>1
  <2> QED
    BY <1>1, <2>1, <2>2
<1>3. Reaches(L \o Moved(T, v), Put(st, T, v), rp, pl, res)
  BY <1>0, <1>1, <1>2, MovedPiece
<1>4. Put(st, T, v) = Put(st, S, v)
  <2>1. \A c \in Command : (IF c \in T THEN v ELSE st[c]) = (IF c \in S THEN v ELSE st[c])
    BY <1>0
  <2> QED
    BY <2>1 DEF Put
<1>5. Moved(T, v) \in Seq(Event)
  BY <1>0, <1>1, MovedType
<1> QED
  BY <1>0, <1>1, <1>3, <1>4, <1>5, PutIsUpdate DEF Judgement

(* How far a handler has come: the events E it has added to the log L.      *)
Stage(L, E, st, rp, pl, res) ==
  /\ L \in Seq(Event) /\ E \in Seq(Event) /\ st \in [Command -> Status]
  /\ Reaches(L \o E, st, rp, pl, res)

(* The next candidates: one more piece of the events of the handler.       *)
LEMMA NextJudged ==
  ASSUME NEW L, NEW E, NEW st, NEW rp, NEW pl, NEW res, Stage(L, E, st, rp, pl, res),
         NEW S, NEW T, NEW v, MayJudge(st, rp, pl, S, T, v)
  PROVE  /\ Stage(L, E \o Moved(T, v), Put(st, S, v), rp, pl, res)
         /\ \A c \in Command : Put(st, S, v)[c] = IF c \in S THEN v ELSE st[c]
<1> DEFINE K == L \o E
           F == Moved(T, v)
           s == Put(st, S, v)
<1>1. Reaches(K, st, rp, pl, res) /\ L \in Seq(Event) /\ E \in Seq(Event)
  BY DEF Stage
<1>2. Judgement(K, st, rp, pl, res, S, T, v)
  <2> HIDE DEF K
  <2> QED
    BY <1>1, JudgedPiece
<1>3. /\ Reaches(K \o F, s, rp, pl, res) /\ s \in [Command -> Status] /\ F \in Seq(Event)
      /\ \A c \in Command : s[c] = IF c \in S THEN v ELSE st[c]
  BY <1>2 DEF Judgement
<1> HIDE DEF F, s
<1>4. E \o F \in Seq(Event) /\ L \o (E \o F) = K \o F
  BY <1>1, <1>3, JoinEvents
<1>5. Stage(L, E \o F, s, rp, pl, res)
  <2> HIDE DEF K
  <2> QED
    BY <1>1, <1>3, <1>4 DEF Stage
<1> QED
  BY <1>3, <1>5 DEF F, s

(* The rest of tick, up to the dispatch and the checkpoint.                *)
LEMMA DispatchLog ==
  ASSUME TypeOK, ReportClosesCommand, NEW res, Follows(res),
         ended = NoResult <=> res = {},
         NEW R0 \in SUBSET {c \in Reflex : status[c] = "none"},
         NEW V \in [PlanFrontier(status, plan) \cup R0 -> Verdict],
         NEW W \in SUBSET Judged(V, "accept"), NEW B \in SUBSET W, NEW snap \in BOOLEAN,
         SelectAndDispatch(V, W, B, snap)
  PROVE  Reaches(log \o emitted', status', report', Memory', res)
<1> DEFINE G == Judged(V, "guard")
           unguard == DOMAIN V \ G
           blocked == {c \in unguard : ActorOf[c] \in Busy}
           waiting == blocked \cap Planner
           open == unguard \ blocked
           valid == open \cap Judged(V, "accept")
           D == open \cap Judged(V, "defer")
           J == open \cap Judged(V, "reject")
           O == open \cap Judged(V, "obsolete")
           revived == {c \in valid \cap Planner : status[c] = "deferred"}
           X == W \ B
           wt == {c \in waiting : status[c] # "deferred"}
           dt == {c \in D : status[c] # "deferred"}
           s1 == Put(status, G, "rejected")
           s2 == Put(s1, waiting, "deferred")
           s3 == Put(s2, D, "deferred")
           s4 == Put(s3, J, "rejected")
           s5 == Put(s4, O, "obsolete")
           s6 == Put(s5, revived, "pending")
           s7 == Put(s6, X, "deferred")
           s8 == Put(s7, B, "dispatched")
           E1 == Moved(G, "rejected")
           E2 == E1 \o Moved(wt, "deferred")
           E3 == E2 \o Moved(dt, "deferred")
           E4 == E3 \o Moved(J, "rejected")
           E5 == E4 \o Moved(O, "obsolete")
           E6 == E5 \o Moved(revived, "pending")
           E7 == E6 \o Moved(X, "deferred")
           E8 == E7 \o Moved(B, "dispatched")
<1>2. /\ Winners(W, valid) /\ status' = s8
      /\ UNCHANGED <<report, hasPlan, plan, ended>>
      /\ \E ur \in BOOLEAN :
           emitted' = E8 \o IF snap THEN <<Snapshot(s8, report, hasPlan, plan, ur, ended)>>
                                    ELSE <<>>
  <2> DEFINE failed == (G \cup J \cup O) \cap Planner
             spent == /\ PlannerEnabled /\ hasPlan /\ plan # {}
                      /\ PlanFrontier(s8, plan) = {} /\ ~exhausted
             ur == urgent \/ failed # {} \/ spent
  <2>1. ur \in BOOLEAN
    OBVIOUS
  <2>2. /\ Winners(W, valid) /\ status' = s8
        /\ UNCHANGED <<report, hasPlan, plan, ended>>
        /\ emitted' = E8 \o IF snap THEN <<Snapshot(s8, report, hasPlan, plan, ur, ended)>>
                                     ELSE <<>>
    BY DEF SelectAndDispatch
  <2> QED
    BY <2>1, <2>2
<1>3. \A c \in DOMAIN V : /\ c \in Command /\ report[c] = NoReport
                          /\ status[c] \in {"none"} \cup Actionable
                          /\ c \in Planner => c \in plan
                          /\ c \in Planner => status[c] \in Actionable
                          /\ c \notin Planner => status[c] = "none"
  <2> SUFFICES ASSUME NEW c \in DOMAIN V
               PROVE  /\ c \in Command /\ report[c] = NoReport
                      /\ status[c] \in {"none"} \cup Actionable
                      /\ c \in Planner => c \in plan
                      /\ c \in Planner => status[c] \in Actionable
                      /\ c \notin Planner => status[c] = "none"
    OBVIOUS
  <2>1. c \in PlanFrontier(status, plan) \cup R0
    OBVIOUS
  <2>2. \/ c \in Planner /\ c \in plan /\ status[c] \in Actionable
        \/ c \in Reflex /\ c \notin Planner /\ status[c] = "none"
    BY <2>1, CommandAssumption DEF PlanFrontier, TypeOK
  <2>3. ({"none"} \cup Actionable) \cap Reported = {}
    BY DEF Actionable, Reported
  <2>4. c \in Command /\ status[c] \notin Reported
    BY <2>2, <2>3 DEF Command
  <2> QED
    BY <2>2, <2>4, ClosedTypes
<1>4. /\ G \subseteq DOMAIN V /\ waiting \subseteq DOMAIN V /\ D \subseteq DOMAIN V
      /\ J \subseteq DOMAIN V /\ O \subseteq DOMAIN V /\ revived \subseteq valid
      /\ valid \subseteq DOMAIN V /\ W \subseteq valid /\ X \subseteq W /\ B \subseteq W
      /\ wt \subseteq waiting /\ dt \subseteq D
      /\ \A c \in B : c \notin X
  <2>1. W \subseteq valid
    BY <1>2 DEF Winners
  <2> QED
    BY <2>1 DEF Judged
<1>5. /\ \A c \in waiting : c \notin G
      /\ \A c \in D : c \notin G \cup waiting
      /\ \A c \in J : c \notin G \cup waiting \cup D
      /\ \A c \in O : c \notin G \cup waiting \cup D \cup J
      /\ \A c \in valid : c \notin G \cup waiting \cup D \cup J \cup O
  BY DEF Judged
<1>6. \A c \in valid : /\ c \in revived <=> c \in Planner /\ status[c] = "deferred"
                       /\ ActorOf[c] \notin Busy
  OBVIOUS
<1>7. /\ \A c \in waiting : c \in wt <=> status[c] # "deferred"
      /\ \A c \in D : c \in dt <=> status[c] # "deferred"
  OBVIOUS
<1> HIDE DEF G, unguard, blocked, waiting, open, valid, D, J, O, revived, X, wt, dt
<1>8. DOMAIN V \subseteq Command
  BY <1>3
<1> HIDE DEF s1, s2, s3, s4, s5, s6, s7, s8, E1, E2, E3, E4, E5, E6, E7, E8
<1> DEFINE Candidate(c) == /\ report[c] = NoReport /\ status[c] \in {"none"} \cup Actionable
                           /\ c \in Planner => c \in Memory.cmds
<1>9. /\ \A c \in DOMAIN V : Candidate(c)
      /\ "rejected" \notin {"none"} \cup Actionable
      /\ "obsolete" \notin {"none"} \cup Actionable
  BY <1>3 DEF Memory, Actionable
<1> DEFINE At(E, st) == Stage(log, E, st, report, Memory, res)
<1> DEFINE none == <<>>
<1>10. At(none, status)
  <2>1. Reaches(log, status, report, Memory, res)
    BY DEF Follows
  <2>2. log \in Seq(Event) /\ status \in [Command -> Status]
    BY <2>1, ReachesTypes
  <2>3. log \o <<>> = log /\ <<>> \in Seq(Event)
    BY <2>2
  <2> QED
    BY <2>1, <2>2, <2>3 DEF Stage
<1> HIDE DEF none
<1>11. /\ At(E1, s1)
      /\ \A c \in Command : s1[c] = IF c \in G THEN "rejected" ELSE status[c]
  <2>1. G \in SUBSET Command /\ G \in SUBSET Command /\ G \subseteq DOMAIN V
    BY <1>4, <1>8
  <2>3. \A c \in G : status[c] # "rejected"
    BY <1>9, <2>1
  <2>4. \A c \in G : /\ report[c] = NoReport /\ status[c] \in {"none"} \cup Actionable
                     /\ c \in Planner => c \in Memory.cmds
    BY <1>9, <2>1
  <2>5. status \in [Command -> Status]
    BY <1>10 DEF Stage
  <2>6. MayJudge(status, report, Memory, G, G, "rejected")
    BY <2>1, <2>3, <2>4, <2>5 DEF MayJudge
  <2>7. /\ At(none \o Moved(G, "rejected"), Put(status, G, "rejected"))
        /\ \A c \in Command : Put(status, G, "rejected")[c] = IF c \in G THEN "rejected" ELSE status[c]
    BY <1>10, <2>6, NextJudged
  <2>8. none \o Moved(G, "rejected") = E1
    <3>1. Moved(G, "rejected") \in Seq(Event)
      BY <2>1, MovedType DEF Status, Dropped
    <3> QED
      BY <3>1 DEF E1, none
  <2> QED
    BY <2>7, <2>8 DEF s1
<1>12. /\ At(E2, s2)
      /\ \A c \in Command : s2[c] = IF c \in waiting THEN "deferred" ELSE s1[c]
  <2>1. waiting \in SUBSET Command /\ wt \in SUBSET Command /\ waiting \subseteq DOMAIN V
    BY <1>4, <1>8
  <2>2. \A c \in waiting : s1[c] = status[c]
    BY <1>4, <1>5, <2>1, <1>11
  <2>3. \A c \in Command : c \in wt <=> c \in waiting /\ s1[c] # "deferred"
    BY <1>4, <1>7, <1>8, <2>2
  <2>4. \A c \in waiting : /\ report[c] = NoReport /\ s1[c] \in {"none"} \cup Actionable
                           /\ c \in Planner => c \in Memory.cmds
    BY <1>9, <2>1, <2>2
  <2>5. s1 \in [Command -> Status]
    BY <1>11 DEF Stage
  <2>6. MayJudge(s1, report, Memory, waiting, wt, "deferred")
    BY <2>1, <2>3, <2>4, <2>5 DEF MayJudge
  <2>7. /\ At(E1 \o Moved(wt, "deferred"), Put(s1, waiting, "deferred"))
        /\ \A c \in Command : Put(s1, waiting, "deferred")[c] = IF c \in waiting THEN "deferred" ELSE s1[c]
    BY <1>11, <2>6, NextJudged
  <2> QED
    BY <2>7 DEF s2, E2
<1>13. /\ At(E3, s3)
      /\ \A c \in Command : s3[c] = IF c \in D THEN "deferred" ELSE s2[c]
  <2>1. D \in SUBSET Command /\ dt \in SUBSET Command /\ D \subseteq DOMAIN V
    BY <1>4, <1>8
  <2>2. \A c \in D : s2[c] = status[c]
    BY <1>4, <1>5, <2>1, <1>11, <1>12
  <2>3. \A c \in Command : c \in dt <=> c \in D /\ s2[c] # "deferred"
    BY <1>4, <1>7, <1>8, <2>2
  <2>4. \A c \in D : /\ report[c] = NoReport /\ s2[c] \in {"none"} \cup Actionable
                     /\ c \in Planner => c \in Memory.cmds
    BY <1>9, <2>1, <2>2
  <2>5. s2 \in [Command -> Status]
    BY <1>12 DEF Stage
  <2>6. MayJudge(s2, report, Memory, D, dt, "deferred")
    BY <2>1, <2>3, <2>4, <2>5 DEF MayJudge
  <2>7. /\ At(E2 \o Moved(dt, "deferred"), Put(s2, D, "deferred"))
        /\ \A c \in Command : Put(s2, D, "deferred")[c] = IF c \in D THEN "deferred" ELSE s2[c]
    BY <1>12, <2>6, NextJudged
  <2> QED
    BY <2>7 DEF s3, E3
<1>14. /\ At(E4, s4)
      /\ \A c \in Command : s4[c] = IF c \in J THEN "rejected" ELSE s3[c]
  <2>1. J \in SUBSET Command /\ J \in SUBSET Command /\ J \subseteq DOMAIN V
    BY <1>4, <1>8
  <2>2. \A c \in J : s3[c] = status[c]
    BY <1>4, <1>5, <2>1, <1>11, <1>12, <1>13
  <2>3. \A c \in J : s3[c] # "rejected"
    BY <1>9, <2>1, <2>2
  <2>4. \A c \in J : /\ report[c] = NoReport /\ s3[c] \in {"none"} \cup Actionable
                     /\ c \in Planner => c \in Memory.cmds
    BY <1>9, <2>1, <2>2
  <2>5. s3 \in [Command -> Status]
    BY <1>13 DEF Stage
  <2>6. MayJudge(s3, report, Memory, J, J, "rejected")
    BY <2>1, <2>3, <2>4, <2>5 DEF MayJudge
  <2>7. /\ At(E3 \o Moved(J, "rejected"), Put(s3, J, "rejected"))
        /\ \A c \in Command : Put(s3, J, "rejected")[c] = IF c \in J THEN "rejected" ELSE s3[c]
    BY <1>13, <2>6, NextJudged
  <2> QED
    BY <2>7 DEF s4, E4
<1>15. /\ At(E5, s5)
      /\ \A c \in Command : s5[c] = IF c \in O THEN "obsolete" ELSE s4[c]
  <2>1. O \in SUBSET Command /\ O \in SUBSET Command /\ O \subseteq DOMAIN V
    BY <1>4, <1>8
  <2>2. \A c \in O : s4[c] = status[c]
    BY <1>4, <1>5, <2>1, <1>11, <1>12, <1>13, <1>14
  <2>3. \A c \in O : s4[c] # "obsolete"
    BY <1>9, <2>1, <2>2
  <2>4. \A c \in O : /\ report[c] = NoReport /\ s4[c] \in {"none"} \cup Actionable
                     /\ c \in Planner => c \in Memory.cmds
    BY <1>9, <2>1, <2>2
  <2>5. s4 \in [Command -> Status]
    BY <1>14 DEF Stage
  <2>6. MayJudge(s4, report, Memory, O, O, "obsolete")
    BY <2>1, <2>3, <2>4, <2>5 DEF MayJudge
  <2>7. /\ At(E4 \o Moved(O, "obsolete"), Put(s4, O, "obsolete"))
        /\ \A c \in Command : Put(s4, O, "obsolete")[c] = IF c \in O THEN "obsolete" ELSE s4[c]
    BY <1>14, <2>6, NextJudged
  <2> QED
    BY <2>7 DEF s5, E5
<1>16. /\ At(E6, s6)
      /\ \A c \in Command : s6[c] = IF c \in revived THEN "pending" ELSE s5[c]
  <2>1. revived \in SUBSET Command /\ revived \in SUBSET Command /\ revived \subseteq DOMAIN V
    BY <1>4, <1>8
  <2>2. \A c \in revived : s5[c] = status[c]
    BY <1>4, <1>5, <2>1, <1>11, <1>12, <1>13, <1>14, <1>15
  <2>3. \A c \in revived : s5[c] # "pending"
    BY <1>4, <1>6, <2>2
  <2>4. \A c \in revived : /\ report[c] = NoReport /\ s5[c] \in {"none"} \cup Actionable
                           /\ c \in Planner => c \in Memory.cmds
    BY <1>9, <2>1, <2>2
  <2>5. s5 \in [Command -> Status]
    BY <1>15 DEF Stage
  <2>6. MayJudge(s5, report, Memory, revived, revived, "pending")
    BY <2>1, <2>3, <2>4, <2>5 DEF MayJudge
  <2>7. /\ At(E5 \o Moved(revived, "pending"), Put(s5, revived, "pending"))
        /\ \A c \in Command : Put(s5, revived, "pending")[c] = IF c \in revived THEN "pending" ELSE s5[c]
    BY <1>15, <2>6, NextJudged
  <2> QED
    BY <2>7 DEF s6, E6
<1>17. /\ At(E7, s7)
      /\ \A c \in Command : s7[c] = IF c \in X THEN "deferred" ELSE s6[c]
  <2>1. X \in SUBSET Command /\ X \in SUBSET Command /\ X \subseteq DOMAIN V
    BY <1>4, <1>8
  <2>2. \A c \in X : s6[c] = IF c \in revived THEN "pending" ELSE status[c]
    BY <1>4, <1>5, <2>1, <1>11, <1>12, <1>13, <1>14, <1>15, <1>16
  <2>3. \A c \in X : s6[c] # "deferred"
    <3> SUFFICES ASSUME NEW c \in X, c \notin revived PROVE status[c] # "deferred"
      BY <2>2
    <3>1. c \in DOMAIN V /\ c \in valid
      BY <1>4
    <3> QED
      BY <1>3, <1>6, <3>1
  <2>4. \A c \in X : /\ report[c] = NoReport /\ s6[c] \in {"none"} \cup Actionable
                     /\ c \in Planner => c \in Memory.cmds
    BY <1>9, <2>1, <2>2 DEF Actionable
  <2>5. s6 \in [Command -> Status]
    BY <1>16 DEF Stage
  <2>6. MayJudge(s6, report, Memory, X, X, "deferred")
    BY <2>1, <2>3, <2>4, <2>5 DEF MayJudge
  <2>7. /\ At(E6 \o Moved(X, "deferred"), Put(s6, X, "deferred"))
        /\ \A c \in Command : Put(s6, X, "deferred")[c] = IF c \in X THEN "deferred" ELSE s6[c]
    BY <1>16, <2>6, NextJudged
  <2> QED
    BY <2>7 DEF s7, E7
<1>18. /\ At(E8, s8)
       /\ \A c \in Command : s8[c] = IF c \in B THEN "dispatched" ELSE s7[c]
  <2>1. B \in SUBSET Command /\ B \subseteq DOMAIN V /\ B \subseteq valid
    BY <1>4, <1>8
  <2>2. \A c \in B : s7[c] = IF c \in revived THEN "pending" ELSE status[c]
    BY <1>4, <1>5, <2>1, <1>11, <1>12, <1>13, <1>14, <1>15, <1>16, <1>17
  <2>3. \A c \in B : s7[c] \in {"none", "pending"}
    <3> SUFFICES ASSUME NEW c \in B, c \notin revived PROVE status[c] \in {"none", "pending"}
      BY <2>2
    <3> QED
      BY <1>3, <1>6, <2>1 DEF Actionable
  <2>4. \A c \in B : "dispatched" \in Allowed(s7[c])
    BY <2>3 DEF Allowed, Status, Live
  <2>5. \A c \in B : report[c] = NoReport
    BY <1>9, <2>1
  <2>6. /\ s7 \in [Command -> Status] /\ log \in Seq(Event) /\ E7 \in Seq(Event)
        /\ Reaches(log \o E7, s7, report, Memory, res)
    BY <1>17 DEF Stage
  <2>7. \A d \in Command : s7[d] = "dispatched" => ActorOf[d] \in Busy
    <3> SUFFICES ASSUME NEW d \in Command, s7[d] = "dispatched" PROVE status[d] = "dispatched"
      BY DEF Busy, InFlight
    <3> QED
      BY <1>11, <1>12, <1>13, <1>14, <1>15, <1>16, <1>17
  <2>8. \A c \in B : \A d \in Command \ {c} :
          ActorOf[d] = ActorOf[c] => s7[d] # "dispatched" /\ d \notin B
    <3>1. \A c, d \in W : ActorOf[c] = ActorOf[d] => c = d
      BY <1>2 DEF Winners
    <3> QED
      BY <1>6, <2>1, <2>7, <3>1
  <2>9. /\ "dispatched" \in Status \ Reported /\ "dispatched" \notin Actionable
    BY DEF Status, Live, Reported, Actionable
  <2> DEFINE K == log \o E7
             F == Moved(B, "dispatched")
  <2>10. Reaches(K \o F, Put(s7, B, "dispatched"), report, Memory, res)
    <3>1. Reaches(K, s7, report, Memory, res)
      BY <2>6
    <3> HIDE DEF K
    <3> QED
      BY <2>1, <2>4, <2>5, <2>6, <2>8, <2>9, <3>1, MovedPiece
  <2>11. F \in Seq(Event)
    BY <2>1, <2>9, MovedType
  <2>12. /\ Put(s7, B, "dispatched") \in [Command -> Status]
         /\ \A c \in Command : Put(s7, B, "dispatched")[c] = IF c \in B THEN "dispatched" ELSE s7[c]
    BY <2>6, <2>9, PutIsUpdate
  <2> HIDE DEF F
  <2>13. E7 \o F \in Seq(Event) /\ log \o (E7 \o F) = K \o F
    BY <2>6, <2>11, JoinEvents
  <2>14. E8 = E7 \o F /\ s8 = Put(s7, B, "dispatched")
    BY DEF E8, s8, F
  <2> HIDE DEF K
  <2> QED
    BY <2>6, <2>10, <2>12, <2>13, <2>14 DEF Stage
<1>19. /\ Reaches(log \o E8, s8, report, Memory, res)
       /\ log \in Seq(Event) /\ E8 \in Seq(Event) /\ s8 \in [Command -> Status]
  BY <1>18 DEF Stage
<1>20. PICK ur \in BOOLEAN :
         emitted' = E8 \o IF snap THEN <<Snapshot(s8, report, hasPlan, plan, ur, ended)>>
                                  ELSE <<>>
  BY <1>2
<1>21. /\ status' = s8 /\ report' = report /\ Memory' = Memory
  BY <1>2 DEF Memory
<1>22. CASE ~snap
  <2>1. emitted' = E8
    <3>1. emitted' = E8 \o <<>>
      BY <1>20, <1>22
    <3> QED
      BY <1>19, <3>1
  <2> QED
    BY <1>19, <1>21, <2>1
<1>23. CASE snap
  <2> DEFINE e == Snapshot(s8, report, hasPlan, plan, ur, ended)
             K == log \o E8
             F == <<e>>
  <2>1. e \in Event
    BY <1>19 DEF Snapshot, Event, TypeOK
  <2>2. emitted' = E8 \o F
    BY <1>20, <1>23
  <2>3. /\ e.kind = "snapshot" /\ e.ended = ended /\ e.status = s8 /\ e.report = report
        /\ [has |-> e.hasPlan, cmds |-> e.plan] = Memory
    BY DEF Snapshot, Memory
  <2>4. \A c \in Command : report[c] # NoReport => s8[c] \in Reported
    <3> SUFFICES ASSUME NEW c \in Command, report[c] # NoReport PROVE s8[c] \in Reported
      OBVIOUS
    <3>1. c \notin DOMAIN V
      BY <1>3
    <3>2. s8[c] = status[c]
      BY <1>4, <3>1, <1>11, <1>12, <1>13, <1>14, <1>15, <1>16, <1>17, <1>18
    <3> QED
      BY <3>2, ClosedTypes
  <2> HIDE DEF e
  <2>5. F \in Seq(Event)
    BY <2>1
  <2>6. Reaches(K \o F, s8, report, Memory, res)
    <3>1. Reaches(K, s8, report, Memory, res)
      BY <1>19
    <3> HIDE DEF K
    <3> QED
      BY <2>1, <2>3, <2>4, <3>1, SnapshotPiece
  <2> HIDE DEF F
  <2>7. log \o (E8 \o F) = K \o F
    BY <1>19, <2>5, JoinEvents
  <2> QED
    BY <1>21, <2>2, <2>6, <2>7
<1> QED
  BY <1>22, <1>23

(* The same for whatever the validator and the arbiter decide.             *)
LEMMA SelectLog ==
  ASSUME TypeOK, ReportClosesCommand, NEW res, Follows(res), ended = NoResult <=> res = {}, Select
  PROVE  Reaches(log \o emitted', status', report', Memory', res)
<1>1. ASSUME NEW R0 \in SUBSET {c \in Reflex : status[c] = "none"},
             NEW V \in [PlanFrontier(status, plan) \cup R0 -> Verdict],
             NEW W \in SUBSET Judged(V, "accept"), NEW B \in SUBSET W, NEW snap \in BOOLEAN,
             SelectAndDispatch(V, W, B, snap)
      PROVE  Reaches(log \o emitted', status', report', Memory', res)
  BY <1>1, DispatchLog
<1> QED
  BY <1>1 DEF Select
-----------------------------------------------------------------------------
(* The invariant: the log is one that some run of the engine wrote, and    *)
(* memory is what it gives.                                                *)
RInv == TypeOK /\ Good(log) /\ MemInv /\ durable \in 0 .. Len(log)

(* No handler closes a command without keeping its report, or the          *)
(* reverse.                                                                *)
LEMMA ReportsStep ==
  ASSUME TypeOK, ReportClosesCommand, Next
  PROVE  ReportClosesCommand'
<1> SUFFICES ASSUME NEW c \in Command
             PROVE  IF report'[c] = NoReport THEN status'[c] \notin Reported
                                             ELSE status'[c] = OutcomeOf[report'[c]]
  BY DEF ReportClosesCommand
<1>1. IF report[c] = NoReport THEN status[c] \notin Reported
                              ELSE status[c] = OutcomeOf[report[c]]
  BY DEF ReportClosesCommand
<1>2. /\ (Actionable \cup Dropped \cup {"dispatched"}) \cap Reported = {}
      /\ ({"none"} \cup Actionable) \cap Reported = {}
  BY DEF Actionable, Dropped, Reported
<1>3. CASE Untouched(c)
  BY <1>1, <1>3 DEF Untouched
<1>4. CASE HeldBack(c)
  BY <1>2, <1>4, ClosedTypes DEF HeldBack
<1>5. CASE HandedOver(c)
  BY <1>2, <1>5, ClosedTypes DEF HandedOver
<1>6. CASE ReportedOn(c)
  BY <1>6, ContentAssumption DEF ReportedOn
<1> QED
  BY <1>3, <1>4, <1>5, <1>6, HandlerStep

(* A handler of an engine that follows its log leaves it following it.     *)
LEMMA HandlerLog ==
  ASSUME TypeOK, ReportClosesCommand, NEW res, Follows(res), ended = NoResult <=> res = {},
         phase # "unbound", Next
  PROVE  /\ \E more : /\ Reaches(log \o emitted', status', report', Memory', more)
                      /\ ended' = NoResult <=> more = {}
         /\ phase' # "unbound"
<1>1. ASSUME NEW d \in Lapses, BeginTick(d)
      PROVE  /\ Reaches(log \o emitted', status', report', Memory', res)
             /\ ended' = ended /\ phase' # "unbound"
  BY <1>1, NoEvents DEF BeginTick
<1>2. ASSUME CollectFinishedPlanner
      PROVE  /\ Reaches(log \o emitted', status', report', Memory', res)
             /\ ended' = ended /\ phase' # "unbound"
  BY <1>2, CollectLog DEF CollectFinishedPlanner
<1>3. ASSUME NEW alert \in BOOLEAN, ExpireAndPlan(alert)
      PROVE  /\ Reaches(log \o emitted', status', report', Memory', res)
             /\ ended' = ended /\ phase' # "unbound"
  <2>1. Reaches(log \o emitted', status', report', Memory', res)
    BY <1>3, ExpireLog
  <2>2. ended' = ended /\ phase' # "unbound"
    BY <1>3 DEF ExpireAndPlan
  <2> QED
    BY <2>1, <2>2
<1>4. ASSUME ResumeAwaitedTick
      PROVE  /\ Reaches(log \o emitted', status', report', Memory', res)
             /\ ended' = ended /\ phase' # "unbound"
  BY <1>4, ResumeLog DEF ResumeAwaitedTick
<1>5. ASSUME Select
      PROVE  /\ Reaches(log \o emitted', status', report', Memory', res)
             /\ ended' = ended /\ phase' # "unbound"
  <2>1. Reaches(log \o emitted', status', report', Memory', res)
    BY <1>5, SelectLog
  <2>2. ASSUME NEW V, NEW W, NEW B, NEW snap, SelectAndDispatch(V, W, B, snap)
        PROVE  ended' = ended /\ phase' # "unbound"
    BY <2>2 DEF SelectAndDispatch
  <2> QED
    BY <1>5, <2>1, <2>2 DEF Select
<1>6. ASSUME FinishPlanner
      PROVE  /\ Reaches(log \o emitted', status', report', Memory', res)
             /\ ended' = ended /\ phase' # "unbound"
  BY <1>6, NoEvents DEF FinishPlanner
<1>7. ASSUME NEW c \in Command, NEW r \in Report, RecordExecution(c, r)
      PROVE  /\ Reaches(log \o emitted', status', report', Memory', res)
             /\ ended' = ended /\ phase' # "unbound"
  BY <1>7, ReportLog DEF RecordExecution
<1>8. ASSUME NEW x \in Result, EndEpisode(x)
      PROVE  /\ \E more : /\ more # {}
                          /\ Reaches(log \o emitted', status', report', Memory', more)
             /\ ended' # NoResult /\ phase' # "unbound"
  <2>1. ended' # NoResult /\ phase' # "unbound"
    BY <1>8, ContentAssumption DEF EndEpisode
  <2> QED
    BY <1>8, <2>1, EndLog
<1>9. CASE \E x \in Result : EndEpisode(x)
  <2>1. ended' # NoResult /\ phase' # "unbound"
    BY <1>8, <1>9
  <2>2. PICK more : /\ more # {}
                    /\ Reaches(log \o emitted', status', report', Memory', more)
    BY <1>8, <1>9
  <2> QED
    BY <2>1, <2>2
<1>10. CASE ~\E x \in Result : EndEpisode(x)
  <2>1. /\ Reaches(log \o emitted', status', report', Memory', res)
        /\ ended' = ended /\ phase' # "unbound"
    BY <1>1, <1>2, <1>3, <1>4, <1>5, <1>6, <1>7, <1>10 DEF Next, Tick
  <2> QED
    BY <2>1
<1> QED
  BY <1>9, <1>10

(* What an engine that follows its log has in memory, and conversely.      *)
LEMMA MemoryFollows ==
  ASSUME Good(log), MemInv, phase # "unbound"
  PROVE  /\ Follows(Indices(log, {"result"}))
         /\ ReportClosesCommand
         /\ ended = NoResult <=> Indices(log, {"result"}) = {}
BY DEF MemInv, Follows, Reaches, Memory

(* An engine that follows its log satisfies MemInv.                        *)
LEMMA FollowsMemory ==
  ASSUME NEW res, Reaches(log', status', report', Memory', res),
         (ended' = NoResult) <=> (res = {}), ReportClosesCommand', phase' # "unbound"
  PROVE  Good(log)' /\ MemInv'
BY DEF MemInv, Reaches, Memory

(* _activate_episode restores a well-typed engine that follows its log.    *)
LEMMA ActivateStep ==
  ASSUME RInv, NEW d \in Lapses, Activate(d), log' = log \o emitted'
  PROVE  TypeOK' /\ Good(log)' /\ MemInv'
<1> DEFINE s == LastSnapshot(log)
<1>1. Good(log) /\ log \in Seq(Event) /\ TypeOK
  BY DEF RInv, Good
<1>2. /\ ReplayedResult(log, s) = NoResult
      /\ status' = RecoveredStatus(log, s) /\ report' = ReplayedReport(log, s)
      /\ hasPlan' = ReplayedPlan(log, s).has /\ plan' = ReplayedPlan(log, s).cmds
      /\ urgent' = Base(log, s).urgent /\ ended' = NoResult /\ exhausted' = FALSE
      /\ planner' = "idle" /\ phase' = "collect" /\ delivered' = delivered
      /\ age' = [c \in Command |-> IF status'[c] = "none" THEN 0
                                   ELSE Capped(age[c] + d, TTL)]
      /\ since' \in Capped(since + d, Interval) .. Interval
  BY DEF Activate
<1> DEFINE E == [i \in 1 .. Cardinality(Unfinished(log, s)) |->
                   LET c == Listing(Unfinished(log, s))[i]
                   IN  LifecycleEvent(c, OutcomeOf[ReplayedReport(log, s)[c]])]
<1>3. emitted' = E \o Moved(Unwritten(log, s), "pending")
  BY DEF Activate
<1>4. Start(log, s) /\ Indices(log, {"result"}) = {}
  BY <1>1, <1>2, ResultGives
<1>u. urgent' \in BOOLEAN
  <2>1. CASE s = 0
    BY <1>2, <2>1 DEF Base, Empty, Snapshot
  <2>2. CASE s # 0
    <3>1. s \in DOMAIN log /\ log[s].kind = "snapshot"
      BY <1>4, <2>2 DEF Start, Indices
    <3>2. log[s] \in Event
      BY <1>1, <3>1
    <3>3. log[s].urgent \in BOOLEAN
      BY <3>1, <3>2 DEF Event
    <3> QED
      BY <1>2, <2>2, <3>3 DEF Base
  <2> QED
    BY <2>1, <2>2
<1> HIDE DEF s
<1>5. /\ emitted' \in Seq(Event)
      /\ Reaches(log \o emitted', RecoveredStatus(log, s), ReplayedReport(log, s),
                 ReplayedPlan(log, s), {})
  <2>1. /\ E \o Moved(Unwritten(log, s), "pending") \in Seq(Event)
        /\ Reaches(log \o (E \o Moved(Unwritten(log, s), "pending")), RecoveredStatus(log, s),
                   ReplayedReport(log, s), ReplayedPlan(log, s), {})
    BY <1>1, <1>4, RestartPiece
  <2> HIDE DEF E
  <2> QED
    BY <1>3, <2>1
<1>6. /\ status' \in [Command -> Status]
      /\ report' \in [Command -> Report \cup {NoReport}]
      /\ ReplayedPlan(log, s) \in [has : BOOLEAN, cmds : SUBSET Planner]
  BY <1>2, <1>5, ReachesTypes
<1>7. /\ hasPlan' \in BOOLEAN /\ plan' \in SUBSET Planner
      /\ Memory' = ReplayedPlan(log, s)
  BY <1>2, <1>6 DEF Memory
<1>8. age' \in [Command -> 0 .. TTL] /\ since' \in 0 .. Interval
  <2>1. /\ age \in [Command -> 0 .. TTL] /\ since \in 0 .. Interval /\ d \in Nat
        /\ TTL \in Nat /\ Interval \in Nat
    BY <1>1, ConfigAssumption DEF TypeOK
  <2>2. \A c \in Command : Capped(age[c] + d, TTL) \in 0 .. TTL
    BY <2>1 DEF Capped
  <2>3. Capped(since + d, Interval) \in 0 .. Interval
    BY <2>1 DEF Capped
  <2> QED
    BY <1>2, <2>1, <2>2, <2>3
<1>9. TypeOK'
  BY <1>1, <1>2, <1>5, <1>6, <1>7, <1>8, <1>u DEF TypeOK
<1>10. ReportClosesCommand'
  <2>1. \A c \in Command :
          IF ReportAt(log, Len(log))[c] = NoReport
          THEN RecoveredStatus(log, s)[c] \notin Reported
          ELSE RecoveredStatus(log, s)[c] = OutcomeOf[ReportAt(log, Len(log))[c]]
    BY <1>1, <1>4, RestoredIs
  <2>2. ReplayedReport(log, s) = ReportAt(log, Len(log))
    BY <1>1, <1>4, ReplayGives
  <2> QED
    BY <1>2, <2>1, <2>2 DEF ReportClosesCommand
<1>11. Reaches(log', status', report', Memory', {})
  BY <1>2, <1>5, <1>7
<1>12. Good(log)' /\ MemInv'
  <2> DEFINE none == {}
  <2>1. (ended' = NoResult) <=> (none = {})
    BY <1>2
  <2>2. Reaches(log', status', report', Memory', none)
    BY <1>11
  <2> HIDE DEF none
  <2>3. phase' # "unbound"
    BY <1>2
  <2> QED
    BY <1>10, <2>1, <2>2, <2>3, FollowsMemory
<1> QED
  BY <1>9, <1>12

(* What an engine that knows no episode yet can do to the log.             *)
LEMMA UnboundStep ==
  ASSUME RInv, phase = "unbound", log' = log \o emitted',
         \/ \E x \in Result : EndEpisode(x)
         \/ FinishPlanner
         \/ \E c \in Command, r \in Report : RecordExecution(c, r)
  PROVE  Good(log)' /\ MemInv'
<1>1. Good(log) /\ log \in Seq(Event) /\ TypeOK /\ status = [c \in Command |-> "none"]
  BY DEF RInv, Good, MemInv
<1>2. ASSUME NEW c \in Command, NEW r \in Report, RecordExecution(c, r)
      PROVE  FALSE
  BY <1>1, <1>2 DEF RecordExecution, AwaitsReport
<1>3. ASSUME FinishPlanner
      PROVE  log' = log /\ status' = status /\ phase' = phase
  BY <1>1, <1>3 DEF FinishPlanner
<1>4. ASSUME NEW x \in Result, EndEpisode(x)
      PROVE  Good(log)' /\ status' = status /\ phase' = phase
  <2>1. Good(log \o emitted') /\ status' = status
    BY <1>1, <1>4, EarlyEndLog
  <2>2. phase' = phase
    BY <1>4 DEF EndEpisode
  <2> QED
    BY <2>1, <2>2
<1>5. Good(log)' /\ status' = status /\ phase' = phase
  BY <1>1, <1>2, <1>3, <1>4
<1> QED
  BY <1>1, <1>5 DEF MemInv

(* A step of the engine is a restart or a handler; before the first tick   *)
(* of a process only these handlers can run.                               *)
Early == \/ \E x \in Result : EndEpisode(x)
         \/ FinishPlanner
         \/ \E c \in Command, r \in Report : RecordExecution(c, r)

LEMMA Handlers ==
  ASSUME EngineStep, ~\E d \in Lapses : Activate(d)
  PROVE  Next /\ (phase = "unbound" => Early)
<1>1. \/ phase = "idle" /\ \E d \in Lapses : BeginTick(d)
      \/ CollectFinishedPlanner
      \/ \E alert \in BOOLEAN : ExpireAndPlan(alert)
      \/ ResumeAwaitedTick
      \/ Select
      \/ FinishPlanner
      \/ \E c \in Command, r \in Report : RecordExecution(c, r)
      \/ \E x \in Result : EndEpisode(x)
  BY DEF EngineStep, Flushes, Writes
<1>2. /\ CollectFinishedPlanner => phase = "collect"
      /\ \A alert \in BOOLEAN : ExpireAndPlan(alert) => phase = "expire"
      /\ ResumeAwaitedTick => phase = "await"
  BY DEF CollectFinishedPlanner, ExpireAndPlan, ResumeAwaitedTick
<1>3. Select => phase = "select"
  <2>1. ASSUME NEW V, NEW W, NEW B, NEW snap, SelectAndDispatch(V, W, B, snap)
        PROVE  phase = "select"
    BY <2>1 DEF SelectAndDispatch
  <2> QED
    BY <2>1 DEF Select
<1> QED
  BY <1>1, <1>2, <1>3 DEF Next, Tick, Early

(* Every step of the engine, with the store or without.                    *)
LEMMA EngineSteps ==
  ASSUME RInv, EngineStep
  PROVE  RInv'
<1>1. /\ Good(log) /\ log \in Seq(Event) /\ TypeOK /\ MemInv /\ durable \in 0 .. Len(log)
      /\ log' = log \o emitted' /\ durable' = durable
  BY DEF RInv, Good, EngineStep, Enqueued, Keeps
<1>2. TypeOK' /\ Good(log)' /\ MemInv'
  <2>1. CASE \E d \in Lapses : Activate(d)
    BY <1>1, <2>1, ActivateStep
  <2>2. CASE ~\E d \in Lapses : Activate(d)
    <3>1. Next /\ (phase = "unbound" => Early)
      BY <2>2, Handlers
    <3>2. TypeOK'
      BY <1>1, <3>1, TypeStep
    <3>3. CASE phase = "unbound"
      BY <1>1, <3>1, <3>2, <3>3, UnboundStep DEF Early
    <3>4. CASE phase # "unbound"
      <4> DEFINE res == Indices(log, {"result"})
      <4>1. Follows(res) /\ ReportClosesCommand /\ (ended = NoResult <=> res = {})
        BY <1>1, <3>4, MemoryFollows
      <4> HIDE DEF res
      <4>2. /\ \E more : /\ Reaches(log \o emitted', status', report', Memory', more)
                         /\ ended' = NoResult <=> more = {}
            /\ phase' # "unbound"
        BY <1>1, <3>1, <3>4, <4>1, HandlerLog
      <4>3. ReportClosesCommand'
        BY <1>1, <3>1, <4>1, ReportsStep
      <4>4. PICK more : /\ Reaches(log \o emitted', status', report', Memory', more)
                        /\ ended' = NoResult <=> more = {}
        BY <4>2
      <4>5. Reaches(log', status', report', Memory', more)
        BY <1>1, <4>4
      <4>6. Good(log)' /\ MemInv'
        BY <4>2, <4>3, <4>4, <4>5, FollowsMemory
      <4> QED
        BY <3>2, <4>6
    <3> QED
      BY <3>3, <3>4
  <2> QED
    BY <2>1, <2>2
<1>3. emitted' \in Seq(Event)
  BY <1>2 DEF TypeOK
<1>4. durable' \in 0 .. Len(log')
  <2>1. Len(log') = Len(log) + Len(emitted') /\ Len(log) \in Nat /\ Len(emitted') \in Nat
    BY <1>1, <1>3, GrownParts
  <2> QED
    BY <1>1, <2>1
<1> QED
  BY <1>2, <1>4 DEF RInv

(* What a crash leaves, too, is a log that some run of the engine wrote.   *)
LEMMA CrashStep ==
  ASSUME RInv, NEW k \in durable .. Len(log), Crash(k)
  PROVE  RInv'
<1>1. Good(log) /\ log \in Seq(Event) /\ TypeOK /\ durable \in 0 .. Len(log) /\ Len(log) \in Nat
  BY DEF RInv, Good
<1>2. /\ log' = SubSeq(log, 1, k) /\ durable' = k
      /\ status' = [c \in Command |-> "none"] /\ report' = [c \in Command |-> NoReport]
      /\ hasPlan' = FALSE /\ plan' = {} /\ planner' = "idle"
      /\ urgent' = FALSE /\ exhausted' = FALSE /\ ended' = NoResult
      /\ phase' = "unbound" /\ emitted' = <<>>
      /\ UNCHANGED <<delivered, age, since>>
  BY DEF Crash
<1>3. k \in 0 .. Len(log)
  BY <1>1
<1>4. Good(log)' /\ Len(log') = k
  BY <1>1, <1>2, <1>3, GoodCut, CutParts
<1>5. TypeOK'
  <2>1. "none" \in Status /\ <<>> \in Seq(Event)
    BY DEF Status
  <2> QED
    BY <1>1, <1>2, <2>1 DEF TypeOK
<1>6. MemInv'
  BY <1>2 DEF MemInv
<1>7. durable' \in 0 .. Len(log')
  BY <1>2, <1>3, <1>4
<1> QED
  BY <1>4, <1>5, <1>6, <1>7 DEF RInv

(* Every step, of the engine, the writer or a crash, keeps the invariant.  *)
LEMMA RInvStep == RInv /\ [RecoveryNext]_allVars => RInv'
<1> SUFFICES ASSUME RInv, [RecoveryNext]_allVars PROVE RInv'
  OBVIOUS
<1>1. CASE EngineStep
  BY <1>1, EngineSteps
<1>2. CASE Flush
  <2>1. /\ durable' = Len(log) /\ log' = log
        /\ UNCHANGED vars
    BY <1>2 DEF Flush
  <2>2. TypeOK' /\ MemInv'
    BY <2>1 DEF vars, RInv, TypeOK, MemInv, ReportClosesCommand
  <2>3. Good(log)' /\ durable' \in 0 .. Len(log')
    BY <2>1 DEF RInv, Good
  <2> QED
    BY <2>2, <2>3 DEF RInv
<1>3. CASE \E k \in durable .. Len(log) : Crash(k)
  BY <1>3, CrashStep
<1>4. CASE UNCHANGED allVars
  <2>1. UNCHANGED vars /\ UNCHANGED <<log, durable>>
    BY <1>4 DEF allVars, storeVars
  <2>2. TypeOK' /\ MemInv'
    BY <2>1 DEF vars, RInv, TypeOK, MemInv, ReportClosesCommand
  <2> QED
    BY <2>1, <2>2 DEF RInv
<1> QED
  BY <1>1, <1>2, <1>3, <1>4 DEF RecoveryNext

(* A new store and a new engine satisfy it.                                *)
LEMMA RInvInit == RecoveryInit => RInv
<1> SUFFICES ASSUME RecoveryInit PROVE RInv
  OBVIOUS
<1>1. /\ log = <<>> /\ durable = 0 /\ Init
  BY DEF RecoveryInit
<1>2. TypeOK
  BY <1>1, TypeInit
<1>3. MemInv
  BY <1>1 DEF MemInv, Init
<1>4. log \in Seq(Event) /\ Len(log) = 0
  BY <1>1
<1>5. Good(log)
  <2>1. \A k \in DOMAIN log : EventOK(log, k)
    BY <1>4
  <2>2. \A c \in Command : StatusAt(log, 0)[c] = "none" /\ ReportAt(log, 0)[c] = NoReport
    <3> SUFFICES ASSUME NEW c \in Command
                 PROVE  StatusAt(log, 0)[c] = "none" /\ ReportAt(log, 0)[c] = NoReport
      OBVIOUS
    <3>1. /\ Upto(About(log, "lifecycle", c), 0) = 0
          /\ Upto(About(log, "execution", c), 0) = 0
      <4>1. /\ About(log, "lifecycle", c) \in SUBSET (Nat \ {0})
            /\ About(log, "execution", c) \in SUBSET (Nat \ {0})
        BY <1>4, IndexSets
      <4> DEFINE n == 0
      <4>2. n \in Nat /\ n \in 0 .. 0 /\ \A i \in 0 .. n : i = 0
        OBVIOUS
      <4> HIDE DEF n
      <4>3. /\ Upto(About(log, "lifecycle", c), n) \in 0 .. n
            /\ Upto(About(log, "execution", c), n) \in 0 .. n
        BY <4>1, <4>2, UptoIsLast
      <4> QED
        BY <4>2, <4>3 DEF n
    <3> QED
      BY <3>1 DEF StatusAt, ReportAt
  <2>3. /\ "none" \notin Reported \cup Actionable /\ "none" # "dispatched"
    BY DEF Reported, Actionable
  <2>4. /\ Closing(StatusAt(log, 0), ReportAt(log, 0))
        /\ OnePerActor(StatusAt(log, 0))
        /\ Planned(StatusAt(log, 0), PlanAt(log, 0).cmds)
    BY <2>2, <2>3 DEF Closing, OnePerActor, Planned, Command
  <2>5. Lasting(log, 0)
    <3>1. \A c : About(log, "lifecycle", c) = {}
      BY <1>4 DEF About, Indices
    <3> QED
      BY <3>1 DEF Lasting
  <2> QED
    BY <1>4, <2>1, <2>4, <2>5 DEF Good, Sound
<1> QED
  BY <1>1, <1>2, <1>3, <1>4, <1>5 DEF RInv

(* So every state that is reached satisfies it.                            *)
LEMMA RecoveryInvariance == RecoverySpec => []RInv
BY RInvInit, RInvStep, PTL DEF RecoverySpec
-----------------------------------------------------------------------------
(* A restarted engine's state is as well-typed as a new one's.             *)
THEOREM RecoveryTypeCorrect == RecoverySpec => []TypeOK
<1>1. RInv => TypeOK
  BY DEF RInv
<1> QED
  BY <1>1, RecoveryInvariance, PTL

(* While the episode lasts, the engine's memory is what a replay of its    *)
(* events gives, from the last checkpoint or from the very first event:    *)
(* no handler changes one without the other (_set_command_lifecycle,       *)
(* _accept_plan, _runtime_checkpoint_payload).                             *)
THEOREM MemoryReplays == RecoverySpec => []MemoryIsReplay
<1>1. RInv => MemoryIsReplay
  <2> SUFFICES ASSUME RInv, phase # "unbound", ended = NoResult,
                      NEW s \in {0, LastSnapshot(log)}
               PROVE  /\ status = ReplayedStatus(log, s)
                      /\ report = ReplayedReport(log, s)
                      /\ [has |-> hasPlan, cmds |-> plan] = ReplayedPlan(log, s)
    BY DEF MemoryIsReplay
  <2>1. /\ Good(log)
        /\ status = StatusAt(log, Len(log)) /\ report = ReportAt(log, Len(log))
        /\ [has |-> hasPlan, cmds |-> plan] = PlanAt(log, Len(log))
        /\ Indices(log, {"result"}) = {}
    BY DEF RInv, MemInv
  <2>2. Start(log, 0)
    BY DEF Start
  <2>3. Start(log, LastSnapshot(log))
    BY <2>1, ResultGives
  <2>4. Start(log, s)
    BY <2>2, <2>3
  <2> QED
    BY <2>1, <2>4, ReplayGives
<1> QED
  BY <1>1, RecoveryInvariance, PTL

(* What a restart restores keeps the engine's own invariants.              *)
LEMMA RestoredSafe ==
  ASSUME NEW L, Good(L), NEW s, Start(L, s)
  PROVE  /\ OnePerActor(RecoveredStatus(L, s))
         /\ Planned(RecoveredStatus(L, s), PlanAt(L, Len(L)).cmds)
<1> DEFINE st == StatusAt(L, Len(L))
           rp == ReportAt(L, Len(L))
           pl == PlanAt(L, Len(L))
<1>1. st = StatusAt(L, Len(L)) /\ rp = ReportAt(L, Len(L)) /\ pl = PlanAt(L, Len(L))
  OBVIOUS
<1> HIDE DEF st, rp, pl
<1>2. OnePerActor(RecoveredStatus(L, s)) /\ Planned(RecoveredStatus(L, s), pl.cmds)
  BY <1>1, RestoredIs
<1> QED
  BY <1>1, <1>2

(* Wherever a crash cuts the log, _activate_episode accepts what is left,  *)
(* and restores at most one in-flight command per actor and no plan        *)
(* command outside the plan.                                               *)
THEOREM CutsRecover == RecoverySpec => []EveryCutRecovers
<1>1. RInv => EveryCutRecovers
  <2> SUFFICES ASSUME RInv, NEW k \in durable .. Len(log),
                      NEW L, L = SubSeq(log, 1, k),
                      ReplayedResult(L, LastSnapshot(L)) = NoResult
               PROVE  LET s  == LastSnapshot(L)
                          st == RecoveredStatus(L, s)
                      IN  /\ Recoverable(L, s)
                          /\ \A c, d \in Command :
                               st[c] = "dispatched" /\ st[d] = "dispatched"
                               /\ ActorOf[c] = ActorOf[d] => c = d
                          /\ {c \in Planner : st[c] \in Actionable}
                               \subseteq ReplayedPlan(L, s).cmds
    BY DEF EveryCutRecovers
  <2> DEFINE s == LastSnapshot(L)
  <2>1. k \in 0 .. Len(log) /\ Good(log)
    BY DEF RInv
  <2>2. Good(L)
    BY <2>1, GoodCut
  <2>3. Start(L, s)
    BY <2>2, ResultGives
  <2> HIDE DEF s
  <2>4. ReplayedPlan(L, s) = PlanAt(L, Len(L))
    BY <2>2, <2>3, ReplayGives
  <2>5. /\ OnePerActor(RecoveredStatus(L, s))
        /\ Planned(RecoveredStatus(L, s), PlanAt(L, Len(L)).cmds)
    BY <2>2, <2>3, RestoredSafe
  <2>6. Recoverable(L, s)
    BY <2>2, <2>3, RecoverableIs
  <2> QED
    BY <2>4, <2>5, <2>6 DEF OnePerActor, Planned, s
<1> QED
  BY <1>1, RecoveryInvariance, PTL

(* A command has at most one execution event, also when the worker sends   *)
(* its report again to a Runtime that has restarted (record_execution).    *)
THEOREM ReportsOnce == RecoverySpec => []OneReportPerCommand
<1>1. RInv => OneReportPerCommand
  <2> SUFFICES ASSUME RInv, NEW i \in Indices(log, {"execution"}),
                      NEW j \in Indices(log, {"execution"}), log[i].cmd = log[j].cmd
               PROVE  i = j
    BY DEF OneReportPerCommand
  <2>1. Good(log) /\ log \in Seq(Event)
    BY DEF RInv, Good
  <2>2. log[i].cmd \in Command
    BY <2>1, EventParts DEF Indices
  <2>3. i \in About(log, "execution", log[i].cmd) /\ j \in About(log, "execution", log[i].cmd)
    BY DEF About
  <2> QED
    BY <2>1, <2>2, <2>3, OneExecution
<1> QED
  BY <1>1, RecoveryInvariance, PTL

(* The lifecycle events of a command follow _ALLOWED_COMMAND_TRANSITIONS   *)
(* across restarts: those a recovery adds continue what the process before *)
(* it had committed.                                                       *)
THEOREM TableFollowed == RecoverySpec => []LogFollowsTable
<1>1. RInv => LogFollowsTable
  <2> SUFFICES ASSUME RInv, NEW c \in Command, NEW i \in About(log, "lifecycle", c)
               PROVE  log[i].status \in Allowed(ReplayedStatus(SubSeq(log, 1, i - 1), 0)[c])
    BY DEF LogFollowsTable
  <2> DEFINE L == SubSeq(log, 1, i - 1)
  <2>1. Good(log) /\ log \in Seq(Event) /\ Len(log) \in Nat
    BY DEF RInv, Good
  <2>2. /\ i \in 1 .. Len(log) /\ log[i].kind = "lifecycle" /\ log[i].cmd = c
        /\ i - 1 \in 0 .. Len(log)
    BY <2>1, IndexSets
  <2>3. /\ Good(L) /\ L \in Seq(Event) /\ Len(L) = i - 1
        /\ \A n \in 1 .. i - 1 : L[n] = log[n]
    BY <2>1, <2>2, GoodCut, CutParts
  <2>4. EventOK(log, i)
    BY <2>1, <2>2 DEF Good
  <2>5. log[i].status \in Allowed(StatusAt(log, i - 1)[c])
    BY <2>2, <2>4 DEF EventOK
  <2> HIDE DEF L
  <2>6. StatusAt(L, i - 1) = StatusAt(log, i - 1)
    <3> DEFINE n == i - 1
    <3>1. n \in Nat /\ n <= Len(L) /\ n <= Len(log) /\ n \in 0 .. n
      BY <2>1, <2>2, <2>3
    <3>2. \A m \in 1 .. n : L[m] = log[m]
      BY <2>3
    <3> HIDE DEF n
    <3>3. StatusAt(L, n) = StatusAt(log, n)
      BY <2>1, <2>3, <3>1, <3>2, SamePrefix
    <3> QED
      BY <3>3 DEF n
  <2>7. ReplayedStatus(L, 0) = StatusAt(L, Len(L))
    <3> DEFINE s == 0
    <3>1. Start(L, s)
      BY DEF Start
    <3> HIDE DEF s
    <3>2. ReplayedStatus(L, s) = StatusAt(L, Len(L))
      BY <2>3, <3>1, ReplayGives
    <3> QED
      BY <3>2 DEF s
  <2>8. ReplayedStatus(L, 0)[c] = StatusAt(log, i - 1)[c]
    BY <2>3, <2>6, <2>7
  <2> QED
    BY <2>5, <2>8 DEF L
<1> QED
  BY <1>1, RecoveryInvariance, PTL

(* Once the dispatch of a command is committed, no restart hands it to the *)
(* worker again.                                                           *)
THEOREM CommittedDispatchStands == RecoverySpec => CommittedDispatchIsFinal
<1> DEFINE Sent(c) == \E i \in About(log, "lifecycle", c) :
                        i <= durable /\ log[i].status = "dispatched"
           Final == \A c \in Command : Sent(c) => delivered'[c] = delivered[c]
<1>1. RInv /\ [RecoveryNext]_allVars => [Final]_allVars
  <2> SUFFICES ASSUME RInv, RecoveryNext, NEW c \in Command, Sent(c)
               PROVE  delivered'[c] = delivered[c]
    OBVIOUS
  <2>1. /\ Good(log) /\ log \in Seq(Event) /\ TypeOK /\ MemInv
        /\ durable \in 0 .. Len(log) /\ Len(log) \in Nat
    BY DEF RInv, Good
  <2>2. StatusAt(log, Len(log))[c] \in {"dispatched"} \cup Reported
    <3>1. PICK i \in About(log, "lifecycle", c) : i <= durable /\ log[i].status = "dispatched"
      OBVIOUS
    <3>2. i \in Nat /\ i <= Len(log)
      BY <2>1, <3>1, IndexSets
    <3>3. Lasting(log, Len(log))
      BY <2>1 DEF Good, Sound
    <3> QED
      BY <3>1, <3>2, <3>3 DEF Lasting
  <2> HIDE DEF Sent
  <2>3. CASE Flush \/ \E k \in durable .. Len(log) : Crash(k)
    BY <2>3 DEF Flush, Crash, vars
  <2>4. CASE EngineStep /\ \E d \in Lapses : Activate(d)
    BY <2>4 DEF Activate
  <2>5. CASE EngineStep /\ ~\E d \in Lapses : Activate(d)
    <3>1. Next /\ (phase = "unbound" => Early)
      BY <2>5, Handlers
    <3>2. CASE phase = "unbound"
      BY <3>1, <3>2 DEF Early, EndEpisode, FinishPlanner, RecordExecution
    <3>3. CASE phase # "unbound"
      <4>1. status[c] \in {"dispatched"} \cup Reported
        BY <2>1, <2>2, <3>3 DEF MemInv
      <4>2. ~HandedOver(c)
        BY <4>1 DEF HandedOver, Actionable, Reported
      <4>3. Untouched(c) \/ HeldBack(c) \/ ReportedOn(c)
        BY <2>1, <3>1, <4>2, HandlerStep
      <4> QED
        BY <4>3 DEF Untouched, HeldBack, ReportedOn
    <3> QED
      BY <3>2, <3>3
  <2> QED
    BY <2>3, <2>4, <2>5 DEF RecoveryNext
<1>2. RecoverySpec => [][Final]_allVars
  BY <1>1, RecoveryInvariance, PTL DEF RecoverySpec
<1> QED
  BY <1>2 DEF CommittedDispatchIsFinal
=============================================================================
