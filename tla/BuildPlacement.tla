---------------------------- MODULE BuildPlacement ----------------------------
(***************************************************************************)
(* The worker's raw path for build commands: the queue of RawActionExecutor*)
(* (raw_executor.py), the reservations and builder leases of               *)
(* RawPlacementService (raw_placement.py), the effect verifier             *)
(* (effect_verifier.py) and the reports of ExecutionTracker (execution.py),*)
(* driven by one step of the worker after another (worker.py, _raw_step).  *)
(*                                                                         *)
(* A step is cut into its parts, in the order of the source: settle the    *)
(* last primitive, observe the effects, maybe ask the Runtime for a        *)
(* decision, dispatch at most one command.  The environment then advances  *)
(* the game by some loops.  One thread runs it all.                        *)
(*                                                                         *)
(* Abstracted: the observation (whether a builder is ready, a target       *)
(* legal, an order seen or a structure there is any), the footprint (two   *)
(* targets overlap when they are equal), temporary suppressions and the    *)
(* two circuit breakers (they only refuse: any command may be refused),    *)
(* evidence and diagnostics.  Game loops are the loops that a reservation  *)
(* has left and the loops since a primitive was accepted.                  *)
(***************************************************************************)
EXTENDS Integers, Sequences

CONSTANTS Command,           \* build commands of the episode
          Builder,           \* worker units
          Target,            \* world targets
          TargetOf,          \* the target of each command
          Townhall,          \* the targets of townhalls
          None,              \* no command, reservation or primitive
          Base,              \* effect timeout, in game loops
          Hard,              \* build_effect_max_lifetime: the hard timeout
          Grace,             \* POST_ORDER_EFFECT_GRACE_GAME_LOOPS
          Lapse,             \* game loops that one step can take
          MaxBatch           \* bound on the commands of one decision

(* In the code Hard is 4 or 12 times Base, and Grace 32 loops; a step that *)
(* takes longer than Hard + Grace - Base (368 loops, some 16 seconds) is   *)
(* left out.                                                               *)
ASSUME ContentAssumption == /\ TargetOf \in [Command -> Target]
                            /\ Townhall \subseteq Target
ASSUME TimingAssumption  == /\ Base \in Nat \ {0} /\ Hard \in Nat /\ Grace \in Nat
                            /\ Base <= Hard
                            /\ Lapse \subseteq 1 .. (Hard + Grace - Base)
                            /\ MaxBatch \in Nat

VARIABLES
  phase,   \* the part of the step that comes next
  queue,   \* RawActionExecutor._commands
  seen,    \* ExecutionTracker._seen
  trace,   \* the primitives of each command that the game refused or built
  report,  \* the terminal report of each command
  sent,    \* _pending_raw_dispatch: the primitive that is not settled yet
  effect,  \* ActionEffectVerifier._pending, once the primitive is accepted
  stale,   \* _builder_freshness_barrier: builders released in this step
  barred,  \* targets under a permanent exclusion
  place    \* RawPlacementService: reservations, leases, published transitions

vars == <<phase, queue, seen, trace, report, sent, effect, stale, barred, place>>

Lifetime == Hard + Grace            \* build_reservation_expiry

Reservation ==
  [builder : Builder, left : 0 .. Lifetime,
   state : {"reserved", "build_started", "occupied"}]

NoReport == [status |-> "none", stage |-> "none"]
Report ==
  [status : {"failed"}, stage : {"pre_dispatch", "pysc2_acceptance"}]
    \cup [status : {"failed", "succeeded"}, stage : {"effect_verification"}]
    \cup [status : {"unconfirmed", "cancelled"}, stage : {"episode_end"}]

(* A submitted primitive, and an accepted build.                           *)
Primitive == [cmd : Command, builder : Builder, kind : {"approach", "build"}]
Effect == [builder : Builder, age : 0 .. Hard, started : BOOLEAN]

ASSUME NoneAssumption == None \notin Command \cup Reservation \cup Primitive \cup Effect

Placement ==
  [res    : [Command -> Reservation \cup {None}],
   lease  : [Builder -> Command \cup {None}],
   ledger : [Command -> {"unreserved", "reserved", "build_started", "occupied", "broken"}]]

Reserved(p, c) == p.res[c] # None

Init ==
  /\ phase = "effects" /\ queue = <<>> /\ seen = {}
  /\ trace = [c \in Command |-> {}]
  /\ report = [c \in Command |-> NoReport]
  /\ sent = None
  /\ effect = [c \in Command |-> None]
  /\ stale = {} /\ barred = {}
  /\ place = [res |-> [c \in Command |-> None], lease |-> [b \in Builder |-> None],
              ledger |-> [c \in Command |-> "unreserved"]]
-----------------------------------------------------------------------------
(* RawPlacementService.  p.ledger is what the published transitions, put   *)
(* together, tell of each command; one that does not start where the last  *)
(* one ended breaks the chain.  "released", "temporary_suppressed" and     *)
(* "permanent_invalid" all end in "unreserved", from where the next        *)
(* reservation starts.                                                     *)
Told(p, c, from, to) == IF p.ledger[c] = from THEN to ELSE "broken"

(* _release_builder_lease, for the commands of S.  Mutant: leases stay.    *)
LeasesKept(p, S) == p.lease
LeasesWithout(p, S) ==
  [b \in Builder |->
     IF \E c \in S : Reserved(p, c) /\ p.res[c].builder = b /\ p.lease[b] = c
     THEN None ELSE p.lease[b]]

(* release_command, and quarantine_command, which records its transition   *)
(* before it releases.                                                     *)
Release(p, S) ==
  [res    |-> [c \in Command |-> IF c \in S THEN None ELSE p.res[c]],
   lease  |-> LeasesWithout(p, S),
   ledger |-> [c \in Command |-> IF c \in S /\ Reserved(p, c)
                                 THEN Told(p, c, p.res[c].state, "unreserved")
                                 ELSE p.ledger[c]]]

(* _expire_temporary_suppressions, the part about reservations.            *)
Expired(p) == {c \in Command : Reserved(p, c) /\ p.res[c].left = 0
                               /\ p.res[c].state # "occupied"}
Expire(p) == Release(p, Expired(p))

(* The last part of resolve.  A reservation of an earlier observation has  *)
(* another identity and is replaced.  Mutant: replaced without a trace.    *)
ReserveOver(p, c, b) ==
  [res    |-> [p.res EXCEPT ![c] = [builder |-> b, left |-> Lifetime,
                                    state |-> "reserved"]],
   lease  |-> [LeasesWithout(p, {c}) EXCEPT ![b] = c],
   ledger |-> [p.ledger EXCEPT ![c] = Told(p, c, "unreserved", "reserved")]]
Reserve(p, c, b) ==
  LET q == Release(p, {c})
  IN  [res    |-> [q.res EXCEPT ![c] = [builder |-> b, left |-> Lifetime,
                                        state |-> "reserved"]],
       lease  |-> [q.lease EXCEPT ![b] = c],
       ledger |-> [q.ledger EXCEPT ![c] = Told(q, c, "unreserved", "reserved")]]

(* mark_build_started for the commands of S, which the game accepted age   *)
(* loops ago.  Mutants: a reservation is not renewed, or every start adds  *)
(* a lifetime.                                                             *)
Later(m, n) == IF m > n THEN m ELSE n

RenewedAgain(r, n) == [r EXCEPT !.state = "build_started", !.left = @ + Lifetime - n]
Unrenewed(r, n) == [r EXCEPT !.state = "build_started"]
Renewed(r, n) == [r EXCEPT !.state = "build_started", !.left = Later(@, Lifetime - n)]

Start(p, S, age) ==
  [res    |-> [c \in Command |-> IF c \in S /\ Reserved(p, c)
                                 THEN Renewed(p.res[c], age[c]) ELSE p.res[c]],
   lease  |-> p.lease,
   ledger |-> [c \in Command |-> IF c \in S /\ Reserved(p, c)
                                    /\ p.res[c].state = "reserved"
                                 THEN Told(p, c, "reserved", "build_started")
                                 ELSE p.ledger[c]]]

(* confirm_command for the commands of S.                                  *)
Confirm(p, S) ==
  [res    |-> [c \in Command |-> IF c \in S /\ Reserved(p, c)
                                 THEN [p.res[c] EXCEPT !.state = "occupied"]
                                 ELSE p.res[c]],
   lease  |-> LeasesWithout(p, S),
   ledger |-> [c \in Command |-> IF c \in S /\ Reserved(p, c)
                                 THEN Told(p, c, p.res[c].state, "occupied")
                                 ELSE p.ledger[c]]]

(* What _resolve_builder_tags and resolve ask of builder b and the target  *)
(* of c.  Mutant: other reservations do not count.                         *)
MayLease(p, c, b) == p.lease[b] \in {None, c} /\ b \notin stale

MayReserveAgain(p, c, b) == MayLease(p, c, b) /\ TargetOf[c] \notin barred
MayReserve(p, c, b) ==
  /\ MayLease(p, c, b)
  /\ TargetOf[c] \notin barred
  /\ \A d \in Command \ {c} : Reserved(p, d) => TargetOf[d] # TargetOf[c]
-----------------------------------------------------------------------------
(* _settle_previous_primitive.  An approach move leaves the command at the *)
(* head of the queue; a build is accepted or refused for good.             *)
Reported(S, status, stage) ==
  report' = [c \in Command |-> IF c \in S THEN [status |-> status, stage |-> stage]
                               ELSE report[c]]

SettleNothing ==
  /\ sent = None
  /\ UNCHANGED <<trace, report, effect, stale, place>>

SettleApproach ==
  /\ sent # None /\ sent.kind = "approach"
  /\ \E refused \in BOOLEAN :
       trace' = [trace EXCEPT ![sent.cmd] = @ \cup IF refused THEN {"approach_refused"} ELSE {}]
  /\ UNCHANGED <<report, effect, stale, place>>

(* complete_command: the verifier takes over when no primitive of the      *)
(* command was refused, or else forgets the command, which has failed.     *)
SettleAccepted ==
  LET c == sent.cmd
  IN  /\ sent # None /\ sent.kind = "build"
      /\ trace' = [trace EXCEPT ![c] = @ \cup {"build_accepted"}]
      /\ IF trace[c] = {}
         THEN /\ effect' = [effect EXCEPT ![c] = [builder |-> sent.builder, age |-> 0,
                                                  started |-> FALSE]]
              /\ UNCHANGED <<report, place>>
         ELSE /\ place' = Release(place, {c})
              /\ Reported({c}, "failed", "pysc2_acceptance")
              /\ UNCHANGED effect
      /\ UNCHANGED stale

(* record_rejection quarantines first.                                     *)
SettleRefused ==
  LET c == sent.cmd
  IN  /\ sent # None /\ sent.kind = "build"
      /\ trace' = [trace EXCEPT ![c] = @ \cup {"build_refused"}]
      /\ place' = Release(place, {c})
      /\ stale' = stale \cup {sent.builder}
      /\ Reported({c}, "failed", "pysc2_acceptance")
      /\ UNCHANGED effect

Settle ==
  /\ phase = "settle"
  /\ phase' = "effects"
  /\ SettleNothing \/ SettleApproach \/ SettleAccepted \/ SettleRefused
  /\ sent' = None
  /\ UNCHANGED <<queue, seen, barred>>
-----------------------------------------------------------------------------
(* observe_effects, and observe_reports of the executor: what the new      *)
(* observation shows of each accepted build.  An order in the builder's    *)
(* queue counts as a start, so only a started build outlives the timeout.  *)
Accepted == {c \in Command : effect[c] # None}

Evidence == {"nothing", "start", "structure"}

(* Mutants: a started build never times out, or times out at once.         *)
TimedOutUnlessStarted(c, started) == effect[c].age >= Base /\ ~started
TimedOut(c, started) == effect[c].age >= Base /\ ~(effect[c].age < Hard /\ started)

ObserveEffects(seenNow) ==
  LET built   == {c \in Accepted : seenNow[c] = "structure"}
      started == {c \in Accepted : effect[c].started \/ seenNow[c] # "nothing"}
      failed  == {c \in Accepted \ built : TimedOut(c, c \in started)}
      age     == [c \in Accepted |-> effect[c].age]
      begun   == Start(place, {c \in started : ~effect[c].started}, age)
  IN  /\ phase = "effects"
      /\ phase' = "decide"
      /\ effect' = [c \in Command |->
                      IF c \in built \cup failed THEN None
                      ELSE IF c \in Accepted THEN [effect[c] EXCEPT !.started = c \in started]
                      ELSE None]
      /\ place' = Release(Confirm(begun, built), built \cup failed)
      /\ barred' = barred \cup ({TargetOf[c] : c \in built} \cap Townhall)
      /\ stale' = stale \cup {effect[c].builder : c \in built \cup failed}
      /\ report' = [c \in Command |->
                      CASE c \in built -> [status |-> "succeeded", stage |-> "effect_verification"]
                        [] c \in failed -> [status |-> "failed", stage |-> "effect_verification"]
                        [] OTHER -> report[c]]
      /\ UNCHANGED <<queue, seen, trace, sent>>
-----------------------------------------------------------------------------
(* The Runtime is asked only while nothing is queued                       *)
(* (RawDecisionScheduler.should_decide).  Mapping the candidates may ask   *)
(* the placement service, which expires old reservations.                  *)
Batch ==
  {q \in UNION {[1 .. n -> Command \ seen] : n \in 0 .. MaxBatch} :
     \A i, j \in DOMAIN q : q[i] = q[j] => i = j}

Decide ==
  /\ phase = "decide"
  /\ phase' = "dispatch"
  /\ \/ UNCHANGED <<queue, seen, place>>
     \/ /\ queue = <<>>
        /\ place' \in {place, Expire(place)}
        /\ queue' \in Batch
        /\ seen' = seen \cup {queue'[i] : i \in DOMAIN queue'}
  /\ UNCHANGED <<trace, report, sent, effect, stale, barred>>

(* The episode ends (_finish_terminal), or the run loop reaches its frame  *)
(* limit between two steps (on_episode_truncated).  fail_pending releases  *)
(* the accepted builds; drain_pending reports the others.                  *)
EndEpisode ==
  LET open == {c \in seen : report[c] = NoReport}
  IN  /\ phase \in {"settle", "decide"}
      /\ phase' = "ended"
      /\ place' = Release(place, Accepted)
      /\ report' = [c \in Command |->
                      CASE c \in Accepted -> [status |-> "unconfirmed", stage |-> "episode_end"]
                        [] c \in open \ Accepted -> [status |-> "cancelled", stage |-> "episode_end"]
                        [] OTHER -> report[c]]
      /\ effect' = [c \in Command |-> None]
      /\ UNCHANGED <<queue, seen, trace, sent, stale, barred>>
-----------------------------------------------------------------------------
(* next_dispatch, for the command at the head of the queue.                *)
Head1 == Head(queue)

(* _translate fails, in resolve or before or after it.  A failure of the   *)
(* target may exclude it for ever.                                         *)
FailHead(bar) ==
  /\ queue' = Tail(queue)
  /\ place' \in {Release(place, {Head1}), Release(Expire(place), {Head1})}
  /\ barred' = IF bar THEN barred \cup {TargetOf[Head1]} ELSE barred
  /\ Reported({Head1}, "failed", "pre_dispatch")
  /\ UNCHANGED <<phase, sent>>

(* The builder is not ready, before resolve or in it, or units stand on    *)
(* the target: the command stays at the head and nothing passes it.        *)
DeferHead ==
  /\ phase' = "step"
  /\ \/ place' \in {place, Expire(place)}
     \/ \E b \in Builder :
          /\ MayLease(place, Head1, b) /\ MayReserve(Expire(place), Head1, b)
          /\ place' = Release(Reserve(Expire(place), Head1, b), {Head1})
  /\ UNCHANGED <<queue, report, sent, barred>>

(* The builder is far away: it moves, and the command stays at the head.   *)
ApproachHead(b) ==
  /\ MayLease(place, Head1, b) /\ MayReserve(Expire(place), Head1, b)
  /\ place' = Reserve(Expire(place), Head1, b)
  /\ sent' = [cmd |-> Head1, builder |-> b, kind |-> "approach"]
  /\ phase' = "step"
  /\ UNCHANGED <<queue, report, barred>>

BuildHead(b) ==
  /\ MayLease(place, Head1, b) /\ MayReserve(Expire(place), Head1, b)
  /\ place' = Reserve(Expire(place), Head1, b)
  /\ sent' = [cmd |-> Head1, builder |-> b, kind |-> "build"]
  /\ queue' = Tail(queue)
  /\ phase' = "step"
  /\ UNCHANGED <<report, barred>>

Dispatch ==
  /\ phase = "dispatch"
  /\ \/ /\ queue = <<>>
        /\ phase' = "step"
        /\ UNCHANGED <<queue, report, sent, barred, place>>
     \/ /\ queue # <<>>
        /\ \/ \E bar \in BOOLEAN : FailHead(bar)
           \/ DeferHead
           \/ \E b \in Builder : ApproachHead(b) \/ BuildHead(b)
  /\ UNCHANGED <<seen, trace, effect, stale>>

(* The environment plays the action and the game advances.                 *)
Down(n, d) == IF n > d THEN n - d ELSE 0
Up(n, d) == IF n + d < Hard THEN n + d ELSE Hard

Step(d) ==
  /\ phase = "step"
  /\ phase' = "settle"
  /\ place' = [place EXCEPT !.res = [c \in Command |->
                 IF Reserved(place, c) THEN [place.res[c] EXCEPT !.left = Down(@, d)]
                 ELSE None]]
  /\ effect' = [c \in Command |-> IF effect[c] = None THEN None
                                  ELSE [effect[c] EXCEPT !.age = Up(@, d)]]
  /\ stale' = {}
  /\ UNCHANGED <<queue, seen, trace, report, sent, barred>>
-----------------------------------------------------------------------------
WorkerStep == \/ Settle
              \/ \E seenNow \in [Accepted -> Evidence] : ObserveEffects(seenNow)
              \/ Decide
              \/ Dispatch
              \/ \E d \in Lapse : Step(d)

Next == WorkerStep \/ EndEpisode

Spec == Init /\ [][Next]_vars

(* The game goes on until the episode ends, so steps keep coming.          *)
FairSpec == Spec /\ WF_vars(WorkerStep)
-----------------------------------------------------------------------------
TypeOK ==
  /\ phase \in {"settle", "effects", "decide", "dispatch", "step", "ended"}
  /\ queue \in Seq(Command) /\ seen \in SUBSET Command
  /\ trace \in [Command -> SUBSET {"approach_refused", "build_accepted", "build_refused"}]
  /\ report \in [Command -> Report \cup {NoReport}]
  /\ sent \in Primitive \cup {None}
  /\ effect \in [Command -> Effect \cup {None}]
  /\ stale \in SUBSET Builder /\ barred \in SUBSET Target
  /\ place \in Placement

(* A builder is leased to a command exactly while that command holds the   *)
(* reservation made for this builder, whatever replaces, expires, confirms *)
(* or quarantines reservations in between (_release_builder_lease).        *)
LeaseFollowsReservation ==
  /\ \A c \in Command : Reserved(place, c) => place.lease[place.res[c].builder] = c
  /\ \A b \in Builder : place.lease[b] # None =>
       Reserved(place, place.lease[b]) /\ place.res[place.lease[b]].builder = b

(* "cross-type active footprint overlap = 0": no two commands hold the     *)
(* same ground (resolve, against the active reservations of all types).    *)
OneHolderPerTarget ==
  \A c, d \in Command :
    Reserved(place, c) /\ Reserved(place, d) /\ TargetOf[c] = TargetOf[d] => c = d

(* A build that was submitted, or accepted and not yet decided, keeps its  *)
(* reservation and its builder: the hard timeout comes before the expiry,  *)
(* also when a step takes long (effect_lifecycle.py, mark_build_started).  *)
InFlightOwnsPlace ==
  /\ \A c \in Accepted : Reserved(place, c) /\ place.lease[effect[c].builder] = c
  /\ sent # None /\ phase # "ended" =>
       Reserved(place, sent.cmd) /\ place.lease[sent.builder] = sent.cmd

(* The transitions that the worker published form one unbroken chain for   *)
(* each command, and end in the state that its reservation really has.     *)
LedgerTellsReservations ==
  \A c \in Command :
    place.ledger[c] = IF Reserved(place, c) THEN place.res[c].state ELSE "unreserved"

(* An accepted build is confirmed or given up: the extensions of its       *)
(* timeout end at the hard timeout.                                        *)
AcceptedIsDecided == \A c \in Command : c \in Accepted ~> c \notin Accepted

(* "Keep the approach move non-final: its rejection is a primitive trace   *)
(* fact, not a failed build/effect report": a command whose build the game *)
(* accepted does not fail for its primitives.                              *)
RefusedApproachIsNoFailure ==
  \A c \in Command : "build_accepted" \in trace[c] => report[c].stage # "pysc2_acceptance"
=============================================================================
