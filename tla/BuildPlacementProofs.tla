------------------------- MODULE BuildPlacementProofs -------------------------
(***************************************************************************)
(* The safety properties of BuildPlacement, for any number of commands,    *)
(* builders and targets, any timeouts, and steps of any allowed length.    *)
(*                                                                         *)
(* PlaceInv is about the placement service alone, and each of its calls    *)
(* keeps it.  QueueInv says that a command is queued, submitted or         *)
(* accepted, and never two of these.  TimeInv compares the loops that a    *)
(* reservation has left with the loops that its build may still take; it   *)
(* is why no call that expires reservations reaches a build in flight.     *)
(***************************************************************************)
EXTENDS BuildPlacement, TLAPS

LeaseInv(p) ==
  /\ \A c \in Command : Reserved(p, c) => p.lease[p.res[c].builder] = c
  /\ \A b \in Builder : p.lease[b] # None =>
       Reserved(p, p.lease[b]) /\ p.res[p.lease[b]].builder = b

HolderInv(p) ==
  \A c, d \in Command :
    Reserved(p, c) /\ Reserved(p, d) /\ TargetOf[c] = TargetOf[d] => c = d

LedgerInv(p) ==
  \A c \in Command :
    /\ p.ledger[c] = IF Reserved(p, c) THEN p.res[c].state ELSE "unreserved"
    /\ Reserved(p, c) => p.res[c].state # "occupied"

PlaceInv(p) == p \in Placement /\ LeaseInv(p) /\ HolderInv(p) /\ LedgerInv(p)

QueueInv ==
  /\ \A i, j \in DOMAIN queue : queue[i] = queue[j] => i = j
  /\ \A i \in DOMAIN queue : queue[i] \in seen /\ effect[queue[i]] = None
  /\ \A c \in Accepted : c \in seen
  /\ sent # None => /\ phase \in {"step", "settle", "ended"}
                    /\ sent.cmd \in seen /\ effect[sent.cmd] = None
                    /\ sent.kind = "build" => \A i \in DOMAIN queue : queue[i] # sent.cmd

(* With the lease of InFlightOwnsPlace, s is the builder's reservation.    *)
TimeInv ==
  /\ sent # None /\ phase = "step" => place.res[sent.cmd].left = Lifetime
  /\ sent # None /\ phase = "settle" => place.res[sent.cmd].left >= Base
  /\ \A c \in Accepted :
       LET e == effect[c]
           due == IF e.started THEN Lifetime ELSE Base
       IN  /\ e.age + place.res[c].left >= due \/ e.age = Hard
           /\ phase \in {"decide", "dispatch", "step"} =>
                e.age < IF e.started THEN Hard ELSE Base

IInv == TypeOK /\ PlaceInv(place) /\ QueueInv /\ InFlightOwnsPlace /\ TimeInv
-----------------------------------------------------------------------------
LEMMA Times == /\ Lifetime \in Nat /\ Base \in Nat \ {0} /\ Hard \in Nat
               /\ Base <= Hard /\ Hard <= Lifetime
               /\ \A d \in Lapse : d \in Nat \ {0} /\ d <= Lifetime - Base
  BY TimingAssumption DEF Lifetime

(* What a call does not name it leaves alone: the reservations and leases  *)
(* of the commands outside S.                                              *)
Keeps(p, q, S) ==
  \A d \in Command \ S :
    /\ q.res[d] = p.res[d]
    /\ \A b \in Builder : p.lease[b] = d => q.lease[b] = d

(* Releasing commands leaves a consistent service without them.            *)
LEMMA ReleaseLemma ==
  ASSUME NEW p, PlaceInv(p), NEW S \in SUBSET Command
  PROVE  /\ PlaceInv(Release(p, S))
         /\ Keeps(p, Release(p, S), S)
         /\ \A c \in S : ~Reserved(Release(p, S), c)
<1> DEFINE q == Release(p, S)
<1>1. /\ \A c \in Command : q.res[c] = IF c \in S THEN None ELSE p.res[c]
      /\ \A c \in Command : q.ledger[c] = IF c \in S THEN "unreserved" ELSE p.ledger[c]
      /\ \A b \in Builder :
           q.lease[b] = IF p.lease[b] \in S THEN None ELSE p.lease[b]
  BY NoneAssumption DEF PlaceInv, LeaseInv, LedgerInv, Release, LeasesWithout, Told, Reserved, Placement
<1>2. q \in Placement
  BY <1>1 DEF PlaceInv, Placement, Release, LeasesWithout, Told
<1>3. LeaseInv(q)
  BY <1>1 DEF PlaceInv, LeaseInv, Reserved, Placement, Reservation
<1>4. HolderInv(q) /\ LedgerInv(q)
  BY <1>1 DEF PlaceInv, HolderInv, LedgerInv, Reserved
<1>5. Keeps(p, q, S) /\ \A c \in S : ~Reserved(q, c)
  BY <1>1, NoneAssumption DEF Keeps, Reserved
<1> QED
  BY <1>2, <1>3, <1>4, <1>5 DEF PlaceInv

(* A reservation without loops left expires; the others stay.              *)
LEMMA ExpireLemma ==
  ASSUME NEW p, PlaceInv(p)
  PROVE  /\ PlaceInv(Expire(p))
         /\ Keeps(p, Expire(p), Expired(p))
         /\ \A c \in Expired(p) : ~Reserved(Expire(p), c)
  BY ReleaseLemma DEF Expire, Expired

(* A command that may reserve gets the reservation and the lease, and      *)
(* nobody loses one.                                                       *)
LEMMA ReserveLemma ==
  ASSUME NEW p, PlaceInv(p), NEW c \in Command, NEW b \in Builder, MayReserve(p, c, b)
  PROVE  /\ PlaceInv(Reserve(p, c, b))
         /\ Keeps(p, Reserve(p, c, b), {c})
         /\ Reserved(Reserve(p, c, b), c)
         /\ Reserve(p, c, b).res[c].left = Lifetime
         /\ Reserve(p, c, b).lease[b] = c
<1> DEFINE r == [builder |-> b, left |-> Lifetime, state |-> "reserved"]
           q == Release(p, {c})
           s == Reserve(p, c, b)
<1>1. r \in Reservation /\ r # None
  BY Times, NoneAssumption DEF Reservation
<1>2. PlaceInv(q) /\ Keeps(p, q, {c}) /\ ~Reserved(q, c)
  BY ReleaseLemma
<1>3. q.lease[b] = None
  <2>1. p.lease[b] \in {None, c}
    BY DEF MayReserve, MayLease
  <2>2. q.lease[b] \in {None, p.lease[b]}
    BY DEF Release, LeasesWithout
  <2>3. q.lease[b] # c
    BY <1>2, NoneAssumption DEF PlaceInv, LeaseInv
  <2> QED
    BY <2>1, <2>2, <2>3
<1>4. /\ s.res = [q.res EXCEPT ![c] = r]
      /\ s.lease = [q.lease EXCEPT ![b] = c]
      /\ s.ledger = [q.ledger EXCEPT ![c] = "reserved"]
  BY <1>2 DEF Reserve, PlaceInv, LedgerInv, Told
<1> HIDE DEF q, r
<1>5. s \in Placement
  <2>1. s = [res |-> s.res, lease |-> s.lease, ledger |-> s.ledger]
    BY DEF Reserve
  <2> HIDE DEF s
  <2> QED
    BY <1>1, <1>2, <1>4, <2>1 DEF PlaceInv, Placement
<1>6. /\ \A d \in Command : s.res[d] = IF d = c THEN r ELSE q.res[d]
      /\ \A d \in Command : s.ledger[d] = IF d = c THEN "reserved" ELSE q.ledger[d]
      /\ \A a \in Builder : s.lease[a] = IF a = b THEN c ELSE q.lease[a]
  BY <1>2, <1>4 DEF PlaceInv, Placement
<1>7. r.builder = b /\ r.left = Lifetime /\ r.state = "reserved"
  BY DEF r
<1> HIDE DEF s
<1>8. LeaseInv(s)
  BY <1>1, <1>2, <1>3, <1>6, <1>7, NoneAssumption
     DEF PlaceInv, LeaseInv, Reserved, Placement, Reservation
<1>9. HolderInv(s)
  <2>1. \A d \in Command \ {c} : Reserved(s, d) => TargetOf[d] # TargetOf[c]
    BY <1>2, <1>6 DEF MayReserve, Keeps, Reserved
  <2> QED
    BY <1>2, <1>6, <2>1 DEF PlaceInv, HolderInv, Reserved
<1>10. LedgerInv(s)
  <2> SUFFICES ASSUME NEW d \in Command
               PROVE  /\ s.ledger[d] = IF Reserved(s, d) THEN s.res[d].state ELSE "unreserved"
                      /\ Reserved(s, d) => s.res[d].state # "occupied"
    BY DEF LedgerInv
  <2>1. CASE d = c
    BY <1>1, <1>6, <1>7, <2>1 DEF Reserved
  <2>2. CASE d # c
    BY <1>2, <1>6, <2>2 DEF PlaceInv, LedgerInv, Reserved
  <2> QED
    BY <2>1, <2>2
<1>11. Keeps(p, s, {c})
  <2> SUFFICES ASSUME NEW d \in Command, d # c
               PROVE  /\ s.res[d] = p.res[d]
                      /\ \A a \in Builder : p.lease[a] = d => s.lease[a] = d
    BY DEF Keeps
  <2>1. /\ q.res[d] = p.res[d]
        /\ \A a \in Builder : p.lease[a] = d => q.lease[a] = d
    BY <1>2 DEF Keeps
  <2>2. d # None
    BY NoneAssumption
  <2> QED
    BY <1>3, <1>6, <2>1, <2>2
<1> QED
  BY <1>1, <1>5, <1>6, <1>7, <1>8, <1>9, <1>10, <1>11 DEF PlaceInv, Reserved, s

(* Builds that start keep their reservation, for as long as they may take. *)
LEMMA StartLemma ==
  ASSUME NEW p, PlaceInv(p), NEW S \in SUBSET Command,
         NEW age, \A c \in S : age[c] \in 0 .. Hard
  PROVE  /\ PlaceInv(Start(p, S, age))
         /\ Start(p, S, age).lease = p.lease
         /\ \A c \in Command : Reserved(p, c) =>
              /\ Reserved(Start(p, S, age), c)
              /\ Start(p, S, age).res[c].builder = p.res[c].builder
              /\ Start(p, S, age).res[c].left >= p.res[c].left
              /\ c \in S => Start(p, S, age).res[c].left + age[c] >= Lifetime
<1> DEFINE q == Start(p, S, age)
           r(c) == Renewed(p.res[c], age[c])
<1>1. \A c \in S : Reserved(p, c) =>
        /\ r(c) \in Reservation
        /\ r(c).builder = p.res[c].builder
        /\ r(c).left >= p.res[c].left
        /\ r(c).left + age[c] >= Lifetime
        /\ r(c).state = "build_started"
  <2> SUFFICES ASSUME NEW c \in S, Reserved(p, c)
               PROVE  /\ r(c) \in Reservation
                      /\ r(c).builder = p.res[c].builder
                      /\ r(c).left >= p.res[c].left
                      /\ r(c).left + age[c] >= Lifetime
                      /\ r(c).state = "build_started"
    OBVIOUS
  <2> DEFINE l == Later(p.res[c].left, Lifetime - age[c])
  <2>1. p.res[c] \in Reservation
    BY DEF PlaceInv, Placement, Reserved
  <2>2. Lifetime - age[c] \in 0 .. Lifetime
    BY Times
  <2>3. l \in 0 .. Lifetime /\ l >= p.res[c].left /\ l + age[c] >= Lifetime
    BY <2>1, <2>2, Times DEF Reservation, Later
  <2>4. r(c) = [p.res[c] EXCEPT !.state = "build_started", !.left = l]
    BY DEF Renewed
  <2> HIDE DEF l, r
  <2> QED
    BY <2>1, <2>3, <2>4 DEF Reservation
<1> HIDE DEF r
<1>2. /\ q.lease = p.lease
      /\ q.res = [c \in Command |-> IF c \in S /\ Reserved(p, c) THEN r(c) ELSE p.res[c]]
      /\ q.ledger = [c \in Command |-> IF c \in S /\ Reserved(p, c)
                                       THEN "build_started" ELSE p.ledger[c]]
      /\ q = [res |-> q.res, lease |-> q.lease, ledger |-> q.ledger]
  <2>1. \A c \in Command : Reserved(p, c) =>
          p.ledger[c] = p.res[c].state /\ p.res[c].state \in {"reserved", "build_started"}
    BY DEF PlaceInv, LedgerInv, Placement, Reservation, Reserved
  <2>2. q.res = [c \in Command |-> IF c \in S /\ Reserved(p, c) THEN r(c) ELSE p.res[c]]
    BY DEF Start, r
  <2>3. q.ledger = [c \in Command |-> IF c \in S /\ Reserved(p, c)
                                     THEN "build_started" ELSE p.ledger[c]]
    BY <2>1 DEF Start, Told
  <2> QED
    BY <2>2, <2>3 DEF Start
<1> HIDE DEF q
<1>3. \A c \in Command : Reserved(q, c) <=> Reserved(p, c)
  <2> SUFFICES ASSUME NEW c \in Command PROVE Reserved(q, c) <=> Reserved(p, c)
    OBVIOUS
  <2>1. CASE c \in S /\ Reserved(p, c)
    <3>1. q.res[c] = r(c) /\ r(c) \in Reservation
      BY <1>1, <1>2, <2>1
    <3> QED
      BY <2>1, <3>1, NoneAssumption DEF Reserved
  <2>2. CASE ~(c \in S /\ Reserved(p, c))
    BY <1>2, <2>2 DEF Reserved
  <2> QED
    BY <2>1, <2>2
<1>4. q \in Placement
  BY <1>1, <1>2 DEF PlaceInv, Placement
<1>5. \A c \in Command : Reserved(p, c) =>
        /\ q.res[c].builder = p.res[c].builder
        /\ q.res[c].left >= p.res[c].left
        /\ c \in S => q.res[c].left + age[c] >= Lifetime
  BY <1>1, <1>2 DEF PlaceInv, Placement, Reservation, Reserved
<1>6. LeaseInv(q)
  <2>1. \A c \in Command : Reserved(q, c) => q.lease[q.res[c].builder] = c
    BY <1>2, <1>3, <1>5 DEF PlaceInv, LeaseInv
  <2>2. \A b \in Builder : q.lease[b] # None =>
          q.lease[b] \in Command /\ Reserved(q, q.lease[b]) /\ q.res[q.lease[b]].builder = b
    BY <1>2, <1>3, <1>5 DEF PlaceInv, LeaseInv, Placement
  <2> QED
    BY <2>1, <2>2 DEF LeaseInv
<1>7. HolderInv(q) /\ LedgerInv(q)
  BY <1>1, <1>2, <1>3 DEF PlaceInv, HolderInv, LedgerInv
<1> QED
  BY <1>2, <1>3, <1>4, <1>5, <1>6, <1>7 DEF PlaceInv, q

(* A confirmed build is released in the same step, with its transitions.   *)
LEMMA ConfirmLemma ==
  ASSUME NEW p, PlaceInv(p), NEW S \in SUBSET Command, NEW B \in SUBSET S
  PROVE  /\ PlaceInv(Release(Confirm(p, B), S))
         /\ Keeps(p, Release(Confirm(p, B), S), S)
<1> DEFINE q == Confirm(p, B)
           r == Release(q, S)
<1>1. \A c \in Command :
        /\ Reserved(q, c) <=> Reserved(p, c)
        /\ Reserved(p, c) => q.res[c].builder = p.res[c].builder
  <2> SUFFICES ASSUME NEW c \in Command
               PROVE  /\ Reserved(q, c) <=> Reserved(p, c)
                      /\ Reserved(p, c) => q.res[c].builder = p.res[c].builder
    OBVIOUS
  <2>1. Reserved(p, c) => /\ [p.res[c] EXCEPT !.state = "occupied"] \in Reservation
                          /\ [p.res[c] EXCEPT !.state = "occupied"].builder = p.res[c].builder
    BY DEF PlaceInv, Placement, Reserved, Reservation
  <2> QED
    BY <2>1, NoneAssumption DEF Confirm, Reserved
<1>2. /\ \A c \in Command : r.res[c] = IF c \in S THEN None ELSE p.res[c]
      /\ \A c \in Command : r.ledger[c] = IF c \in S THEN "unreserved" ELSE p.ledger[c]
      /\ \A b \in Builder : r.lease[b] = IF p.lease[b] \in S THEN None ELSE p.lease[b]
      /\ r = [res |-> r.res, lease |-> r.lease, ledger |-> r.ledger]
  <2>1. \A c \in Command : r.res[c] = IF c \in S THEN None ELSE p.res[c]
    BY DEF Release, Confirm
  <2>2. \A c \in Command :
          q.ledger[c] = IF c \in B /\ Reserved(p, c) THEN "occupied" ELSE p.ledger[c]
    BY DEF Confirm, Told, PlaceInv, LedgerInv
  <2>3. \A c \in Command : Reserved(q, c) => q.res[c].state = q.ledger[c]
    <3> SUFFICES ASSUME NEW c \in Command, Reserved(p, c) PROVE q.res[c].state = q.ledger[c]
      BY <1>1
    <3>1. [p.res[c] EXCEPT !.state = "occupied"].state = "occupied"
      BY DEF PlaceInv, Placement, Reserved, Reservation
    <3> QED
      BY <2>2, <3>1 DEF Confirm, PlaceInv, LedgerInv
  <2>4. \A c \in Command : r.ledger[c] = IF c \in S THEN "unreserved" ELSE p.ledger[c]
    BY <1>1, <2>2, <2>3 DEF Release, Told, PlaceInv, LedgerInv
  <2>5. \A b \in Builder : r.lease[b] = IF p.lease[b] \in S THEN None ELSE p.lease[b]
    <3>1. \A b \in Builder : q.lease[b] = IF p.lease[b] \in B THEN None ELSE p.lease[b]
      BY NoneAssumption DEF Confirm, LeasesWithout, PlaceInv, LeaseInv
    <3>2. \A b \in Builder : q.lease[b] # None =>
            Reserved(q, q.lease[b]) /\ q.res[q.lease[b]].builder = b
      BY <1>1, <3>1 DEF PlaceInv, LeaseInv, Placement
    <3> HIDE DEF q
    <3>3. \A b \in Builder : r.lease[b] = IF q.lease[b] \in S THEN None ELSE q.lease[b]
      BY <3>2, NoneAssumption DEF Release, LeasesWithout
    <3> QED
      BY <3>1, <3>3, NoneAssumption
  <2> QED
    BY <2>1, <2>4, <2>5 DEF Release
<1>3. r \in Placement
  <2>1. r.res = [c \in Command |-> IF c \in S THEN None ELSE p.res[c]]
    BY DEF Release, Confirm
  <2>2. DOMAIN r.lease = Builder /\ DOMAIN r.ledger = Command
    BY DEF Release, LeasesWithout
  <2>3. r.lease = [b \in Builder |-> r.lease[b]] /\ r.ledger = [c \in Command |-> r.ledger[c]]
    BY DEF Release, LeasesWithout
  <2> HIDE DEF r
  <2> QED
    BY <1>2, <2>1, <2>2, <2>3 DEF PlaceInv, Placement
<1> HIDE DEF r
<1>4. LeaseInv(r)
  BY <1>2 DEF PlaceInv, LeaseInv, Reserved, Placement, Reservation
<1>5. HolderInv(r) /\ LedgerInv(r)
  BY <1>2 DEF PlaceInv, HolderInv, LedgerInv, Reserved
<1>6. Keeps(p, r, S)
  BY <1>2, NoneAssumption DEF Keeps
<1> QED
  BY <1>3, <1>4, <1>5, <1>6 DEF PlaceInv, r
-----------------------------------------------------------------------------
LEMMA InvInit == Init => IInv
<1> SUFFICES ASSUME Init PROVE IInv
  OBVIOUS
<1>1. /\ place.res = [c \in Command |-> None] /\ place.lease = [b \in Builder |-> None]
      /\ place.ledger = [c \in Command |-> "unreserved"]
      /\ effect = [c \in Command |-> None] /\ sent = None /\ queue = <<>>
  BY DEF Init
<1>2. place \in Placement
  BY DEF Init, Placement
<1>3. PlaceInv(place)
  BY <1>1, <1>2 DEF PlaceInv, LeaseInv, HolderInv, LedgerInv, Reserved
<1>4. Accepted = {}
  BY <1>1 DEF Accepted
<1>5. TypeOK
  BY <1>1, <1>2 DEF Init, TypeOK, NoReport
<1>6. QueueInv /\ InFlightOwnsPlace /\ TimeInv
  BY <1>1, <1>4 DEF QueueInv, InFlightOwnsPlace, TimeInv
<1> QED
  BY <1>3, <1>5, <1>6 DEF IInv

(* What IInv says of the builds in flight: a call that leaves them alone   *)
(* keeps them.                                                             *)
LEMMA KeptInFlight ==
  ASSUME TypeOK, InFlightOwnsPlace, NEW q, NEW S \in SUBSET Command, Keeps(place, q, S),
         S \cap Accepted = {}
  PROVE  \A c \in Accepted : /\ Reserved(q, c) /\ q.lease[effect[c].builder] = c
                             /\ q.res[c] = place.res[c]
<1> SUFFICES ASSUME NEW c \in Accepted
             PROVE  /\ Reserved(q, c) /\ q.lease[effect[c].builder] = c
                    /\ q.res[c] = place.res[c]
  OBVIOUS
<1>1. c \in Command \ S /\ effect[c] \in Effect
  BY DEF Accepted, TypeOK
<1>2. effect[c].builder \in Builder
  BY <1>1 DEF Effect
<1>3. Reserved(place, c) /\ place.lease[effect[c].builder] = c
  BY DEF InFlightOwnsPlace
<1> QED
  BY <1>1, <1>2, <1>3 DEF Keeps, Reserved

LEMMA SettleStep == IInv /\ Settle => IInv'
<1> SUFFICES ASSUME IInv, Settle PROVE IInv'
  OBVIOUS
<1> USE DEF IInv
<1>1. phase = "settle" /\ phase' = "effects" /\ sent' = None
      /\ UNCHANGED <<queue, seen, barred>>
  BY DEF Settle
<1>2. CASE SettleNothing \/ SettleApproach
  <2>1. UNCHANGED <<report, effect, stale, place>>
    BY <1>2 DEF SettleNothing, SettleApproach
  <2>2. trace' \in [Command -> SUBSET {"approach_refused", "build_accepted", "build_refused"}]
    BY <1>2 DEF SettleNothing, SettleApproach, TypeOK
  <2>3. TypeOK'
    BY <1>1, <2>1, <2>2 DEF TypeOK
  <2>4. PlaceInv(place)' /\ QueueInv' /\ InFlightOwnsPlace' /\ TimeInv'
    BY <1>1, <2>1 DEF PlaceInv, LeaseInv, HolderInv, LedgerInv, Reserved,
                      QueueInv, InFlightOwnsPlace, TimeInv, Accepted
  <2> QED
    BY <2>3, <2>4
<1>3. ASSUME sent # None, sent.kind = "build"
      PROVE  /\ sent.cmd \in Command /\ sent.builder \in Builder
             /\ sent.cmd \in seen /\ sent.cmd \notin Accepted
             /\ \A i \in DOMAIN queue : queue[i] # sent.cmd
  BY <1>3 DEF QueueInv, TypeOK, Primitive, Accepted
<1>4. CASE SettleAccepted /\ trace[sent.cmd] = {}
  <2> DEFINE c == sent.cmd
             e == [builder |-> sent.builder, age |-> 0, started |-> FALSE]
  <2>1. /\ sent # None /\ sent.kind = "build"
        /\ trace' = [trace EXCEPT ![c] = @ \cup {"build_accepted"}]
        /\ effect' = [effect EXCEPT ![c] = e]
        /\ UNCHANGED <<report, place, stale>>
    BY <1>4 DEF SettleAccepted
  <2>2. e \in Effect /\ e # None
    <3>1. 0 \in 0 .. Hard
      BY Times
    <3>2. e \in Effect
      BY <1>3, <2>1, <3>1 DEF Effect
    <3> QED
      BY <3>2, NoneAssumption
  <2>3. /\ Accepted' = Accepted \cup {c}
        /\ effect'[c] = e
        /\ \A d \in Accepted : d # c /\ effect'[d] = effect[d]
    <3>1. c \in Command /\ c \notin Accepted
      BY <1>3, <2>1
    <3>2. effect' = [d \in Command |-> IF d = c THEN e ELSE effect[d]]
      BY <2>1 DEF TypeOK
    <3> HIDE DEF e, c
    <3> QED
      BY <2>2, <3>1, <3>2 DEF Accepted
  <2>4. e.builder = sent.builder /\ e.age = 0 /\ ~e.started
    OBVIOUS
  <2>5. TypeOK'
    BY <1>1, <1>3, <2>1, <2>2 DEF TypeOK
  <2>6. PlaceInv(place)'
    BY <2>1 DEF PlaceInv, LeaseInv, HolderInv, LedgerInv, Reserved
  <2>7. QueueInv'
    BY <1>1, <1>3, <2>1, <2>3 DEF QueueInv, TypeOK
  <2> HIDE DEF e
  <2>8. InFlightOwnsPlace'
    BY <1>1, <2>1, <2>3, <2>4 DEF InFlightOwnsPlace, Reserved
  <2>9. TimeInv'
    <3>1. place.res[c].left >= Base
      BY <1>1, <2>1 DEF TimeInv
    <3>2. place.res[c].left \in Nat
      BY <1>1, <1>3, <2>1, Times DEF InFlightOwnsPlace, TypeOK, Placement, Reserved, Reservation
    <3>3. \A d \in Accepted : effect[d].age + place.res[d].left >=
              (IF effect[d].started THEN Lifetime ELSE Base) \/ effect[d].age = Hard
      BY DEF TimeInv
    <3>4. \A d \in Accepted' : effect'[d].age + place'.res[d].left >=
              (IF effect'[d].started THEN Lifetime ELSE Base) \/ effect'[d].age = Hard
      BY <2>1, <2>3, <2>4, <3>1, <3>2, <3>3
    <3> QED
      BY <1>1, <3>4 DEF TimeInv
  <2> QED
    BY <2>5, <2>6, <2>7, <2>8, <2>9
<1>5. ASSUME sent # None, sent.kind = "build",
             place' = Release(place, {sent.cmd}),
             UNCHANGED effect,
             stale' \in SUBSET Builder,
             trace' \in [Command -> SUBSET {"approach_refused", "build_accepted", "build_refused"}],
             Reported({sent.cmd}, "failed", "pysc2_acceptance")
      PROVE  IInv'
  <2>1. sent.cmd \in Command /\ {sent.cmd} \cap Accepted = {}
    BY <1>3, <1>5
  <2>2. PlaceInv(place') /\ Keeps(place, place', {sent.cmd})
    BY <1>5, <2>1, ReleaseLemma
  <2>3. \A c \in Accepted : /\ Reserved(place', c) /\ place'.lease[effect[c].builder] = c
                            /\ place'.res[c] = place.res[c]
    BY <2>1, <2>2, KeptInFlight
  <2>4. report' \in [Command -> Report \cup {NoReport}]
    BY <1>5 DEF Reported, Report, TypeOK
  <2>5. TypeOK'
    BY <1>1, <1>5, <2>2, <2>4 DEF TypeOK, PlaceInv
  <2>6. PlaceInv(place)'
    BY <2>2 DEF PlaceInv, LeaseInv, HolderInv, LedgerInv, Reserved
  <2>7. Accepted' = Accepted
    BY <1>5 DEF Accepted
  <2>8. QueueInv'
    BY <1>1, <1>5, <2>7 DEF QueueInv
  <2>9. InFlightOwnsPlace' /\ TimeInv'
    BY <1>1, <1>5, <2>3, <2>7 DEF InFlightOwnsPlace, TimeInv, Reserved
  <2> QED
    BY <2>5, <2>6, <2>8, <2>9
<1>6. CASE SettleAccepted /\ trace[sent.cmd] # {}
  BY <1>3, <1>5, <1>6 DEF SettleAccepted, TypeOK
<1>7. CASE SettleRefused
  BY <1>3, <1>5, <1>7 DEF SettleRefused, TypeOK
<1> QED
  BY <1>2, <1>4, <1>6, <1>7 DEF Settle

LEMMA EffectsStep ==
  ASSUME IInv, NEW seenNow \in [Accepted -> Evidence], ObserveEffects(seenNow)
  PROVE  IInv'
<1> USE DEF IInv
<1> DEFINE built   == {c \in Accepted : seenNow[c] = "structure"}
           started == {c \in Accepted : effect[c].started \/ seenNow[c] # "nothing"}
           failed  == {c \in Accepted \ built : TimedOut(c, c \in started)}
           age     == [c \in Accepted |-> effect[c].age]
           fresh   == {c \in started : ~effect[c].started}
           begun   == Start(place, fresh, age)
           e(c)    == [effect[c] EXCEPT !.started = c \in started]
<1>1. /\ phase = "effects" /\ phase' = "decide"
      /\ UNCHANGED <<queue, seen, trace, sent>>
      /\ effect' = [c \in Command |-> IF c \in built \cup failed THEN None
                                      ELSE IF c \in Accepted THEN e(c) ELSE None]
      /\ place' = Release(Confirm(begun, built), built \cup failed)
      /\ barred' = barred \cup ({TargetOf[c] : c \in built} \cap Townhall)
      /\ stale' = stale \cup {effect[c].builder : c \in built \cup failed}
      /\ report' = [c \in Command |->
                      CASE c \in built -> [status |-> "succeeded", stage |-> "effect_verification"]
                        [] c \in failed -> [status |-> "failed", stage |-> "effect_verification"]
                        [] OTHER -> report[c]]
  BY DEF ObserveEffects
<1>2. /\ Accepted \subseteq Command /\ \A c \in Accepted : effect[c] \in Effect
      /\ built \subseteq Accepted /\ failed \subseteq Accepted /\ fresh \subseteq started
      /\ started \subseteq Accepted
  BY DEF Accepted, TypeOK
<1>3. \A c \in Accepted : /\ e(c) \in Effect /\ e(c).builder = effect[c].builder
                          /\ e(c).age = effect[c].age /\ (e(c).started <=> c \in started)
                          /\ e(c) # None
  <2> SUFFICES ASSUME NEW c \in Accepted
               PROVE  /\ e(c) \in Effect /\ e(c).builder = effect[c].builder
                      /\ e(c).age = effect[c].age /\ (e(c).started <=> c \in started)
                      /\ e(c) # None
    OBVIOUS
  <2>1. /\ e(c) \in Effect /\ e(c).builder = effect[c].builder
        /\ e(c).age = effect[c].age /\ (e(c).started <=> c \in started)
    <3> HIDE DEF started
    <3>1. effect[c] \in Effect /\ (c \in started) \in BOOLEAN
      BY <1>2
    <3> QED
      BY <3>1 DEF Effect
  <2> QED
    BY <2>1, NoneAssumption
<1>4. \A c \in fresh : age[c] = effect[c].age /\ age[c] \in 0 .. Hard
  BY <1>2 DEF Effect
<1>5. sent = None
  BY <1>1 DEF QueueInv
<1>6. \A c \in Accepted \ (built \cup failed) :
        e(c).age < IF e(c).started THEN Hard ELSE Base
  <2> SUFFICES ASSUME NEW c \in Accepted \ (built \cup failed)
               PROVE  e(c).age < IF e(c).started THEN Hard ELSE Base
    OBVIOUS
  <2>1. ~TimedOut(c, c \in started)
    OBVIOUS
  <2>2. ~(effect[c].age >= Base) \/ (effect[c].age < Hard /\ c \in started)
    BY <2>1 DEF TimedOut
  <2>3. effect[c].age \in Nat /\ e(c).age = effect[c].age /\ (e(c).started <=> c \in started)
    <3> HIDE DEF e, started, failed, built
    <3>1. c \in Accepted
      OBVIOUS
    <3>2. effect[c].age \in 0 .. Hard
      BY <1>2, <3>1 DEF Effect
    <3> QED
      BY <1>3, <3>1, <3>2, Times
  <2> HIDE DEF e, started, failed, built
  <2> QED
    BY <2>2, <2>3, Times
<1> HIDE DEF built, failed, age, e
<1>7. /\ Accepted' = Accepted \ (built \cup failed)
      /\ \A c \in Accepted' : effect'[c] = e(c)
  BY <1>1, <1>2, <1>3 DEF Accepted
<1>8. /\ PlaceInv(begun) /\ begun.lease = place.lease
      /\ \A c \in Command : Reserved(place, c) =>
           /\ Reserved(begun, c)
           /\ begun.res[c].builder = place.res[c].builder
           /\ begun.res[c].left >= place.res[c].left
           /\ c \in fresh => begun.res[c].left + age[c] >= Lifetime
  <2>1. fresh \in SUBSET Command /\ PlaceInv(place)
    BY <1>2
  <2> HIDE DEF fresh, started
  <2> HIDE DEF IInv
  <2> QED
    BY <1>4, <2>1, StartLemma, Zenon
<1> HIDE DEF begun
<1>9. PlaceInv(place') /\ Keeps(begun, place', built \cup failed)
  BY <1>1, <1>2, <1>8, ConfirmLemma
<1>10. \A c \in Accepted' : /\ Reserved(place', c)
                            /\ place'.lease[effect'[c].builder] = c
                            /\ place'.res[c].left >= place.res[c].left
                            /\ c \in fresh => place'.res[c].left + effect'[c].age >= Lifetime
  <2> SUFFICES ASSUME NEW c \in Accepted'
               PROVE  /\ Reserved(place', c)
                      /\ place'.lease[effect'[c].builder] = c
                      /\ place'.res[c].left >= place.res[c].left
                      /\ c \in fresh => place'.res[c].left + effect'[c].age >= Lifetime
    OBVIOUS
  <2>1. c \in Accepted /\ c \in Command \ (built \cup failed) /\ effect'[c] = e(c)
    BY <1>2, <1>7
  <2>2. effect'[c].builder = effect[c].builder /\ effect'[c].age = effect[c].age
        /\ effect[c].builder \in Builder
    BY <1>2, <1>3, <2>1 DEF Effect
  <2>3. Reserved(place, c) /\ place.lease[effect[c].builder] = c
    BY <2>1 DEF InFlightOwnsPlace
  <2> QED
    BY <1>4, <1>8, <1>9, <2>1, <2>2, <2>3 DEF Keeps, Reserved
<1>11. effect' \in [Command -> Effect \cup {None}]
  BY <1>1, <1>3
<1>12. /\ report' \in [Command -> Report \cup {NoReport}]
       /\ barred' \in SUBSET Target /\ stale' \in SUBSET Builder
  <2>1. [status |-> "succeeded", stage |-> "effect_verification"] \in Report
        /\ [status |-> "failed", stage |-> "effect_verification"] \in Report
    BY DEF Report
  <2>2. \A c \in built : TargetOf[c] \in Target
    BY <1>2, ContentAssumption
  <2>3. \A c \in built \cup failed : effect[c].builder \in Builder
    BY <1>2 DEF Effect
  <2>4. report' \in [Command -> Report \cup {NoReport}]
    BY <1>1, <2>1 DEF TypeOK
  <2> QED
    BY <1>1, <2>2, <2>3, <2>4 DEF TypeOK
<1>13. TypeOK'
  BY <1>1, <1>9, <1>11, <1>12 DEF TypeOK, PlaceInv
<1>14. PlaceInv(place)'
  BY <1>9 DEF PlaceInv, LeaseInv, HolderInv, LedgerInv, Reserved
<1>15. QueueInv'
  <2>1. \A i \in DOMAIN queue : queue[i] \notin Accepted' /\ queue[i] \in Command
    BY <1>7 DEF QueueInv, TypeOK, Accepted
  <2> QED
    BY <1>1, <1>5, <1>7, <2>1 DEF QueueInv, Accepted
<1>16. InFlightOwnsPlace'
  BY <1>1, <1>5, <1>10 DEF InFlightOwnsPlace, Reserved
<1>17. TimeInv'
  <2> SUFFICES ASSUME NEW c \in Accepted'
               PROVE  /\ \/ effect'[c].age + place'.res[c].left >=
                              IF effect'[c].started THEN Lifetime ELSE Base
                         \/ effect'[c].age = Hard
                      /\ effect'[c].age < IF effect'[c].started THEN Hard ELSE Base
    BY <1>1, <1>5 DEF TimeInv
  <2>1. /\ c \in Accepted \ (built \cup failed)
        /\ effect'[c].age = effect[c].age /\ (effect'[c].started <=> c \in started)
        /\ effect[c].age \in Nat
    BY <1>2, <1>3, <1>7 DEF Effect
  <2>2. effect'[c].age < IF effect'[c].started THEN Hard ELSE Base
    BY <1>6, <1>7
  <2>3. /\ place.res[c].left \in Nat /\ place'.res[c].left \in Nat
    <3>1. place.res[c] \in Reservation /\ place'.res[c] \in Reservation
      BY <1>2, <1>9, <1>10, <2>1 DEF PlaceInv, Placement, InFlightOwnsPlace, Reserved
    <3> QED
      BY <3>1, Times DEF Reservation
  <2>4. \/ effect[c].age + place.res[c].left >= IF effect[c].started THEN Lifetime ELSE Base
        \/ effect[c].age = Hard
    BY <2>1 DEF TimeInv
  <2>5. CASE c \in fresh
    BY <1>10, <2>1, <2>2, <2>3, <2>5, Times DEF fresh
  <2>6. CASE c \notin fresh
    <3>1. effect'[c].started <=> effect[c].started
      BY <1>2, <2>1, <2>6 DEF Effect
    <3> QED
      BY <1>10, <2>1, <2>2, <2>3, <2>4, <3>1, Times
  <2> QED
    BY <2>5, <2>6
<1> QED
  BY <1>13, <1>14, <1>15, <1>16, <1>17

(* The calls of next_dispatch and of the mapping of candidates: some       *)
(* commands lose their reservation, none of them in flight.                *)
LEMMA ExpiredIsIdle ==
  ASSUME IInv, phase \in {"decide", "dispatch"}
  PROVE  Expired(place) \in SUBSET Command /\ Expired(place) \cap Accepted = {}
<1> SUFFICES ASSUME NEW c \in Expired(place), c \in Accepted PROVE FALSE
  BY DEF Expired
<1> USE DEF IInv
<1>1. place.res[c].left = 0
  BY DEF Expired
<1>2. /\ effect[c].age < IF effect[c].started THEN Hard ELSE Base
      /\ \/ effect[c].age + place.res[c].left >= IF effect[c].started THEN Lifetime ELSE Base
         \/ effect[c].age = Hard
  BY DEF TimeInv
<1>3. effect[c].age \in Nat
  BY DEF Accepted, TypeOK, Effect
<1> QED
  BY <1>1, <1>2, <1>3, Times

LEMMA DecideStep == IInv /\ Decide => IInv'
<1> SUFFICES ASSUME IInv, Decide PROVE IInv'
  OBVIOUS
<1> USE DEF IInv
<1>1. /\ phase = "decide" /\ phase' = "dispatch"
      /\ UNCHANGED <<trace, report, sent, effect, stale, barred>>
      /\ place' \in {place, Expire(place)}
      /\ \/ queue' = queue /\ seen' = seen
         \/ /\ queue' \in Batch
            /\ seen' = seen \cup {queue'[i] : i \in DOMAIN queue'}
  BY DEF Decide
<1>2. sent = None /\ Accepted' = Accepted
  BY <1>1 DEF QueueInv, Accepted
<1>3. PlaceInv(place') /\ Keeps(place, place', Expired(place))
  BY <1>1, ExpireLemma DEF Keeps
<1>4. \A c \in Accepted : /\ Reserved(place', c) /\ place'.lease[effect[c].builder] = c
                          /\ place'.res[c] = place.res[c]
  BY <1>1, <1>3, ExpiredIsIdle, KeptInFlight
<1>5. /\ queue' \in Seq(Command) /\ seen' \in SUBSET Command /\ seen \subseteq seen'
      /\ \A i, j \in DOMAIN queue' : queue'[i] = queue'[j] => i = j
      /\ \A i \in DOMAIN queue' : queue'[i] \in seen' /\ queue'[i] \notin Accepted
  <2>1. CASE queue' = queue /\ seen' = seen
    BY <2>1 DEF TypeOK, QueueInv, Accepted
  <2>2. CASE queue' \in Batch /\ seen' = seen \cup {queue'[i] : i \in DOMAIN queue'}
    <3>1. PICK n \in 0 .. MaxBatch : queue' \in [1 .. n -> Command \ seen]
      BY <2>2 DEF Batch
    <3>2. DOMAIN queue' = 1 .. n /\ \A i \in 1 .. n : queue'[i] \in Command \ seen
      BY <3>1
    <3>3. queue' \in Seq(Command)
      <4>1. n \in Nat /\ queue' \in [1 .. n -> Command]
        BY <3>1, TimingAssumption
      <4> QED
        BY <4>1
    <3>4. \A i, j \in DOMAIN queue' : queue'[i] = queue'[j] => i = j
      BY <2>2 DEF Batch
    <3> QED
      BY <2>2, <3>2, <3>3, <3>4 DEF TypeOK, QueueInv
  <2> QED
    BY <1>1, <2>1, <2>2
<1>6. TypeOK'
  BY <1>1, <1>3, <1>5 DEF TypeOK, PlaceInv
<1>7. PlaceInv(place)'
  BY <1>3 DEF PlaceInv, LeaseInv, HolderInv, LedgerInv, Reserved
<1>8. QueueInv'
  <2>1. \A i \in DOMAIN queue' : effect[queue'[i]] = None
    BY <1>5 DEF Accepted, TypeOK
  <2> QED
    BY <1>1, <1>2, <1>5, <2>1 DEF QueueInv
<1>9. InFlightOwnsPlace' /\ TimeInv'
  BY <1>1, <1>2, <1>4 DEF InFlightOwnsPlace, TimeInv, Reserved
<1> QED
  BY <1>6, <1>7, <1>8, <1>9

(* A command at the head of the queue is not accepted, and the rest of the *)
(* queue does not hold it.                                                 *)
LEMMA HeadLemma ==
  ASSUME IInv, queue # <<>>
  PROVE  /\ Head1 \in Command /\ Head1 \in seen
         /\ Head1 \notin Accepted /\ effect[Head1] = None
         /\ Tail(queue) \in Seq(Command)
         /\ \A i, j \in DOMAIN Tail(queue) : Tail(queue)[i] = Tail(queue)[j] => i = j
         /\ \A i \in DOMAIN Tail(queue) :
              /\ Tail(queue)[i] \in seen /\ effect[Tail(queue)[i]] = None
              /\ Tail(queue)[i] # Head1
<1>1. queue \in Seq(Command) /\ QueueInv
  BY DEF IInv, TypeOK
<1>2. /\ Head1 = queue[1] /\ 1 \in DOMAIN queue
      /\ Tail(queue) \in Seq(Command)
      /\ \A i \in DOMAIN Tail(queue) :
           /\ i \in Nat /\ i + 1 \in DOMAIN queue /\ i + 1 # 1
           /\ Tail(queue)[i] = queue[i + 1]
  BY <1>1 DEF Head1
<1>3. Head1 \in Command
  BY <1>1, <1>2
<1> QED
  BY <1>1, <1>2, <1>3 DEF QueueInv, Accepted

LEMMA DispatchStep == IInv /\ Dispatch => IInv'
<1> SUFFICES ASSUME IInv, Dispatch PROVE IInv'
  OBVIOUS
<1>1. /\ phase = "dispatch" /\ UNCHANGED <<seen, trace, effect, stale>>
      /\ sent = None /\ Accepted' = Accepted
  BY DEF Dispatch, IInv, QueueInv, Accepted
<1>2. ASSUME NEW S \in SUBSET Command, S \cap Accepted = {},
             PlaceInv(place'), Keeps(place, place', S),
             phase' \in {"dispatch", "step"},
             \/ queue' = queue
             \/ queue # <<>> /\ queue' = Tail(queue),
             report' \in [Command -> Report \cup {NoReport}],
             barred' \in SUBSET Target,
             \/ sent' = sent
             \/ /\ queue # <<>> /\ sent' \in Primitive
                /\ sent'.cmd = Head1 /\ phase' = "step"
                /\ Reserved(place', Head1) /\ place'.lease[sent'.builder] = Head1
                /\ place'.res[Head1].left = Lifetime
                /\ sent'.kind = "build" => queue' = Tail(queue)
      PROVE  IInv'
  <2> USE DEF IInv
  <2>1. \A c \in Accepted : /\ Reserved(place', c) /\ place'.lease[effect[c].builder] = c
                            /\ place'.res[c] = place.res[c]
    BY <1>2, KeptInFlight
  <2>2. queue' \in Seq(Command)
    BY <1>2, HeadLemma DEF TypeOK
  <2>3. TypeOK'
    BY <1>1, <1>2, <2>2 DEF TypeOK, PlaceInv
  <2>4. PlaceInv(place)'
    BY <1>2 DEF PlaceInv, LeaseInv, HolderInv, LedgerInv, Reserved
  <2>5. QueueInv'
    <3>1. /\ \A i, j \in DOMAIN queue' : queue'[i] = queue'[j] => i = j
          /\ \A i \in DOMAIN queue' : queue'[i] \in seen /\ effect[queue'[i]] = None
      <4>1. CASE queue' = queue
        BY <4>1 DEF QueueInv
      <4>2. CASE queue # <<>> /\ queue' = Tail(queue)
        BY <4>2, HeadLemma
      <4> QED
        BY <1>2, <4>1, <4>2
    <3>2. sent' # None =>
            /\ phase' \in {"step", "settle", "ended"}
            /\ sent'.cmd \in seen /\ effect[sent'.cmd] = None
            /\ sent'.kind = "build" => \A i \in DOMAIN queue' : queue'[i] # sent'.cmd
      BY <1>1, <1>2, HeadLemma
    <3> QED
      BY <1>1, <3>1, <3>2 DEF QueueInv
  <2>6. InFlightOwnsPlace'
    BY <1>1, <1>2, <2>1 DEF InFlightOwnsPlace, Reserved
  <2>7. TimeInv'
    BY <1>1, <1>2, <2>1 DEF TimeInv
  <2> QED
    BY <2>3, <2>4, <2>5, <2>6, <2>7
<1>3. PlaceInv(place) /\ TypeOK
  BY DEF IInv
<1>4. CASE queue = <<>>
  <2>1. UNCHANGED <<queue, report, sent, barred, place>> /\ phase' = "step"
    BY <1>4 DEF Dispatch
  <2>2. Keeps(place, place', {})
    BY <2>1 DEF Keeps
  <2> QED
    BY <1>2, <1>3, <2>1, <2>2 DEF TypeOK
<1>5. CASE queue # <<>>
  <2>1. /\ Head1 \in Command /\ Head1 \notin Accepted
        /\ TargetOf[Head1] \in Target
    BY <1>5, HeadLemma, ContentAssumption
  <2> DEFINE S == Expired(place) \cup {Head1}
             x == Expire(place)
  <2>2. S \in SUBSET Command /\ S \cap Accepted = {}
    BY <1>1, <2>1, ExpiredIsIdle
  <2>3. PlaceInv(x) /\ Keeps(place, x, Expired(place))
    BY <1>3, ExpireLemma
  <2>4. \A q : Keeps(x, q, {Head1}) => Keeps(place, q, S)
    BY <2>3 DEF Keeps
  <2>5. \A q : Keeps(place, q, {Head1}) \/ Keeps(place, q, Expired(place)) => Keeps(place, q, S)
    BY DEF Keeps
  <2> HIDE DEF S, x
  <2>6. Keeps(place, place, S)
    BY DEF Keeps
  <2>7. ASSUME NEW bar \in BOOLEAN, FailHead(bar) PROVE IInv'
    <3>1. place' \in {Release(place, {Head1}), Release(x, {Head1})}
      BY <2>7 DEF FailHead, x
    <3>2. PlaceInv(place') /\ Keeps(place, place', S)
      BY <1>3, <2>1, <2>3, <2>4, <2>5, <3>1, ReleaseLemma
    <3>3. report' \in [Command -> Report \cup {NoReport}]
      BY <1>3, <2>7 DEF FailHead, Reported, Report, TypeOK
    <3>4. barred' \in SUBSET Target
      BY <1>3, <2>1, <2>7 DEF FailHead, TypeOK
    <3> QED
      BY <1>1, <1>2, <1>5, <2>2, <2>7, <3>2, <3>3, <3>4 DEF FailHead
  <2>8. ASSUME NEW b \in Builder, MayReserve(x, Head1, b)
        PROVE  /\ PlaceInv(Reserve(x, Head1, b)) /\ Keeps(place, Reserve(x, Head1, b), S)
               /\ Reserved(Reserve(x, Head1, b), Head1)
               /\ Reserve(x, Head1, b).res[Head1].left = Lifetime
               /\ Reserve(x, Head1, b).lease[b] = Head1
               /\ PlaceInv(Release(Reserve(x, Head1, b), {Head1}))
               /\ Keeps(place, Release(Reserve(x, Head1, b), {Head1}), S)
    <3>1. /\ PlaceInv(Reserve(x, Head1, b)) /\ Keeps(x, Reserve(x, Head1, b), {Head1})
          /\ Reserved(Reserve(x, Head1, b), Head1)
          /\ Reserve(x, Head1, b).res[Head1].left = Lifetime
          /\ Reserve(x, Head1, b).lease[b] = Head1
      BY <2>1, <2>3, <2>8, ReserveLemma
    <3> DEFINE q == Reserve(x, Head1, b)
               r == Release(q, {Head1})
    <3> HIDE DEF q
    <3>2. PlaceInv(q) /\ Keeps(x, q, {Head1})
      BY <3>1 DEF q
    <3>3. PlaceInv(r) /\ Keeps(q, r, {Head1})
      BY <2>1, <3>2, ReleaseLemma
    <3> HIDE DEF r
    <3>4. Keeps(x, r, {Head1})
      BY <3>2, <3>3 DEF Keeps
    <3>5. Keeps(place, q, S) /\ Keeps(place, r, S)
      BY <2>4, <3>2, <3>4
    <3> QED
      BY <3>1, <3>3, <3>5 DEF q, r
  <2>9. CASE DeferHead
    <3>1. \/ place' \in {place, x}
          \/ \E b \in Builder : /\ MayReserve(x, Head1, b)
                                /\ place' = Release(Reserve(x, Head1, b), {Head1})
      BY <2>9 DEF DeferHead, x
    <3>2. PlaceInv(place') /\ Keeps(place, place', S)
      BY <1>3, <2>3, <2>5, <2>6, <2>8, <3>1
    <3> QED
      BY <1>1, <1>2, <1>3, <2>2, <2>9, <3>2 DEF DeferHead, TypeOK
  <2>10. ASSUME NEW b \in Builder, ApproachHead(b) \/ BuildHead(b) PROVE IInv'
    <3>1. /\ MayReserve(x, Head1, b) /\ place' = Reserve(x, Head1, b)
          /\ phase' = "step" /\ UNCHANGED <<report, barred>>
      BY <2>10 DEF ApproachHead, BuildHead, x
    <3>2. \/ /\ sent' = [cmd |-> Head1, builder |-> b, kind |-> "approach"]
             /\ queue' = queue
          \/ /\ sent' = [cmd |-> Head1, builder |-> b, kind |-> "build"]
             /\ queue' = Tail(queue)
      BY <2>10 DEF ApproachHead, BuildHead
    <3>3. /\ sent' \in Primitive /\ sent'.cmd = Head1 /\ sent'.builder = b
          /\ sent'.kind = "build" => queue' = Tail(queue)
      BY <2>1, <3>2 DEF Primitive
    <3>4. /\ PlaceInv(place') /\ Keeps(place, place', S) /\ Reserved(place', Head1)
          /\ place'.res[Head1].left = Lifetime /\ place'.lease[b] = Head1
      BY <2>8, <3>1
    <3> QED
      BY <1>1, <1>2, <1>3, <1>5, <2>2, <3>1, <3>2, <3>3, <3>4 DEF TypeOK
  <2> QED
    BY <1>5, <2>7, <2>9, <2>10 DEF Dispatch
<1> QED
  BY <1>4, <1>5

LEMMA TimeStep == ASSUME IInv, NEW d \in Lapse, Step(d) PROVE IInv'
<1> USE DEF IInv
<1>1. /\ phase = "step" /\ phase' = "settle" /\ stale' = {}
      /\ UNCHANGED <<queue, seen, trace, report, sent, barred>>
      /\ d \in Nat \ {0} /\ d <= Lifetime - Base
  BY Times DEF Step
<1> DEFINE r(c) == [place.res[c] EXCEPT !.left = Down(@, d)]
           e(c) == [effect[c] EXCEPT !.age = Up(@, d)]
<1>2. /\ place' = [place EXCEPT !.res = [c \in Command |->
                     IF Reserved(place, c) THEN r(c) ELSE None]]
      /\ effect' = [c \in Command |-> IF effect[c] = None THEN None ELSE e(c)]
  BY DEF Step
<1>3. ASSUME NEW c \in Command, Reserved(place, c)
      PROVE  /\ r(c) \in Reservation /\ r(c) # None
             /\ r(c).builder = place.res[c].builder /\ r(c).state = place.res[c].state
             /\ r(c).left = Down(place.res[c].left, d)
  <2>1. place.res[c] \in Reservation
    BY <1>3 DEF PlaceInv, Placement, Reserved
  <2>2. Down(place.res[c].left, d) \in 0 .. Lifetime
    BY <1>1, <2>1, Times DEF Down, Reservation
  <2>3. r(c) \in Reservation /\ r(c).builder = place.res[c].builder
        /\ r(c).state = place.res[c].state /\ r(c).left = Down(place.res[c].left, d)
    BY <2>1, <2>2 DEF Reservation
  <2> QED
    BY <2>3, NoneAssumption
<1>4. ASSUME NEW c \in Accepted
      PROVE  /\ c \in Command /\ effect[c] \in Effect /\ e(c) \in Effect /\ e(c) # None
             /\ e(c).builder = effect[c].builder /\ (e(c).started <=> effect[c].started)
             /\ e(c).age = Up(effect[c].age, d)
  <2>1. c \in Command /\ effect[c] \in Effect
    BY DEF Accepted, TypeOK
  <2>2. Up(effect[c].age, d) \in 0 .. Hard
    BY <1>1, <2>1, Times DEF Up, Effect
  <2>3. e(c) \in Effect /\ e(c).builder = effect[c].builder
        /\ (e(c).started <=> effect[c].started) /\ e(c).age = Up(effect[c].age, d)
    BY <2>1, <2>2 DEF Effect
  <2> QED
    BY <2>1, <2>3, NoneAssumption
<1> HIDE DEF r, e
<1>5. /\ place'.lease = place.lease /\ place'.ledger = place.ledger
      /\ place'.res = [c \in Command |-> IF Reserved(place, c) THEN r(c) ELSE None]
      /\ place' = [res |-> place'.res, lease |-> place'.lease, ledger |-> place'.ledger]
  BY <1>2 DEF PlaceInv, Placement
<1>6. \A c \in Command :
        /\ Reserved(place', c) <=> Reserved(place, c)
        /\ Reserved(place, c) => /\ place'.res[c] = r(c)
                                 /\ place'.res[c].builder = place.res[c].builder
                                 /\ place'.res[c].state = place.res[c].state
                                 /\ place'.res[c].left = Down(place.res[c].left, d)
  <2> SUFFICES ASSUME NEW c \in Command
               PROVE  /\ Reserved(place', c) <=> Reserved(place, c)
                      /\ Reserved(place, c) =>
                           /\ place'.res[c] = r(c)
                           /\ place'.res[c].builder = place.res[c].builder
                           /\ place'.res[c].state = place.res[c].state
                           /\ place'.res[c].left = Down(place.res[c].left, d)
    OBVIOUS
  <2>1. CASE Reserved(place, c)
    <3>1. place'.res[c] = r(c)
      BY <1>5, <2>1
    <3> QED
      BY <1>3, <2>1, <3>1 DEF Reserved
  <2>2. CASE ~Reserved(place, c)
    BY <1>5, <2>2 DEF Reserved
  <2> QED
    BY <2>1, <2>2
<1>7. place' \in Placement
  <2>1. place'.res \in [Command -> Reservation \cup {None}]
    BY <1>3, <1>5
  <2> QED
    BY <1>5, <2>1 DEF PlaceInv, Placement
<1>8. PlaceInv(place)'
  <2>1. LeaseInv(place')
    <3>1. \A c \in Command : Reserved(place', c) => place'.lease[place'.res[c].builder] = c
      BY <1>5, <1>6 DEF PlaceInv, LeaseInv
    <3>2. \A b \in Builder : place'.lease[b] # None =>
            /\ place'.lease[b] \in Command
            /\ Reserved(place', place'.lease[b]) /\ place'.res[place'.lease[b]].builder = b
      BY <1>5, <1>6 DEF PlaceInv, LeaseInv, Placement
    <3> QED
      BY <3>1, <3>2 DEF LeaseInv
  <2>2. HolderInv(place') /\ LedgerInv(place')
    BY <1>5, <1>6 DEF PlaceInv, HolderInv, LedgerInv
  <2> QED
    BY <1>7, <2>1, <2>2 DEF PlaceInv, LeaseInv, HolderInv, LedgerInv, Reserved
<1>9. /\ Accepted' = Accepted
      /\ \A c \in Accepted : effect'[c] = e(c)
      /\ \A c \in Command \ Accepted : effect'[c] = None
      /\ effect' \in [Command -> Effect \cup {None}]
  <2>1. \A c \in Command : effect[c] # None <=> c \in Accepted
    BY DEF Accepted
  <2>2. \A c \in Accepted : effect'[c] = e(c) /\ e(c) \in Effect /\ e(c) # None
    BY <1>2, <1>4, <2>1
  <2>3. \A c \in Command \ Accepted : effect'[c] = None
    BY <1>2, <2>1
  <2>4. effect' \in [Command -> Effect \cup {None}]
    BY <1>2, <1>4, <2>1
  <2>5. Accepted \subseteq Command
    BY DEF Accepted
  <2> QED
    BY <2>2, <2>3, <2>4, <2>5 DEF Accepted
<1>10. TypeOK'
  BY <1>1, <1>7, <1>9 DEF TypeOK
<1>11. QueueInv'
  <2>1. \A c \in Command : effect[c] = None => effect'[c] = None
    BY <1>2
  <2>2. /\ \A i \in DOMAIN queue : queue[i] \in Command
        /\ sent # None => sent.cmd \in Command
    BY DEF TypeOK, Primitive
  <2>3. /\ \A i \in DOMAIN queue : effect'[queue[i]] = None
        /\ sent # None => effect'[sent.cmd] = None
    BY <2>1, <2>2 DEF QueueInv
  <2> QED
    BY <1>1, <1>9, <2>3 DEF QueueInv
<1>12. InFlightOwnsPlace'
  <2>1. \A c \in Accepted : Reserved(place', c) /\ place'.lease[effect'[c].builder] = c
    BY <1>4, <1>5, <1>6, <1>9 DEF InFlightOwnsPlace
  <2>2. sent # None => Reserved(place', sent.cmd) /\ place'.lease[sent.builder] = sent.cmd
    BY <1>1, <1>5, <1>6 DEF InFlightOwnsPlace, TypeOK, Primitive
  <2> QED
    BY <1>1, <1>9, <2>1, <2>2 DEF InFlightOwnsPlace, Reserved
<1>13. TimeInv'
  <2>1. ASSUME sent # None PROVE place'.res[sent.cmd].left >= Base
    <3>1. sent.cmd \in Command /\ Reserved(place, sent.cmd) /\ place.res[sent.cmd].left = Lifetime
      BY <1>1, <2>1 DEF TimeInv, InFlightOwnsPlace, TypeOK, Primitive
    <3>2. place'.res[sent.cmd].left = Down(Lifetime, d)
      BY <1>6, <3>1
    <3> QED
      BY <1>1, <3>2, Times DEF Down
  <2>2. ASSUME NEW c \in Accepted
        PROVE  \/ effect'[c].age + place'.res[c].left >=
                    IF effect'[c].started THEN Lifetime ELSE Base
               \/ effect'[c].age = Hard
    <3>1. /\ effect'[c].age = Up(effect[c].age, d)
          /\ (effect'[c].started <=> effect[c].started)
          /\ place'.res[c].left = Down(place.res[c].left, d)
      BY <1>4, <1>6, <1>9 DEF InFlightOwnsPlace
    <3>2. effect[c].age \in Nat /\ place.res[c].left \in Nat
      <4>1. c \in Command /\ place.res[c] \in Reservation
        BY <1>4 DEF PlaceInv, Placement, InFlightOwnsPlace, Reserved
      <4> QED
        BY <1>4, <4>1, Times DEF Effect, Reservation
    <3>3. \/ effect[c].age + place.res[c].left >= IF effect[c].started THEN Lifetime ELSE Base
          \/ effect[c].age = Hard
      BY DEF TimeInv
    <3>4. Up(effect[c].age, d) = Hard \/ Up(effect[c].age, d) = effect[c].age + d
      BY DEF Up
    <3>5. effect[c].age + d >= Hard => Up(effect[c].age, d) = Hard
      BY <1>1, <3>2, Times DEF Up
    <3>6. \/ Down(place.res[c].left, d) = place.res[c].left - d
          \/ place.res[c].left <= d /\ Down(place.res[c].left, d) = 0
      BY <1>1, <3>2 DEF Down
    <3> QED
      BY <1>1, <3>1, <3>2, <3>3, <3>4, <3>5, <3>6, Times
  <2> QED
    BY <1>1, <1>9, <2>1, <2>2 DEF TimeInv
<1> QED
  BY <1>8, <1>10, <1>11, <1>12, <1>13

LEMMA EndStep == IInv /\ EndEpisode => IInv'
<1> SUFFICES ASSUME IInv, EndEpisode PROVE IInv'
  OBVIOUS
<1> USE DEF IInv
<1>1. /\ phase' = "ended" /\ place' = Release(place, Accepted)
      /\ effect' = [c \in Command |-> None]
      /\ UNCHANGED <<queue, seen, trace, sent, stale, barred>>
  BY DEF EndEpisode
<1>2. Accepted \in SUBSET Command /\ Accepted' = {}
  BY <1>1 DEF Accepted
<1>3. PlaceInv(place')
  BY <1>1, <1>2, ReleaseLemma
<1>4. report' \in [Command -> Report \cup {NoReport}]
  <2>1. /\ [status |-> "unconfirmed", stage |-> "episode_end"] \in Report
        /\ [status |-> "cancelled", stage |-> "episode_end"] \in Report
    BY DEF Report
  <2> QED
    BY <2>1 DEF EndEpisode, TypeOK
<1>5. TypeOK'
  BY <1>1, <1>3, <1>4 DEF TypeOK, PlaceInv
<1>6. PlaceInv(place)'
  BY <1>3 DEF PlaceInv, LeaseInv, HolderInv, LedgerInv, Reserved
<1>7. QueueInv'
  <2>1. \A c \in Command : effect'[c] = None
    BY <1>1
  <2>2. /\ \A i \in DOMAIN queue : queue[i] \in Command
        /\ sent # None => sent.cmd \in Command
    BY DEF TypeOK, Primitive
  <2> QED
    BY <1>1, <1>2, <2>1, <2>2 DEF QueueInv
<1>8. InFlightOwnsPlace' /\ TimeInv'
  BY <1>1, <1>2 DEF InFlightOwnsPlace, TimeInv
<1> QED
  BY <1>5, <1>6, <1>7, <1>8

LEMMA InvStep == IInv /\ [Next]_vars => IInv'
<1> SUFFICES ASSUME IInv, [Next]_vars PROVE IInv'
  OBVIOUS
<1>1. CASE UNCHANGED vars
  BY <1>1 DEF vars, IInv, TypeOK, PlaceInv, LeaseInv, HolderInv, LedgerInv, Reserved,
              QueueInv, InFlightOwnsPlace, TimeInv, Accepted
<1>2. CASE Next
  BY <1>2, SettleStep, EffectsStep, DecideStep, DispatchStep, TimeStep, EndStep
     DEF Next, WorkerStep
<1> QED
  BY <1>1, <1>2

LEMMA Invariance == Spec => []IInv
  BY InvInit, InvStep, PTL DEF Spec
-----------------------------------------------------------------------------
(* The variables of the worker keep their types: no renewal gives a        *)
(* reservation more than its lifetime.                                     *)
THEOREM TypeCorrect == Spec => []TypeOK
<1>1. IInv => TypeOK
  BY DEF IInv
<1> QED
  BY <1>1, Invariance, PTL

(* Leases and reservations tell the same, whatever replaces, renews,       *)
(* expires, confirms or quarantines reservations in between.               *)
THEOREM LeasesFollow == Spec => []LeaseFollowsReservation
<1>1. IInv => LeaseFollowsReservation
  BY DEF IInv, PlaceInv, LeaseInv, LeaseFollowsReservation
<1> QED
  BY <1>1, Invariance, PTL

(* No two commands hold the same ground.                                   *)
THEOREM OneHolder == Spec => []OneHolderPerTarget
<1>1. IInv => OneHolderPerTarget
  BY DEF IInv, PlaceInv, HolderInv, OneHolderPerTarget
<1> QED
  BY <1>1, Invariance, PTL

(* A build in flight never loses its ground or its builder to an expiry,   *)
(* a rejection or another command, if no step is longer than the hard      *)
(* timeout and its grace exceed the base timeout (TimingAssumption).       *)
THEOREM InFlightIsSafe == Spec => []InFlightOwnsPlace
<1>1. IInv => InFlightOwnsPlace
  BY DEF IInv
<1> QED
  BY <1>1, Invariance, PTL

(* The published transitions of a command are an unbroken chain that ends  *)
(* in the state of its reservation.                                        *)
THEOREM LedgerIsTrue == Spec => []LedgerTellsReservations
<1>1. IInv => LedgerTellsReservations
  BY DEF IInv, PlaceInv, LedgerInv, LedgerTellsReservations
<1> QED
  BY <1>1, Invariance, PTL
=============================================================================
