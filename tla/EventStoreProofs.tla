--------------------------- MODULE EventStoreProofs ---------------------------
(***************************************************************************)
(* Proofs about EventStore.  CallerInv says that a caller that waits has   *)
(* one item on the way, so the writer wakes nobody else; PlacementInv that *)
(* a known transition has a payload; OrderInv that what an item owes its   *)
(* caller, or a checkpoint its reader, is never behind it in the queue.    *)
(* IdInv says that event IDs grow along the table and along what is on the *)
(* way to it: an ID tells a restart which rows the mirror lacks, and       *)
(* MirrorInv what the mirror lacks at each step of the writer.             *)
(***************************************************************************)
EXTENDS EventStore, SequenceTheorems, TLAPS

(* Where the writer is says what it holds.                                 *)
WriterInv == /\ writer = "get" => Len(batch) < BatchSize
             /\ writer = "mirrorPlacement" => held.kind = "placement"

(* A caller that waits has one item on the way, of what it waits for.      *)
Waits(item) == item.kind \in {"flush", "placement"} /\ item.caller # None

CallerInv ==
  /\ \A k \in DOMAIN queue : Waits(queue[k]) => calling[queue[k].caller].op = queue[k].kind
  /\ held # None /\ Waits(held) => calling[held.caller].op = held.kind
  /\ \A k, l \in DOMAIN queue :
       Waits(queue[k]) /\ Waits(queue[l]) /\ queue[l].caller = queue[k].caller => k = l
  /\ \A k \in DOMAIN queue :
       held # None /\ Waits(held) /\ Waits(queue[k]) => held.caller # queue[k].caller

(* The initial state.                                                      *)
LEMMA TypeInit == Init => TypeOK /\ WriterInv
<1> SUFFICES ASSUME Init PROVE TypeOK /\ WriterInv
  OBVIOUS
<1>1. calling \in [Caller -> {Idle}]
  BY DEF Init
<1>2. unended \in SUBSET Nat /\ half \in BOOLEAN
  BY DEF Init
<1> QED
  BY <1>1, <1>2, SizeAssumption DEF Init, TypeOK, WriterInv

(* The parts of items.                                                     *)
LEMMA ItemParts ==
  ASSUME NEW item \in Item
  PROVE  /\ item # None
         /\ item.kind \in {"event", "placement", "snapshot", "flush"}
         /\ item.kind = "event" => item.row \in EventRow
         /\ item.kind = "placement" => /\ item.row \in PlacementRow /\ item.payload \in Payload
                                       /\ item.caller \in Caller \cup {None}
         /\ item.kind = "snapshot" => item.snapshot \in Boundary
         /\ item.kind = "flush" => item.caller \in Caller \cup {None}
BY NoneAssumption DEF Item

(* An abandoned item is an item of the same kind.                          *)
LEMMA AbandonedType ==
  ASSUME NEW item \in Item, NEW c
  PROVE  /\ Abandoned(item, c) \in Item
         /\ Abandoned(item, c).kind = item.kind
         /\ item.kind = "event" => Abandoned(item, c) = item
<1>1. CASE item.kind = "flush"
  BY <1>1, NoneAssumption DEF Item, Abandoned
<1>2. CASE item.kind = "placement"
  BY <1>2, NoneAssumption DEF Item, Abandoned
<1>3. CASE item.kind \in {"event", "snapshot"}
  BY <1>3 DEF Item, Abandoned
<1> QED
  BY <1>1, <1>2, <1>3, ItemParts

(* Events on the way are event numbers.                                    *)
LEMMA UnwrittenType == TypeOK => Unwritten \in SUBSET Nat
<1> SUFFICES ASSUME TypeOK PROVE Unwritten \in SUBSET Nat
  OBVIOUS
<1>1. Events(batch) \in SUBSET Nat
  <2>1. \A i \in DOMAIN batch : batch[i] \in EventRow
    BY DEF TypeOK
  <2>2. \A i \in DOMAIN batch : batch[i].event \in Nat
    BY <2>1 DEF EventRow
  <2> QED
    BY <2>2 DEF Events
<1>2. \A i \in DOMAIN queue : queue[i] \in Item
  BY DEF TypeOK
<1>3. \A i \in DOMAIN queue : queue[i].kind = "event" => queue[i].row.event \in Nat
  BY <1>2, ItemParts DEF EventRow
<1> QED
  BY <1>1, <1>3 DEF Unwritten

(* Types and parts of sequences.                                           *)
LEMMA AppendType ==
  ASSUME NEW S, NEW q \in Seq(S), NEW x \in S
  PROVE  Append(q, x) \in Seq(S) /\ Len(Append(q, x)) = Len(q) + 1
OBVIOUS

LEMMA TailType ==
  ASSUME NEW S, NEW q \in Seq(S), q # <<>>
  PROVE  Head(q) \in S /\ Tail(q) \in Seq(S) /\ Len(Tail(q)) = Len(q) - 1
OBVIOUS

(* What a writer that stops leaves behind its last row.                    *)
LEMMA CutTypes ==
  ASSUME TypeOK, journal \in Seq(EventRow \cup PlacementRow), NEW cut \in Cuts
  PROVE  UnendedBy(cut) \in SUBSET Nat /\ HalfBy(cut) \in BOOLEAN
<1>1. Len(Pending) \in Nat /\ Len(journal) \in Nat
  BY DEF Pending, TypeOK
<1>2. cut.rows \in Nat
  BY <1>1 DEF Cuts
<1>3. UnendedBy(cut) \in SUBSET Nat
  <2>1. Len(journal) + cut.rows \in Nat /\ unended \in SUBSET Nat
    BY <1>1, <1>2 DEF TypeOK
  <2> QED
    BY <2>1 DEF UnendedBy
<1>4. HalfBy(cut) \in BOOLEAN
  BY DEF HalfBy, TypeOK
<1> QED
  BY <1>3, <1>4

(* Every step keeps the types.                                             *)
LEMMA TypeStep ==
  ASSUME TypeOK, WriterInv, CallerInv, journal \in Seq(EventRow \cup PlacementRow), [Next]_vars
  PROVE  TypeOK' /\ WriterInv'
<1> USE SizeAssumption, NoneAssumption
    DEF TypeOK, WriterInv, callerVars, writerVars, mirrorVars, durableVars, historyVars, vars
<1>1. ASSUME NEW c \in Caller, AppendEvent(c) PROVE TypeOK' /\ WriterInv'
  <2>1. EventItem(Row(nextId, appended + 1, None)) \in Item
    BY DEF EventItem, Row, Item, EventRow
  <2>2. queue' \in Seq(Item) /\ Len(queue') = Len(queue) + 1 /\ Len(queue) < QueueSize
    BY <1>1, <2>1, AppendType DEF AppendEvent, CanEnqueue
  <2> QED
    BY <1>1, <2>2 DEF AppendEvent
<1>2. ASSUME NEW c \in Caller, RecordSnapshot(c) PROVE TypeOK' /\ WriterInv'
  <2>1. SnapshotItem([through |-> nextId - 1, covers |-> appended, owed |-> Unwritten]) \in Item
    BY UnwrittenType DEF SnapshotItem, Item, Boundary
  <2>2. queue' \in Seq(Item) /\ Len(queue') = Len(queue) + 1 /\ Len(queue) < QueueSize
    BY <1>2, <2>1, AppendType DEF RecordSnapshot, CanEnqueue
  <2> QED
    BY <1>2, <2>2 DEF RecordSnapshot
<1>3. ASSUME NEW c \in Caller, Flush(c) PROVE TypeOK' /\ WriterInv'
  <2>1. FlushItem(c) \in Item
    BY DEF FlushItem, Item
  <2>2. queue' \in Seq(Item) /\ Len(queue') = Len(queue) + 1 /\ Len(queue) < QueueSize
    BY <1>3, <2>1, AppendType DEF Flush, CanEnqueue
  <2>3. [op |-> "flush", owed |-> Unwritten] \in [op : {"flush"}, owed : SUBSET Nat]
    BY UnwrittenType
  <2> QED
    BY <1>3, <2>2, <2>3 DEF Flush
<1>4. ASSUME NEW c \in Caller, QueueTimeout(c) PROVE TypeOK' /\ WriterInv'
  BY <1>4 DEF QueueTimeout
<1>5. ASSUME NEW c \in Caller, GiveUp(c) PROVE TypeOK' /\ WriterInv'
  <2>1. \A i \in DOMAIN queue : Abandoned(queue[i], c) \in Item
    BY AbandonedType
  <2>2. queue' \in Seq(Item) /\ Len(queue') = Len(queue)
    <3>1. queue' = [i \in 1 .. Len(queue) |-> Abandoned(queue[i], c)] /\ Len(queue) \in Nat
      BY <1>5 DEF GiveUp
    <3> QED
      BY <2>1, <3>1
  <2>3. /\ held' \in Item \cup {None} /\ (held' = None <=> held = None)
        /\ held # None => held'.kind = held.kind
    BY <1>5, AbandonedType, ItemParts DEF GiveUp, Abandoned
  <2> QED
    BY <1>5, <2>2, <2>3 DEF GiveUp
<1>6. ASSUME NEW c \in Caller, NEW t \in Transition, NEW p \in Payload, AppendPlacement(c, t, p)
      PROVE  TypeOK' /\ WriterInv'
  BY <1>6 DEF AppendPlacement, CanEnqueue, PlacementItem, Row, Item, PlacementRow
<1>7. CASE Take
  <2>1. /\ Head(queue) \in Item /\ queue' \in Seq(Item) /\ Len(queue') <= QueueSize
    BY <1>7, TailType DEF Take
  <2>2. CASE Head(queue).kind = "event"
    <3>1. Head(queue).row \in EventRow
      BY <2>1, <2>2, ItemParts
    <3>2. batch' = Append(batch, Head(queue).row)
          /\ writer' = (IF Len(batch') >= BatchSize THEN "commit" ELSE "get")
          /\ writer = "get" /\ held' = held
      BY <1>7, <2>2 DEF Take
    <3>3. batch' \in Seq(EventRow) /\ Len(batch') = Len(batch) + 1
      BY <3>1, <3>2, AppendType
    <3> QED
      BY <1>7, <2>1, <3>2, <3>3 DEF Take
  <2>3. CASE Head(queue).kind # "event"
    BY <1>7, <2>1, <2>3, ItemParts DEF Take, AfterTaking
  <2> QED
    BY <2>2, <2>3
<1>8. CASE FlushInterval
  BY <1>8 DEF FlushInterval
<1>9. CASE CommitBatch
  BY <1>9 DEF CommitBatch
<1>10. CASE MirrorBatch
  BY <1>10 DEF MirrorBatch
<1>11. CASE ReachBarrier
  <2>1. held \in Item /\ held.kind = "flush" /\ held.caller \in Caller \cup {None}
    BY <1>11, ItemParts DEF ReachBarrier
  <2>2. promised' \in SUBSET Nat
    <3>1. CASE held.caller = None
      BY <1>11, <3>1 DEF ReachBarrier
    <3>2. CASE held.caller # None
      <4>1. calling[held.caller].op = "flush" /\ held.caller \in Caller
        BY <1>11, <2>1, <3>2, ItemParts DEF CallerInv, Waits
      <4>2. calling[held.caller].owed \in SUBSET Nat
        <5>1. calling[held.caller] \in {Idle, [op |-> "placement"]}
                                          \cup [op : {"flush"}, owed : SUBSET Nat]
          BY <4>1
        <5> QED
          BY <4>1, <5>1 DEF Idle
      <4> QED
        BY <1>11, <3>2, <4>2 DEF ReachBarrier
    <3> QED
      BY <3>1, <3>2
  <2>3. calling' \in [Caller -> {Idle, [op |-> "placement"]}
                               \cup [op : {"flush"}, owed : SUBSET Nat]]
    BY <1>11, <2>1 DEF ReachBarrier
  <2> QED
    BY <1>11, <2>2, <2>3 DEF ReachBarrier
<1>12. CASE WriteSnapshot
  BY <1>12 DEF WriteSnapshot, Item
<1>13. CASE AnswerRetry
  BY <1>13 DEF AnswerRetry, Answer, Item, PlacementRow
<1>14. CASE CommitPlacement
  BY <1>14 DEF CommitPlacement, Item, PlacementRow
<1>15. CASE MirrorPlacement
  <2>1. /\ held \in Item /\ held.kind = "placement"
        /\ held.caller \in Caller \cup {None}
        /\ held.row.transition \in Transition /\ held.payload \in Payload
    BY <1>15, ItemParts DEF MirrorPlacement, PlacementRow
  <2>2. told' \in SUBSET [transition : Transition, payload : Payload,
                          answer : {"recorded", "already_recorded", "conflict"}]
    BY <1>15, <2>1 DEF MirrorPlacement, Answer
  <2>3. calling' \in [Caller -> {Idle, [op |-> "placement"]}
                               \cup [op : {"flush"}, owed : SUBSET Nat]]
    BY <1>15, <2>1 DEF MirrorPlacement, Answer
  <2> QED
    BY <1>15, <2>2, <2>3 DEF MirrorPlacement
<1>16. CASE WriterFails
  <2>1. unended' \in SUBSET Nat /\ half' \in BOOLEAN
    BY <1>16, CutTypes DEF WriterFails
  <2>2. calling' \in [Caller -> {Idle, [op |-> "placement"]}
                               \cup [op : {"flush"}, owed : SUBSET Nat]]
    <3>1. [op |-> "flush", owed |-> {}] \in [op : {"flush"}, owed : SUBSET Nat]
      OBVIOUS
    <3> QED
      BY <1>16, <3>1 DEF WriterFails
  <2> QED
    BY <1>16, <2>1, <2>2 DEF WriterFails
<1>17. CASE Restart
  <2>1. LastId(table) \in Nat
    BY DEF LastId, EventRow, PlacementRow
  <2>2. nextId' \in Nat \ {0}
    BY <1>17, <2>1 DEF Restart, FirstId
  <2>3. unended' \in SUBSET Nat /\ half' \in BOOLEAN
    BY <1>17, CutTypes DEF Restart, StillUnended
  <2> QED
    BY <1>17, <2>2, <2>3 DEF Restart
<1>18. CASE UNCHANGED vars
  BY <1>18
<1> QED
  BY <1>1, <1>2, <1>3, <1>4, <1>5, <1>6, <1>7, <1>8, <1>9, <1>10, <1>11, <1>12, <1>13, <1>14,
     <1>15, <1>16, <1>17, <1>18 DEF Next, Writer

(* A new item at the end of the queue.                                     *)
LEMMA CallerAppend ==
  ASSUME TypeOK, CallerInv, NEW item \in Item,
         queue' = Append(queue, item), held' = held,
         \/ ~Waits(item) /\ calling' = calling
         \/ /\ Waits(item) /\ calling[item.caller] = Idle
            /\ \E w : /\ calling' = [calling EXCEPT ![item.caller] = w]
                     /\ w.op = item.kind
  PROVE  CallerInv'
<1>1. /\ Len(queue) \in Nat /\ DOMAIN queue = 1 .. Len(queue)
      /\ DOMAIN queue' = 1 .. Len(queue) + 1
      /\ \A k \in DOMAIN queue : queue'[k] = queue[k] /\ queue[k] \in Item
      /\ queue'[Len(queue) + 1] = item
  BY DEF TypeOK
<1>2. \A k \in DOMAIN queue : Waits(queue[k]) => calling[queue[k].caller].op # "none"
  BY <1>1, ItemParts DEF CallerInv, Waits
<1>3. held # None /\ Waits(held) => calling[held.caller].op # "none"
  BY DEF CallerInv, Waits
<1>4. CASE ~Waits(item) /\ calling' = calling
  BY <1>1, <1>4 DEF CallerInv
<1>5. CASE Waits(item) /\ calling[item.caller] = Idle
  <2> PICK w : calling' = [calling EXCEPT ![item.caller] = w] /\ w.op = item.kind
    BY <1>5
  <2>1. item.caller \in Caller
    BY <1>5, ItemParts DEF Waits
  <2>2. /\ \A k \in DOMAIN queue : Waits(queue[k]) => queue[k].caller # item.caller
        /\ held # None /\ Waits(held) => held.caller # item.caller
    BY <1>2, <1>3, <1>5 DEF Idle
  <2>3. /\ calling'[item.caller].op = item.kind
        /\ \A d \in Caller : d # item.caller => calling'[d] = calling[d]
    BY <2>1 DEF TypeOK
  <2>4. /\ \A k \in DOMAIN queue : Waits(queue[k]) => queue[k].caller \in Caller
        /\ held # None /\ Waits(held) => held.caller \in Caller
    BY <1>1, ItemParts DEF Waits, TypeOK
  <2> HIDE DEF Waits
  <2>5. \A k \in DOMAIN queue' : Waits(queue'[k]) => calling'[queue'[k].caller].op = queue'[k].kind
    BY <1>1, <2>2, <2>3, <2>4 DEF CallerInv
  <2>6. held' # None /\ Waits(held') => calling'[held'.caller].op = held'.kind
    BY <2>2, <2>3, <2>4 DEF CallerInv
  <2>7. \A k, l \in DOMAIN queue' :
         Waits(queue'[k]) /\ Waits(queue'[l]) /\ queue'[l].caller = queue'[k].caller => k = l
    BY <1>1, <2>2 DEF CallerInv
  <2>8. \A k \in DOMAIN queue' :
         held' # None /\ Waits(held') /\ Waits(queue'[k]) => held'.caller # queue'[k].caller
    BY <1>1, <2>2 DEF CallerInv
  <2> QED
    BY <2>5, <2>6, <2>7, <2>8 DEF CallerInv, Waits
<1> QED
  BY <1>4, <1>5

(* The item in hand is done, and with it the wait of its caller.           *)
LEMMA CallerDone ==
  ASSUME TypeOK, CallerInv, held # None, held' = None, queue' = queue,
         \/ calling' = calling
         \/ /\ Waits(held) /\ calling' = [calling EXCEPT ![held.caller] = Idle]
  PROVE  CallerInv'
<1>1. \A k \in DOMAIN queue : Waits(queue[k]) => queue[k].caller \in Caller
  BY ItemParts DEF Waits, TypeOK
<1>2. Waits(held) => held.caller \in Caller
  BY ItemParts DEF Waits, TypeOK
<1>3. \A k \in DOMAIN queue : Waits(queue[k]) => calling'[queue[k].caller] = calling[queue[k].caller]
  BY <1>1, <1>2 DEF CallerInv, TypeOK
<1> QED
  BY <1>3 DEF CallerInv, Waits

(* A caller that gives up leaves an item that wakes nobody.                *)
LEMMA CallerGiveUp ==
  ASSUME TypeOK, CallerInv, NEW c \in Caller, GiveUp(c)
  PROVE  CallerInv'
<1>1. \A item \in Item : /\ Abandoned(item, c).kind = item.kind
                         /\ Waits(Abandoned(item, c)) <=> Waits(item) /\ item.caller # c
                         /\ Waits(Abandoned(item, c)) => Abandoned(item, c) = item
  <2> SUFFICES ASSUME NEW item \in Item
               PROVE  /\ Abandoned(item, c).kind = item.kind
                      /\ Waits(Abandoned(item, c)) <=> Waits(item) /\ item.caller # c
                      /\ Waits(Abandoned(item, c)) => Abandoned(item, c) = item
    OBVIOUS
  <2>1. item # None
    BY ItemParts
  <2>2. CASE item.kind \in {"flush", "placement"} /\ item.caller = c
    <3>1. Abandoned(item, c) = [item EXCEPT !.caller = None]
      BY <2>1, <2>2 DEF Abandoned
    <3>2. [item EXCEPT !.caller = None].caller = None
      BY <2>2 DEF Item
    <3> QED
      BY <2>2, <3>1, <3>2, AbandonedType DEF Waits
  <2>3. CASE ~(item.kind \in {"flush", "placement"} /\ item.caller = c)
    BY <2>3 DEF Abandoned, Waits
  <2> QED
    BY <2>2, <2>3
<1>2. \A k \in DOMAIN queue : queue[k] \in Item
  BY DEF TypeOK
<1>3. /\ DOMAIN queue' = DOMAIN queue
      /\ \A k \in DOMAIN queue : queue'[k] = Abandoned(queue[k], c)
      /\ held' = Abandoned(held, c)
      /\ calling' = [calling EXCEPT ![c] = Idle]
  BY DEF GiveUp
<1>4. held' # None => held # None /\ held \in Item
  BY <1>3, AbandonedType DEF Abandoned, TypeOK
<1>5. \A d \in Caller : d # c => calling'[d] = calling[d]
  BY <1>3 DEF TypeOK
<1>6. \A k \in DOMAIN queue' : Waits(queue'[k]) =>
         /\ queue'[k] = queue[k] /\ Waits(queue[k]) /\ queue[k].caller \in Caller \ {c}
  BY <1>1, <1>2, <1>3, ItemParts DEF Waits
<1>7. held' # None /\ Waits(held') => held' = held /\ Waits(held) /\ held.caller \in Caller \ {c}
  BY <1>1, <1>3, <1>4, ItemParts DEF Waits
<1> QED
  BY <1>3, <1>4, <1>5, <1>6, <1>7 DEF CallerInv

(* The writer takes the item that is at the head of the queue.             *)
LEMMA CallerTake ==
  ASSUME TypeOK, CallerInv, Take
  PROVE  CallerInv'
<1>1. /\ queue # <<>> /\ queue' = Tail(queue) /\ calling' = calling /\ held = None
      /\ held' = IF Head(queue).kind = "event" THEN None ELSE Head(queue)
  BY DEF Take, callerVars, TypeOK
<1>2. /\ 1 \in DOMAIN queue /\ Head(queue) = queue[1]
      /\ \A k \in DOMAIN queue' : k + 1 \in DOMAIN queue /\ k + 1 # 1 /\ queue'[k] = queue[k + 1]
      /\ \A k, l \in DOMAIN queue' : k + 1 = l + 1 => k = l
  BY <1>1 DEF TypeOK
<1> QED
  BY <1>1, <1>2 DEF CallerInv

(* Every step keeps one item on the way for each caller that waits.        *)
LEMMA CallerStep ==
  ASSUME TypeOK, WriterInv, CallerInv, [Next]_vars
  PROVE  CallerInv'
<1> USE DEF callerVars, writerVars, mirrorVars, durableVars, historyVars, vars
<1>1. ASSUME NEW c \in Caller, AppendEvent(c) PROVE CallerInv'
  <2>1. EventItem(Row(nextId, appended + 1, None)) \in Item
    BY DEF EventItem, Row, Item, EventRow, TypeOK
  <2> QED
    BY <1>1, <2>1, CallerAppend DEF AppendEvent, Waits, EventItem
<1>2. ASSUME NEW c \in Caller, RecordSnapshot(c) PROVE CallerInv'
  <2>1. SnapshotItem([through |-> nextId - 1, covers |-> appended, owed |-> Unwritten]) \in Item
    BY UnwrittenType DEF SnapshotItem, Item, Boundary, TypeOK
  <2> QED
    BY <1>2, <2>1, CallerAppend DEF RecordSnapshot, Waits, SnapshotItem
<1>3. ASSUME NEW c \in Caller, Flush(c) PROVE CallerInv'
  <2>1. FlushItem(c) \in Item /\ Waits(FlushItem(c))
    BY NoneAssumption DEF FlushItem, Item, Waits
  <2>2. FlushItem(c).caller = c /\ FlushItem(c).kind = "flush" /\ calling[c] = Idle
    BY <1>3 DEF FlushItem, Flush, CanEnqueue
  <2>3. \E w : calling' = [calling EXCEPT ![c] = w] /\ w.op = "flush"
    <3> WITNESS [op |-> "flush", owed |-> Unwritten]
    <3> QED
      BY <1>3 DEF Flush
  <2>4. queue' = Append(queue, FlushItem(c)) /\ held' = held
    BY <1>3 DEF Flush
  <2> HIDE DEF FlushItem
  <2> QED
    BY <2>1, <2>2, <2>3, <2>4, CallerAppend
<1>4. ASSUME NEW c \in Caller, GiveUp(c) PROVE CallerInv'
  BY <1>4, CallerGiveUp
<1>5. CASE Take
  BY <1>5, CallerTake
<1>6. ASSUME NEW c \in Caller, NEW t \in Transition, NEW p \in Payload, AppendPlacement(c, t, p)
      PROVE  CallerInv'
  <2> DEFINE item == PlacementItem(Row(nextId, appended + 1, t), p, c)
  <2>1. item \in Item /\ Waits(item)
    BY NoneAssumption DEF PlacementItem, Row, Item, PlacementRow, Waits, TypeOK
  <2>2. item.caller = c /\ item.kind = "placement" /\ calling[c] = Idle
    BY <1>6 DEF PlacementItem, AppendPlacement, CanEnqueue
  <2>3. \E w : calling' = [calling EXCEPT ![c] = w] /\ w.op = "placement"
    <3> WITNESS [op |-> "placement"]
    <3> QED
      BY <1>6 DEF AppendPlacement
  <2>4. queue' = Append(queue, item) /\ held' = held
    BY <1>6 DEF AppendPlacement
  <2> HIDE DEF item
  <2> QED
    BY <2>1, <2>2, <2>3, <2>4, CallerAppend
<1>7. CASE UNCHANGED <<queue, held, calling>>
  BY <1>7 DEF CallerInv
<1>8. CASE WriterFails \/ Restart
  BY <1>8 DEF WriterFails, Restart, CallerInv
<1>11. CASE ReachBarrier \/ WriteSnapshot
  BY <1>11, CallerDone DEF ReachBarrier, WriteSnapshot, Waits, TypeOK
<1>13. CASE AnswerRetry \/ MirrorPlacement
  <2>1. held.kind = "placement" /\ held # None /\ held' = None /\ queue' = queue
    BY <1>13 DEF AnswerRetry, MirrorPlacement, TypeOK, WriterInv
  <2>2. \/ calling' = calling
        \/ held.caller # None /\ calling' = [calling EXCEPT ![held.caller] = Idle]
    BY <1>13 DEF AnswerRetry, MirrorPlacement, Answer
  <2> QED
    BY <2>1, <2>2, CallerDone DEF Waits
<1>14. CASE FlushInterval \/ CommitBatch \/ MirrorBatch \/ CommitPlacement \/ UNCHANGED vars
  BY <1>7, <1>14 DEF FlushInterval, CommitBatch, MirrorBatch, CommitPlacement
<1>15. ASSUME NEW c \in Caller, QueueTimeout(c) PROVE CallerInv'
  BY <1>7, <1>15 DEF QueueTimeout
<1> QED
  BY <1>1, <1>2, <1>3, <1>4, <1>5, <1>6, <1>8, <1>11, <1>13, <1>14, <1>15 DEF Next, Writer
-----------------------------------------------------------------------------
(* A transition is known as soon as it has a row or an answer.             *)
PlacementInv ==
  /\ \A i \in DOMAIN table : table[i].transition # None => placed[table[i].transition] # None
  /\ \A a \in told : placed[a.transition] # None
  /\ writer = "mirrorPlacement" => placed[held.row.transition] = held.payload

(* Only the row of a placement has a transition.                           *)
LEMMA RowTransition ==
  ASSUME TypeOK
  PROVE  /\ \A i \in DOMAIN table : table[i].transition \in Transition \cup {None}
         /\ \A i \in DOMAIN batch : batch[i].transition = None
<1>1. /\ \A i \in DOMAIN table : table[i] \in EventRow \cup PlacementRow
      /\ \A i \in DOMAIN batch : batch[i] \in EventRow
  BY DEF TypeOK
<1>2. \A r \in EventRow : r.transition = None
  BY DEF EventRow
<1>3. \A r \in PlacementRow : r.transition \in Transition
  BY DEF PlacementRow
<1> QED
  BY <1>1, <1>2, <1>3

LEMMA ConcatParts ==
  ASSUME NEW S, NEW q \in Seq(S), NEW r \in Seq(S)
  PROVE  \A i \in DOMAIN (q \o r) :
           \/ i \in DOMAIN q /\ (q \o r)[i] = q[i]
           \/ i - Len(q) \in DOMAIN r /\ (q \o r)[i] = r[i - Len(q)]
OBVIOUS

LEMMA AppendParts ==
  ASSUME NEW S, NEW q \in Seq(S), NEW x
  PROVE  \A i \in DOMAIN Append(q, x) :
           \/ i \in DOMAIN q /\ Append(q, x)[i] = q[i]
           \/ i = Len(q) + 1 /\ Append(q, x)[i] = x
OBVIOUS

(* Every step keeps the retry identities and what was told of them.        *)
LEMMA PlacementStep ==
  ASSUME TypeOK, WriterInv, PlacementInv, PlacementAnswersHold, [Next]_vars
  PROVE  PlacementInv' /\ PlacementAnswersHold'
<1> USE NoneAssumption
    DEF callerVars, writerVars, mirrorVars, durableVars, historyVars, vars
<1>1. CASE UNCHANGED <<table, placed, told>> /\ (writer' = "mirrorPlacement" =>
             writer = "mirrorPlacement" /\ held'.row = held.row /\ held'.payload = held.payload)
  BY <1>1 DEF PlacementInv, PlacementAnswersHold
<1>2. ASSUME NEW c \in Caller, GiveUp(c) PROVE PlacementInv' /\ PlacementAnswersHold'
  <2>1. writer = "mirrorPlacement" => held'.row = held.row /\ held'.payload = held.payload
    BY <1>2, ItemParts DEF GiveUp, Abandoned, TypeOK, WriterInv, Item
  <2> QED
    BY <1>1, <1>2, <2>1 DEF GiveUp
<1>3. ASSUME NEW c \in Caller,
             \/ AppendEvent(c) \/ RecordSnapshot(c) \/ Flush(c) \/ QueueTimeout(c)
             \/ \E t \in Transition, p \in Payload : AppendPlacement(c, t, p)
      PROVE  PlacementInv' /\ PlacementAnswersHold'
  BY <1>1, <1>3 DEF AppendEvent, RecordSnapshot, Flush, QueueTimeout, AppendPlacement
<1>4. CASE \/ Take \/ FlushInterval \/ MirrorBatch \/ ReachBarrier \/ WriteSnapshot
           \/ WriterFails \/ Restart \/ UNCHANGED vars
  BY <1>1, <1>4 DEF Take, AfterTaking, FlushInterval, MirrorBatch, ReachBarrier, WriteSnapshot,
                    WriterFails, Restart
<1>5. CASE CommitBatch
  <2>1. /\ table' = table \o batch /\ writer' = "mirror" /\ placed' = placed /\ told' = told
    BY <1>5 DEF CommitBatch
  <2>2. \A i \in DOMAIN table' : \/ i \in DOMAIN table /\ table'[i] = table[i]
                                 \/ table'[i].transition = None
    <3>1. batch \in Seq(EventRow \cup PlacementRow) /\ table \in Seq(EventRow \cup PlacementRow)
      BY DEF TypeOK
    <3>2. \A i \in DOMAIN (table \o batch) :
            \/ i \in DOMAIN table /\ (table \o batch)[i] = table[i]
            \/ i - Len(table) \in DOMAIN batch /\ (table \o batch)[i] = batch[i - Len(table)]
      BY <3>1, ConcatParts
    <3> QED
      BY <2>1, <3>2, RowTransition
  <2> QED
    BY <2>1, <2>2 DEF PlacementInv, PlacementAnswersHold
<1>6. CASE CommitPlacement
  <2> DEFINE t == held.row.transition
  <2>1. t \in Transition /\ held.payload \in Payload
    BY <1>6, ItemParts DEF CommitPlacement, TypeOK, PlacementRow
  <2>2. /\ placed[t] = None /\ placed' = [placed EXCEPT ![t] = held.payload]
        /\ table' = Append(table, held.row) /\ told' = told /\ held' = held
    BY <1>6 DEF CommitPlacement, Unknown
  <2>3. \A i \in DOMAIN table : table[i].transition # t
    BY <2>1, <2>2 DEF PlacementInv
  <2>4. \A a \in told : a.transition # t /\ a.transition \in Transition
    BY <2>2 DEF PlacementInv, TypeOK
  <2>5. /\ placed'[t] = held.payload /\ held.payload # None
        /\ \A u \in Transition : u # t => placed'[u] = placed[u]
    BY <2>1, <2>2 DEF TypeOK
  <2>6. \A i \in DOMAIN table' : \/ i \in DOMAIN table /\ table'[i] = table[i]
                                 \/ i = Len(table) + 1 /\ table'[i] = held.row
    <3>1. table \in Seq(EventRow \cup PlacementRow)
      BY DEF TypeOK
    <3>2. \A i \in DOMAIN Append(table, held.row) :
            \/ i \in DOMAIN table /\ Append(table, held.row)[i] = table[i]
            \/ i = Len(table) + 1 /\ Append(table, held.row)[i] = held.row
      BY <3>1, AppendParts
    <3>3. table' = Append(table, held.row)
      BY <2>2
    <3> QED
      BY <3>2, <3>3
  <2>7. \A i \in DOMAIN table : i # Len(table) + 1
    BY DEF TypeOK
  <2>8. \A i \in DOMAIN table : table[i].transition \in Transition \cup {None}
    BY RowTransition
  <2>9. PlacementInv'
    BY <2>1, <2>2, <2>4, <2>5, <2>6, <2>8 DEF PlacementInv
  <2>10. PlacementAnswersHold'
    BY <2>2, <2>3, <2>4, <2>5, <2>6, <2>7 DEF PlacementAnswersHold
  <2> QED
    BY <2>9, <2>10
<1>7. CASE AnswerRetry \/ MirrorPlacement
  <2> DEFINE t == held.row.transition
  <2>1. /\ t \in Transition /\ held.payload \in Payload
    BY <1>7, ItemParts DEF AnswerRetry, MirrorPlacement, TypeOK, WriterInv, PlacementRow
  <2>2. /\ table' = table /\ placed' = placed /\ writer' = "get"
    BY <1>7 DEF AnswerRetry, MirrorPlacement
  <2>3. /\ placed[t] # None
        /\ \A a \in told' : \/ a \in told
                            \/ /\ a.transition = t /\ a.payload = held.payload
                               /\ a.answer = "conflict" <=> placed[t] # held.payload
    BY <1>7, <2>1 DEF AnswerRetry, MirrorPlacement, Answer, Unknown, PlacementInv
  <2> QED
    BY <2>2, <2>3 DEF PlacementInv, PlacementAnswersHold
<1> QED
  BY <1>2, <1>3, <1>4, <1>5, <1>6, <1>7 DEF Next, Writer
-----------------------------------------------------------------------------
(* What an item has to find in the table when its turn comes, given what   *)
(* the callers wait for, is in the table already, or in the batch, or      *)
(* before it in the queue.                                                 *)
Owed(item, waits) == CASE item.kind = "snapshot" -> item.snapshot.owed
                       [] item.kind = "flush" /\ item.caller # None -> waits[item.caller].owed
                       [] OTHER -> {}

Written == Events(table) \cup Events(batch)

Before(k) == {n \in Nat : \E i \in 1 .. k - 1 : queue[i].kind = "event" /\ queue[i].row.event = n}

OrderInv ==
  /\ \A k \in DOMAIN queue : Owed(queue[k], calling) \subseteq Written \cup Before(k)
  /\ held # None => Owed(held, calling) \subseteq Written
  /\ writer = "mirror" => Events(batch) \subseteq Events(table)

(* Who waits for something else does not change what an item owes.         *)
(* A new item owes at most what is on the way before it.                   *)
LEMMA OwedAppend ==
  ASSUME TypeOK, OrderInv, NEW item, queue' = Append(queue, item), held' = held,
         UNCHANGED <<batch, table, writer>>,
         Owed(item, calling') \subseteq Unwritten,
         \A k \in DOMAIN queue : Owed(queue[k], calling') = Owed(queue[k], calling),
         held # None => Owed(held, calling') = Owed(held, calling)
  PROVE  OrderInv'
<1> DEFINE n == Len(queue)
<1>1. /\ n \in Nat /\ DOMAIN queue = 1 .. n /\ DOMAIN queue' = 1 .. n + 1
      /\ \A k \in 1 .. n : queue'[k] = queue[k] /\ queue[k] \in Item
      /\ queue'[n + 1] = item
  BY DEF TypeOK
<1>2. Written' = Written
  BY DEF Written, Events
<1> HIDE DEF n
<1>3. \A k \in 1 .. n + 1 : Before(k)' = Before(k)
  BY <1>1 DEF Before
<1>4. Unwritten \subseteq Written \cup Before(n + 1)
  <2>1. \A i \in 1 .. n : queue[i].kind = "event" => queue[i].row.event \in Nat
    BY <1>1, ItemParts DEF EventRow
  <2> QED
    BY <1>1, <2>1 DEF Unwritten, Written, Before
<1>5. \A k \in DOMAIN queue' : Owed(queue'[k], calling') \subseteq Written \cup Before(k)
  <2>1. \A k \in 1 .. n : Owed(queue'[k], calling') \subseteq Written \cup Before(k)
    BY <1>1 DEF OrderInv
  <2>2. Owed(queue'[n + 1], calling') \subseteq Written \cup Before(n + 1)
    BY <1>1, <1>4
  <2>3. \A k \in DOMAIN queue' : k \in 1 .. n \/ k = n + 1
    BY <1>1
  <2> QED
    BY <2>1, <2>2, <2>3
<1>6. \A k \in DOMAIN queue' : Owed(queue'[k], calling') \subseteq Written' \cup Before(k)'
  BY <1>1, <1>2, <1>3, <1>5
<1>7. held' # None => Owed(held', calling') \subseteq Written'
  BY <1>2 DEF OrderInv
<1>8. (writer = "mirror" => Events(batch) \subseteq Events(table))'
  BY DEF OrderInv, Events
<1> QED
  BY <1>6, <1>7, <1>8 DEF OrderInv

(* The queue stays as it is, and what the items owe as well.               *)
LEMMA OwedKept ==
  ASSUME TypeOK, OrderInv, queue' = queue, held' \in {None, held},
         Written \subseteq Written',
         writer' = "mirror" => Events(batch') \subseteq Events(table'),
         \A k \in DOMAIN queue : Owed(queue[k], calling') = Owed(queue[k], calling),
         held' # None => Owed(held, calling') = Owed(held, calling)
  PROVE  OrderInv'
<1>1. \A k \in DOMAIN queue : Before(k)' = Before(k)
  BY DEF Before
<1>2. \A k \in DOMAIN queue : Owed(queue[k], calling) \subseteq Written \cup Before(k)
  BY DEF OrderInv
<1>3. held # None => Owed(held, calling) \subseteq Written
  BY DEF OrderInv
<1>4. \A k \in DOMAIN queue' : Owed(queue'[k], calling') \subseteq Written' \cup Before(k)'
  BY <1>1, <1>2
<1>5. held' # None => Owed(held', calling') \subseteq Written'
  BY <1>3
<1> QED
  BY <1>4, <1>5 DEF OrderInv, Events

LEMMA OwedOthers ==
  ASSUME NEW item \in Item, NEW Value, NEW waits \in [Caller -> Value],
         NEW c \in Caller, NEW w, Waits(item) => item.caller # c
  PROVE  Owed(item, [waits EXCEPT ![c] = w]) = Owed(item, waits)
BY ItemParts DEF Owed, Waits

(* A caller that gives up is owed nothing any more.                        *)
LEMMA OrderGiveUp ==
  ASSUME TypeOK, CallerInv, OrderInv, NEW c \in Caller, GiveUp(c)
  PROVE  OrderInv'
<1>1. /\ DOMAIN queue' = DOMAIN queue
      /\ \A k \in DOMAIN queue : queue'[k] = Abandoned(queue[k], c) /\ queue[k] \in Item
      /\ held' = Abandoned(held, c) /\ held \in Item \cup {None}
      /\ calling' = [calling EXCEPT ![c] = Idle]
      /\ batch' = batch /\ table' = table /\ writer' = writer
  BY DEF GiveUp, TypeOK, durableVars
<1>2. ASSUME NEW item \in Item
      PROVE  Owed(Abandoned(item, c), calling') \subseteq Owed(item, calling)
  <2>1. CASE Waits(item) /\ item.caller = c
    <3>1. Abandoned(item, c) = [item EXCEPT !.caller = None]
      BY <2>1, ItemParts DEF Abandoned, Waits
    <3>2. [item EXCEPT !.caller = None].caller = None
      BY <2>1 DEF Item, Waits
    <3>3. Abandoned(item, c).kind \in {"flush", "placement"}
      BY <2>1, AbandonedType DEF Waits
    <3> QED
      BY <3>1, <3>2, <3>3 DEF Owed
  <2>2. CASE ~(Waits(item) /\ item.caller = c)
    <3>1. Abandoned(item, c) = item
      BY <2>2, NoneAssumption DEF Abandoned, Waits
    <3>2. Owed(item, calling') = Owed(item, calling)
      BY <1>1, <2>2, OwedOthers DEF TypeOK
    <3> QED
      BY <3>1, <3>2
  <2> QED
    BY <2>1, <2>2
<1>3. Written' = Written
  BY <1>1 DEF Written, Events
<1>4. \A k \in DOMAIN queue : Before(k) \subseteq Before(k)'
  <2>1. \A i \in DOMAIN queue : queue[i].kind = "event" => queue'[i] = queue[i]
    BY <1>1, AbandonedType
  <2>2. \A k \in DOMAIN queue : \A i \in 1 .. k - 1 : i \in DOMAIN queue
    BY DEF TypeOK
  <2> QED
    BY <2>1, <2>2 DEF Before
<1>5. \A k \in DOMAIN queue' : Owed(queue'[k], calling') \subseteq Written' \cup Before(k)'
  <2> SUFFICES ASSUME NEW k \in DOMAIN queue
               PROVE  Owed(queue'[k], calling') \subseteq Written' \cup Before(k)'
    BY <1>1
  <2>1. Owed(queue'[k], calling') \subseteq Owed(queue[k], calling)
    BY <1>1, <1>2
  <2>2. Owed(queue[k], calling) \subseteq Written \cup Before(k)
    BY DEF OrderInv
  <2> QED
    BY <1>3, <1>4, <2>1, <2>2
<1>6. held' # None => Owed(held', calling') \subseteq Written'
  BY <1>1, <1>2, <1>3 DEF OrderInv, Abandoned
<1> QED
  BY <1>1, <1>5, <1>6 DEF OrderInv, Events

(* What stood before an item is in the batch when its turn comes.          *)
LEMMA OrderTake ==
  ASSUME TypeOK, OrderInv, Take
  PROVE  OrderInv'
<1> DEFINE n == Len(queue)
           first == Head(queue)
<1>1. /\ n \in Nat \ {0} /\ DOMAIN queue = 1 .. n /\ DOMAIN queue' = 1 .. n - 1
      /\ \A k \in 1 .. n - 1 : queue'[k] = queue[k + 1]
      /\ first = queue[1] /\ first \in Item
      /\ calling' = calling /\ table' = table /\ writer' # "mirror"
      /\ held = None
  BY DEF Take, TypeOK, callerVars, durableVars, AfterTaking
<1>2. Owed(first, calling) \subseteq Written
  <2>1. Before(1) = {}
    BY DEF Before
  <2>2. Owed(queue[1], calling) \subseteq Written \cup Before(1)
    BY <1>1 DEF OrderInv
  <2> QED
    BY <1>1, <2>1, <2>2
<1>3. /\ Written \subseteq Written'
      /\ first.kind = "event" => first.row.event \in Written'
      /\ held' # None => held' = first
  <2>1. CASE first.kind = "event"
    <3>1. batch' = Append(batch, first.row) /\ held' = held
      BY <2>1 DEF Take
    <3>2. /\ Len(batch) \in Nat /\ DOMAIN batch = 1 .. Len(batch)
          /\ DOMAIN batch' = 1 .. Len(batch) + 1
          /\ \A i \in 1 .. Len(batch) : batch'[i] = batch[i]
          /\ batch'[Len(batch) + 1] = first.row
      BY <3>1 DEF TypeOK
    <3>3. Events(batch) \subseteq Events(batch') /\ first.row.event \in Events(batch')
      BY <3>2 DEF Events
    <3> QED
      BY <1>1, <3>1, <3>3 DEF Written, Events
  <2>2. CASE first.kind # "event"
    BY <1>1, <2>2 DEF Take, Written, Events
  <2> QED
    BY <2>1, <2>2
<1>4. \A k \in 1 .. n - 1 : Before(k + 1) \subseteq Written' \cup Before(k)'
  <2> SUFFICES ASSUME NEW k \in 1 .. n - 1, NEW m \in Before(k + 1)
               PROVE  m \in Written' \cup Before(k)'
    OBVIOUS
  <2>3. PICK i \in 1 .. k : queue[i].kind = "event" /\ queue[i].row.event = m
    BY <1>1 DEF Before
  <2>4. m \in Nat
    BY DEF Before
  <2>1. CASE i = 1
    BY <1>1, <1>3, <2>1, <2>3
  <2>2. CASE i # 1
    <3>1. i - 1 \in 1 .. k - 1 /\ queue'[i - 1] = queue[i]
      BY <1>1, <2>2
    <3> QED
      BY <2>3, <2>4, <3>1 DEF Before
  <2> QED
    BY <2>1, <2>2
<1> HIDE DEF n, first
<1>5. \A k \in DOMAIN queue' : Owed(queue'[k], calling') \subseteq Written' \cup Before(k)'
  <2> SUFFICES ASSUME NEW k \in 1 .. n - 1
               PROVE  Owed(queue'[k], calling') \subseteq Written' \cup Before(k)'
    BY <1>1
  <2>1. k + 1 \in DOMAIN queue /\ queue'[k] = queue[k + 1]
    BY <1>1
  <2>2. Owed(queue[k + 1], calling) \subseteq Written \cup Before(k + 1)
    BY <2>1 DEF OrderInv
  <2> QED
    BY <1>1, <1>3, <1>4, <2>1, <2>2
<1>6. held' # None => Owed(held', calling') \subseteq Written'
  BY <1>1, <1>2, <1>3
<1> QED
  BY <1>1, <1>5, <1>6 DEF OrderInv

(* The caller that appends waited for nothing.                             *)
LEMMA OwedIdle ==
  ASSUME TypeOK, CallerInv, NEW c \in Caller, calling[c] = Idle,
         calling' = calling \/ \E w : calling' = [calling EXCEPT ![c] = w]
  PROVE  /\ \A k \in DOMAIN queue : Owed(queue[k], calling') = Owed(queue[k], calling)
         /\ held # None => Owed(held, calling') = Owed(held, calling)
<1>1. CASE calling' = calling
  BY <1>1
<1>2. CASE \E w : calling' = [calling EXCEPT ![c] = w]
  <2> PICK w : calling' = [calling EXCEPT ![c] = w]
    BY <1>2
  <2>1. \A k \in DOMAIN queue : queue[k] \in Item /\ (Waits(queue[k]) => queue[k].caller # c)
    BY ItemParts DEF TypeOK, CallerInv, Idle, Waits
  <2>2. held # None => held \in Item /\ (Waits(held) => held.caller # c)
    BY ItemParts DEF TypeOK, CallerInv, Idle, Waits
  <2> DEFINE V == {Idle, [op |-> "placement"]} \cup [op : {"flush"}, owed : SUBSET Nat]
  <2>3. calling \in [Caller -> V]
    BY DEF TypeOK
  <2> HIDE DEF V
  <2>4. \A item \in Item : (Waits(item) => item.caller # c) =>
           Owed(item, [calling EXCEPT ![c] = w]) = Owed(item, calling)
    BY <2>3, OwedOthers
  <2>5. \A k \in DOMAIN queue : Owed(queue[k], [calling EXCEPT ![c] = w]) = Owed(queue[k], calling)
    BY <2>1, <2>4
  <2>6. held # None => Owed(held, [calling EXCEPT ![c] = w]) = Owed(held, calling)
    BY <2>2, <2>4
  <2> QED
    BY <2>5, <2>6
<1> QED
  BY <1>1, <1>2

(* The caller whose item is done has no other on the way.                  *)
LEMMA OwedDone ==
  ASSUME TypeOK, CallerInv, held # None,
         \/ calling' = calling
         \/ Waits(held) /\ calling' = [calling EXCEPT ![held.caller] = Idle]
  PROVE  \A k \in DOMAIN queue : Owed(queue[k], calling') = Owed(queue[k], calling)
<1>1. CASE calling' = calling
  BY <1>1
<1>2. CASE Waits(held) /\ calling' = [calling EXCEPT ![held.caller] = Idle]
  <2>1. \A k \in DOMAIN queue : queue[k] \in Item /\ (Waits(queue[k]) => queue[k].caller # held.caller)
    BY <1>2 DEF TypeOK, CallerInv
  <2>2. held.caller \in Caller
    BY <1>2, ItemParts DEF TypeOK, Waits
  <2> QED
    BY <1>2, <2>1, <2>2, OwedOthers DEF TypeOK
<1> QED
  BY <1>1, <1>2

(* What an item in hand owes is in the table: there is no batch before it. *)
LEMMA HeldIsServed ==
  ASSUME TypeOK, OrderInv, writer = "item"
  PROVE  Owed(held, calling) \subseteq Events(table)
<1>1. held # None /\ Events(batch) = {}
  BY DEF TypeOK, Events
<1> QED
  BY <1>1 DEF OrderInv, Written

(* The four calls that append an item.                                     *)
LEMMA OrderAppend ==
  ASSUME TypeOK, CallerInv, OrderInv, NEW c \in Caller,
         \/ AppendEvent(c) \/ RecordSnapshot(c) \/ Flush(c)
         \/ \E t \in Transition, p \in Payload : AppendPlacement(c, t, p)
  PROVE  OrderInv'
<1>1. /\ calling[c] = Idle /\ held' = held /\ batch' = batch /\ table' = table
      /\ writer' = writer
  BY DEF AppendEvent, RecordSnapshot, Flush, AppendPlacement, CanEnqueue, writerVars, durableVars
<1>2. PICK item : queue' = Append(queue, item) /\ Owed(item, calling') \subseteq Unwritten
  <2>1. CASE AppendEvent(c)
    <3>1. Owed(EventItem(Row(nextId, appended + 1, None)), calling') = {}
      BY DEF Owed, EventItem
    <3> QED
      BY <2>1, <3>1 DEF AppendEvent
  <2>2. CASE RecordSnapshot(c)
    BY <2>2 DEF RecordSnapshot, Owed, SnapshotItem
  <2>3. CASE Flush(c)
    <3>1. calling'[c].owed = Unwritten
      BY <2>3 DEF Flush, TypeOK
    <3>2. Owed(FlushItem(c), calling') \subseteq calling'[c].owed
      BY DEF Owed, FlushItem
    <3> QED
      BY <2>3, <3>1, <3>2 DEF Flush
  <2>4. ASSUME NEW t \in Transition, NEW p \in Payload, AppendPlacement(c, t, p)
        PROVE  \E item : queue' = Append(queue, item) /\ Owed(item, calling') \subseteq Unwritten
    <3>1. Owed(PlacementItem(Row(nextId, appended + 1, t), p, c), calling') = {}
      BY DEF Owed, PlacementItem
    <3> QED
      BY <2>4, <3>1 DEF AppendPlacement
  <2> QED
    BY <2>1, <2>2, <2>3, <2>4
<1>3. calling' = calling \/ \E w : calling' = [calling EXCEPT ![c] = w]
  BY DEF AppendEvent, RecordSnapshot, Flush, AppendPlacement
<1> QED
  BY <1>1, <1>2, <1>3, OwedIdle, OwedAppend

(* Every step keeps the order, and what was promised durable.              *)
LEMMA OrderStep ==
  ASSUME TypeOK, WriterInv, CallerInv, OrderInv, DurableInOrder, [Next]_vars
  PROVE  OrderInv' /\ DurableInOrder'
<1> USE DEF callerVars, writerVars, mirrorVars, durableVars, historyVars, vars
<1>1. ASSUME UNCHANGED <<promised, snapshot>>, Events(table) \subseteq Events(table')
      PROVE  DurableInOrder'
  BY <1>1 DEF DurableInOrder
<1>2. ASSUME NEW c \in Caller,
             \/ AppendEvent(c) \/ RecordSnapshot(c) \/ Flush(c)
             \/ \E t \in Transition, p \in Payload : AppendPlacement(c, t, p)
      PROVE  OrderInv' /\ DurableInOrder'
  <2>1. UNCHANGED <<promised, snapshot, table>>
    BY <1>2 DEF AppendEvent, RecordSnapshot, Flush, AppendPlacement
  <2> QED
    BY <1>1, <1>2, <2>1, OrderAppend
<1>3. ASSUME NEW c \in Caller, GiveUp(c) PROVE OrderInv' /\ DurableInOrder'
  BY <1>1, <1>3, OrderGiveUp DEF GiveUp
<1>4. CASE Take
  BY <1>1, <1>4, OrderTake DEF Take
<1>5. ASSUME UNCHANGED <<queue, held, calling, promised, snapshot>>, Written \subseteq Written',
             Events(table) \subseteq Events(table'),
             writer' = "mirror" => Events(batch') \subseteq Events(table')
      PROVE  OrderInv' /\ DurableInOrder'
  BY <1>1, <1>5, OwedKept
<1>6. CASE CommitBatch
  <2>1. /\ table' = table \o batch /\ UNCHANGED <<queue, held, calling, promised, snapshot, batch>>
    BY <1>6 DEF CommitBatch
  <2>2. Events(table') = Events(table) \cup Events(batch)
    <3>1. /\ \A i \in DOMAIN table : i \in DOMAIN (table \o batch) /\ (table \o batch)[i] = table[i]
          /\ \A i \in DOMAIN batch : /\ i + Len(table) \in DOMAIN (table \o batch)
                                     /\ (table \o batch)[i + Len(table)] = batch[i]
      BY DEF TypeOK
    <3>2. table \in Seq(EventRow \cup PlacementRow) /\ batch \in Seq(EventRow \cup PlacementRow)
      BY DEF TypeOK
    <3>3. \A i \in DOMAIN (table \o batch) :
            \/ i \in DOMAIN table /\ (table \o batch)[i] = table[i]
            \/ i - Len(table) \in DOMAIN batch /\ (table \o batch)[i] = batch[i - Len(table)]
      BY <3>2, ConcatParts
    <3>4. Events(table \o batch) \subseteq Events(table) \cup Events(batch)
      BY <3>3 DEF Events
    <3>5. Events(table) \subseteq Events(table \o batch)
      BY <3>1 DEF Events
    <3>6. Events(batch) \subseteq Events(table \o batch)
      BY <3>1 DEF Events
    <3> QED
      BY <2>1, <3>4, <3>5, <3>6
  <2>3. Events(batch') = Events(batch)
    BY <2>1
  <2> QED
    BY <1>5, <2>1, <2>2, <2>3 DEF Written
<1>7. CASE MirrorBatch
  <2>1. UNCHANGED <<queue, held, calling, promised, snapshot, table>> /\ batch' = <<>>
        /\ Events(batch) \subseteq Events(table) /\ writer' # "mirror"
    BY <1>7 DEF MirrorBatch, OrderInv
  <2>2. Written \subseteq Written'
    BY <2>1 DEF Written, Events
  <2> QED
    BY <1>5, <2>1, <2>2
<1>8. CASE CommitPlacement
  <2>1. /\ table' = Append(table, held.row) /\ writer' # "mirror"
        /\ UNCHANGED <<queue, held, calling, promised, snapshot, batch>>
    BY <1>8 DEF CommitPlacement
  <2>2. Events(table) \subseteq Events(table')
    <3>1. \A i \in DOMAIN table : /\ i \in DOMAIN Append(table, held.row)
                                 /\ Append(table, held.row)[i] = table[i]
      BY DEF TypeOK
    <3> QED
      BY <2>1, <3>1 DEF Events
  <2>3. Written \subseteq Written'
    BY <2>1, <2>2 DEF Written, Events
  <2> QED
    BY <1>5, <2>1, <2>2, <2>3
<1>9. CASE FlushInterval \/ UNCHANGED vars \/ \E c \in Caller : QueueTimeout(c)
  <2>1. /\ UNCHANGED <<queue, held, calling, promised, snapshot, table, batch>>
        /\ writer' = "mirror" => writer = "mirror"
    BY <1>9 DEF FlushInterval, QueueTimeout
  <2> QED
    BY <1>5, <2>1 DEF Written, Events, OrderInv
<1>10. CASE WriterFails \/ Restart
  <2>1. /\ queue' = <<>> /\ held' = None /\ writer' # "mirror"
        /\ UNCHANGED <<promised, snapshot, table>>
    BY <1>10 DEF WriterFails, Restart
  <2>2. OrderInv'
    BY <2>1 DEF OrderInv
  <2> QED
    BY <1>1, <2>1, <2>2
<1>11. ASSUME held # None, held' = None, UNCHANGED <<queue, batch, table>>, writer' = "get",
              \/ calling' = calling
              \/ Waits(held) /\ calling' = [calling EXCEPT ![held.caller] = Idle]
       PROVE  OrderInv'
  <2>1. Written' = Written
    BY <1>11 DEF Written, Events
  <2> QED
    BY <1>11, <2>1, OwedDone, OwedKept
<1>12. CASE ReachBarrier
  <2>1. /\ held # None /\ held.kind = "flush" /\ held' = None /\ writer' = "get"
        /\ UNCHANGED <<queue, batch, table, snapshot>>
    BY <1>12 DEF ReachBarrier, TypeOK
  <2>2. OrderInv'
    BY <1>11, <1>12, <2>1 DEF ReachBarrier, Waits
  <2>3. promised' \subseteq promised \cup Owed(held, calling)
    BY <1>12, <2>1 DEF ReachBarrier, Owed
  <2> QED
    BY <1>12, <2>1, <2>2, <2>3, HeldIsServed DEF ReachBarrier, DurableInOrder, Events
<1>13. CASE WriteSnapshot
  <2>1. /\ held # None /\ held.kind = "snapshot" /\ held' = None /\ writer' = "get"
        /\ UNCHANGED <<queue, batch, table, calling, promised>>
        /\ snapshot' \in {snapshot, held.snapshot}
    BY <1>13 DEF WriteSnapshot, TypeOK
  <2>2. held.snapshot.owed = Owed(held, calling)
    BY <2>1 DEF Owed
  <2> QED
    BY <1>11, <1>13, <2>1, <2>2, HeldIsServed DEF WriteSnapshot, DurableInOrder, Events
<1>14. CASE AnswerRetry \/ MirrorPlacement
  <2>1. /\ held # None /\ held.kind = "placement" /\ held' = None /\ writer' = "get"
        /\ UNCHANGED <<queue, batch, table, snapshot, promised>>
    BY <1>14 DEF AnswerRetry, MirrorPlacement, TypeOK, WriterInv
  <2>2. \/ calling' = calling
        \/ Waits(held) /\ calling' = [calling EXCEPT ![held.caller] = Idle]
    BY <1>14, <2>1 DEF AnswerRetry, MirrorPlacement, Answer, Waits
  <2> QED
    BY <1>1, <1>11, <2>1, <2>2
<1> QED
  BY <1>2, <1>3, <1>4, <1>6, <1>7, <1>8, <1>9, <1>10, <1>12, <1>13, <1>14 DEF Next, Writer
-----------------------------------------------------------------------------
(* Event IDs.  They grow along the table, and what is on the way to it has *)
(* greater ones, in the order in which it will arrive.                     *)
RowIds(rows) == {rows[i].id : i \in DOMAIN rows}

Carries(item) == item.kind \in {"event", "placement"}

ItemIds(items) == {items[i].row.id : i \in {j \in DOMAIN items : Carries(items[j])}}

HeldIds == IF held # None /\ held.kind = "placement" THEN {held.row.id} ELSE {}

Below(S, T) == \A x \in S, y \in T : x < y

Rising(rows) == \A i, j \in DOMAIN rows : i < j => rows[i].id < rows[j].id

RisingItems(items) ==
  \A i, j \in DOMAIN items :
    i < j /\ Carries(items[i]) /\ Carries(items[j]) => items[i].row.id < items[j].row.id

IdInv ==
  /\ Rising(table) /\ Rising(batch) /\ RisingItems(queue)
  /\ writer # "mirror" => Below(RowIds(table), RowIds(batch))
  /\ writer # "mirrorPlacement" => Below(RowIds(table), HeldIds)
  /\ Below(RowIds(batch), HeldIds)
  /\ Below(RowIds(table) \cup RowIds(batch) \cup HeldIds, ItemIds(queue))
  /\ RowIds(table) \cup RowIds(batch) \cup HeldIds \cup ItemIds(queue) \subseteq 1 .. nextId - 1

(* The mirror has the rows of the table but those the writer is about to   *)
(* write into it; only a dead writer leaves a piece of a row, or a second  *)
(* row without its newline.                                                *)
AnyRow == EventRow \cup PlacementRow

Prefix(s, t) == Len(s) <= Len(t) /\ s = SubSeq(t, 1, Len(s))

MirrorInv ==
  /\ journal \in Seq(AnyRow)
  /\ writer \in {"get", "commit", "item"} => journal = table
  /\ writer = "mirror" => table = journal \o batch
  /\ writer = "mirrorPlacement" => table = Append(journal, held.row)
  /\ Prefix(journal, table)
  /\ writer # "dead" => ~half /\ \A i, j \in unended : i = j

(* A row arrives at the end.                                               *)
LEMMA AppendIds ==
  ASSUME NEW S, NEW q \in Seq(S), NEW r \in S
  PROVE  /\ RowIds(Append(q, r)) = RowIds(q) \cup {r.id}
         /\ Rising(q) /\ Below(RowIds(q), {r.id}) => Rising(Append(q, r))
<1>1. /\ Len(Append(q, r)) = Len(q) + 1 /\ Len(q) \in Nat
      /\ \A i \in 1 .. Len(q) : Append(q, r)[i] = q[i]
      /\ Append(q, r)[Len(q) + 1] = r
      /\ DOMAIN Append(q, r) = 1 .. Len(q) + 1 /\ DOMAIN q = 1 .. Len(q)
  OBVIOUS
<1>2. RowIds(Append(q, r)) \subseteq RowIds(q) \cup {r.id}
  BY <1>1 DEF RowIds
<1>3. RowIds(q) \cup {r.id} \subseteq RowIds(Append(q, r))
  <2>1. \A i \in DOMAIN q : i \in DOMAIN Append(q, r) /\ Append(q, r)[i] = q[i]
    BY <1>1
  <2>2. Len(q) + 1 \in DOMAIN Append(q, r) /\ Append(q, r)[Len(q) + 1] = r
    BY <1>1
  <2> QED
    BY <2>1, <2>2 DEF RowIds
<1>4. ASSUME Rising(q), Below(RowIds(q), {r.id}) PROVE Rising(Append(q, r))
  <2>1. \A i \in DOMAIN q : q[i].id < r.id
    BY <1>4 DEF Below, RowIds
  <2> QED
    BY <1>1, <1>4, <2>1 DEF Rising
<1> QED
  BY <1>2, <1>3, <1>4

(* A batch arrives.                                                        *)
LEMMA ConcatIds ==
  ASSUME NEW S, NEW q \in Seq(S), NEW r \in Seq(S)
  PROVE  /\ RowIds(q \o r) = RowIds(q) \cup RowIds(r)
         /\ Rising(q) /\ Rising(r) /\ Below(RowIds(q), RowIds(r)) => Rising(q \o r)
<1> DEFINE p == q \o r
<1>1. /\ Len(p) = Len(q) + Len(r) /\ Len(q) \in Nat /\ Len(r) \in Nat
      /\ DOMAIN p = 1 .. Len(q) + Len(r) /\ DOMAIN q = 1 .. Len(q) /\ DOMAIN r = 1 .. Len(r)
      /\ \A i \in 1 .. Len(q) : p[i] = q[i]
      /\ \A i \in 1 .. Len(r) : p[i + Len(q)] = r[i]
      /\ \A i \in 1 .. Len(q) + Len(r) : i \in 1 .. Len(q) \/ i - Len(q) \in 1 .. Len(r)
  OBVIOUS
<1>2. \A i \in DOMAIN p : \/ i \in DOMAIN q /\ p[i] = q[i]
                          \/ /\ i > Len(q) /\ i - Len(q) \in DOMAIN r
                             /\ p[i] = r[i - Len(q)]
  BY <1>1
<1>3. /\ \A i \in DOMAIN q : i \in DOMAIN p /\ p[i] = q[i]
      /\ \A i \in DOMAIN r : i + Len(q) \in DOMAIN p /\ p[i + Len(q)] = r[i]
  BY <1>1
<1> HIDE DEF p
<1>4. RowIds(p) \subseteq RowIds(q) \cup RowIds(r)
  BY <1>2 DEF RowIds
<1>5. RowIds(q) \cup RowIds(r) \subseteq RowIds(p)
  BY <1>3 DEF RowIds
<1>6. ASSUME Rising(q), Rising(r), Below(RowIds(q), RowIds(r)) PROVE Rising(p)
  <2>1. \A i \in DOMAIN q, j \in DOMAIN r : q[i].id < r[j].id
    BY <1>6 DEF Below, RowIds
  <2> SUFFICES ASSUME NEW i \in DOMAIN p, NEW j \in DOMAIN p, i < j PROVE p[i].id < p[j].id
    BY DEF Rising
  <2>2. CASE i \in DOMAIN q /\ j \in DOMAIN q
    BY <1>3, <1>6, <2>2 DEF Rising
  <2>3. CASE i \in DOMAIN q /\ j \notin DOMAIN q
    BY <1>2, <1>3, <2>1, <2>3
  <2>4. CASE i \notin DOMAIN q
    <3>1. /\ i - Len(q) \in DOMAIN r /\ p[i] = r[i - Len(q)] /\ i > Len(q)
          /\ i \in Nat /\ j \in Nat
      BY <1>1, <1>2, <2>4 DEF p
    <3>2. j \notin DOMAIN q
      BY <1>1, <3>1
    <3>3. j - Len(q) \in DOMAIN r /\ p[j] = r[j - Len(q)]
      BY <1>2, <3>2
    <3>4. i - Len(q) < j - Len(q)
      BY <1>1, <3>1
    <3> QED
      BY <1>6, <3>1, <3>3, <3>4 DEF Rising
  <2> QED
    BY <2>2, <2>3, <2>4
<1> QED
  BY <1>4, <1>5, <1>6 DEF p

(* An item arrives in the queue.                                           *)
LEMMA QueuedIds ==
  ASSUME NEW q \in Seq(Item), NEW e \in Item
  PROVE  /\ Carries(e) => ItemIds(Append(q, e)) = ItemIds(q) \cup {e.row.id}
         /\ ~Carries(e) => ItemIds(Append(q, e)) = ItemIds(q)
         /\ RisingItems(q) /\ (Carries(e) => Below(ItemIds(q), {e.row.id}))
              => RisingItems(Append(q, e))
<1>1. /\ Len(q) \in Nat
      /\ \A i \in 1 .. Len(q) : Append(q, e)[i] = q[i]
      /\ Append(q, e)[Len(q) + 1] = e
      /\ DOMAIN Append(q, e) = 1 .. Len(q) + 1 /\ DOMAIN q = 1 .. Len(q)
  OBVIOUS
<1>2. \A i \in DOMAIN q : i \in DOMAIN Append(q, e) /\ Append(q, e)[i] = q[i]
  BY <1>1
<1>3. Len(q) + 1 \in DOMAIN Append(q, e) /\ Append(q, e)[Len(q) + 1] = e
  BY <1>1
<1>4. \A i \in DOMAIN Append(q, e) : i \in DOMAIN q \/ i = Len(q) + 1
  BY <1>1
<1>5. ItemIds(q) \subseteq ItemIds(Append(q, e))
  BY <1>2 DEF ItemIds
<1>6. Carries(e) => e.row.id \in ItemIds(Append(q, e))
  BY <1>3 DEF ItemIds
<1>7. \A x \in ItemIds(Append(q, e)) : x \in ItemIds(q) \/ (Carries(e) /\ x = e.row.id)
  <2> SUFFICES ASSUME NEW x \in ItemIds(Append(q, e))
               PROVE  x \in ItemIds(q) \/ (Carries(e) /\ x = e.row.id)
    OBVIOUS
  <2>1. PICK i \in DOMAIN Append(q, e) : Carries(Append(q, e)[i]) /\ x = Append(q, e)[i].row.id
    BY DEF ItemIds
  <2>2. CASE i \in DOMAIN q
    <3>1. Carries(q[i]) /\ x = q[i].row.id
      BY <1>2, <2>1, <2>2
    <3>2. i \in {j \in DOMAIN q : Carries(q[j])}
      BY <2>2, <3>1
    <3>3. q[i].row.id \in {q[j].row.id : j \in {j \in DOMAIN q : Carries(q[j])}}
      BY <3>2, Zenon
    <3> QED
      BY <3>1, <3>3 DEF ItemIds
  <2>3. CASE i = Len(q) + 1
    BY <1>3, <2>1, <2>3
  <2> QED
    BY <1>4, <2>2, <2>3
<1>8. ASSUME RisingItems(q), Carries(e) => Below(ItemIds(q), {e.row.id})
      PROVE  RisingItems(Append(q, e))
  <2>1. Carries(e) => \A i \in DOMAIN q : Carries(q[i]) => q[i].row.id < e.row.id
    BY <1>8 DEF Below, ItemIds
  <2> SUFFICES ASSUME NEW i \in DOMAIN Append(q, e), NEW j \in DOMAIN Append(q, e), i < j,
                      Carries(Append(q, e)[i]), Carries(Append(q, e)[j])
               PROVE  Append(q, e)[i].row.id < Append(q, e)[j].row.id
    BY DEF RisingItems
  <2>2. i \in DOMAIN q
    BY <1>1
  <2>3. CASE j \in DOMAIN q
    BY <1>2, <1>8, <2>2, <2>3 DEF RisingItems
  <2>4. CASE j = Len(q) + 1
    BY <1>2, <1>3, <2>1, <2>2, <2>4
  <2> QED
    BY <1>4, <2>3, <2>4
<1> QED
  BY <1>5, <1>6, <1>7, <1>8

(* The writer takes the first item.                                        *)
LEMMA TakenIds ==
  ASSUME NEW q \in Seq(Item), q # <<>>
  PROVE  /\ ItemIds(Tail(q)) \subseteq ItemIds(q)
         /\ Carries(Head(q)) => Head(q).row.id \in ItemIds(q)
         /\ RisingItems(q) => /\ RisingItems(Tail(q))
                              /\ Carries(Head(q)) => Below({Head(q).row.id}, ItemIds(Tail(q)))
<1>1. /\ Len(q) \in Nat \ {0} /\ Head(q) = q[1] /\ Len(Tail(q)) = Len(q) - 1
      /\ DOMAIN q = 1 .. Len(q) /\ DOMAIN Tail(q) = 1 .. Len(q) - 1
      /\ \A i \in 1 .. Len(q) - 1 : Tail(q)[i] = q[i + 1]
  OBVIOUS
<1>2. \A i \in DOMAIN Tail(q) : /\ i + 1 \in DOMAIN q /\ Tail(q)[i] = q[i + 1]
                                /\ 1 < i + 1 /\ i \in Nat
  BY <1>1
<1>3. 1 \in DOMAIN q
  BY <1>1
<1> QED
  BY <1>1, <1>2, <1>3 DEF ItemIds, RisingItems, Below

(* Callers that give up leave the rows of their items.                     *)
LEMMA AbandonedIds ==
  ASSUME TypeOK, NEW c \in Caller, GiveUp(c)
  PROVE  ItemIds(queue') = ItemIds(queue) /\ HeldIds' = HeldIds
         /\ (RisingItems(queue) => RisingItems(queue'))
         /\ (held # None /\ held.kind = "placement" => held'.row = held.row)
<1>1. \A e \in Item : /\ Abandoned(e, c).kind = e.kind /\ Abandoned(e, c) # None
                      /\ Carries(e) => Abandoned(e, c).row = e.row
  <2> SUFFICES ASSUME NEW e \in Item
               PROVE  /\ Abandoned(e, c).kind = e.kind /\ Abandoned(e, c) # None
                      /\ Carries(e) => Abandoned(e, c).row = e.row
    OBVIOUS
  <2>1. Abandoned(e, c).kind = e.kind /\ Abandoned(e, c) # None
    BY AbandonedType, ItemParts
  <2>2. e.kind = "event" => Abandoned(e, c) = e
    BY AbandonedType
  <2>3. e.kind = "placement" => Abandoned(e, c).row = e.row
    BY DEF Abandoned, Item
  <2> QED
    BY <2>1, <2>2, <2>3 DEF Carries
<1>2. DOMAIN queue' = DOMAIN queue /\ \A i \in DOMAIN queue : queue'[i] = Abandoned(queue[i], c)
  BY DEF GiveUp
<1>3. \A i \in DOMAIN queue : queue[i] \in Item
  BY DEF TypeOK
<1>4. \A i \in DOMAIN queue : /\ Carries(queue'[i]) <=> Carries(queue[i])
                              /\ Carries(queue[i]) => queue'[i].row = queue[i].row
  BY <1>1, <1>2, <1>3 DEF Carries
<1>5. ItemIds(queue') = ItemIds(queue)
  BY <1>2, <1>4 DEF ItemIds
<1>6. RisingItems(queue) => RisingItems(queue')
  BY <1>2, <1>4 DEF RisingItems
<1>7. /\ held' = Abandoned(held, c)
      /\ held = None => held' = None
      /\ held # None => held \in Item
  BY DEF GiveUp, Abandoned, TypeOK
<1>8. HeldIds' = HeldIds /\ (held # None /\ held.kind = "placement" => held'.row = held.row)
  BY <1>1, <1>7 DEF HeldIds, Carries
<1> QED
  BY <1>5, <1>6, <1>8

(* The last row has the greatest ID.                                       *)
LEMMA GreatestId ==
  ASSUME NEW rows \in Seq(AnyRow), Rising(rows)
  PROVE  /\ LastId(rows) \in Nat
         /\ \A x \in RowIds(rows) : x \in Nat /\ x <= LastId(rows)
<1>1. \A i \in DOMAIN rows : rows[i].id \in Nat
  BY DEF AnyRow, EventRow, PlacementRow
<1>2. Len(rows) \in Nat /\ DOMAIN rows = 1 .. Len(rows)
  OBVIOUS
<1>3. rows # <<>> => Len(rows) \in DOMAIN rows
  BY <1>2
<1>4. \A i \in DOMAIN rows : i = Len(rows) \/ i < Len(rows)
  BY <1>2
<1> QED
  BY <1>1, <1>2, <1>3, <1>4 DEF LastId, RowIds, Rising

(* Every step keeps the IDs in order.                                      *)
LEMMA IdStep ==
  ASSUME TypeOK, TypeOK', WriterInv, IdInv, [Next]_vars
  PROVE  IdInv'
<1> USE DEF callerVars, writerVars, mirrorVars, durableVars, historyVars, vars
<1>1. /\ Rising(table) /\ Rising(batch) /\ RisingItems(queue)
      /\ writer # "mirror" => Below(RowIds(table), RowIds(batch))
      /\ writer # "mirrorPlacement" => Below(RowIds(table), HeldIds)
      /\ Below(RowIds(batch), HeldIds)
      /\ Below(RowIds(table) \cup RowIds(batch) \cup HeldIds, ItemIds(queue))
      /\ RowIds(table) \cup RowIds(batch) \cup HeldIds \cup ItemIds(queue) \subseteq 1 .. nextId - 1
      /\ nextId \in Nat \ {0}
  BY DEF IdInv, TypeOK
<1>2. /\ table \in Seq(AnyRow) /\ batch \in Seq(AnyRow) /\ queue \in Seq(Item)
      /\ held # None => held \in Item
  BY DEF TypeOK, AnyRow
<1>3. RowIds(<<>>) = {} /\ ItemIds(<<>>) = {} /\ Rising(<<>>) /\ RisingItems(<<>>)
  BY DEF RowIds, ItemIds, Rising, RisingItems
<1>4. /\ UNCHANGED table => RowIds(table') = RowIds(table)
      /\ UNCHANGED batch => RowIds(batch') = RowIds(batch)
      /\ UNCHANGED held => HeldIds' = HeldIds
      /\ held' = None => HeldIds' = {}
  BY DEF RowIds, HeldIds
<1>5. ASSUME UNCHANGED <<table, batch, held, writer>>,
             \/ /\ ItemIds(queue') = ItemIds(queue)
                /\ RisingItems(queue')
                /\ nextId' \in {nextId, nextId + 1}
             \/ /\ ItemIds(queue') = ItemIds(queue) \cup {nextId}
                /\ RisingItems(queue')
                /\ nextId' = nextId + 1
      PROVE  IdInv'
  BY <1>1, <1>4, <1>5 DEF IdInv, Below
<1>6. ASSUME NEW item \in Item, ~Carries(item), queue' = Append(queue, item)
      PROVE  ItemIds(queue') = ItemIds(queue) /\ RisingItems(queue')
  BY <1>1, <1>2, <1>6, QueuedIds
<1>7. ASSUME NEW item \in Item, Carries(item), item.row.id = nextId, queue' = Append(queue, item)
      PROVE  ItemIds(queue') = ItemIds(queue) \cup {nextId} /\ RisingItems(queue')
  <2>1. Below(ItemIds(queue), {nextId})
    BY <1>1 DEF Below
  <2> QED
    BY <1>1, <1>2, <1>7, <2>1, QueuedIds
<1>8. ASSUME NEW c \in Caller, AppendEvent(c) PROVE IdInv'
  <2> DEFINE item == EventItem(Row(nextId, appended + 1, None))
  <2>1. item \in Item /\ Carries(item) /\ item.row.id = nextId
    <3>1. Row(nextId, appended + 1, None) \in EventRow
      BY DEF Row, EventRow, TypeOK
    <3> QED
      BY <3>1 DEF EventItem, Row, Item, Carries
  <2> HIDE DEF item
  <2>2. queue' = Append(queue, item) /\ nextId' = nextId + 1
        /\ UNCHANGED <<table, batch, held, writer>>
    BY <1>8 DEF AppendEvent, item
  <2> QED
    BY <1>5, <1>7, <2>1, <2>2
<1>9. ASSUME NEW c \in Caller, NEW t \in Transition, NEW p \in Payload, AppendPlacement(c, t, p)
      PROVE  IdInv'
  <2> DEFINE item == PlacementItem(Row(nextId, appended + 1, t), p, c)
  <2>1. item \in Item /\ Carries(item) /\ item.row.id = nextId
    BY DEF PlacementItem, Row, Item, PlacementRow, Carries, TypeOK
  <2> HIDE DEF item
  <2>2. queue' = Append(queue, item) /\ nextId' = nextId + 1
        /\ UNCHANGED <<table, batch, held, writer>>
    BY <1>9 DEF AppendPlacement, item
  <2> QED
    BY <1>5, <1>7, <2>1, <2>2
<1>10. ASSUME NEW c \in Caller, RecordSnapshot(c) PROVE IdInv'
  <2> DEFINE item == SnapshotItem([through |-> nextId - 1, covers |-> appended,
                                   owed |-> Unwritten])
  <2>1. item \in Item /\ ~Carries(item)
    BY UnwrittenType DEF SnapshotItem, Item, Boundary, Carries, TypeOK
  <2> HIDE DEF item
  <2>2. queue' = Append(queue, item) /\ nextId' = nextId
        /\ UNCHANGED <<table, batch, held, writer>>
    BY <1>10 DEF RecordSnapshot, item
  <2> QED
    BY <1>5, <1>6, <2>1, <2>2
<1>11. ASSUME NEW c \in Caller, Flush(c) PROVE IdInv'
  <2> DEFINE item == FlushItem(c)
  <2>1. item \in Item /\ ~Carries(item)
    BY DEF FlushItem, Item, Carries
  <2> HIDE DEF item
  <2>2. queue' = Append(queue, item) /\ nextId' = nextId
        /\ UNCHANGED <<table, batch, held, writer>>
    BY <1>11 DEF Flush, item
  <2> QED
    BY <1>5, <1>6, <2>1, <2>2
<1>12. ASSUME NEW c \in Caller, QueueTimeout(c) PROVE IdInv'
  BY <1>1, <1>5, <1>12 DEF QueueTimeout
<1>13. ASSUME NEW c \in Caller, GiveUp(c) PROVE IdInv'
  <2>1. ItemIds(queue') = ItemIds(queue) /\ HeldIds' = HeldIds /\ RisingItems(queue')
    BY <1>1, <1>13, AbandonedIds
  <2>2. UNCHANGED <<table, batch, writer, nextId>>
    BY <1>13 DEF GiveUp
  <2> QED
    BY <1>1, <1>4, <2>1, <2>2 DEF IdInv
<1>14. CASE Take
  <2>1. /\ writer = "get" /\ held = None /\ HeldIds = {} /\ Head(queue) \in Item
        /\ UNCHANGED <<table, nextId>> /\ queue' = Tail(queue)
        /\ writer' \in {"get", "commit", "item"}
    BY <1>14, TailType DEF Take, AfterTaking, TypeOK, HeldIds
  <2>2. /\ ItemIds(queue') \subseteq ItemIds(queue)
        /\ Carries(Head(queue)) => /\ Head(queue).row.id \in ItemIds(queue)
                                   /\ Below({Head(queue).row.id}, ItemIds(queue'))
        /\ RisingItems(queue')
    BY <1>1, <1>2, <1>14, <2>1, TakenIds DEF Take
  <2>3. CASE Head(queue).kind = "event"
    <3>1. /\ batch' = Append(batch, Head(queue).row) /\ HeldIds' = {}
          /\ Carries(Head(queue)) /\ Head(queue).row \in AnyRow
      BY <1>4, <1>14, <2>1, <2>3, ItemParts DEF Take, Carries, AnyRow
    <3>2. Below(RowIds(batch), {Head(queue).row.id})
      BY <1>1, <2>2, <3>1 DEF Below
    <3>3. RowIds(batch') = RowIds(batch) \cup {Head(queue).row.id} /\ Rising(batch')
      <4>1. batch \in Seq(AnyRow) /\ Rising(batch)
        BY <1>1, <1>2
      <4>2. /\ RowIds(Append(batch, Head(queue).row)) = RowIds(batch) \cup {Head(queue).row.id}
            /\ Rising(Append(batch, Head(queue).row))
        BY <3>1, <3>2, <4>1, AppendIds
      <4> QED
        BY <3>1, <4>2
    <3>4. Below(RowIds(table) \cup RowIds(batch'), ItemIds(queue'))
      BY <1>1, <2>2, <3>1, <3>3 DEF Below
    <3>5. Below(RowIds(table), RowIds(batch'))
      BY <1>1, <2>1, <2>2, <3>1, <3>3 DEF Below
    <3>6. RowIds(table) \cup RowIds(batch') \cup ItemIds(queue') \subseteq 1 .. nextId - 1
      BY <1>1, <2>2, <3>1, <3>3
    <3> QED
      BY <1>1, <1>4, <2>1, <2>2, <3>1, <3>3, <3>4, <3>5, <3>6 DEF IdInv, Below
  <2>4. CASE Head(queue).kind # "event"
    <3>1. batch' = batch /\ held' = Head(queue)
      BY <1>14, <2>4 DEF Take
    <3>2. /\ HeldIds' \subseteq ItemIds(queue)
          /\ Below(HeldIds', ItemIds(queue'))
      <4>1. CASE Head(queue).kind = "placement"
        <5>1. Carries(Head(queue)) /\ HeldIds' \subseteq {Head(queue).row.id}
          BY <3>1, <4>1 DEF Carries, HeldIds
        <5> QED
          BY <2>2, <5>1 DEF Below
      <4>2. CASE Head(queue).kind # "placement"
        BY <3>1, <4>2 DEF HeldIds, Below
      <4> QED
        BY <4>1, <4>2
    <3>3. Below(RowIds(table) \cup RowIds(batch), HeldIds')
      BY <1>1, <3>2 DEF Below
    <3>4. Below(RowIds(table) \cup RowIds(batch) \cup HeldIds', ItemIds(queue'))
      BY <1>1, <2>2, <3>2 DEF Below
    <3>5. RowIds(table) \cup RowIds(batch) \cup HeldIds' \cup ItemIds(queue') \subseteq 1 .. nextId - 1
      BY <1>1, <2>2, <3>2
    <3> QED
      BY <1>1, <1>4, <2>1, <2>2, <3>1, <3>3, <3>4, <3>5 DEF IdInv, Below
  <2> QED
    BY <2>3, <2>4
<1>15. CASE FlushInterval \/ UNCHANGED vars
  <2>1. UNCHANGED <<table, batch, held, queue, nextId>>
        /\ (writer \in {"mirror", "mirrorPlacement"} => writer' = writer)
    BY <1>15 DEF FlushInterval
  <2>2. writer # "mirror" \/ writer' = "mirror"
    BY <2>1
  <2>3. writer # "mirrorPlacement" \/ writer' = "mirrorPlacement"
    BY <2>1
  <2>4. ItemIds(queue') = ItemIds(queue) /\ RisingItems(queue')
    BY <1>1, <2>1
  <2> QED
    BY <1>1, <1>4, <2>1, <2>2, <2>3, <2>4 DEF IdInv
<1>16. CASE CommitBatch
  <2>1. /\ writer = "commit" /\ table' = table \o batch /\ writer' = "mirror"
        /\ UNCHANGED <<batch, held, queue, nextId>>
    BY <1>16 DEF CommitBatch
  <2>2. RowIds(table') = RowIds(table) \cup RowIds(batch) /\ Rising(table')
    BY <1>1, <1>2, <2>1, ConcatIds
  <2>3. Below(RowIds(table'), HeldIds)
    BY <1>1, <2>1, <2>2 DEF Below
  <2>4. RowIds(table') \cup RowIds(batch) = RowIds(table) \cup RowIds(batch)
    BY <2>2
  <2> QED
    BY <1>1, <1>4, <2>1, <2>2, <2>3, <2>4 DEF IdInv
<1>17. CASE MirrorBatch
  <2>1. /\ batch' = <<>> /\ writer' \in {"get", "item"} /\ writer = "mirror"
        /\ UNCHANGED <<table, held, queue, nextId>>
    BY <1>17 DEF MirrorBatch
  <2> QED
    BY <1>1, <1>3, <1>4, <2>1 DEF IdInv, Below
<1>18. CASE ReachBarrier \/ WriteSnapshot \/ AnswerRetry \/ MirrorPlacement
  <2>1. /\ held' = None /\ writer' = "get" /\ UNCHANGED <<table, batch, queue, nextId>>
        /\ batch = <<>>
    BY <1>18 DEF ReachBarrier, WriteSnapshot, AnswerRetry, MirrorPlacement, TypeOK
  <2> QED
    BY <1>1, <1>3, <1>4, <2>1 DEF IdInv, Below
<1>19. CASE CommitPlacement
  <2>1. /\ table' = Append(table, held.row) /\ writer' = "mirrorPlacement"
        /\ UNCHANGED <<batch, held, queue, nextId>> /\ batch = <<>>
        /\ held # None /\ held.kind = "placement" /\ writer = "item"
    BY <1>19 DEF CommitPlacement, TypeOK
  <2>2. held.row \in AnyRow /\ HeldIds = {held.row.id}
    BY <1>2, <2>1, ItemParts DEF AnyRow, HeldIds
  <2>3. RowIds(table') = RowIds(table) \cup HeldIds /\ Rising(table')
    BY <1>1, <1>2, <2>1, <2>2, AppendIds
  <2>4. RowIds(batch) = {}
    BY <1>3, <2>1
  <2>5. RowIds(table') \cup RowIds(batch) \cup HeldIds = RowIds(table) \cup RowIds(batch) \cup HeldIds
    BY <2>3
  <2> QED
    BY <1>1, <1>4, <2>1, <2>3, <2>4, <2>5 DEF IdInv, Below
<1>20. CASE WriterFails \/ Restart
  <2>1. /\ queue' = <<>> /\ batch' = <<>> /\ held' = None
        /\ table' = table
    BY <1>20 DEF WriterFails, Restart
  <2>2. RowIds(table) \subseteq 1 .. nextId' - 1
    <3>1. CASE WriterFails
      BY <1>1, <3>1 DEF WriterFails
    <3>2. CASE Restart
      <4>1. nextId' = LastId(table) + 1
        BY <3>2 DEF Restart, FirstId
      <4> QED
        BY <1>1, <1>2, <4>1, GreatestId
    <3> QED
      BY <1>20, <3>1, <3>2
  <2> QED
    BY <1>1, <1>3, <1>4, <2>1, <2>2 DEF IdInv, Below
<1> QED
  BY <1>8, <1>9, <1>10, <1>11, <1>12, <1>13, <1>14, <1>15, <1>16, <1>17, <1>18, <1>19, <1>20
     DEF Next, Writer
-----------------------------------------------------------------------------
(* Beginnings of sequences.                                                *)
LEMMA PrefixConcat ==
  ASSUME NEW S, NEW s \in Seq(S), NEW t \in Seq(S), NEW k \in 0 .. Len(t)
  PROVE  s \o SubSeq(t, 1, k) \in Seq(S) /\ Prefix(s \o SubSeq(t, 1, k), s \o t)
<1> DEFINE u == SubSeq(t, 1, k)
           p == s \o u
           q == s \o t
<1>1. Len(s) \in Nat /\ Len(t) \in Nat /\ k \in Nat /\ k <= Len(t)
  OBVIOUS
<1>2. /\ u \in Seq(S) /\ Len(u) = k
      /\ \A i \in 1 .. k : u[i] = t[i]
  <2>1. \A i \in 1 .. k : t[i] \in S
    BY <1>1
  <2> QED
    BY <1>1, <2>1, SubSeqProperties
<1> HIDE DEF u
<1>3. /\ p \in Seq(S) /\ Len(p) = Len(s) + k
      /\ \A i \in 1 .. Len(s) + k : p[i] = IF i <= Len(s) THEN s[i] ELSE u[i - Len(s)]
  BY <1>2, ConcatProperties
<1>4. /\ q \in Seq(S) /\ Len(q) = Len(s) + Len(t)
      /\ \A i \in 1 .. Len(s) + Len(t) : q[i] = IF i <= Len(s) THEN s[i] ELSE t[i - Len(s)]
  BY ConcatProperties
<1> HIDE DEF p, q
<1>5. /\ SubSeq(q, 1, Len(p)) \in Seq(S) /\ Len(SubSeq(q, 1, Len(p))) = Len(p)
      /\ \A i \in 1 .. Len(p) : SubSeq(q, 1, Len(p))[i] = q[i]
  <2>1. \A i \in 1 .. Len(p) : q[i] \in S
    BY <1>1, <1>3, <1>4
  <2> QED
    BY <1>1, <1>3, <2>1, SubSeqProperties
<1>6. \A i \in 1 .. Len(p) : p[i] = SubSeq(q, 1, Len(p))[i]
  <2> SUFFICES ASSUME NEW i \in 1 .. Len(p) PROVE p[i] = q[i]
    BY <1>5
  <2>1. CASE i <= Len(s)
    BY <1>1, <1>3, <1>4, <2>1
  <2>2. CASE i > Len(s)
    <3>1. i - Len(s) \in 1 .. k
      BY <1>1, <1>3, <2>2
    <3>2. ~(i <= Len(s)) /\ i \in 1 .. Len(s) + k /\ i \in 1 .. Len(s) + Len(t)
      BY <1>1, <1>3, <2>2
    <3>3. p[i] = u[i - Len(s)]
      BY <1>3, <3>2
    <3>4. q[i] = t[i - Len(s)]
      BY <1>4, <3>2
    <3>5. u[i - Len(s)] = t[i - Len(s)]
      BY <1>2, <3>1
    <3> QED
      BY <3>3, <3>4, <3>5
  <2> QED
    BY <1>1, <1>3, <2>1, <2>2
<1>7. p = SubSeq(q, 1, Len(p))
  BY <1>3, <1>5, <1>6, SeqEqual
<1> QED
  BY <1>1, <1>3, <1>4, <1>7 DEF Prefix, p, q, u

(* A sequence is a beginning of itself, and of itself with one more row.   *)
LEMMA PrefixSelf ==
  ASSUME NEW S, NEW s \in Seq(S), NEW x \in S
  PROVE  /\ Prefix(s, s) /\ s \o <<>> = s
         /\ Append(s, x) = s \o <<x>> /\ <<x>> \in Seq(S)
         /\ Prefix(s, Append(s, x))
         /\ SubSeq(<<x>>, 1, 0) = <<>> /\ SubSeq(<<x>>, 1, 1) = <<x>>
<1>1. Prefix(s, s)
  BY SubSeqFull DEF Prefix
<1>2. s \o <<>> = s /\ Append(s, x) = s \o <<x>> /\ <<x>> \in Seq(S) /\ Len(<<x>>) = 1
  OBVIOUS
<1>3. SubSeq(<<x>>, 1, 0) = <<>> /\ SubSeq(<<x>>, 1, 1) = <<x>>
  <2>1. SubSeq(<<x>>, 1, 0) = <<>>
    OBVIOUS
  <2>2. SubSeq(<<x>>, 1, Len(<<x>>)) = <<x>>
    BY <1>2, SubSeqFull
  <2> QED
    BY <1>2, <2>1, <2>2
<1>4. Prefix(s, Append(s, x))
  <2>1. 0 \in 0 .. Len(<<x>>)
    BY <1>2
  <2>2. Prefix(s \o SubSeq(<<x>>, 1, 0), s \o <<x>>)
    BY <1>2, <2>1, PrefixConcat
  <2> QED
    BY <1>2, <1>3, <2>2
<1> QED
  BY <1>1, <1>2, <1>3, <1>4

(* What the writer leaves in the mirror when it stops is a beginning of    *)
(* the table.                                                              *)
LEMMA CutPrefix ==
  ASSUME TypeOK, WriterInv, MirrorInv, NEW cut \in Cuts
  PROVE  MirrorUpTo(cut) \in Seq(AnyRow) /\ Prefix(MirrorUpTo(cut), table)
<1>1. /\ journal \in Seq(AnyRow) /\ batch \in Seq(AnyRow) /\ table \in Seq(AnyRow)
      /\ Prefix(journal, table) /\ cut.rows \in 0 .. Len(Pending)
  BY DEF MirrorInv, TypeOK, AnyRow, Cuts
<1>2. CASE writer = "mirror"
  <2>1. Pending = batch
    BY <1>2 DEF Pending
  <2>2. table = journal \o batch
    BY <1>2 DEF MirrorInv
  <2> QED
    BY <1>1, <2>1, <2>2, PrefixConcat DEF MirrorUpTo
<1>3. CASE writer = "mirrorPlacement"
  <2>1. table = Append(journal, held.row) /\ Pending = <<held.row>>
    BY <1>3 DEF MirrorInv, Pending
  <2>2. held.row \in AnyRow
    BY <1>3, ItemParts DEF TypeOK, WriterInv, AnyRow
  <2>3. cut.rows \in {0, 1}
    <3>1. Len(<<held.row>>) = 1
      OBVIOUS
    <3> QED
      BY <1>1, <2>1, <3>1
  <2>4. SubSeq(Pending, 1, cut.rows) \in {<<>>, <<held.row>>}
    BY <1>1, <2>1, <2>2, <2>3, PrefixSelf
  <2>5. MirrorUpTo(cut) \in {journal, table}
    BY <1>1, <2>1, <2>2, <2>4, PrefixSelf DEF MirrorUpTo
  <2>6. Prefix(table, table)
    BY <1>1, <2>2, PrefixSelf
  <2> QED
    BY <1>1, <2>5, <2>6
<1>4. CASE writer \notin {"mirror", "mirrorPlacement"}
  <2>1. Pending = <<>> /\ cut.rows = 0
    BY <1>1, <1>4 DEF Pending
  <2>2. SubSeq(<<>>, 1, 0) = <<>> /\ journal \o <<>> = journal
    BY <1>1
  <2> QED
    BY <1>1, <2>1, <2>2 DEF MirrorUpTo
<1> QED
  BY <1>2, <1>3, <1>4

(* The next process completes such a mirror, or writes it anew.            *)
LEMMA MirrorRepaired ==
  ASSUME table \in Seq(AnyRow), Rising(table), RowIds(table) \subseteq Nat \ {0},
         NEW lines \in Seq(AnyRow), Prefix(lines, table), NEW open, NEW torn
  PROVE  Reconciled(lines, open, torn) = table
<1>1. CASE ~ValidPrefix(lines, open, torn)
  BY <1>1 DEF Reconciled
<1>2. CASE ValidPrefix(lines, open, torn)
  <2> DEFINE n == Len(lines)
             Cut(k) == \A i \in DOMAIN table : table[i].id > LastId(lines) <=> i > k
  <2>1. /\ n \in Nat /\ Len(table) \in Nat /\ n <= Len(table)
        /\ DOMAIN table = 1 .. Len(table)
        /\ lines = SubSeq(table, 1, n)
    BY DEF Prefix
  <2>2. \A i \in DOMAIN table : table[i].id \in Nat \ {0}
    BY DEF RowIds
  <2>3. n # 0 => LastId(lines) = table[n].id /\ n \in DOMAIN table
    <3>1. \A i \in 1 .. n : table[i] \in AnyRow
      BY <2>1
    <3>2. \A i \in 1 .. n : SubSeq(table, 1, n)[i] = table[i]
      BY <2>1, <3>1, SubSeqProperties
    <3>3. n # 0 => n \in 1 .. n /\ lines # <<>> /\ n \in DOMAIN table
      BY <2>1
    <3> QED
      BY <2>1, <3>2, <3>3 DEF LastId
  <2>4. n = 0 => LastId(lines) = 0
    BY DEF LastId
  <2> HIDE DEF n
  <2>5. Cut(n)
    <3> SUFFICES ASSUME NEW i \in DOMAIN table PROVE table[i].id > LastId(lines) <=> i > n
      OBVIOUS
    <3>1. CASE n = 0
      BY <2>1, <2>2, <2>4, <3>1
    <3>2. CASE n # 0
      <4>1. i < n => table[i].id < table[n].id
        BY <2>3, <3>2 DEF Rising
      <4>2. n < i => table[n].id < table[i].id
        BY <2>3, <3>2 DEF Rising
      <4>3. i \in Nat /\ table[i].id \in Nat /\ table[n].id \in Nat
        BY <2>1, <2>2, <2>3, <3>2
      <4>4. i < n \/ i = n \/ n < i
        BY <2>1, <4>3
      <4> QED
        BY <2>1, <2>3, <3>2, <4>1, <4>2, <4>3, <4>4
    <3> QED
      BY <3>1, <3>2
  <2>6. \A k \in 0 .. Len(table) : Cut(k) => k = n
    <3> SUFFICES ASSUME NEW k \in 0 .. Len(table), Cut(k), k # n PROVE FALSE
      OBVIOUS
    <3>1. CASE k < n
      <4>1. n \in DOMAIN table /\ n > k /\ ~(n > n)
        BY <2>1, <3>1
      <4> QED
        BY <2>5, <4>1
    <3>2. CASE n < k
      <4>1. k \in DOMAIN table /\ k > n /\ ~(k > k)
        BY <2>1, <3>2
      <4> QED
        BY <2>5, <4>1
    <3> QED
      BY <2>1, <3>1, <3>2
  <2>7. n \in 0 .. Len(table)
    BY <2>1
  <2>8. (CHOOSE k \in 0 .. Len(table) : Cut(k)) = n
    <3> HIDE DEF Cut
    <3> QED
      BY <2>5, <2>6, <2>7
  <2>9. RowsAfter(LastId(lines)) = SubSeq(table, n + 1, Len(table))
    BY <2>8 DEF RowsAfter
  <2>10. SubSeq(table, 1, n) \o SubSeq(table, n + 1, Len(table)) = table
    <3>1. SubSeq(table, 1, Len(table)) = table
      BY SubSeqFull
    <3>2. SubSeq(table, 1, n) \o SubSeq(table, n + 1, Len(table)) = SubSeq(table, 1, Len(table))
      <4>1. 1 \in 1 .. Len(table) + 1 /\ n \in 1 - 1 .. Len(table) /\ Len(table) \in n .. Len(table)
        BY <2>1
      <4> QED
        BY <4>1, ConcatAdjacentSubSeq
    <3> QED
      BY <3>1, <3>2
  <2> QED
    BY <1>2, <2>1, <2>9, <2>10 DEF Reconciled
<1> QED
  BY <1>1, <1>2

(* Every step keeps the mirror where the writer is.                        *)
LEMMA MirrorStep ==
  ASSUME TypeOK, TypeOK', WriterInv, IdInv, MirrorInv, [Next]_vars
  PROVE  MirrorInv'
<1> USE DEF callerVars, writerVars, mirrorVars, durableVars, historyVars, vars
<1>1. /\ journal \in Seq(AnyRow) /\ table \in Seq(AnyRow) /\ batch \in Seq(AnyRow)
      /\ writer \in {"get", "commit", "item"} => journal = table
      /\ writer = "mirror" => table = journal \o batch
      /\ writer = "mirrorPlacement" => table = Append(journal, held.row)
      /\ Prefix(journal, table)
      /\ writer # "dead" => ~half /\ \A i, j \in unended : i = j
  BY DEF MirrorInv, TypeOK, AnyRow
<1>2. ASSUME UNCHANGED <<table, mirrorVars>>,
             \/ {writer, writer'} \subseteq {"get", "commit", "item"}
             \/ /\ writer' = writer
                /\ writer = "mirror" => batch' = batch
                /\ writer = "mirrorPlacement" => held'.row = held.row
      PROVE  MirrorInv'
  BY <1>1, <1>2 DEF MirrorInv
<1>3. ASSUME NEW c \in Caller,
             \/ AppendEvent(c) \/ RecordSnapshot(c) \/ Flush(c) \/ QueueTimeout(c)
             \/ \E t \in Transition, p \in Payload : AppendPlacement(c, t, p)
      PROVE  MirrorInv'
  BY <1>2, <1>3 DEF AppendEvent, RecordSnapshot, Flush, QueueTimeout, AppendPlacement
<1>4. ASSUME NEW c \in Caller, GiveUp(c) PROVE MirrorInv'
  <2>1. UNCHANGED <<table, mirrorVars, writer, batch>>
    BY <1>4 DEF GiveUp
  <2>2. writer = "mirrorPlacement" => held'.row = held.row
    BY <1>4, AbandonedIds DEF TypeOK, WriterInv
  <2> QED
    BY <1>2, <2>1, <2>2
<1>5. CASE Take \/ FlushInterval
  BY <1>2, <1>5 DEF Take, AfterTaking, FlushInterval
<1>6. CASE ReachBarrier \/ WriteSnapshot \/ AnswerRetry
  BY <1>2, <1>6 DEF ReachBarrier, WriteSnapshot, AnswerRetry
<1>7. CASE CommitBatch
  <2>1. /\ table' = journal \o batch /\ UNCHANGED <<mirrorVars, batch>> /\ writer' = "mirror"
        /\ writer # "dead"
    BY <1>1, <1>7 DEF CommitBatch
  <2>2. Prefix(journal, journal \o batch)
    <3>1. SubSeq(batch, 1, 0) = <<>> /\ journal \o <<>> = journal /\ 0 \in 0 .. Len(batch)
      BY <1>1, SubSeqEmpty
    <3> QED
      BY <1>1, <3>1, PrefixConcat
  <2> QED
    BY <1>1, <2>1, <2>2 DEF MirrorInv
<1>8. CASE MirrorBatch
  <2>1. /\ journal' = table /\ table' = table /\ writer' \in {"get", "item"}
        /\ UNCHANGED <<unended, half>> /\ writer # "dead"
    BY <1>1, <1>8 DEF MirrorBatch
  <2>2. Prefix(table, table)
    BY <1>1, SubSeqFull DEF Prefix
  <2> QED
    BY <1>1, <2>1, <2>2 DEF MirrorInv
<1>9. CASE CommitPlacement
  <2>1. /\ table' = Append(journal, held.row) /\ UNCHANGED <<mirrorVars, held>>
        /\ writer' = "mirrorPlacement" /\ writer # "dead"
    BY <1>1, <1>9 DEF CommitPlacement
  <2>2. held.row \in AnyRow
    BY <1>9, ItemParts DEF CommitPlacement, TypeOK, AnyRow
  <2>3. Prefix(journal, Append(journal, held.row))
    BY <1>1, <2>2, PrefixSelf
  <2> QED
    BY <1>1, <2>1, <2>3 DEF MirrorInv
<1>10. CASE MirrorPlacement
  <2>1. /\ journal' = table /\ table' = table /\ writer' = "get"
        /\ UNCHANGED <<unended, half>> /\ writer # "dead"
    BY <1>1, <1>10 DEF MirrorPlacement
  <2>2. Prefix(table, table)
    BY <1>1, SubSeqFull DEF Prefix
  <2> QED
    BY <1>1, <2>1, <2>2 DEF MirrorInv
<1>11. CASE WriterFails
  <2>1. PICK cut \in Cuts : journal' = MirrorUpTo(cut)
    BY <1>11 DEF WriterFails
  <2>2. table' = table /\ writer' = "dead"
    BY <1>11 DEF WriterFails
  <2> QED
    BY <2>1, <2>2, CutPrefix DEF MirrorInv
<1>12. CASE Restart
  <2>1. PICK cut \in Cuts :
          /\ journal' = Reconciled(MirrorUpTo(cut), UnendedBy(cut), HalfBy(cut))
          /\ unended' = StillUnended(MirrorUpTo(cut), UnendedBy(cut), HalfBy(cut))
    BY <1>12 DEF Restart
  <2>2. table' = table /\ writer' = "get" /\ half' = FALSE
    BY <1>12 DEF Restart
  <2>3. Rising(table) /\ RowIds(table) \subseteq Nat \ {0}
    BY DEF IdInv
  <2>4. journal' = table
    BY <1>1, <2>1, <2>3, CutPrefix, MirrorRepaired
  <2>5. Prefix(table, table)
    BY <1>1, SubSeqFull DEF Prefix
  <2>6. \A i, j \in unended' : i = j
    BY <2>1 DEF StillUnended, ValidPrefix
  <2> QED
    BY <1>1, <2>2, <2>4, <2>5, <2>6 DEF MirrorInv
<1>13. CASE UNCHANGED vars
  BY <1>2, <1>13
<1> QED
  BY <1>3, <1>4, <1>5, <1>6, <1>7, <1>8, <1>9, <1>10, <1>11, <1>12, <1>13 DEF Next, Writer

-----------------------------------------------------------------------------
IInv == TypeOK /\ WriterInv /\ CallerInv /\ PlacementInv /\ PlacementAnswersHold
          /\ OrderInv /\ DurableInOrder /\ IdInv /\ MirrorInv

(* The inductive invariant.                                                *)
LEMMA Invariant == Spec => []IInv
<1>1. Init => IInv
  <2> SUFFICES ASSUME Init PROVE IInv
    OBVIOUS
  <2>1. TypeOK /\ WriterInv
    BY TypeInit
  <2>2. CallerInv /\ PlacementInv /\ PlacementAnswersHold /\ OrderInv /\ DurableInOrder
    BY <2>1 DEF Init, CallerInv, PlacementInv, PlacementAnswersHold, OrderInv, DurableInOrder
  <2>3. IdInv
    BY DEF Init, IdInv, Rising, RisingItems, Below, RowIds, HeldIds, ItemIds
  <2>4. MirrorInv
    <3>1. <<>> \in Seq(AnyRow) /\ SubSeq(<<>>, 1, Len(<<>>)) = <<>> /\ Len(<<>>) = 0
      OBVIOUS
    <3> QED
      BY <3>1 DEF Init, MirrorInv, Prefix
  <2> QED
    BY <2>1, <2>2, <2>3, <2>4 DEF IInv
<1>2. IInv /\ [Next]_vars => IInv'
  <2> SUFFICES ASSUME IInv, [Next]_vars PROVE IInv'
    OBVIOUS
  <2>1. TypeOK' /\ WriterInv' /\ CallerInv' /\ PlacementInv' /\ PlacementAnswersHold'
          /\ OrderInv' /\ DurableInOrder'
    BY TypeStep, CallerStep, PlacementStep, OrderStep DEF IInv, MirrorInv, AnyRow
  <2>2. IdInv' /\ MirrorInv'
    BY <2>1, IdStep, MirrorStep DEF IInv
  <2> QED
    BY <2>1, <2>2 DEF IInv
<1> QED
  BY <1>1, <1>2, PTL DEF Spec

(* The types of the store, and what the writer thread holds at each of     *)
(* its steps, whatever fails and whoever gives up.                         *)
THEOREM TypeCorrect == Spec => []TypeOK
<1>1. IInv => TypeOK
  BY DEF IInv
<1> QED
  BY <1>1, Invariant, PTL

(* What a flush waited for, and what was appended before a durable         *)
(* checkpoint, is in the table, through writer errors and restarts: none   *)
(* of them overtakes the events before it in _write_queue.                 *)
THEOREM FlushAndCheckpointAreDurable == Spec => []DurableInOrder
<1>1. IInv => DurableInOrder
  BY DEF IInv
<1> QED
  BY <1>1, Invariant, PTL

(* A placement transition has one row, and every answer that               *)
(* append_placement_transition gave stays true of its payload.             *)
THEOREM PlacementAnswered == Spec => []PlacementAnswersHold
<1>1. IInv => PlacementAnswersHold
  BY DEF IInv
<1> QED
  BY <1>1, Invariant, PTL

(* Event IDs grow along the table: _write_queue commits events in the      *)
(* order in which append gave them their IDs, whatever batches it makes,   *)
(* so tail(after_event_id) loses and repeats nothing.                      *)
THEOREM TableInOrder == Spec => []Rising(table)
<1>1. IInv => Rising(table)
  BY DEF IInv, IdInv
<1> QED
  BY <1>1, Invariant, PTL

(* The rows of the JSONL mirror are always the beginning of the table: a   *)
(* row is written only after its commit, and a restart keeps what is there *)
(* only if it reads as such a beginning.                                   *)
THEOREM MirrorFollows == Spec => []MirrorNeverLeads
<1>1. IInv => MirrorNeverLeads
  BY DEF IInv, MirrorInv, Prefix, MirrorNeverLeads
<1> QED
  BY <1>1, Invariant, PTL

(* Between two batches of a live writer the mirror has every row of the    *)
(* table once and in order, whatever an error or a crash left in it:       *)
(* _reconcile_journal appends exactly the rows that it lacks, or writes it *)
(* anew.  It keeps a last row that has no newline, and never a second one. *)
THEOREM MirrorRecovers == Spec => []MirrorCatchesUp
<1>1. IInv => MirrorCatchesUp
  BY DEF IInv, MirrorInv, MirrorCatchesUp
<1> QED
  BY <1>1, Invariant, PTL
=============================================================================
