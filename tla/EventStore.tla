----------------------------- MODULE EventStore ------------------------------
(***************************************************************************)
(* memory/store.py, EventStore: the threads that append, the bounded queue *)
(* between them and the writer thread, the SQLite table, its JSONL mirror, *)
(* the checkpoint row and the placement idempotency table, with crashes of *)
(* the process and restarts on the same files.                             *)
(*                                                                         *)
(* An event is a serial number: the order in which appends were accepted,  *)
(* over all processes.  Its ID is what the code gives it.                  *)
(*                                                                         *)
(* Abstracted: event payloads and types; run and episode (one of each, so  *)
(* one checkpoint row); SQLite transactions are atomic and survive the     *)
(* process; the suppression of high-frequency events, which allocates no   *)
(* ID; the subscribers; lessons and episode results, which are written     *)
(* directly.  close() is a restart that finds nothing in the queue.        *)
(***************************************************************************)
EXTENDS Integers, Sequences

CONSTANTS Caller,       \* threads that use the store
          Transition,   \* placement transition IDs
          Payload,      \* placement payloads (their hashes)
          QueueSize,    \* writer_queue_size
          BatchSize,    \* flush_event_limit
          None,         \* nothing
          MaxEvents,    \* bound on the appends of a behaviour
          MaxSnapshots, \* bound on the checkpoints of a behaviour
          MaxFailures   \* bound on crashes, writer errors and queue timeouts

ASSUME SizeAssumption == /\ QueueSize \in Nat \ {0}
                         /\ BatchSize \in Nat \ {0}

(* A row of the table, the content of a checkpoint, and what can stand in  *)
(* the queue; a placement or a flush whose caller gave up has none.        *)
EventRow     == [id : Nat, event : Nat, transition : {None}]
PlacementRow == [id : Nat, event : Nat, transition : Transition]
Boundary     == [through : Int, covers : Nat, owed : SUBSET Nat]
Item ==
  [kind : {"event"}, row : EventRow]
    \cup [kind : {"placement"}, row : PlacementRow, payload : Payload,
          caller : Caller \cup {None}]
    \cup [kind : {"snapshot"}, snapshot : Boundary]
    \cup [kind : {"flush"}, caller : Caller \cup {None}]

ASSUME NoneAssumption == None \notin Transition \cup Payload \cup Caller \cup Item

VARIABLES
  nextId,    \* _next_event_id
  queue,     \* _write_queue
  batch,     \* the writer's batch of events not yet committed
  held,      \* the item the writer works on after its batch
  writer,    \* the writer's next step: "get", "commit", "mirror", "item",
             \* "mirrorPlacement", or "dead" (_writer_error is set)
  table,     \* rows of events, in the order they were committed
  journal,   \* the rows in the JSONL mirror
  unended,   \* positions of the rows in it that no newline follows
  half,      \* whether a piece of a row stands at its end
  placed,    \* placement_transition_idempotency: payload, or None
  snapshot,  \* runtime_snapshots: the row, or None
  calling,   \* what each caller waits for
  appended,  \* number of accepted appends
  promised,  \* the events that a completed flush has covered
  told,      \* answers given to placement calls
  snapshots, failures   \* counts for the bounds

callerVars  == <<nextId, appended, calling, snapshots>>
writerVars  == <<batch, held, writer>>
mirrorVars  == <<journal, unended, half>>
durableVars == <<table, mirrorVars, placed, snapshot>>
historyVars == <<promised, told>>
vars == <<callerVars, queue, writerVars, durableVars, historyVars, failures>>
-----------------------------------------------------------------------------
Row(id, n, t) == [id |-> id, event |-> n, transition |-> t]

EventItem(r)           == [kind |-> "event", row |-> r]
PlacementItem(r, p, c) == [kind |-> "placement", row |-> r, payload |-> p, caller |-> c]
SnapshotItem(s)        == [kind |-> "snapshot", snapshot |-> s]
FlushItem(c)           == [kind |-> "flush", caller |-> c]

Idle == [op |-> "none"]

Events(rows) == {rows[i].event : i \in DOMAIN rows}

LastId(rows) == IF rows = <<>> THEN 0 ELSE rows[Len(rows)].id

Init ==
  /\ nextId = 1 /\ queue = <<>> /\ batch = <<>> /\ held = None
  /\ writer = "get"
  /\ table = <<>> /\ journal = <<>> /\ unended = {} /\ half = FALSE
  /\ placed = [t \in Transition |-> None]
  /\ snapshot = None
  /\ calling = [c \in Caller |-> Idle]
  /\ appended = 0 /\ promised = {} /\ told = {}
  /\ snapshots = 0 /\ failures = 0

(* _raise_writer_error lets a caller in, and _enqueue finds room.  Mutant: *)
(* the queue has no bound.                                                 *)
CanEnqueueUnbounded(c) == calling[c] = Idle /\ writer # "dead"
CanEnqueue(c) == /\ calling[c] = Idle
                 /\ writer # "dead"
                 /\ Len(queue) < QueueSize
-----------------------------------------------------------------------------
(* append_event: the ID and the place in the queue are taken under one     *)
(* lock.                                                                   *)
AppendEvent(c) ==
  /\ CanEnqueue(c)
  /\ appended < MaxEvents
  /\ queue' = Append(queue, EventItem(Row(nextId, appended + 1, None)))
  /\ nextId' = nextId + 1
  /\ appended' = appended + 1
  /\ UNCHANGED <<calling, snapshots, writerVars, durableVars, historyVars, failures>>

(* append_placement_transition: the same, and then the caller waits for    *)
(* the writer's transaction.                                               *)
AppendPlacement(c, t, p) ==
  /\ CanEnqueue(c)
  /\ appended < MaxEvents
  /\ queue' = Append(queue, PlacementItem(Row(nextId, appended + 1, t), p, c))
  /\ nextId' = nextId + 1
  /\ appended' = appended + 1
  /\ calling' = [calling EXCEPT ![c] = [op |-> "placement"]]
  /\ UNCHANGED <<snapshots, writerVars, durableVars, historyVars, failures>>

(* _enqueue gives up on a saturated queue: the ID was taken, the event is  *)
(* lost and its caller knows.                                              *)
QueueTimeout(c) ==
  /\ calling[c] = Idle /\ writer # "dead"
  /\ Len(queue) = QueueSize
  /\ failures < MaxFailures
  /\ failures' = failures + 1
  /\ nextId' = nextId + 1
  /\ UNCHANGED <<appended, calling, snapshots, queue, writerVars, durableVars, historyVars>>

(* The plain events appended and not committed yet.                        *)
Unwritten ==
  Events(batch) \cup
    {queue[i].row.event : i \in {j \in DOMAIN queue : queue[j].kind = "event"}}

(* record_snapshot: the boundary is the last ID given out.  `covers` says  *)
(* which events were appended before, `owed` which of them are on the way. *)
RecordSnapshot(c) ==
  /\ CanEnqueue(c)
  /\ snapshots < MaxSnapshots
  /\ snapshots' = snapshots + 1
  /\ queue' = Append(queue, SnapshotItem([through |-> nextId - 1, covers |-> appended,
                                          owed |-> Unwritten]))
  /\ UNCHANGED <<nextId, appended, calling, writerVars, durableVars, historyVars, failures>>

(* flush: a barrier is queued; `owed` is what it must make durable.        *)
Flush(c) ==
  /\ CanEnqueue(c)
  /\ queue' = Append(queue, FlushItem(c))
  /\ calling' = [calling EXCEPT ![c] = [op |-> "flush", owed |-> Unwritten]]
  /\ UNCHANGED <<nextId, appended, snapshots, writerVars, durableVars, historyVars, failures>>

(* A caller that waits gives up after 30 seconds; its item stays where it  *)
(* is and has nobody to wake.                                              *)
Abandoned(item, c) ==
  IF item # None /\ item.kind \in {"flush", "placement"} /\ item.caller = c
  THEN [item EXCEPT !.caller = None] ELSE item

GiveUp(c) ==
  /\ calling[c] # Idle
  /\ calling' = [calling EXCEPT ![c] = Idle]
  /\ queue' = [i \in DOMAIN queue |-> Abandoned(queue[i], c)]
  /\ held' = Abandoned(held, c)
  /\ UNCHANGED <<nextId, appended, snapshots, batch, writer, durableVars,
                 historyVars, failures>>
-----------------------------------------------------------------------------
(* The writer thread.  An item that is no event waits until the batch      *)
(* before it is committed and mirrored.  Mutant: it overtakes the batch.   *)
AfterTakingEarly(b, item) == "item"
AfterTaking(b, item) == IF b = <<>> THEN "item" ELSE "commit"

Take ==
  /\ writer = "get"
  /\ queue # <<>>
  /\ queue' = Tail(queue)
  /\ IF Head(queue).kind = "event"
     THEN /\ batch' = Append(batch, Head(queue).row)
          /\ writer' = IF Len(batch') >= BatchSize THEN "commit" ELSE "get"
          /\ UNCHANGED held
     ELSE /\ held' = Head(queue)
          /\ writer' = AfterTaking(batch, Head(queue))
          /\ UNCHANGED batch
  /\ UNCHANGED <<callerVars, durableVars, historyVars, failures>>

(* Nothing came for flush_interval_seconds.                                *)
FlushInterval ==
  /\ writer = "get" /\ queue = <<>> /\ batch # <<>>
  /\ writer' = "commit"
  /\ UNCHANGED <<callerVars, queue, batch, held, durableVars, historyVars, failures>>

(* _write_batch: SQLite first, then its mirror.                            *)
CommitBatch ==
  /\ writer = "commit"
  /\ table' = table \o batch
  /\ writer' = "mirror"
  /\ UNCHANGED <<callerVars, queue, batch, held, mirrorVars, placed, snapshot,
                 historyVars, failures>>

MirrorBatch ==
  /\ writer = "mirror"
  /\ journal' = journal \o batch
  /\ batch' = <<>>
  /\ writer' = IF held = None THEN "get" ELSE "item"
  /\ UNCHANGED <<callerVars, queue, held, table, unended, half, placed, snapshot,
                 historyVars, failures>>

(* A barrier is reached: the caller that waits for it goes on.  Mutant:    *)
(* the writer forgets to wake it.                                          *)
ForgetBarrier ==
  /\ writer = "item" /\ held.kind = "flush"
  /\ writer' = "get" /\ held' = None
  /\ UNCHANGED <<callerVars, queue, batch, durableVars, historyVars, failures>>

ReachBarrier ==
  /\ writer = "item" /\ held.kind = "flush"
  /\ writer' = "get" /\ held' = None
  /\ IF held.caller # None
     THEN /\ promised' = promised \cup calling[held.caller].owed
          /\ calling' = [calling EXCEPT ![held.caller] = Idle]
     ELSE UNCHANGED <<promised, calling>>
  /\ UNCHANGED <<nextId, appended, snapshots, queue, batch, durableVars, told, failures>>

(* _write_snapshot: a later boundary replaces an earlier one.              *)
WriteSnapshot ==
  /\ writer = "item" /\ held.kind = "snapshot"
  /\ writer' = "get" /\ held' = None
  /\ snapshot' = IF snapshot = None \/ held.snapshot.through >= snapshot.through
                 THEN held.snapshot ELSE snapshot
  /\ UNCHANGED <<callerVars, queue, batch, table, mirrorVars, placed, historyVars, failures>>

(* _write_idempotent_placement: a transition that is known is answered     *)
(* from the table and its event dropped; the row of a new one and its      *)
(* retry identity are one transaction, mirrored before the answer.  The    *)
(* caller may have given up by then.                                       *)
Answer(a) ==
  LET t == held.row.transition
      c == held.caller
  IN  IF c # None
      THEN /\ told' = told \cup {[transition |-> t, payload |-> held.payload, answer |-> a]}
           /\ calling' = [calling EXCEPT ![c] = Idle]
      ELSE UNCHANGED <<told, calling>>

(* Mutant: the retry identity is written whatever the table holds.         *)
UnknownAny(t) == TRUE
Unknown(t) == placed[t] = None

AnswerRetry ==
  /\ writer = "item" /\ held.kind = "placement"
  /\ ~Unknown(held.row.transition)
  /\ Answer(IF placed[held.row.transition] = held.payload
            THEN "already_recorded" ELSE "conflict")
  /\ writer' = "get" /\ held' = None
  /\ UNCHANGED <<nextId, appended, snapshots, queue, batch, durableVars, promised, failures>>

CommitPlacement ==
  /\ writer = "item" /\ held.kind = "placement"
  /\ Unknown(held.row.transition)
  /\ placed' = [placed EXCEPT ![held.row.transition] = held.payload]
  /\ table' = Append(table, held.row)
  /\ writer' = "mirrorPlacement"
  /\ UNCHANGED <<callerVars, queue, batch, held, mirrorVars, snapshot, historyVars, failures>>

MirrorPlacement ==
  /\ writer = "mirrorPlacement"
  /\ journal' = Append(journal, held.row)
  /\ Answer("recorded")
  /\ writer' = "get" /\ held' = None
  /\ UNCHANGED <<nextId, appended, snapshots, queue, batch, table, unended, half,
                 placed, snapshot, promised, failures>>

(* What the writer has yet to mirror, and where its writing can be cut     *)
(* off: after some of these rows, and behind their last newline, in front  *)
(* of it, or inside the next row.                                          *)
Pending == IF writer = "mirror" THEN batch
           ELSE IF writer = "mirrorPlacement" THEN <<held.row>> ELSE <<>>

Cuts == {cut \in [rows : 0 .. Len(Pending), end : {"newline", "row", "piece"}] :
           /\ cut.end = "row" => cut.rows > 0
           /\ cut.end = "piece" => cut.rows < Len(Pending)}

MirrorUpTo(cut) == journal \o SubSeq(Pending, 1, cut.rows)
UnendedBy(cut)  == unended \cup IF cut.end = "row" THEN {Len(journal) + cut.rows} ELSE {}
HalfBy(cut)     == half \/ cut.end = "piece"

(* SQLite or the file system raises: the writer dies and drains the queue, *)
(* its callers get the error; the item it held is not answered unless it   *)
(* is a placement whose own transaction failed.  A caller that found the   *)
(* writer alive can queue its barrier or its placement after the drain     *)
(* (`late`): nobody will take it.                                          *)
Drained == {queue[i].caller : i \in {j \in DOMAIN queue :
                                       queue[j].kind \in {"flush", "placement"}}}

WriterFails ==
  /\ writer \in {"commit", "mirror", "item", "mirrorPlacement"}
  /\ failures < MaxFailures
  /\ failures' = failures + 1
  /\ writer' = "dead"
  /\ queue' = <<>> /\ batch' = <<>> /\ held' = None
  /\ \E cut \in Cuts :
       journal' = MirrorUpTo(cut) /\ unended' = UnendedBy(cut) /\ half' = HalfBy(cut)
  /\ \E late \in [{c \in Caller : calling[c] = Idle} ->
                  {Idle, [op |-> "placement"], [op |-> "flush", owed |-> {}]}] :
       calling' = [c \in Caller |->
         IF \/ c \in Drained
            \/ /\ writer \in {"item", "mirrorPlacement"} /\ held.kind = "placement"
               /\ c = held.caller
         THEN Idle
         ELSE IF c \in DOMAIN late THEN late[c] ELSE calling[c]]
  /\ UNCHANGED <<nextId, appended, snapshots, table, placed, snapshot, historyVars>>
-----------------------------------------------------------------------------
(* The process dies, at worst while it writes the mirror.  The next        *)
(* process takes the IDs after the greatest in the table and repairs the   *)
(* mirror: one that reads as the IDs 1, 2, 3, ... is completed, in append  *)
(* mode, and any other rewritten.                                          *)
FirstId == LastId(table) + 1

(* The rows with a greater ID: the table is in the order of its IDs.       *)
RowsAfter(id) ==
  LET n == CHOOSE k \in 0 .. Len(table) :
             \A i \in DOMAIN table : table[i].id > id <=> i > k
  IN  SubSeq(table, n + 1, Len(table))

(* Every line of the mirror is one JSON value, their IDs are 1, 2, 3, ...  *)
(* and do not go beyond the table.  A piece of a row does not parse, nor   *)
(* do two rows on one line; a last line that is a whole row does, whether  *)
(* a newline follows it or not.                                            *)
ValidPrefix(lines, open, torn) ==
  /\ ~torn /\ open \subseteq {Len(lines)}
  /\ \A i \in DOMAIN lines : lines[i].id = i
  /\ LastId(lines) <= LastId(table)

(* Mutants: a mirror that stops early is taken for complete, and the last  *)
(* line is written again.                                                  *)
ReconciledFromLast(lines, open, torn) ==
  IF ValidPrefix(lines, open, torn) THEN lines \o RowsAfter(LastId(lines) - 1) ELSE table

ReconciledPrefixOnly(lines, open, torn) ==
  IF ValidPrefix(lines, open, torn) THEN lines ELSE table

Reconciled(lines, open, torn) ==
  IF ValidPrefix(lines, open, torn) THEN lines \o RowsAfter(LastId(lines)) ELSE table

(* The missing newline of a line that was kept is not made good.           *)
StillUnended(lines, open, torn) == IF ValidPrefix(lines, open, torn) THEN open ELSE {}

Restart ==
  /\ failures < MaxFailures
  /\ failures' = failures + 1
  /\ \E cut \in Cuts :
       /\ journal' = Reconciled(MirrorUpTo(cut), UnendedBy(cut), HalfBy(cut))
       /\ unended' = StillUnended(MirrorUpTo(cut), UnendedBy(cut), HalfBy(cut))
  /\ half' = FALSE
  /\ nextId' = FirstId
  /\ queue' = <<>> /\ batch' = <<>> /\ held' = None /\ writer' = "get"
  /\ calling' = [c \in Caller |-> Idle]
  /\ UNCHANGED <<appended, snapshots, table, placed, snapshot, historyVars>>
-----------------------------------------------------------------------------
Writer == \/ Take \/ FlushInterval \/ CommitBatch \/ MirrorBatch
          \/ ReachBarrier \/ WriteSnapshot
          \/ AnswerRetry \/ CommitPlacement \/ MirrorPlacement

Next == \/ \E c \in Caller :
             \/ AppendEvent(c) \/ RecordSnapshot(c) \/ Flush(c)
             \/ QueueTimeout(c) \/ GiveUp(c)
             \/ \E t \in Transition, p \in Payload : AppendPlacement(c, t, p)
        \/ Writer
        \/ WriterFails
        \/ Restart

Spec == Init /\ [][Next]_vars

(* The writer thread keeps running, and the 30 seconds of a caller that    *)
(* waits for a dead writer pass.                                           *)
FairSpec == Spec /\ WF_vars(Writer)
                 /\ \A c \in Caller : WF_vars(writer = "dead" /\ GiveUp(c))
-----------------------------------------------------------------------------
(* Types, and what the writer holds at each of its steps.                  *)
TypeOK ==
  /\ nextId \in Nat \ {0} /\ appended \in Nat
  /\ queue \in Seq(Item) /\ Len(queue) <= QueueSize
  /\ batch \in Seq(EventRow) /\ Len(batch) <= BatchSize
  /\ held \in Item \cup {None}
  /\ writer \in {"get", "commit", "mirror", "item", "mirrorPlacement", "dead"}
  /\ held # None => writer # "get" /\ held.kind # "event"
  /\ writer \in {"item", "mirrorPlacement"} => held # None /\ batch = <<>>
  /\ table \in Seq(EventRow \cup PlacementRow)
  /\ unended \in SUBSET Nat /\ half \in BOOLEAN
  /\ placed \in [Transition -> Payload \cup {None}]
  /\ snapshot \in Boundary \cup {None}
  /\ calling \in [Caller -> {Idle, [op |-> "placement"]}
                              \cup [op : {"flush"}, owed : SUBSET Nat]]
  /\ promised \in SUBSET Nat
  /\ told \in SUBSET [transition : Transition, payload : Payload,
                      answer : {"recorded", "already_recorded", "conflict"}]

(* What waits for durability does not overtake the events before it, and   *)
(* stays true through writer errors and restarts: what a flush has waited  *)
(* for is in the table, and so is every event appended before a durable    *)
(* checkpoint, so a recovery that starts from it misses none of them.      *)
DurableInOrder ==
  /\ promised \subseteq Events(table)
  /\ snapshot # None => snapshot.owed \subseteq Events(table)

(* "The JSONL stream is its ordered compatibility mirror and may only lag, *)
(* never lead, a commit": the mirror is always the beginning of the table. *)
MirrorNeverLeads == /\ Len(journal) <= Len(table)
                    /\ journal = SubSeq(table, 1, Len(journal))

(* Between two batches of a live writer no row is missing in the mirror,   *)
(* none is there twice or in pieces, and at most one has no newline after  *)
(* it.  That row keeps the next one on its line, so the file cannot be     *)
(* read until the next start rewrites it (_reconcile_journal); a start     *)
(* that leaves such a row behind has repaired what an earlier crash did.   *)
MirrorCatchesUp ==
  writer = "get" => /\ journal = table /\ ~half
                    /\ \A i, j \in unended : i = j

(* A transition has one row, with the payload its callers were told.       *)
PlacementAnswersHold ==
  /\ \A t \in Transition :
       \A i, j \in DOMAIN table :
         table[i].transition = t /\ table[j].transition = t => i = j
  /\ \A a \in told : IF a.answer = "conflict" THEN placed[a.transition] # a.payload
                                              ELSE placed[a.transition] = a.payload

(* record_snapshot's comment: "through_event_id is a durable replay        *)
(* boundary: recovery only needs the snapshot plus events with a greater   *)
(* id" - so an event appended after the checkpoint has a greater ID.       *)
BoundarySeparates ==
  snapshot # None =>
    \A i \in DOMAIN table : table[i].event > snapshot.covers
                              => table[i].id > snapshot.through

(* A caller does not wait for ever: its barrier is reached, its placement  *)
(* answered, or the writer is dead and its time is up.                     *)
NobodyHangs == \A c \in Caller : calling[c] # Idle ~> calling[c] = Idle
=============================================================================
