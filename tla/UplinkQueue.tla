------------------------------ MODULE UplinkQueue ------------------------------
(***************************************************************************)
(* BoundedUplinkQueue (queue.py) with every method one atomic step: the    *)
(* contract its callers rely on.  What happens when SQLite lets a second   *)
(* thread in between a method's reads and its transaction is the subject   *)
(* of UplinkThreads.                                                       *)
(***************************************************************************)
EXTENDS UplinkQueueStore, Sequences

CONSTANTS
  MaxSequence,  \* bound of the model: the highest sequence number used
  MaxDropped    \* bound of the model: the highest dropped_count

ASSUME BoundAssumption == MaxSequence \in Nat /\ MaxDropped \in Nat

VARIABLE queue

vars == queue

\* Every action commits one transaction; the bounds are on what it leaves.
Commit(s) ==
  /\ s.next <= MaxSequence + 1
  /\ s.dropped <= MaxDropped
  /\ queue' = s

Init == queue = Fresh

-----------------------------------------------------------------------------
(* One action per method.  peek, peek_all and summary read after expiring; *)
(* expiry is all they leave behind.                                        *)

EnqueueItem(p) == Commit(Enqueue(queue, p))

PeekOrSummary == HasExpired(queue) /\ Commit(ExpireStale(queue))

MarkAttempted(seqs) == seqs # {} /\ Commit(MarkDeliveryAttempted(queue, seqs))

MarkUncertain == Commit(MarkPendingDeliveryUncertain(queue))

\* cursor_after is the Core's word: any value.
Acknowledge(n) == Commit(AcknowledgeThrough(queue, n))

\* So is the cursor a new session resumes from, which may be lower than the
\* last acknowledged sequence when the Core lost state.
Synchronize(n) == Commit(SynchronizeWithServerCursor(queue, n))

ReconciliationQueued == Commit(MarkReconciliationQueued(queue))

Restart == Commit(Reopen(queue))

Tick == Commit(Age(queue))

Next ==
  \/ \E p \in Payload : EnqueueItem(p)
  \/ PeekOrSummary
  \/ \E limit \in 1..MaxSequence : MarkAttempted(FirstRows(queue, limit))
  \/ MarkUncertain
  \/ \E n \in 0..MaxSequence : Acknowledge(n) \/ Synchronize(n)
  \/ ReconciliationQueued
  \/ Restart
  \/ Tick

Spec == Init /\ [][Next]_vars

-----------------------------------------------------------------------------
(* Properties.                                                             *)

\* Type invariant: the table maps finitely many natural numbers to well-formed rows,
\* and the metadata entries have their types.
TypeOK == Numbered(queue)

\* docs/architecture-boundary.md: "Queue retention must never create a gap in
\* the Core-owned uplink cursor".  What is queued is always exactly the run of
\* sequences that follows the acknowledged one and ends before the next one,
\* whatever mixture of expiry, refusal, acknowledgement and cursor reset got
\* the queue there.
NoGap == Gapless(queue)

\* max_bytes bounds the table in every state, also after an expiry inside
\* enqueue made room in the same call.
WithinByteLimit == TotalBytes(queue) <= MaxBytes

\* Every row that leaves is at or below the acknowledged sequence, or was
\* counted: dropped_count rises by at least the number of rows that left
\* without an acknowledgement, and the reconciliation flag is up.
NothingLeavesUncounted ==
  [][LET gone == {i \in Queued(queue) : i > queue'.acked /\ i \notin Queued(queue')}
     IN  gone # {} =>
           /\ queue'.dropped - queue.dropped >= Cardinality(gone)
           /\ queue'.required]_vars

-----------------------------------------------------------------------------
(* The queue implements the log of UplinkLog.                              *)

TailItems ==
  [i \in 1..Cardinality(Queued(queue)) |-> queue.rows[queue.acked + i].payload]

Log == INSTANCE UplinkLog WITH
         cursor  <- queue.acked,
         tail    <- TailItems,
         dropped <- queue.dropped,
         owed    <- queue.required

\* Seen through TailItems, every transaction of the queue is a step of the
\* contiguous log: items enter at the end, leave at the front, and are lost
\* only all together or on entry, with evidence.
ImplementsLog == Log!Spec

=============================================================================
