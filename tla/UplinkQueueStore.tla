--------------------------- MODULE UplinkQueueStore ---------------------------
(***************************************************************************)
(* The SQLite file behind BoundedUplinkQueue (queue.py), as a value, and   *)
(* the effect each method's transaction has on it.  The module has no      *)
(* variables: UplinkQueue takes every method as one step, UplinkThreads    *)
(* splits a method where SQLite lets another thread in, and UplinkDelivery *)
(* runs the connector's loops on top of it.                                *)
(*                                                                         *)
(* A row keeps what the program later reads of it.  created_at is an age   *)
(* in clock ticks that stops at MaxAge + 1, the first age that has         *)
(* expired; delivery_attempts is only ever compared with zero, so it is    *)
(* the flag "attempted"; JSON text is a member of Payload with a size.     *)
(***************************************************************************)
EXTENDS Integers, FiniteSets, Functions

CONSTANTS
  Payload,    \* what can be queued
  ByteSize,   \* len(json.dumps(payload)) of each of them
  MaxBytes,   \* max_bytes
  MaxAge      \* max_age_seconds, in ticks

ASSUME SizeAssumption == ByteSize \in [Payload -> Nat \ {0}]
ASSUME LimitAssumption == MaxBytes \in Nat /\ MaxAge \in Nat

Row == [payload : Payload, age : 0..(MaxAge + 1), attempted : BOOLEAN]

\* The two tables.  rows maps a sequence number to its row; the other fields
\* are the queue_metadata entries next_sequence, acknowledged_sequence,
\* dropped_count and reconciliation_required.
Fresh == [rows |-> [i \in {} |-> i], next |-> 1, acked |-> 0,
          dropped |-> 0, required |-> FALSE]

\* The values the file can hold: a table of well-formed rows and typed metadata.
Typed(s) ==
  /\ DOMAIN s = {"rows", "next", "acked", "dropped", "required"}
  /\ s.next \in Nat \ {0}
  /\ s.acked \in Nat
  /\ s.dropped \in Nat
  /\ s.required \in BOOLEAN
  /\ s.rows \in [DOMAIN s.rows -> Row]

\* The queued sequences are the run between the acknowledged and the next one.
Gapless(s) ==
  /\ s.next > s.acked
  /\ DOMAIN s.rows = (s.acked + 1)..(s.next - 1)

NewRow(p) == [payload |-> p, age |-> 0, attempted |-> FALSE]

Queued(s) == DOMAIN s.rows

\* The table maps finitely many natural numbers to rows.
Numbered(s) ==
  /\ Typed(s)
  /\ Queued(s) \subseteq Nat
  /\ IsFiniteSet(Queued(s))

\* SELECT COALESCE(SUM(byte_size), 0)
TotalBytes(s) ==
  FoldFunction(+, 0, [i \in Queued(s) |-> ByteSize[s.rows[i].payload]])

-----------------------------------------------------------------------------
(* The steps the transactions are made of.                                 *)

RecordDrop(s, count) ==
  IF count = 0
    THEN s
    ELSE [s EXCEPT !.dropped = @ + count, !.required = TRUE]

HasExpired(s) == \E i \in Queued(s) : s.rows[i].age > MaxAge

\* Mutant: the numbering goes on where it was.
DropAllKeepsNumbering(s, counted) ==
  RecordDrop([s EXCEPT !.rows = Restrict(@, {})], counted)

\* One expired row invalidates the prefix, so the whole table is dropped and
\* numbering restarts behind the last sequence the Core acknowledged.  The
\* number of rows to report was counted before the delete.
DropAll(s, counted) ==
  RecordDrop([s EXCEPT !.rows = Restrict(@, {}), !.next = s.acked + 1], counted)

\* Mutant: an expiry counts as one drop, however many rows it takes along.
ExpiryCountsOnce(s) == IF HasExpired(s) THEN DropAll(s, 1) ELSE s

ExpireStale(s) ==
  IF HasExpired(s) THEN DropAll(s, Cardinality(Queued(s))) ELSE s

\* Mutant: the limit is compared with the total before the new item.
FitsBeforeItem(s, p) == TotalBytes(s) <= MaxBytes

Fits(s, p) == TotalBytes(s) + ByteSize[p] <= MaxBytes

InsertRow(s, n, p) ==
  [s EXCEPT !.next = n + 1,
            !.rows = [i \in Queued(s) \cup {n} |->
                        IF i = n THEN NewRow(p) ELSE s.rows[i]]]

Offer(s, p) == IF Fits(s, p) THEN InsertRow(s, s.next, p) ELSE RecordDrop(s, 1)

DeleteThrough(s, n) == [s EXCEPT !.rows = Restrict(@, {i \in Queued(s) : i > n})]

-----------------------------------------------------------------------------
(* One operator per method: the queue its transaction leaves behind.       *)

Enqueue(s, p) == Offer(ExpireStale(s), p)

\* SELECT ... ORDER BY sequence LIMIT limit, as the set of sequences returned.
FirstRows(s, limit) ==
  {i \in Queued(s) : Cardinality({j \in Queued(s) : j < i}) < limit}

\* Mutant: the attempt markers are not committed.
AttemptNotCommitted(s, seqs) == s

MarkDeliveryAttempted(s, seqs) ==
  [s EXCEPT !.rows = [i \in Queued(s) |->
     [s.rows[i] EXCEPT !.attempted = @ \/ i \in seqs]]]

\* Mutant: only the head is fenced, not what was queued behind it.
FencesHeadOnly(s) == MarkDeliveryAttempted(s, {s.acked + 1})

MarkPendingDeliveryUncertain(s) == MarkDeliveryAttempted(s, Queued(s))

AcknowledgeThrough(s, n) ==
  [DeleteThrough(s, n) EXCEPT
     !.acked = IF n > @ THEN n ELSE @,
     !.next  = IF @ <= n THEN n + 1 ELSE @]

\* The persisted tail starts at the next expected sequence and has no hole.
Contiguous(seqs, expected) ==
  \/ seqs = {}
  \/ \E latest \in seqs : seqs = expected..latest

\* Mutant: next_sequence is the last sequence in use.
SynchronizeOffByOne(s, n) ==
  LET kept   == [DeleteThrough(s, n) EXCEPT !.acked = n]
      queued == Cardinality(Queued(kept))
  IN  IF ~Contiguous(Queued(kept), n + 1)
        THEN RecordDrop([kept EXCEPT !.rows = Restrict(@, {}), !.next = n], queued)
        ELSE [kept EXCEPT !.next = n + queued]

\* Mutant: a tail that does not follow the cursor is discarded in silence.
SynchronizeInSilence(s, n) ==
  LET kept   == [DeleteThrough(s, n) EXCEPT !.acked = n]
      queued == Cardinality(Queued(kept))
  IN  IF ~Contiguous(Queued(kept), n + 1)
        THEN [kept EXCEPT !.rows = Restrict(@, {}), !.next = n + 1]
        ELSE [kept EXCEPT !.next = n + 1 + queued]

\* Mutant: the persisted tail is trusted to follow the cursor.
SynchronizeTrustsTail(s, n) ==
  LET kept == [DeleteThrough(s, n) EXCEPT !.acked = n]
  IN  [kept EXCEPT !.next = n + 1 + Cardinality(Queued(kept))]

SynchronizeWithServerCursor(s, n) ==
  LET kept   == [DeleteThrough(s, n) EXCEPT !.acked = n]
      queued == Cardinality(Queued(kept))
  IN  IF ~Contiguous(Queued(kept), n + 1)
        THEN RecordDrop([kept EXCEPT !.rows = Restrict(@, {}), !.next = n + 1], queued)
        ELSE [kept EXCEPT !.next = n + 1 + queued]

MarkReconciliationQueued(s) == [s EXCEPT !.required = FALSE]

\* _initialize on a file that a previous process left behind.
Reopen(s) == MarkPendingDeliveryUncertain(s)

\* One tick of the wall clock.
Age(s) ==
  [s EXCEPT !.rows = [i \in Queued(s) |->
     [s.rows[i] EXCEPT !.age = IF @ > MaxAge THEN @ ELSE @ + 1]]]

=============================================================================
