----------------------------- MODULE UplinkThreads -----------------------------
(***************************************************************************)
(* The uplink queue as the connector's threads really share it.  Every     *)
(* method opens its own SQLite connection (_connect) and Python's sqlite3  *)
(* begins a transaction only before the first INSERT, UPDATE or DELETE:    *)
(* the SELECTs that come earlier in a method each see the file on their    *)
(* own, and another thread's transaction can commit between any two of     *)
(* them.  A method is therefore a chain of single reads that ends in one   *)
(* transaction.  What is one transaction from the first statement on is    *)
(* taken from UplinkQueue as it stands, with its file, the variable queue. *)
(***************************************************************************)
EXTENDS UplinkQueue

CONSTANTS
  Enqueuer,     \* threads that call enqueue (subscription, inventory)
  Reader,       \* threads that call peek_all or summary (upload, maintenance)
  NoItem,       \* what a reader brings to the queue
  Expires,      \* whether rows get old while the threads run
  Resumes       \* whether a session is re-established while they run

ASSUME ThreadAssumption ==
  /\ Enqueuer \cap Reader = {}
  /\ NoItem \notin Payload
  /\ {Expires, Resumes} \subseteq BOOLEAN

VARIABLE call  \* the method call each thread is in, with what it has read so far

threadVars == <<queue, call>>

Thread == Enqueuer \cup Reader

\* seq and count are the local variables sequence and queued (or current) of
\* the Python methods.
Idle == [at |-> "idle", item |-> NoItem, seq |-> 0, count |-> 0]

ThreadsInit == Init /\ call = [t \in Thread |-> Idle]

At(t, point) == call[t].at = point

Goto(t, point) == call' = [call EXCEPT ![t].at = point]

Return(t) == call' = [call EXCEPT ![t] = Idle]

-----------------------------------------------------------------------------
(* _expire_stale_queue: two SELECTs and, only if something had expired,    *)
(* the DELETE that begins the transaction in which the rest of the method  *)
(* then runs.                                                              *)

\* enqueue, peek_all or summary is called: SELECT COUNT(*) ... < cutoff.
\* A reader that finds nothing to expire only has a SELECT left to do.
SelectExpired(t, item) ==
  /\ At(t, "idle")
  /\ LET next == IF HasExpired(queue) THEN "count queued"
                 ELSE IF item = NoItem THEN "idle" ELSE "read next"
     IN  call' = [call EXCEPT ![t] = [Idle EXCEPT !.at = next,
                    !.item = IF next = "idle" THEN NoItem ELSE item]]
  /\ UNCHANGED queue

CountQueued(t) ==
  /\ At(t, "count queued")
  /\ call' = [call EXCEPT ![t].at = "clear", ![t].count = Cardinality(Queued(queue))]
  /\ UNCHANGED queue

ClearTransaction(t) ==
  /\ At(t, "clear")
  /\ LET cleared == DropAll(queue, call[t].count)
     IN  Commit(IF call[t].item = NoItem THEN cleared ELSE Offer(cleared, call[t].item))
  /\ Return(t)

-----------------------------------------------------------------------------
(* The rest of enqueue when nothing had expired.                           *)

ReadNext(t) ==
  /\ At(t, "read next")
  /\ call' = [call EXCEPT ![t].at = "read total", ![t].seq = queue.next]
  /\ UNCHANGED queue

ReadTotal(t) ==
  /\ At(t, "read total")
  /\ Goto(t, IF Fits(queue, call[t].item) THEN "insert" ELSE "read dropped")
  /\ UNCHANGED queue

\* sequence is the primary key: an INSERT of one that is already there raises
\* IntegrityError and the transaction is rolled back.
InsertTransaction(t) ==
  /\ At(t, "insert")
  /\ IF call[t].seq \in Queued(queue)
       THEN UNCHANGED queue
       ELSE Commit(InsertRow(queue, call[t].seq, call[t].item))
  /\ Return(t)

ReadDropped(t) ==
  /\ At(t, "read dropped")
  /\ call' = [call EXCEPT ![t].at = "drop", ![t].count = queue.dropped]
  /\ UNCHANGED queue

DropTransaction(t) ==
  /\ At(t, "drop")
  /\ Commit([queue EXCEPT !.dropped = call[t].count + 1, !.required = TRUE])
  /\ Return(t)

-----------------------------------------------------------------------------
(* Methods that are one transaction, called by whichever thread.  The two  *)
(* mark_* methods are left to UplinkDelivery: they change attempt markers, *)
(* which no statement of this module reads.                                *)

\* A receipt covers rows that were queued when the batch was sent; they may have
\* expired since, and the next ones have been numbered anew.
Shared ==
  \/ \E n \in 0..MaxSequence : Acknowledge(n)
  \/ Resumes /\ \E n \in 0..MaxSequence : Synchronize(n)
  \/ ReconciliationQueued
  \/ Expires /\ Tick

\* The process dies in the middle of whatever its threads were doing and a
\* new one opens the file.
RestartThreads ==
  /\ Restart
  /\ call' = [t \in Thread |-> Idle]

Step(t) ==
  \/ CountQueued(t)
  \/ ClearTransaction(t)
  \/ ReadNext(t)
  \/ ReadTotal(t)
  \/ InsertTransaction(t)
  \/ ReadDropped(t)
  \/ DropTransaction(t)

ThreadsNext ==
  \/ \E t \in Enqueuer, p \in Payload : SelectExpired(t, p)
  \/ \E t \in Reader : SelectExpired(t, NoItem)
  \/ \E t \in Thread : Step(t)
  \/ Shared /\ UNCHANGED call
  \/ RestartThreads

ThreadsSpec == ThreadsInit /\ [][ThreadsNext]_threadVars

-----------------------------------------------------------------------------
(* Properties.                                                             *)

\* Type invariant: the file stays well-formed even where the numbering does
\* not, and a thread's call is at one of its statements.
ThreadsTypeOK ==
  /\ TypeOK
  /\ call \in [Thread -> [at : {"idle", "count queued", "clear", "read next",
                                "read total", "insert", "read dropped", "drop"},
                          item : Payload \cup {NoItem},
                          seq : Nat, count : Nat]]

\* Whatever the threads did to the numbering, the next session repairs it:
\* after synchronize_with_server_cursor, for any cursor the Core may name, the
\* queue continues that cursor without a gap.
ResumeRepairs ==
  \A n \in 0..MaxSequence : Gapless(SynchronizeWithServerCursor(queue, n))

=============================================================================
