-------------------------- MODULE UplinkQueueProofs --------------------------
(***************************************************************************)
(* For every payload set, size table, byte and age limit, and every        *)
(* sequence of atomic method calls: the queue's file stays well-formed and *)
(* gap-free and within its byte limit, no row leaves it unacknowledged and *)
(* uncounted, and seen through its payloads it is the log of UplinkLog.    *)
(*                                                                         *)
(* Typing and freedom from gaps need each other, because the dropped count *)
(* only stays a number while the table is a finite run of sequences.  The  *)
(* other three follow from that invariant step by step.                    *)
(*                                                                         *)
(* The last section is about UplinkThreads, where the methods are not      *)
(* atomic, and asks what is left of this.                                  *)
(***************************************************************************)
EXTENDS UplinkThreads, UplinkQueueStoreProofs

\* IInv is its own strengthening: each method takes a sound file to a sound
\* file (the lemmas of UplinkQueueStoreProofs).
IInv == TypeOK /\ NoGap

\* A new file is sound.
LEMMA InitSound == Init => IInv
  BY FreshSound, SoundIsNumbered DEF Init, IInv, TypeOK, NoGap, Sound

\* Every method keeps the file sound.
LEMMA NextSound == IInv /\ [Next]_vars => IInv'
<1> SUFFICES ASSUME Sound(queue), [Next]_vars
             PROVE  Sound(queue')
  BY SoundIsNumbered DEF IInv, TypeOK, NoGap, Sound, Numbered
<1>1. ASSUME NEW p \in Payload, EnqueueItem(p)
      PROVE  Sound(queue')
  BY <1>1, EnqueueSound DEF EnqueueItem, Commit
<1>2. CASE PeekOrSummary
  BY <1>2, ExpireStaleSound DEF PeekOrSummary, Commit
<1>3. ASSUME NEW seqs, MarkAttempted(seqs)
      PROVE  Sound(queue')
  BY <1>3, MarkSound DEF MarkAttempted, Commit
<1>4. CASE MarkUncertain
  BY <1>4, MarkSound DEF MarkUncertain, Commit, MarkPendingDeliveryUncertain
<1>5. ASSUME NEW n \in 0..MaxSequence, Acknowledge(n)
      PROVE  Sound(queue')
  BY <1>5, AcknowledgeSound DEF Acknowledge, Commit
<1>6. ASSUME NEW n \in 0..MaxSequence, Synchronize(n)
      PROVE  Sound(queue')
  BY <1>6, SynchronizeSound DEF Synchronize, Commit
<1>7. CASE ReconciliationQueued
  BY <1>7, ReconciliationSound DEF ReconciliationQueued, Commit
<1>8. CASE Restart
  BY <1>8, MarkSound DEF Restart, Commit, Reopen, MarkPendingDeliveryUncertain
<1>9. CASE Tick
  BY <1>9, AgeSound DEF Tick, Commit
<1>10. CASE UNCHANGED vars
  BY <1>10 DEF vars
<1>11. QED
  BY <1>1, <1>2, <1>3, <1>4, <1>5, <1>6, <1>7, <1>8, <1>9, <1>10 DEF Next

\* In every reachable state the queue file holds finitely many well-formed rows,
\* under natural numbers, and typed metadata.
THEOREM QueueTyped == Spec => []TypeOK
<1>1. IInv => TypeOK
  BY DEF IInv
<1>2. QED
  BY <1>1, InitSound, NextSound, PTL DEF Spec

\* Expiry, refusal, acknowledgement, cursor reset and restart never leave a
\* hole in the queued sequences, nor one between them and the Core's cursor.
THEOREM QueueHasNoGap == Spec => []NoGap
<1>1. IInv => NoGap
  BY DEF IInv
<1>2. QED
  BY <1>1, InitSound, NextSound, PTL DEF Spec

-----------------------------------------------------------------------------
(* What leaves is acknowledged or counted.                                 *)

\* A method that only rewrites rows in place removes none.
LEMMA SameButRowsAccounted ==
  ASSUME NEW s, NEW r, SameButRows(r, s)
  PROVE  Accounted(s, r)
  BY NothingGone DEF SameButRows

\* What a method removes is acknowledged or counted.
LEMMA NextAccounted ==
  ASSUME IInv, [Next]_vars
  PROVE  Accounted(queue, queue')
<1>0. Sound(queue) /\ Typed(queue) /\ Numbered(queue)
  BY DEF IInv, TypeOK, NoGap, Sound, Numbered
<1>1. ASSUME NEW p \in Payload, EnqueueItem(p)
      PROVE  Accounted(queue, queue')
  BY <1>0, <1>1, EnqueueAccounted DEF EnqueueItem, Commit
<1>2. CASE PeekOrSummary
  BY <1>0, <1>2, ExpireAccounted DEF PeekOrSummary, Commit
<1>3. ASSUME NEW seqs, MarkAttempted(seqs)
      PROVE  Accounted(queue, queue')
  BY <1>0, <1>3, MarkEffect, SameButRowsAccounted DEF MarkAttempted, Commit
<1>4. CASE MarkUncertain
  BY <1>0, <1>4, MarkEffect, SameButRowsAccounted
     DEF MarkUncertain, Commit, MarkPendingDeliveryUncertain
<1>5. ASSUME NEW n \in 0..MaxSequence, Acknowledge(n)
      PROVE  Accounted(queue, queue')
  BY <1>0, <1>5, AcknowledgeAccounted DEF Acknowledge, Commit
<1>6. ASSUME NEW n \in 0..MaxSequence, Synchronize(n)
      PROVE  Accounted(queue, queue')
  BY <1>0, <1>6, SynchronizeAccounted DEF Synchronize, Commit
<1>7. CASE ReconciliationQueued
  BY <1>0, <1>7, ReconciliationEffect, NothingGone DEF ReconciliationQueued, Commit, Queued
<1>8. CASE Restart
  BY <1>0, <1>8, MarkEffect, SameButRowsAccounted
     DEF Restart, Commit, Reopen, MarkPendingDeliveryUncertain
<1>9. CASE Tick
  BY <1>0, <1>9, AgeEffect, SameButRowsAccounted DEF Tick, Commit
<1>10. CASE UNCHANGED vars
  BY <1>10, NothingGone DEF vars
<1>11. QED
  BY <1>1, <1>2, <1>3, <1>4, <1>5, <1>6, <1>7, <1>8, <1>9, <1>10 DEF Next

\* A row that leaves is at or below the acknowledged sequence, or
\* dropped_count rises for it and the reconciliation flag goes up, whatever
\* the method does in the same transaction (expiry inside enqueue, a cursor
\* reset that gives the tail up).
THEOREM QueueLosesNothingUncounted == Spec => NothingLeavesUncounted
<1>1. IInv /\ [Next]_vars =>
        [LET gone == {i \in Queued(queue) : i > queue'.acked /\ i \notin Queued(queue')}
         IN  gone # {} =>
               /\ queue'.dropped - queue.dropped >= Cardinality(gone)
               /\ queue'.required]_vars
  BY NextAccounted DEF Accounted, Gone
<1>2. QED
  BY <1>1, InitSound, NextSound, PTL DEF Spec, NothingLeavesUncounted

-----------------------------------------------------------------------------
(* The byte limit.                                                         *)

\* A file within the limit is left within the limit by every method.
LEMMA NextWithin ==
  ASSUME IInv, WithinByteLimit, [Next]_vars
  PROVE  WithinByteLimit'
<1> SUFFICES ASSUME Sound(queue), Within(queue), Sound(queue')
             PROVE  Within(queue')
  BY NextSound DEF IInv, TypeOK, NoGap, Sound, Numbered, WithinByteLimit, Within
<1>1. ASSUME NEW p \in Payload, EnqueueItem(p)
      PROVE  Within(queue')
  BY <1>1, EnqueueWithin DEF EnqueueItem, Commit
<1>2. CASE PeekOrSummary
  BY <1>2, ExpireWithin DEF PeekOrSummary, Commit
<1>3. ASSUME NEW r, queue' = r, SameButRows(r, queue)
      PROVE  Within(queue')
  BY <1>3, SameButRowsWithin
<1>4. CASE MarkUncertain \/ Restart \/ \E seqs : MarkAttempted(seqs)
  <2>1. PICK seqs : queue' = MarkDeliveryAttempted(queue, seqs)
    BY <1>4 DEF MarkUncertain, Restart, MarkAttempted, Commit, Reopen,
                MarkPendingDeliveryUncertain
  <2>2. QED
    BY <1>3, <2>1, MarkEffect DEF Sound
<1>5. CASE Tick
  BY <1>3, <1>5, AgeEffect DEF Tick, Commit, Sound
<1>6. ASSUME NEW n \in 0..MaxSequence, Acknowledge(n)
      PROVE  Within(queue')
  BY <1>6, AcknowledgeWithin DEF Acknowledge, Commit
<1>7. ASSUME NEW n \in 0..MaxSequence, Synchronize(n)
      PROVE  Within(queue')
  BY <1>7, SynchronizeWithin DEF Synchronize, Commit
<1>8. CASE ReconciliationQueued
  <2>1. queue'.rows = queue.rows
    BY <1>8, ReconciliationEffect DEF ReconciliationQueued, Commit, Sound
  <2>2. Lighter(queue', queue)
    BY <2>1 DEF Lighter, Queued
  <2>3. QED
    BY <2>2, LighterWithin
<1>9. CASE UNCHANGED vars
  BY <1>9 DEF vars
<1>10. QED
  BY <1>1, <1>2, <1>4, <1>5, <1>6, <1>7, <1>8, <1>9 DEF Next

\* max_bytes bounds the table in every state, whatever the sizes of the items
\* are, also when an enqueue first expires what was queued and then inserts in
\* the same transaction.
THEOREM QueueWithinByteLimit == Spec => []WithinByteLimit
<1>1. Init => WithinByteLimit
  BY FreshWithin DEF Init, WithinByteLimit, Within
<1>2. QED
  BY <1>1, InitSound, NextSound, NextWithin, PTL DEF Spec

-----------------------------------------------------------------------------
(* The refinement.                                                         *)

\* The tail the abstract log sees is read off the file.
LEMMA TailItemsIsTailOf == TailItems = TailOf(queue) /\ TailItems' = TailOf(queue')
  BY DEF TailItems, TailOf

\* An empty file is the empty log.
LEMMA InitIsLogInit == Init => Log!Init
<1> SUFFICES ASSUME Init
             PROVE  Log!Init
  OBVIOUS
<1>1. /\ queue.acked = 0 /\ queue.dropped = 0 /\ queue.required = FALSE
      /\ Queued(queue) = {}
  BY DEF Init, Fresh, Queued
<1>2. TailItems = <<>>
  BY <1>1, FreshSound, TailFacts, TailItemsIsTailOf DEF Init
<1>3. QED
  BY <1>1, <1>2 DEF Log!Init

\* A step between files is a step of UplinkLog.
LEMMA LogStepIsLogNext ==
  ASSUME LogStep(queue, queue')
  PROVE  Log!Next \/ UNCHANGED Log!vars
<1>1. ASSUME NEW p \in Payload, Appends(queue, queue', p)
      PROVE  Log!Append1(p)
  BY <1>1, TailItemsIsTailOf DEF Appends, SameCounts, Log!Append1
<1>2. ASSUME NEW p \in Payload, Clears(queue, queue', <<p>>, Len(TailOf(queue)))
      PROVE  Log!ClearAndAppend(p)
  BY <1>2, TailItemsIsTailOf DEF Clears, GivesUp, Log!ClearAndAppend, Log!GiveUp
<1>3. CASE Refuses(queue, queue')
  BY <1>3, TailItemsIsTailOf DEF Refuses, GivesUp, Log!Refuse, Log!GiveUp, Log!Next
<1>4. CASE Clears(queue, queue', <<>>, Len(TailOf(queue)))
  BY <1>4, TailItemsIsTailOf DEF Clears, GivesUp, Log!Clear, Log!GiveUp, Log!Next
<1>5. CASE Clears(queue, queue', <<>>, Len(TailOf(queue)) + 1)
  BY <1>5, TailItemsIsTailOf DEF Clears, GivesUp, Log!ClearAndRefuse, Log!GiveUp, Log!Next
<1>6. CASE Confirms(queue, queue')
  BY <1>6, TailItemsIsTailOf DEF Confirms, SameCounts, Log!Confirm, Log!Next
<1>7. CASE Rewinds(queue, queue')
  BY <1>7, TailItemsIsTailOf DEF Rewinds, SameCounts, GivesUp, Log!Rewind, Log!GiveUp, Log!Next
<1>8. CASE Reconciles(queue, queue')
  BY <1>8, TailItemsIsTailOf DEF Reconciles, Log!Reconciled, Log!Next
<1>9. CASE Invisible(queue, queue')
  BY <1>9, TailItemsIsTailOf DEF Invisible, SameCounts, Log!vars
<1>10. QED
  BY <1>1, <1>2, <1>3, <1>4, <1>5, <1>6, <1>7, <1>8, <1>9 DEF LogStep, Log!Next

\* Each method of the queue is a step of the abstract log, or none.
LEMMA NextIsLogStep == IInv /\ [Next]_vars => [Log!Next]_(Log!vars)
<1> SUFFICES ASSUME Sound(queue), [Next]_vars
             PROVE  LogStep(queue, queue')
  BY LogStepIsLogNext DEF IInv, TypeOK, NoGap, Sound, Numbered
<1>0. Typed(queue) /\ 0..MaxSequence \subseteq Nat
  BY BoundAssumption DEF Sound
<1>1. ASSUME NEW p \in Payload, EnqueueItem(p)
      PROVE  LogStep(queue, queue')
  BY <1>1, EnqueueStep DEF EnqueueItem, Commit
<1>2. CASE PeekOrSummary
  BY <1>2, ExpireStep DEF PeekOrSummary, Commit
<1>3. ASSUME NEW seqs, MarkAttempted(seqs)
      PROVE  LogStep(queue, queue')
  BY <1>0, <1>3, MarkEffect, SameButRowsStep DEF MarkAttempted, Commit
<1>4. CASE MarkUncertain
  BY <1>0, <1>4, MarkEffect, SameButRowsStep
     DEF MarkUncertain, Commit, MarkPendingDeliveryUncertain
<1>5. ASSUME NEW n \in 0..MaxSequence, Acknowledge(n)
      PROVE  LogStep(queue, queue')
  BY <1>0, <1>5, AcknowledgeStep DEF Acknowledge, Commit
<1>6. ASSUME NEW n \in 0..MaxSequence, Synchronize(n)
      PROVE  LogStep(queue, queue')
  BY <1>0, <1>6, SynchronizeStep DEF Synchronize, Commit
<1>7. CASE ReconciliationQueued
  BY <1>7, ReconciliationStep DEF ReconciliationQueued, Commit
<1>8. CASE Restart
  BY <1>0, <1>8, MarkEffect, SameButRowsStep
     DEF Restart, Commit, Reopen, MarkPendingDeliveryUncertain
<1>9. CASE Tick
  BY <1>0, <1>9, AgeEffect, SameButRowsStep DEF Tick, Commit
<1>10. CASE UNCHANGED vars
  BY <1>10, NoStep DEF vars
<1>11. QED
  BY <1>1, <1>2, <1>3, <1>4, <1>5, <1>6, <1>7, <1>8, <1>9, <1>10 DEF Next

\* The queue implements the log of UplinkLog: with any mixture of expiry,
\* refusal, acknowledgement, cursor reset, restart and time, items enter at the
\* end and leave at the front, and are lost only on entry or all together, with
\* the count and the flag that say so.
THEOREM QueueImplementsLog == Spec => ImplementsLog
  BY InitSound, NextSound, InitIsLogInit, NextIsLogStep, PTL DEF Spec, ImplementsLog, Log!Spec

-----------------------------------------------------------------------------
(* Threads: although two of them inside enqueue may read the same next     *)
(* sequence, and a clear may write a count that is out of date, the file   *)
(* stays well-formed, and the cursor of the next session repairs whatever  *)
(* became of the numbering.                                                *)
(*                                                                         *)
(* ThreadsTypeOK is not inductive: what is inserted is a payload because a *)
(* reader never gets that far.  Finitely many numbered rows, which can be  *)
(* counted and repaired, are all that the threads leave of the run that    *)
(* atomic methods maintain.                                                *)

Enqueueing == {"read next", "read total", "insert", "read dropped", "drop"}

\* Only a thread that brought an item gets past the expiry.
BringsItem == \A t \in Thread : call[t].at \in Enqueueing => call[t].item \in Payload

ThreadsIInv == ThreadsTypeOK /\ BringsItem

Point == {"idle", "count queued", "clear", "read next", "read total", "insert",
          "read dropped", "drop"}

Call == [at : Point, item : Payload \cup {NoItem}, seq : Nat, count : Nat]

\* The type invariant in terms of the file and the calls in progress.
LEMMA CallsTyped == ThreadsTypeOK <=> Numbered(queue) /\ call \in [Thread -> Call]
  BY DEF ThreadsTypeOK, TypeOK, Call, Point

-----------------------------------------------------------------------------
(* Every transaction leaves a numbered queue.                               *)

\* An empty table, whatever its metadata, is numbered.
LEMMA EmptyNumbered ==
  ASSUME NEW s, Typed(s), Queued(s) = {}
  PROVE  Numbered(s)
  BY FS_EmptySet DEF Numbered

\* So is one with the rows of a numbered queue, or fewer.
LEMMA SubsetNumbered ==
  ASSUME NEW s, Numbered(s), NEW r, Typed(r), Queued(r) \subseteq Queued(s)
  PROVE  Numbered(r)
  BY FS_Subset DEF Numbered

\* One more row under any sequence, in use or not, is one row more at most.
LEMMA InsertNumbered ==
  ASSUME NEW s, Numbered(s), NEW n \in Nat, NEW p \in Payload
  PROVE  Numbered(InsertRow(s, n, p))
<1> DEFINE r == InsertRow(s, n, p)
<1>1. Typed(r) /\ Queued(r) = Queued(s) \cup {n}
  BY InsertEffect DEF Numbered
<1>2. IsFiniteSet(Queued(s) \cup {n})
  BY FS_AddElement DEF Numbered
<1>3. QED
  BY <1>1, <1>2 DEF Numbered

\* An insert or a counted drop leaves finitely many numbered rows.
LEMMA OfferNumbered ==
  ASSUME NEW s, Numbered(s), NEW p \in Payload
  PROVE  Numbered(Offer(s, p))
<1>1. Typed(s) /\ s.next \in Nat
  BY DEF Numbered, Typed
<1>2. Numbered(InsertRow(s, s.next, p))
  BY <1>1, InsertNumbered
<1>3. Numbered(RecordDrop(s, 1))
  BY <1>1, RecordDropEffect, SubsetNumbered DEF Queued
<1>4. QED
  BY <1>2, <1>3 DEF Offer

\* So does an expiry.
LEMMA DropAllNumbered ==
  ASSUME NEW s, Numbered(s), NEW n \in Nat
  PROVE  Numbered(DropAll(s, n))
  BY DropAllEffect, EmptyNumbered DEF Numbered

\* record_drops writes a count that was read earlier: some number.
LEMMA DropCountNumbered ==
  ASSUME NEW s, Numbered(s), NEW n \in Nat
  PROVE  Numbered([s EXCEPT !.dropped = n + 1, !.required = TRUE])
<1> DEFINE r == [s EXCEPT !.dropped = n + 1, !.required = TRUE]
<1>1. /\ DOMAIN r = DOMAIN s /\ r.rows = s.rows /\ r.next = s.next /\ r.acked = s.acked
      /\ r.dropped = n + 1 /\ r.required = TRUE
  BY DEF Numbered, Typed
<1>2. Typed(r)
  BY <1>1 DEF Numbered, Typed
<1>3. QED
  BY <1>1, <1>2 DEF Numbered, Queued

\* Rewriting rows in place leaves their numbers.
LEMMA SameButRowsNumbered ==
  ASSUME NEW s, Numbered(s), NEW r, Typed(r), SameButRows(r, s)
  PROVE  Numbered(r)
  BY SubsetNumbered DEF SameButRows

\* An acknowledgement leaves fewer.
LEMMA AcknowledgeNumbered ==
  ASSUME NEW s, Numbered(s), NEW n \in Nat
  PROVE  Numbered(AcknowledgeThrough(s, n))
<1> DEFINE r == AcknowledgeThrough(s, n)
<1>1. Typed(r) /\ Queued(r) = {i \in Queued(s) : i > n}
  BY AcknowledgeEffect DEF Numbered
<1>2. QED
  BY <1>1, SubsetNumbered

\* The resume of a session leaves a sound file, not only a numbered one.
LEMMA SynchronizeNumbered ==
  ASSUME NEW s, Numbered(s), NEW n \in Nat
  PROVE  Numbered(SynchronizeWithServerCursor(s, n))
  BY SynchronizeRepairs, SoundIsNumbered

-----------------------------------------------------------------------------
(* The invariant.                                                          *)

\* No thread is in a call and the file is new.
LEMMA InitThreads == ThreadsInit => ThreadsIInv
<1> SUFFICES ASSUME ThreadsInit
             PROVE  ThreadsIInv
  OBVIOUS
<1>1. Numbered(queue)
  BY FreshSound, SoundIsNumbered DEF ThreadsInit, Init
<1>2. Idle \in Call /\ Idle.at \notin Enqueueing
  BY DEF Idle, Call, Point, Enqueueing
<1>3. call \in [Thread -> Call] /\ BringsItem
  BY <1>2 DEF ThreadsInit, BringsItem
<1>4. QED
  BY <1>1, <1>3, CallsTyped DEF ThreadsIInv

\* A step of a thread that moves it to another statement, with what it read.
LEMMA CallMoves ==
  ASSUME ThreadsIInv, NEW t \in Thread, NEW c \in Call, call' = [call EXCEPT ![t] = c],
         c.at \in Enqueueing => c.item \in Payload,
         Numbered(queue')
  PROVE  ThreadsIInv'
<1>1. call' \in [Thread -> Call] /\ call \in [Thread -> Call]
  BY CallsTyped DEF ThreadsIInv
<1>2. ThreadsTypeOK'
  BY <1>1 DEF ThreadsTypeOK, TypeOK, Call, Point
<1>3. BringsItem'
  BY <1>1 DEF ThreadsIInv, BringsItem
<1>4. QED
  BY <1>2, <1>3 DEF ThreadsIInv

\* A transaction of a method that is one step.
LEMMA FileMoves ==
  ASSUME ThreadsIInv, UNCHANGED call, Numbered(queue')
  PROVE  ThreadsIInv'
  BY DEF ThreadsIInv, ThreadsTypeOK, TypeOK, BringsItem

\* The scan for expired rows only reads the queue.
LEMMA SelectExpiredInv ==
  ASSUME ThreadsIInv, NEW t \in Thread, NEW item \in Payload \cup {NoItem}, SelectExpired(t, item)
  PROVE  ThreadsIInv'
<1> DEFINE next == IF HasExpired(queue) THEN "count queued"
                   ELSE IF item = NoItem THEN "idle" ELSE "read next"
           c == [Idle EXCEPT !.at = next, !.item = IF next = "idle" THEN NoItem ELSE item]
<1>1. c \in Call /\ (c.at \in Enqueueing => c.item \in Payload)
  BY DEF Idle, Call, Point, Enqueueing
<1>2. call' = [call EXCEPT ![t] = c] /\ queue' = queue
  BY DEF SelectExpired
<1>3. Numbered(queue')
  BY <1>2, CallsTyped DEF ThreadsIInv
<1> HIDE DEF c
<1>4. QED
  BY <1>1, <1>2, <1>3, CallMoves

\* Every read and every transaction of a call keeps the invariant.
LEMMA StepInv ==
  ASSUME ThreadsIInv, NEW t \in Thread, Step(t)
  PROVE  ThreadsIInv'
<1>0. /\ call \in [Thread -> Call] /\ Numbered(queue) /\ Typed(queue)
      /\ call[t] \in Call /\ Idle \in Call /\ Idle.at \notin Enqueueing
      /\ call[t].at \in Enqueueing => call[t].item \in Payload
  BY CallsTyped DEF ThreadsIInv, Numbered, BringsItem, Idle, Call, Point, Enqueueing
<1>1. CASE CountQueued(t)
  <2> DEFINE n == Cardinality(Queued(queue))
             c == [call[t] EXCEPT !.at = "clear", !.count = n]
  <2>1. n \in Nat
    BY <1>0, NumberedCounts
  <2> HIDE DEF n
  <2>2. c \in Call /\ c.at \notin Enqueueing
    BY <1>0, <2>1 DEF Call, Point, Enqueueing
  <2>3. call' = [call EXCEPT ![t] = c] /\ Numbered(queue')
    BY <1>0, <1>1 DEF CountQueued, n
  <2> HIDE DEF c
  <2>4. QED
    BY <2>2, <2>3, CallMoves
<1>2. CASE ClearTransaction(t)
  <2> DEFINE cleared == DropAll(queue, call[t].count)
  <2>1. call[t].count \in Nat /\ call[t].item \in Payload \cup {NoItem}
    BY <1>0 DEF Call
  <2>2. Numbered(cleared)
    BY <1>0, <2>1, DropAllNumbered
  <2>3. call[t].item # NoItem => Numbered(Offer(cleared, call[t].item))
    BY <2>1, <2>2, OfferNumbered
  <2>4. Numbered(queue') /\ call' = [call EXCEPT ![t] = Idle]
    BY <1>2, <2>2, <2>3 DEF ClearTransaction, Commit, Return
  <2>5. QED
    BY <1>0, <2>4, CallMoves
<1>3. CASE ReadNext(t)
  <2> DEFINE c == [call[t] EXCEPT !.at = "read total", !.seq = queue.next]
  <2>0. call[t].item \in Payload
    BY <1>0, <1>3 DEF ReadNext, At, Enqueueing
  <2>1. c \in Call /\ c.item \in Payload
    BY <1>0, <2>0 DEF Call, Point, Typed
  <2>2. call' = [call EXCEPT ![t] = c] /\ Numbered(queue')
    BY <1>0, <1>3 DEF ReadNext
  <2> HIDE DEF c
  <2>3. QED
    BY <2>1, <2>2, CallMoves
<1>4. CASE ReadTotal(t)
  <2> DEFINE c == [call[t] EXCEPT !.at = IF Fits(queue, call[t].item) THEN "insert" ELSE "read dropped"]
  <2>0. call[t].item \in Payload
    BY <1>0, <1>4 DEF ReadTotal, At, Enqueueing
  <2>1. c \in Call /\ c.item \in Payload
    BY <1>0, <2>0 DEF Call, Point
  <2>2. call' = [call EXCEPT ![t] = c] /\ Numbered(queue')
    BY <1>0, <1>4 DEF ReadTotal, Goto
  <2> HIDE DEF c
  <2>3. QED
    BY <2>1, <2>2, CallMoves
<1>5. CASE InsertTransaction(t)
  <2>1. call[t].item \in Payload /\ call[t].seq \in Nat
    BY <1>0, <1>5 DEF InsertTransaction, At, Enqueueing, Call
  <2>2. Numbered(InsertRow(queue, call[t].seq, call[t].item))
    BY <1>0, <2>1, InsertNumbered
  <2>3. call' = [call EXCEPT ![t] = Idle] /\ Numbered(queue')
    BY <1>0, <1>5, <2>2 DEF InsertTransaction, Commit, Return
  <2>4. QED
    BY <1>0, <2>3, CallMoves
<1>6. CASE ReadDropped(t)
  <2> DEFINE c == [call[t] EXCEPT !.at = "drop", !.count = queue.dropped]
  <2>0. call[t].item \in Payload
    BY <1>0, <1>6 DEF ReadDropped, At, Enqueueing
  <2>1. c \in Call /\ c.item \in Payload
    BY <1>0, <2>0 DEF Call, Point, Typed
  <2>2. call' = [call EXCEPT ![t] = c] /\ Numbered(queue')
    BY <1>0, <1>6 DEF ReadDropped
  <2> HIDE DEF c
  <2>3. QED
    BY <2>1, <2>2, CallMoves
<1>7. CASE DropTransaction(t)
  <2>1. call[t].count \in Nat
    BY <1>0 DEF Call
  <2>2. Numbered(queue') /\ call' = [call EXCEPT ![t] = Idle]
    BY <1>0, <1>7, <2>1, DropCountNumbered DEF DropTransaction, Commit, Return
  <2>3. QED
    BY <1>0, <2>2, CallMoves
<1>8. QED
  BY <1>1, <1>2, <1>3, <1>4, <1>5, <1>6, <1>7 DEF Step

\* The methods that are one transaction, and the clock.
LEMMA SharedInv ==
  ASSUME ThreadsIInv, Shared, UNCHANGED call
  PROVE  ThreadsIInv'
<1>0. Numbered(queue) /\ Typed(queue) /\ Queued(queue) \subseteq Nat
  BY CallsTyped DEF ThreadsIInv, Numbered
<1>1. CASE \E n \in 0..MaxSequence : Acknowledge(n)
  BY <1>0, <1>1, AcknowledgeNumbered, FileMoves DEF Acknowledge, Commit
<1>2. CASE \E n \in 0..MaxSequence : Synchronize(n)
  <2>1. PICK n \in 0..MaxSequence : queue' = SynchronizeWithServerCursor(queue, n)
    BY <1>2 DEF Synchronize, Commit
  <2>2. n \in Nat
    OBVIOUS
  <2>3. QED
    BY <1>0, <2>1, <2>2, SynchronizeNumbered, FileMoves
<1>3. CASE ReconciliationQueued
  <2>1. Typed(queue') /\ queue'.rows = queue.rows
    BY <1>0, <1>3, ReconciliationEffect DEF ReconciliationQueued, Commit
  <2>2. Queued(queue') = Queued(queue)
    BY <2>1 DEF Queued
  <2>3. Numbered(queue')
    BY <1>0, <2>1, <2>2, SubsetNumbered
  <2>4. QED
    BY <2>3, FileMoves
<1>4. CASE Tick
  <2>1. Typed(queue') /\ SameButRows(queue', queue)
    BY <1>0, <1>4, AgeEffect DEF Tick, Commit
  <2>2. QED
    BY <1>0, <2>1, SameButRowsNumbered, FileMoves
<1>5. QED
  BY <1>1, <1>2, <1>3, <1>4 DEF Shared

\* A new process finds the rows and has no thread inside a method.
LEMMA RestartInv ==
  ASSUME ThreadsIInv, RestartThreads
  PROVE  ThreadsIInv'
<1>1. Numbered(queue')
  <2>1. Typed(queue') /\ SameButRows(queue', queue)
    BY MarkEffect DEF ThreadsIInv, ThreadsTypeOK, TypeOK, Numbered, RestartThreads, Restart,
                      Commit, Reopen, MarkPendingDeliveryUncertain
  <2>2. QED
    BY <2>1, SameButRowsNumbered DEF ThreadsIInv, ThreadsTypeOK, TypeOK
<1>2. Idle \in Call /\ Idle.at \notin Enqueueing
  BY DEF Idle, Call, Point, Enqueueing
<1>3. call' \in [Thread -> Call] /\ BringsItem'
  BY <1>2 DEF RestartThreads, BringsItem
<1>4. QED
  BY <1>1, <1>3 DEF ThreadsIInv, ThreadsTypeOK, TypeOK, Call, Point

\* Every step of a thread keeps the invariant.
LEMMA NextThreads == ThreadsIInv /\ [ThreadsNext]_threadVars => ThreadsIInv'
<1> SUFFICES ASSUME ThreadsIInv, [ThreadsNext]_threadVars
             PROVE  ThreadsIInv'
  OBVIOUS
<1>1. CASE \E t \in Enqueuer, p \in Payload : SelectExpired(t, p)
  BY <1>1, SelectExpiredInv DEF Thread
<1>2. CASE \E t \in Reader : SelectExpired(t, NoItem)
  BY <1>2, SelectExpiredInv DEF Thread
<1>3. CASE \E t \in Thread : Step(t)
  BY <1>3, StepInv
<1>4. CASE Shared /\ UNCHANGED call
  BY <1>4, SharedInv
<1>5. CASE RestartThreads
  BY <1>5, RestartInv
<1>6. CASE UNCHANGED threadVars
  BY <1>6 DEF threadVars, ThreadsIInv, ThreadsTypeOK, TypeOK, BringsItem
<1>7. QED
  BY <1>1, <1>2, <1>3, <1>4, <1>5, <1>6 DEF ThreadsNext

\* However the connector's threads interleave inside the queue's methods, and
\* wherever the process dies, the file holds well-formed rows and metadata.
THEOREM ThreadsTyped == ThreadsSpec => []ThreadsTypeOK
<1>1. ThreadsIInv => ThreadsTypeOK
  BY DEF ThreadsIInv
<1>2. QED
  BY InitThreads, NextThreads, <1>1, PTL DEF ThreadsSpec

\* Whatever the threads did to the numbering, synchronize_with_server_cursor
\* leaves a queue that continues the Core's cursor without a gap.
THEOREM ResumeRepairsNumbering == ThreadsSpec => []ResumeRepairs
<1>1. ThreadsIInv => ResumeRepairs
  <2> SUFFICES ASSUME Numbered(queue), NEW n \in 0..MaxSequence
               PROVE  Gapless(SynchronizeWithServerCursor(queue, n))
    BY CallsTyped DEF ThreadsIInv, ResumeRepairs
  <2>1. n \in Nat
    OBVIOUS
  <2>2. QED
    BY <2>1, SynchronizeRepairs DEF Sound
<1>2. QED
  BY InitThreads, NextThreads, <1>1, PTL DEF ThreadsSpec

=============================================================================
