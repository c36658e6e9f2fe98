------------------------ MODULE UplinkQueueStoreProofs ------------------------
(***************************************************************************)
(* What each method of the bounded queue does to its file, for every       *)
(* payload set, size table, byte and age limit.                            *)
(*                                                                         *)
(* The lemmas are in layers.  The effect of a method says which sequences  *)
(* it keeps and what it writes to the metadata, and needs the file only to *)
(* be typed.  A numbered file is one whose rows are finitely many natural  *)
(* numbers: all that is left when threads race for sequences, and enough   *)
(* to count rows.  A sound file is also free of gaps, which the methods    *)
(* keep when each runs alone.                                              *)
(*                                                                         *)
(* Upon soundness rest two more: the bytes of a file, a sum over its rows, *)
(* stay within the limit; and the tail of a file, its payloads in order,   *)
(* changes as the log of UplinkLog does.                                   *)
(***************************************************************************)
EXTENDS UplinkQueueStore, FiniteSetTheorems, SequenceTheorems, WellFoundedInduction, TLAPS

Sound(s) == Typed(s) /\ Gapless(s)

\* A numbered file can be counted.
LEMMA NumberedCounts ==
  ASSUME NEW s, Numbered(s)
  PROVE  /\ Cardinality(Queued(s)) \in Nat
         /\ Cardinality(Queued(s)) = 0 <=> Queued(s) = {}
  BY FS_CardinalityType, FS_EmptySet DEF Numbered

\* A sound file is numbered, and holds as many rows as its run is wide.
LEMMA SoundIsNumbered ==
  ASSUME NEW s, Sound(s)
  PROVE  /\ Numbered(s)
         /\ Cardinality(Queued(s)) = s.next - 1 - s.acked
<1>1. /\ s.acked + 1 \in Int /\ s.next - 1 \in Int /\ s.next > s.acked
      /\ s.acked \in Nat /\ s.next \in Nat
  BY DEF Sound, Typed, Gapless
<1>2. Queued(s) = (s.acked + 1)..(s.next - 1)
  BY DEF Sound, Gapless, Queued
<1>3. /\ IsFiniteSet((s.acked + 1)..(s.next - 1))
      /\ Cardinality((s.acked + 1)..(s.next - 1)) =
           IF s.acked + 1 > s.next - 1 THEN 0 ELSE s.next - 1 - (s.acked + 1) + 1
  BY <1>1, FS_Interval, Zenon
<1>4. Queued(s) \subseteq Nat
  BY <1>1, <1>2
<1>5. Numbered(s)
  BY <1>2, <1>3, <1>4 DEF Numbered, Sound
<1>6. QED
  BY <1>1, <1>2, <1>3, <1>5

-----------------------------------------------------------------------------
(* Effects.                                                                *)

\* Recording drops touches the count and the flag only.
LEMMA RecordDropEffect ==
  ASSUME NEW s, Typed(s), NEW n \in Nat
  PROVE  LET r == RecordDrop(s, n)
         IN  /\ Typed(r)
             /\ r.rows = s.rows /\ r.next = s.next /\ r.acked = s.acked
             /\ r.dropped = s.dropped + n
             /\ n = 0 => r.required = s.required
             /\ n # 0 => r.required = TRUE
<1>1. CASE n = 0
  BY <1>1 DEF RecordDrop, Typed
<1>2. CASE n # 0
  <2> DEFINE r == [s EXCEPT !.dropped = @ + n, !.required = TRUE]
  <2>1. /\ DOMAIN r = DOMAIN s
        /\ r.rows = s.rows /\ r.next = s.next /\ r.acked = s.acked
        /\ r.dropped = s.dropped + n /\ r.required = TRUE
    BY DEF Typed
  <2>2. Typed(r)
    BY <2>1 DEF Typed
  <2>3. QED
    BY <1>2, <2>1, <2>2 DEF RecordDrop
<1>3. QED
  BY <1>1, <1>2

\* Giving the whole tail up leaves no row, and numbering behind the cursor.
LEMMA DropAllEffect ==
  ASSUME NEW s, Typed(s), NEW n \in Nat
  PROVE  LET r == DropAll(s, n)
         IN  /\ Typed(r)
             /\ Queued(r) = {} /\ r.next = s.acked + 1 /\ r.acked = s.acked
             /\ r.dropped = s.dropped + n
             /\ n = 0 => r.required = s.required
             /\ n # 0 => r.required = TRUE
<1> DEFINE e == [s EXCEPT !.rows = Restrict(@, {}), !.next = s.acked + 1]
<1>1. /\ DOMAIN e = DOMAIN s /\ e.rows = Restrict(s.rows, {})
      /\ e.next = s.acked + 1 /\ e.acked = s.acked
      /\ e.dropped = s.dropped /\ e.required = s.required
  BY DEF Typed
<1>2. DOMAIN Restrict(s.rows, {}) = {} /\ Restrict(s.rows, {}) \in [{} -> Row]
  BY DEF Restrict
<1>3. Typed(e)
  BY <1>1, <1>2 DEF Typed
<1>4. DropAll(s, n) = RecordDrop(e, n)
  BY DEF DropAll
<1> HIDE DEF e
<1>5. LET r == RecordDrop(e, n)
      IN  /\ Typed(r)
          /\ r.rows = e.rows /\ r.next = e.next /\ r.acked = e.acked
          /\ r.dropped = e.dropped + n
          /\ n = 0 => r.required = e.required
          /\ n # 0 => r.required = TRUE
  BY <1>3, RecordDropEffect, Zenon
<1>6. QED
  BY <1>1, <1>2, <1>4, <1>5 DEF Queued

\* _expire_stale_queue: nothing, or the whole table, counted.
LEMMA ExpireEffect ==
  ASSUME NEW s, Numbered(s)
  PROVE  LET r == ExpireStale(s)
         IN  /\ Typed(r)
             /\ r.acked = s.acked
             /\ HasExpired(s) =>
                  /\ Queued(s) # {} /\ Queued(r) = {} /\ r.next = s.acked + 1
                  /\ r.dropped = s.dropped + Cardinality(Queued(s))
                  /\ r.required = TRUE
             /\ ~HasExpired(s) => r = s
<1>1. CASE HasExpired(s)
  <2>1. Queued(s) # {}
    BY <1>1 DEF HasExpired
  <2>2. Cardinality(Queued(s)) \in Nat \ {0}
    BY <2>1, NumberedCounts
  <2>3. QED
    BY <1>1, <2>1, <2>2, DropAllEffect DEF Numbered, ExpireStale
<1>2. CASE ~HasExpired(s)
  BY <1>2 DEF Numbered, ExpireStale
<1>3. QED
  BY <1>1, <1>2

\* An INSERT adds its row and moves next_sequence behind it.
LEMMA InsertEffect ==
  ASSUME NEW s, Typed(s), NEW n \in Nat, NEW p \in Payload
  PROVE  LET r == InsertRow(s, n, p)
         IN  /\ Typed(r)
             /\ Queued(r) = Queued(s) \cup {n}
             /\ r.rows[n].payload = p
             /\ \A i \in Queued(s) \ {n} : r.rows[i] = s.rows[i]
             /\ r.next = n + 1 /\ r.acked = s.acked
             /\ r.dropped = s.dropped /\ r.required = s.required
<1> DEFINE rows == [i \in Queued(s) \cup {n} |-> IF i = n THEN NewRow(p) ELSE s.rows[i]]
           r == [s EXCEPT !.next = n + 1, !.rows = rows]
<1>1. /\ DOMAIN r = DOMAIN s /\ r.rows = rows /\ r.next = n + 1
      /\ r.acked = s.acked /\ r.dropped = s.dropped /\ r.required = s.required
  BY DEF Typed
<1>2. NewRow(p) \in Row /\ NewRow(p).payload = p
  BY LimitAssumption DEF NewRow, Row
<1>3. rows \in [Queued(s) \cup {n} -> Row]
  BY <1>2 DEF Typed, Queued
<1>4. Typed(r)
  BY <1>1, <1>3 DEF Typed
<1>5. r = InsertRow(s, n, p)
  BY DEF InsertRow
<1>6. QED
  BY <1>1, <1>2, <1>3, <1>4, <1>5 DEF Queued

\* The row it adds is new.
LEMMA InsertedRow ==
  ASSUME NEW s, Typed(s), NEW n, NEW p
  PROVE  InsertRow(s, n, p).rows[n] = NewRow(p)
  BY DEF Typed, InsertRow

\* The two changes of a row that are not its arrival or its end.
SameButRows(r, s) ==
  /\ Queued(r) = Queued(s)
  /\ \A i \in Queued(s) : r.rows[i].payload = s.rows[i].payload
  /\ r.next = s.next /\ r.acked = s.acked
  /\ r.dropped = s.dropped /\ r.required = s.required

\* Attempt markers change which rows are fenced, never which rows there are.
LEMMA MarkEffect ==
  ASSUME NEW s, Typed(s), NEW seqs
  PROVE  LET r == MarkDeliveryAttempted(s, seqs)
         IN  Typed(r) /\ SameButRows(r, s)
<1> DEFINE rows == [i \in Queued(s) |->
                      [s.rows[i] EXCEPT !.attempted = @ \/ i \in seqs]]
           r == [s EXCEPT !.rows = rows]
<1>1. ASSUME NEW i \in Queued(s)
      PROVE  rows[i] \in Row /\ rows[i].payload = s.rows[i].payload
  <2>1. s.rows[i] \in Row
    BY DEF Typed, Queued
  <2>2. (s.rows[i].attempted \/ i \in seqs) \in BOOLEAN
    OBVIOUS
  <2>3. QED
    BY <2>1, <2>2 DEF Row
<1>2. rows \in [Queued(s) -> Row]
  BY <1>1
<1>3. /\ DOMAIN r = DOMAIN s /\ r.rows = rows /\ r.next = s.next
      /\ r.acked = s.acked /\ r.dropped = s.dropped /\ r.required = s.required
  BY DEF Typed
<1>4. Typed(r) /\ SameButRows(r, s)
  BY <1>1, <1>2, <1>3 DEF Typed, Queued, SameButRows
<1>5. QED
  BY <1>4 DEF MarkDeliveryAttempted

\* A tick of the clock changes ages alone.
LEMMA AgeEffect ==
  ASSUME NEW s, Typed(s)
  PROVE  Typed(Age(s)) /\ SameButRows(Age(s), s)
<1> DEFINE rows == [i \in Queued(s) |->
                      [s.rows[i] EXCEPT !.age = IF @ > MaxAge THEN @ ELSE @ + 1]]
           r == [s EXCEPT !.rows = rows]
<1>1. ASSUME NEW i \in Queued(s)
      PROVE  rows[i] \in Row /\ rows[i].payload = s.rows[i].payload
  <2>1. s.rows[i] \in Row
    BY DEF Typed, Queued
  <2>2. (IF s.rows[i].age > MaxAge THEN s.rows[i].age ELSE s.rows[i].age + 1)
          \in 0..(MaxAge + 1)
    BY <2>1, LimitAssumption DEF Row
  <2>3. QED
    BY <2>1, <2>2 DEF Row
<1>2. rows \in [Queued(s) -> Row]
  BY <1>1
<1>3. /\ DOMAIN r = DOMAIN s /\ r.rows = rows /\ r.next = s.next
      /\ r.acked = s.acked /\ r.dropped = s.dropped /\ r.required = s.required
  BY DEF Typed
<1>4. Typed(r) /\ SameButRows(r, s)
  BY <1>1, <1>2, <1>3 DEF Typed, Queued, SameButRows
<1>5. QED
  BY <1>4 DEF Age

\* Acknowledging deletes a prefix and moves the cursors forward, never back.
LEMMA AcknowledgeEffect ==
  ASSUME NEW s, Typed(s), NEW n \in Nat
  PROVE  LET r == AcknowledgeThrough(s, n)
         IN  /\ Typed(r)
             /\ Queued(r) = {i \in Queued(s) : i > n}
             /\ \A i \in Queued(r) : r.rows[i] = s.rows[i]
             /\ r.acked = IF n > s.acked THEN n ELSE s.acked
             /\ r.next = IF s.next <= n THEN n + 1 ELSE s.next
             /\ r.dropped = s.dropped /\ r.required = s.required
<1> DEFINE d == DeleteThrough(s, n)
           kept == {i \in Queued(s) : i > n}
           r == AcknowledgeThrough(s, n)
<1>1. /\ DOMAIN d = DOMAIN s /\ d.rows = Restrict(s.rows, kept) /\ d.next = s.next
      /\ d.acked = s.acked /\ d.dropped = s.dropped /\ d.required = s.required
  BY DEF Typed, DeleteThrough
<1>2. /\ DOMAIN r = DOMAIN s /\ r.rows = d.rows
      /\ r.acked = IF n > s.acked THEN n ELSE s.acked
      /\ r.next = IF s.next <= n THEN n + 1 ELSE s.next
      /\ r.dropped = s.dropped /\ r.required = s.required
  BY <1>1 DEF Typed, AcknowledgeThrough
<1>3. r.rows \in [kept -> Row] /\ \A i \in kept : r.rows[i] = s.rows[i]
  BY <1>1, <1>2 DEF Restrict, Typed, Queued
<1>4. Typed(r)
  BY <1>2, <1>3 DEF Typed
<1>5. QED
  BY <1>2, <1>3, <1>4 DEF Queued

\* The sequences a new session's cursor leaves in the queue.
Behind(s, n) == {i \in Queued(s) : i > n}

\* Adopting the Core's cursor keeps a tail that continues it, and gives any
\* other tail up, counted.
LEMMA SynchronizeEffect ==
  ASSUME NEW s, Numbered(s), NEW n \in Nat
  PROVE  LET r     == SynchronizeWithServerCursor(s, n)
             count == Cardinality(Behind(s, n))
         IN  /\ Typed(r) /\ r.acked = n
             /\ count \in Nat
             /\ Contiguous(Behind(s, n), n + 1) =>
                  /\ Queued(r) = Behind(s, n)
                  /\ \A i \in Queued(r) : r.rows[i] = s.rows[i]
                  /\ r.next = n + 1 + count
                  /\ r.dropped = s.dropped /\ r.required = s.required
             /\ ~Contiguous(Behind(s, n), n + 1) =>
                  /\ Queued(r) = {} /\ r.next = n + 1
                  /\ r.dropped = s.dropped + count
                  /\ r.required = TRUE
<1> DEFINE kept  == Behind(s, n)
           count == Cardinality(kept)
           k     == [DeleteThrough(s, n) EXCEPT !.acked = n]
           empty == [k EXCEPT !.rows = Restrict(@, {}), !.next = n + 1]
           tail  == [k EXCEPT !.next = n + 1 + count]
           r     == SynchronizeWithServerCursor(s, n)
<1>0. Typed(s)
  BY DEF Numbered
<1>1. /\ DOMAIN k = DOMAIN s /\ k.rows = Restrict(s.rows, kept)
      /\ k.next = s.next /\ k.acked = n
      /\ k.dropped = s.dropped /\ k.required = s.required
  BY <1>0 DEF Typed, DeleteThrough, Behind
<1>2. kept \subseteq Queued(s)
  BY DEF Behind
<1>3. Queued(k) = kept /\ k.rows \in [kept -> Row] /\ \A i \in kept : k.rows[i] = s.rows[i]
  BY <1>0, <1>1, <1>2 DEF Restrict, Typed, Queued
<1>4. IsFiniteSet(kept) /\ count \in Nat
  BY <1>2, FS_Subset, FS_CardinalityType DEF Numbered
<1>5. CASE ~Contiguous(kept, n + 1)
  <2>1. kept # {}
    BY <1>5 DEF Contiguous
  <2>2. count \in Nat \ {0}
    BY <1>4, <2>1, FS_EmptySet
  <2>3. /\ DOMAIN empty = DOMAIN s /\ empty.rows = Restrict(k.rows, {})
        /\ empty.next = n + 1 /\ empty.acked = n
        /\ empty.dropped = s.dropped /\ empty.required = s.required
    BY <1>0, <1>1 DEF Typed
  <2>4. DOMAIN Restrict(k.rows, {}) = {} /\ Restrict(k.rows, {}) \in [{} -> Row]
    BY DEF Restrict
  <2>5. Typed(empty)
    BY <1>0, <2>3, <2>4 DEF Typed
  <2>6. r = RecordDrop(empty, count)
    BY <1>3, <1>5 DEF SynchronizeWithServerCursor
  <2> HIDE DEF empty, r, count
  <2>7. /\ Typed(r) /\ r.rows = empty.rows /\ r.next = empty.next /\ r.acked = empty.acked
        /\ r.dropped = empty.dropped + count /\ (count # 0 => r.required = TRUE)
    BY <1>4, <2>5, <2>6, RecordDropEffect
  <2>8. QED
    BY <1>4, <1>5, <2>2, <2>3, <2>4, <2>7 DEF Queued, r, count
<1>6. CASE Contiguous(kept, n + 1)
  <2>1. /\ DOMAIN tail = DOMAIN s /\ tail.rows = k.rows
        /\ tail.next = n + 1 + count /\ tail.acked = n
        /\ tail.dropped = s.dropped /\ tail.required = s.required
    BY <1>0, <1>1 DEF Typed
  <2>2. Typed(tail)
    BY <1>0, <1>3, <1>4, <2>1 DEF Typed
  <2>3. r = tail
    BY <1>3, <1>6 DEF SynchronizeWithServerCursor
  <2>4. QED
    BY <1>3, <1>4, <1>6, <2>1, <2>2, <2>3 DEF Queued
<1>7. QED
  BY <1>5, <1>6

-----------------------------------------------------------------------------
(* A resumed session repairs the numbering, whatever the file was before.  *)

\* synchronize_with_server_cursor leaves exactly the run behind the cursor it
\* was given: the tail it keeps is an interval, and next_sequence is computed
\* from the number of rows in it.
LEMMA SynchronizeRepairs ==
  ASSUME NEW s, Numbered(s), NEW n \in Nat
  PROVE  Sound(SynchronizeWithServerCursor(s, n))
<1> DEFINE kept  == Behind(s, n)
           count == Cardinality(kept)
           r     == SynchronizeWithServerCursor(s, n)
<1>1. Typed(r) /\ r.acked = n /\ count \in Nat
  BY SynchronizeEffect
<1>2. CASE ~Contiguous(kept, n + 1)
  <2>1. Queued(r) = {} /\ r.next = n + 1
    BY <1>2, SynchronizeEffect
  <2>2. QED
    BY <1>1, <2>1 DEF Sound, Gapless, Queued
<1>3. CASE Contiguous(kept, n + 1)
  <2>1. Queued(r) = kept /\ r.next = n + 1 + count
    BY <1>3, SynchronizeEffect
  <2>2. kept = (n + 1)..(n + count)
    <3>1. CASE kept = {}
      <4>1. count = 0
        BY <3>1, FS_EmptySet
      <4>2. (n + 1)..(n + 0) = {}
        OBVIOUS
      <4>3. QED
        BY <3>1, <4>1, <4>2, Zenon
    <3>2. CASE kept # {}
      <4>1. PICK latest \in kept : kept = (n + 1)..latest
        BY <1>3, <3>2 DEF Contiguous
      <4>2. latest \in Int /\ latest >= n + 1
        BY <4>1 DEF Numbered, Behind
      <4>3. Cardinality((n + 1)..latest) =
              IF n + 1 > latest THEN 0 ELSE latest - (n + 1) + 1
        <5>1. n + 1 \in Int
          OBVIOUS
        <5>2. QED
          BY <4>2, <5>1, FS_Interval, Zenon
      <4>4. count = Cardinality((n + 1)..latest)
        BY <4>1, Zenon
      <4>5. latest = n + count
        BY <4>2, <4>3, <4>4
      <4>6. QED
        BY <4>1, <4>5, Zenon
    <3>3. QED
      BY <3>1, <3>2
  <2>3. QED
    BY <1>1, <2>1, <2>2 DEF Sound, Gapless, Queued
<1>4. QED
  BY <1>2, <1>3

-----------------------------------------------------------------------------
(* Every method takes a sound file to a sound file.                        *)

\* A freshly created file is sound.
LEMMA FreshSound == Sound(Fresh)
  BY DEF Sound, Typed, Gapless, Fresh, Row

\* Expiry leaves the file as it was, or an empty run behind the cursor.
LEMMA ExpireStaleSound ==
  ASSUME NEW s, Sound(s)
  PROVE  Sound(ExpireStale(s))
<1> DEFINE r == ExpireStale(s)
<1>1. CASE HasExpired(s)
  <2>1. Typed(r) /\ Queued(r) = {} /\ r.next = s.acked + 1 /\ r.acked = s.acked
    BY <1>1, SoundIsNumbered, ExpireEffect
  <2>2. QED
    BY <2>1 DEF Sound, Typed, Gapless, Queued
<1>2. CASE ~HasExpired(s)
  BY <1>2, SoundIsNumbered, ExpireEffect
<1>3. QED
  BY <1>1, <1>2

\* An item is appended at next_sequence, or refused and counted.
LEMMA OfferSound ==
  ASSUME NEW s, Sound(s), NEW p \in Payload
  PROVE  Sound(Offer(s, p))
<1>0. /\ Typed(s) /\ s.next \in Nat /\ s.acked \in Nat /\ s.next > s.acked
      /\ Queued(s) = (s.acked + 1)..(s.next - 1)
  BY DEF Sound, Typed, Gapless, Queued
<1>1. Sound(InsertRow(s, s.next, p))
  <2> DEFINE n == s.next
             r == InsertRow(s, n, p)
  <2>0. n \in Nat
    BY <1>0
  <2> HIDE DEF n
  <2>1. /\ Typed(r) /\ Queued(r) = Queued(s) \cup {n}
        /\ r.next = n + 1 /\ r.acked = s.acked
    BY <1>0, <2>0, InsertEffect
  <2>2. QED
    BY <1>0, <2>1 DEF Sound, Gapless, Queued, n
<1>2. Sound(RecordDrop(s, 1))
  <2> DEFINE r == RecordDrop(s, 1)
  <2>1. Typed(r) /\ r.rows = s.rows /\ r.next = s.next /\ r.acked = s.acked
    BY <1>0, RecordDropEffect
  <2>2. QED
    BY <1>0, <2>1 DEF Sound, Gapless, Queued
<1>3. QED
  BY <1>1, <1>2 DEF Offer

\* enqueue leaves a sound file.
LEMMA EnqueueSound ==
  ASSUME NEW s, Sound(s), NEW p \in Payload
  PROVE  Sound(Enqueue(s, p))
  BY ExpireStaleSound, OfferSound DEF Enqueue

\* What changes rows alone keeps a sound file sound.
LEMMA SameButRowsSound ==
  ASSUME NEW s, NEW r, Sound(s), Typed(r), SameButRows(r, s)
  PROVE  Sound(r)
  BY DEF Sound, Gapless, SameButRows, Queued

\* mark_delivery_attempted leaves a sound file.
LEMMA MarkSound ==
  ASSUME NEW s, Sound(s), NEW seqs
  PROVE  Sound(MarkDeliveryAttempted(s, seqs))
  BY MarkEffect, SameButRowsSound DEF Sound

\* A file that grows older stays sound.
LEMMA AgeSound ==
  ASSUME NEW s, Sound(s)
  PROVE  Sound(Age(s))
  BY AgeEffect, SameButRowsSound DEF Sound

\* Acknowledging moves the start of the run forward, at most past its end.
LEMMA AcknowledgeSound ==
  ASSUME NEW s, Sound(s), NEW n \in Nat
  PROVE  Sound(AcknowledgeThrough(s, n))
<1> DEFINE r == AcknowledgeThrough(s, n)
<1>1. /\ s.next \in Nat /\ s.acked \in Nat /\ s.next > s.acked
      /\ Queued(s) = (s.acked + 1)..(s.next - 1)
  BY DEF Sound, Typed, Gapless, Queued
<1>2. /\ Typed(r) /\ Queued(r) = {i \in Queued(s) : i > n}
      /\ r.acked = IF n > s.acked THEN n ELSE s.acked
      /\ r.next = IF s.next <= n THEN n + 1 ELSE s.next
  BY AcknowledgeEffect DEF Sound
<1>3. Queued(r) = (r.acked + 1)..(r.next - 1)
  BY <1>1, <1>2
<1>4. r.next > r.acked
  BY <1>1, <1>2
<1>5. QED
  BY <1>2, <1>3, <1>4 DEF Sound, Gapless, Queued

\* Adopting the Core's cursor leaves the run behind that cursor.
LEMMA SynchronizeSound ==
  ASSUME NEW s, Sound(s), NEW n \in Nat
  PROVE  Sound(SynchronizeWithServerCursor(s, n))
  BY SoundIsNumbered, SynchronizeRepairs

\* Clearing the reconciliation flag touches the flag only.
LEMMA ReconciliationEffect ==
  ASSUME NEW s, Typed(s)
  PROVE  LET r == MarkReconciliationQueued(s)
         IN  /\ Typed(r) /\ r.rows = s.rows /\ r.next = s.next
             /\ r.acked = s.acked /\ r.dropped = s.dropped /\ r.required = FALSE
  BY DEF Typed, MarkReconciliationQueued

\* mark_reconciliation_queued leaves a sound file.
LEMMA ReconciliationSound ==
  ASSUME NEW s, Sound(s)
  PROVE  Sound(MarkReconciliationQueued(s))
  BY ReconciliationEffect DEF Sound, Gapless

-----------------------------------------------------------------------------
(* No method loses a row without a trace.                                  *)

\* The rows of s that r has no more, and that no acknowledgement covers.
Gone(s, r) == {i \in Queued(s) : i > r.acked /\ i \notin Queued(r)}

\* dropped_count rose by at least their number, and a snapshot is required.
Accounted(s, r) ==
  Gone(s, r) # {} =>
    /\ r.dropped - s.dropped >= Cardinality(Gone(s, r))
    /\ r.required

\* A method that only deletes what the cursor it leaves covers needs no count.
LEMMA NothingGone ==
  ASSUME NEW s, NEW r, \A i \in Queued(s) : i > r.acked => i \in Queued(r)
  PROVE  Accounted(s, r)
  BY DEF Accounted, Gone

\* Counting the whole table is counting enough.
LEMMA CountedAll ==
  ASSUME NEW s, Numbered(s), NEW r,
         r.dropped \in Nat, r.dropped >= s.dropped + Cardinality(Queued(s)),
         r.required
  PROVE  Accounted(s, r)
<1>1. Gone(s, r) \subseteq Queued(s)
  BY DEF Gone
<1>2. /\ Cardinality(Gone(s, r)) <= Cardinality(Queued(s))
      /\ Cardinality(Gone(s, r)) \in Nat /\ Cardinality(Queued(s)) \in Nat
  BY <1>1, FS_Subset, FS_CardinalityType DEF Numbered
<1>3. s.dropped \in Nat
  BY DEF Numbered, Typed
<1>4. QED
  BY <1>2, <1>3 DEF Accounted

\* An item that is taken or refused takes no other with it.
LEMMA OfferEffect ==
  ASSUME NEW s, Typed(s), NEW p \in Payload
  PROVE  LET r == Offer(s, p)
         IN  /\ Typed(r) /\ Queued(s) \subseteq Queued(r) /\ r.acked = s.acked
             /\ r.dropped \in {s.dropped, s.dropped + 1}
             /\ s.required => r.required
<1>1. s.next \in Nat
  BY DEF Typed
<1>2. CASE Fits(s, p)
  BY <1>1, <1>2, InsertEffect DEF Offer
<1>3. CASE ~Fits(s, p)
  BY <1>3, RecordDropEffect DEF Offer, Queued
<1>4. QED
  BY <1>2, <1>3

\* _expire_stale counts what it drops.
LEMMA ExpireAccounted ==
  ASSUME NEW s, Numbered(s)
  PROVE  Accounted(s, ExpireStale(s))
<1>1. CASE HasExpired(s)
  <2> DEFINE r == ExpireStale(s)
  <2>1. /\ Typed(r) /\ r.required = TRUE
        /\ r.dropped = s.dropped + Cardinality(Queued(s))
    BY <1>1, ExpireEffect
  <2> HIDE DEF r
  <2>2. r.dropped \in Nat /\ r.dropped >= s.dropped + Cardinality(Queued(s)) /\ r.required
    BY <2>1 DEF Typed
  <2>3. Accounted(s, r)
    BY <2>2, CountedAll, Zenon
  <2>4. QED
    BY <2>3 DEF r
<1>2. CASE ~HasExpired(s)
  BY <1>2, ExpireEffect, NothingGone
<1>3. QED
  BY <1>1, <1>2

\* enqueue expires first: the drops of both steps add up.
LEMMA EnqueueAccounted ==
  ASSUME NEW s, Numbered(s), NEW p \in Payload
  PROVE  Accounted(s, Enqueue(s, p))
<1> DEFINE e == ExpireStale(s)
           r == Enqueue(s, p)
<1>1. Typed(e) /\ r = Offer(e, p)
  BY ExpireEffect DEF Enqueue
<1>2. /\ Typed(r) /\ Queued(e) \subseteq Queued(r) /\ r.acked = e.acked
      /\ r.dropped \in {e.dropped, e.dropped + 1}
      /\ e.required => r.required
  BY <1>1, OfferEffect
<1>3. CASE HasExpired(s)
  <2>1. e.dropped = s.dropped + Cardinality(Queued(s)) /\ e.required
    BY <1>3, ExpireEffect
  <2>2. e.dropped \in Nat /\ r.dropped \in Nat
    BY <1>1, <1>2 DEF Typed
  <2>3. r.dropped >= s.dropped + Cardinality(Queued(s)) /\ r.required
    BY <1>2, <2>1, <2>2
  <2>4. QED
    BY <2>2, <2>3, CountedAll
<1>4. CASE ~HasExpired(s)
  BY <1>2, <1>4, ExpireEffect, NothingGone
<1>5. QED
  BY <1>3, <1>4

\* acknowledge_through removes what is acknowledged.
LEMMA AcknowledgeAccounted ==
  ASSUME NEW s, Numbered(s), NEW n \in Nat
  PROVE  Accounted(s, AcknowledgeThrough(s, n))
<1> DEFINE r == AcknowledgeThrough(s, n)
<1>1. s.acked \in Nat /\ Queued(s) \subseteq Nat /\ Typed(s)
  BY DEF Numbered, Typed
<1>2. /\ Queued(r) = {i \in Queued(s) : i > n}
      /\ r.acked = IF n > s.acked THEN n ELSE s.acked
      /\ r.dropped = s.dropped
  BY <1>1, AcknowledgeEffect
<1> HIDE DEF r
<1>3. \A i \in Queued(s) : i > r.acked => i \in Queued(r)
  BY <1>1, <1>2
<1>4. Accounted(s, r)
  BY <1>2, <1>3, NothingGone
<1>5. QED
  BY <1>4 DEF r

\* A tail that does not follow the cursor is counted row by row.
LEMMA SynchronizeAccounted ==
  ASSUME NEW s, Numbered(s), NEW n \in Nat
  PROVE  Accounted(s, SynchronizeWithServerCursor(s, n))
<1> DEFINE r == SynchronizeWithServerCursor(s, n)
<1>1. r.acked = n
  BY SynchronizeEffect
<1>2. CASE Contiguous(Behind(s, n), n + 1)
  <2>1. Queued(r) = Behind(s, n)
    BY <1>2, SynchronizeEffect
  <2>2. QED
    BY <1>1, <2>1, NothingGone DEF Behind
<1>3. CASE ~Contiguous(Behind(s, n), n + 1)
  <2>1. /\ Queued(r) = {} /\ r.required
        /\ r.dropped = s.dropped + Cardinality(Behind(s, n))
        /\ Cardinality(Behind(s, n)) \in Nat
    BY <1>3, SynchronizeEffect
  <2>2. Gone(s, r) = Behind(s, n)
    BY <1>1, <2>1 DEF Gone, Behind
  <2>3. s.dropped \in Nat
    BY DEF Numbered, Typed
  <2>4. QED
    BY <2>1, <2>2, <2>3 DEF Accounted
<1>4. QED
  BY <1>2, <1>3

-----------------------------------------------------------------------------
(* The total of a table.  TotalBytes is a fold, and a fold is a function   *)
(* on the subsets of the table that is defined by recursion: that there is *)
(* one, that it does not depend on the order in which rows are taken, and  *)
(* that a part never weighs more than the whole, each by a smallest        *)
(* exception that cannot be.                                               *)

\* The fold over a table takes the member Pick returns first, then the rest.
Pick(s) == CHOOSE x \in s : TRUE

SumOver(f, g, s) == IF s = {} THEN 0 ELSE f[Pick(s)] + g[s \ {Pick(s)}]

\* g is the function the fold computes, on the sets of a family.
Sums(g, f, family) == g = [s \in family |-> SumOver(f, g, s)]

\* A set of natural numbers that is not empty has a least member.
LEMMA LeastNumber ==
  ASSUME NEW U \in SUBSET Nat, U # {}
  PROVE  \E m \in U : \A y \in U : m <= y
<1> DEFINE R == {r \in Nat \X Nat : r[1] < r[2]}
<1>1. R = OpToRel(<, Nat)
  BY DEF OpToRel
<1>2. IsWellFoundedOn(R, Nat)
  BY <1>1, NatLessThanWellFounded
<1>3. \E m \in U : \A y \in U : ~(<<y, m>> \in R)
  <2> HIDE DEF R
  <2>1. QED
    BY <1>2, WFMin
<1>4. PICK m \in U : \A y \in U : ~(<<y, m>> \in R)
  BY <1>3, Zenon
<1>5. \A y \in U : m <= y
  <2> TAKE y \in U
  <2>1. m \in Nat /\ y \in Nat
    OBVIOUS
  <2>2. ~(y < m)
    BY <1>4, <2>1
  <2>3. QED
    BY <2>1, <2>2
<1>6. QED
  BY <1>5

\* Of a family of subsets of a finite set, some member has no smaller one below
\* it: what holds of a set whenever it holds of the sets below holds of all.
LEMMA LeastSubset ==
  ASSUME NEW S, IsFiniteSet(S), NEW U \in SUBSET SUBSET S, U # {}
  PROVE  \E m \in U : \A x \in m : m \ {x} \notin U
<1> DEFINE sizes == {Cardinality(u) : u \in U}
<1>1. ASSUME NEW u \in U
      PROVE  IsFiniteSet(u) /\ Cardinality(u) \in Nat
  <2>1. u \in SUBSET S
    OBVIOUS
  <2>2. IsFiniteSet(u)
    BY <2>1, FS_Subset
  <2>3. QED
    BY <2>2, FS_CardinalityType
<1>2. sizes \in SUBSET Nat /\ sizes # {}
  BY <1>1
<1>3. PICK k \in sizes : \A y \in sizes : k <= y
  <2> HIDE DEF sizes
  <2>1. QED
    BY <1>2, LeastNumber
<1>4. PICK m \in U : k = Cardinality(m)
  OBVIOUS
<1>5. ASSUME NEW x \in m, m \ {x} \in U
      PROVE  FALSE
  <2>1. Cardinality(m \ {x}) = Cardinality(m) - 1
    BY <1>1, FS_RemoveElement
  <2>2. Cardinality(m \ {x}) >= Cardinality(m)
    BY <1>3, <1>4, <1>5
  <2>3. Cardinality(m) \in Nat
    BY <1>1
  <2>4. QED
    BY <2>1, <2>2, <2>3
<1>6. QED
  BY <1>5

\* Taking a member away leaves a subset of a smaller size.
LEMMA PickedAway ==
  ASSUME NEW S, IsFiniteSet(S), NEW s \in SUBSET S, s # {}
  PROVE  /\ Pick(s) \in s
         /\ s \ {Pick(s)} \in SUBSET S
         /\ IsFiniteSet(s) /\ Cardinality(s) \in Nat
         /\ Cardinality(s \ {Pick(s)}) = Cardinality(s) - 1
<1>1. Pick(s) \in s
  BY DEF Pick
<1>2. IsFiniteSet(s)
  BY FS_Subset
<1>3. Cardinality(s) \in Nat
  BY <1>2, FS_CardinalityType
<1>4. Cardinality(s \ {Pick(s)}) = Cardinality(s) - 1
  BY <1>1, <1>2, FS_RemoveElement
<1>5. QED
  BY <1>1, <1>2, <1>3, <1>4

\* The function the fold's recursion asks for exists: it is built from one size
\* of sets to the next.
LEMMA SumExists ==
  ASSUME NEW f, NEW S, IsFiniteSet(S)
  PROVE  \E g : Sums(g, f, SUBSET S)
<1> DEFINE Upto(k) == {s \in SUBSET S : Cardinality(s) <= k}
           Bad     == {k \in Nat : ~\E g : Sums(g, f, Upto(k))}
<1>1. Bad = {}
  <2> SUFFICES ASSUME Bad # {}
               PROVE  FALSE
    OBVIOUS
  <2>1. Bad \in SUBSET Nat
    OBVIOUS
  <2>2. PICK k \in Bad : \A y \in Bad : k <= y
    <3> HIDE DEF Bad
    <3>1. QED
      BY <2>1, LeastNumber
  <2>3. k \in Nat /\ ~\E g : Sums(g, f, Upto(k))
    OBVIOUS
  <2>4. CASE k = 0
    <3> DEFINE g == [s \in Upto(k) |-> 0]
    <3>1. ASSUME NEW s \in Upto(k)
          PROVE  s = {}
      <4>1. s \in SUBSET S /\ Cardinality(s) <= 0
        BY <2>4
      <4>2. CASE s # {}
        <5>1. Cardinality(s) \in Nat /\ Cardinality(s \ {Pick(s)}) = Cardinality(s) - 1
              /\ s \ {Pick(s)} \in SUBSET S
          BY <4>1, <4>2, PickedAway
        <5>2. Cardinality(s \ {Pick(s)}) \in Nat
          BY <5>1, FS_Subset, FS_CardinalityType
        <5>3. QED
          BY <4>1, <5>1, <5>2
      <4>3. QED
        BY <4>2
    <3>2. \A s \in Upto(k) : SumOver(f, g, s) = 0
      <4> HIDE DEF Upto, g
      <4>1. QED
        BY <3>1 DEF SumOver
    <3>3. [s \in Upto(k) |-> SumOver(f, g, s)] = g
      <4> DEFINE h == [s \in Upto(k) |-> SumOver(f, g, s)]
      <4> HIDE DEF Upto
      <4>1. \A s \in Upto(k) : h[s] = 0 /\ g[s] = 0
        BY <3>2
      <4>2. QED
        BY <4>1
    <3>4. Sums(g, f, Upto(k))
      <4> HIDE DEF Upto, g
      <4>1. QED
        BY <3>3 DEF Sums
    <3>5. QED
      BY <2>3, <3>4
  <2>5. CASE k # 0
    <3>1. k - 1 \in Nat /\ ~(k <= k - 1)
      BY <2>3, <2>5
    <3>8. k - 1 \notin Bad
      <4> HIDE DEF Bad
      <4>1. QED
        BY <2>2, <3>1
    <3>2. PICK g : Sums(g, f, Upto(k - 1))
      BY <3>1, <3>8
    <3> DEFINE h == [s \in Upto(k) |-> SumOver(f, g, s)]
    <3>3. ASSUME NEW s \in Upto(k)
          PROVE  SumOver(f, h, s) = SumOver(f, g, s)
      <4>1. CASE s = {}
        BY <4>1 DEF SumOver
      <4>2. CASE s # {}
        <5> DEFINE t == s \ {Pick(s)}
        <5>1. s \in SUBSET S /\ Cardinality(s) <= k
          OBVIOUS
        <5>2. /\ t \in SUBSET S /\ Cardinality(s) \in Nat
              /\ Cardinality(t) = Cardinality(s) - 1
          BY <4>2, <5>1, PickedAway
        <5>3. t \in Upto(k - 1) /\ t \in Upto(k)
          BY <2>3, <5>1, <5>2
        <5> HIDE DEF Upto, t, Bad
        <5>4. h[t] = SumOver(f, g, t)
          BY <5>3
        <5>5. g[t] = SumOver(f, g, t)
          BY <3>2, <5>3 DEF Sums
        <5>6. h[t] = g[t]
          BY <5>4, <5>5
        <5> HIDE DEF h
        <5>7. QED
          BY <4>2, <5>6 DEF SumOver, t
      <4>3. QED
        BY <4>1, <4>2
    <3>4. h = [s \in Upto(k) |-> SumOver(f, h, s)]
      <4> DEFINE i == [s \in Upto(k) |-> SumOver(f, h, s)]
      <4> HIDE DEF Upto
      <4>1. \A s \in Upto(k) : i[s] = h[s]
        BY <3>3
      <4>2. QED
        BY <4>1
    <3> HIDE DEF h, Upto
    <3>5. Sums(h, f, Upto(k))
      BY <3>4 DEF Sums
    <3>6. QED
      BY <2>3, <3>5
  <2>6. QED
    BY <2>4, <2>5
<1>2. Cardinality(S) \in Nat
  BY FS_CardinalityType
<1>3. Upto(Cardinality(S)) = SUBSET S
  BY FS_Subset
<1> HIDE DEF Upto
<1>4. \E g : Sums(g, f, Upto(Cardinality(S)))
  BY <1>1, <1>2
<1>5. QED
  BY <1>3, <1>4

\* A sum over a set is the picked member's number and the sum over the rest.
AddsUp(g, f, S) ==
  \A s \in SUBSET S :
    /\ s = {} => g[s] = 0
    /\ s # {} => /\ Pick(s) \in s /\ f[Pick(s)] \in Nat
                 /\ g[s] = f[Pick(s)] + g[s \ {Pick(s)}]

\* So does the fold.
LEMMA SumTakes ==
  ASSUME NEW f, NEW S, IsFiniteSet(S), f \in [S -> Nat],
         NEW g, Sums(g, f, SUBSET S)
  PROVE  AddsUp(g, f, S)
<1> SUFFICES ASSUME NEW s \in SUBSET S
             PROVE  /\ s = {} => g[s] = 0
                    /\ s # {} => /\ Pick(s) \in s /\ f[Pick(s)] \in Nat
                                 /\ g[s] = f[Pick(s)] + g[s \ {Pick(s)}]
  BY DEF AddsUp
<1>1. g[s] = SumOver(f, g, s)
  BY DEF Sums
<1>2. s = {} => g[s] = 0
  BY <1>1 DEF SumOver
<1>3. CASE s # {}
  <2>1. Pick(s) \in s
    BY <1>3 DEF Pick
  <2>2. f[Pick(s)] \in Nat
    BY <2>1
  <2>3. QED
    BY <1>1, <1>3, <2>1, <2>2 DEF SumOver
<1>4. QED
  BY <1>2, <1>3

\* Sums are natural numbers.
LEMMA SumIsNat ==
  ASSUME NEW f, NEW S, IsFiniteSet(S), f \in [S -> Nat],
         NEW g, Sums(g, f, SUBSET S)
  PROVE  \A s \in SUBSET S : g[s] \in Nat
<1>0. AddsUp(g, f, S)
  BY SumTakes
<1> DEFINE Bad == {s \in SUBSET S : g[s] \notin Nat}
<1> SUFFICES ASSUME Bad # {}
             PROVE  FALSE
  OBVIOUS
<1>1. PICK s \in Bad : \A x \in s : s \ {x} \notin Bad
  <2>1. Bad \in SUBSET SUBSET S
    OBVIOUS
  <2> HIDE DEF Bad
  <2>2. QED
    BY <2>1, LeastSubset
<1>2. s \in SUBSET S /\ g[s] \notin Nat
  OBVIOUS
<1>3. s # {}
  <2> SUFFICES ASSUME s = {}
               PROVE  g[s] \in Nat
    BY <1>2
  <2>1. g[s] = 0
    BY <1>0, <1>2 DEF AddsUp
  <2>2. QED
    BY <2>1
<1>4. Pick(s) \in s /\ f[Pick(s)] \in Nat /\ g[s] = f[Pick(s)] + g[s \ {Pick(s)}]
  BY <1>0, <1>2, <1>3 DEF AddsUp
<1>5. s \ {Pick(s)} \in SUBSET S /\ s \ {Pick(s)} \notin Bad
  BY <1>1, <1>2, <1>4
<1>6. g[s \ {Pick(s)}] \in Nat
  BY <1>5
<1>7. QED
  BY <1>2, <1>4, <1>6

\* Two tables that agree on the rows of a set have the same sum over it.
Agree(h, g, T) == \A x \in T : h[x] = g[x]

LEMMA SumAgrees ==
  ASSUME NEW f, NEW S, IsFiniteSet(S), f \in [S -> Nat],
         NEW g, Sums(g, f, SUBSET S),
         NEW e, NEW T \in SUBSET S, e \in [T -> Nat], Agree(e, f, T),
         NEW h, Sums(h, e, SUBSET T)
  PROVE  Agree(h, g, SUBSET T)
<1>0. IsFiniteSet(T)
  BY FS_Subset
<1>a. AddsUp(g, f, S)
  BY SumTakes
<1>b. AddsUp(h, e, T)
  BY <1>0, SumTakes
<1> DEFINE Bad == {s \in SUBSET T : h[s] # g[s]}
<1> SUFFICES ASSUME Bad # {}
             PROVE  FALSE
  BY DEF Agree
<1>1. PICK s \in Bad : \A x \in s : s \ {x} \notin Bad
  <2>1. Bad \in SUBSET SUBSET T
    OBVIOUS
  <2> HIDE DEF Bad
  <2>2. QED
    BY <1>0, <2>1, LeastSubset
<1>2. s \in SUBSET T /\ s \in SUBSET S /\ h[s] # g[s]
  OBVIOUS
<1>3. s # {}
  BY <1>a, <1>b, <1>2 DEF AddsUp
<1>4. Pick(s) \in s /\ h[s] = e[Pick(s)] + h[s \ {Pick(s)}]
  BY <1>b, <1>2, <1>3 DEF AddsUp
<1>5. g[s] = f[Pick(s)] + g[s \ {Pick(s)}]
  BY <1>a, <1>2, <1>3 DEF AddsUp
<1>6. s \ {Pick(s)} \in SUBSET T /\ s \ {Pick(s)} \notin Bad
  BY <1>1, <1>2, <1>4
<1>7. h[s \ {Pick(s)}] = g[s \ {Pick(s)}] /\ e[Pick(s)] = f[Pick(s)]
  BY <1>2, <1>4, <1>6 DEF Agree
<1>8. QED
  BY <1>2, <1>4, <1>5, <1>7

\* It does not matter which member is taken first.
TakesAny(g, f, S) == \A s \in SUBSET S : \A y \in s : g[s] = f[y] + g[s \ {y}]

LEMMA SumTakesAny ==
  ASSUME NEW f, NEW S, IsFiniteSet(S), f \in [S -> Nat],
         NEW g, Sums(g, f, SUBSET S)
  PROVE  TakesAny(g, f, S)
<1>0. AddsUp(g, f, S)
  BY SumTakes
<1> DEFINE Bad == {s \in SUBSET S : ~\A y \in s : g[s] = f[y] + g[s \ {y}]}
<1> SUFFICES ASSUME Bad # {}
             PROVE  FALSE
  BY DEF TakesAny
<1>1. PICK s \in Bad : \A x \in s : s \ {x} \notin Bad
  <2>1. Bad \in SUBSET SUBSET S
    OBVIOUS
  <2> HIDE DEF Bad
  <2>2. QED
    BY <2>1, LeastSubset
<1>2. PICK y \in s : g[s] # f[y] + g[s \ {y}]
  OBVIOUS
<1>3. s \in SUBSET S /\ s # {}
  BY <1>2
<1> DEFINE x == Pick(s)
           both == (s \ {x}) \ {y}
<1>4. x \in s /\ g[s] = f[x] + g[s \ {x}]
  BY <1>0, <1>3 DEF AddsUp
<1>5. x # y
  BY <1>2, <1>4
<1>6. /\ s \ {x} \in SUBSET S /\ s \ {x} \notin Bad /\ y \in s \ {x}
      /\ s \ {y} \in SUBSET S /\ s \ {y} \notin Bad /\ x \in s \ {y}
  <2> HIDE DEF x, Bad
  <2>1. QED
    BY <1>1, <1>3, <1>4, <1>5
<1>7. (s \ {y}) \ {x} = both
  OBVIOUS
<1> HIDE DEF x
<1>8. g[s \ {x}] = f[y] + g[both]
  BY <1>6
<1>9. g[s \ {y}] = f[x] + g[both]
  <2>1. g[s \ {y}] = f[x] + g[(s \ {y}) \ {x}]
    <3> HIDE DEF both
    <3>1. QED
      BY <1>6
  <2>2. QED
    BY <1>7, <2>1
<1>10. both \in SUBSET S
  BY <1>3
<1> HIDE DEF both
<1>11. f[x] \in Nat /\ f[y] \in Nat /\ g[both] \in Nat
  BY <1>3, <1>4, <1>10, SumIsNat
<1>12. QED
  BY <1>2, <1>4, <1>8, <1>9, <1>11

\* A part of a set never sums to more than the set.
LEMMA SumShrinks ==
  ASSUME NEW f, NEW S, IsFiniteSet(S), f \in [S -> Nat],
         NEW g, Sums(g, f, SUBSET S)
  PROVE  \A s \in SUBSET S : \A t \in SUBSET s : g[t] <= g[s]
<1>0. /\ \A s \in SUBSET S : g[s] \in Nat
      /\ \A s \in SUBSET S : \A y \in s : g[s] = f[y] + g[s \ {y}]
  BY SumIsNat, SumTakesAny DEF TakesAny
<1> DEFINE Bad == {s \in SUBSET S : ~\A t \in SUBSET s : g[t] <= g[s]}
<1> SUFFICES ASSUME Bad # {}
             PROVE  FALSE
  OBVIOUS
<1>1. PICK s \in Bad : \A x \in s : s \ {x} \notin Bad
  <2>1. Bad \in SUBSET SUBSET S
    OBVIOUS
  <2> HIDE DEF Bad
  <2>2. QED
    BY <2>1, LeastSubset
<1>2. PICK t \in SUBSET s : ~(g[t] <= g[s])
  OBVIOUS
<1>3. s \in SUBSET S
  OBVIOUS
<1>4. t # s
  <2>1. g[s] \in Nat
    BY <1>0, <1>3
  <2>2. QED
    BY <1>2, <2>1
<1>5. PICK y \in s : y \notin t
  BY <1>4
<1>6. s \ {y} \in SUBSET S /\ s \ {y} \notin Bad /\ t \in SUBSET (s \ {y})
  <2> HIDE DEF Bad
  <2>1. QED
    BY <1>1, <1>3, <1>5
<1>7. g[t] <= g[s \ {y}]
  BY <1>6
<1>8. g[s] = f[y] + g[s \ {y}]
  BY <1>0, <1>3
<1>9. f[y] \in Nat /\ g[t] \in Nat /\ g[s \ {y}] \in Nat
  BY <1>0, <1>3, <1>6
<1>10. QED
  BY <1>2, <1>7, <1>8, <1>9

\* What SELECT SUM(byte_size) adds up.
SizesOf(s) == [i \in Queued(s) |-> ByteSize[s.rows[i].payload]]

LEMMA SizesAreNat ==
  ASSUME NEW s, Typed(s)
  PROVE  SizesOf(s) \in [Queued(s) -> Nat]
<1>1. ASSUME NEW i \in Queued(s)
      PROVE  ByteSize[s.rows[i].payload] \in Nat
  <2>1. s.rows[i] \in Row
    BY DEF Typed, Queued
  <2>2. s.rows[i].payload \in Payload
    BY <2>1 DEF Row
  <2>3. QED
    BY <2>2, SizeAssumption
<1>2. QED
  BY <1>1 DEF SizesOf

\* The total of the table is the sum of its sizes.
LEMMA TotalIsSum ==
  ASSUME NEW s, Numbered(s)
  PROVE  \E g : Sums(g, SizesOf(s), SUBSET Queued(s)) /\ TotalBytes(s) = g[Queued(s)]
<1> DEFINE f == SizesOf(s)
           g == CHOOSE h : h = [t \in SUBSET DOMAIN f |-> SumOver(f, h, t)]
<1>1. TotalBytes(s) = FoldFunction(+, 0, f)
  BY DEF TotalBytes, SizesOf
<1>2. DOMAIN f = Queued(s)
  BY DEF SizesOf
<1> HIDE DEF f
<1>3. TotalBytes(s) = g[DOMAIN f]
  BY <1>1, Zenon
     DEF FoldFunction, FoldFunctionOnSet, MapThenFoldSet, SumOver, Pick
<1>4. \E h : h = [t \in SUBSET DOMAIN f |-> SumOver(f, h, t)]
  <2>1. \E h : Sums(h, f, SUBSET Queued(s))
    BY SumExists DEF Numbered
  <2>2. QED
    BY <1>2, <2>1 DEF Sums
<1>5. g = [t \in SUBSET DOMAIN f |-> SumOver(f, g, t)]
  BY <1>4, Zenon
<1> HIDE DEF g
<1>6. Sums(g, f, SUBSET Queued(s))
  BY <1>2, <1>5 DEF Sums
<1>7. TotalBytes(s) = g[Queued(s)]
  BY <1>2, <1>3
<1>8. QED
  BY <1>6, <1>7 DEF f

\* Rows that leave, and rows that keep their payload, never raise the total.
LEMMA TotalShrinks ==
  ASSUME NEW s, Numbered(s), NEW r, Numbered(r), Queued(r) \subseteq Queued(s),
         \A i \in Queued(r) : r.rows[i].payload = s.rows[i].payload
  PROVE  /\ TotalBytes(r) \in Nat /\ TotalBytes(s) \in Nat
         /\ TotalBytes(r) <= TotalBytes(s)
<1> DEFINE f == SizesOf(s)
           e == SizesOf(r)
           S == Queued(s)
           T == Queued(r)
<1>1. f \in [S -> Nat] /\ e \in [T -> Nat] /\ IsFiniteSet(S) /\ IsFiniteSet(T)
  BY SizesAreNat DEF Numbered
<1>2. Agree(e, f, T)
  BY DEF SizesOf, Agree
<1>3. PICK g : Sums(g, f, SUBSET S) /\ TotalBytes(s) = g[S]
  BY TotalIsSum
<1>4. PICK h : Sums(h, e, SUBSET T) /\ TotalBytes(r) = h[T]
  BY TotalIsSum
<1>5. T \in SUBSET S
  OBVIOUS
<1> HIDE DEF f, e, S, T
<1>6. Agree(h, g, SUBSET T)
  BY <1>1, <1>2, <1>3, <1>4, <1>5, SumAgrees
<1>7. \A t \in SUBSET S : g[t] \in Nat
  BY <1>1, <1>3, SumIsNat
<1>8. \A u \in SUBSET S : \A t \in SUBSET u : g[t] <= g[u]
  BY <1>1, <1>3, SumShrinks
<1>9. T \in SUBSET T /\ S \in SUBSET S
  OBVIOUS
<1>10. h[T] = g[T] /\ g[T] \in Nat /\ g[S] \in Nat /\ g[T] <= g[S]
  BY <1>5, <1>6, <1>7, <1>8, <1>9 DEF Agree
<1>11. QED
  BY <1>3, <1>4, <1>10

\* A row that is added raises it by its own size.
LEMMA TotalGrows ==
  ASSUME NEW s, Numbered(s), NEW r, Numbered(r), NEW n, n \notin Queued(s),
         Queued(r) = Queued(s) \cup {n},
         \A i \in Queued(s) : r.rows[i].payload = s.rows[i].payload
  PROVE  /\ TotalBytes(r) \in Nat /\ TotalBytes(s) \in Nat
         /\ TotalBytes(r) = TotalBytes(s) + ByteSize[r.rows[n].payload]
<1> DEFINE f == SizesOf(r)
           e == SizesOf(s)
           S == Queued(r)
           T == Queued(s)
<1>1. f \in [S -> Nat] /\ e \in [T -> Nat] /\ IsFiniteSet(S) /\ IsFiniteSet(T)
  BY SizesAreNat DEF Numbered
<1>2. Agree(e, f, T)
  BY DEF SizesOf, Agree
<1>3. PICK g : Sums(g, f, SUBSET S) /\ TotalBytes(r) = g[S]
  BY TotalIsSum
<1>4. PICK h : Sums(h, e, SUBSET T) /\ TotalBytes(s) = h[T]
  BY TotalIsSum
<1>5. T \in SUBSET S /\ S \in SUBSET S /\ T \in SUBSET T /\ n \in S /\ S \ {n} = T
  OBVIOUS
<1>6. f[n] = ByteSize[r.rows[n].payload]
  BY DEF SizesOf
<1> HIDE DEF f, e, S, T
<1>7. Agree(h, g, SUBSET T)
  BY <1>1, <1>2, <1>3, <1>4, <1>5, SumAgrees
<1>8. \A t \in SUBSET S : g[t] \in Nat
  BY <1>1, <1>3, SumIsNat
<1>9. TakesAny(g, f, S)
  BY <1>1, <1>3, SumTakesAny
<1>10. g[S] = f[n] + g[T]
  BY <1>5, <1>9 DEF TakesAny
<1>11. f[n] \in Nat /\ g[T] \in Nat /\ g[S] \in Nat /\ h[T] = g[T]
  BY <1>1, <1>5, <1>7, <1>8 DEF Agree
<1>12. QED
  BY <1>3, <1>4, <1>6, <1>10, <1>11

-----------------------------------------------------------------------------
(* No method lets the total grow past max_bytes.                           *)

Within(s) == TotalBytes(s) <= MaxBytes

\* r is s, with the same rows or fewer of them.
Lighter(r, s) ==
  /\ Queued(r) \subseteq Queued(s)
  /\ \A i \in Queued(r) : r.rows[i].payload = s.rows[i].payload

\* A method that adds no row keeps the limit.
LEMMA LighterWithin ==
  ASSUME NEW s, Sound(s), Within(s), NEW r, Sound(r), Lighter(r, s)
  PROVE  Within(r)
<1>1. Numbered(s) /\ Numbered(r)
  BY SoundIsNumbered
<1>2. /\ TotalBytes(r) \in Nat /\ TotalBytes(s) \in Nat
      /\ TotalBytes(r) <= TotalBytes(s)
  BY <1>1, TotalShrinks DEF Lighter
<1>3. MaxBytes \in Nat
  BY LimitAssumption
<1>4. QED
  BY <1>2, <1>3 DEF Within

\* A fresh file holds nothing.
LEMMA FreshWithin == Within(Fresh)
<1>1. Sound(Fresh) /\ Numbered(Fresh)
  BY FreshSound, SoundIsNumbered
<1>2. Queued(Fresh) = {}
  BY DEF Fresh, Queued
<1>3. PICK g : Sums(g, SizesOf(Fresh), SUBSET {}) /\ TotalBytes(Fresh) = g[{}]
  BY <1>1, <1>2, TotalIsSum
<1>4. SizesOf(Fresh) \in [{} -> Nat] /\ IsFiniteSet({})
  BY <1>1, <1>2, SizesAreNat, FS_EmptySet DEF Numbered
<1>5. AddsUp(g, SizesOf(Fresh), {})
  BY <1>3, <1>4, SumTakes
<1>6. TotalBytes(Fresh) = 0
  BY <1>3, <1>5 DEF AddsUp
<1>7. QED
  BY <1>6, LimitAssumption DEF Within

\* The item that is taken fits beside what is queued.
LEMMA OfferWithin ==
  ASSUME NEW s, Sound(s), Within(s), NEW p \in Payload
  PROVE  Within(Offer(s, p))
<1> DEFINE n == s.next
           r == Offer(s, p)
<1>1. /\ Typed(s) /\ Numbered(s) /\ n \in Nat /\ n \notin Queued(s)
  BY SoundIsNumbered DEF Sound, Typed, Gapless, Queued
<1>2. Sound(r) /\ Numbered(r)
  BY OfferSound, SoundIsNumbered
<1>3. CASE Fits(s, p)
  <2>1. r = InsertRow(s, n, p)
    BY <1>3 DEF Offer
  <2> HIDE DEF r, n
  <2>2. /\ Queued(r) = Queued(s) \cup {n} /\ r.rows[n].payload = p
        /\ \A i \in Queued(s) \ {n} : r.rows[i] = s.rows[i]
    BY <1>1, <2>1, InsertEffect
  <2>3. \A i \in Queued(s) : r.rows[i].payload = s.rows[i].payload
    BY <1>1, <2>2
  <2>4. TotalBytes(r) = TotalBytes(s) + ByteSize[r.rows[n].payload]
    BY <1>1, <1>2, <2>2, <2>3, TotalGrows
  <2>5. TotalBytes(r) = TotalBytes(s) + ByteSize[p]
    BY <2>2, <2>4
  <2>6. TotalBytes(r) <= MaxBytes
    BY <1>3, <2>5 DEF Fits
  <2>7. QED
    BY <2>6 DEF Within, r
<1>4. CASE ~Fits(s, p)
  <2>1. r = RecordDrop(s, 1)
    BY <1>4 DEF Offer
  <2> HIDE DEF r
  <2>2. r.rows = s.rows
    BY <1>1, <2>1, RecordDropEffect
  <2>3. Lighter(r, s)
    BY <2>2 DEF Lighter, Queued
  <2>4. Within(r)
    BY <1>2, <2>3, LighterWithin
  <2>5. QED
    BY <2>4 DEF r
<1>5. QED
  BY <1>3, <1>4

\* Expiry empties the table or leaves it alone.
LEMMA ExpireWithin ==
  ASSUME NEW s, Sound(s), Within(s)
  PROVE  Within(ExpireStale(s))
<1> DEFINE r == ExpireStale(s)
<1>1. Sound(r) /\ Numbered(s)
  BY ExpireStaleSound, SoundIsNumbered
<1>2. Queued(r) = {} \/ r = s
  BY <1>1, ExpireEffect
<1> HIDE DEF r
<1>3. Lighter(r, s)
  BY <1>2 DEF Lighter
<1>4. Within(r)
  BY <1>1, <1>3, LighterWithin
<1>5. QED
  BY <1>4 DEF r

\* The item of an enqueue is weighed against what its expiry leaves.
LEMMA EnqueueWithin ==
  ASSUME NEW s, Sound(s), Within(s), NEW p \in Payload
  PROVE  Within(Enqueue(s, p))
<1>1. Sound(ExpireStale(s)) /\ Within(ExpireStale(s))
  BY ExpireStaleSound, ExpireWithin
<1>2. QED
  BY <1>1, OfferWithin DEF Enqueue

\* Markers and ages weigh nothing.
LEMMA SameButRowsWithin ==
  ASSUME NEW s, Sound(s), Within(s), NEW r, Sound(r), SameButRows(r, s)
  PROVE  Within(r)
<1>1. Lighter(r, s)
  BY DEF Lighter, SameButRows
<1>2. QED
  BY <1>1, LighterWithin

\* An acknowledgement only takes rows away.
LEMMA AcknowledgeWithin ==
  ASSUME NEW s, Sound(s), Within(s), NEW n \in Nat
  PROVE  Within(AcknowledgeThrough(s, n))
<1> DEFINE r == AcknowledgeThrough(s, n)
<1>1. Sound(r)
  BY AcknowledgeSound
<1>2. /\ Queued(r) = {i \in Queued(s) : i > n}
      /\ \A i \in Queued(r) : r.rows[i] = s.rows[i]
  BY AcknowledgeEffect DEF Sound
<1> HIDE DEF r
<1>3. Lighter(r, s)
  BY <1>2 DEF Lighter
<1>4. Within(r)
  BY <1>1, <1>3, LighterWithin
<1>5. QED
  BY <1>4 DEF r

\* So does a session's cursor.
LEMMA SynchronizeWithin ==
  ASSUME NEW s, Sound(s), Within(s), NEW n \in Nat
  PROVE  Within(SynchronizeWithServerCursor(s, n))
<1> DEFINE r == SynchronizeWithServerCursor(s, n)
<1>1. Sound(r) /\ Numbered(s)
  BY SynchronizeSound, SoundIsNumbered
<1>2. \/ Queued(r) = {}
      \/ Queued(r) = Behind(s, n) /\ \A i \in Queued(r) : r.rows[i] = s.rows[i]
  BY <1>1, SynchronizeEffect
<1> HIDE DEF r
<1>3. Lighter(r, s)
  BY <1>2 DEF Lighter, Behind
<1>4. Within(r)
  BY <1>1, <1>3, LighterWithin
<1>5. QED
  BY <1>4 DEF r

-----------------------------------------------------------------------------
(* The file as a log: its payloads in the order of their sequences.        *)

TailOf(s) ==
  [i \in 1..Cardinality(Queued(s)) |-> s.rows[s.acked + i].payload]

\* A sound file's tail is a sequence of payloads as long as its run is wide.
LEMMA TailFacts ==
  ASSUME NEW s, Sound(s)
  PROVE  /\ TailOf(s) \in Seq(Payload)
         /\ Len(TailOf(s)) = Cardinality(Queued(s))
         /\ Len(TailOf(s)) = s.next - 1 - s.acked
         /\ Len(TailOf(s)) \in Nat
         /\ s.next \in Nat /\ s.acked \in Nat
         /\ Queued(s) = (s.acked + 1)..(s.next - 1)
         /\ \A i \in 1..(s.next - 1 - s.acked) : TailOf(s)[i] = s.rows[s.acked + i].payload
         /\ TailOf(s) = <<>> <=> Queued(s) = {}
<1> DEFINE len == Cardinality(Queued(s))
<1>1. /\ s.next \in Nat /\ s.acked \in Nat /\ s.next > s.acked
      /\ Queued(s) = (s.acked + 1)..(s.next - 1)
  BY DEF Sound, Typed, Gapless, Queued
<1>2. len = s.next - 1 - s.acked /\ len \in Nat
  BY <1>1, SoundIsNumbered
<1>3. ASSUME NEW i \in 1..len
      PROVE  s.rows[s.acked + i].payload \in Payload
  <2>1. s.acked + i \in DOMAIN s.rows
    BY <1>1, <1>2 DEF Queued
  <2>2. s.rows[s.acked + i] \in Row
    BY <2>1 DEF Sound, Typed
  <2>3. QED
    BY <2>2 DEF Row
<1> HIDE DEF len
<1>4. TailOf(s) \in [1..len -> Payload]
  BY <1>3 DEF TailOf, len
<1>5. TailOf(s) \in Seq(Payload) /\ Len(TailOf(s)) = len
  BY <1>2, <1>4
<1>6. \A i \in 1..len : TailOf(s)[i] = s.rows[s.acked + i].payload
  BY DEF TailOf, len
<1>7. TailOf(s) = <<>> <=> len = 0
  BY <1>2, <1>5, EmptySeq
<1>8. len = 0 <=> Queued(s) = {}
  BY SoundIsNumbered, NumberedCounts DEF len
<1>9. QED
  BY <1>1, <1>2, <1>5, <1>6, <1>7, <1>8 DEF len

\* Two sound files with the same run of the same payloads have the same tail.
LEMMA SameTail ==
  ASSUME NEW s, NEW r, Sound(s), Sound(r), r.acked = s.acked, Queued(r) = Queued(s),
         \A i \in Queued(s) : r.rows[i].payload = s.rows[i].payload
  PROVE  TailOf(r) = TailOf(s)
<1> DEFINE len == s.next - 1 - s.acked
<1>1. /\ TailOf(s) \in Seq(Payload) /\ Len(TailOf(s)) = len
      /\ s.next \in Nat /\ s.acked \in Nat
      /\ Queued(s) = (s.acked + 1)..(s.next - 1)
      /\ \A i \in 1..len : TailOf(s)[i] = s.rows[s.acked + i].payload
  BY TailFacts
<1>2. /\ TailOf(r) \in Seq(Payload) /\ Len(TailOf(r)) = Cardinality(Queued(r))
      /\ Len(TailOf(r)) = r.next - 1 - r.acked
      /\ \A i \in 1..(r.next - 1 - r.acked) : TailOf(r)[i] = r.rows[r.acked + i].payload
  BY TailFacts
<1>3. Cardinality(Queued(s)) = len
  BY TailFacts
<1>4. Len(TailOf(r)) = len /\ r.next - 1 - r.acked = len
  BY <1>2, <1>3
<1>5. ASSUME NEW i \in 1..len
      PROVE  TailOf(r)[i] = TailOf(s)[i]
  <2>1. s.acked + i \in Queued(s)
    BY <1>1
  <2>2. TailOf(r)[i] = r.rows[s.acked + i].payload
    BY <1>2, <1>4
  <2>3. TailOf(s)[i] = s.rows[s.acked + i].payload
    BY <1>1
  <2>4. QED
    BY <2>1, <2>2, <2>3
<1>6. QED
  BY <1>1, <1>2, <1>4, <1>5, SeqEqual

\* An item that is taken becomes the last of the tail.
LEMMA InsertTail ==
  ASSUME NEW s, Sound(s), NEW p \in Payload, Fits(s, p)
  PROVE  /\ TailOf(Offer(s, p)) = Append(TailOf(s), p)
         /\ Offer(s, p).acked = s.acked
         /\ Offer(s, p).dropped = s.dropped /\ Offer(s, p).required = s.required
<1> DEFINE n == s.next
           r == Offer(s, p)
<1>0. n \in Nat /\ Typed(s)
  BY TailFacts DEF Sound
<1>1. r = InsertRow(s, n, p)
  BY DEF Offer
<1> HIDE DEF n, r
<1>2. /\ Queued(r) = Queued(s) \cup {n}
      /\ r.rows[n].payload = p
      /\ \A i \in Queued(s) \ {n} : r.rows[i] = s.rows[i]
      /\ r.next = n + 1 /\ r.acked = s.acked
      /\ r.dropped = s.dropped /\ r.required = s.required
  BY <1>0, <1>1, InsertEffect
<1>3. Sound(r)
  BY OfferSound DEF r
<1>4. Len(TailOf(r)) = Len(TailOf(s)) + 1
  BY <1>2, <1>3, TailFacts DEF n
<1>5. Append(TailOf(s), p) \in Seq(Payload) /\ Len(Append(TailOf(s), p)) = Len(TailOf(s)) + 1
  BY TailFacts
<1>6. ASSUME NEW i \in 1..Len(TailOf(r))
      PROVE  TailOf(r)[i] = Append(TailOf(s), p)[i]
  <2>1. CASE i = Len(TailOf(r))
    <3>1. Len(TailOf(s)) = n - 1 - s.acked /\ n \in Nat /\ s.acked \in Nat
      BY TailFacts DEF n
    <3>2. i = Len(TailOf(s)) + 1
      BY <1>4, <2>1
    <3>3. r.acked + i = n
      <4>1. r.acked = s.acked
        BY <1>2
      <4>2. s.acked + (n - 1 - s.acked + 1) = n
        BY <3>1
      <4>3. QED
        BY <3>1, <3>2, <4>1, <4>2
    <3>4. Append(TailOf(s), p)[i] = p
      BY <1>5, <3>2, TailFacts, AppendProperties
    <3>5. i \in 1..(r.next - 1 - r.acked)
      BY <1>3, TailFacts
    <3>6. TailOf(r)[i] = r.rows[r.acked + i].payload
      BY <1>3, <3>5, TailFacts
    <3>7. QED
      BY <1>2, <3>3, <3>4, <3>6
  <2>2. CASE i # Len(TailOf(r))
    <3>1. i \in 1..Len(TailOf(s))
      BY <1>4, <2>2, TailFacts
    <3>2. s.acked + i \in Queued(s) \ {n}
      BY <3>1, TailFacts DEF n
    <3>3. TailOf(r)[i] = r.rows[r.acked + i].payload
      BY <1>3, TailFacts
    <3>4. TailOf(s)[i] = s.rows[s.acked + i].payload
      BY <3>1, TailFacts
    <3>5. Append(TailOf(s), p)[i] = TailOf(s)[i]
      BY <3>1, TailFacts
    <3>6. QED
      BY <1>2, <3>2, <3>3, <3>4, <3>5
  <2>3. QED
    BY <2>1, <2>2
<1>7. TailOf(r) \in Seq(Payload)
  BY <1>3, TailFacts
<1>8. TailOf(r) = Append(TailOf(s), p)
  BY <1>4, <1>5, <1>6, <1>7, SeqEqual
<1>9. QED
  BY <1>2, <1>8 DEF r

\* An item that is refused changes the evidence alone.
LEMMA RefuseTail ==
  ASSUME NEW s, Sound(s), NEW p \in Payload, ~Fits(s, p)
  PROVE  /\ TailOf(Offer(s, p)) = TailOf(s)
         /\ Offer(s, p).acked = s.acked
         /\ Offer(s, p).dropped = s.dropped + 1 /\ Offer(s, p).required = TRUE
<1> DEFINE r == Offer(s, p)
<1>1. r = RecordDrop(s, 1) /\ Typed(s)
  BY DEF Offer, Sound
<1> HIDE DEF r
<1>2. LET t == RecordDrop(s, 1)
      IN  /\ Typed(t)
          /\ t.rows = s.rows /\ t.next = s.next /\ t.acked = s.acked
          /\ t.dropped = s.dropped + 1
          /\ 1 = 0 => t.required = s.required
          /\ 1 # 0 => t.required = TRUE
  BY <1>1, RecordDropEffect
<1>3. Sound(r)
  BY OfferSound DEF r
<1>4. TailOf(r) = TailOf(s)
  BY <1>1, <1>2, <1>3, SameTail DEF Queued
<1>5. QED
  BY <1>1, <1>2, <1>4 DEF r

\* An expiry gives the tail up, all of it.
LEMMA ExpireTail ==
  ASSUME NEW s, Sound(s), HasExpired(s)
  PROVE  /\ TailOf(s) # <<>> /\ TailOf(ExpireStale(s)) = <<>>
         /\ ExpireStale(s).acked = s.acked
         /\ ExpireStale(s).dropped = s.dropped + Len(TailOf(s))
         /\ ExpireStale(s).required = TRUE
<1> DEFINE r == ExpireStale(s)
<1>1. /\ r.acked = s.acked /\ Queued(s) # {} /\ Queued(r) = {}
      /\ r.dropped = s.dropped + Cardinality(Queued(s)) /\ r.required = TRUE
  BY SoundIsNumbered, ExpireEffect
<1>2. Sound(r)
  BY ExpireStaleSound
<1>3. QED
  BY <1>1, <1>2, TailFacts

\* What changes rows alone is invisible.
LEMMA SameButRowsTail ==
  ASSUME NEW s, NEW r, Sound(s), Typed(r), SameButRows(r, s)
  PROVE  /\ TailOf(r) = TailOf(s) /\ r.acked = s.acked
         /\ r.dropped = s.dropped /\ r.required = s.required
<1>1. Sound(r)
  BY SameButRowsSound
<1>2. QED
  BY <1>1, SameTail DEF SameButRows

\* A sequence is a suffix of another when it has the elements from k + 1 on.
LEMMA SuffixIsSubSeq ==
  ASSUME NEW S, NEW t \in Seq(S), NEW u \in Seq(S), NEW k \in Nat,
         Len(u) = IF k >= Len(t) THEN 0 ELSE Len(t) - k,
         \A i \in 1..Len(u) : u[i] = t[k + i]
  PROVE  u = IF k >= Len(t) THEN <<>> ELSE SubSeq(t, k + 1, Len(t))
<1> DEFINE len == Len(t)
<1>1. len \in Nat /\ Len(u) \in Nat
  BY LenProperties
<1>2. CASE k >= len
  BY <1>2, EmptySeq
<1>3. CASE k < len
  <2> DEFINE a == k + 1
             v == SubSeq(t, a, len)
  <2>1. a \in Int /\ len \in Int /\ a <= len /\ len - a + 1 = len - k
    BY <1>1, <1>3
  <2>2. ASSUME NEW i \in a..len
        PROVE  t[i] \in S
    <3>1. i \in 1..len
      BY <1>1
    <3>2. QED
      BY <3>1, ElementOfSeq
  <2> HIDE DEF a, len
  <2>3. /\ v \in Seq(S) /\ Len(v) = IF a <= len THEN len - a + 1 ELSE 0
        /\ \A i \in 1..(len - a + 1) : v[i] = t[a + i - 1]
    BY <2>1, <2>2, SubSeqProperties
  <2> HIDE DEF v
  <2>4. Len(u) = Len(v) /\ Len(u) = len - a + 1
    <3>1. Len(v) = len - a + 1
      BY <2>1, <2>3
    <3>2. Len(u) = len - k
      BY <1>1, <1>3 DEF len
    <3>3. QED
      BY <2>1, <3>1, <3>2
  <2>5. ASSUME NEW i \in 1..Len(u)
        PROVE  u[i] = v[i]
    <3>1. v[i] = t[a + i - 1]
      BY <2>3, <2>4
    <3>2. a + i - 1 = k + i
      BY DEF a
    <3>3. QED
      BY <3>1, <3>2
  <2>6. u = v
    BY <2>3, <2>4, <2>5, SeqEqual
  <2>7. QED
    BY <1>1, <1>3, <2>6 DEF v, a, len
<1>4. QED
  BY <1>1, <1>2, <1>3

\* The tail of a file that kept the rows behind n, and all of them, is what is
\* left of the old tail.
LEMMA KeptTail ==
  ASSUME NEW s, NEW r, Sound(s), Sound(r), NEW n \in Nat, n > s.acked, r.acked = n,
         Queued(r) = Behind(s, n), \A i \in Queued(r) : r.rows[i] = s.rows[i]
  PROVE  TailOf(r) = IF n - s.acked >= Len(TailOf(s)) THEN <<>>
                     ELSE SubSeq(TailOf(s), n - s.acked + 1, Len(TailOf(s)))
<1>1. /\ s.acked \in Nat /\ s.next \in Nat /\ s.next > s.acked
      /\ Queued(s) = (s.acked + 1)..(s.next - 1)
      /\ r.next \in Nat /\ r.next > n
      /\ Queued(r) = (n + 1)..(r.next - 1)
  BY DEF Sound, Typed, Gapless, Queued
<1>2. \A i \in Int : n + 1 <= i /\ i <= r.next - 1 <=> n < i /\ i <= s.next - 1
  BY <1>1 DEF Behind
<1>3. r.next - 1 = IF s.next - 1 <= n THEN n ELSE s.next - 1
  <2>1. CASE s.next - 1 <= n
    BY <1>1, <1>2, <2>1
  <2>2. CASE s.next - 1 > n
    <3>1. s.next - 1 <= r.next - 1
      BY <1>1, <1>2, <2>2
    <3>2. r.next - 1 <= s.next - 1
      BY <1>1, <1>2, <3>1, <2>2
    <3>3. QED
      BY <1>1, <2>2, <3>1, <3>2
  <2>3. QED
    BY <1>1, <2>1, <2>2
<1>4. /\ TailOf(s) \in Seq(Payload) /\ TailOf(r) \in Seq(Payload)
      /\ Len(TailOf(s)) = s.next - 1 - s.acked
      /\ Len(TailOf(r)) = r.next - 1 - n
  BY TailFacts
<1>5. Len(TailOf(r)) = IF n - s.acked >= Len(TailOf(s)) THEN 0
                       ELSE Len(TailOf(s)) - (n - s.acked)
  BY <1>1, <1>3, <1>4
<1>6. ASSUME NEW i \in 1..Len(TailOf(r))
      PROVE  TailOf(r)[i] = TailOf(s)[n - s.acked + i]
  <2>0. i \in 1..(r.next - 1 - n)
    BY <1>4
  <2>1. /\ n + i \in Queued(r)
        /\ n - s.acked + i \in 1..(s.next - 1 - s.acked)
        /\ s.acked + (n - s.acked + i) = n + i
    <3>1. i \in Nat /\ 1 <= i /\ i <= r.next - 1 - n
      BY <1>1, <2>0
    <3>2. n + i <= r.next - 1 /\ n + 1 <= n + i
      BY <1>1, <3>1
    <3>3. n + i <= s.next - 1
      BY <1>1, <1>3, <3>1, <3>2
    <3>4. s.acked + (n - s.acked + i) = n + i
      BY <1>1, <3>1
    <3>5. n + i \in Queued(r)
      BY <1>1, <3>1, <3>2
    <3>6. n - s.acked + i \in 1..(s.next - 1 - s.acked)
      <4> DEFINE j == n - s.acked + i
      <4>1. j \in Int /\ 1 <= j /\ j <= s.next - 1 - s.acked
        BY <1>1, <3>1, <3>3
      <4>2. QED
        BY <4>1, <1>1
    <3>7. QED
      BY <3>4, <3>5, <3>6
  <2>2. TailOf(r)[i] = r.rows[n + i].payload
    BY <2>0, TailFacts
  <2>3. TailOf(s)[n - s.acked + i] = s.rows[n + i].payload
    BY <2>1, TailFacts
  <2>4. QED
    BY <2>1, <2>2, <2>3
<1> DEFINE k == n - s.acked
<1>7. k \in Nat
  BY <1>1
<1>8. Len(TailOf(r)) = IF k >= Len(TailOf(s)) THEN 0 ELSE Len(TailOf(s)) - k
  BY <1>5
<1>9. \A i \in 1..Len(TailOf(r)) : TailOf(r)[i] = TailOf(s)[k + i]
  BY <1>6
<1> HIDE DEF k
<1>10. TailOf(r) = IF k >= Len(TailOf(s)) THEN <<>>
                   ELSE SubSeq(TailOf(s), k + 1, Len(TailOf(s)))
  BY <1>4, <1>7, <1>8, <1>9, SuffixIsSubSeq
<1>11. QED
  BY <1>10 DEF k

-----------------------------------------------------------------------------
(* The steps of UplinkLog, between two files: each method takes one of     *)
(* them, or none that can be seen.                                         *)

SameCounts(s, r) == r.dropped = s.dropped /\ r.required = s.required

GivesUp(s, r, n) == r.dropped = s.dropped + n /\ r.required = TRUE

Appends(s, r, p) ==
  TailOf(r) = Append(TailOf(s), p) /\ r.acked = s.acked /\ SameCounts(s, r)

Refuses(s, r) == TailOf(r) = TailOf(s) /\ r.acked = s.acked /\ GivesUp(s, r, 1)

\* The whole tail goes, and t is what follows in the same step.
Clears(s, r, t, count) ==
  TailOf(s) # <<>> /\ TailOf(r) = t /\ r.acked = s.acked /\ GivesUp(s, r, count)

Confirms(s, r) ==
  /\ r.acked \in Nat /\ r.acked > s.acked
  /\ LET n == r.acked - s.acked
     IN  TailOf(r) = IF n >= Len(TailOf(s)) THEN <<>>
                     ELSE SubSeq(TailOf(s), n + 1, Len(TailOf(s)))
  /\ SameCounts(s, r)

Rewinds(s, r) ==
  /\ r.acked \in Nat /\ r.acked < s.acked /\ TailOf(r) = <<>>
  /\ IF TailOf(s) = <<>> THEN SameCounts(s, r) ELSE GivesUp(s, r, Len(TailOf(s)))

Reconciles(s, r) ==
  TailOf(r) = TailOf(s) /\ r.acked = s.acked /\ r.dropped = s.dropped /\ r.required = FALSE

Invisible(s, r) == TailOf(r) = TailOf(s) /\ r.acked = s.acked /\ SameCounts(s, r)

LogStep(s, r) ==
  \/ \E p \in Payload : Appends(s, r, p) \/ Clears(s, r, <<p>>, Len(TailOf(s)))
  \/ Refuses(s, r)
  \/ Clears(s, r, <<>>, Len(TailOf(s))) \/ Clears(s, r, <<>>, Len(TailOf(s)) + 1)
  \/ Confirms(s, r) \/ Rewinds(s, r) \/ Reconciles(s, r)
  \/ Invisible(s, r)

\* A method that leaves the file alone.
LEMMA NoStep == \A s : LogStep(s, s)
  BY DEF LogStep, Invisible, SameCounts

\* Attempt markers and the clock are invisible.
LEMMA SameButRowsStep ==
  ASSUME NEW s, Sound(s), NEW r, Typed(r), SameButRows(r, s)
  PROVE  LogStep(s, r)
<1>1. /\ TailOf(r) = TailOf(s) /\ r.acked = s.acked
      /\ r.dropped = s.dropped /\ r.required = s.required
  BY SameButRowsTail
<1>2. QED
  BY <1>1 DEF LogStep, Invisible, SameCounts

\* peek, peek_all and summary give the tail up, when they expire anything.
LEMMA ExpireStep ==
  ASSUME NEW s, Sound(s)
  PROVE  LogStep(s, ExpireStale(s))
<1> DEFINE r == ExpireStale(s)
<1>1. CASE HasExpired(s)
  <2>1. /\ TailOf(s) # <<>> /\ TailOf(r) = <<>> /\ r.acked = s.acked
        /\ r.dropped = s.dropped + Len(TailOf(s)) /\ r.required = TRUE
    BY <1>1, ExpireTail
  <2> HIDE DEF r
  <2>2. Clears(s, r, <<>>, Len(TailOf(s)))
    BY <2>1 DEF Clears, GivesUp
  <2>3. QED
    BY <2>2 DEF LogStep, r
<1>2. CASE ~HasExpired(s)
  BY <1>2, NoStep DEF ExpireStale
<1>3. QED
  BY <1>1, <1>2

\* enqueue appends or refuses, after an expiry in the same step.
LEMMA EnqueueStep ==
  ASSUME NEW s, Sound(s), NEW p \in Payload
  PROVE  LogStep(s, Enqueue(s, p))
<1> DEFINE e == ExpireStale(s)
           r == Enqueue(s, p)
<1>1. r = Offer(e, p)
  BY DEF Enqueue
<1>2. Sound(e)
  BY ExpireStaleSound
<1>3. Fits(e, p) => /\ TailOf(r) = Append(TailOf(e), p) /\ r.acked = e.acked
                    /\ r.dropped = e.dropped /\ r.required = e.required
  BY <1>1, <1>2, InsertTail
<1>4. ~Fits(e, p) => /\ TailOf(r) = TailOf(e) /\ r.acked = e.acked
                     /\ r.dropped = e.dropped + 1 /\ r.required = TRUE
  BY <1>1, <1>2, RefuseTail
<1>5. CASE ~HasExpired(s)
  <2>1. e = s
    BY <1>5 DEF ExpireStale
  <2> HIDE DEF e, r
  <2>2. Appends(s, r, p) \/ Refuses(s, r)
    BY <1>3, <1>4, <2>1 DEF Appends, Refuses, SameCounts, GivesUp
  <2>3. QED
    BY <2>2 DEF LogStep, r
<1>6. CASE HasExpired(s)
  <2>1. /\ TailOf(s) # <<>> /\ TailOf(e) = <<>> /\ e.acked = s.acked
        /\ e.dropped = s.dropped + Len(TailOf(s)) /\ e.required = TRUE
    BY <1>6, ExpireTail
  <2>2. s.dropped \in Nat /\ Len(TailOf(s)) \in Nat
    BY TailFacts DEF Sound, Typed
  <2> HIDE DEF e, r
  <2>3. CASE Fits(e, p)
    <3>1. Append(<<>>, p) = <<p>>
      OBVIOUS
    <3>2. r.dropped = s.dropped + Len(TailOf(s))
      BY <1>3, <2>1, <2>2, <2>3
    <3>3. TailOf(r) = <<p>> /\ r.acked = s.acked /\ r.required = TRUE
      BY <1>3, <2>1, <2>3, <3>1
    <3>4. Clears(s, r, <<p>>, Len(TailOf(s)))
      BY <2>1, <3>2, <3>3 DEF Clears, GivesUp
    <3>5. QED
      BY <3>4 DEF LogStep, r
  <2>4. CASE ~Fits(e, p)
    <3>1. r.dropped = s.dropped + (Len(TailOf(s)) + 1)
      BY <1>4, <2>1, <2>2, <2>4
    <3>2. TailOf(r) = <<>> /\ r.acked = s.acked /\ r.required = TRUE
      BY <1>4, <2>1, <2>4
    <3>3. Clears(s, r, <<>>, Len(TailOf(s)) + 1)
      BY <2>1, <3>1, <3>2 DEF Clears, GivesUp
    <3>4. QED
      BY <3>3 DEF LogStep, r
  <2>5. QED
    BY <2>3, <2>4
<1>7. QED
  BY <1>5, <1>6

\* acknowledge_through confirms, or does nothing when the cursor is an old one.
LEMMA AcknowledgeStep ==
  ASSUME NEW s, Sound(s), NEW n \in Nat
  PROVE  LogStep(s, AcknowledgeThrough(s, n))
<1> DEFINE r == AcknowledgeThrough(s, n)
<1>1. Sound(r)
  BY AcknowledgeSound
<1>2. /\ Queued(r) = Behind(s, n) /\ \A i \in Queued(r) : r.rows[i] = s.rows[i]
      /\ r.acked = IF n > s.acked THEN n ELSE s.acked
      /\ r.dropped = s.dropped /\ r.required = s.required
  BY AcknowledgeEffect DEF Sound, Behind
<1>3. s.acked \in Nat /\ \A i \in Queued(s) : i \in Nat /\ i > s.acked
  BY TailFacts
<1> HIDE DEF r
<1>4. CASE n > s.acked
  <2>1. r.acked = n
    BY <1>2, <1>4
  <2>2. TailOf(r) = IF n - s.acked >= Len(TailOf(s)) THEN <<>>
                    ELSE SubSeq(TailOf(s), n - s.acked + 1, Len(TailOf(s)))
    BY <1>1, <1>2, <1>4, <2>1, KeptTail
  <2>3. Confirms(s, r)
    BY <1>2, <1>4, <2>1, <2>2 DEF Confirms, SameCounts
  <2>4. QED
    BY <2>3 DEF LogStep, r
<1>5. CASE ~(n > s.acked)
  <2>1. Behind(s, n) = Queued(s)
    BY <1>3, <1>5 DEF Behind
  <2>2. r.acked = s.acked
    BY <1>2, <1>5
  <2>3. TailOf(r) = TailOf(s)
    BY <1>1, <1>2, <2>1, <2>2, SameTail
  <2>4. Invisible(s, r)
    BY <1>2, <2>2, <2>3 DEF Invisible, SameCounts
  <2>5. QED
    BY <2>4 DEF LogStep, r
<1>6. QED
  BY <1>4, <1>5

\* synchronize_with_server_cursor: a newer cursor confirms, the same one
\* changes nothing, and an older one rewinds the log, because what is queued
\* cannot follow it.
LEMMA SynchronizeStep ==
  ASSUME NEW s, Sound(s), NEW n \in Nat
  PROVE  LogStep(s, SynchronizeWithServerCursor(s, n))
<1> DEFINE r    == SynchronizeWithServerCursor(s, n)
           kept == Behind(s, n)
<1>1. Sound(r)
  BY SynchronizeSound, SoundIsNumbered
<1>2. /\ s.acked \in Nat /\ s.next \in Nat
      /\ Queued(s) = (s.acked + 1)..(s.next - 1)
  BY TailFacts
<1>3. Numbered(s)
  BY SoundIsNumbered
<1>4. r.acked = n
  BY <1>3, SynchronizeEffect
<1>5. Contiguous(kept, n + 1) =>
        /\ Queued(r) = kept /\ \A i \in Queued(r) : r.rows[i] = s.rows[i]
        /\ r.dropped = s.dropped /\ r.required = s.required
  BY <1>3, SynchronizeEffect
<1>6. ~Contiguous(kept, n + 1) =>
        /\ Queued(r) = {} /\ r.dropped = s.dropped + Cardinality(kept)
        /\ r.required = TRUE
  BY <1>3, SynchronizeEffect
<1> HIDE DEF r
<1>7. CASE n >= s.acked
  <2>1. Contiguous(kept, n + 1)
    <3>1. CASE s.next - 1 <= n
      <4>1. kept = {}
        BY <1>2, <3>1 DEF Behind
      <4>2. QED
        BY <4>1 DEF Contiguous
    <3>2. CASE s.next - 1 > n
      <4>1. kept = (n + 1)..(s.next - 1) /\ s.next - 1 \in kept
        BY <1>2, <1>7, <3>2 DEF Behind
      <4>2. QED
        BY <4>1 DEF Contiguous
    <3>3. QED
      BY <1>2, <3>1, <3>2
  <2>2. CASE n = s.acked
    <3>1. kept = Queued(s)
      BY <1>2, <2>2 DEF Behind
    <3>2. TailOf(r) = TailOf(s)
      BY <1>1, <1>4, <1>5, <2>1, <2>2, <3>1, SameTail
    <3>3. Invisible(s, r)
      BY <1>4, <1>5, <2>1, <2>2, <3>2 DEF Invisible, SameCounts
    <3>4. QED
      BY <3>3 DEF LogStep, r
  <2>3. CASE n > s.acked
    <3>1. TailOf(r) = IF n - s.acked >= Len(TailOf(s)) THEN <<>>
                      ELSE SubSeq(TailOf(s), n - s.acked + 1, Len(TailOf(s)))
      BY <1>1, <1>4, <1>5, <2>1, <2>3, KeptTail
    <3>2. Confirms(s, r)
      BY <1>4, <1>5, <2>1, <2>3, <3>1 DEF Confirms, SameCounts
    <3>3. QED
      BY <3>2 DEF LogStep, r
  <2>4. QED
    BY <1>2, <1>7, <2>2, <2>3
<1>8. CASE n < s.acked
  <2>1. kept = Queued(s)
    BY <1>2, <1>8 DEF Behind
  <2>2. CASE Queued(s) = {}
    <3>1. Contiguous(kept, n + 1)
      BY <2>1, <2>2 DEF Contiguous
    <3>2. TailOf(s) = <<>> /\ TailOf(r) = <<>>
      BY <1>1, <1>5, <2>1, <2>2, <3>1, TailFacts
    <3>3. Rewinds(s, r)
      BY <1>4, <1>5, <1>8, <3>1, <3>2 DEF Rewinds, SameCounts
    <3>4. QED
      BY <3>3 DEF LogStep, r
  <2>3. CASE Queued(s) # {}
    <3>1. n + 1 \notin kept
      BY <1>2, <1>8, <2>1
    <3>2. ~Contiguous(kept, n + 1)
      <4> SUFFICES ASSUME NEW latest \in kept, kept = (n + 1)..latest
                   PROVE  FALSE
        BY <2>1, <2>3 DEF Contiguous
      <4>1. latest \in Nat /\ latest > n
        BY <1>2, <1>8, <2>1
      <4>2. n + 1 \in (n + 1)..latest
        BY <4>1
      <4>3. QED
        BY <3>1, <4>2
    <3>3. TailOf(s) # <<>> /\ TailOf(r) = <<>> /\ Len(TailOf(s)) = Cardinality(kept)
      BY <1>1, <1>6, <2>1, <2>3, <3>2, TailFacts
    <3>4. Rewinds(s, r)
      BY <1>4, <1>6, <1>8, <3>2, <3>3 DEF Rewinds, GivesUp
    <3>5. QED
      BY <3>4 DEF LogStep, r
  <2>4. QED
    BY <2>2, <2>3
<1>9. QED
  BY <1>2, <1>7, <1>8

\* mark_reconciliation_queued: a snapshot is owed no more.
LEMMA ReconciliationStep ==
  ASSUME NEW s, Sound(s)
  PROVE  LogStep(s, MarkReconciliationQueued(s))
<1> DEFINE r == MarkReconciliationQueued(s)
<1>1. /\ r.rows = s.rows /\ r.acked = s.acked
      /\ r.dropped = s.dropped /\ r.required = FALSE
  BY ReconciliationEffect DEF Sound
<1> HIDE DEF r
<1>2. TailOf(r) = TailOf(s)
  BY <1>1 DEF TailOf, Queued
<1>3. Reconciles(s, r)
  BY <1>1, <1>2 DEF Reconciles
<1>4. QED
  BY <1>3 DEF LogStep, r

=============================================================================
