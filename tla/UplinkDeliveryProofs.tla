------------------------- MODULE UplinkDeliveryProofs -------------------------
(***************************************************************************)
(* Proofs about the upload loop, the recovery of its session and the Core  *)
(* (UplinkDelivery), for every payload set, byte limit, batch size, number *)
(* of retries, faults and crashes.                                         *)
(*                                                                         *)
(* Four invariants, each on top of the one before.  Base and CursorsKnown: *)
(* the file is sound and no cursor the connector goes by is ahead of the   *)
(* Core's ledger.  Sessions: a session is opened by _establish_session and *)
(* every session that anything still names was.  Fence: what the Core has  *)
(* seen of a row that is still queued, or in flight, is marked as          *)
(* attempted.  Agreement: the ledger and the queue behind it are one log.  *)
(* The last one holds only while nothing expires: a new session renumbers  *)
(* what expiry has thinned out, under requests that are still in flight.   *)
(*                                                                         *)
(* Every step of a loop uses at most one method of the queue               *)
(* (NextUsesMethods), so what the methods keep on a sound file, the        *)
(* delivery keeps: its file is the log of UplinkLog and within its limit.  *)
(***************************************************************************)
EXTENDS UplinkDelivery, UplinkQueueStoreProofs

-----------------------------------------------------------------------------
(* The invariant on types.                                                 *)

Request == [session : Nat, from : Nat \ {0}, items : Seq(Item), mode : Mode]

Upload == [at : {"idle", "send", "wait", "probe"}, permit : Permit, from : Nat,
           items : Seq(Item), replay : BOOLEAN, tries : Nat, sent : SUBSET Request,
           reply : {"none", "ok", "error", "invalid"}, cursor : Nat]

Recovering == [at : {"none", "lock", "synchronize"}, permit : Permit, stale : Nat,
               cursor : Nat]

Inventory == [at : {"idle", "collected", "classified", "queued"},
              item : Snapshot \cup {NoItem}, mode : Mode, required : BOOLEAN]

Core == [session : Nat, opened : Nat, ledger : Seq(Item)]

\* The connector and the Core hold well-formed values; the queue is the run
\* behind its own cursor; and no cursor the connector goes by is ahead of the
\* ledger, which only grows.
Base ==
  /\ Sound(file) /\ IsCircuit(circuit)
  /\ running \in BOOLEAN /\ lock \in Loop \cup {"free"}
  /\ source = NoSource \/ source \in Payload
  /\ inventory \in Inventory
  /\ inventory.at \in {"collected", "classified"} => inventory.item \in Snapshot
  /\ upload \in Upload
  /\ upload.at \in {"send", "wait"} => upload.from # 0
  /\ recovery \in [Loop -> Recovering]
  /\ core \in Core /\ network \in SUBSET Request
  /\ session \in 0..core.opened /\ core.session \in 0..core.opened

CursorsKnown ==
  /\ file.acked <= Cursor
  /\ upload.reply = "ok" => upload.cursor <= Cursor
  /\ \A t \in Loop : recovery[t].at = "synchronize" => recovery[t].cursor <= Cursor

-----------------------------------------------------------------------------
(* Lemmas about the values.                                                *)

\* The breaker's methods keep its fields in their types.
LEMMA CircuitKept ==
  ASSUME NEW b, IsCircuit(b), NEW permit
  PROVE  /\ IsCircuit(AfterAllow(b))
         /\ IsCircuit(AfterSuccess(b, permit))
         /\ IsCircuit(AfterFailure(b))
         /\ AllowPermit(b) \in Permit /\ ObservePermit(b) \in Permit
<1>1. IsCircuit(AfterAllow(b))
  BY DEF IsCircuit, AfterAllow
<1>2. IsCircuit(AfterSuccess(b, permit))
  BY CircuitAssumption DEF IsCircuit, AfterSuccess
<1>3. IsCircuit(AfterFailure(b))
  BY CircuitAssumption DEF IsCircuit, AfterFailure
<1>4. AllowPermit(b) \in Permit /\ ObservePermit(b) \in Permit
  BY DEF IsCircuit, Permit, AllowPermit, ObservePermit
<1>5. QED
  BY <1>1, <1>2, <1>3, <1>4

\* What a process starts with.
LEMMA StartTyped ==
  /\ IsCircuit(Closed)
  /\ NoUpload \in Upload /\ NoUpload.at = "idle" /\ NoUpload.reply = "none"
  /\ NoInventory \in Inventory /\ NoInventory.at = "idle"
  /\ NoRecovery \in Recovering /\ NoRecovery.at = "none"
  /\ Booting \in [Loop -> Recovering]
  /\ \A t \in Loop : Booting[t].at # "synchronize"
<1>1. IsCircuit(Closed)
  BY CircuitAssumption DEF IsCircuit, Closed
<1>2. ObservePermit(Closed) \in Permit
  BY <1>1, CircuitKept
<1>3. NoUpload \in Upload /\ NoUpload.at = "idle" /\ NoUpload.reply = "none"
  <2>1. <<>> \in Seq(Item)
    BY EmptySeq
  <2>2. QED
    BY <1>2, <2>1 DEF NoUpload, Upload
<1>4. NoInventory \in Inventory /\ NoInventory.at = "idle"
  BY DEF NoInventory, Inventory, Mode
<1>5. NoRecovery \in Recovering /\ NoRecovery.at = "none"
  BY <1>2 DEF NoRecovery, Recovering
<1>6. /\ [NoRecovery EXCEPT !.at = "lock"] \in Recovering
      /\ [NoRecovery EXCEPT !.at = "lock"].at = "lock"
  BY <1>2 DEF NoRecovery, Recovering
<1>7. Booting \in [Loop -> Recovering] /\ \A t \in Loop : Booting[t].at # "synchronize"
  BY <1>5, <1>6 DEF Booting
<1>8. QED
  BY <1>1, <1>3, <1>4, <1>5, <1>7

\* The least element, when there is one.
LEMMA MinIs ==
  ASSUME NEW S \in SUBSET Int, NEW x \in S, \A y \in S : x <= y
  PROVE  Min(S) = x
<1>1. \E m \in S : \A y \in S : m <= y
  OBVIOUS
<1>2. Min(S) \in S /\ \A y \in S : Min(S) <= y
  BY <1>1 DEF Min
<1>3. Min(S) \in Int /\ x \in Int /\ Min(S) <= x /\ x <= Min(S)
  BY <1>2
<1>4. QED
  BY <1>3

\* What TakeBatch finds at the head of a sound queue that is not empty: the
\* batch is a run of it that starts behind the cursor.
LEMMA BatchIsHead ==
  ASSUME NEW s, Sound(s)
  PROVE  LET rows  == Restrict(s.rows, FirstRows(s, BatchSize))
             batch == BatchOf(rows)
             n     == Cardinality(batch)
         IN  /\ DOMAIN rows \subseteq Queued(s)
             /\ \A i \in DOMAIN rows : rows[i] = s.rows[i]
             /\ DOMAIN rows # {} =>
                  /\ n \in Nat /\ Min(batch) = s.acked + 1
                  /\ batch = (s.acked + 1)..(s.acked + n)
                  /\ batch \subseteq DOMAIN rows
<1> DEFINE rows  == Restrict(s.rows, FirstRows(s, BatchSize))
           batch == BatchOf(rows)
           n     == Cardinality(batch)
           first == s.acked + 1
<1>0. /\ s.acked \in Nat /\ s.next \in Nat /\ s.next > s.acked
      /\ Queued(s) = (s.acked + 1)..(s.next - 1)
  BY DEF Sound, Typed, Gapless, Queued
<1>1. /\ DOMAIN rows = FirstRows(s, BatchSize)
      /\ DOMAIN rows \subseteq Queued(s)
      /\ \A i \in DOMAIN rows : rows[i] = s.rows[i]
  BY DEF Restrict, FirstRows
<1> HIDE DEF rows
<1>2. ASSUME DOMAIN rows # {}
      PROVE  /\ n \in Nat /\ Min(batch) = s.acked + 1
             /\ batch = (s.acked + 1)..(s.acked + n)
             /\ batch \subseteq DOMAIN rows
  <2>1. first \in Queued(s)
    BY <1>0, <1>1, <1>2
  <2>2. {j \in Queued(s) : j < first} = {}
    BY <1>0
  <2>3. first \in DOMAIN rows
    BY <1>1, <2>1, <2>2, FS_EmptySet, DeliveryAssumption DEF FirstRows
  <2>4. DOMAIN rows \in SUBSET Int /\ \A i \in DOMAIN rows : first <= i
    BY <1>0, <1>1
  <2>5. Min(DOMAIN rows) = first
    BY <2>3, <2>4, MinIs
  <2> DEFINE IsEvent(i) == i \in DOMAIN rows /\ rows[i].payload.item \in Event
  <2>6. batch = IF IsEvent(first) THEN {i \in DOMAIN rows : \A j \in first..i : IsEvent(j)}
                                  ELSE {first}
    BY <2>5 DEF BatchOf
  <2> HIDE DEF IsEvent, batch
  <2>7. batch \subseteq DOMAIN rows /\ first \in batch
    <3>1. CASE IsEvent(first)
      <4>1. first..first = {first}
        BY <1>0
      <4>2. QED
        BY <2>3, <2>6, <3>1, <4>1
    <3>2. CASE ~IsEvent(first)
      BY <2>3, <2>6, <3>2
    <3>3. QED
      BY <3>1, <3>2
  <2>8. ASSUME NEW i \in batch, NEW j \in first..i
        PROVE  j \in batch
    <3>1. CASE IsEvent(first)
      <4>1. i \in Int /\ j \in Int /\ j <= i
        BY <2>4, <2>7
      <4>2. first..j \subseteq first..i
        BY <4>1
      <4>3. IsEvent(j) /\ \A k \in first..j : IsEvent(k)
        BY <2>6, <2>8, <3>1, <4>2
      <4>4. j \in DOMAIN rows
        BY <4>3 DEF IsEvent
      <4>5. QED
        BY <2>6, <3>1, <4>3, <4>4
    <3>2. CASE ~IsEvent(first)
      BY <1>0, <2>6, <2>8, <3>2
    <3>3. QED
      BY <3>1, <3>2
  <2>9. IsFiniteSet(Queued(s))
    BY SoundIsNumbered DEF Numbered
  <2>10. IsFiniteSet(batch) /\ n \in Nat
    BY <1>1, <2>7, <2>9, FS_Subset, FS_CardinalityType
  <2>11. batch \in SUBSET Int /\ \A i \in batch : first <= i
    BY <2>4, <2>7
  <2>12. Min(batch) = first
    BY <2>7, <2>11, MinIs
  <2>13. batch \subseteq first..(first + n - 1)
    <3>0. n \in Nat /\ first \in Nat
      BY <1>0, <2>10
    <3> HIDE DEF n, first
    <3> SUFFICES ASSUME NEW i \in batch, i > first + n - 1
                 PROVE  FALSE
      BY <2>11, <3>0
    <3>1. i \in Int /\ first \in Int /\ i > first + n - 1 /\ first <= i
      BY <3>0, <2>11
    <3>2. first..i \subseteq batch
      BY <2>8
    <3>3. Cardinality(first..i) = IF first > i THEN 0 ELSE i - first + 1
      BY <3>1, FS_Interval, Zenon
    <3>4. Cardinality(first..i) <= n
      BY <2>10, <3>2, FS_Subset DEF n
    <3>5. QED
      BY <3>0, <3>1, <3>3, <3>4
  <2>14. first..(first + n - 1) \subseteq batch
    <3> SUFFICES ASSUME NEW j \in first..(first + n - 1), j \notin batch
                 PROVE  FALSE
      OBVIOUS
    <3>1. j \in Int /\ first <= j /\ j - 1 \in Int /\ first \in Int
      BY <1>0
    <3>2. batch \subseteq first..(j - 1)
      BY <1>0, <2>8, <2>11
    <3>3. /\ IsFiniteSet(first..(j - 1))
          /\ Cardinality(first..(j - 1)) = IF first > j - 1 THEN 0 ELSE j - 1 - first + 1
      BY <3>1, FS_Interval, Zenon
    <3>4. n <= Cardinality(first..(j - 1))
      BY <3>2, <3>3, FS_Subset
    <3>5. QED
      BY <1>0, <2>10, <3>1, <3>3, <3>4
  <2>15. first + n - 1 = s.acked + n
    BY <1>0, <2>10
  <2>16. QED
    BY <2>7, <2>10, <2>12, <2>13, <2>14, <2>15
<1>3. QED
  BY <1>1, <1>2 DEF rows

-----------------------------------------------------------------------------
(* The queue's methods, as this module calls them.                         *)

\* Each leaves a run, and only acknowledging or synchronizing moves the cursor.
LEMMA MethodsKeepCursor ==
  ASSUME NEW s, Sound(s), NEW p \in Payload, NEW seqs
  PROVE  /\ Sound(ExpireStale(s)) /\ ExpireStale(s).acked = s.acked
         /\ Sound(Enqueue(s, p)) /\ Enqueue(s, p).acked = s.acked
         /\ Sound(MarkDeliveryAttempted(s, seqs))
         /\ MarkDeliveryAttempted(s, seqs).acked = s.acked
         /\ Sound(MarkPendingDeliveryUncertain(s))
         /\ MarkPendingDeliveryUncertain(s).acked = s.acked
         /\ Sound(MarkReconciliationQueued(s)) /\ MarkReconciliationQueued(s).acked = s.acked
         /\ Sound(Age(s)) /\ Age(s).acked = s.acked
<1>0. Typed(s) /\ Numbered(s)
  BY SoundIsNumbered DEF Sound
<1>1. Sound(ExpireStale(s)) /\ ExpireStale(s).acked = s.acked
  BY <1>0, ExpireStaleSound, ExpireEffect
<1>2. Sound(Enqueue(s, p)) /\ Enqueue(s, p).acked = s.acked
  <2>1. Typed(ExpireStale(s))
    BY <1>1 DEF Sound
  <2>2. Offer(ExpireStale(s), p).acked = ExpireStale(s).acked
    BY <2>1, OfferEffect
  <2>3. QED
    BY <1>1, <2>2, EnqueueSound DEF Enqueue
<1>3. ASSUME NEW q
      PROVE  /\ Sound(MarkDeliveryAttempted(s, q))
             /\ MarkDeliveryAttempted(s, q).acked = s.acked
  BY <1>0, MarkSound, MarkEffect DEF SameButRows
<1>4. /\ Sound(MarkPendingDeliveryUncertain(s))
      /\ MarkPendingDeliveryUncertain(s).acked = s.acked
  BY <1>3 DEF MarkPendingDeliveryUncertain
<1>5. Sound(MarkReconciliationQueued(s)) /\ MarkReconciliationQueued(s).acked = s.acked
  BY <1>0, ReconciliationSound, ReconciliationEffect
<1>6. Sound(Age(s)) /\ Age(s).acked = s.acked
  BY <1>0, AgeSound, AgeEffect DEF SameButRows
<1>7. QED
  BY <1>1, <1>2, <1>3, <1>4, <1>5, <1>6

-----------------------------------------------------------------------------
(* Every step keeps the types and the cursors.                             *)

IInv == Base /\ CursorsKnown

\* The first process starts with no cursor at all.
LEMMA InitBase == Init => IInv
<1> SUFFICES ASSUME Init
             PROVE  IInv
  OBVIOUS
<1>1. Sound(file) /\ file.acked = 0
  BY FreshSound DEF Init, Fresh
<1>2. <<>> \in Seq(Item) /\ Len(<<>>) = 0
  BY EmptySeq
<1>3. core \in Core /\ Cursor = 0 /\ core.session = 0 /\ core.opened = 0
  BY <1>2 DEF Init, Core, Cursor
<1>4. Base
  <2>1. 0 \in 0..0
    OBVIOUS
  <2>2. QED
    BY <1>1, <1>3, <2>1, StartTyped, Zenon DEF Init, Base
<1>5. CursorsKnown
  BY <1>1, <1>3, StartTyped DEF Init, CursorsKnown
<1>6. QED
  BY <1>4, <1>5 DEF IInv

\* Everything a step finds.
LEMMA Finds ==
  ASSUME IInv
  PROVE  /\ Sound(file) /\ Typed(file) /\ Numbered(file)
         /\ file.acked \in Nat /\ Cursor \in Nat /\ file.acked <= Cursor
         /\ core \in Core /\ core.ledger \in Seq(Item)
<1>1. core.ledger \in Seq(Item)
  BY DEF IInv, Base, Core
<1>2. QED
  BY <1>1, SoundIsNumbered, LenProperties
     DEF IInv, Base, CursorsKnown, Sound, Typed, Cursor

\* The subscription and inventory loops.
LEMMA FillBase ==
  ASSUME IInv,
         \/ \E e \in Event : ClassifyEvent(e)
         \/ EnqueueEvent
         \/ \E s \in Snapshot : CollectSnapshot(s)
         \/ ClassifySnapshot
         \/ EnqueueSnapshot
         \/ ReconciliationQueued
  PROVE  IInv'
<1> USE Finds DEF link, outside
<1>0. CurrentMode \in Mode
  BY DEF CurrentMode, Mode
<1>1. CASE \E e \in Event : ClassifyEvent(e)
  <2>1. source' \in Payload
    BY <1>0, <1>1, DeliveryAssumption DEF ClassifyEvent, Item
  <2>2. QED
    BY <1>1, <2>1 DEF ClassifyEvent, IInv, Base, CursorsKnown, Cursor
<1>2. CASE EnqueueEvent
  <2>1. source \in Payload
    BY <1>2 DEF EnqueueEvent, IInv, Base
  <2>2. Sound(file') /\ file'.acked = file.acked
    BY <1>2, <2>1, MethodsKeepCursor DEF EnqueueEvent, Put
  <2>3. QED
    BY <1>2, <2>2 DEF EnqueueEvent, IInv, Base, CursorsKnown, Cursor
<1>3. CASE \E s \in Snapshot : CollectSnapshot(s)
  <2>1. inventory' \in Inventory /\ inventory'.at = "collected" /\ inventory'.item \in Snapshot
    BY <1>3 DEF CollectSnapshot, NoInventory, Inventory, Mode, Sound, Typed
  <2>2. QED
    BY <1>3, <2>1 DEF CollectSnapshot, IInv, Base, CursorsKnown, Cursor
<1>4. CASE ClassifySnapshot
  <2>1. inventory' \in Inventory /\ inventory'.item \in Snapshot
    BY <1>0, <1>4 DEF ClassifySnapshot, Inventory, IInv, Base
  <2>2. QED
    BY <1>4, <2>1 DEF ClassifySnapshot, IInv, Base, CursorsKnown, Cursor
<1>5. CASE EnqueueSnapshot
  <2> DEFINE p == [item |-> inventory.item, mode |-> inventory.mode]
  <2>1. p \in Payload
    BY <1>5, DeliveryAssumption DEF EnqueueSnapshot, IInv, Base, Inventory, Item, Mode
  <2>2. Sound(file') /\ file'.acked = file.acked
    BY <1>5, <2>1, MethodsKeepCursor DEF EnqueueSnapshot, Put
  <2>3. inventory' \in Inventory /\ inventory'.at \in {"idle", "queued"}
    BY <1>5, StartTyped DEF EnqueueSnapshot, IInv, Base, Inventory
  <2>4. QED
    BY <1>5, <2>2, <2>3 DEF EnqueueSnapshot, IInv, Base, CursorsKnown, Cursor
<1>6. CASE ReconciliationQueued
  <2>1. Sound(file') /\ file'.acked = file.acked
    BY <1>6, SoundIsNumbered, ReconciliationSound, ReconciliationEffect DEF ReconciliationQueued
  <2>2. QED
    BY <1>6, <2>1, StartTyped DEF ReconciliationQueued, IInv, Base, CursorsKnown, Cursor
<1>7. QED
  BY <1>1, <1>2, <1>3, <1>4, <1>5, <1>6

\* A recovery that begins, for whatever reason.
LEMMA StartBase ==
  ASSUME Base, NEW t \in Loop, NEW stale \in Nat, NEW b, IsCircuit(b),
         StartRecovery(t, stale, b)
  PROVE  /\ recovery' \in [Loop -> Recovering]
         /\ recovery'[t].at = "lock" /\ recovery'[t].stale = stale
         /\ \A u \in Loop \ {t} : recovery'[u] = recovery[u]
<1>1. ObservePermit(b) \in Permit
  BY CircuitKept
<1>2. recovery \in [Loop -> Recovering]
  BY DEF Base
<1>3. QED
  BY <1>1, <1>2 DEF StartRecovery, Recovering

\* What TakeBatch loads: nothing, a probe, or the items of the rows behind the
\* cursor, in replay mode if any of them needs it.
LEMMA TakeBatchEffect ==
  ASSUME IInv, TakeBatch
  PROVE  /\ file' = ExpireStale(file) /\ Sound(file') /\ file'.acked = file.acked
         /\ IsCircuit(circuit') /\ upload' \in Upload
         /\ \/ upload' = upload
            \/ upload'.at = "probe" /\ upload'.reply = "none" /\ upload'.sent = {}
            \/ /\ upload'.at = "send" /\ upload'.reply = "none" /\ upload'.sent = {}
               /\ upload'.from = file'.acked + 1
               /\ \A k \in 1..Len(upload'.items) :
                    LET i == upload'.from + k - 1
                    IN  /\ i \in Queued(file')
                        /\ upload'.items[k] = file'.rows[i].payload.item
                        /\ ~upload'.replay => /\ ~file'.rows[i].attempted
                                              /\ file'.rows[i].payload.mode # "replay"
<1> DEFINE fresh  == ExpireStale(file)
           rows   == Restrict(fresh.rows, FirstRows(fresh, BatchSize))
           batch  == BatchOf(rows)
           first  == Min(batch)
           n      == Cardinality(batch)
           items  == [k \in 1..n |-> rows[first + k - 1].payload.item]
<1>1. /\ Sound(fresh) /\ fresh.acked = file.acked /\ fresh.acked \in Nat
      /\ IsCircuit(circuit) /\ IsCircuit(AfterAllow(circuit)) /\ upload \in Upload
  BY Finds, ExpireStaleSound, ExpireEffect, CircuitKept DEF IInv, Base
<1>2. /\ DOMAIN rows \subseteq Queued(fresh)
      /\ \A i \in DOMAIN rows : rows[i] = fresh.rows[i]
      /\ DOMAIN rows # {} =>
           /\ n \in Nat /\ first = fresh.acked + 1
           /\ batch = (fresh.acked + 1)..(fresh.acked + n)
           /\ batch \subseteq DOMAIN rows
  BY <1>1, BatchIsHead
<1> HIDE DEF fresh, rows, batch
<1>3. ASSUME DOMAIN rows # {}
      PROVE  /\ items \in Seq(Item) /\ Len(items) = n
             /\ first \in Nat \ {0} /\ first = fresh.acked + 1
             /\ \A k \in 1..n : /\ first + k - 1 \in batch
                                /\ items[k] = fresh.rows[first + k - 1].payload.item
             /\ \A i \in batch : i \in Queued(fresh) /\ rows[i] = fresh.rows[i]
  <2>1. n \in Nat /\ first = fresh.acked + 1 /\ batch = first..(fresh.acked + n)
    BY <1>1, <1>2, <1>3
  <2> HIDE DEF first, n
  <2>2. \A k \in 1..n : first + k - 1 \in batch
    BY <1>1, <2>1
  <2>3. \A i \in batch : i \in Queued(fresh) /\ rows[i] = fresh.rows[i]
    BY <1>2, <1>3
  <2>4. \A i \in batch : rows[i].payload.item \in Item
    BY <1>1, <2>3, DeliveryAssumption DEF Sound, Typed, Row, Queued
  <2>5. items \in [1..n -> Item]
    BY <2>2, <2>4
  <2>6. items \in Seq(Item)
    BY <2>1, <2>5, SeqDef
  <2>7. Len(items) = n
    BY <2>1, <2>5, <2>6, LenProperties
  <2>8. \A k \in 1..n : items[k] = fresh.rows[first + k - 1].payload.item
    BY <2>2, <2>3
  <2>9. QED
    BY <1>1, <2>1, <2>2, <2>3, <2>6, <2>7, <2>8
<1> DEFINE permit  == AllowPermit(circuit)
           replay  == \E i \in batch : rows[i].attempted \/ rows[i].payload.mode = "replay"
           Loaded  == [NoUpload EXCEPT !.at = "send", !.permit = permit, !.from = first,
                         !.items = items, !.replay = replay]
           Probing == [NoUpload EXCEPT !.at = "probe", !.permit = permit]
<1>4. upload' = IF DOMAIN rows # {} THEN Loaded
                ELSE IF permit.probe THEN Probing ELSE upload
  BY DEF TakeBatch, fresh, rows, batch
<1>5. permit \in Permit /\ replay \in BOOLEAN
  BY <1>1, CircuitKept
<1>6. NoUpload \in Upload /\ NoUpload.reply = "none" /\ NoUpload.sent = {}
  BY StartTyped DEF NoUpload
<1>7. DOMAIN rows # {} /\ ~replay =>
        \A i \in batch : ~fresh.rows[i].attempted /\ fresh.rows[i].payload.mode # "replay"
  BY <1>3
<1> HIDE DEF permit, items, first, replay, n
<1>8. ASSUME DOMAIN rows # {}
      PROVE  /\ Loaded \in Upload /\ Loaded.at = "send" /\ Loaded.reply = "none"
             /\ Loaded.sent = {} /\ Loaded.from = first /\ Loaded.items = items
             /\ Loaded.replay = replay
  BY <1>3, <1>5, <1>6, <1>8 DEF Upload
<1>9. Probing \in Upload /\ Probing.at = "probe" /\ Probing.reply = "none" /\ Probing.sent = {}
  BY <1>5, <1>6 DEF Upload
<1> HIDE DEF Loaded, Probing
<1>10. file' = fresh /\ circuit' = AfterAllow(circuit)
  BY DEF TakeBatch, fresh
<1>11. CASE DOMAIN rows # {}
  <2>1. upload' = Loaded
    BY <1>4, <1>11
  <2>2. ASSUME NEW k \in 1..Len(upload'.items)
        PROVE  LET i == upload'.from + k - 1
               IN  /\ i \in Queued(file')
                   /\ upload'.items[k] = file'.rows[i].payload.item
                   /\ ~upload'.replay => /\ ~file'.rows[i].attempted
                                         /\ file'.rows[i].payload.mode # "replay"
    BY <1>3, <1>7, <1>8, <1>10, <1>11, <2>1
  <2>3. QED
    BY <1>1, <1>3, <1>8, <1>10, <1>11, <2>1, <2>2 DEF fresh
<1>12. CASE DOMAIN rows = {}
  <2>1. upload' = Probing \/ upload' = upload
    BY <1>4, <1>12
  <2>2. QED
    BY <1>1, <1>9, <1>10, <2>1 DEF fresh
<1>13. QED
  BY <1>11, <1>12

\* The upload loop.
LEMMA UploadBase ==
  ASSUME IInv, UploadStep
  PROVE  IInv'
<1> USE Finds DEF link, outside
<1>0. /\ upload \in Upload /\ upload.from \in Nat /\ upload.tries \in Nat
      /\ upload.items \in Seq(Item) /\ Len(upload.items) \in Nat
      /\ IsCircuit(circuit) /\ session \in Nat /\ core.session \in Nat
      /\ "upload" \in Loop
  BY LenProperties DEF IInv, Base, Upload, Core, Loop
<1>1. CASE TakeBatch
  <2>1. /\ Sound(file') /\ file'.acked = file.acked /\ IsCircuit(circuit')
        /\ upload' \in Upload
    BY <1>1, TakeBatchEffect
  <2>2. /\ upload'.at \in {"send", "wait"} => upload'.from # 0
        /\ upload'.reply = "ok" => upload' = upload
    <3>1. file'.acked + 1 # 0
      BY <2>1
    <3>2. upload.at = "idle"
      BY <1>1 DEF TakeBatch
    <3>3. QED
      BY <1>1, <3>1, <3>2, TakeBatchEffect
  <2>3. QED
    BY <1>1, <2>1, <2>2 DEF TakeBatch, IInv, Base, CursorsKnown, Cursor
<1>2. CASE SendBatch
  <2> DEFINE r == [session |-> session, from |-> upload.from, items |-> upload.items,
                   mode |-> IF upload.replay THEN "replay" ELSE "realtime"]
  <2>1. r \in Request
    BY <1>0, <1>2 DEF Request, Mode, SendBatch, IInv, Base
  <2>2. /\ network' = network \cup {r}
        /\ upload' = [upload EXCEPT !.at = "wait", !.replay = TRUE, !.tries = @ + 1,
                                    !.sent = {r}, !.reply = "none"]
    BY <1>2 DEF SendBatch
  <2>3. Sound(file') /\ file'.acked = file.acked
    BY <1>2, MarkSound, MarkEffect DEF SendBatch, SameButRows
  <2> HIDE DEF r
  <2>4. upload' \in Upload /\ upload'.from # 0 /\ upload'.reply = "none"
    <3>1. upload.from # 0 /\ {r} \in SUBSET Request /\ upload.tries + 1 \in Nat
      BY <1>0, <1>2, <2>1 DEF SendBatch, IInv, Base
    <3>2. upload \in Upload
      BY <1>0
    <3> DEFINE e == [upload EXCEPT !.at = "wait", !.replay = TRUE, !.tries = @ + 1,
                                   !.sent = {r}, !.reply = "none"]
    <3>3. e \in Upload /\ e.from = upload.from /\ e.reply = "none"
      BY <3>1, <3>2 DEF Upload
    <3>4. QED
      BY <2>2, <3>1, <3>3
  <2>5. network' \in SUBSET Request
    BY <2>1, <2>2 DEF IInv, Base
  <2>6. QED
    BY <1>2, <2>3, <2>4, <2>5 DEF SendBatch, IInv, Base, CursorsKnown, Cursor
<1>3. CASE ReceiptArrives
  <2>1. upload.cursor \in Nat /\ upload.cursor <= Cursor
    BY <1>0, <1>3 DEF ReceiptArrives, IInv, CursorsKnown, Upload
  <2>2. Sound(file') /\ file'.acked <= Cursor
    BY <1>3, <2>1, AcknowledgeSound, AcknowledgeEffect DEF ReceiptArrives
  <2>3. IsCircuit(circuit')
    BY <1>0, <1>3, CircuitKept DEF ReceiptArrives
  <2>4. QED
    BY <1>3, <2>2, <2>3, StartTyped DEF ReceiptArrives, IInv, Base, CursorsKnown, Cursor
<1>4. CASE RetryBatch
  <2>1. Sound(file') /\ file'.acked = file.acked
    BY <1>4, MarkSound, MarkEffect DEF RetryBatch, MarkPendingDeliveryUncertain, SameButRows
  <2>2. upload' \in Upload /\ upload'.reply = upload.reply /\ upload'.from = upload.from
    BY <1>0, <1>4 DEF RetryBatch, Upload
  <2>3. upload.from # 0 /\ upload'.reply # "ok"
    BY <1>4, <2>2 DEF RetryBatch, IInv, Base
  <2>4. QED
    BY <1>4, <2>1, <2>2, <2>3 DEF RetryBatch, IInv, Base, CursorsKnown, Cursor
<1>5. CASE GiveBatchUp
  <2>1. Sound(file') /\ file'.acked = file.acked
    BY <1>5, MarkSound, MarkEffect DEF GiveBatchUp, MarkPendingDeliveryUncertain, SameButRows
  <2>2. IsCircuit(circuit')
    BY <1>0, <1>5, CircuitKept DEF GiveBatchUp, CircuitFails
  <2>3. QED
    BY <1>5, <2>1, <2>2, StartTyped DEF GiveBatchUp, IInv, Base, CursorsKnown, Cursor
<1>6. CASE UploadSessionInvalid
  <2>1. Sound(file') /\ file'.acked = file.acked
    BY <1>6, MarkSound, MarkEffect
       DEF UploadSessionInvalid, MarkPendingDeliveryUncertain, SameButRows
  <2>2. IsCircuit(circuit') /\ IsCircuit(AfterFailure(circuit))
    BY <1>0, <1>6, CircuitKept DEF UploadSessionInvalid, CircuitFails
  <2>3. PICK r \in upload.sent : StartRecovery("upload", r.session, AfterFailure(circuit))
    BY <1>6 DEF UploadSessionInvalid
  <2>4. r.session \in Nat
    BY <1>0 DEF Upload, Request
  <2>5. /\ recovery' \in [Loop -> Recovering]
        /\ recovery'["upload"].at = "lock"
        /\ \A u \in Loop \ {"upload"} : recovery'[u] = recovery[u]
    BY <1>0, <2>2, <2>3, <2>4, StartBase DEF IInv
  <2>6. QED
    BY <1>6, <2>1, <2>2, <2>5, StartTyped
       DEF UploadSessionInvalid, IInv, Base, CursorsKnown, Cursor
<1>7. CASE CompleteProbe
  <2>1. Sound(file') /\ file'.acked = file.acked
    BY <1>7, ExpireStaleSound, ExpireEffect DEF CompleteProbe
  <2>2. IsCircuit(circuit') /\ IsCircuit(AfterFailure(circuit))
    BY <1>0, <1>7, CircuitKept DEF CompleteProbe, CircuitFails
  <2>3. /\ recovery' \in [Loop -> Recovering]
        /\ \A u \in Loop : recovery'[u].at = "synchronize" => recovery'[u] = recovery[u]
    <3>1. CASE recovery' = recovery
      BY <3>1 DEF IInv, Base
    <3>2. CASE StartRecovery("upload", session, AfterFailure(circuit))
      <4>1. /\ recovery' \in [Loop -> Recovering]
            /\ recovery'["upload"].at = "lock"
            /\ \A u \in Loop \ {"upload"} : recovery'[u] = recovery[u]
        BY <1>0, <2>2, <3>2, StartBase DEF IInv
      <4>2. QED
        BY <4>1
    <3>3. QED
      BY <1>7, <3>1, <3>2 DEF CompleteProbe
  <2>4. QED
    BY <1>7, <2>1, <2>2, <2>3, StartTyped DEF CompleteProbe, IInv, Base, CursorsKnown, Cursor
<1>8. QED
  BY <1>1, <1>2, <1>3, <1>4, <1>5, <1>6, <1>7 DEF UploadStep

\* The maintenance loop and the recoveries.
LEMMA RecoveryBase ==
  ASSUME IInv,
         \/ MaintenanceSummary
         \/ OtherLoopFails
         \/ OtherSessionInvalid
         \/ \E t \in Loop : RecoveryStep(t) \/ RecoveryFails(t)
  PROVE  IInv'
<1> USE Finds DEF link, outside
<1>0. /\ IsCircuit(circuit) /\ recovery \in [Loop -> Recovering]
      /\ session \in Nat /\ core.opened \in Nat /\ core.session \in Nat
      /\ "maintenance" \in Loop
  BY DEF IInv, Base, Core, Loop
<1>1. CASE MaintenanceSummary
  <2>1. Sound(file') /\ file'.acked = file.acked
    BY <1>1, ExpireStaleSound, ExpireEffect DEF MaintenanceSummary
  <2>2. QED
    BY <1>1, <2>1 DEF MaintenanceSummary, IInv, Base, CursorsKnown, Cursor
<1>2. CASE OtherLoopFails
  <2>1. IsCircuit(circuit')
    BY <1>0, <1>2, CircuitKept DEF OtherLoopFails, CircuitFails
  <2>2. QED
    BY <1>2, <2>1 DEF OtherLoopFails, IInv, Base, CursorsKnown, Cursor
<1>3. CASE OtherSessionInvalid
  <2>1. /\ recovery' \in [Loop -> Recovering]
        /\ recovery'["maintenance"].at = "lock"
        /\ \A u \in Loop \ {"maintenance"} : recovery'[u] = recovery[u]
    BY <1>0, <1>3, StartBase DEF OtherSessionInvalid, IInv
  <2>2. QED
    BY <1>3, <2>1 DEF OtherSessionInvalid, IInv, Base, CursorsKnown, Cursor
<1>4. ASSUME NEW t \in Loop, Recovered(t)
      PROVE  /\ IsCircuit(circuit') /\ recovery' \in [Loop -> Recovering]
             /\ recovery'[t].at = "none"
             /\ \A u \in Loop \ {t} : recovery'[u] = recovery[u]
  BY <1>0, <1>4, CircuitKept, StartTyped DEF Recovered
<1>5. ASSUME NEW t \in Loop, AlreadyReplaced(t)
      PROVE  IInv'
  <2>1. /\ IsCircuit(circuit') /\ recovery' \in [Loop -> Recovering]
        /\ recovery'[t].at = "none"
        /\ \A u \in Loop \ {t} : recovery'[u] = recovery[u]
    BY <1>4, <1>5 DEF AlreadyReplaced
  <2>2. QED
    BY <1>5, <2>1 DEF AlreadyReplaced, IInv, Base, CursorsKnown, Cursor
<1>6. ASSUME NEW t \in Loop, ConnectSession(t)
      PROVE  IInv'
  <2>1. /\ core' \in Core /\ core'.ledger = core.ledger
        /\ core'.opened = core.opened + 1 /\ core'.session = core.opened + 1
        /\ session' = core.opened + 1 /\ lock' \in Loop
    <3>1. /\ core' = [core EXCEPT !.session = core.opened + 1, !.opened = @ + 1]
          /\ session' = core.opened + 1 /\ lock' = t
      BY <1>6 DEF ConnectSession
    <3>2. core \in Core /\ core.opened + 1 \in Nat
      BY <1>0
    <3>3. QED
      BY <3>1, <3>2 DEF Core
  <2>2. /\ recovery' \in [Loop -> Recovering]
        /\ recovery'[t].cursor = Cursor
        /\ \A u \in Loop \ {t} : recovery'[u] = recovery[u]
    BY <1>0, <1>6 DEF ConnectSession, Recovering
  <2>3. session' \in 0..core'.opened /\ core'.session \in 0..core'.opened
    BY <1>0, <2>1
  <2>4. QED
    BY <1>6, <2>1, <2>2, <2>3 DEF ConnectSession, IInv, Base, CursorsKnown, Cursor
<1>7. ASSUME NEW t \in Loop, SynchronizeQueue(t)
      PROVE  IInv'
  <2>1. recovery[t].cursor \in Nat /\ recovery[t].cursor <= Cursor
    BY <1>0, <1>7 DEF SynchronizeQueue, IInv, CursorsKnown, Recovering
  <2>2. Sound(file') /\ file'.acked <= Cursor
    BY <1>7, <2>1, SynchronizeSound, SynchronizeEffect DEF SynchronizeQueue
  <2>3. /\ IsCircuit(circuit') /\ recovery' \in [Loop -> Recovering]
        /\ recovery'[t].at = "none"
        /\ \A u \in Loop \ {t} : recovery'[u] = recovery[u]
    BY <1>4, <1>7 DEF SynchronizeQueue
  <2>4. QED
    BY <1>7, <2>2, <2>3 DEF SynchronizeQueue, IInv, Base, CursorsKnown, Cursor
<1>8. ASSUME NEW t \in Loop, RecoveryFails(t)
      PROVE  IInv'
  <2>1. IsCircuit(circuit')
    BY <1>0, <1>8, CircuitKept DEF RecoveryFails, CircuitFails
  <2>2. /\ recovery' \in [Loop -> Recovering] /\ recovery'[t].at = "none"
        /\ \A u \in Loop \ {t} : recovery'[u] = recovery[u]
    BY <1>0, <1>8, StartTyped DEF RecoveryFails
  <2>3. QED
    BY <1>8, <2>1, <2>2 DEF RecoveryFails, IInv, Base, CursorsKnown, Cursor
<1>9. QED
  BY <1>1, <1>2, <1>3, <1>5, <1>6, <1>7, <1>8 DEF RecoveryStep

\* What hearing an answer does to the upload loop.
LEMMA AnswerEffect ==
  ASSUME Base, NEW r, NEW reply \in {"ok", "error", "invalid"},
         core'.ledger \in Seq(Item), Answer(r, reply)
  PROVE  /\ upload' \in Upload
         /\ upload'.at = upload.at /\ upload'.from = upload.from
         /\ upload'.items = upload.items /\ upload'.replay = upload.replay
         /\ upload'.sent = upload.sent
         /\ \/ upload' = upload
            \/ /\ upload'.reply = reply /\ upload'.cursor = Len(core'.ledger)
               /\ upload.at = "wait" /\ upload.sent = {r}
<1>1. upload \in Upload /\ Len(core'.ledger) \in Nat
  BY LenProperties DEF Base
<1>2. QED
  BY <1>1 DEF Answer, Upload

\* What serving a request of the current session does to the ledger.
LEMMA IngestEffect ==
  ASSUME NEW ledger \in Seq(Item), NEW items \in Seq(Item), NEW from \in Nat \ {0},
         from <= Len(ledger) + 1
  PROVE  LET new == ledger \o SubSeq(items, Len(ledger) + 2 - from, Len(items))
         IN  /\ new \in Seq(Item)
             /\ Len(new) >= Len(ledger)
             /\ Len(new) = IF from + Len(items) - 1 > Len(ledger)
                             THEN from + Len(items) - 1 ELSE Len(ledger)
             /\ \A i \in 1..Len(ledger) : new[i] = ledger[i]
             /\ \A i \in (Len(ledger) + 1)..Len(new) : new[i] = items[i - from + 1]
<1> DEFINE m == Len(ledger) + 2 - from
           tail == SubSeq(items, m, Len(items))
           new == ledger \o tail
<1>1. Len(ledger) \in Nat /\ Len(items) \in Nat /\ m \in Nat \ {0} /\ from \in Nat
  BY LenProperties
<1>2. \A i \in m..Len(items) : items[i] \in Item
  BY <1>1, ElementOfSeq
<1>3. /\ tail \in Seq(Item)
      /\ Len(tail) = IF m <= Len(items) THEN Len(items) - m + 1 ELSE 0
      /\ \A i \in 1..(Len(items) - m + 1) : tail[i] = items[m + i - 1]
  BY <1>1, <1>2, SubSeqProperties
<1> HIDE DEF tail
<1>4. /\ new \in Seq(Item)
      /\ Len(new) = Len(ledger) + Len(tail)
      /\ \A i \in 1..(Len(ledger) + Len(tail)) :
           new[i] = IF i <= Len(ledger) THEN ledger[i] ELSE tail[i - Len(ledger)]
  BY <1>3, ConcatProperties
<1> HIDE DEF new
<1>5. Len(tail) \in Nat
  BY <1>3, LenProperties
<1>6. \A i \in 1..Len(ledger) : new[i] = ledger[i]
  BY <1>1, <1>4, <1>5
<1>7. ASSUME NEW i \in (Len(ledger) + 1)..Len(new)
      PROVE  new[i] = items[i - from + 1]
  <2>1. /\ i \in 1..(Len(ledger) + Len(tail)) /\ ~(i <= Len(ledger))
        /\ i - Len(ledger) \in 1..Len(tail)
    BY <1>1, <1>4, <1>5
  <2>2. i - Len(ledger) \in 1..(Len(items) - m + 1)
    BY <1>1, <1>3, <2>1
  <2>3. m + (i - Len(ledger)) - 1 = i - from + 1
    BY <1>1
  <2>4. QED
    BY <1>3, <1>4, <2>1, <2>2, <2>3
<1>8. /\ Len(new) >= Len(ledger)
      /\ Len(new) = IF from + Len(items) - 1 > Len(ledger)
                      THEN from + Len(items) - 1 ELSE Len(ledger)
  BY <1>1, <1>3, <1>4, <1>5
<1>9. QED
  BY <1>4, <1>6, <1>7, <1>8 DEF new, tail

\* The Core, the network and the machine.
LEMMA OutsideBase ==
  ASSUME IInv,
         \/ \E r \in network : CoreAnswers(r) \/ CoreFails(r)
         \/ Timeout
         \/ SessionEnds
         \/ GrowOld
         \/ Restart
  PROVE  IInv'
<1> USE Finds DEF link, outside
<1>0. /\ upload \in Upload /\ Base /\ network \in SUBSET Request
      /\ session \in Nat /\ core.opened \in Nat
  BY DEF IInv, Base, Core
<1>1. ASSUME NEW r \in network, CoreAnswers(r)
      PROVE  IInv'
  <2>1. r.items \in Seq(Item) /\ r.from \in Nat \ {0}
    BY <1>0 DEF Request
  <2>2. /\ core' \in Core /\ Len(core'.ledger) >= Len(core.ledger)
        /\ core'.session = core.session /\ core'.opened = core.opened
    <3>1. CASE UNCHANGED core
      BY <3>1 DEF Cursor
    <3>2. CASE /\ r.session = core.session /\ r.from <= Cursor + 1
               /\ core' = [core EXCEPT !.ledger =
                             @ \o SubSeq(r.items, Cursor + 2 - r.from, Len(r.items))]
      <4> DEFINE new == core.ledger \o SubSeq(r.items, Len(core.ledger) + 2 - r.from,
                                              Len(r.items))
      <4>1. new \in Seq(Item) /\ Len(new) >= Len(core.ledger)
        BY <2>1, <3>2, IngestEffect DEF Cursor
      <4>2. core' = [core EXCEPT !.ledger = new]
        BY <3>2 DEF Cursor
      <4> HIDE DEF new
      <4>3. core \in Core
        OBVIOUS
      <4>4. /\ core'.ledger = new /\ core'.session = core.session
            /\ core'.opened = core.opened
        BY <4>2, <4>3 DEF Core
      <4>5. core' \in Core
        BY <4>1, <4>2, <4>3 DEF Core
      <4>6. QED
        BY <4>1, <4>4, <4>5
    <3>3. r.from > Cursor + 1 \/ r.from <= Cursor + 1
      BY <2>1
    <3>4. QED
      BY <1>1, <3>1, <3>2, <3>3, Zenon DEF CoreAnswers
  <2>3. core'.ledger \in Seq(Item) /\ Len(core'.ledger) \in Nat
    BY <2>2, LenProperties DEF Core
  <2>4. \E reply \in {"ok", "error", "invalid"} : Answer(r, reply)
    BY <1>1 DEF CoreAnswers
  <2>5. /\ upload' \in Upload /\ upload'.at = upload.at /\ upload'.from = upload.from
        /\ \/ upload' = upload
           \/ upload'.cursor = Len(core'.ledger)
    BY <1>0, <2>3, <2>4, AnswerEffect
  <2>6. network' \in SUBSET Request
    BY <1>0, <1>1 DEF CoreAnswers
  <2>7. upload'.reply = "ok" => upload'.cursor <= Len(core'.ledger)
    <3>1. CASE upload' = upload
      <4>1. upload.cursor \in Nat /\ (upload.reply = "ok" => upload.cursor <= Cursor)
        BY <1>0 DEF Upload, IInv, CursorsKnown
      <4>2. QED
        BY <2>2, <2>3, <3>1, <4>1 DEF Cursor
    <3>2. CASE upload'.cursor = Len(core'.ledger)
      BY <2>3, <3>2
    <3>3. QED
      BY <2>5, <3>1, <3>2
  <2>8. \A t \in Loop : recovery[t].at = "synchronize" => recovery[t].cursor <= Len(core'.ledger)
    <3>1. \A t \in Loop : recovery[t].cursor \in Nat
      BY <1>0 DEF Base, Recovering
    <3>2. QED
      BY <2>2, <2>3, <3>1 DEF IInv, CursorsKnown, Cursor
  <2>9. file.acked <= Len(core'.ledger)
    BY <2>2, <2>3 DEF Cursor
  <2>10. CursorsKnown'
    BY <1>1, <2>7, <2>8, <2>9 DEF CoreAnswers, CursorsKnown, Cursor
  <2>11. Base'
    BY <1>0, <1>1, <2>2, <2>5, <2>6 DEF CoreAnswers, Base
  <2>12. QED
    BY <2>10, <2>11 DEF IInv
<1>2. ASSUME NEW r \in network, CoreFails(r)
      PROVE  IInv'
  <2>1. /\ upload' \in Upload /\ upload'.at = upload.at /\ upload'.from = upload.from
        /\ (upload' = upload \/ upload'.reply = "error")
    BY <1>0, <1>2, AnswerEffect DEF CoreFails
  <2>2. QED
    BY <1>0, <1>2, <2>1 DEF CoreFails, IInv, Base, CursorsKnown, Cursor
<1>3. CASE Timeout
  <2>1. /\ upload' \in Upload /\ upload'.at = upload.at /\ upload'.from = upload.from
        /\ upload'.reply = "error"
    BY <1>0, <1>3 DEF Timeout, Upload
  <2>2. QED
    BY <1>3, <2>1 DEF Timeout, IInv, Base, CursorsKnown, Cursor
<1>4. CASE SessionEnds
  <2>1. /\ core' \in Core /\ core'.ledger = core.ledger
        /\ core'.opened = core.opened /\ core'.session = 0
    BY <1>4 DEF SessionEnds, Core
  <2>2. core'.session \in 0..core'.opened
    BY <1>0, <2>1
  <2>3. QED
    BY <1>4, <2>1, <2>2 DEF SessionEnds, IInv, Base, CursorsKnown, Cursor
<1>5. CASE GrowOld
  <2>1. Sound(file') /\ file'.acked = file.acked
    BY <1>5, AgeSound, AgeEffect DEF GrowOld, SameButRows
  <2>2. QED
    BY <1>5, <2>1 DEF GrowOld, IInv, Base, CursorsKnown, Cursor
<1>6. CASE Restart
  <2>1. Sound(file') /\ file'.acked = file.acked
    BY <1>6, MarkSound, MarkEffect
       DEF Restart, Reopen, MarkPendingDeliveryUncertain, SameButRows
  <2>2. session' \in 0..core'.opened
    BY <1>0, <1>6 DEF Restart
  <2>3. QED
    BY <1>6, <2>1, <2>2, StartTyped DEF Restart, IInv, Base, CursorsKnown, Cursor
<1>7. QED
  BY <1>1, <1>2, <1>3, <1>4, <1>5, <1>6

\* Every handler of the delivery keeps the values well formed, and no cursor
\* overtakes the ledger.
LEMMA NextBase == IInv /\ [Next]_vars => IInv'
<1> SUFFICES ASSUME IInv, [Next]_vars
             PROVE  IInv'
  OBVIOUS
<1>1. CASE UNCHANGED vars
  BY <1>1 DEF vars, link, outside, IInv, Base, CursorsKnown, Cursor
<1>2. QED
  BY <1>1, FillBase, UploadBase, RecoveryBase, OutsideBase DEF Next

-----------------------------------------------------------------------------
(* The loops together use the queue as its contract says.                  *)

\* What becomes of the file in a step: nothing, or what one method does to it.
FileStep(s, r) ==
  \/ r \in {s, ExpireStale(s), MarkReconciliationQueued(s), Age(s)}
  \/ \E p \in Payload : r = Enqueue(s, p)
  \/ \E seqs : r = MarkDeliveryAttempted(s, seqs)
  \/ \E n \in Nat : r \in {AcknowledgeThrough(s, n), SynchronizeWithServerCursor(s, n)}

\* No step of the connector writes to the file but through one method.
LEMMA NextUsesMethods ==
  ASSUME IInv, [Next]_vars
  PROVE  FileStep(file, file')
<1>1. CASE UNCHANGED file
  BY <1>1 DEF FileStep
<1>2. CASE EnqueueEvent
  <2>1. source \in Payload /\ file' = Enqueue(file, source)
    BY <1>2 DEF EnqueueEvent, Put, IInv, Base
  <2>2. QED
    BY <2>1 DEF FileStep
<1>3. CASE EnqueueSnapshot
  <2> DEFINE p == [item |-> inventory.item, mode |-> inventory.mode]
  <2>1. inventory.item \in Snapshot /\ inventory.mode \in Mode
    BY <1>3 DEF EnqueueSnapshot, IInv, Base, Inventory
  <2>2. p \in Payload
    BY <2>1, DeliveryAssumption DEF Item
  <2>3. file' = Enqueue(file, p)
    BY <1>3 DEF EnqueueSnapshot, Put
  <2> HIDE DEF p
  <2>4. QED
    BY <2>2, <2>3 DEF FileStep
<1>4. CASE TakeBatch \/ CompleteProbe \/ MaintenanceSummary
  <2>1. file' = ExpireStale(file)
    BY <1>4 DEF TakeBatch, CompleteProbe, MaintenanceSummary
  <2>2. QED
    BY <2>1 DEF FileStep
<1>5. CASE ReconciliationQueued
  <2>1. file' = MarkReconciliationQueued(file)
    BY <1>5 DEF ReconciliationQueued
  <2>2. QED
    BY <2>1 DEF FileStep
<1>6. CASE SendBatch \/ RetryBatch \/ GiveBatchUp \/ UploadSessionInvalid \/ Restart
  <2>1. \E seqs : file' = MarkDeliveryAttempted(file, seqs)
    BY <1>6 DEF SendBatch, RetryBatch, GiveBatchUp, UploadSessionInvalid, Restart, Reopen,
                MarkPendingDeliveryUncertain
  <2>2. QED
    BY <2>1 DEF FileStep
<1>7. CASE ReceiptArrives
  <2>1. upload.cursor \in Nat /\ file' = AcknowledgeThrough(file, upload.cursor)
    BY <1>7 DEF ReceiptArrives, IInv, Base, Upload
  <2>2. QED
    BY <2>1 DEF FileStep
<1>8. ASSUME NEW t \in Loop, SynchronizeQueue(t)
      PROVE  FileStep(file, file')
  <2>1. recovery[t].cursor \in Nat
    BY <1>8 DEF IInv, Base, Recovering
  <2>2. file' = SynchronizeWithServerCursor(file, recovery[t].cursor)
    BY <1>8 DEF SynchronizeQueue
  <2>3. QED
    BY <2>1, <2>2 DEF FileStep
<1>9. CASE GrowOld
  <2>1. file' = Age(file)
    BY <1>9 DEF GrowOld
  <2>2. QED
    BY <2>1 DEF FileStep
<1>10. CASE \/ \E e \in Event : ClassifyEvent(e)
            \/ \E s \in Snapshot : CollectSnapshot(s)
            \/ ClassifySnapshot \/ OtherLoopFails \/ OtherSessionInvalid
            \/ \E t \in Loop : AlreadyReplaced(t) \/ ConnectSession(t) \/ RecoveryFails(t)
            \/ \E r \in network : CoreAnswers(r) \/ CoreFails(r)
            \/ Timeout \/ SessionEnds \/ UNCHANGED vars
  BY <1>1, <1>10
     DEF ClassifyEvent, CollectSnapshot, ClassifySnapshot, OtherLoopFails, OtherSessionInvalid,
         AlreadyReplaced, ConnectSession, RecoveryFails, CoreAnswers, CoreFails, Timeout,
         SessionEnds, vars
<1>11. QED
  BY <1>2, <1>3, <1>4, <1>5, <1>6, <1>7, <1>8, <1>9, <1>10
     DEF Next, UploadStep, RecoveryStep

\* The log that is seen in the file while the connector runs.
Log == INSTANCE UplinkLog WITH
         cursor  <- file.acked,
         tail    <- TailOf(file),
         dropped <- file.dropped,
         owed    <- file.required

\* Each method is a step of the log, or none that can be seen.
LEMMA MethodIsLogStep ==
  ASSUME NEW s, Sound(s), NEW r, FileStep(s, r)
  PROVE  LogStep(s, r)
<1>1. Typed(s)
  BY DEF Sound
<1>2. CASE r \in {s, ExpireStale(s), MarkReconciliationQueued(s)}
  BY <1>2, NoStep, ExpireStep, ReconciliationStep
<1>3. CASE r = Age(s)
  BY <1>1, <1>3, AgeEffect, SameButRowsStep
<1>4. ASSUME NEW p \in Payload, r = Enqueue(s, p)
      PROVE  LogStep(s, r)
  BY <1>4, EnqueueStep
<1>5. ASSUME NEW seqs, r = MarkDeliveryAttempted(s, seqs)
      PROVE  LogStep(s, r)
  BY <1>1, <1>5, MarkEffect, SameButRowsStep
<1>6. ASSUME NEW n \in Nat, r \in {AcknowledgeThrough(s, n), SynchronizeWithServerCursor(s, n)}
      PROVE  LogStep(s, r)
  BY <1>6, AcknowledgeStep, SynchronizeStep
<1>7. QED
  BY <1>2, <1>3, <1>4, <1>5, <1>6 DEF FileStep

\* Each method keeps the table within its limit.
LEMMA MethodWithin ==
  ASSUME NEW s, Sound(s), Within(s), NEW r, Sound(r), FileStep(s, r)
  PROVE  Within(r)
<1>1. Typed(s)
  BY DEF Sound
<1>2. CASE r \in {s, ExpireStale(s)}
  BY <1>2, ExpireWithin
<1>3. CASE r = Age(s)
  BY <1>1, <1>3, AgeEffect, SameButRowsWithin
<1>4. CASE r = MarkReconciliationQueued(s)
  <2>1. r.rows = s.rows
    BY <1>1, <1>4, ReconciliationEffect
  <2>2. Lighter(r, s)
    BY <2>1 DEF Lighter, Queued
  <2>3. QED
    BY <2>2, LighterWithin
<1>5. ASSUME NEW p \in Payload, r = Enqueue(s, p)
      PROVE  Within(r)
  BY <1>5, EnqueueWithin
<1>6. ASSUME NEW seqs, r = MarkDeliveryAttempted(s, seqs)
      PROVE  Within(r)
  BY <1>1, <1>6, MarkEffect, SameButRowsWithin
<1>7. ASSUME NEW n \in Nat, r \in {AcknowledgeThrough(s, n), SynchronizeWithServerCursor(s, n)}
      PROVE  Within(r)
  BY <1>7, AcknowledgeWithin, SynchronizeWithin
<1>8. QED
  BY <1>2, <1>3, <1>4, <1>5, <1>6, <1>7 DEF FileStep

\* A step between files is a step of UplinkLog.
LEMMA LogStepIsLogNext ==
  ASSUME LogStep(file, file')
  PROVE  Log!Next \/ UNCHANGED Log!vars
<1>1. ASSUME NEW p \in Payload, Appends(file, file', p)
      PROVE  Log!Append1(p)
  BY <1>1 DEF Appends, SameCounts, Log!Append1
<1>2. ASSUME NEW p \in Payload, Clears(file, file', <<p>>, Len(TailOf(file)))
      PROVE  Log!ClearAndAppend(p)
  BY <1>2 DEF Clears, GivesUp, Log!ClearAndAppend, Log!GiveUp
<1>3. CASE Refuses(file, file')
  BY <1>3 DEF Refuses, GivesUp, Log!Refuse, Log!GiveUp, Log!Next
<1>4. CASE Clears(file, file', <<>>, Len(TailOf(file)))
  BY <1>4 DEF Clears, GivesUp, Log!Clear, Log!GiveUp, Log!Next
<1>5. CASE Clears(file, file', <<>>, Len(TailOf(file)) + 1)
  BY <1>5 DEF Clears, GivesUp, Log!ClearAndRefuse, Log!GiveUp, Log!Next
<1>6. CASE Confirms(file, file')
  BY <1>6 DEF Confirms, SameCounts, Log!Confirm, Log!Next
<1>7. CASE Rewinds(file, file')
  BY <1>7 DEF Rewinds, SameCounts, GivesUp, Log!Rewind, Log!GiveUp, Log!Next
<1>8. CASE Reconciles(file, file')
  BY <1>8 DEF Reconciles, Log!Reconciled, Log!Next
<1>9. CASE Invisible(file, file')
  BY <1>9 DEF Invisible, SameCounts, Log!vars
<1>10. QED
  BY <1>1, <1>2, <1>3, <1>4, <1>5, <1>6, <1>7, <1>8, <1>9 DEF LogStep, Log!Next

\* A new file is the empty log.
LEMMA InitIsLogInit == Init => Log!Init
<1> SUFFICES ASSUME Init
             PROVE  Log!Init
  OBVIOUS
<1>1. /\ file.acked = 0 /\ file.dropped = 0 /\ file.required = FALSE
      /\ Queued(file) = {} /\ Sound(file)
  BY FreshSound DEF Init, Fresh, Queued
<1>2. TailOf(file) = <<>>
  BY <1>1, TailFacts
<1>3. QED
  BY <1>1, <1>2 DEF Log!Init

-----------------------------------------------------------------------------
(* Results.                                                                *)

\* Whatever the loops, the Core and the network do, and wherever the process
\* dies, the file, the breaker and the loops stay well-formed.
THEOREM DeliveryTyped == Spec => []TypeOK
<1>1. IInv => TypeOK
  <2> SUFFICES ASSUME IInv
               PROVE  TypeOK
    OBVIOUS
  <2>1. Typed(file) /\ core.ledger \in Seq(Item)
    BY Finds
  <2>2. upload.at \in {"idle", "send", "wait", "probe"}
    BY DEF IInv, Base, Upload
  <2>3. inventory.at \in {"idle", "collected", "classified", "queued"}
    BY DEF IInv, Base, Inventory
  <2>4. \A t \in Loop : recovery[t].at \in {"none", "lock", "synchronize"}
    BY DEF IInv, Base, Recovering
  <2>5. QED
    BY <2>1, <2>2, <2>3, <2>4 DEF TypeOK, IInv, Base
<1>2. QED
  BY InitBase, NextBase, <1>1, PTL DEF Spec

\* The connector as a whole implements the log of UplinkLog: with its loops
\* interleaved, retries, late receipts, replaced sessions, crashes and expiry,
\* items enter the queue at the end and leave it at the front, and are lost only
\* on entry or all together, counted and with a snapshot owed.
THEOREM DeliveryImplementsLog == Spec => Log!Spec
<1>1. Init => Log!Init
  BY InitIsLogInit
<1>2. IInv /\ [Next]_vars => [Log!Next]_(Log!vars)
  <2> SUFFICES ASSUME IInv, [Next]_vars
               PROVE  Log!Next \/ UNCHANGED Log!vars
    OBVIOUS
  <2>1. Sound(file) /\ FileStep(file, file')
    BY NextUsesMethods DEF IInv, Base
  <2>2. QED
    BY <2>1, MethodIsLogStep, LogStepIsLogNext
<1>3. QED
  BY <1>1, <1>2, InitBase, NextBase, PTL DEF Spec, Log!Spec

\* Nor does the table ever grow past max_bytes, whichever loop fills it.
THEOREM DeliveryWithinByteLimit == Spec => [](TotalBytes(file) <= MaxBytes)
<1>1. Init => TotalBytes(file) <= MaxBytes
  BY FreshWithin DEF Init, Within
<1>2. IInv /\ TotalBytes(file) <= MaxBytes /\ [Next]_vars => (TotalBytes(file) <= MaxBytes)'
  <2> SUFFICES ASSUME IInv, Within(file), [Next]_vars
               PROVE  Within(file')
    BY DEF Within
  <2>1. Sound(file) /\ Sound(file') /\ FileStep(file, file')
    BY NextBase, NextUsesMethods DEF IInv, Base
  <2>2. QED
    BY <2>1, MethodWithin
<1>3. QED
  BY <1>1, <1>2, InitBase, NextBase, PTL DEF Spec

\* The connector never takes for acknowledged what the Core does not have:
\* both cursors it adopts, of a receipt and of a new session, were the length
\* of the ledger when the Core named them, and the ledger only grows.
THEOREM AcknowledgedOnlyIngested == Spec => []AcknowledgedIsIngested
<1>1. IInv => AcknowledgedIsIngested
  BY DEF IInv, CursorsKnown, AcknowledgedIsIngested
<1>2. QED
  BY InitBase, NextBase, <1>1, PTL DEF Spec

-----------------------------------------------------------------------------
(* Sessions: whoever holds a stale one holds one that the Core has given   *)
(* up, and keeps knowing so until it holds the lock.                       *)

Opened == 1..core.opened

Sessions ==
  /\ \A r \in network \cup upload.sent : r.session \in Opened
  /\ upload.reply = "invalid" => \A r \in upload.sent : r.session # core.session
  /\ upload.at # "idle" => running
  /\ running => session # 0
  /\ ~running => recovery["maintenance"].at = "none"
  /\ \A t \in Loop : recovery[t].at = "synchronize" => session # 0
  /\ \A t \in Loop : running /\ recovery[t].at = "lock" =>
       recovery[t].stale \in Opened /\ recovery[t].stale # core.session

\* No session has been opened yet.
LEMMA InitSessions == Init => Sessions
  BY StartTyped DEF Init, Sessions, NoUpload, Booting, Loop

\* Steps that no session takes part in.
LEMMA SessionsFrame ==
  ASSUME Sessions, UNCHANGED <<session, running, recovery>>,
         network' \subseteq network,
         core'.opened = core.opened, core'.session = core.session,
         \/ upload' = upload
         \/ upload' = NoUpload
         \/ upload'.at = upload.at /\ upload'.sent = upload.sent /\ upload'.reply # "invalid"
  PROVE  Sessions'
<1>1. NoUpload.at = "idle" /\ NoUpload.reply = "none" /\ NoUpload.sent = {}
  BY DEF NoUpload
<1>2. QED
  BY <1>1, Zenon DEF Sessions, Opened

\* Only _establish_session opens a session, and it numbers them.
LEMMA NextSessions ==
  ASSUME IInv, Sessions, [Next]_vars
  PROVE  Sessions'
<1> USE DEF link, outside
<1>0. /\ IInv' /\ upload \in Upload /\ upload' \in Upload
      /\ session \in 0..core.opened /\ core.opened \in Nat
      /\ "upload" \in Loop /\ "maintenance" \in Loop
      /\ recovery \in [Loop -> Recovering]
      /\ NoUpload.at = "idle" /\ NoUpload.reply = "none" /\ NoUpload.sent = {}
  BY NextBase DEF IInv, Base, Core, Loop, NoUpload
<1>1. CASE \/ \E e \in Event : ClassifyEvent(e)
           \/ EnqueueEvent
           \/ \E s \in Snapshot : CollectSnapshot(s)
           \/ ClassifySnapshot
           \/ EnqueueSnapshot
           \/ ReconciliationQueued
           \/ MaintenanceSummary
           \/ OtherLoopFails
           \/ GrowOld
           \/ UNCHANGED vars
  <2>1. UNCHANGED <<session, running, recovery, network, upload, core>>
    BY <1>1 DEF ClassifyEvent, EnqueueEvent, CollectSnapshot, ClassifySnapshot,
                EnqueueSnapshot, ReconciliationQueued, MaintenanceSummary, OtherLoopFails,
                GrowOld, vars
  <2>2. QED
    BY <2>1, SessionsFrame
<1>2. CASE TakeBatch
  <2>1. /\ upload' = upload \/ (upload'.reply = "none" /\ upload'.sent = {})
        /\ UNCHANGED <<session, running, recovery, network, core>> /\ running
    BY <1>0, <1>2 DEF TakeBatch, NoUpload
  <2>2. QED
    BY <2>1 DEF Sessions, Opened
<1>3. CASE SendBatch
  <2> DEFINE r == [session |-> session, from |-> upload.from, items |-> upload.items,
                   mode |-> IF upload.replay THEN "replay" ELSE "realtime"]
  <2>1. /\ network' = network \cup {r} /\ upload'.sent = {r} /\ upload'.reply = "none"
        /\ r.session = session
        /\ UNCHANGED <<session, running, recovery, core>> /\ running
    BY <1>0, <1>3 DEF SendBatch, Upload, Sessions
  <2>2. session \in Opened
    BY <1>0, <2>1 DEF Sessions, Opened
  <2> HIDE DEF r
  <2>3. QED
    BY <2>1, <2>2 DEF Sessions, Opened
<1>4. CASE ReceiptArrives \/ RetryBatch \/ GiveBatchUp
  <2>1. /\ UNCHANGED <<session, running, recovery, network, core>>
        /\ \/ upload' = NoUpload
           \/ /\ upload'.at = "send" /\ upload.at = "wait"
              /\ upload'.sent = upload.sent /\ upload'.reply = "error"
    BY <1>0, <1>4 DEF ReceiptArrives, RetryBatch, GiveBatchUp, Upload
  <2>2. QED
    BY <1>0, <2>1 DEF Sessions, Opened
<1>5. CASE UploadSessionInvalid
  <2>1. PICK r \in upload.sent : StartRecovery("upload", r.session, AfterFailure(circuit))
    BY <1>5 DEF UploadSessionInvalid
  <2>2. r.session \in Opened /\ r.session # core.session
    BY <1>5 DEF UploadSessionInvalid, Sessions
  <2>3. /\ recovery'["upload"].at = "lock" /\ recovery'["upload"].stale = r.session
        /\ \A u \in Loop \ {"upload"} : recovery'[u] = recovery[u]
    BY <1>0, <2>1 DEF StartRecovery
  <2>4. UNCHANGED <<session, running, network, core>> /\ upload' = NoUpload
    BY <1>5 DEF UploadSessionInvalid
  <2>5. QED
    BY <1>0, <2>2, <2>3, <2>4 DEF Sessions, Opened
<1>6. CASE CompleteProbe
  <2>1. UNCHANGED <<session, running, network, core>> /\ upload' = NoUpload /\ running
    BY <1>6 DEF CompleteProbe, Sessions
  <2>2. CASE recovery' = recovery
    BY <2>1, <2>2, SessionsFrame
  <2>3. CASE session # core.session /\ StartRecovery("upload", session, AfterFailure(circuit))
    <3>1. /\ recovery'["upload"].at = "lock" /\ recovery'["upload"].stale = session
          /\ \A u \in Loop \ {"upload"} : recovery'[u] = recovery[u]
      BY <1>0, <2>3 DEF StartRecovery
    <3>2. session \in Opened
      BY <1>0, <2>1 DEF Sessions, Opened
    <3>3. QED
      BY <1>0, <2>1, <2>3, <3>1, <3>2 DEF Sessions, Opened
  <2>4. QED
    BY <1>6, <2>2, <2>3 DEF CompleteProbe
<1>7. CASE OtherSessionInvalid
  <2>1. UNCHANGED <<session, running, network, core, upload>> /\ running /\ session # core.session
    BY <1>7 DEF OtherSessionInvalid
  <2>2. /\ recovery'["maintenance"].at = "lock" /\ recovery'["maintenance"].stale = session
        /\ \A u \in Loop \ {"maintenance"} : recovery'[u] = recovery[u]
    BY <1>0, <1>7 DEF OtherSessionInvalid, StartRecovery
  <2>3. session \in Opened
    BY <1>0, <2>1 DEF Sessions, Opened
  <2>4. QED
    BY <1>0, <2>1, <2>2, <2>3 DEF Sessions, Opened
<1>8. ASSUME NEW t \in Loop, AlreadyReplaced(t) \/ RecoveryFails(t)
      PROVE  Sessions'
  <2>1. /\ UNCHANGED <<session, running, network, core, upload>>
        /\ recovery'[t].at = "none"
        /\ \A u \in Loop \ {t} : recovery'[u] = recovery[u]
    BY <1>0, <1>8, StartTyped DEF AlreadyReplaced, RecoveryFails, Recovered
  <2>2. QED
    BY <1>0, <2>1 DEF Sessions, Opened
<1>9. ASSUME NEW t \in Loop, ConnectSession(t)
      PROVE  Sessions'
  <2>1. /\ UNCHANGED <<running, network, upload>>
        /\ session' = core.opened + 1
        /\ core'.session = core.opened + 1 /\ core'.opened = core.opened + 1
        /\ recovery[t].at = "lock" /\ recovery'[t].at = "synchronize"
        /\ \A u \in Loop \ {t} : recovery'[u] = recovery[u]
    BY <1>0, <1>9 DEF ConnectSession, IInv, Base, Core, Recovering
  <2>2. ASSUME NEW n \in Opened
        PROVE  n \in Opened' /\ n # core'.session
    BY <1>0, <2>1 DEF Opened
  <2>3. session' # 0
    BY <1>0, <2>1
  <2>4. QED
    BY <1>0, <2>1, <2>2, <2>3 DEF Sessions
<1>10. ASSUME NEW t \in Loop, SynchronizeQueue(t)
       PROVE  Sessions'
  <2>1. /\ UNCHANGED <<session, network, core, upload>> /\ running' = TRUE
        /\ recovery[t].at = "synchronize" /\ recovery'[t].at = "none"
        /\ \A u \in Loop \ {t} : recovery'[u] = recovery[u]
    BY <1>0, <1>10, StartTyped DEF SynchronizeQueue, Recovered
  <2>2. session # 0
    BY <2>1 DEF Sessions
  <2>3. ~running => \A u \in Loop : recovery'[u].at # "lock"
    BY <2>1 DEF Sessions, Loop
  <2>4. QED
    BY <1>0, <2>1, <2>2, <2>3 DEF Sessions, Opened
<1>11. ASSUME NEW r \in network, CoreAnswers(r)
       PROVE  Sessions'
  <2>1. /\ core'.opened = core.opened /\ core'.session = core.session
        /\ UNCHANGED <<session, running, recovery>> /\ network' \subseteq network
        /\ core' \in Core
    BY <1>0, <1>11 DEF CoreAnswers, IInv, Base, Core
  <2>2. \E reply \in {"ok", "error", "invalid"} :
          /\ Answer(r, reply)
          /\ reply = "invalid" => r.session # core.session
    BY <1>11 DEF CoreAnswers
  <2>3. /\ upload'.at = upload.at /\ upload'.sent = upload.sent
        /\ \/ upload' = upload
           \/ upload'.reply = "invalid" => upload.sent = {r} /\ r.session # core.session
    BY <2>1, <2>2, AnswerEffect DEF IInv, Core
  <2>4. QED
    BY <2>1, <2>3 DEF Sessions, Opened
<1>12. ASSUME NEW r \in network, CoreFails(r)
       PROVE  Sessions'
  <2>1. /\ UNCHANGED <<core, session, running, recovery>> /\ network' \subseteq network
        /\ Answer(r, "error") /\ core'.ledger \in Seq(Item)
    BY <1>12, Finds DEF CoreFails
  <2>2. /\ upload'.at = upload.at /\ upload'.sent = upload.sent
        /\ (upload' = upload \/ upload'.reply # "invalid")
    BY <2>1, AnswerEffect DEF IInv
  <2>3. QED
    BY <2>1, <2>2, SessionsFrame
<1>13. CASE Timeout
  <2>1. /\ UNCHANGED <<core, session, running, recovery, network>>
        /\ upload'.at = upload.at /\ upload'.sent = upload.sent /\ upload'.reply # "invalid"
    BY <1>0, <1>13 DEF Timeout, Upload
  <2>2. QED
    BY <2>1, SessionsFrame
<1>14. CASE SessionEnds
  <2>1. /\ UNCHANGED <<upload, session, running, recovery, network>>
        /\ core'.opened = core.opened /\ core'.session = 0
    BY <1>14 DEF SessionEnds, IInv, Base, Core
  <2>2. \A n \in Opened : n # 0
    BY <1>0 DEF Opened
  <2>3. QED
    BY <2>1, <2>2 DEF Sessions, Opened
<1>15. CASE Restart
  <2>1. /\ UNCHANGED <<core, network>> /\ upload' = NoUpload /\ running' = FALSE
        /\ recovery' = Booting
    BY <1>15 DEF Restart
  <2>2. Booting["maintenance"].at = "none" /\ \A t \in Loop : Booting[t].at # "synchronize"
    BY StartTyped DEF Booting, Loop
  <2>3. QED
    BY <1>0, <2>1, <2>2 DEF Sessions, Opened
<1>16. QED
  BY <1>1, <1>2, <1>3, <1>4, <1>5, <1>6, <1>7, <1>8, <1>9, <1>10, <1>11, <1>12, <1>13,
     <1>14, <1>15 DEF Next, UploadStep, RecoveryStep

\* A loop that waited for the lock while another replaced the session does not
\* replace the new one: a session is opened only when the one the connector
\* holds is not the Core's.
THEOREM LiveSessionKept == Spec => LiveSessionIsKept
<1>1. ASSUME IInv, Sessions, [Next]_vars
      PROVE  [core'.opened > core.opened /\ running => session # core.session]_vars
  <2> SUFFICES ASSUME core'.opened > core.opened, running
               PROVE  session # core.session
    OBVIOUS
  <2>1. CASE \E t \in Loop : ConnectSession(t)
    BY <1>1, <2>1 DEF ConnectSession, Sessions
  <2>2. CASE ~\E t \in Loop : ConnectSession(t)
    <3>1. core'.opened = core.opened
      BY <1>1, <2>2 DEF Next, vars, link, outside, ClassifyEvent, EnqueueEvent, CollectSnapshot,
         ClassifySnapshot, EnqueueSnapshot, ReconciliationQueued, UploadStep, TakeBatch,
         SendBatch, ReceiptArrives, RetryBatch, GiveBatchUp, UploadSessionInvalid,
         CompleteProbe, MaintenanceSummary, OtherLoopFails, OtherSessionInvalid, RecoveryStep,
         AlreadyReplaced, SynchronizeQueue, RecoveryFails, CoreAnswers, CoreFails, Timeout,
         SessionEnds, GrowOld, Restart, IInv, Base, Core
    <3>2. core.opened \in Nat
      BY <1>1 DEF IInv, Base, Core
    <3>3. QED
      BY <3>1, <3>2
  <2>3. QED
    BY <2>1, <2>2
<1>2. Sessions /\ IInv /\ [Next]_vars => Sessions'
  BY NextSessions
<1>3. QED
  BY InitBase, NextBase, InitSessions, <1>1, <1>2, PTL DEF Spec, LiveSessionIsKept

-----------------------------------------------------------------------------
(* What became of the rows of a file.                                      *)

ItemAt(s, i) == s.rows[i].payload.item

KeepsRow(r, s, i) ==
  /\ i \in Queued(s) /\ ItemAt(r, i) = ItemAt(s, i)
  /\ s.rows[i].attempted => r.rows[i].attempted

\* r has no row that s had not, none moved, and none lost its attempt marker.
Keeps(r, s) == \A i \in Queued(r) : KeepsRow(r, s, i)

\* mark_delivery_attempted only sets the flag of the rows it is given.
LEMMA MarkKeeps ==
  ASSUME NEW s, Typed(s), NEW seqs
  PROVE  LET r == MarkDeliveryAttempted(s, seqs)
         IN  /\ Keeps(r, s)
             /\ \A i \in Queued(s) : /\ i \in seqs => r.rows[i].attempted
                                    /\ r.rows[i].age = s.rows[i].age
<1> DEFINE rows == [i \in Queued(s) |->
                      [s.rows[i] EXCEPT !.attempted = @ \/ i \in seqs]]
           r == [s EXCEPT !.rows = rows]
<1>1. ASSUME NEW i \in Queued(s)
      PROVE  /\ rows[i].payload = s.rows[i].payload
             /\ s.rows[i].attempted => rows[i].attempted
             /\ i \in seqs => rows[i].attempted
             /\ rows[i].age = s.rows[i].age
  <2>1. s.rows[i] \in Row
    BY DEF Typed, Queued
  <2> DEFINE a == s.rows[i].attempted \/ i \in seqs
  <2>2. rows[i] = [s.rows[i] EXCEPT !.attempted = a]
    OBVIOUS
  <2> HIDE DEF rows, a
  <2>3. /\ rows[i].payload = s.rows[i].payload /\ rows[i].attempted = a
        /\ rows[i].age = s.rows[i].age
    BY <2>1, <2>2 DEF Row
  <2>4. QED
    BY <2>3, Zenon DEF a
<1> HIDE DEF rows
<1>2. r.rows = rows /\ DOMAIN rows = Queued(s)
  BY DEF Typed, rows
<1>3. QED
  BY <1>1, <1>2 DEF MarkDeliveryAttempted, Keeps, KeepsRow, ItemAt, Queued, rows

\* A row grows older without being rewritten.
LEMMA AgeKeeps ==
  ASSUME NEW s, Typed(s)
  PROVE  Keeps(Age(s), s)
<1> DEFINE rows == [i \in Queued(s) |->
                      [s.rows[i] EXCEPT !.age = IF @ > MaxAge THEN @ ELSE @ + 1]]
           r == [s EXCEPT !.rows = rows]
<1>1. ASSUME NEW i \in Queued(s)
      PROVE  rows[i].payload = s.rows[i].payload /\ rows[i].attempted = s.rows[i].attempted
  <2>1. s.rows[i] \in Row
    BY DEF Typed, Queued
  <2>2. QED
    BY <2>1 DEF Row
<1> HIDE DEF rows
<1>2. r.rows = rows /\ DOMAIN rows = Queued(s)
  BY DEF Typed, rows
<1>3. QED
  BY <1>1, <1>2 DEF Age, Keeps, KeepsRow, ItemAt, Queued, rows

\* The rows that a method leaves, it leaves with their item and their flag.
LEMMA MethodsKeep ==
  ASSUME NEW s, Sound(s), NEW seqs, NEW n \in Nat
  PROVE  /\ Keeps(s, s)
         /\ Keeps(ExpireStale(s), s)
         /\ Keeps(MarkDeliveryAttempted(s, seqs), s)
         /\ Keeps(MarkPendingDeliveryUncertain(s), s)
         /\ Keeps(AcknowledgeThrough(s, n), s)
         /\ Keeps(SynchronizeWithServerCursor(s, n), s)
         /\ Keeps(MarkReconciliationQueued(s), s)
         /\ Keeps(Age(s), s)
<1>0. Typed(s) /\ Numbered(s)
  BY SoundIsNumbered DEF Sound
<1>1. Keeps(s, s)
  BY DEF Keeps, KeepsRow
<1>2. Keeps(ExpireStale(s), s)
  BY <1>0, <1>1, ExpireEffect DEF Keeps
<1>3. /\ Keeps(MarkDeliveryAttempted(s, seqs), s)
      /\ Keeps(MarkPendingDeliveryUncertain(s), s)
  BY <1>0, MarkKeeps DEF MarkPendingDeliveryUncertain
<1>4. Keeps(AcknowledgeThrough(s, n), s)
  BY <1>0, AcknowledgeEffect DEF Keeps, KeepsRow, ItemAt
<1>5. Keeps(SynchronizeWithServerCursor(s, n), s)
  <2>1. CASE Contiguous(Behind(s, n), n + 1)
    BY <1>0, <2>1, SynchronizeEffect DEF Keeps, KeepsRow, ItemAt, Behind
  <2>2. CASE ~Contiguous(Behind(s, n), n + 1)
    BY <1>0, <2>2, SynchronizeEffect DEF Keeps
  <2>3. QED
    BY <2>1, <2>2
<1>6. Keeps(MarkReconciliationQueued(s), s)
  BY <1>0, ReconciliationEffect DEF Keeps, KeepsRow, ItemAt, Queued
<1>7. Keeps(Age(s), s)
  BY <1>0, AgeKeeps
<1>8. QED
  BY <1>1, <1>2, <1>3, <1>4, <1>5, <1>6, <1>7

\* enqueue adds at most one row, for the item it was given.
LEMMA EnqueueAdds ==
  ASSUME NEW s, Sound(s), NEW p \in Payload
  PROVE  LET r == Enqueue(s, p)
         IN  \E n : \A i \in Queued(r) :
               IF i = n THEN ItemAt(r, i) = p.item ELSE KeepsRow(r, s, i)
<1> DEFINE e == ExpireStale(s)
           r == Enqueue(s, p)
           n == e.next
<1>1. Sound(e) /\ Typed(e) /\ n \in Nat /\ Keeps(e, s) /\ r = Offer(e, p)
  BY ExpireStaleSound, MethodsKeep DEF Sound, Typed, Enqueue
<1>2. n \notin Queued(e)
  BY <1>1 DEF Sound, Typed, Gapless, Queued
<1> HIDE DEF e, r, n
<1>3. CASE Fits(e, p)
  <2>1. /\ Queued(r) = Queued(e) \cup {n} /\ r.rows[n].payload = p
        /\ \A i \in Queued(e) \ {n} : r.rows[i] = e.rows[i]
    BY <1>1, <1>3, InsertEffect DEF Offer, n
  <2>2. QED
    BY <1>1, <1>2, <2>1 DEF Keeps, KeepsRow, ItemAt, r
<1>4. CASE ~Fits(e, p)
  <2>1. r.rows = e.rows
    BY <1>1, <1>4, RecordDropEffect DEF Offer
  <2>2. QED
    BY <1>1, <1>2, <2>1 DEF Keeps, KeepsRow, ItemAt, Queued, r
<1>5. QED
  BY <1>3, <1>4

-----------------------------------------------------------------------------
(* The fence: an item is in one place only on its way from its loop to the *)
(* queue, and the row of one that is doubted says so.                      *)

ItemsOf(s) == {ItemAt(s, i) : i \in Queued(s)}

Loading == upload.at \in {"send", "wait"}

Loaded == IF Loading THEN ToSet(upload.items) ELSE {}

\* What the subscription and inventory loops hold and have not queued yet.
Held ==
  {x \in Item : \/ source # NoSource /\ x = source.item
                \/ inventory.at \in {"collected", "classified"} /\ x = inventory.item}

Once ==
  /\ \A i, j \in Queued(file) : ItemAt(file, i) = ItemAt(file, j) => i = j
  /\ ItemsOf(file) \cup seen.doubted \cup Loaded \cup Held \subseteq seen.taken
  /\ Held \cap (ItemsOf(file) \cup seen.doubted \cup Loaded) = {}
  /\ source # NoSource => source.item \in Event

Fenced ==
  /\ \A i \in Queued(file) : ItemAt(file, i) \in seen.doubted => file.rows[i].attempted
  /\ upload.at = "send" /\ ~upload.replay => Loaded \cap seen.doubted = {}
  /\ upload.at = "wait" => upload.replay
  /\ Loading => \A i \in Queued(file), k \in 1..Len(upload.items) :
                   ItemAt(file, i) = upload.items[k] => i = upload.from + k - 1

SeenTyped == seen \in [taken : SUBSET Item, accepted : SUBSET Item,
                       doubted : SUBSET Item, refused : Nat]

Fence == SeenTyped /\ Once /\ Fenced

\* The items of a batch, by position.
LEMMA LoadedIs ==
  ASSUME Base
  PROVE  /\ upload.items \in Seq(Item) /\ Len(upload.items) \in Nat
         /\ ToSet(upload.items) = {upload.items[k] : k \in 1..Len(upload.items)}
<1>1. upload.items \in Seq(Item)
  BY DEF Base, Upload
<1>2. QED
  BY <1>1, LenProperties DEF ToSet

\* The first queue is empty.
LEMMA InitFence == Init => Fence
<1> SUFFICES ASSUME Init
             PROVE  Fence
  OBVIOUS
<1>1. Queued(file) = {} /\ source = NoSource /\ inventory.at = "idle" /\ upload.at = "idle"
  BY StartTyped DEF Init, Fresh, Queued
<1>2. SeenTyped /\ seen.doubted = {} /\ seen.taken = {}
  BY DEF Init, SeenTyped
<1>3. QED
  BY <1>1, <1>2 DEF Fence, Once, Fenced, ItemsOf, Loaded, Loading, Held

\* Steps that observe nothing, queue nothing and cast no doubt on anything.
LEMMA FenceFrame ==
  ASSUME Fence, Keeps(file', file), UNCHANGED seen,
         Held' \subseteq Held, source' \in {source, NoSource},
         Loading' => /\ Loading /\ upload'.at \in {upload.at, "send"}
                     /\ upload'.items = upload.items
                     /\ upload'.from = upload.from /\ upload'.replay = upload.replay
  PROVE  Fence'
<1>1. ItemsOf(file') \subseteq ItemsOf(file) /\ Loaded' \subseteq Loaded
  BY DEF Keeps, KeepsRow, ItemsOf, Loaded
<1>2. Once'
  <2>1. \A i, j \in Queued(file') : ItemAt(file', i) = ItemAt(file', j) => i = j
    BY DEF Fence, Once, Keeps, KeepsRow
  <2>2. QED
    BY <1>1, <2>1 DEF Fence, Once
<1>3. Fenced'
  <2>1. \A i \in Queued(file') : ItemAt(file', i) \in seen'.doubted => file'.rows[i].attempted
    BY DEF Fence, Fenced, Keeps, KeepsRow
  <2>2. upload'.at = "send" /\ ~upload'.replay => Loaded' \cap seen'.doubted = {}
    BY <1>1 DEF Fence, Fenced, Loading
  <2>3. upload'.at = "wait" => upload'.replay
    BY DEF Fence, Fenced, Loading
  <2>4. Loading' => \A i \in Queued(file'), k \in 1..Len(upload'.items) :
                       ItemAt(file', i) = upload'.items[k] => i = upload'.from + k - 1
    BY DEF Fence, Fenced, Keeps, KeepsRow
  <2>5. QED
    BY <2>1, <2>2, <2>3, <2>4 DEF Fenced
<1>4. QED
  BY <1>2, <1>3 DEF Fence, SeenTyped

\* A failed upload and a restart put every queued item in doubt and mark every row.
LEMMA FenceDoubt ==
  ASSUME Fence, Keeps(file', file), Doubt(QueuedItems),
         \A i \in Queued(file') : file'.rows[i].attempted,
         Held' \subseteq Held, source' \in {source, NoSource},
         Loading' => /\ upload.at = "wait" /\ upload'.at = "send"
                     /\ upload'.items = upload.items
                     /\ upload'.from = upload.from /\ upload'.replay = upload.replay
  PROVE  Fence'
<1>1. QueuedItems = ItemsOf(file) /\ ItemsOf(file) \subseteq Item
  BY DEF QueuedItems, ItemsOf, ItemAt, Fence, Once, SeenTyped
<1>2. /\ SeenTyped' /\ seen'.taken = seen.taken
      /\ seen'.doubted = seen.doubted \cup ItemsOf(file)
  BY <1>1 DEF Doubt, Fence, SeenTyped
<1>3. ItemsOf(file') \subseteq ItemsOf(file) /\ Loaded' \subseteq Loaded
  BY DEF Keeps, KeepsRow, ItemsOf, Loaded, Loading
<1>4. Once'
  <2>1. \A i, j \in Queued(file') : ItemAt(file', i) = ItemAt(file', j) => i = j
    BY DEF Fence, Once, Keeps, KeepsRow
  <2>2. QED
    BY <1>2, <1>3, <2>1 DEF Fence, Once
<1>5. Fenced'
  <2>1. Loading' => upload'.at = "send" /\ upload'.replay
    BY DEF Fence, Fenced
  <2>2. Loading' => \A i \in Queued(file'), k \in 1..Len(upload'.items) :
                       ItemAt(file', i) = upload'.items[k] => i = upload'.from + k - 1
    BY DEF Fence, Fenced, Keeps, KeepsRow, Loading
  <2>3. QED
    BY <2>1, <2>2 DEF Fenced, Loading
<1>6. QED
  BY <1>2, <1>4, <1>5 DEF Fence

\* A loop observes an item for the first time.
LEMMA FenceObserve ==
  ASSUME Fence, NEW x \in Item, x \notin seen.taken, UNCHANGED <<file, upload>>,
         seen' = [seen EXCEPT !.taken = @ \cup {x}],
         Held' \subseteq Held \cup {x}, source' # NoSource => source'.item \in Event
  PROVE  Fence'
<1>1. SeenTyped' /\ seen'.taken = seen.taken \cup {x} /\ seen'.doubted = seen.doubted
  BY DEF Fence, SeenTyped
<1>2. Loaded' = Loaded /\ Loading' = Loading
  BY DEF Loaded, Loading
<1>3. x \notin ItemsOf(file) \cup seen.doubted \cup Loaded
  BY DEF Fence, Once
<1>4. Once'
  BY <1>1, <1>2, <1>3 DEF Fence, Once
<1>5. Fenced'
  BY <1>1, <1>2 DEF Fence, Fenced
<1>6. QED
  BY <1>1, <1>4, <1>5 DEF Fence

\* A loop queues the item it holds, or has it refused.
LEMMA FenceQueue ==
  ASSUME IInv, Fence, NEW p \in Payload, p.item \in Held, Put(p),
         UNCHANGED upload, Held' \subseteq Held \ {p.item}, source' \in {source, NoSource}
  PROVE  Fence'
<1> DEFINE x == p.item
<1>1. /\ SeenTyped' /\ seen'.taken = seen.taken /\ seen'.doubted = seen.doubted
  <2>1. x \in Item
    BY DEF Held
  <2>2. \/ seen' = [seen EXCEPT !.accepted = @ \cup {x}]
        \/ seen' = [seen EXCEPT !.refused = @ + 1]
    BY DEF Put
  <2>3. QED
    BY <2>1, <2>2 DEF Fence, SeenTyped
<1>2. PICK n : \A i \in Queued(file') :
        IF i = n THEN ItemAt(file', i) = x ELSE KeepsRow(file', file, i)
  <2>1. LET r == Enqueue(file, p)
        IN  \E n : \A i \in Queued(r) :
              IF i = n THEN ItemAt(r, i) = x ELSE KeepsRow(r, file, i)
    BY EnqueueAdds, Finds, Zenon
  <2>2. file' = Enqueue(file, p)
    BY DEF Put
  <2>3. QED
    BY <2>1, <2>2, Zenon
<1>3. x \in seen.taken /\ x \notin ItemsOf(file) \cup seen.doubted \cup Loaded
  BY DEF Fence, Once
<1>4. Loaded' = Loaded /\ Loading' = Loading
  BY DEF Loaded, Loading
<1> HIDE DEF x
<1>5. ItemsOf(file') \subseteq ItemsOf(file) \cup {x}
  BY <1>2 DEF ItemsOf, KeepsRow
<1>6. \A i, j \in Queued(file') : ItemAt(file', i) = ItemAt(file', j) => i = j
  BY <1>2, <1>3 DEF Fence, Once, ItemsOf, KeepsRow
<1>7. Once'
  BY <1>1, <1>3, <1>4, <1>5, <1>6 DEF Fence, Once, x
<1>8. \A i \in Queued(file') : ItemAt(file', i) \in seen'.doubted => file'.rows[i].attempted
  BY <1>1, <1>2, <1>3 DEF Fence, Fenced, KeepsRow
<1>9. Loading => \A i \in Queued(file'), k \in 1..Len(upload.items) :
                    ItemAt(file', i) = upload.items[k] => i = upload.from + k - 1
  <2> SUFFICES ASSUME Loading, NEW i \in Queued(file'), NEW k \in 1..Len(upload.items),
                      ItemAt(file', i) = upload.items[k]
               PROVE  i = upload.from + k - 1
    OBVIOUS
  <2>1. upload.items[k] \in Loaded
    BY LoadedIs DEF IInv, Loaded
  <2>2. i # n
    BY <1>2, <1>3, <2>1
  <2>3. QED
    BY <1>2, <2>2 DEF Fence, Fenced, KeepsRow
<1>10. Fenced'
  BY <1>1, <1>4, <1>8, <1>9 DEF Fence, Fenced
<1>11. QED
  BY <1>1, <1>7, <1>10 DEF Fence

\* A batch that goes in realtime mode was found without a marker, and an item
\* that is doubted has one.
LEMMA FenceTake ==
  ASSUME IInv, IInv', Fence, TakeBatch
  PROVE  Fence'
<1>1. Keeps(file', file)
  BY Finds, MethodsKeep DEF TakeBatch
<1>2. /\ UNCHANGED <<seen, source, inventory>> /\ Held' = Held /\ upload.at = "idle"
  BY DEF TakeBatch, Held
<1>3. CASE upload'.at # "send"
  <2>1. ~Loading'
    BY <1>2, <1>3, TakeBatchEffect DEF Loading
  <2>2. QED
    BY <1>1, <1>2, <2>1, FenceFrame
<1>4. CASE upload'.at = "send"
  <2>1. \A k \in 1..Len(upload'.items) :
          LET i == upload'.from + k - 1
          IN  /\ i \in Queued(file')
              /\ upload'.items[k] = ItemAt(file', i)
              /\ ~upload'.replay => ~file'.rows[i].attempted
    BY <1>2, <1>4, TakeBatchEffect DEF ItemAt
  <2>2. Loaded' = {upload'.items[k] : k \in 1..Len(upload'.items)}
    BY <1>4, LoadedIs DEF IInv, Loaded, Loading, ToSet, Base, Upload
  <2>3. /\ \A i, j \in Queued(file') : ItemAt(file', i) = ItemAt(file', j) => i = j
        /\ ItemsOf(file') \subseteq ItemsOf(file)
        /\ \A i \in Queued(file') : ItemAt(file', i) \in seen.doubted => file'.rows[i].attempted
    BY <1>1 DEF Fence, Once, Fenced, Keeps, KeepsRow, ItemsOf
  <2>4. Loaded' \subseteq ItemsOf(file')
    BY <2>1, <2>2 DEF ItemsOf
  <2>5. Once'
    BY <1>2, <2>3, <2>4 DEF Fence, Once
  <2>6. ~upload'.replay => Loaded' \cap seen.doubted = {}
    BY <2>1, <2>2, <2>3
  <2>7. \A i \in Queued(file'), k \in 1..Len(upload'.items) :
          ItemAt(file', i) = upload'.items[k] => i = upload'.from + k - 1
    BY <2>1, <2>3
  <2>8. Fenced'
    BY <1>2, <1>4, <2>3, <2>6, <2>7 DEF Fenced
  <2>9. QED
    BY <1>2, <2>5, <2>8 DEF Fence, SeenTyped
<1>5. QED
  BY <1>3, <1>4

\* Handing a batch to HTTP marks whichever of its rows are still queued first.
LEMMA FenceSend ==
  ASSUME IInv, Fence, SendBatch
  PROVE  Fence'
<1> DEFINE seqs == upload.from..(upload.from + Len(upload.items) - 1)
<1>1. /\ Loading /\ Loaded = ToSet(upload.items) /\ upload \in Upload
      /\ upload.from \in Nat /\ Len(upload.items) \in Nat
  BY LoadedIs DEF SendBatch, Loading, Loaded, IInv, Base, Upload
<1>2. /\ Keeps(file', file)
      /\ \A i \in Queued(file) : i \in seqs => file'.rows[i].attempted
  BY Finds, MarkKeeps DEF SendBatch
<1>3. /\ upload'.at = "wait" /\ upload'.items = upload.items /\ upload'.from = upload.from
      /\ upload'.replay = TRUE
  BY <1>1 DEF SendBatch, Upload
<1>4. Loading' /\ Loaded' = Loaded
  BY <1>1, <1>3 DEF Loading, Loaded
<1>5. /\ UNCHANGED <<source, inventory>> /\ Held' = Held
      /\ seen' = [seen EXCEPT !.doubted = @ \cup ToSet(upload.items)]
  BY DEF SendBatch, Doubt, Held
<1>6. Loaded \subseteq Item
  BY DEF Fence, Once, SeenTyped
<1>7. SeenTyped' /\ seen'.taken = seen.taken /\ seen'.doubted = seen.doubted \cup Loaded
  BY <1>1, <1>5, <1>6 DEF Fence, SeenTyped
<1>8. /\ \A i, j \in Queued(file') : ItemAt(file', i) = ItemAt(file', j) => i = j
      /\ ItemsOf(file') \subseteq ItemsOf(file)
  BY <1>2 DEF Fence, Once, Keeps, KeepsRow, ItemsOf
<1>9. Once'
  BY <1>4, <1>5, <1>7, <1>8 DEF Fence, Once
<1>10. ASSUME NEW i \in Queued(file'), ItemAt(file', i) \in seen'.doubted
       PROVE  file'.rows[i].attempted
  <2>1. KeepsRow(file', file, i)
    BY <1>2 DEF Keeps
  <2>2. CASE ItemAt(file, i) \in seen.doubted
    BY <2>1, <2>2 DEF Fence, Fenced, KeepsRow
  <2>3. CASE ItemAt(file, i) \in Loaded
    <3>1. PICK k \in 1..Len(upload.items) : ItemAt(file, i) = upload.items[k]
      BY <1>1, <2>3, LoadedIs DEF IInv
    <3>2. i = upload.from + k - 1
      BY <1>1, <2>1, <3>1 DEF Fence, Fenced, KeepsRow
    <3>3. i \in seqs
      BY <1>1, <3>2
    <3>4. QED
      BY <1>2, <2>1, <3>3 DEF KeepsRow
  <2>4. QED
    BY <1>7, <1>10, <2>1, <2>2, <2>3 DEF KeepsRow
<1>11. \A i \in Queued(file'), k \in 1..Len(upload'.items) :
         ItemAt(file', i) = upload'.items[k] => i = upload'.from + k - 1
  BY <1>1, <1>2, <1>3 DEF Fence, Fenced, Keeps, KeepsRow
<1>12. Fenced'
  BY <1>3, <1>4, <1>10, <1>11 DEF Fenced
<1>13. QED
  BY <1>7, <1>9, <1>12 DEF Fence

\* Every step keeps what was delivered once behind the fence of attempted.
LEMMA NextFence ==
  ASSUME IInv, Fence, [Next]_vars
  PROVE  Fence'
<1> USE DEF link, outside
<1>0. /\ IInv' /\ upload \in Upload /\ Event \subseteq Item /\ Snapshot \subseteq Item
      /\ NoItem \notin Item /\ NoSource.item = NoItem /\ NoInventory.at = "idle"
      /\ NoUpload.at = "idle" /\ Event \cap Snapshot = {}
      /\ source # NoSource => source \in Payload
      /\ inventory \in Inventory
      /\ inventory.at \in {"collected", "classified"} => inventory.item \in Snapshot
  BY NextBase, DeliveryAssumption DEF Item, NoSource, NoInventory, NoUpload, IInv, Base
<1>1. ASSUME NEW e \in Event, ClassifyEvent(e)
      PROVE  Fence'
  <2>1. /\ UNCHANGED <<file, upload, inventory>> /\ e \notin seen.taken /\ e \in Item
        /\ seen' = [seen EXCEPT !.taken = @ \cup {e}] /\ source'.item = e
    BY <1>0, <1>1 DEF ClassifyEvent
  <2>2. Held' \subseteq Held \cup {e}
    BY <2>1 DEF Held
  <2>3. QED
    BY <2>1, <2>2, FenceObserve
<1>2. CASE EnqueueEvent
  <2>1. /\ source \in Payload /\ source.item \in Event /\ Put(source) /\ source' = NoSource
        /\ UNCHANGED <<upload, inventory>> /\ source # NoSource
    BY <1>0, <1>2 DEF EnqueueEvent, Fence, Once
  <2>2. source.item \in Held
    BY <1>0, <2>1 DEF Held
  <2>3. Held' \subseteq Held \ {source.item}
    BY <1>0, <2>1 DEF Held
  <2>4. QED
    BY <2>1, <2>2, <2>3, FenceQueue
<1>3. ASSUME NEW s \in Snapshot, CollectSnapshot(s)
      PROVE  Fence'
  <2>1. /\ UNCHANGED <<file, upload, source>> /\ s \notin seen.taken /\ s \in Item
        /\ seen' = [seen EXCEPT !.taken = @ \cup {s}] /\ inventory'.item = s
    BY <1>0, <1>3 DEF CollectSnapshot, NoInventory
  <2>2. Held' \subseteq Held \cup {s}
    BY <2>1 DEF Held
  <2>3. source' # NoSource => source'.item \in Event
    BY <2>1 DEF Fence, Once
  <2>4. QED
    BY <2>1, <2>2, <2>3, FenceObserve
<1>4. CASE EnqueueSnapshot
  <2> DEFINE p == [item |-> inventory.item, mode |-> inventory.mode]
  <2>1. /\ p \in Payload /\ p.item = inventory.item /\ Put(p)
        /\ inventory'.at \notin {"collected", "classified"}
        /\ UNCHANGED <<upload, source>> /\ inventory.at = "classified"
        /\ inventory.item \in Snapshot
    BY <1>0, <1>4, DeliveryAssumption DEF EnqueueSnapshot, Inventory, Item, Mode
  <2> HIDE DEF p
  <2>2. p.item \in Held
    BY <1>0, <2>1 DEF Held
  <2>3. source # NoSource => source.item # p.item
    BY <1>0, <2>1 DEF Fence, Once
  <2>4. Held' \subseteq Held \ {p.item}
    BY <2>1, <2>3 DEF Held
  <2>5. QED
    BY <2>1, <2>2, <2>4, FenceQueue
<1>5. CASE TakeBatch
  BY <1>0, <1>5, FenceTake
<1>6. CASE SendBatch
  BY <1>6, FenceSend
<1>7. CASE \/ ClassifySnapshot \/ ReconciliationQueued \/ MaintenanceSummary
           \/ OtherLoopFails \/ OtherSessionInvalid \/ SessionEnds \/ GrowOld
           \/ UNCHANGED vars
  <2>1. Keeps(file', file)
    BY <1>7, Finds, MethodsKeep DEF ClassifySnapshot, ReconciliationQueued,
       MaintenanceSummary, OtherLoopFails, OtherSessionInvalid, SessionEnds, GrowOld, vars
  <2>2. UNCHANGED <<seen, source, upload>>
    BY <1>7 DEF ClassifySnapshot, ReconciliationQueued,
       MaintenanceSummary, OtherLoopFails, OtherSessionInvalid, SessionEnds, GrowOld, vars
  <2>3. \/ inventory' = inventory \/ inventory'.at = "idle"
        \/ inventory.at = "collected" /\ inventory'.item = inventory.item
    BY <1>0, <1>7 DEF ClassifySnapshot, ReconciliationQueued, MaintenanceSummary,
       OtherLoopFails, OtherSessionInvalid, SessionEnds, GrowOld, vars, Inventory
  <2>4. Held' \subseteq Held
    BY <2>2, <2>3 DEF Held
  <2>5. QED
    BY <2>1, <2>2, <2>4, FenceFrame DEF Loading
<1>8. CASE ReceiptArrives \/ CompleteProbe \/ Timeout
  <2>1. upload.cursor \in Nat
    BY <1>0 DEF Upload
  <2>2. Keeps(file', file)
    BY <1>8, <2>1, Finds, MethodsKeep DEF ReceiptArrives, CompleteProbe, Timeout
  <2>3. UNCHANGED <<seen, source, inventory>> /\ Held' = Held
    BY <1>8 DEF ReceiptArrives, CompleteProbe, Timeout, Held
  <2>4. \/ upload'.at = "idle"
        \/ /\ upload.at = "wait" /\ upload'.at = "wait"
           /\ upload'.items = upload.items
           /\ upload'.from = upload.from /\ upload'.replay = upload.replay
    BY <1>0, <1>8 DEF ReceiptArrives, CompleteProbe, Timeout, Upload
  <2>5. QED
    BY <2>2, <2>3, <2>4, FenceFrame DEF Loading
<1>9. ASSUME NEW t \in Loop, RecoveryStep(t) \/ RecoveryFails(t)
      PROVE  Fence'
  <2>1. recovery[t].cursor \in Nat
    BY DEF IInv, Base, Recovering
  <2>2. Keeps(file', file)
    BY <1>9, <2>1, Finds, MethodsKeep DEF RecoveryStep, RecoveryFails, AlreadyReplaced,
       ConnectSession, SynchronizeQueue
  <2>3. UNCHANGED <<seen, source, inventory, upload>> /\ Held' = Held
    BY <1>9 DEF RecoveryStep, RecoveryFails, AlreadyReplaced, ConnectSession,
       SynchronizeQueue, Held
  <2>4. QED
    BY <2>2, <2>3, FenceFrame DEF Loading
<1>10. ASSUME NEW r \in network, CoreAnswers(r) \/ CoreFails(r)
       PROVE  Fence'
  <2>1. UNCHANGED <<file, seen, source, inventory>> /\ Held' = Held
    BY <1>10 DEF CoreAnswers, CoreFails, Held
  <2>2. \E reply \in {"ok", "error", "invalid"} : Answer(r, reply)
    BY <1>10 DEF CoreAnswers, CoreFails
  <2>3. core'.ledger \in Seq(Item)
    BY <1>0 DEF IInv, Base, Core
  <2>4. /\ upload'.at = upload.at /\ upload'.from = upload.from
        /\ upload'.items = upload.items /\ upload'.replay = upload.replay
    BY <2>2, <2>3, AnswerEffect DEF IInv
  <2>5. Keeps(file', file)
    BY <2>1 DEF Keeps, KeepsRow
  <2>6. QED
    BY <2>1, <2>4, <2>5, FenceFrame DEF Loading
<1>11. CASE RetryBatch \/ GiveBatchUp \/ UploadSessionInvalid \/ Restart
  <2>1. /\ file' = MarkDeliveryAttempted(file, Queued(file)) /\ Doubt(QueuedItems)
    BY <1>11 DEF RetryBatch, GiveBatchUp, UploadSessionInvalid, Restart, Reopen,
                 MarkPendingDeliveryUncertain
  <2>2. Keeps(file', file) /\ \A i \in Queued(file) : file'.rows[i].attempted
    BY <2>1, Finds, MarkKeeps
  <2>3. \A i \in Queued(file') : file'.rows[i].attempted
    BY <2>2 DEF Keeps, KeepsRow
  <2>4. /\ \/ UNCHANGED <<source, inventory>>
           \/ source' = NoSource /\ inventory'.at = "idle"
        /\ \/ upload'.at = "idle"
           \/ /\ upload.at = "wait" /\ upload'.at = "send"
              /\ upload'.items = upload.items
              /\ upload'.from = upload.from /\ upload'.replay = upload.replay
    BY <1>0, <1>11 DEF RetryBatch, GiveBatchUp, UploadSessionInvalid, Restart, Upload
  <2>5. Held' \subseteq Held /\ source' \in {source, NoSource}
    BY <2>4 DEF Held
  <2>6. QED
    BY <2>1, <2>2, <2>3, <2>4, <2>5, FenceDoubt DEF Loading
<1>12. QED
  BY <1>1, <1>2, <1>3, <1>4, <1>5, <1>6, <1>7, <1>8, <1>9, <1>10, <1>11
     DEF Next, UploadStep

\* A request in realtime mode carries no item that was handed to HTTP before, by this
\* process or an earlier one, and none that was in the queue when an upload failed or
\* a process died, with whatever expiry, recovery and retry there was in between.
THEOREM RealtimeOnlyOnce == Spec => RealtimeIsFirstDelivery
<1>1. ASSUME IInv, Fence, [Next]_vars
      PROVE  [\A r \in network' \ network :
                r.mode = "realtime" => ToSet(r.items) \cap seen.doubted = {}]_vars
  <2>1. CASE SendBatch
    <3> DEFINE r == [session |-> session, from |-> upload.from, items |-> upload.items,
                     mode |-> IF upload.replay THEN "replay" ELSE "realtime"]
    <3>1. network' = network \cup {r} /\ upload.at = "send"
      BY <2>1 DEF SendBatch
    <3>2. r.mode = "realtime" => ~upload.replay
      OBVIOUS
    <3>3. ~upload.replay => ToSet(r.items) \cap seen.doubted = {}
      BY <1>1, <3>1 DEF Fence, Fenced, Loaded, Loading
    <3>4. QED
      BY <3>1, <3>2, <3>3
  <2>2. CASE ~SendBatch
    <3>1. network' \subseteq network
      BY <1>1, <2>2 DEF Next, vars, link, outside, ClassifyEvent, EnqueueEvent,
         CollectSnapshot, ClassifySnapshot, EnqueueSnapshot, ReconciliationQueued, UploadStep,
         TakeBatch, ReceiptArrives, RetryBatch, GiveBatchUp, UploadSessionInvalid,
         CompleteProbe, MaintenanceSummary, OtherLoopFails, OtherSessionInvalid, RecoveryStep,
         AlreadyReplaced, ConnectSession, SynchronizeQueue, RecoveryFails, CoreAnswers,
         CoreFails, Timeout, SessionEnds, GrowOld, Restart
    <3>2. QED
      BY <3>1
  <2>3. QED
    BY <2>1, <2>2
<1>2. Fence /\ IInv /\ [Next]_vars => Fence'
  BY NextFence
<1>3. QED
  BY InitBase, NextBase, InitFence, <1>1, <1>2, PTL DEF Spec, RealtimeIsFirstDelivery

-----------------------------------------------------------------------------
(* Without expiry and with one recovering loop the ledger and the rest of  *)
(* the queue behind it are one log: its entries never change, and every    *)
(* request in flight carries a piece of it.                                *)

\* x is entry i of the log.
Entry(i, x) ==
  IF i <= Cursor THEN x = core.ledger[i] ELSE i \in Queued(file) /\ x = ItemAt(file, i)

InPlace(from, items) ==
  /\ from + Len(items) <= file.next
  /\ \A k \in 1..Len(items) : Entry(from + k - 1, items[k])

QueueAgrees ==
  /\ Cursor < file.next
  /\ \A i \in Queued(file) : file.rows[i].age = 0 /\ Entry(i, ItemAt(file, i))

RequestsAgree ==
  /\ \A r \in network : InPlace(r.from, r.items)
  /\ Loading => InPlace(upload.from, upload.items)

\* While the session is re-established nothing is sent, and no request in flight
\* is one the Core would still serve: the cursor it named stays the ledger's.
RecoveryAgrees ==
  /\ recovery["maintenance"].at = "none"
  /\ recovery["upload"].at # "none" => upload.at = "idle"
  /\ recovery["upload"].at = "synchronize" =>
       /\ recovery["upload"].cursor = Cursor
       /\ \A r \in network : r.session # core.session

Agreement == QueueAgrees /\ RequestsAgree /\ RecoveryAgrees

\* What a step leaves of the log.
LogKept ==
  /\ file'.next >= file.next
  /\ \A i \in Nat \ {0}, x \in Item : i < file.next /\ Entry(i, x) => Entry(i, x)'

\* r is s, without rows up to n that the Core has, and with a new row at the end.
Extends(r, s, n) ==
  /\ r.next >= s.next /\ r.dropped >= s.dropped
  /\ \A i \in Queued(r) :
       \/ i \in Queued(s) /\ ItemAt(r, i) = ItemAt(s, i) /\ r.rows[i].age = s.rows[i].age
       \/ i = s.next /\ r.rows[i].age = 0
  /\ \A i \in Queued(s) : i > n => i \in Queued(r) /\ ItemAt(r, i) = ItemAt(s, i)

\* Enqueueing adds a row at the end of the queue, or only counts a drop.
LEMMA EnqueueExtends ==
  ASSUME NEW s, Sound(s), ~HasExpired(s), NEW n, NEW p \in Payload
  PROVE  Extends(Enqueue(s, p), s, n)
<1>0. Typed(s) /\ Numbered(s) /\ s.next \in Nat /\ s.dropped \in Nat
  BY SoundIsNumbered DEF Sound, Typed
<1>10. ExpireStale(s) = s
  BY DEF ExpireStale
<1> DEFINE m == s.next
           r == Offer(s, p)
<1>1. Enqueue(s, p) = r /\ m \in Nat /\ m \notin Queued(s)
  BY <1>0, <1>10 DEF Enqueue, Sound, Gapless, Typed, Queued
<1>2. CASE Fits(s, p)
  <2>1. r = InsertRow(s, m, p)
    BY <1>2 DEF Offer
  <2> HIDE DEF m, r
  <2>2. /\ Queued(r) = Queued(s) \cup {m}
        /\ \A i \in Queued(s) \ {m} : r.rows[i] = s.rows[i]
        /\ r.next = m + 1 /\ r.dropped = s.dropped
    <3>1. LET q == InsertRow(s, m, p)
          IN  /\ Typed(q)
              /\ Queued(q) = Queued(s) \cup {m}
              /\ q.rows[m].payload = p
              /\ \A i \in Queued(s) \ {m} : q.rows[i] = s.rows[i]
              /\ q.next = m + 1 /\ q.acked = s.acked
              /\ q.dropped = s.dropped /\ q.required = s.required
      BY <1>0, <1>1, InsertEffect, Zenon
    <3>2. QED
      BY <2>1, <3>1, Zenon
  <2>3. r.rows[m].age = 0
    <3>1. r.rows[m] = NewRow(p)
      BY <1>0, <2>1, InsertedRow, Zenon
    <3>2. NewRow(p).age = 0
      BY DEF NewRow
    <3>3. QED
      BY <3>1, <3>2, Zenon
  <2>4. r.next >= m /\ r.dropped >= s.dropped
    BY <1>0, <1>1, <2>2
  <2>5. m = s.next
    BY DEF m
  <2>6. \A i \in Queued(s) : i \in Queued(r) /\ r.rows[i] = s.rows[i]
    BY <1>1, <2>2
  <2>7. \A i \in Queued(s) : i \in Queued(r) /\ ItemAt(r, i) = ItemAt(s, i)
    BY <2>6 DEF ItemAt
  <2>8. \A i \in Queued(r) :
          \/ i \in Queued(s) /\ ItemAt(r, i) = ItemAt(s, i) /\ r.rows[i].age = s.rows[i].age
          \/ i = s.next /\ r.rows[i].age = 0
    BY <2>2, <2>3, <2>5, <2>6, <2>7
  <2>9. Extends(r, s, n)
    BY <2>4, <2>5, <2>7, <2>8 DEF Extends
  <2>10. QED
    BY <1>1, <2>9
<1>3. CASE ~Fits(s, p)
  <2>1. r.rows = s.rows /\ r.next = s.next /\ r.dropped = s.dropped + 1
    <3> DEFINE q == RecordDrop(s, 1)
    <3>1. r = q
      BY <1>3 DEF Offer
    <3>2. 1 \in Nat
      OBVIOUS
    <3>3. LET d == RecordDrop(s, 1)
          IN  /\ Typed(d)
              /\ d.rows = s.rows /\ d.next = s.next /\ d.acked = s.acked
              /\ d.dropped = s.dropped + 1
              /\ 1 = 0 => d.required = s.required
              /\ 1 # 0 => d.required = TRUE
      BY <1>0, <3>2, RecordDropEffect, Zenon
    <3>4. q.rows = s.rows /\ q.next = s.next /\ q.dropped = s.dropped + 1
      BY <3>3
    <3> HIDE DEF q, r
    <3>5. QED
      BY <3>1, <3>4
  <2>2. r.dropped >= s.dropped /\ r.next >= s.next
    BY <1>0, <2>1
  <2>3. Queued(r) = Queued(s) /\ \A i \in Queued(s) : ItemAt(r, i) = ItemAt(s, i)
    BY <2>1 DEF Queued, ItemAt
  <2>4. \A i \in Queued(r) : r.rows[i].age = s.rows[i].age
    BY <2>1
  <2> HIDE DEF r
  <2>5. Extends(r, s, n)
    BY <2>2, <2>3, <2>4 DEF Extends
  <2>6. QED
    BY <1>1, <2>5
<1>4. QED
  BY <1>2, <1>3

\* No other method of the queue that the loops and the callbacks use removes a
\* row while none expires.
LEMMA MethodsExtend ==
  ASSUME NEW s, Sound(s), ~HasExpired(s), NEW n
  PROVE  /\ ExpireStale(s) = s
         /\ Extends(s, s, n)
         /\ \A q : Extends(MarkDeliveryAttempted(s, q), s, n)
         /\ Extends(MarkPendingDeliveryUncertain(s), s, n)
         /\ Extends(MarkReconciliationQueued(s), s, n)
<1>0. Typed(s) /\ Numbered(s) /\ s.next \in Nat /\ s.dropped \in Nat
  BY SoundIsNumbered DEF Sound, Typed
<1>1. ExpireStale(s) = s
  BY DEF ExpireStale
<1>2. Extends(s, s, n)
  BY <1>0 DEF Extends
<1>4. ASSUME NEW q
      PROVE  Extends(MarkDeliveryAttempted(s, q), s, n)
  <2> DEFINE r == MarkDeliveryAttempted(s, q)
  <2>1. /\ Queued(r) = Queued(s) /\ r.next = s.next /\ r.dropped = s.dropped
        /\ \A i \in Queued(r) : KeepsRow(r, s, i) /\ r.rows[i].age = s.rows[i].age
    BY <1>0, MarkEffect, MarkKeeps DEF SameButRows, Keeps
  <2> HIDE DEF r
  <2>2. Extends(r, s, n)
    BY <1>0, <2>1 DEF Extends, KeepsRow
  <2>3. QED
    BY <2>2 DEF r
<1>5. Extends(MarkPendingDeliveryUncertain(s), s, n)
  BY <1>4 DEF MarkPendingDeliveryUncertain
<1>6. Extends(MarkReconciliationQueued(s), s, n)
  <2> DEFINE r == MarkReconciliationQueued(s)
  <2>1. r.rows = s.rows /\ r.next = s.next /\ r.dropped = s.dropped
    BY <1>0, ReconciliationEffect
  <2> HIDE DEF r
  <2>2. Extends(r, s, n)
    BY <1>0, <2>1 DEF Extends, ItemAt, Queued
  <2>3. QED
    BY <2>2 DEF r
<1>7. QED
  BY <1>1, <1>2, <1>4, <1>5, <1>6

\* A receipt or a session's cursor that lies in the log takes only what the
\* Core has.
LEMMA CursorsExtend ==
  ASSUME NEW s, Sound(s), NEW n \in Nat, n < s.next, NEW k \in Nat, k <= n
  PROVE  /\ Extends(AcknowledgeThrough(s, k), s, n)
         /\ s.acked <= n => Extends(SynchronizeWithServerCursor(s, n), s, n)
<1>0. /\ Typed(s) /\ Numbered(s) /\ s.next \in Nat /\ s.dropped \in Nat /\ s.acked \in Nat
      /\ Queued(s) = (s.acked + 1)..(s.next - 1)
  BY SoundIsNumbered DEF Sound, Typed, Gapless, Queued
<1>1. Extends(AcknowledgeThrough(s, k), s, n)
  <2> DEFINE r == AcknowledgeThrough(s, k)
  <2>1. /\ Queued(r) = {i \in Queued(s) : i > k}
        /\ \A i \in Queued(r) : r.rows[i] = s.rows[i]
        /\ r.next = IF s.next <= k THEN k + 1 ELSE s.next
        /\ r.dropped = s.dropped
    BY <1>0, AcknowledgeEffect
  <2> HIDE DEF r
  <2>2. r.next >= s.next /\ r.dropped >= s.dropped
    BY <1>0, <2>1
  <2>3. \A i \in Queued(s) : i > n => i \in Queued(r)
    BY <1>0, <2>1
  <2>4. Extends(r, s, n)
    BY <2>1, <2>2, <2>3 DEF Extends, ItemAt
  <2>5. QED
    BY <2>4 DEF r
<1>2. ASSUME s.acked <= n
      PROVE  Extends(SynchronizeWithServerCursor(s, n), s, n)
  <2> DEFINE r == SynchronizeWithServerCursor(s, n)
             kept == Behind(s, n)
  <2>1. kept = (n + 1)..(s.next - 1)
    BY <1>0, <1>2 DEF Behind
  <2>2. n + 1 \in Int /\ s.next - 1 \in Int
    BY <1>0
  <2>3. Cardinality((n + 1)..(s.next - 1)) =
          IF n + 1 > s.next - 1 THEN 0 ELSE s.next - 1 - (n + 1) + 1
    BY <2>2, FS_Interval, Zenon
  <2>4. Cardinality(kept) = s.next - 1 - n
    BY <1>0, <2>1, <2>3
  <2>5. Contiguous(kept, n + 1)
    <3>1. CASE s.next - 1 >= n + 1
      <4>1. s.next - 1 \in kept
        BY <1>0, <2>1, <3>1
      <4>2. QED
        BY <2>1, <4>1 DEF Contiguous
    <3>2. CASE ~(s.next - 1 >= n + 1)
      <4>1. kept = {}
        BY <1>0, <2>1, <3>2
      <4>2. QED
        BY <4>1 DEF Contiguous
    <3>3. QED
      BY <3>1, <3>2
  <2>6. /\ Queued(r) = kept /\ \A i \in Queued(r) : r.rows[i] = s.rows[i]
        /\ r.next = n + 1 + Cardinality(kept) /\ r.dropped = s.dropped
    BY <1>0, <2>5, SynchronizeEffect
  <2> HIDE DEF r
  <2>7. r.next >= s.next /\ r.dropped >= s.dropped
    BY <1>0, <2>4, <2>6
  <2>8. Extends(r, s, n)
    BY <2>6, <2>7 DEF Extends, ItemAt, Behind
  <2>9. QED
    BY <2>8 DEF r
<1>3. QED
  BY <1>1, <1>2

\* Steps that only work on the queue, and leave what the Core has not.
LEMMA QueueStep ==
  ASSUME IInv, IInv', QueueAgrees, core'.ledger = core.ledger, Extends(file', file, Cursor)
  PROVE  QueueAgrees' /\ LogKept /\ file'.dropped >= file.dropped
<1>0. /\ Cursor \in Nat /\ Cursor' = Cursor /\ file.next \in Nat /\ Cursor < file.next
      /\ \A i \in Queued(file) : i \in Nat
      /\ file'.next >= file.next /\ file'.dropped >= file.dropped
  BY Finds DEF Typed, Numbered, Cursor, QueueAgrees, Extends
<1>1. ASSUME NEW i \in Queued(file')
      PROVE  file'.rows[i].age = 0 /\ Entry(i, ItemAt(file, i))'
  <2>1. CASE /\ i \in Queued(file) /\ ItemAt(file', i) = ItemAt(file, i)
             /\ file'.rows[i].age = file.rows[i].age
    BY <1>0, <1>1, <2>1 DEF QueueAgrees, Entry
  <2>2. CASE i = file.next /\ file'.rows[i].age = 0
    BY <1>0, <1>1, <2>2 DEF Entry
  <2>3. QED
    BY <2>1, <2>2 DEF Extends
<1>2. ASSUME NEW i \in Nat \ {0}, NEW x \in Item, i < file.next, Entry(i, x)
      PROVE  Entry(i, x)'
  <2>1. CASE i <= Cursor
    BY <1>0, <1>2, <2>1 DEF Entry
  <2>2. CASE ~(i <= Cursor)
    <3>1. i \in Queued(file) /\ x = ItemAt(file, i) /\ i > Cursor
      BY <1>0, <1>2, <2>2 DEF Entry
    <3>2. i \in Queued(file') /\ ItemAt(file', i) = ItemAt(file, i)
      BY <3>1 DEF Extends
    <3>3. QED
      BY <1>0, <2>2, <3>1, <3>2 DEF Entry
  <2>3. QED
    BY <2>1, <2>2
<1>3. Cursor' < file'.next
  <2>1. file'.next \in Nat
    BY DEF IInv, Base, Sound, Typed
  <2>2. QED
    BY <1>0, <2>1
<1>4. QED
  BY <1>0, <1>1, <1>2, <1>3 DEF QueueAgrees, LogKept

\* Serving a request appends entries of the log to the ledger.
LEMMA IngestStep ==
  ASSUME IInv, Agreement, NEW r \in network, CoreAnswers(r)
  PROVE  QueueAgrees' /\ LogKept /\ file' = file
<1>0. /\ Cursor \in Nat /\ file.next \in Nat /\ Cursor < file.next /\ file' = file
      /\ r.items \in Seq(Item) /\ r.from \in Nat \ {0} /\ core.ledger \in Seq(Item)
      /\ Len(r.items) \in Nat /\ core \in Core /\ Cursor = Len(core.ledger)
      /\ \A i \in Queued(file) : i \in Nat \ {0}
      /\ InPlace(r.from, r.items)
  <2>1. r \in Request
    BY DEF IInv, Base
  <2>2. r.items \in Seq(Item) /\ r.from \in Nat \ {0}
    BY <2>1 DEF Request
  <2>3. Len(r.items) \in Nat
    BY <2>2, LenProperties
  <2>4. \A i \in Queued(file) : i \in Nat \ {0}
    BY Finds DEF Sound, Gapless, Queued, Typed
  <2>5. QED
    BY Finds, <2>2, <2>3, <2>4 DEF Typed, Cursor, QueueAgrees, RequestsAgree, Agreement, CoreAnswers
<1>1. CASE core'.ledger = core.ledger
  <2>1. Cursor' = Cursor
    BY <1>1 DEF Cursor
  <2>2. \A i, x : Entry(i, x) => Entry(i, x)'
    BY <1>0, <1>1, <2>1 DEF Entry
  <2>3. QED
    BY <1>0, <2>1, <2>2 DEF QueueAgrees, Agreement, LogKept
<1>2. CASE /\ r.from <= Cursor + 1
           /\ core' = [core EXCEPT !.ledger =
                         @ \o SubSeq(r.items, Cursor + 2 - r.from, Len(r.items))]
  <2> DEFINE old == core.ledger
             new == old \o SubSeq(r.items, Len(old) + 2 - r.from, Len(r.items))
  <2>1. core'.ledger = new
    BY <1>0, <1>2 DEF Core
  <2>2. r.from <= Len(old) + 1
    BY <1>0, <1>2
  <2>3. /\ new \in Seq(Item)
        /\ Len(new) >= Len(old)
        /\ Len(new) = IF r.from + Len(r.items) - 1 > Len(old)
                        THEN r.from + Len(r.items) - 1 ELSE Len(old)
        /\ \A i \in 1..Len(old) : new[i] = old[i]
        /\ \A i \in (Len(old) + 1)..Len(new) : new[i] = r.items[i - r.from + 1]
    BY <1>0, <2>2, IngestEffect, Zenon
  <2> HIDE DEF new
  <2>4. /\ Cursor' = Len(new) /\ Cursor' \in Nat /\ Cursor' >= Cursor /\ Len(old) = Cursor
        /\ Cursor' = IF r.from + Len(r.items) - 1 > Cursor
                       THEN r.from + Len(r.items) - 1 ELSE Cursor
    BY <1>0, <2>1, <2>3, LenProperties DEF Cursor
  <2>5. ASSUME NEW i \in Nat \ {0}, NEW x, Entry(i, x)
        PROVE  Entry(i, x)'
    <3>1. CASE i <= Cursor
      <4>1. x = old[i] /\ i \in 1..Len(old)
        BY <2>4, <2>5, <3>1 DEF Entry
      <4>2. i <= Cursor'
        BY <1>0, <2>4, <3>1
      <4>3. QED
        BY <2>1, <2>3, <4>1, <4>2 DEF Entry
    <3>2. CASE ~(i <= Cursor)
      <4>1. i \in Queued(file) /\ x = ItemAt(file, i)
        BY <2>5, <3>2 DEF Entry
      <4>2. CASE i <= Cursor'
        <5> DEFINE k == i - r.from + 1
        <5>1. k \in 1..Len(r.items) /\ r.from + k - 1 = i
          <6>1. /\ r.from \in Nat /\ Len(r.items) \in Nat /\ i \in Nat /\ Cursor \in Nat
                /\ r.from <= Cursor + 1 /\ i > Cursor
            BY <1>0, <1>2, <3>2
          <6>2. i <= r.from + Len(r.items) - 1
            BY <2>4, <3>2, <4>2, <6>1
          <6>3. QED
            BY <6>1, <6>2
        <5>2. i \in (Len(old) + 1)..Len(new)
          BY <1>0, <2>4, <3>2, <4>2
        <5>3. new[i] = r.items[k]
          BY <2>3, <5>2
        <5> HIDE DEF k
        <5>4. Entry(i, r.items[k])
          BY <1>0, <5>1 DEF InPlace
        <5>5. x = r.items[k]
          BY <3>2, <4>1, <5>4 DEF Entry
        <5>6. QED
          BY <2>1, <4>2, <5>3, <5>5 DEF Entry
      <4>3. CASE ~(i <= Cursor')
        BY <1>0, <4>1, <4>3 DEF Entry
      <4>4. QED
        BY <4>2, <4>3
    <3>3. QED
      BY <3>1, <3>2
  <2>6. Cursor' < file'.next
    BY <1>0, <2>4 DEF InPlace
  <2>7. \A i \in Queued(file') : file'.rows[i].age = 0 /\ Entry(i, ItemAt(file, i))'
    <3> SUFFICES ASSUME NEW i \in Queued(file)
                 PROVE  file.rows[i].age = 0 /\ Entry(i, ItemAt(file, i))'
      BY <1>0
    <3>1. i \in Nat \ {0} /\ file.rows[i].age = 0 /\ Entry(i, ItemAt(file, i))
      BY <1>0 DEF Agreement, QueueAgrees
    <3> DEFINE x == ItemAt(file, i)
    <3>2. x = ItemAt(file', i)
      BY <1>0
    <3>3. QED
      BY <1>0, <2>5, <3>1, <3>2 DEF Entry
  <2>8. QueueAgrees'
    BY <2>6, <2>7 DEF QueueAgrees
  <2>9. LogKept
    BY <1>0, <2>5 DEF LogKept
  <2>10. QED
    BY <1>0, <2>8, <2>9
<1>3. r.from > Cursor + 1 \/ r.from <= Cursor + 1
  BY <1>0
<1>4. QED
  BY <1>1, <1>2, <1>3, Zenon DEF CoreAnswers

\* A request that carried a piece of the log still does.
LEMMA InPlaceKept ==
  ASSUME IInv, IInv', LogKept, NEW from \in Nat \ {0}, NEW items \in Seq(Item),
         InPlace(from, items)
  PROVE  InPlace(from, items)'
<1>1. /\ Len(items) \in Nat /\ \A k \in 1..Len(items) : items[k] \in Item
      /\ file.next \in Nat /\ file'.next \in Nat
  BY LenProperties, ElementOfSeq DEF IInv, Base, Sound, Typed
<1>2. from + Len(items) <= file'.next
  BY <1>1 DEF InPlace, LogKept
<1>3. ASSUME NEW k \in 1..Len(items)
      PROVE  Entry(from + k - 1, items[k])'
  <2> DEFINE i == from + k - 1
  <2>1. i \in Nat \ {0} /\ i < file.next
    BY <1>1 DEF InPlace
  <2>2. Entry(i, items[k])
    BY DEF InPlace
  <2> HIDE DEF i
  <2>3. Entry(i, items[k])'
    BY <1>1, <2>1, <2>2 DEF LogKept
  <2>4. QED
    BY <2>3 DEF i
<1>4. QED
  BY <1>2, <1>3 DEF InPlace

\* A step that keeps the log keeps what the requests in flight carry of it.
LEMMA RequestsKept ==
  ASSUME IInv, IInv', Agreement, LogKept, network' \subseteq network,
         Loading' => /\ Loading /\ upload'.from = upload.from
                     /\ upload'.items = upload.items
  PROVE  RequestsAgree'
<1>1. ASSUME NEW r \in network'
      PROVE  InPlace(r.from, r.items)'
  <2>1. r \in network /\ r \in Request /\ InPlace(r.from, r.items)
    BY DEF IInv, Base, Agreement, RequestsAgree
  <2> DEFINE n == r.from
             s == r.items
  <2>2. n \in Nat \ {0} /\ s \in Seq(Item) /\ InPlace(n, s)
    BY <2>1 DEF Request
  <2> HIDE DEF n, s
  <2>3. InPlace(n, s)'
    BY <2>2, InPlaceKept
  <2>4. QED
    BY <2>3 DEF n, s
<1>2. ASSUME Loading'
      PROVE  InPlace(upload.from, upload.items)'
  <2>1. \A n \in Nat \ {0}, s \in Seq(Item) : InPlace(n, s) => InPlace(n, s)'
    BY InPlaceKept
  <2>2. /\ upload'.from = upload.from /\ upload'.items = upload.items
        /\ upload.from \in Nat \ {0} /\ upload.items \in Seq(Item)
        /\ InPlace(upload.from, upload.items)
    BY <1>2 DEF IInv, Base, Upload, Loading, Agreement, RequestsAgree
  <2>3. \A n, s : n = upload.from /\ s = upload.items =>
                  InPlace(n, s)' /\ n = upload'.from /\ s = upload'.items
    BY <2>1, <2>2
  <2>4. QED
    BY <2>3 DEF InPlace
<1>3. QED
  BY <1>1, <1>2 DEF RequestsAgree

\* The first ledger and the first queue are empty.
LEMMA InitAgreement == Init => Agreement
<1> SUFFICES ASSUME Init
             PROVE  Agreement
  OBVIOUS
<1>1. Queued(file) = {} /\ file.next = 1 /\ network = {}
  BY DEF Init, Fresh, Queued
<1>2. Cursor = 0
  BY EmptySeq DEF Init, Cursor
<1>3. upload.at = "idle" /\ recovery["maintenance"].at = "none"
      /\ recovery["upload"].at # "synchronize"
  BY StartTyped DEF Init, Booting, Loop
<1>4. QED
  BY <1>1, <1>2, <1>3 DEF Agreement, QueueAgrees, RequestsAgree, RecoveryAgrees, Loading

\* Steps that use the queue's methods as the loops do, and nothing else of it.
LEMMA AgreementFrame ==
  ASSUME IInv, IInv', Agreement, core' = core, network' \subseteq network,
         Extends(file', file, Cursor),
         Loading' => /\ Loading /\ upload'.from = upload.from
                     /\ upload'.items = upload.items,
         RecoveryAgrees'
  PROVE  Agreement' /\ LogKept /\ file'.dropped >= file.dropped
<1>1. QueueAgrees' /\ LogKept /\ file'.dropped >= file.dropped
  BY QueueStep DEF Agreement
<1>2. RequestsAgree'
  BY <1>1, RequestsKept
<1>3. QED
  BY <1>1, <1>2 DEF Agreement

\* Without expiry, and with the upload loop alone recovering, every step keeps
\* the ledger and the queue behind it one log.
LEMMA NextAgreement ==
  ASSUME ~Expires, ~OthersRecover, IInv, Sessions, Agreement, [Next]_vars
  PROVE  Agreement' /\ LogKept /\ file'.dropped >= file.dropped
<1> USE DEF link, outside
<1>0. /\ IInv' /\ Sound(file) /\ ~HasExpired(file) /\ upload \in Upload
      /\ Cursor \in Nat /\ Cursor < file.next /\ file.acked <= Cursor
      /\ "upload" \in Loop /\ "maintenance" \in Loop /\ Loop = {"upload", "maintenance"}
      /\ NoUpload.at = "idle" /\ recovery \in [Loop -> Recovering]
      /\ recovery["maintenance"].at = "none"
  BY NextBase, Finds, DeliveryAssumption
     DEF IInv, Base, HasExpired, Agreement, QueueAgrees, RecoveryAgrees, Loop, NoUpload
<1> DEFINE Grows(q) == Extends(q, file, Cursor)
<1>13. /\ ExpireStale(file) = file
       /\ Grows(file)
       /\ \A q : Grows(MarkDeliveryAttempted(file, q))
       /\ Grows(MarkPendingDeliveryUncertain(file))
       /\ Grows(MarkReconciliationQueued(file))
  BY <1>0, MethodsExtend
<1>14. \A p \in Payload : Grows(Enqueue(file, p))
  BY <1>0, EnqueueExtends
<1>1. CASE \/ \E e \in Event : ClassifyEvent(e)
           \/ EnqueueEvent
           \/ \E s \in Snapshot : CollectSnapshot(s)
           \/ ClassifySnapshot
           \/ EnqueueSnapshot
           \/ ReconciliationQueued
           \/ MaintenanceSummary
           \/ OtherLoopFails
           \/ UNCHANGED vars
  <2>1. UNCHANGED <<recovery, network, upload, core>>
    BY <1>1 DEF ClassifyEvent, EnqueueEvent, CollectSnapshot, ClassifySnapshot,
                EnqueueSnapshot, ReconciliationQueued, MaintenanceSummary, OtherLoopFails, vars
  <2>2. \/ file' = file \/ file' = ExpireStale(file) \/ file' = MarkReconciliationQueued(file)
        \/ \E p \in Payload : file' = Enqueue(file, p)
    <3>1. CASE EnqueueEvent
      BY <3>1 DEF EnqueueEvent, Put, IInv, Base
    <3>2. CASE EnqueueSnapshot
      <4> DEFINE p == [item |-> inventory.item, mode |-> inventory.mode]
      <4>1. p \in Payload
        BY <3>2, DeliveryAssumption DEF EnqueueSnapshot, IInv, Base, Inventory, Item, Mode
      <4>2. QED
        BY <3>2, <4>1 DEF EnqueueSnapshot, Put
    <3>3. QED
      BY <1>1, <3>1, <3>2 DEF ClassifyEvent, CollectSnapshot, ClassifySnapshot,
         ReconciliationQueued, MaintenanceSummary, OtherLoopFails, vars
  <2>3. Extends(file', file, Cursor)
    BY <1>0, <2>2, <1>13, <1>14
  <2>4. RecoveryAgrees'
    BY <2>1 DEF Agreement, RecoveryAgrees, Cursor
  <2>5. QED
    BY <1>0, <2>1, <2>3, <2>4, AgreementFrame DEF Loading
<1>2. CASE TakeBatch
  <2>1. /\ file' = file /\ UNCHANGED <<recovery, network, core>>
        /\ recovery["upload"].at = "none"
    BY <1>0, <1>2 DEF TakeBatch, ExpireStale
  <2>2. Extends(file', file, Cursor)
    BY <1>0, <2>1, <1>13, <1>14
  <2>3. QueueAgrees' /\ LogKept /\ file'.dropped >= file.dropped
    BY <1>0, <2>1, <2>2, QueueStep DEF Agreement
  <2>4. RecoveryAgrees'
    BY <1>0, <2>1 DEF RecoveryAgrees
  <2>5. ASSUME Loading'
        PROVE  InPlace(upload.from, upload.items)'
    <3>1. upload'.from = file'.acked + 1 /\
          \A k \in 1..Len(upload'.items) :
            /\ upload'.from + k - 1 \in Queued(file')
            /\ upload'.items[k] = ItemAt(file', upload'.from + k - 1)
      BY <1>2, <2>5, TakeBatchEffect DEF Loading, ItemAt, TakeBatch
    <3>2. /\ file'.acked \in Nat /\ file'.next \in Nat /\ file'.acked < file'.next
          /\ \A i \in Queued(file') : i < file'.next
          /\ Len(upload'.items) \in Nat
      <4>1. upload'.items \in Seq(Item)
        BY <1>0 DEF IInv, Base, Upload
      <4>2. QED
        BY <1>0, <4>1, LenProperties DEF IInv, Base, Sound, Typed, Gapless, Queued
    <3>3. upload'.from + Len(upload'.items) <= file'.next
      <4>1. CASE Len(upload'.items) = 0
        BY <3>1, <3>2, <4>1
      <4>2. CASE Len(upload'.items) # 0
        <5>1. upload'.from + Len(upload'.items) - 1 \in Queued(file')
          BY <3>1, <3>2, <4>2
        <5>2. QED
          BY <3>1, <3>2, <5>1
      <4>3. QED
        BY <4>1, <4>2
    <3>4. QED
      BY <2>3, <3>1, <3>3 DEF InPlace, QueueAgrees, Entry
  <2>6. \A r \in network' : InPlace(r.from, r.items)'
    <3>1. \A n, s : InPlace(n, s) => InPlace(n, s)'
      BY <2>1 DEF InPlace, Entry, ItemAt, Cursor
    <3>2. QED
      BY <2>1, <3>1 DEF Agreement, RequestsAgree
  <2>7. QED
    BY <2>3, <2>4, <2>5, <2>6 DEF Agreement, RequestsAgree
<1>3. CASE SendBatch
  <2> DEFINE r == [session |-> session, from |-> upload.from, items |-> upload.items,
                   mode |-> IF upload.replay THEN "replay" ELSE "realtime"]
  <2>1. /\ network' = network \cup {r} /\ UNCHANGED <<recovery, core>>
        /\ upload'.from = upload.from /\ upload'.items = upload.items
        /\ r.from = upload.from /\ r.items = upload.items
        /\ Loading /\ upload.at = "send"
    BY <1>0, <1>3 DEF SendBatch, Upload, Loading
  <2>2. Extends(file', file, Cursor)
    BY <1>0, <1>3, <1>13, <1>14 DEF SendBatch
  <2>3. QueueAgrees' /\ LogKept /\ file'.dropped >= file.dropped
    BY <1>0, <2>1, <2>2, QueueStep DEF Agreement
  <2>4. RecoveryAgrees'
    BY <1>0, <2>1 DEF Agreement, RecoveryAgrees
  <2> HIDE DEF r
  <2>5. \A n \in Nat \ {0}, s \in Seq(Item) : InPlace(n, s) => InPlace(n, s)'
    BY <1>0, <2>3, InPlaceKept
  <2>6. /\ upload.from \in Nat \ {0} /\ upload.items \in Seq(Item)
        /\ InPlace(upload.from, upload.items)
    BY <2>1 DEF IInv, Base, Upload, Agreement, RequestsAgree
  <2>7. \A n, s : n = upload.from /\ s = upload.items => InPlace(n, s)'
    BY <2>5, <2>6
  <2>8. InPlace(r.from, r.items)' /\ InPlace(upload.from, upload.items)'
    BY <2>1, <2>7 DEF InPlace, r
  <2>9. \A q \in network : InPlace(q.from, q.items)'
    <3>1. \A q \in network : /\ q.from \in Nat \ {0} /\ q.items \in Seq(Item)
                            /\ InPlace(q.from, q.items)
      BY DEF IInv, Base, Request, Agreement, RequestsAgree
    <3>2. QED
      BY <2>5, <3>1
  <2>10. QED
    BY <2>1, <2>3, <2>4, <2>8, <2>9 DEF Agreement, RequestsAgree
<1>4. CASE ReceiptArrives \/ RetryBatch \/ GiveBatchUp \/ Timeout
  <2>1. UNCHANGED <<recovery, core, network>> /\ upload.at = "wait"
    BY <1>4 DEF ReceiptArrives, RetryBatch, GiveBatchUp, Timeout
  <2>2. Extends(file', file, Cursor)
    <3>1. CASE ReceiptArrives
      <4>1. upload.cursor \in Nat /\ upload.cursor <= Cursor
        BY <1>0, <3>1 DEF ReceiptArrives, Upload, IInv, CursorsKnown
      <4>2. QED
        BY <1>0, <3>1, <4>1, CursorsExtend DEF ReceiptArrives
    <3>2. QED
      BY <1>0, <1>4, <3>1, <1>13, <1>14 DEF RetryBatch, GiveBatchUp, Timeout
  <2>3. RecoveryAgrees'
    BY <2>1 DEF Agreement, RecoveryAgrees, Cursor
  <2>4. Loading' => /\ Loading /\ upload'.from = upload.from
                    /\ upload'.items = upload.items
    BY <1>0, <1>4 DEF ReceiptArrives, RetryBatch, GiveBatchUp, Timeout, Loading, Upload
  <2>5. QED
    BY <1>0, <2>1, <2>2, <2>3, <2>4, AgreementFrame
<1>5. CASE UploadSessionInvalid \/ CompleteProbe
  <2>1. UNCHANGED <<core, network>> /\ upload' = NoUpload /\ upload.at # "idle"
    BY <1>5 DEF UploadSessionInvalid, CompleteProbe
  <2>2. Extends(file', file, Cursor)
    BY <1>0, <1>5, <1>13, <1>14 DEF UploadSessionInvalid, CompleteProbe
  <2>3. /\ recovery'["maintenance"] = recovery["maintenance"]
        /\ recovery'["upload"].at \in {"lock", recovery["upload"].at}
    BY <1>0, <1>5 DEF UploadSessionInvalid, CompleteProbe, StartRecovery
  <2>4. RecoveryAgrees'
    BY <1>0, <2>1, <2>3 DEF Agreement, RecoveryAgrees
  <2>5. QED
    BY <1>0, <2>1, <2>2, <2>4, AgreementFrame DEF Loading
<1>6. ASSUME NEW t \in Loop, RecoveryStep(t) \/ RecoveryFails(t)
      PROVE  Agreement' /\ LogKept /\ file'.dropped >= file.dropped
  <2>0. /\ t = "upload" /\ UNCHANGED <<network, upload>>
        /\ recovery'["maintenance"] = recovery["maintenance"] /\ upload.at = "idle"
    BY <1>0, <1>6 DEF RecoveryStep, RecoveryFails, AlreadyReplaced, ConnectSession,
       SynchronizeQueue, Recovered, Agreement, RecoveryAgrees
  <2>1. CASE AlreadyReplaced(t) \/ RecoveryFails(t)
    <3>1. UNCHANGED <<core, file>> /\ recovery'["upload"].at = "none"
      BY <1>0, <2>0, <2>1, StartTyped DEF AlreadyReplaced, RecoveryFails, Recovered
    <3>2. RecoveryAgrees'
      BY <1>0, <2>0, <3>1 DEF RecoveryAgrees
    <3>3. Extends(file', file, Cursor)
      BY <1>0, <3>1, <1>13, <1>14
    <3>4. QED
      BY <1>0, <2>0, <3>1, <3>2, <3>3, AgreementFrame DEF Loading
  <2>2. CASE ConnectSession(t)
    <3>1. /\ UNCHANGED file /\ core'.ledger = core.ledger /\ core'.session = core.opened + 1
          /\ recovery'["upload"].cursor = Cursor
      BY <1>0, <2>0, <2>2 DEF ConnectSession, IInv, Base, Core, Recovering
    <3>2. \A r \in network : r.session # core'.session
      BY <3>1 DEF Sessions, Opened, IInv, Base, Core
    <3>3. RecoveryAgrees'
      BY <1>0, <2>0, <3>1, <3>2 DEF RecoveryAgrees, Cursor
    <3>4. Extends(file', file, Cursor)
      BY <1>0, <3>1, <1>13, <1>14
    <3>5. QueueAgrees' /\ LogKept /\ file'.dropped >= file.dropped
      BY <1>0, <3>1, <3>4, QueueStep DEF Agreement
    <3>6. RequestsAgree'
      BY <1>0, <2>0, <3>5, RequestsKept DEF Loading
    <3>7. QED
      BY <3>3, <3>5, <3>6 DEF Agreement
  <2>3. CASE SynchronizeQueue(t)
    <3>1. /\ UNCHANGED core /\ recovery'["upload"].at = "none"
          /\ file' = SynchronizeWithServerCursor(file, Cursor)
      BY <1>0, <2>0, <2>3, StartTyped
         DEF SynchronizeQueue, Recovered, Agreement, RecoveryAgrees
    <3>2. RecoveryAgrees'
      BY <1>0, <2>0, <3>1 DEF RecoveryAgrees
    <3>3. Extends(file', file, Cursor)
      BY <1>0, <3>1, CursorsExtend
    <3>4. QED
      BY <1>0, <2>0, <3>1, <3>2, <3>3, AgreementFrame DEF Loading
  <2>4. QED
    BY <1>6, <2>1, <2>2, <2>3 DEF RecoveryStep
<1>7. ASSUME NEW r \in network, CoreAnswers(r)
      PROVE  Agreement' /\ LogKept /\ file'.dropped >= file.dropped
  <2>1. QueueAgrees' /\ LogKept /\ file' = file
    BY <1>7, IngestStep
  <2>2. /\ UNCHANGED recovery /\ network' \subseteq network /\ core' \in Core
        /\ core'.session = core.session
        /\ r.session # core.session => core' = core
    BY <1>0, <1>7 DEF CoreAnswers, IInv, Base, Core
  <2>3. \E reply \in {"ok", "error", "invalid"} : Answer(r, reply)
    BY <1>7 DEF CoreAnswers
  <2>4. /\ upload'.at = upload.at /\ upload'.from = upload.from
        /\ upload'.items = upload.items
    BY <2>2, <2>3, AnswerEffect DEF IInv, Core
  <2>5. RequestsAgree'
    BY <1>0, <2>1, <2>2, <2>4, RequestsKept DEF Loading
  <2>6. RecoveryAgrees'
    BY <2>2, <2>4 DEF Agreement, RecoveryAgrees, Cursor
  <2>7. file'.dropped >= file.dropped
    BY <1>0, <2>1 DEF Sound, Typed
  <2>8. QED
    BY <2>1, <2>5, <2>6, <2>7 DEF Agreement
<1>8. ASSUME NEW r \in network, CoreFails(r)
      PROVE  Agreement' /\ LogKept /\ file'.dropped >= file.dropped
  <2>1. UNCHANGED <<recovery, core, file>> /\ network' \subseteq network /\ Answer(r, "error")
    BY <1>8 DEF CoreFails
  <2>2. /\ upload'.at = upload.at /\ upload'.from = upload.from
        /\ upload'.items = upload.items
    BY <2>1, AnswerEffect, Finds DEF IInv
  <2>3. RecoveryAgrees'
    BY <2>1, <2>2 DEF Agreement, RecoveryAgrees, Cursor
  <2>4. Extends(file', file, Cursor)
    BY <1>0, <2>1, <1>13, <1>14
  <2>5. QED
    BY <1>0, <2>1, <2>2, <2>3, <2>4, AgreementFrame DEF Loading
<1>9. CASE SessionEnds
  <2>1. /\ UNCHANGED <<file, upload, network, recovery>>
        /\ core'.ledger = core.ledger /\ core'.session = 0
    BY <1>9 DEF SessionEnds, IInv, Base, Core
  <2>2. \A r \in network : r.session # 0
    BY DEF Sessions, Opened
  <2>3. Extends(file', file, Cursor)
    BY <1>0, <2>1, <1>13, <1>14
  <2>4. QueueAgrees' /\ LogKept /\ file'.dropped >= file.dropped
    BY <1>0, <2>1, <2>3, QueueStep DEF Agreement
  <2>5. RequestsAgree'
    BY <1>0, <2>1, <2>4, RequestsKept DEF Loading
  <2>6. RecoveryAgrees'
    BY <2>1, <2>2 DEF Agreement, RecoveryAgrees, Cursor
  <2>7. QED
    BY <2>4, <2>5, <2>6 DEF Agreement
<1>10. CASE Restart
  <2>1. /\ UNCHANGED <<core, network>> /\ upload' = NoUpload /\ recovery' = Booting
        /\ file' = MarkPendingDeliveryUncertain(file)
    BY <1>10 DEF Restart, Reopen
  <2>2. Booting["maintenance"].at = "none" /\ Booting["upload"].at # "synchronize"
    BY StartTyped DEF Booting, Loop
  <2>3. RecoveryAgrees'
    BY <1>0, <2>1, <2>2 DEF RecoveryAgrees
  <2>4. Extends(file', file, Cursor)
    BY <1>0, <2>1, <1>13, <1>14
  <2>5. QED
    BY <1>0, <2>1, <2>3, <2>4, AgreementFrame DEF Loading
<1>11. ~GrowOld /\ ~OtherSessionInvalid
  BY DEF GrowOld, OtherSessionInvalid
<1>12. QED
  BY <1>1, <1>2, <1>3, <1>4, <1>5, <1>6, <1>7, <1>8, <1>9, <1>10, <1>11
     DEF Next, UploadStep

\* While no row expires and only the upload loop re-establishes the session, no
\* crash, retry, late answer or new session makes an item vanish: what leaves
\* the queue is in the Core's ledger.  (With expiry the code does lose items:
\* the run delivery_lost_in_flight.)
THEOREM NoSilentLossWithoutExpiry ==
  ASSUME ~Expires, ~OthersRecover
  PROVE  Spec => NoSilentLoss
<1>1. ASSUME IInv, Sessions, Agreement, [Next]_vars
      PROVE  [LET gone == QueuedItems \ (QueuedItems' \cup ToSet(core'.ledger))
              IN  Cardinality(gone) <= file'.dropped - file.dropped]_vars
  <2> DEFINE gone == QueuedItems \ (QueuedItems' \cup ToSet(core'.ledger))
  <2>1. LogKept /\ file'.dropped >= file.dropped
    BY <1>1, NextAgreement
  <2>2. /\ IInv' /\ core'.ledger \in Seq(Item) /\ Cursor' \in Nat
        /\ \A i \in 1..Cursor' : core'.ledger[i] \in ToSet(core'.ledger)
    <3>1. IInv' /\ core'.ledger \in Seq(Item)
      BY <1>1, NextBase DEF IInv, Base, Core
    <3>2. QED
      BY <3>1, LenProperties DEF Cursor, ToSet
  <2>3. gone = {}
    <3> SUFFICES ASSUME NEW i \in Queued(file), NEW x \in Item, x = ItemAt(file, i)
                 PROVE  x \in QueuedItems' \cup ToSet(core'.ledger)
      <4>1. \A i \in Queued(file) : ItemAt(file, i) \in Item
        BY <1>1, Finds, DeliveryAssumption DEF Sound, Typed, Queued, Row, ItemAt
      <4>2. QED
        BY <4>1 DEF QueuedItems, ItemAt
    <3>1. i \in Nat \ {0} /\ i < file.next /\ Entry(i, x)
      BY <1>1, Finds DEF Sound, Typed, Gapless, Queued, Agreement, QueueAgrees
    <3>2. Entry(i, x)'
      BY <2>1, <3>1 DEF LogKept
    <3>3. CASE i <= Cursor'
      <4>1. x = core'.ledger[i] /\ i \in 1..Cursor'
        BY <2>2, <3>1, <3>2, <3>3 DEF Entry
      <4>2. QED
        BY <2>2, <4>1
    <3>4. CASE ~(i <= Cursor')
      <4>1. i \in Queued(file') /\ x = ItemAt(file', i)
        BY <3>2, <3>4 DEF Entry
      <4>2. QED
        BY <4>1 DEF QueuedItems, ItemAt
    <3>5. QED
      BY <3>3, <3>4
  <2>4. Cardinality(gone) = 0
    BY <2>3, FS_EmptySet
  <2> HIDE DEF gone
  <2>5. file.dropped \in Nat /\ file'.dropped \in Nat
    BY <1>1, <2>2 DEF IInv, Base, Sound, Typed
  <2>6. Cardinality(gone) <= file'.dropped - file.dropped
    BY <2>1, <2>4, <2>5
  <2>7. QED
    BY <2>6 DEF gone
<1>2. IInv /\ Sessions /\ [Next]_vars => Sessions'
  BY NextSessions
<1>3. IInv /\ Sessions /\ Agreement /\ [Next]_vars => Agreement'
  BY NextAgreement
<1>4. QED
  BY InitBase, NextBase, InitSessions, InitAgreement, <1>1, <1>2, <1>3, PTL
     DEF Spec, NoSilentLoss

=============================================================================
