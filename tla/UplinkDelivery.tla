---------------------------- MODULE UplinkDelivery ----------------------------
(***************************************************************************)
(* How an observation travels from Home Assistant to IoT Core: the         *)
(* subscription and inventory loops fill the queue, the upload loop sends  *)
(* its head, any loop may find the session invalid and re-establish it,    *)
(* the process may die at any point, and the Core and the network between  *)
(* answer late or not at all (runtime.py).                                 *)
(*                                                                         *)
(* Queue methods are atomic here (UplinkThreads splits them).  Time is     *)
(* left open: a row can grow old, and an open circuit can admit a probe,   *)
(* at any moment (MaxAge and Recovery are zero).  All grants are held.     *)
(***************************************************************************)
EXTENDS UplinkQueueStore, CircuitState, SequencesExt

CONSTANTS
  Event, Snapshot,   \* what is observed; each is taken at most once
  NoItem,
  BatchSize,         \* event_batch_size
  MaxAttempts,       \* retry_max_attempts
  Expires,           \* whether rows reach max_age_seconds
  OthersRecover,     \* whether a loop other than upload may recover the session
  MaxFaults,         \* bound of the model: faults of the Core and the network
  MaxRestarts,       \* bound of the model: crashes of the connector
  MaxFailures        \* bound of the model: failures the circuit records

Item == Event \cup Snapshot
Mode == {"realtime", "replay"}

ASSUME DeliveryAssumption ==
  /\ Payload = [item : Item, mode : Mode]
  /\ Event \cap Snapshot = {} /\ NoItem \notin Item
  /\ MaxAge = 0 /\ Recovery = 0
  /\ {BatchSize, MaxAttempts} \subseteq Nat \ {0}
  /\ {Expires, OthersRecover} \subseteq BOOLEAN
  /\ {MaxFaults, MaxRestarts, MaxFailures} \subseteq Nat

VARIABLES
  file,      \* the queue's SQLite file
  circuit,   \* the circuit breaker
  session,   \* self.session: its number, 0 for None
  running,   \* whether the loops have been started
  source,    \* the subscription loop: the event it holds
  inventory, \* the inventory loop: the snapshot it holds
  upload,    \* the upload loop: the batch it is sending
  recovery,  \* each recovering loop: its way through _recover_session
  lock,      \* _session_lock
  core,      \* IoT Core: its current session, how many it opened, its ledger
  network,   \* upload requests the Core has not answered
  budget,    \* what is left of faults and restarts
  seen       \* history: items taken, accepted and doubted; refusals

link    == <<session, running, lock>>
outside == <<core, network, budget>>
vars    == <<file, circuit, link, source, inventory, upload, recovery, outside, seen>>

Loop == {"upload", "maintenance"}

NoSource    == [item |-> NoItem, mode |-> "realtime"]
NoInventory == [at |-> "idle", item |-> NoItem, mode |-> "realtime",
                required |-> FALSE]
NoUpload    == [at |-> "idle", permit |-> ObservePermit(Closed), from |-> 0,
                items |-> <<>>, replay |-> FALSE, tries |-> 0, sent |-> {},
                reply |-> "none", cursor |-> 0]
NoRecovery  == [at |-> "none", permit |-> ObservePermit(Closed), stale |-> 0, cursor |-> 0]

\* A starting process establishes its session before it starts the loops.
Booting == [t \in Loop |-> IF t = "upload" THEN [NoRecovery EXCEPT !.at = "lock"]
                                           ELSE NoRecovery]

Init ==
  /\ file = Fresh
  /\ circuit = Closed
  /\ session = 0 /\ running = FALSE /\ lock = "free"
  /\ source = NoSource /\ inventory = NoInventory
  /\ upload = NoUpload /\ recovery = Booting
  /\ core = [session |-> 0, opened |-> 0, ledger |-> <<>>]
  /\ network = {}
  /\ budget = [faults |-> MaxFaults, restarts |-> MaxRestarts]
  /\ seen = [taken |-> {}, accepted |-> {}, doubted |-> {}, refused |-> 0]

Cursor == Len(core.ledger)

Spend(what) == budget[what] > 0 /\ budget' = [budget EXCEPT ![what] = @ - 1]

CurrentMode == IF circuit.state = "closed" THEN "realtime" ELSE "replay"

\* An item is doubted from when it is handed to HTTP, or is in the queue as an upload
\* fails or the process dies: it is no longer certain to be a first delivery.
QueuedItems == {file.rows[i].payload.item : i \in Queued(file)}

Doubt(items) == seen' = [seen EXCEPT !.doubted = @ \cup items]

\* breaker.failure(), up to the bound of the model.
CircuitFails == circuit.generation < MaxFailures /\ circuit' = AfterFailure(circuit)

-----------------------------------------------------------------------------
(* Filling the queue.                                                      *)

\* enqueue, and what became of the item.
Put(p) ==
  /\ file' = Enqueue(file, p)
  /\ seen' = IF Fits(ExpireStale(file), p)
               THEN [seen EXCEPT !.accepted = @ \cup {p.item}]
               ELSE [seen EXCEPT !.refused = @ + 1]

\* enqueue_event reads the circuit first ...
ClassifyEvent(e) ==
  /\ running /\ source = NoSource /\ e \notin seen.taken
  /\ source' = [item |-> e, mode |-> CurrentMode]
  /\ seen' = [seen EXCEPT !.taken = @ \cup {e}]
  /\ UNCHANGED <<file, circuit, link, inventory, upload, recovery, outside>>

\* ... and queues the event with what it read.
EnqueueEvent ==
  /\ source # NoSource
  /\ Put(source)
  /\ source' = NoSource
  /\ UNCHANGED <<circuit, link, inventory, upload, recovery, outside>>

\* enqueue_reconciliation_if_needed: needs_reconciliation, then
\* collect_snapshot, which makes up for whatever was dropped until now.  The
\* bootstrap and the periodic snapshot are queued without being required.
CollectSnapshot(s) ==
  /\ running /\ inventory.at = "idle" /\ s \notin seen.taken
  /\ inventory' = [NoInventory EXCEPT !.at = "collected", !.item = s,
                                         !.required = file.required]
  /\ seen' = [seen EXCEPT !.taken = @ \cup {s}]
  /\ UNCHANGED <<file, circuit, link, source, upload, recovery, outside>>

ClassifySnapshot ==
  /\ inventory.at = "collected"
  /\ inventory' = [inventory EXCEPT !.at = "classified", !.mode = CurrentMode]
  /\ UNCHANGED <<file, circuit, link, source, upload, recovery, outside, seen>>

EnqueueSnapshot ==
  /\ inventory.at = "classified"
  /\ LET p == [item |-> inventory.item, mode |-> inventory.mode]
     IN  /\ Put(p)
         /\ inventory' = IF Fits(ExpireStale(file), p) /\ inventory.required
                           THEN [inventory EXCEPT !.at = "queued"]
                           ELSE NoInventory
  /\ UNCHANGED <<circuit, link, source, upload, recovery, outside>>

ReconciliationQueued ==
  /\ inventory.at = "queued"
  /\ file' = MarkReconciliationQueued(file)
  /\ inventory' = NoInventory
  /\ UNCHANGED <<circuit, link, source, upload, recovery, outside, seen>>

-----------------------------------------------------------------------------
(* The upload loop: flush_once and retry_bounded.                          *)

\* What one request carries: a snapshot at the head alone, otherwise the run
\* of events at the head (_contiguous_events).
BatchOf(rows) ==
  LET first == Min(DOMAIN rows)
      IsEvent(i) == i \in DOMAIN rows /\ rows[i].payload.item \in Event
  IN  IF IsEvent(first) THEN {i \in DOMAIN rows : \A j \in first..i : IsEvent(j)}
                        ELSE {first}

\* allow() and peek_all().  With nothing queued, flush_once only has a probe
\* to complete; without one it returns.
TakeBatch ==
  /\ running /\ upload.at = "idle" /\ recovery["upload"].at = "none"
  /\ Allows(circuit)
  /\ circuit' = AfterAllow(circuit)
  /\ file' = ExpireStale(file)
  /\ LET permit == AllowPermit(circuit)
         fresh  == ExpireStale(file)
         rows   == Restrict(fresh.rows, FirstRows(fresh, BatchSize))
         Loaded == LET batch == BatchOf(rows)
                       first == Min(batch)
                   IN  [NoUpload EXCEPT !.at = "send", !.permit = permit, !.from = first,
                          !.items = [k \in 1..Cardinality(batch) |->
                                       rows[first + k - 1].payload.item],
                          !.replay = \E i \in batch :
                            rows[i].attempted \/ rows[i].payload.mode = "replay"]
     IN  upload' = IF DOMAIN rows # {} THEN Loaded
                   ELSE IF permit.probe THEN [NoUpload EXCEPT !.at = "probe", !.permit = permit]
                   ELSE upload
  /\ UNCHANGED <<link, source, inventory, recovery, outside, seen>>

\* upload_events or upload_snapshot: mark the rows attempted, then hand the
\* request to HTTP under the session of that moment.
SendBatch ==
  /\ upload.at = "send"
  /\ LET r == [session |-> session, from |-> upload.from, items |-> upload.items,
               mode |-> IF upload.replay THEN "replay" ELSE "realtime"]
     IN  /\ network' = network \cup {r}
         /\ upload' = [upload EXCEPT !.at = "wait", !.replay = TRUE, !.tries = @ + 1,
                                     !.sent = {r}, !.reply = "none"]
  /\ file' = MarkDeliveryAttempted(file, upload.from..(upload.from + Len(upload.items) - 1))
  /\ Doubt(ToSet(upload.items))
  /\ UNCHANGED <<circuit, link, source, inventory, recovery, core, budget>>

\* Mutant: a receipt acknowledges whatever is queued.
ReceiptCoversQueue ==
  /\ upload.at = "wait" /\ upload.reply = "ok"
  /\ file' = AcknowledgeThrough(file, file.next - 1)
  /\ circuit' = AfterSuccess(circuit, upload.permit)
  /\ upload' = NoUpload
  /\ UNCHANGED <<link, source, inventory, recovery, outside, seen>>

\* Mutant: a receipt is no verdict on the circuit.
ReceiptWithoutVerdict ==
  /\ upload.at = "wait" /\ upload.reply = "ok"
  /\ file' = AcknowledgeThrough(file, upload.cursor)
  /\ upload' = NoUpload
  /\ UNCHANGED <<circuit, link, source, inventory, recovery, outside, seen>>

\* A receipt: acknowledge_through(cursor_after), then breaker.success.
ReceiptArrives ==
  /\ upload.at = "wait" /\ upload.reply = "ok"
  /\ file' = AcknowledgeThrough(file, upload.cursor)
  /\ circuit' = AfterSuccess(circuit, upload.permit)
  /\ upload' = NoUpload
  /\ UNCHANGED <<link, source, inventory, recovery, outside, seen>>

\* An error is uncertain: every pending row is fenced before the retry.
RetryBatch ==
  /\ upload.at = "wait" /\ upload.reply = "error"
  /\ upload.tries < MaxAttempts
  /\ file' = MarkPendingDeliveryUncertain(file)
  /\ upload' = [upload EXCEPT !.at = "send"]
  /\ Doubt(QueuedItems)
  /\ UNCHANGED <<circuit, link, source, inventory, recovery, outside>>

\* Mutant: a batch that failed for good is thrown away.
BatchThrownAway ==
  /\ upload.at = "wait" /\ upload.reply = "error"
  /\ upload.tries = MaxAttempts
  /\ file' = DeleteThrough(file, upload.from + Len(upload.items) - 1)
  /\ CircuitFails
  /\ upload' = NoUpload
  /\ Doubt(QueuedItems)
  /\ UNCHANGED <<link, source, inventory, recovery, outside>>

GiveBatchUp ==
  /\ upload.at = "wait" /\ upload.reply = "error"
  /\ upload.tries = MaxAttempts
  /\ file' = MarkPendingDeliveryUncertain(file)
  /\ CircuitFails
  /\ upload' = NoUpload
  /\ Doubt(QueuedItems)
  /\ UNCHANGED <<link, source, inventory, recovery, outside>>

\* A loop that met HubSessionInvalidError: _recover_after_session_error, with
\* the session of the refused request.
StartRecovery(t, stale, observed) ==
  recovery' = [recovery EXCEPT ![t] =
    [at |-> "lock", permit |-> ObservePermit(observed), stale |-> stale, cursor |-> 0]]

\* An invalid session is never retried: fence, fail, recover.
UploadSessionInvalid ==
  /\ upload.at = "wait" /\ upload.reply = "invalid"
  /\ file' = MarkPendingDeliveryUncertain(file)
  /\ CircuitFails
  /\ \E r \in upload.sent : StartRecovery("upload", r.session, AfterFailure(circuit))
  /\ upload' = NoUpload
  /\ Doubt(QueuedItems)
  /\ UNCHANGED <<link, source, inventory, outside>>

\* _complete_half_open_probe: the heartbeat decides, and its queue summary
\* expires what is stale.
CompleteProbe ==
  /\ upload.at = "probe"
  /\ file' = ExpireStale(file)
  /\ upload' = NoUpload
  /\ \/ /\ session = core.session
        /\ circuit' = AfterSuccess(circuit, upload.permit)
        /\ UNCHANGED <<recovery, budget>>
     \/ /\ session # core.session
        /\ CircuitFails /\ StartRecovery("upload", session, AfterFailure(circuit))
        /\ UNCHANGED budget
     \/ /\ Spend("faults")
        /\ CircuitFails
        /\ UNCHANGED recovery
  /\ UNCHANGED <<link, source, inventory, core, network, seen>>

-----------------------------------------------------------------------------
(* The maintenance loop, and every other loop that reports a failure.      *)

MaintenanceSummary ==
  /\ running /\ HasExpired(file)
  /\ file' = ExpireStale(file)
  /\ UNCHANGED <<circuit, link, source, inventory, upload, recovery, outside, seen>>

\* A heartbeat or a snapshot collection fails.
OtherLoopFails ==
  /\ running /\ Spend("faults")
  /\ CircuitFails
  /\ UNCHANGED <<file, link, source, inventory, upload, recovery, core, network, seen>>

OtherSessionInvalid ==
  /\ OthersRecover /\ running
  /\ session # core.session /\ recovery["maintenance"].at = "none"
  /\ StartRecovery("maintenance", session, circuit)
  /\ UNCHANGED <<file, circuit, link, source, inventory, upload, outside, seen>>

-----------------------------------------------------------------------------
(* _recover_session and _establish_session.                                *)

Recovered(t) ==
  /\ circuit' = AfterSuccess(circuit, recovery[t].permit)
  /\ recovery' = [recovery EXCEPT ![t] = NoRecovery]

\* Another loop replaced the stale session while this one waited for the lock.
AlreadyReplaced(t) ==
  /\ recovery[t].at = "lock" /\ lock = "free"
  /\ running /\ session # recovery[t].stale
  /\ Recovered(t)
  /\ UNCHANGED <<file, link, source, inventory, upload, outside, seen>>

\* Mutant: the session is not compared again under the lock.
ConnectUnconditionally(t) ==
  /\ recovery[t].at = "lock" /\ lock = "free"
  /\ core' = [core EXCEPT !.session = core.opened + 1, !.opened = @ + 1]
  /\ session' = core.opened + 1
  /\ lock' = t
  /\ recovery' = [recovery EXCEPT ![t].at = "synchronize", ![t].cursor = Cursor]
  /\ UNCHANGED <<file, circuit, running, source, inventory, upload, network, budget, seen>>

\* connect_session assigns self.session; the cursor it returned is used later.
ConnectSession(t) ==
  /\ recovery[t].at = "lock" /\ lock = "free"
  /\ running => session = recovery[t].stale
  /\ core' = [core EXCEPT !.session = core.opened + 1, !.opened = @ + 1]
  /\ session' = core.opened + 1
  /\ lock' = t
  /\ recovery' = [recovery EXCEPT ![t].at = "synchronize", ![t].cursor = Cursor]
  /\ UNCHANGED <<file, circuit, running, source, inventory, upload, network, budget, seen>>

\* synchronize_with_server_cursor(acknowledged); run_forever goes on to start
\* the loops, a recovering loop reports success.
SynchronizeQueue(t) ==
  /\ recovery[t].at = "synchronize"
  /\ file' = SynchronizeWithServerCursor(file, recovery[t].cursor)
  /\ Recovered(t)
  /\ running' = TRUE /\ lock' = "free"
  /\ UNCHANGED <<session, source, inventory, upload, outside, seen>>

\* authenticate or connect_session raises; at startup the call is repeated.
RecoveryFails(t) ==
  /\ recovery[t].at = "lock" /\ lock = "free" /\ running
  /\ session = recovery[t].stale
  /\ Spend("faults")
  /\ CircuitFails
  /\ recovery' = [recovery EXCEPT ![t] = NoRecovery]
  /\ UNCHANGED <<file, link, source, inventory, upload, core, network, seen>>

-----------------------------------------------------------------------------
(* IoT Core, the network, and the machine (external).                      *)

\* The upload loop hears an answer if it still waits for that request.
Answer(r, reply) ==
  upload' = IF upload.at = "wait" /\ upload.sent = {r} /\ upload.reply = "none"
              THEN [upload EXCEPT !.reply = reply, !.cursor = Len(core'.ledger)]
              ELSE upload

\* A request under another session is refused as invalid, one that would leave
\* a hole as a sequence conflict; otherwise the Core appends what is new in it
\* and returns its cursor.
CoreAnswers(r) ==
  /\ r \in network
  /\ network' = network \ {r}
  /\ IF r.session # core.session
       THEN UNCHANGED core /\ Answer(r, "invalid")
     ELSE IF r.from > Cursor + 1
       THEN UNCHANGED core /\ Answer(r, "error")
     ELSE /\ core' = [core EXCEPT !.ledger =
                        @ \o SubSeq(r.items, Cursor + 2 - r.from, Len(r.items))]
          /\ Answer(r, "ok")
  /\ UNCHANGED <<file, circuit, link, source, inventory, recovery, budget, seen>>

\* The Core fails to serve the request.
CoreFails(r) ==
  /\ r \in network
  /\ Spend("faults")
  /\ network' = network \ {r}
  /\ UNCHANGED core /\ Answer(r, "error")
  /\ UNCHANGED <<file, circuit, link, source, inventory, recovery, seen>>

\* The client's timeout; the request may still be served.
Timeout ==
  /\ upload.at = "wait" /\ upload.reply = "none"
  /\ Spend("faults")
  /\ upload' = [upload EXCEPT !.reply = "error"]
  /\ UNCHANGED <<file, circuit, link, source, inventory, recovery, core, network, seen>>

\* The lease runs out or the Core forgets the session.
SessionEnds ==
  /\ core.session # 0
  /\ Spend("faults")
  /\ core' = [core EXCEPT !.session = 0]
  /\ UNCHANGED <<file, circuit, link, source, inventory, upload, recovery, network, seen>>

GrowOld ==
  /\ Expires
  /\ file' = Age(file)
  /\ UNCHANGED <<circuit, link, source, inventory, upload, recovery, outside, seen>>

\* The process dies; only the file survives.
Restart ==
  /\ Spend("restarts")
  /\ file' = Reopen(file)
  /\ circuit' = Closed
  /\ session' = 0 /\ running' = FALSE /\ lock' = "free"
  /\ source' = NoSource /\ inventory' = NoInventory
  /\ upload' = NoUpload /\ recovery' = Booting
  /\ Doubt(QueuedItems)
  /\ UNCHANGED <<core, network>>

UploadStep ==
  \/ TakeBatch
  \/ SendBatch
  \/ ReceiptArrives
  \/ RetryBatch
  \/ GiveBatchUp
  \/ UploadSessionInvalid
  \/ CompleteProbe

RecoveryStep(t) ==
  \/ AlreadyReplaced(t)
  \/ ConnectSession(t)
  \/ SynchronizeQueue(t)

Next ==
  \/ \E e \in Event : ClassifyEvent(e)
  \/ EnqueueEvent
  \/ \E s \in Snapshot : CollectSnapshot(s)
  \/ ClassifySnapshot
  \/ EnqueueSnapshot
  \/ ReconciliationQueued
  \/ UploadStep
  \/ MaintenanceSummary
  \/ OtherLoopFails
  \/ OtherSessionInvalid
  \/ \E t \in Loop : RecoveryStep(t) \/ RecoveryFails(t)
  \/ \E r \in network : CoreAnswers(r) \/ CoreFails(r)
  \/ Timeout
  \/ SessionEnds
  \/ GrowOld
  \/ Restart

\* The loops run for ever, each call they make ends, and the Core serves the
\* requests it does not lose.
Fairness ==
  /\ WF_vars(UploadStep)
  /\ \A t \in Loop : WF_vars(RecoveryStep(t))
  /\ WF_vars(\E r \in network : CoreAnswers(r))

Spec == Init /\ [][Next]_vars /\ Fairness

-----------------------------------------------------------------------------
(* Properties.                                                             *)

\* Type invariant of the file, the circuit, and the loops' program counters.
TypeOK ==
  /\ Typed(file)
  /\ IsCircuit(circuit)
  /\ upload.at \in {"idle", "send", "wait", "probe"}
  /\ inventory.at \in {"idle", "collected", "classified", "queued"}
  /\ \A t \in Loop : recovery[t].at \in {"none", "lock", "synchronize"}
  /\ lock \in Loop \cup {"free"}
  /\ session \in 0..core.opened /\ core.session \in 0..core.opened
  /\ core.ledger \in Seq(Item)

\* docs/architecture-boundary.md: "any retry after a failed or uncertain HTTP
\* delivery, uses replay, including after restart", and "an uncertain HTTP delivery
\* fences the entire pending queue, not only the batch": a request in realtime mode
\* carries no item that was handed to HTTP before, by this process or an earlier one,
\* and none that was in the queue when an upload failed or a process died.
RealtimeIsFirstDelivery ==
  [][\A r \in network' \ network :
       r.mode = "realtime" => ToSet(r.items) \cap seen.doubted = {}]_vars

\* docs/architecture-boundary.md: byte limit, age limit and startup comparison
\* "emit dropped-count evidence".  An item that leaves the queue is in the
\* Core's ledger, or dropped_count rises for it in the same step.
NoSilentLoss ==
  [][LET gone == QueuedItems \ (QueuedItems' \cup ToSet(core'.ledger))
     IN  Cardinality(gone) <= file'.dropped - file.dropped]_vars

\* The connector never takes for acknowledged what the Core does not have.
AcknowledgedIsIngested == file.acked <= Cursor

\* test_runtime_replaces_only_the_stale_session_once: a loop that waited for
\* the lock while another replaced the session does not replace the new one.
LiveSessionIsKept ==
  [][core'.opened > core.opened /\ running => session # core.session]_vars

\* Everything accepted reaches the Core or is given up with evidence, whatever
\* fails on the way, as long as failures stop.
AcceptedIsDelivered ==
  \A x \in Item :
    x \in seen.accepted ~> x \in ToSet(core.ledger) \/ file.dropped > seen.refused

=============================================================================
