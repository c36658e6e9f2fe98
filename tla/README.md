# A TLA+ model of the ZedIoT Hub Connector

The connector runs beside a Home Assistant installation and speaks for it to IoT
Core: it sends events and snapshots up, executes commands that come down, and
runs rule packages locally. This directory holds TLA+ modules of the parts of
`src/zediot_ha_hub_connector/` that carry state across threads, requests and
restarts, TLC configurations that check them on small instances, and theorems
that hold for every value of the constants: all safety properties of the passing
runs are proved (section 4). `PROJECT.json` lists, for every definition, the
lines of code it stands for, and for every hazard of the code the properties
that watch it.

## 1. Inventory

One process, six threads that run for ever and share one runtime object, three
SQLite files, one HTTP client, one websocket client.

| Thread | Loop in `runtime.py` | What it does |
|---|---|---|
| subscription | `_subscription_loop` | takes Home Assistant events, runs the local rules on each, queues it |
| upload | `_upload_loop` | `flush_once`: sends the head of the queue to the Core, applies the receipt |
| command | `_command_loop` | claims commands, executes them, acknowledges |
| rule | `_rule_loop` | keeps active packages in step with the Core, uploads execution evidence |
| maintenance | `_maintenance_loop` | heartbeat every 30 s |
| inventory | `_inventory_loop` | snapshots: after start, after drops, and periodically |

### Components

**Uplink queue** (`queue.py`). State: a SQLite table of rows (sequence, payload,
size, attempts, time) and four metadata entries: acknowledged sequence, next
sequence, dropped count, reconciliation flag. Operations: `enqueue`, `peek_all`,
`summary`, `mark_delivery_attempted`, `mark_pending_delivery_uncertain`,
`acknowledge_through`, `synchronize_with_server_cursor`,
`mark_reconciliation_queued`; expiry runs inside the first three. Hard: every
method opens a connection of its own, and Python's `sqlite3` starts a transaction
only before a write, so the reads at the start of a method are not atomic with
what it then writes. Correct when: the queue continues the Core's cursor without
a gap, stays within its bytes, and whatever it loses is counted and reconciled.

**Circuit breaker and bounded retry** (`reliability.py`). State: closed, open or
half-open, a generation, the time it opened, failures. Operations: `allow`,
`observe`, `success`, `failure`. Hard: permits are used long after they were
given, by several threads. Correct when: one probe at a time, no stale success
closes the circuit, and it recovers.

**Uplink delivery and session recovery** (`runtime.py`). State: the session, its
lock, the local variables of the loops while they wait for an answer. Operations:
`enqueue_event`, `enqueue_snapshot`, `flush_once`, `_recover_after_session_error`,
`_establish_session`. Interacts with the queue (shared file), the circuit (shared
object) and the Core (requests that are lost, late or received twice). Correct
when: real time means first delivery, acknowledged means ingested, nothing is
lost without evidence, a live session is not replaced, all that was accepted is
delivered.

**Command delivery** (`command_executor.py`, `command_store.py`). State: a receipt
per command, pruned after 24 hours. Hard: crash between the service call and the
receipt, lost acknowledgement, redelivery, deadline, a readback that raises, a call
that was given up and is carried out all the same.
Correct when: no call after a result, one verdict per command, "executed" is said
only after Home Assistant accepted a call, calls for a light are sent in the order of
their commands, every command is answered.

**Local rules** (`rule_store.py`, `rule_runtime.py`, two operations of
`runtime.py`). State: the table of active packages and the table of executions,
shared by the subscription and the rule loop. Hard: crash between reservation and
finalization, packages replaced or revoked in the middle of an event, partly
accepted evidence, a full table. Correct when: a rule acts at most once on an
event and leaves a record, one version of a rule is active, packages converge to
what the Core has released, evidence reaches the Core.

**Hub session client** (`core_client.py`, `_go_live`, `_establish_session`,
`_recover_session`, `_disconnect_session` of `runtime.py`). State: one access token
for all threads, unlocked, with its expiry; the session; `_session_lock`; at the
Core the session, the token it is bound to, its lease of 90 s. Operations: send a
request with a token that has 60 s left, else authenticate and rebind; recover;
wait for a lease; disconnect. Hard: two threads at the token at once, a stop in the
middle of a refresh or a recovery, an answer lost after the Core has acted.
Correct when: a refresh costs no session, a session comes back after whatever
happened, a stop neither waits for a lease nor leaves one.

**Bootstrap and binding** (`prepare` and the `_prepare_...` of `runtime.py`,
`identity.py`, `activate` and `exchange` of `core_client.py`). State: a key file, an
identity file that is merged and replaced, a claim code file; at the Core the device
and the enrollment. Hard: a crash between the Core's answer and a write, or between
two writes; another configuration at the next start; rejections of an activation,
some of which pass and some of which end the process. Correct when: an enrolled
identity is never enrolled anew, a device waits for its user through whatever passes,
and a bound one goes live.

**Rule conditions** (`evaluate_condition` of `rule_runtime.py`): a pure evaluator of
typed values, in which a part without a truth value leaves the whole without one.
**Rule package verification** (`rule_package.py`): hash, signature, ranges of a
package. **Home Assistant client** (`ha_client.py`): the websocket protocol.
**Snapshot**, **event identity**, **identifiers**, **configuration**, **entry
point**, **packaging**: data transformations and I/O without state of their own.

## 2. Modules

| Module | What it is |
|---|---|
| `UplinkLog` | the abstract queue: a contiguous log behind a cursor, with what was given up counted |
| `UplinkQueueStore` | the methods of the queue as functions from file content to file content |
| `UplinkQueue` | the queue with atomic methods; implements `UplinkLog` |
| `UplinkQueueStoreProofs` | what each method does to a file: lemmas the proofs about queue, threads and delivery share |
| `UplinkThreads` | extends `UplinkQueue`: its methods cut at the commit boundaries of SQLite, run by several threads |
| `UplinkQueueProofs` | theorems about `UplinkQueue` and `UplinkThreads` |
| `CircuitState` | the methods of the breaker as functions of its fields |
| `CircuitBreaker` | the breaker and its clients |
| `CircuitBreakerProofs` | theorems about `CircuitBreaker` |
| `UplinkDelivery` | queue, circuit, upload loop, session recovery, Core and network together |
| `UplinkDeliveryProofs` | theorems about `UplinkDelivery` |
| `CommandDelivery` | command loop, receipts, Home Assistant, Core |
| `CommandDeliveryProofs` | theorems about `CommandDelivery` |
| `LocalRules` | rule tables, subscription loop, rule loop, Core |
| `LocalRulesProofs` | theorems about `LocalRules` |
| `RuleCondition` | the condition evaluator as operators; `MCLocalRules` takes the outcomes of its packages from it |
| `HubSession` | token, rebind, session, lease, recovery, start and stop of the process |
| `HubSessionProofs` | theorems about `HubSession` |
| `Bootstrap` | identity file, activation, binding, pairing, Core |
| `BootstrapProofs` | theorems about `Bootstrap` |
| `MC...` | instances of the above for TLC |

`UplinkDelivery` composes `UplinkQueueStore` and `CircuitState`, the same
definitions `UplinkQueue` and `CircuitBreaker` are built from and proved about.

### How they correspond to the code

*Queue.* A file is a record `[rows, acked, next, dropped, required]`; `rows` is a
function from sequence to `[payload, attempted, age]`. Payloads are model values
with a size. Ages are counted in steps up to `MaxAge + 1` (a row older than
`max_age_seconds`). In `UplinkQueue` each method is one action. In
`UplinkThreads` a method is a chain of single reads (`SelectExpired`,
`CountQueued`, `ReadNext`, `ReadTotal`, `ReadDropped`) followed by the
transaction its first write opens; a thread between two of them holds what it has
read, as the method's local variables do. The methods that are one transaction
are the actions of `UplinkQueue` on the same variable; `ThreadsSpec` is the
specification of the threads, beside `Spec` of the atomic methods. `peek` and
`ensure_next_sequence_at_least` have no caller in the program.

*Circuit.* The fields, with the time since opening as a counter up to
`recovery_seconds`. A client holds the permit it was given until it reports.
History variables remember whether a failure was recorded since a permit was
given, and for how long there was none.

*Delivery.* Each loop has a record of where it is and what its local variables
hold. `ClassifyEvent`/`EnqueueEvent` are the two halves of `enqueue_event`, which
reads the circuit before it queues; `CollectSnapshot` to `ReconciliationQueued`
are the inventory loop; `TakeBatch`, `SendBatch`, `ReceiptArrives`, `RetryBatch`,
`GiveBatchUp`, `CompleteProbe` are `flush_once`; `ConnectSession` and
`SynchronizeQueue` are the two halves of `_establish_session`. The Core is a
ledger: it ingests from a batch what continues its cursor, takes what lies at or
below it for a duplicate, and refuses a gap. It may answer, fail after or before
ingesting, answer too late, or be asked again. Three pairs of calls are one step,
because they touch different state (the file and the circuit) and so commute with
all other threads: `allow` with `peek_all`, acknowledgement with `success`,
`mark_pending_delivery_uncertain` with `failure`. `mark_delivery_attempted` and
the sending are one step, as a request may be lost at once; a crash between the
two is a crash after a request that was lost. The history `doubted` remembers what
was handed to HTTP, or was in the queue when an upload failed or a process died: the
items that may travel only as a replay from then on. `_contiguous_events` also cuts a
batch at a repeated event id, which cannot occur where every event is taken once.

*Commands.* A step ends where the process may die or the world may change: a
receipt committed, a call sent or answered, an acknowledgement. `Kept` is the prune
every read begins with. `SendCall`, `CallAccepted` and `CallFails` are `call_service`:
the success it returns is Home Assistant's acceptance and says nothing of the light
(`provider_result`, `device_result` in the result of `execute`). What becomes of a call
that was sent is up to `CarryOut`: at any time, before or after the answer, after it
was given up, after a newer one, again, or never. The Core
issues commands in order, hands out the oldest it has no verdict on, and may
receive an acknowledgement after the client has given up on it. Assumed of time:
the retention of receipts (24 h) exceeds a command's deadline, the time a batch
takes, and the time a request spends in the network (`RetentionPasses`).

*Session.* `RefreshToken`, `SendRequest`, `RebindAnswered`, `RequestAnswered` are
`_ensure_token`, `_request` and the answer: a request takes the token of the moment
it is sent, the Core judges it when it arrives. The assignments of token and
expiry are one step. A request repeated by `retry_bounded` is a request that begins
again. `EnterRecovery` to `ConnectAnswered`, `WaitOver`, `WaitStopped` are
`_recover_session` and `_establish_session`; `BackoffOver` is
`_call_while_core_unavailable`; `TakeSession`, `DisconnectAnswered`, `Exit` the
`finally` of `run_forever`. The Core refuses a second session while a lease is live,
whosever it is; heartbeats alone renew it, so `LeaseRunsOut` needs that the
maintenance loop is held up. `TokenAges` states what the constants 900 s, 90 s,
60 s, 30 s and 20 s imply: a token does not age during a request, and heartbeats
have been accepted with it before it does. `ours` and `disturbed` are history.

*Bootstrap.* An identity is a record of what decisions read: key, mode, enrollment,
connector, credential, binding state. `_merge_state` is `Merged`, the single writes
are `SaveActivation`, `SaveBindingState`, `SaveExchange`. The configuration may
change at any restart; the Core pins the first key, the user binds the device or
not, an enrollment is approved or not. The Core rejects an activation on a
ground that holds (`HasGround`: the clock of the device, a wrong triple in the
configuration, a revoked device, another key than the one it pinned) or for a reason
that passes (too many requests, too many failed attempts). `Terminal` is the code's
judgement of it, from the status and the one detail it looks for; `skewed`, the clock,
changes at any time. Several failures of a request in a row are
each a `RequestFails`; one is as good as many, since each leads to the same wait.

*Conditions.* A value carries its type, so that the equality of 1 and True, the
missing order of booleans and the error of a mixed comparison are as in Python.
Numbers are integers, texts are sequences of characters. `and` and `or` evaluate all
their arguments, as the code does, so a test for presence does not guard what
follows it. TLC evaluates two groups of laws (`ConnectivesAreStrict`,
`ComparisonsAgree`) over all connectives of a set of leaves and their negations.

*Rules.* A method of the store is one step, since each opens its transaction with
its first statement or, for `reserve_execution`, is the only writer of new rows
(one subscription thread). Whether `verify_rule_package_delivery` refuses the document
of a package is a constant (`Invalid`), but its validity ends with `Expire`, and any
other exception while it is applied - a database error, a clock behind that of the
Core - is a fault before or after the commit. `ItemFails` reports all of them as
failed, as the code does. The outcome of a package on an event is a constant, a pure
function that `MCLocalRules` computes from the package's condition and the event's
state. `TakeEvent` and `ReadDocuments` are
the test of `local_rule_runtime` and its use. The Core supersedes a version when
the next is released and lists only revoked and expired packages as controls, all
of them in every answer. Uploaded rows also go after 1 to 7 days; an event that
is delivered again later than that is outside the model.

## 3. Runs

Bounds of the model (`MaxSequence`, `MaxDropped`, `MaxFaults`, `MaxCrashes`,
`MaxRestarts`, `MaxFailures`, `MaxTakes`, `NumCommands`) cap counters and faults;
all other constants are parameters of the code.

| Run | Question | Bounds, and why they suffice |
|---|---|---|
| `queue` | does the queue keep its contract, and implement `UplinkLog`, when methods are atomic? | sequences to 5, two sizes, 4 bytes: rows expire, are refused, acknowledged in part and numbered again, more than once |
| `threads_all` | what is left of the contract among threads: the file stays well-formed, and the next session repairs the numbering | two enqueuers, a reader, expiry and resume |
| `circuit` | the breaker under its clients: one probe, no stale success, a quiet time before a probe, recovery | two probers, an observer, threshold 2, recovery 2, four failures: permits two generations old |
| `delivery` | does what was accepted arrive, and is nothing lost without evidence, while no row expires and only the upload loop recovers the session? | two events, a snapshot, two faults, a restart, batches of two |
| `delivery_all` | are receipts and sessions right, and is every item behind a failed upload or a restart a replay, with expiry at any time and two loops in recovery? | the same with one fault |
| `delivery_lost_in_flight` | does the document's sentence about drops hold for the whole way up? (no) | as small as shows it |
| `commands` | what "executed" tells, one verdict, the order in which calls are sent, and an answer to every command, with calls carried out whenever it pleases Home Assistant | three commands for one light, the third refused, batches of two, two faults, a crash: a batch boundary inside and outside, two attempts of each acknowledgement |
| `rules` | at most one action, always a record; packages that were not reported failed and evidence converge | two versions of a rule and a package of another that fails verification, an event delivered twice, a fault, a crash, one refused item and room for two in an upload |
| `rules_full` | what may a full table lose? | a table of two rows for three executions of two events, each delivered twice |
| `session` | does a refresh keep the session, does a session come back, is a stop prompt, and does a quiet one free the lease? | heartbeat and one other loop beside the main thread, one fault, one stop or crash, tokens and sessions enough that none in use is issued again; a third loop gives the same results in 664,000 states |
| `bootstrap` | is an identity enrolled once, what ends a device that waits for its user, does a bound one go live? | two faults, two stops or crashes, every configuration at every start, a right and a wrong triple, a clock that goes wrong and is set right, a fresh and an older identity |
| `bootstrap_torn` | does the waiting device always go live once it is bound? (no) | one crash |

Every property of a passing run has a mutant of the code (a definition beside the
one it replaces, marked "Mutant") that the run refutes.

### Where code and documents disagree

1. *Lost in flight* (`delivery_lost_in_flight`). The queue expires while an upload
   is under way; new rows get the same numbers, and the receipt deletes them
   without drop evidence (`docs/architecture-boundary.md:50`).
2. *Torn identity* (`bootstrap_torn`). `_prepare_provisioned` writes the connector
   id with `save_activation` and the credential id with `save_binding_state`. A
   process that dies in between finds a connector id at the next start, takes the
   identity for enrolled, and ends with `HUB_IDENTITY_NOT_ENROLLED`; so does every
   start after it. The comment at `runtime.py:206` promises polling until the
   device goes live. An answer of state ready without a credential id ends in the
   same way, though `runtime.py:311` leaves it to the next poll.

3. *Clock skew* (`WaitsForBinding` in `bootstrap`, as a statement of what the code
   does). The docstring of `HubActivationError` (`core_client.py:28`) counts clock skew
   among the failures for which backing off and retrying is right; `_activation_error`
   (`core_client.py:639-640`) makes it a terminal 400, and the process ends. The
   property therefore lists a wrong clock among what may end a waiting device. With the
   container's restarts the device does come back once the clock is right.

Orders that the models contain, that no run states as a property of its own, and
that TLC shows when asked:

* *Gap among threads* (`UplinkThreads`). `enqueue` reads the next sequence, an
  expiry in another thread empties the queue before the insert, and the row lands
  behind a hole, against `docs/architecture-boundary.md:44`. `ResumeRepairs` is the
  way back: the next session's cursor removes any such tail.
* *Uncounted loss* (`UplinkThreads`). Two threads in `_record_drop` write the same
  sum; a row inserted between the count and the DELETE of an expiry, or refused by
  the primary key, goes uncounted.
* *Lost reconciliation* (`UplinkDelivery`). A drop during the collection of a
  snapshot is cleared by `mark_reconciliation_queued` afterwards.
* *Early session* (`UplinkDelivery`). `_establish_session` publishes the session
  before it synchronizes the queue with its cursor, and the upload loop may use it
  in between: with `OthersRecover = TRUE` the run `delivery` violates
  `NoSilentLoss`, which is why it is FALSE there.
* *Late call* (`CommandDelivery`). A service call that ran into its timeout
  (`ha_client.py:95-119`) may be carried out after the command was reported, and after
  the call of a newer command for the same light, which it then undoes. Its readback
  may also find the light in the goal state because somebody else put it there.
  `CallsKeepOrder` and `ExecutedWasAccepted` speak of what the connector decides: the
  order of sending, and an accepted call.
* *Failed for a moment* (`LocalRules`). `runtime.py:794` reports a package as failed
  on any exception. The Core, as modelled, then does not offer it again, so a
  released package that can be verified stays inactive after a database error or
  while the clock lags; `PackagesConverge` leaves out the packages reported failed.
* *Revoked meanwhile* (`LocalRules`). `process_event` works from the documents it
  read at its start, so an execution may begin of a package a control has removed.
* *Lease left behind* (`HubSession`). The repository's `README.md:89-90` says a stop
  disconnects so that a restart does not wait for the old lease. It does when all is
  well (`QuietStopFreesLease`). A stop between a refresh and its rebind disconnects
  with a token the session is not bound to, and the Core refuses; a stop during a
  recovery sets the session to None, which the guard of `_recover_session` takes
  for a session to replace, and the one it opens is never closed.
* *Waiting for oneself* (`HubSession`). A loop in recovery waits for the lease of a
  session of its own process; if another loop has rebound that session in the
  meantime, its heartbeats keep the lease alive, and the waiting loop waits on.
* *Stop before binding* (`Bootstrap`). The comment at `runtime.py:859-861` expects
  `prepare` to return only when bound; after a stop it returns unbound, and the
  process ends with `HUB_DATA_PLANE_CLOSED`.
* *Blocked evidence* (`LocalRules`). Refused evidence stays pending and oldest; a
  hundred such rows leave no room for the rest. And a full table may prune a
  reservation from before a crash, so `ActedOnce` and `ActedOnRecord` are checked
  with a table that does not fill.

`docs/architecture-boundary.md:82-86` still says that a 403 for a token binding
mismatch does not lead to recovery; `_invalid_session_detail` includes it, and
`HubSession` follows the code.

### Fairness

Weak fairness only. The container restarts a process that ended, and a lease that is
not renewed runs out. The loops never end and sleep a bounded time (`while not
self.stop_event.is_set()`), every request has a timeout, so a loop that can take
a step takes one. The clock runs (`Tick`). The Core eventually answers a request
it does not lose, and a command is issued only by its own choice. Faults,
crashes, failures and time-outs are bounded and have no fairness: liveness says
what happens once they cease. Nothing forces an event, a release or an expiry.

## 4. Theorems

For every value of the constants that satisfies the named assumptions, that is,
for any number of threads, rows, commands, packages, faults and crashes. Each
argument is an inductive invariant `IInv`: it holds at first, every step keeps
it, and it implies the property. TLC checked each one on the instances of section
3 before it was proved.

*Store* (`UplinkQueueStoreProofs`, from `SizeAssumption` and `LimitAssumption`
on payloads, sizes and limits). Lemmas about functions from file to file, in layers: what a
function changes (`...Effect`); that it takes a `Sound` file, one numbered without
a gap from the cursor on, to a sound one; and that it is `Accounted`: a row that is
gone was acknowledged, or counted with the reconciliation flag up. They hold
wherever these functions are used, among threads and in the whole delivery too.
Two more layers rest on soundness. The bytes of a file are a sum over its rows, a fold:
that its recursive function exists, that the order of the rows does not matter
(`SumTakesAny`) and that fewer rows weigh no more (`SumShrinks`) is each shown by
taking a smallest set of rows that would refute it. A method keeps the file `Within`
its limit because `enqueue` inserts only what still fits (`OfferWithin`). And the
payloads of a file in order (`TailOf`) change, method by method, as the log of
`UplinkLog` may (`LogStep`).

*Queue* (`UplinkQueueProofs`). `QueueTyped`, `QueueHasNoGap`,
`QueueLosesNothingUncounted`, `QueueWithinByteLimit`: `TypeOK` is `Numbered(queue)`,
finitely many rows under natural numbers, and `IInv` is `TypeOK /\ NoGap`, inductive only as a whole, since to append without a gap needs the type of `next`, and to count the rows an
expiry gives up needs that they are a finite run. The byte limit is inductive on top
of it. `QueueImplementsLog`: each method
is a step of `UplinkLog` or a stutter under the mapping that reads the log off the
rows; enqueue with an expiry inside is one step of the log as well.

*Threads* (`UplinkQueueProofs`, last section). `ThreadsTyped`, `ResumeRepairsNumbering`. Of the
gapless run nothing survives the interleavings but `Numbered`, so `ThreadsIInv` is
`ThreadsTypeOK` and that the item a method brings along is one. From any such file `synchronize_with_server_cursor` makes a
sound one (`SynchronizeRepairs`).

*Circuit* (`CircuitBreakerProofs`, from `CircuitAssumption` and
`ClientAssumption`): `CircuitInvariant`, `CircuitTyped`,
`HalfOpenCircuitHasOneOwner`, `StaleSuccessIsIgnored`, `ProbesWaitForQuiet`, for
any number of threads. None of the three properties is inductive. The single
owner needs that an open circuit has outlived every permit `allow` gave, since
the failure that opened it began a generation (`OpenOutlivesPermits`). The stale
success needs that a permit of the current generation has seen no failure
(`CurrentSawNoFailure`). The quiet probe needs that the time since opening never
exceeds the time without a failure, which holds because a circuit that is not
closed has its failures at the threshold, so that each further failure opens it
anew (`QuietSinceOpened`).

*Delivery* (`UplinkDeliveryProofs`). `DeliveryTyped` and
`AcknowledgedOnlyIngested` from `Base` and `CursorsKnown`: every cursor under way, in
an answer, a session or the file, is at most the length of the ledger.
`DeliveryImplementsLog` and `DeliveryWithinByteLimit` carry the queue's contract into
the system around it: each step of a loop uses at most one method of the queue, with
a payload, a set of sequences or a cursor of its own choosing (`NextUsesMethods`), and
`Base` keeps the file sound, so with faults, crashes and recoveries the file is still
a log within its limit.
`LiveSessionKept` adds `Sessions`: the session a loop in recovery found invalid is
one that was opened once and is no longer the Core's. `RealtimeOnlyOnce` adds
`Fence`: an item is in one place only, and a doubted one, handed to HTTP before or
queued when an upload failed or a process died, is marked as attempted if it is still
queued, and sent as a replay if it is loaded. So no item behind a failed batch travels
in real time. `NoSilentLossWithoutExpiry` adds
`Agreement`: the ledger and the queue behind it are one log, and every request
under way is a piece of it. It is
stated for `~Expires` and `~OthersRecover` only, and for these constants the run
`delivery` checks it; without the first the code loses rows (finding 1), and
without the second the session is in use before the queue follows it (*Early
session* above).

*Commands* (`CommandDeliveryProofs`). `CommandsTyped`, `ResultEndsCalls`,
`VerdictsAgree`, `ExecutedIsAccepted`, `CallsInOrder` (of sending). A batch is a prefix of the
commands without a verdict, in the order of issue (`Claimed`, which needs that the
ranks of a finite set of numbers count it through). A command that had a result
keeps its receipt or is past its deadline (`Results`). What the Core was told is what
the receipt says, or the command is over (`Words`). A readback follows an accepted
call, and so does every "executed" (`Acceptances`). A command called leaves no older
one to call (`Ordered`).

*Rules* (`LocalRulesProofs`). `RulesTyped`; `ReservationOutlivesPruning` and
`EvidenceOutlivesPruning` for a table of any size, from what `_prune` does to a table
with one row per key (`PrunedRows`): the row it drops was uploaded, or none was, and
it is never the one just inserted. `RulesActOnceWhileRecordsAreKept` says that
executions happen once as long as no record is dropped; `RulesActOnce` and
`RulesActOnRecord` that this is so when `MaxRows` is at least the number of
executions there can be, since a table with one row per key then has room. The
run `rules` is such an instance. Without the condition both are false: a pruned
reservation is forgotten.

*Session* (`HubSessionProofs`, from `SessionAssumption`). `SessionTyped`,
`RefreshIsSafe`, `StopFreesLease`. The two properties speak of single moments, a
refusal and the end of the process; `IInv` says what holds all the way there: an
undisturbed process starts and has no session, or has one that is open, closes it,
or has closed it (`Starting`, `Open`, `Closing`, `Closed`), and in each phase where
every thread may be and with which session and token. While the session is open it
is bound to the token in use unless a rebind is under way, and since no refresh
crosses another request, none is judged in between. After a disturbance the phase is
`Open` as soon as all is well again, because the definition of that moment gives it
whole. `Guarded` (a loop opens a session exactly when it holds the lock, and no loop
runs while the start does) holds under disturbance too and is what `SessionTyped`
needs. That the Core can issue a token and a session nobody holds (`FreshExist`)
follows by counting from the sizes assumed of the two sets, and from None being no
thread, token or session.

*Bootstrap* (`BootstrapProofs`, from `BootstrapAssumption`). `BootstrapTyped`,
`EnrolledForGood`, `DeviceWaits`. The invariant says of every point of `prepare`
which identity can be there (`RightPoint`): the path is chosen by the mode on disk,
so no path reaches the writes of another; the Core knows no key but that of the
file (`KeyPinned`), so no activation is rejected as that of a clone, and what ends a
waiting device without its being revoked is its clock, a wrong triple (`Misplaced`) or
a torn identity; and what is taken for
bound is bound at the Core or revoked (`BoundIsBound`).

Model-checked only:

* The laws of conditions: recursive operators.
* All liveness, which the prover does not handle under fairness (it cannot reason
  about ENABLED): `Recovers`, `AcceptedIsDelivered`, `EveryCommandAnswered`,
  `PackagesConverge`, `EvidenceReachesCore`, `SessionComesBack`, `StopIsPrompt`,
  `WholeIdentityGoesLive`.

## 5. Not modelled

* Refusal of the connector's credential or of the contract version in a running
  process: the loops go on failing, as with any 4xx.
* Several connectors with one identity (the Core calls them clones): the lease of
  another is treated as that of an earlier process.
* NaN, infinities, rounding and blanks in conditions; expressions nested deeper
  than two connectives are not among those TLC compares.
* A key that is no longer trusted after a restart, which fails every event.
* Errors of SQLite and of the file system, other than while a rule package is applied:
  the statement that meets one raises, and the loop or process goes on as after any
  exception.
* Home Assistant's own queue of calls: `CarryOut` is arbitrary.
* An idempotency conflict (a second envelope under one command id).
* The circuit in `UplinkDelivery` opens at the first failure and may be probed at
  once; thresholds and times are the subject of `CircuitBreaker`.
* Hashing, signatures, the websocket protocol, snapshot contents, configuration
  parsing, logging: data without a protocol, or plain I/O.

## 6. Plan

Done: the queue and its threads, the circuit, delivery, commands, rules and their
conditions, the session, the bootstrap, and the theorems above on each of them. What would come
next, in order of what the system depends on most:

1. The session of `UplinkDelivery` as an abstraction of `HubSession`.
2. A run of the circuit with Home Assistant failures at heartbeat rate, which
   restart the recovery time of a healthy Core.
3. A signing key that is no longer trusted after a restart.
