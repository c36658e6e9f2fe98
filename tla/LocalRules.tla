------------------------------ MODULE LocalRules ------------------------------
(***************************************************************************)
(* Rule packages and what they do: the rule loop keeps the table of active *)
(* packages in step with IoT Core and uploads execution evidence, the      *)
(* subscription loop runs the packages on every event before it queues the *)
(* event, and both share one SQLite file (rule_store.py, rule_runtime.py,  *)
(* process_rule_packages_once and flush_rule_evidence_once of runtime.py). *)
(*                                                                         *)
(* A method of LocalRuleStore is one step.  Signatures, conditions and     *)
(* actions are data: a package is valid or not, and its outcome on an      *)
(* event is given.  The idempotency key is the pair of the two.  Whatever  *)
(* else keeps a package from being applied - a database error, a clock     *)
(* that is behind - is a fault.                                            *)
(***************************************************************************)
EXTENDS Integers, FiniteSets, SequencesExt

CONSTANTS
  Package, Event,
  RuleOf,       \* the rule a package is a version of
  Invalid,      \* packages verify_rule_package_delivery refuses
  Outcome,      \* Outcome[p, e]: "hit", "skipped", "error" or, of another entity,
                \* "unbound"
  Refused,      \* evidence the Core never accepts
  MaxRows,      \* evidence_max_rows
  UploadLimit,  \* limit of pending_evidence
  MaxTakes,     \* bound of the model: how often one event is delivered
  MaxFaults,    \* bound of the model: failed calls to the Core
  MaxCrashes    \* bound of the model: crashes of the connector

Key == Package \X Event

ASSUME RulesAssumption ==
  /\ RuleOf \in [Package -> Package] /\ Invalid \subseteq Package
  /\ Outcome \in [Key -> {"hit", "skipped", "error", "unbound"}]
  /\ Refused \subseteq Key
  /\ {MaxRows, UploadLimit} \subseteq Nat \ {0}
  /\ {MaxTakes, MaxFaults, MaxCrashes} \subseteq Nat

VARIABLES
  active,   \* the table active_rule_package
  rows,     \* the table local_rule_execution, ordered by created_at
  runtime,  \* whether self.local_rule_runtime is there
  sub,      \* the subscription loop
  loop,     \* the rule loop
  catalog,  \* IoT Core: what it has released and withdrawn, of which released
            \* package it has a receipt, and of which it was told that it failed
  expired,  \* packages whose valid_until has passed
  ledger,   \* IoT Core: the evidence it accepted
  budget,   \* what is left of deliveries, faults and crashes
  calls     \* history: how often the actions of each execution were dispatched

files == <<active, rows>>
core  == <<catalog, ledger>>
vars  == <<files, runtime, sub, loop, core, expired, budget, calls>>

NoSub  == [at |-> "idle", event |-> CHOOSE e \in Event : TRUE, left |-> {}, key |-> <<>>]
NoLoop == [at |-> "claim", controls |-> {}, items |-> {}, sent |-> {}]

Init ==
  /\ active = {} /\ rows = <<>>
  /\ runtime = TRUE
  /\ sub = NoSub /\ loop = NoLoop
  /\ catalog = [released |-> {}, superseded |-> {}, withdrawn |-> {}, answered |-> {},
                failed |-> {}]
  /\ expired = {} /\ ledger = {}
  /\ budget = [takes |-> [e \in Event |-> MaxTakes],
               faults |-> MaxFaults, crashes |-> MaxCrashes]
  /\ calls = [k \in Key |-> 0]

Fault == budget.faults > 0 /\ budget' = [budget EXCEPT !.faults = @ - 1]

Keys(upload) == {rows[i].key : i \in {j \in DOMAIN rows : rows[j].upload = upload}}

Recorded == {rows[i].key : i \in DOMAIN rows}

-----------------------------------------------------------------------------
(* LocalRuleStore.                                                         *)

\* Mutants of Prune: age decides alone; what was inserted goes again.
PruneOldest(rs) == IF Len(rs) <= MaxRows THEN rs ELSE Tail(rs)

PruneNewest(rs) == IF Len(rs) <= MaxRows THEN rs ELSE Front(rs)

\* _prune: past evidence_max_rows the oldest uploaded row goes, or else the
\* oldest row.  Every insert prunes, so there is one row too many at most.
\* Rows that were uploaded a retention time ago are gone for good reason.
Prune(rs) ==
  LET uploaded == {i \in DOMAIN rs : rs[i].upload = "uploaded"}
  IN  IF Len(rs) <= MaxRows THEN rs
      ELSE RemoveAt(rs, IF uploaded = {} THEN 1 ELSE Min(uploaded))

Marked(rs, keys, upload) ==
  [i \in DOMAIN rs |-> IF rs[i].key \in keys THEN [rs[i] EXCEPT !.upload = upload] ELSE rs[i]]

\* Mutant of MarkUploaded: uploaded rows are deleted.
DeleteUploaded(keys) == rows' = SelectSeq(rows, LAMBDA row : row.key \notin keys)

Reserve(k)    == rows' = Prune(Append(rows, [key |-> k, upload |-> "held"]))
Finalize(k)   == rows' = Marked(rows, {k}, "pending")
MarkUploaded(keys) == rows' = Marked(rows, keys, "uploaded")

\* The limit oldest rows that are complete and not uploaded.
PendingEvidence ==
  LET pending(i) == rows[i].upload = "pending"
      older(i)   == Cardinality({j \in 1..(i - 1) : pending(j)})
  IN  {rows[i].key : i \in {j \in DOMAIN rows : pending(j) /\ older(j) < UploadLimit}}

\* The row of the rule is replaced.
ApplyPackage(p) == active' = {q \in active : RuleOf[q] # RuleOf[p]} \cup {p}

-----------------------------------------------------------------------------
(* The subscription loop: enqueue_event and process_event.                 *)

\* An exception leaves enqueue_event, and the event with it; or the event is
\* queued, which is the subject of UplinkDelivery.
LeaveEvent == sub' = NoSub

\* enqueue_event looks whether there is a local rule runtime ...
TakeEvent(e) ==
  /\ sub.at = "idle"
  /\ budget.takes[e] > 0 /\ budget' = [budget EXCEPT !.takes[e] = @ - 1]
  /\ sub' = IF runtime THEN [NoSub EXCEPT !.at = "taken", !.event = e] ELSE NoSub
  /\ UNCHANGED <<files, runtime, loop, core, expired, calls>>

\* ... and then calls what is there by now.  active_documents drops what has
\* expired and returns the rest.
ReadDocuments ==
  /\ sub.at = "taken"
  /\ \/ /\ runtime
        /\ active' = active \ expired
        /\ sub' = [sub EXCEPT !.at = "rules", !.left = active']
     \/ /\ ~runtime
        /\ LeaveEvent /\ UNCHANGED active
  /\ UNCHANGED <<rows, runtime, loop, core, expired, budget, calls>>

\* verify_stored_rule_package raises: the package expired after it was read.
RuleUnverified(p) ==
  /\ sub.at = "rules" /\ p \in sub.left /\ p \in expired
  /\ LeaveEvent
  /\ UNCHANGED <<files, runtime, loop, core, expired, budget, calls>>

\* The package is of another entity, or this execution was reserved before.
RuleSkipped(p) ==
  /\ sub.at = "rules" /\ p \in sub.left /\ p \notin expired
  /\ Outcome[p, sub.event] = "unbound" \/ <<p, sub.event>> \in Recorded
  /\ sub' = [sub EXCEPT !.left = @ \ {p}]
  /\ UNCHANGED <<files, runtime, loop, core, expired, budget, calls>>

\* Mutant of ReserveExecution: a reservation without evidence is taken over.
ReserveIncomplete(p) ==
  LET k == <<p, sub.event>>
  IN  /\ sub.at = "rules" /\ p \in sub.left /\ p \notin expired
      /\ Outcome[k] # "unbound" /\ k \notin Keys("pending") \cup Keys("uploaded")
      /\ Reserve(k)
      /\ sub' = [sub EXCEPT !.at = IF Outcome[k] = "hit" THEN "dispatch" ELSE "finalize",
                            !.left = @ \ {p}, !.key = k]
      /\ UNCHANGED <<active, runtime, loop, core, expired, budget, calls>>

\* evaluate_condition and reserve_execution.
ReserveExecution(p) ==
  LET k == <<p, sub.event>>
  IN  /\ sub.at = "rules" /\ p \in sub.left /\ p \notin expired
      /\ Outcome[k] # "unbound" /\ k \notin Recorded
      /\ Reserve(k)
      /\ sub' = [sub EXCEPT !.at = IF Outcome[k] = "hit" THEN "dispatch" ELSE "finalize",
                            !.left = @ \ {p}, !.key = k]
      /\ UNCHANGED <<active, runtime, loop, core, expired, budget, calls>>

\* _dispatch_actions: a failing action is part of the evidence.
DispatchActions ==
  /\ sub.at = "dispatch"
  /\ calls' = [calls EXCEPT ![sub.key] = @ + 1]
  /\ sub' = [sub EXCEPT !.at = "finalize"]
  /\ UNCHANGED <<files, runtime, loop, core, expired, budget>>

\* finalize_execution raises when the reservation is gone.
FinalizeExecution ==
  /\ sub.at = "finalize"
  /\ IF sub.key \in Recorded
       THEN Finalize(sub.key) /\ sub' = [sub EXCEPT !.at = "rules"]
       ELSE UNCHANGED rows /\ LeaveEvent
  /\ UNCHANGED <<active, runtime, loop, core, expired, budget, calls>>

EventDone ==
  /\ sub.at = "rules" /\ sub.left = {}
  /\ LeaveEvent
  /\ UNCHANGED <<files, runtime, loop, core, expired, budget, calls>>

-----------------------------------------------------------------------------
(* The rule loop: process_rule_packages_once, flush_rule_evidence_once.    *)

\* An exception ends the round.
EndRound == loop' = NoLoop

\* The Core answers with all that is withdrawn and what it has no receipt of.
ClaimPackages ==
  /\ loop.at = "claim"
  /\ loop' = [NoLoop EXCEPT !.at = "controls", !.controls = catalog.withdrawn,
                            !.items = catalog.released \ catalog.answered]
  /\ UNCHANGED <<files, runtime, sub, core, expired, budget, calls>>

\* Mutant of ApplyControl: of the two statuses, "expired" alone is honoured.
ApplyExpiredControl(p) ==
  /\ loop.at = "controls" /\ p \in loop.controls
  /\ active' = active \ ({p} \cap expired)
  /\ loop' = [loop EXCEPT !.controls = @ \ {p}]
  /\ UNCHANGED <<rows, runtime, sub, core, expired, budget, calls>>

ApplyControl(p) ==
  /\ loop.at = "controls" /\ p \in loop.controls
  /\ active' = active \ {p}
  /\ loop' = [loop EXCEPT !.controls = @ \ {p}]
  /\ UNCHANGED <<rows, runtime, sub, core, expired, budget, calls>>

Item(p) == loop.at = "controls" /\ loop.controls = {} /\ p \in loop.items

Verifiable(p) == p \notin Invalid \cup expired

\* One item: verify and apply.
ApplyItem(p) ==
  /\ Item(p) /\ Verifiable(p)
  /\ ApplyPackage(p)
  /\ loop' = [loop EXCEPT !.at = "acknowledge", !.sent = {p}]
  /\ UNCHANGED <<rows, runtime, sub, core, expired, budget, calls>>

\* Any exception, before the package was applied or after, is reported as "failed".
ItemFails(p) ==
  /\ Item(p)
  /\ \/ ~Verifiable(p) /\ UNCHANGED <<active, budget>>
     \/ Verifiable(p) /\ Fault /\ (UNCHANGED active \/ ApplyPackage(p))
  /\ loop' = [loop EXCEPT !.at = "report", !.sent = {p}]
  /\ UNCHANGED <<rows, runtime, sub, core, expired, calls>>

\* acknowledge_rule_package reaches the Core; its answer may get lost.
AcknowledgeItem ==
  LET told == loop.sent \cap catalog.released
  IN  /\ loop.at \in {"acknowledge", "report"}
      /\ catalog' = [catalog EXCEPT !.answered = @ \cup told,
                                    !.failed = IF loop.at = "report" THEN @ \cup told ELSE @]
      /\ \/ /\ loop' = [loop EXCEPT !.at = "controls", !.items = @ \ loop.sent, !.sent = {}]
            /\ UNCHANGED budget
         \/ Fault /\ EndRound
      /\ UNCHANGED <<files, runtime, sub, ledger, expired, calls>>

\* Mutant of ReadEvidence: controls count as progress, and progress comes first.
ReadEvidenceWhenQuiet ==
  /\ loop.at = "controls" /\ loop.controls = {} /\ loop.items = {}
  /\ loop' = IF PendingEvidence = {} \/ catalog.withdrawn # {} THEN NoLoop
             ELSE [NoLoop EXCEPT !.at = "upload", !.sent = PendingEvidence]
  /\ UNCHANGED <<files, runtime, sub, core, expired, budget, calls>>

ReadEvidence ==
  /\ loop.at = "controls" /\ loop.controls = {} /\ loop.items = {}
  /\ loop' = IF PendingEvidence = {} THEN NoLoop
             ELSE [NoLoop EXCEPT !.at = "upload", !.sent = PendingEvidence]
  /\ UNCHANGED <<files, runtime, sub, core, expired, budget, calls>>

\* Mutant of UploadEvidence: the answer is taken for the whole batch.
UploadWithoutVerdicts ==
  /\ loop.at = "upload"
  /\ ledger' = ledger \cup (loop.sent \ Refused)
  /\ \/ /\ loop' = [loop EXCEPT !.at = "mark"]
        /\ UNCHANGED budget
     \/ Fault /\ EndRound
  /\ UNCHANGED <<files, runtime, sub, catalog, expired, calls>>

\* upload_rule_evidence: the Core says of every item whether it accepted it.
\* What it accepted before is a duplicate, and as good.
UploadEvidence ==
  /\ loop.at = "upload"
  /\ ledger' = ledger \cup (loop.sent \ Refused)
  /\ \/ /\ loop' = [loop EXCEPT !.at = "mark", !.sent = @ \ Refused]
        /\ UNCHANGED budget
     \/ Fault /\ EndRound
  /\ UNCHANGED <<files, runtime, sub, catalog, expired, calls>>

MarkEvidence ==
  /\ loop.at = "mark"
  /\ MarkUploaded(loop.sent)
  /\ EndRound
  /\ UNCHANGED <<active, runtime, sub, core, expired, budget, calls>>

\* A request fails before it reaches the Core.
RoundFails ==
  /\ loop.at \in {"claim", "acknowledge", "report", "upload"}
  /\ Fault /\ EndRound
  /\ UNCHANGED <<files, runtime, sub, core, expired, calls>>

-----------------------------------------------------------------------------
(* Session recovery, IoT Core, time, and the machine.                      *)

\* _establish_session takes the old runtime away ...
RuntimeGone ==
  /\ runtime /\ Fault
  /\ runtime' = FALSE
  /\ UNCHANGED <<files, sub, loop, core, expired, calls>>

\* ... and makes a new one.
RuntimeBack ==
  /\ ~runtime
  /\ runtime' = TRUE
  /\ UNCHANGED <<files, sub, loop, core, expired, budget, calls>>

\* A release supersedes what was released for the rule before; controls name
\* revoked and expired packages, and no other.
Release(p) ==
  /\ p \notin catalog.released \cup catalog.superseded \cup catalog.withdrawn
  /\ LET superseded == {q \in catalog.released : RuleOf[q] = RuleOf[p]}
     IN  catalog' = [catalog EXCEPT !.released = (@ \ superseded) \cup {p},
                                    !.superseded = @ \cup superseded,
                                    !.answered = @ \ superseded,
                                    !.failed = @ \ superseded]
  /\ UNCHANGED <<files, runtime, sub, loop, expired, ledger, budget, calls>>

Withdraw(p) ==
  /\ p \in catalog.released \cup catalog.superseded
  /\ catalog' = [catalog EXCEPT !.released = @ \ {p}, !.superseded = @ \ {p},
                                !.answered = @ \ {p}, !.failed = @ \ {p},
                                !.withdrawn = @ \cup {p}]

Revoke(p) ==
  /\ Withdraw(p)
  /\ UNCHANGED <<files, runtime, sub, loop, expired, ledger, budget, calls>>

\* A package that is not valid may as well be revoked.
Expire(p) ==
  /\ p \notin Invalid /\ Withdraw(p)
  /\ expired' = expired \cup {p}
  /\ UNCHANGED <<files, runtime, sub, loop, ledger, budget, calls>>

Crash ==
  /\ budget.crashes > 0 /\ budget' = [budget EXCEPT !.crashes = @ - 1]
  /\ sub' = NoSub /\ loop' = NoLoop
  /\ runtime' = TRUE
  /\ UNCHANGED <<files, core, expired, calls>>

SubscriptionStep ==
  \/ ReadDocuments
  \/ \E p \in Package : RuleUnverified(p) \/ RuleSkipped(p) \/ ReserveExecution(p)
  \/ DispatchActions
  \/ FinalizeExecution
  \/ EventDone

RuleLoopStep ==
  \/ ClaimPackages
  \/ \E p \in Package : ApplyControl(p) \/ ApplyItem(p) \/ ItemFails(p)
  \/ AcknowledgeItem
  \/ ReadEvidence
  \/ UploadEvidence
  \/ MarkEvidence

Next ==
  \/ \E e \in Event : TakeEvent(e)
  \/ SubscriptionStep
  \/ RuleLoopStep
  \/ RoundFails
  \/ RuntimeGone \/ RuntimeBack
  \/ \E p \in Package : Release(p) \/ Revoke(p) \/ Expire(p)
  \/ Crash

\* Both loops run for ever and every call they make ends.
Fairness == WF_vars(SubscriptionStep) /\ WF_vars(RuleLoopStep)

Spec == Init /\ [][Next]_vars /\ Fairness

-----------------------------------------------------------------------------
(* Properties.                                                             *)

\* Type invariant: the two tables, with their primary keys, and the loops.
TypeOK ==
  /\ active \subseteq Package
  /\ \A i, j \in DOMAIN rows : rows[i].key = rows[j].key => i = j
  /\ \A i \in DOMAIN rows :
       rows[i].key \in Key /\ rows[i].upload \in {"held", "pending", "uploaded"}
  /\ sub.at \in {"idle", "taken", "rules", "dispatch", "finalize"}
  /\ loop.at \in {"claim", "controls", "acknowledge", "report", "upload", "mark"}

\* test_local_rule_executes_offline_once_and_replays_evidence: the actions of
\* a rule are dispatched at most once for an event, however often the event
\* comes, and whatever crashes in between.
ActedOnce == \A k \in Key : calls[k] <= 1

\* No action without a record of it that outlives a crash.
ActedOnRecord == \A k \in Key : calls[k] > 0 => k \in Recorded

\* finalize_execution never finds the reservation gone: a full table prunes, but
\* not the row of the execution in progress.
ReservationKept == sub.at \in {"dispatch", "finalize"} => sub.key \in Recorded

\* Evidence the Core does not have leaves the table only when the table is full
\* and holds nothing the Core has.
PruneSparesEvidence ==
  [][LET Left(k) == k \in Recorded /\ k \notin Recorded'
     IN  (\E k \in Key : Left(k) /\ k \notin Keys("uploaded")) =>
           Keys("uploaded") = {} /\ Len(rows) = MaxRows]_vars

\* runtime.py, on controls: "a package that reappears is cleared all the same".
\* Whatever delivery is applied late, or twice, or fails, in the end every released
\* package is active or the Core was told that it failed, and no withdrawn one is
\* active.  A package that failed is not offered again: one fault leaves the rule
\* as it was, or as the package made it, with the Core told "failed" either way.
PackagesConverge ==
  <>[](catalog.released \ catalog.failed \subseteq active /\ active \cap catalog.withdrawn = {})

\* Complete evidence leaves for the Core, again and again until all of it is
\* there, and nothing is marked as uploaded that the Core has not accepted,
\* whatever part of a batch it takes and whichever answer is lost.  Refused
\* evidence stays pending and is sent in every round; as long as it leaves room
\* within UploadLimit, it does not keep the rest back.
EvidenceReachesCore ==
  []<>((Keys("pending") \ Refused) \cup Keys("uploaded") \subseteq ledger)

=============================================================================
