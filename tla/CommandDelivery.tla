---------------------------- MODULE CommandDelivery ----------------------------
(***************************************************************************)
(* Commands on their way down: IoT Core hands them out until it has a      *)
(* verdict, the command loop executes them one after the other against     *)
(* Home Assistant and keeps a receipt of each (command_executor.py,        *)
(* command_store.py, process_commands_once of runtime.py).                 *)
(*                                                                         *)
(* The command loop is one thread and the receipts are its own, so a step  *)
(* is what happens between two moments at which the process may die or     *)
(* the world may change: a receipt committed, a call to Home Assistant or  *)
(* an acknowledgement sent or answered.  A command is a number, in the     *)
(* order in which the Core issued it; its envelope is a light and a goal.  *)
(* What Home Assistant does with a call that was sent is its own affair:   *)
(* it carries the call out before or after it answers, or never.           *)
(***************************************************************************)
EXTENDS Integers, Sequences, FiniteSets

CONSTANTS
  NumCommands,     \* bound of the model: commands the Core issues
  Light,
  LightOf, GoalOf, \* the light and the goal state of each command
  NotAllowlisted,  \* commands whose envelope validate_command_envelope refuses
  ClaimLimit,      \* limit of claim_commands
  MaxAttempts,     \* retry_max_attempts
  MaxFaults,       \* bound of the model: faults of Home Assistant and network
  MaxCrashes       \* bound of the model: crashes of the connector

Command  == 1..NumCommands
State    == {"on", "off"}
Terminal == {"executed", "failed", "timeout"}

ASSUME CommandAssumption ==
  /\ {NumCommands, MaxFaults, MaxCrashes} \subseteq Nat
  /\ LightOf \in [Command -> Light] /\ GoalOf \in [Command -> State]
  /\ NotAllowlisted \subseteq Command
  /\ {ClaimLimit, MaxAttempts} \subseteq Nat \ {0}

VARIABLES
  receipts,  \* status in the command_receipt table, "none" without a row
  old,       \* the rows older than retention_seconds
  loop,      \* the command loop
  light,     \* Home Assistant: the state of each light
  issued,    \* IoT Core: how many commands it has issued
  verdicts,  \* IoT Core: every status it received of each command
  expired,   \* the commands whose deadline_at has passed
  network,   \* acknowledgements the Core has not received
  budget,    \* what is left of faults and crashes
  calls,     \* history: service calls of each command that were sent
  accepted,  \* history: commands of which a call was answered with success
  settled    \* history: commands that ever had a terminal receipt

core  == <<issued, verdicts>>
store == <<receipts, old, settled>>
past  == <<calls, accepted>>
vars  == <<store, loop, light, core, expired, network, budget, past>>

\* What saving a receipt and moving on leaves alone.
outside == <<light, core, expired, network, budget, past>>

Idle == [at |-> "idle", batch |-> <<>>, status |-> "none", tries |-> 0]

Init ==
  /\ receipts = [c \in Command |-> "none"] /\ old = {} /\ settled = {}
  /\ loop = Idle
  /\ light \in [Light -> State]
  /\ issued = 0 /\ verdicts = [c \in Command |-> {}]
  /\ expired = {}
  /\ network = {}
  /\ budget = [faults |-> MaxFaults, crashes |-> MaxCrashes]
  /\ calls = [c \in Command |-> 0] /\ accepted = {}

Spend(what) == budget[what] > 0 /\ budget' = [budget EXCEPT ![what] = @ - 1]

At(point) == loop.at = point

\* The command being processed.
Current == Head(loop.batch)

\* An exception leaves process_commands_once with the rest of the batch.
Abort == loop' = Idle

\* The loop has its answer and takes the next command of its batch.
NextInBatch ==
  loop' = IF Len(loop.batch) = 1
            THEN Idle
            ELSE [Idle EXCEPT !.at = "execute", !.batch = Tail(loop.batch)]

-----------------------------------------------------------------------------
(* claim_commands.                                                         *)

Unanswered == {c \in 1..issued : verdicts[c] = {}}

\* The oldest commands the Core has no verdict on, in the order of their issue.
ClaimedBatch ==
  LET rank(c) == Cardinality({d \in Unanswered : d <= c})
      size    == Cardinality({c \in Unanswered : rank(c) <= ClaimLimit})
  IN  [i \in 1..size |-> CHOOSE c \in Unanswered : rank(c) = i]

Claim ==
  /\ At("idle") /\ Unanswered # {}
  /\ loop' = [Idle EXCEPT !.at = "execute", !.batch = ClaimedBatch]
  /\ UNCHANGED <<store, light, core, expired, network, budget, past>>

-----------------------------------------------------------------------------
(* execute, up to the service call.                                        *)

\* validate_command_envelope raises before there is a receipt.
RejectEnvelope ==
  /\ At("execute") /\ Current \in NotAllowlisted
  /\ Abort
  /\ UNCHANGED <<store, light, core, expired, network, budget, past>>

\* The envelope of the current command is allowed.
Executing == At("execute") /\ Current \notin NotAllowlisted

\* CommandReceiptStore.get prunes before it reads.
Kept == [c \in Command |-> IF c \in old THEN "none" ELSE receipts[c]]

\* CommandReceiptStore.save of the current command.
Save(status) ==
  /\ receipts' = [Kept EXCEPT ![Current] = status]
  /\ old' = {}
  /\ settled' = IF status \in Terminal THEN settled \cup {Current} ELSE settled

\* The status execute returns is what is acknowledged next.
Result(status) == loop' = [loop EXCEPT !.at = "acknowledge", !.status = status, !.tries = 0]

SaveResult(status) == Save(status) /\ Result(status)

\* Mutant: any receipt is returned, not only a terminal one.
ReuseAnyReceipt ==
  /\ Executing
  /\ Kept[Current] # "none"
  /\ receipts' = Kept /\ old' = {} /\ UNCHANGED settled
  /\ Result(Kept[Current])
  /\ UNCHANGED outside

\* Mutant: a command that has its receipt is taken for acknowledged.
ReuseWithoutAcknowledging ==
  /\ Executing
  /\ Kept[Current] \in Terminal
  /\ receipts' = Kept /\ old' = {} /\ UNCHANGED settled
  /\ NextInBatch
  /\ UNCHANGED outside

ReuseReceipt ==
  /\ Executing
  /\ Kept[Current] \in Terminal
  /\ receipts' = Kept /\ old' = {} /\ UNCHANGED settled
  /\ Result(Kept[Current])
  /\ UNCHANGED outside

\* Mutant: the deadline is checked before the receipt.
DeadlineBeforeReceipt ==
  /\ Executing
  /\ Current \in expired
  /\ SaveResult("timeout")
  /\ UNCHANGED outside

DeadlineExpired ==
  /\ Executing
  /\ Kept[Current] \notin Terminal
  /\ Current \in expired
  /\ SaveResult("timeout")
  /\ UNCHANGED outside

\* Mutant: the receipt is not looked at.
AcceptWithoutReceipt ==
  /\ Executing
  /\ Current \notin expired
  /\ Save("accepted")
  /\ loop' = [loop EXCEPT !.at = "call"]
  /\ UNCHANGED outside

\* Mutant: a command that was accepted before is only read back.
AcceptResumes ==
  /\ Executing
  /\ Kept[Current] \notin Terminal
  /\ Current \notin expired
  /\ Save("accepted")
  /\ loop' = [loop EXCEPT !.at = IF Kept[Current] = "accepted" THEN "readback" ELSE "call"]
  /\ UNCHANGED outside

Accept ==
  /\ Executing
  /\ Kept[Current] \notin Terminal
  /\ Current \notin expired
  /\ Save("accepted")
  /\ loop' = [loop EXCEPT !.at = "call"]
  /\ UNCHANGED outside

-----------------------------------------------------------------------------
(* call_service and the readback.                                          *)

SendCall ==
  /\ At("call")
  /\ calls' = [calls EXCEPT ![Current] = @ + 1]
  /\ loop' = [loop EXCEPT !.at = "answer"]
  /\ UNCHANGED <<store, light, core, expired, network, budget, accepted>>

\* Home Assistant answers the call with success.
CallAccepted ==
  /\ At("answer")
  /\ accepted' = accepted \cup {Current}
  /\ loop' = [loop EXCEPT !.at = "readback"]
  /\ UNCHANGED <<store, light, core, expired, network, budget, calls>>

\* call_service raises TimeoutError or anything else, before the call is sent or
\* while it waits for the answer.
CallFails ==
  /\ loop.at \in {"call", "answer"} /\ Spend("faults")
  /\ SaveResult("timeout") \/ SaveResult("failed")
  /\ UNCHANGED <<light, core, expired, network, past>>

ReadbackConfirmed ==
  /\ At("readback") /\ light[LightOf[Current]] = GoalOf[Current]
  /\ SaveResult("executed")
  /\ UNCHANGED outside

\* _wait_for_readback gives up, after five seconds or at the deadline.
ReadbackTimeout ==
  /\ At("readback")
  /\ SaveResult("timeout")
  /\ UNCHANGED outside

\* Mutant: the loop goes on with the next command.
ReadbackErrorSkips ==
  /\ At("readback") /\ Spend("faults")
  /\ NextInBatch
  /\ UNCHANGED <<store, light, core, expired, network, past>>

\* read_entity_state raises, and nothing in execute catches it.
ReadbackError ==
  /\ At("readback") /\ Spend("faults")
  /\ Abort
  /\ UNCHANGED <<store, light, core, expired, network, past>>

-----------------------------------------------------------------------------
(* acknowledge_command, under retry_bounded.                               *)

SendAcknowledgement ==
  /\ At("acknowledge")
  /\ network' = network \cup {<<Current, loop.status>>}
  /\ loop' = [loop EXCEPT !.at = "wait", !.tries = @ + 1]
  /\ UNCHANGED <<store, light, core, expired, budget, past>>

\* The request fails: it was lost, or the Core is slower than the client's
\* timeout and may receive it yet.
AcknowledgementFails ==
  /\ At("wait")
  /\ IF <<Current, loop.status>> \in network THEN Spend("faults") ELSE UNCHANGED budget
  /\ IF loop.tries < MaxAttempts THEN loop' = [loop EXCEPT !.at = "acknowledge"] ELSE Abort
  /\ UNCHANGED <<store, light, core, expired, network, past>>

-----------------------------------------------------------------------------
(* IoT Core, Home Assistant, time and the machine (external).              *)

Issue ==
  /\ issued < NumCommands
  /\ issued' = issued + 1
  /\ UNCHANGED <<store, loop, light, verdicts, expired, network, budget, past>>

\* The Core receives an acknowledgement; the loop hears of it if it waits.
CoreReceives(m) ==
  /\ m \in network
  /\ network' = network \ {m}
  /\ verdicts' = [verdicts EXCEPT ![m[1]] = @ \cup {m[2]}]
  /\ \/ At("wait") /\ m = <<Current, loop.status>> /\ NextInBatch
     \/ ~(At("wait") /\ m = <<Current, loop.status>>) /\ UNCHANGED loop
  /\ UNCHANGED <<store, light, issued, expired, budget, past>>

\* The request is lost for good.
Lost(m) ==
  /\ m \in network /\ Spend("faults")
  /\ network' = network \ {m}
  /\ UNCHANGED <<store, loop, light, core, expired, past>>

\* Home Assistant carries out a call that was sent, also one it has not answered
\* or was given up long ago, after a newer one, or again.
CarryOut(c) ==
  /\ calls[c] > 0
  /\ light' = [light EXCEPT ![LightOf[c]] = GoalOf[c]]
  /\ UNCHANGED <<store, loop, core, expired, network, budget, past>>

\* Somebody else switches the light.
Switch(l) ==
  /\ \E s \in State \ {light[l]} : light' = [light EXCEPT ![l] = s]
  /\ UNCHANGED <<store, loop, core, expired, network, budget, past>>

DeadlinePasses(c) ==
  /\ c <= issued
  /\ expired' = expired \cup {c}
  /\ UNCHANGED <<store, loop, light, core, network, budget, past>>

\* retention_seconds pass: longer than any deadline, than the loop is at one
\* batch, and than any request spends in the network.
RetentionPasses ==
  /\ network = {} /\ At("idle")
  /\ old' = {c \in Command : receipts[c] # "none"}
  /\ expired' = 1..issued
  /\ UNCHANGED <<receipts, settled, loop, light, core, network, budget, past>>

Crash ==
  /\ Spend("crashes")
  /\ loop' = Idle
  /\ UNCHANGED <<store, light, core, expired, network, past>>

LoopStep ==
  \/ Claim
  \/ RejectEnvelope \/ ReuseReceipt \/ DeadlineExpired \/ Accept
  \/ SendCall \/ CallAccepted \/ CallFails
  \/ ReadbackConfirmed \/ ReadbackTimeout \/ ReadbackError
  \/ SendAcknowledgement \/ AcknowledgementFails

Next ==
  \/ LoopStep
  \/ Issue
  \/ \E m \in network : CoreReceives(m) \/ Lost(m)
  \/ \E l \in Light : Switch(l)
  \/ \E c \in Command : CarryOut(c) \/ DeadlinePasses(c)
  \/ RetentionPasses
  \/ Crash

\* The command loop runs for ever and the network delivers what it keeps.  A
\* request that was lost ends in the client's timeout.
Fairness ==
  /\ WF_vars(LoopStep)
  /\ WF_vars(\E m \in network : CoreReceives(m))

Spec == Init /\ [][Next]_vars /\ Fairness

-----------------------------------------------------------------------------
(* Properties.                                                             *)

\* Type invariant: receipts hold the statuses execute saves, and the loop is
\* at one of its statements with a batch to process.
TypeOK ==
  /\ receipts \in [Command -> Terminal \cup {"none", "accepted"}]
  /\ loop.at \in {"idle", "execute", "call", "answer", "readback", "acknowledge", "wait"}
  /\ loop.batch \in Seq(Command) /\ (At("idle") <=> loop.batch = <<>>)
  /\ loop.tries \in 0..MaxAttempts
  /\ network \subseteq Command \X Terminal
  /\ verdicts \in [Command -> SUBSET Terminal]
  /\ light \in [Light -> State]

\* test_command_redelivery_reuses_terminal_receipt_without_duplicate_side_effect,
\* for every crash, retry and redelivery: once a command has had a result no
\* call of it is sent to Home Assistant any more, also after its receipt was pruned.
NoCallAfterResult ==
  [][\A c \in Command : calls'[c] # calls[c] => c \notin settled]_vars

\* All that the Core receives, or has yet to receive, of one command agrees,
\* whichever of several attempts, processes and deliveries it is from.
OneVerdict ==
  \A c \in Command :
    Cardinality(verdicts[c] \cup {s \in Terminal : <<c, s>> \in network}) <= 1

\* The Core is told "executed" only of a command of which Home Assistant answered
\* a call with success, whatever crash or redelivery came between the call and the
\* readback.  That the call changed the light is more than the code knows: the
\* readback asks what the light is, not who switched it.
ExecutedWasAccepted ==
  \A c \in Command : "executed" \in verdicts[c] => c \in accepted

\* An older command is never sent after a newer one for its light, so a redelivery
\* does not ask Home Assistant to undo what was asked for later.  A call that was
\* given up may still be carried out late (CarryOut): that order is not the
\* connector's to keep.
CallsKeepOrder ==
  [][\A c, d \in Command :
       calls'[c] # calls[c] /\ c < d /\ LightOf[c] = LightOf[d] => calls[d] = 0]_vars

\* The Core gets a verdict on every command, once faults and crashes stop.
\* One envelope that is refused ends this for the commands behind it: the
\* batch is given up without a word and claimed again for ever.
EveryCommandAnswered ==
  \A c \in Command :
    (1..c) \cap NotAllowlisted = {} => (issued >= c ~> verdicts[c] # {})

=============================================================================
