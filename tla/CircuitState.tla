----------------------------- MODULE CircuitState -----------------------------
(***************************************************************************)
(* CircuitBreaker of reliability.py as a value: what each of its methods,  *)
(* all of which run under its lock, does to its fields.                    *)
(*                                                                         *)
(* opened_at is kept as openFor, the ticks since then, up to the recovery  *)
(* time, past which the code only asks "long enough"; failure_count stops  *)
(* at the threshold for the same reason.                                   *)
(***************************************************************************)
EXTENDS Integers

CONSTANTS
  Threshold,  \* failure_threshold
  Recovery    \* recovery_seconds, in ticks

ASSUME CircuitAssumption == Threshold \in Nat \ {0} /\ Recovery \in Nat

Closed == [state |-> "closed", failures |-> 0, openFor |-> 0, generation |-> 0]

IsCircuit(b) ==
  /\ DOMAIN b = {"state", "failures", "openFor", "generation"}
  /\ b.state \in {"closed", "open", "half_open"}
  /\ b.failures \in 0..Threshold
  /\ b.openFor \in 0..Recovery
  /\ b.generation \in Nat

Permit == [generation : Nat, probe : BOOLEAN]

\* allow(): whether a permit is given, which one, and the circuit afterwards.
Allows(b) == b.state = "closed" \/ (b.state = "open" /\ b.openFor = Recovery)

AllowPermit(b) == [generation |-> b.generation, probe |-> b.state = "open"]

AfterAllow(b) == IF b.state = "open" THEN [b EXCEPT !.state = "half_open"] ELSE b

\* observe(): a permit to report a success with, never a licence to probe.
ObservePermit(b) == [generation |-> b.generation, probe |-> b.state = "half_open"]

\* Mutant: every success closes the circuit.
AfterAnySuccess(b, permit) ==
  [b EXCEPT !.state = "closed", !.failures = 0, !.openFor = 0]

\* Mutant: closing starts the generations afresh.
AfterSuccessStartsAfresh(b, permit) ==
  IF permit.generation # b.generation THEN b ELSE Closed

\* success(permit): ignored when a failure was recorded since the permit.
AfterSuccess(b, permit) ==
  IF permit.generation # b.generation
    THEN b
    ELSE [b EXCEPT !.state = "closed", !.failures = 0, !.openFor = 0]

\* Mutant: only a closed circuit can open.
FailureIgnoresProbe(b) ==
  LET count == IF b.failures < Threshold THEN b.failures + 1 ELSE Threshold
      opens == b.state = "closed" /\ count = Threshold
  IN  [b EXCEPT !.generation = @ + 1,
                !.failures = count,
                !.state = IF opens THEN "open" ELSE @,
                !.openFor = IF opens THEN 0 ELSE @]

\* Mutant: the recovery time of an open circuit runs on.
FailureKeepsOpenedAt(b) ==
  LET count == IF b.failures < Threshold THEN b.failures + 1 ELSE Threshold
      opens == b.state = "half_open" \/ count = Threshold
  IN  [b EXCEPT !.generation = @ + 1,
                !.failures = count,
                !.state = IF opens THEN "open" ELSE @,
                !.openFor = IF opens /\ b.state # "open" THEN 0 ELSE @]

\* failure(): also restarts the recovery time of a circuit that is open.
AfterFailure(b) ==
  LET count == IF b.failures < Threshold THEN b.failures + 1 ELSE Threshold
      opens == b.state = "half_open" \/ count = Threshold
  IN  [b EXCEPT !.generation = @ + 1,
                !.failures = count,
                !.state = IF opens THEN "open" ELSE @,
                !.openFor = IF opens THEN 0 ELSE @]

\* One tick of the monotonic clock.
AfterTick(b) ==
  IF b.state # "closed" /\ b.openFor < Recovery THEN [b EXCEPT !.openFor = @ + 1] ELSE b

=============================================================================
