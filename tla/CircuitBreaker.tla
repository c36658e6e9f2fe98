---------------------------- MODULE CircuitBreaker ----------------------------
(***************************************************************************)
(* The circuit breaker and the connector's threads around it.  The upload  *)
(* loop asks allow() before it talks to the Core and reports a verdict     *)
(* later; a thread that recovers the session observes the circuit first    *)
(* and reports a success against what it observed; the maintenance and     *)
(* inventory loops only ever report failures.                              *)
(***************************************************************************)
EXTENDS CircuitState

CONSTANTS
  Prober,      \* threads that call allow()
  Observer,    \* threads that call observe()
  NoPermit,
  MaxFailures  \* bound of the model: how many failures are recorded

ASSUME ClientAssumption ==
  /\ Prober \cap Observer = {}
  /\ NoPermit \notin Permit
  /\ MaxFailures \in Nat

VARIABLES
  circuit,      \* the breaker's fields
  held,         \* the permit each thread holds
  failedSince,  \* history: a failure was recorded since that permit was given
  quiet         \* history: ticks since the last recorded failure

vars == <<circuit, held, failedSince, quiet>>

Client == Prober \cup Observer

Init ==
  /\ circuit = Closed
  /\ held = [c \in Client |-> NoPermit]
  /\ failedSince = [c \in Client |-> FALSE]
  /\ quiet = 0

Grant(c, permit) ==
  /\ held' = [held EXCEPT ![c] = permit]
  /\ failedSince' = [failedSince EXCEPT ![c] = FALSE]

Allow(c) ==
  /\ held[c] = NoPermit
  /\ Allows(circuit)
  /\ Grant(c, AllowPermit(circuit))
  /\ circuit' = AfterAllow(circuit)
  /\ UNCHANGED quiet

Observe(c) ==
  /\ held[c] = NoPermit
  /\ Grant(c, ObservePermit(circuit))
  /\ UNCHANGED <<circuit, quiet>>

Success(c) ==
  /\ held[c] # NoPermit
  /\ circuit' = AfterSuccess(circuit, held[c])
  /\ held' = [held EXCEPT ![c] = NoPermit]
  /\ UNCHANGED <<failedSince, quiet>>

\* Mutant: flush_once with nothing to send drops any permit, a probe too.
AbandonProbe(c) ==
  /\ held[c] # NoPermit
  /\ held' = [held EXCEPT ![c] = NoPermit]
  /\ UNCHANGED <<circuit, failedSince, quiet>>

\* flush_once with nothing to send: a permit that is no probe is dropped.
\* A probe always ends in a verdict (_complete_half_open_probe).
Abandon(c) ==
  /\ held[c] # NoPermit
  /\ ~held[c].probe
  /\ held' = [held EXCEPT ![c] = NoPermit]
  /\ UNCHANGED <<circuit, failedSince, quiet>>

RecordFailure ==
  /\ circuit.generation < MaxFailures
  /\ circuit' = AfterFailure(circuit)
  /\ failedSince' = [c \in Client |-> TRUE]
  /\ quiet' = 0

Failure(c) ==
  /\ held[c] # NoPermit
  /\ RecordFailure
  /\ held' = [held EXCEPT ![c] = NoPermit]

\* A loop that never asked for a permit reports its own failure.
OtherFailure == RecordFailure /\ UNCHANGED held

Tick ==
  /\ circuit' = AfterTick(circuit)
  /\ quiet' = IF quiet < Recovery THEN quiet + 1 ELSE quiet
  /\ UNCHANGED <<held, failedSince>>

Next ==
  \/ \E c \in Prober : Allow(c) \/ Abandon(c)
  \/ \E c \in Observer : Observe(c)
  \/ \E c \in Client : Success(c) \/ Failure(c)
  \/ OtherFailure
  \/ Tick

\* The upload loop keeps asking, every call it makes ends (the HTTP client has
\* a timeout), and the clock runs.
Fairness ==
  /\ WF_vars(Tick)
  /\ \A c \in Prober : WF_vars(Allow(c))
  /\ \A c \in Client : WF_vars(Success(c) \/ Failure(c))

Spec == Init /\ [][Next]_vars /\ Fairness

-----------------------------------------------------------------------------
(* Properties.                                                             *)

\* Type invariant: the breaker's fields and the permits have their types, and
\* no permit is from a generation still to come.
TypeOK ==
  /\ IsCircuit(circuit)
  /\ held \in [Client -> Permit \cup {NoPermit}]
  /\ failedSince \in [Client -> BOOLEAN]
  /\ quiet \in 0..Recovery
  /\ \A c \in Client : held[c] # NoPermit => held[c].generation <= circuit.generation

\* A half-open circuit lets nobody in, so it must have a prober whose verdict
\* will still count: allow() gives the probe away at most once, and a verdict
\* that ends it always leaves the half-open state.
HalfOpenHasOneOwner ==
  circuit.state = "half_open" =>
    \E c \in Prober :
      /\ held[c] # NoPermit
      /\ held[c].probe /\ held[c].generation = circuit.generation
      /\ \A d \in Prober \ {c} :
           held[d] # NoPermit => held[d].generation < circuit.generation

\* test_stale_half_open_success_does_not_overwrite_concurrent_failure, for all
\* interleavings: a success closes the circuit only if no failure was recorded,
\* by any thread, since its permit was given.
StaleSuccessNeverCloses ==
  [][circuit'.state = "closed" /\ circuit.state # "closed" =>
       \E c \in Client : held[c] # NoPermit /\ held'[c] = NoPermit /\ ~failedSince[c]]_vars

\* A probe starts only after a whole recovery time without any failure.
ProbeOnlyAfterQuiet ==
  [][circuit'.state = "half_open" /\ circuit.state # "half_open" => quiet = Recovery]_vars

\* Once failures stop, the circuit closes again: no combination of stale
\* permits, lost probes and restarted recovery times leaves it open for good.
Recovers == []<>(circuit.state = "closed")

=============================================================================
