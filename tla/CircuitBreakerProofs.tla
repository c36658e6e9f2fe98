------------------------- MODULE CircuitBreakerProofs -------------------------
(***************************************************************************)
(* For any number of threads, any threshold and any recovery time: a       *)
(* half-open circuit always has exactly one thread whose verdict on it     *)
(* counts, a success that predates a failure never closes the circuit, and *)
(* a probe is preceded by a whole recovery time without a failure.         *)
(*                                                                         *)
(* None is inductive.  The first needs that an open circuit has outlived   *)
(* every permit allow() gave (opening it begins a generation); the second  *)
(* that a permit of the present generation has seen no failure; the third  *)
(* that the recovery time so far is one of quiet.                          *)
(***************************************************************************)
EXTENDS CircuitBreaker, TLAPS

Holds(c) == held[c] # NoPermit

\* allow() handed out nothing in the generation in which the circuit is open.
OpenOutlivesPermits ==
  circuit.state = "open" =>
    \A c \in Prober : Holds(c) => held[c].generation < circuit.generation

\* A permit is current exactly until the first failure after it.
CurrentSawNoFailure ==
  \A c \in Client :
    Holds(c) /\ held[c].generation = circuit.generation => ~failedSince[c]

IInv ==
  /\ TypeOK
  /\ HalfOpenHasOneOwner
  /\ OpenOutlivesPermits
  /\ CurrentSawNoFailure

\* The methods keep the breaker's fields in their types.
LEMMA MethodsTyped ==
  ASSUME NEW b, IsCircuit(b), NEW permit
  PROVE  /\ IsCircuit(AfterAllow(b))
         /\ IsCircuit(AfterSuccess(b, permit))
         /\ IsCircuit(AfterFailure(b))
         /\ IsCircuit(AfterTick(b))
<1>1. IsCircuit(AfterAllow(b))
  BY DEF IsCircuit, AfterAllow
<1>2. IsCircuit(AfterSuccess(b, permit))
  BY CircuitAssumption DEF IsCircuit, AfterSuccess
<1>3. IsCircuit(AfterFailure(b))
  BY CircuitAssumption DEF IsCircuit, AfterFailure
<1>4. IsCircuit(AfterTick(b))
  BY CircuitAssumption DEF IsCircuit, AfterTick
<1>5. QED
  BY <1>1, <1>2, <1>3, <1>4

\* The permits allow() and observe() give are of the present generation.
LEMMA PermitsTyped ==
  ASSUME NEW b, IsCircuit(b)
  PROVE  /\ AllowPermit(b) \in Permit /\ AllowPermit(b).generation = b.generation
         /\ AllowPermit(b).probe = (b.state = "open")
         /\ ObservePermit(b) \in Permit /\ ObservePermit(b).generation = b.generation
  BY DEF IsCircuit, Permit, AllowPermit, ObservePermit

\* A new breaker is closed.
LEMMA InitInv == Init => IInv
<1> SUFFICES ASSUME Init
             PROVE  IInv
  OBVIOUS
<1> USE DEF Init
<1>1. IsCircuit(circuit) /\ circuit.state = "closed"
  BY CircuitAssumption DEF IsCircuit, Closed
<1>2. TypeOK
  BY <1>1, CircuitAssumption DEF TypeOK
<1>3. \A c \in Client : ~Holds(c)
  BY DEF Holds
<1>4. QED
  BY <1>1, <1>2, <1>3
     DEF IInv, HalfOpenHasOneOwner, OpenOutlivesPermits, CurrentSawNoFailure

-----------------------------------------------------------------------------
(* One lemma per kind of step.                                             *)

\* Everything the steps below read of the permits.
LEMMA HeldFacts ==
  ASSUME IInv
  PROVE  /\ IsCircuit(circuit) /\ circuit.generation \in Nat
         /\ \A c \in Client : Holds(c) =>
              /\ held[c] \in Permit
              /\ held[c].generation \in Nat
              /\ held[c].generation <= circuit.generation
         /\ Prober \subseteq Client /\ Observer \subseteq Client
         /\ \A c \in Observer : c \notin Prober
  BY ClientAssumption DEF IInv, TypeOK, IsCircuit, Holds, Permit, Client

\* A thread that gives its permit back keeps the invariant when the circuit
\* is left alone and the permit was not the current probe, or it is closed.
LEMMA GivesBack ==
  ASSUME IInv, NEW c \in Client, Holds(c),
         held' = [held EXCEPT ![c] = NoPermit],
         UNCHANGED <<failedSince, quiet>>,
         \/ UNCHANGED circuit /\ (~held[c].probe \/ held[c].generation # circuit.generation)
         \/ /\ IsCircuit(circuit') /\ circuit'.state = "closed"
            /\ circuit'.generation = circuit.generation
  PROVE  IInv'
<1>1. TypeOK'
  BY DEF IInv, TypeOK
<1>2. held'[c] = NoPermit /\ \A d \in Client \ {c} : held'[d] = held[d]
  BY DEF IInv, TypeOK
<1>3. circuit'.generation = circuit.generation
  OBVIOUS
<1>4. CurrentSawNoFailure'
  BY <1>2, <1>3 DEF IInv, CurrentSawNoFailure, Holds
<1>5. OpenOutlivesPermits'
  BY <1>2, <1>3, HeldFacts DEF IInv, OpenOutlivesPermits, Holds
<1>6. HalfOpenHasOneOwner'
  <2>1. CASE circuit'.state = "closed"
    BY <2>1 DEF HalfOpenHasOneOwner
  <2>2. CASE circuit.state # "half_open" /\ UNCHANGED circuit
    BY <2>2 DEF HalfOpenHasOneOwner
  <2>3. CASE /\ circuit.state = "half_open" /\ UNCHANGED circuit
             /\ ~held[c].probe \/ held[c].generation # circuit.generation
    <3>1. PICK owner \in Prober :
            /\ held[owner] # NoPermit
            /\ held[owner].probe /\ held[owner].generation = circuit.generation
            /\ \A d \in Prober \ {owner} :
                 held[d] # NoPermit => held[d].generation < circuit.generation
      BY <2>3 DEF IInv, HalfOpenHasOneOwner
    <3>2. owner # c
      BY <3>1, <2>3
    <3>3. held'[owner] = held[owner]
      BY <3>2, <1>2, HeldFacts
    <3>4. \A d \in Prober \ {owner} :
            held'[d] # NoPermit => held'[d].generation < circuit'.generation
      BY <3>1, <1>2, <2>3, HeldFacts
    <3>5. QED
      BY <3>1, <3>3, <3>4, <2>3 DEF HalfOpenHasOneOwner
  <2>4. QED
    BY <2>1, <2>2, <2>3
<1>7. QED
  BY <1>1, <1>4, <1>5, <1>6 DEF IInv

\* A failure begins a generation and leaves no circuit half-open.
LEMMA FailureKeepsInv ==
  ASSUME IInv, RecordFailure,
         \/ UNCHANGED held
         \/ \E c \in Client : held' = [held EXCEPT ![c] = NoPermit]
  PROVE  IInv'
<1>1. /\ circuit'.generation = circuit.generation + 1
      /\ circuit'.state # "half_open"
  BY HeldFacts DEF RecordFailure, AfterFailure, IsCircuit
<1>2. IsCircuit(circuit')
  BY HeldFacts, MethodsTyped DEF RecordFailure
<1>3. held' \in [Client -> Permit \cup {NoPermit}]
  BY DEF IInv, TypeOK
<1>4. \A d \in Client : held'[d] = held[d] \/ held'[d] = NoPermit
  BY DEF IInv, TypeOK
<1>5. \A d \in Client : held'[d] # NoPermit =>
        held'[d].generation \in Nat /\ held'[d].generation < circuit'.generation
  BY <1>1, <1>4, HeldFacts DEF Holds
<1>6. TypeOK'
  BY <1>2, <1>3, <1>5, <1>1, HeldFacts, CircuitAssumption DEF TypeOK, RecordFailure
<1>7. OpenOutlivesPermits' /\ CurrentSawNoFailure'
  BY <1>1, <1>5, HeldFacts DEF OpenOutlivesPermits, CurrentSawNoFailure, Holds
<1>8. QED
  BY <1>1, <1>6, <1>7 DEF IInv, HalfOpenHasOneOwner

\* A permit that is granted is of the present generation and has seen nothing.
LEMMA GrantKeepsInv ==
  ASSUME IInv, NEW c \in Client, NEW permit \in Permit, ~Holds(c),
         permit.generation = circuit.generation, Grant(c, permit), UNCHANGED quiet,
         IsCircuit(circuit'), circuit'.generation = circuit.generation,
         \/ UNCHANGED circuit /\ (c \in Observer \/ circuit.state = "closed")
         \/ /\ c \in Prober /\ permit.probe
            /\ circuit.state = "open" /\ circuit'.state = "half_open"
  PROVE  IInv'
<1>1. held'[c] = permit /\ \A d \in Client \ {c} : held'[d] = held[d]
  BY DEF IInv, TypeOK, Grant
<1>2. permit # NoPermit
  BY ClientAssumption
<1>3. TypeOK'
  <2>1. held' \in [Client -> Permit \cup {NoPermit}] /\ failedSince' \in [Client -> BOOLEAN]
    BY DEF IInv, TypeOK, Grant
  <2>2. \A d \in Client : held'[d] # NoPermit => held'[d].generation <= circuit'.generation
    BY <1>1, HeldFacts DEF Holds
  <2>3. QED
    BY <2>1, <2>2 DEF IInv, TypeOK
<1>4. CurrentSawNoFailure'
  BY <1>1 DEF IInv, TypeOK, CurrentSawNoFailure, Grant, Holds
<1>5. CASE UNCHANGED circuit /\ circuit.state = "closed"
  BY <1>3, <1>4, <1>5 DEF IInv, HalfOpenHasOneOwner, OpenOutlivesPermits
<1>6. CASE UNCHANGED circuit /\ c \in Observer
  <2>1. \A d \in Prober : held'[d] = held[d]
    BY <1>1, <1>6, HeldFacts
  <2>2. OpenOutlivesPermits' /\ HalfOpenHasOneOwner'
    BY <2>1, <1>6 DEF IInv, OpenOutlivesPermits, HalfOpenHasOneOwner, Holds
  <2>3. QED
    BY <1>3, <1>4, <2>2 DEF IInv
<1>7. CASE /\ c \in Prober /\ permit.probe
           /\ circuit.state = "open" /\ circuit'.state = "half_open"
  <2>1. \A d \in Prober \ {c} : held'[d] # NoPermit => held'[d].generation < circuit.generation
    BY <1>1, <1>7, HeldFacts DEF IInv, OpenOutlivesPermits, Holds
  <2>2. HalfOpenHasOneOwner'
    BY <2>1, <1>1, <1>2, <1>7 DEF HalfOpenHasOneOwner
  <2>3. QED
    BY <1>3, <1>4, <1>7, <2>2 DEF IInv, OpenOutlivesPermits
<1>8. QED
  BY <1>5, <1>6, <1>7

\* Every call of the breaker keeps its invariant.
LEMMA NextInv == IInv /\ [Next]_vars => IInv'
<1> SUFFICES ASSUME IInv, [Next]_vars
             PROVE  IInv'
  OBVIOUS
<1>1. ASSUME NEW c \in Prober, Allow(c)
      PROVE  IInv'
  <2>1. /\ c \in Client /\ ~Holds(c) /\ IsCircuit(circuit) /\ IsCircuit(circuit')
        /\ Grant(c, AllowPermit(circuit)) /\ UNCHANGED quiet
    BY <1>1, HeldFacts, MethodsTyped DEF Allow, Holds
  <2>2. /\ AllowPermit(circuit) \in Permit
        /\ AllowPermit(circuit).generation = circuit.generation
        /\ AllowPermit(circuit).probe = (circuit.state = "open")
    BY <2>1, PermitsTyped
  <2>3. CASE circuit.state = "closed"
    <3>1. UNCHANGED circuit
      BY <1>1, <2>3 DEF Allow, AfterAllow
    <3>2. QED
      BY <2>1, <2>2, <2>3, <3>1, GrantKeepsInv
  <2>4. CASE circuit.state = "open"
    <3>1. circuit'.state = "half_open" /\ circuit'.generation = circuit.generation
      BY <1>1, <2>1, <2>4 DEF Allow, AfterAllow, IsCircuit
    <3>2. QED
      BY <2>1, <2>2, <2>4, <3>1, GrantKeepsInv
  <2>5. QED
    BY <1>1, <2>3, <2>4 DEF Allow, Allows
<1>2. ASSUME NEW c \in Observer, Observe(c)
      PROVE  IInv'
  <2>1. /\ c \in Client /\ ~Holds(c) /\ IsCircuit(circuit) /\ UNCHANGED <<circuit, quiet>>
        /\ Grant(c, ObservePermit(circuit))
    BY <1>2, HeldFacts DEF Observe, Holds
  <2>2. /\ ObservePermit(circuit) \in Permit
        /\ ObservePermit(circuit).generation = circuit.generation
    BY <2>1, PermitsTyped
  <2>3. QED
    BY <2>1, <2>2, GrantKeepsInv
<1>3. ASSUME NEW c \in Client, Success(c)
      PROVE  IInv'
  <2>1. /\ Holds(c) /\ held' = [held EXCEPT ![c] = NoPermit]
        /\ UNCHANGED <<failedSince, quiet>> /\ IsCircuit(circuit)
    BY <1>3, HeldFacts DEF Success, Holds
  <2>2. CASE held[c].generation # circuit.generation
    <3>1. UNCHANGED circuit
      BY <1>3, <2>2 DEF Success, AfterSuccess
    <3>2. QED
      BY <2>1, <2>2, <3>1, GivesBack
  <2>3. CASE held[c].generation = circuit.generation
    <3>1. /\ IsCircuit(circuit') /\ circuit'.state = "closed"
          /\ circuit'.generation = circuit.generation
      BY <1>3, <2>1, <2>3, MethodsTyped DEF Success, AfterSuccess, IsCircuit
    <3>2. QED
      BY <2>1, <3>1, GivesBack
  <2>4. QED
    BY <2>2, <2>3
<1>4. ASSUME NEW c \in Prober, Abandon(c)
      PROVE  IInv'
  <2>1. /\ c \in Client /\ Holds(c) /\ held' = [held EXCEPT ![c] = NoPermit]
        /\ UNCHANGED <<failedSince, quiet>> /\ UNCHANGED circuit /\ ~held[c].probe
    BY <1>4, HeldFacts DEF Abandon, Holds
  <2>2. QED
    BY <2>1, GivesBack
<1>5. ASSUME NEW c \in Client, Failure(c)
      PROVE  IInv'
  BY <1>5, FailureKeepsInv DEF Failure
<1>6. CASE OtherFailure
  BY <1>6, FailureKeepsInv DEF OtherFailure
<1>7. CASE Tick
  <2>1. /\ IsCircuit(circuit') /\ circuit'.state = circuit.state
        /\ circuit'.generation = circuit.generation /\ UNCHANGED <<held, failedSince>>
    BY <1>7, HeldFacts, MethodsTyped DEF Tick, AfterTick, IsCircuit
  <2>2. quiet' \in 0..Recovery
    BY <1>7, CircuitAssumption DEF IInv, TypeOK, Tick
  <2>3. TypeOK'
    BY <2>1, <2>2 DEF IInv, TypeOK
  <2>4. HalfOpenHasOneOwner' /\ OpenOutlivesPermits' /\ CurrentSawNoFailure'
    BY <2>1 DEF IInv, HalfOpenHasOneOwner, OpenOutlivesPermits, CurrentSawNoFailure, Holds
  <2>5. QED
    BY <2>3, <2>4 DEF IInv
<1>8. CASE UNCHANGED vars
  BY <1>8 DEF vars, IInv, TypeOK, HalfOpenHasOneOwner, OpenOutlivesPermits,
              CurrentSawNoFailure, Holds
<1>9. QED
  BY <1>1, <1>2, <1>3, <1>4, <1>5, <1>6, <1>7, <1>8 DEF Next

-----------------------------------------------------------------------------
(* Theorems.                                                               *)

\* The inductive invariant holds in every behaviour of the breaker.
THEOREM CircuitInvariant == Spec => []IInv
  BY InitInv, NextInv, PTL DEF Spec

\* The breaker's fields and every permit keep their types, and no permit is
\* from a generation still to come.
THEOREM CircuitTyped == Spec => []TypeOK
<1>1. IInv => TypeOK
  BY DEF IInv
<1>2. QED
  BY <1>1, CircuitInvariant, PTL

\* A half-open circuit, which admits nobody, always has exactly one prober
\* whose verdict on it will count.
THEOREM HalfOpenCircuitHasOneOwner == Spec => []HalfOpenHasOneOwner
<1>1. IInv => HalfOpenHasOneOwner
  BY DEF IInv
<1>2. QED
  BY <1>1, CircuitInvariant, PTL

\* Only the holder of a permit that saw no failure closes the circuit.
LEMMA ClosedByCurrentPermit ==
  IInv /\ [Next]_vars =>
    (circuit'.state = "closed" /\ circuit.state # "closed" =>
       \E c \in Client : held[c] # NoPermit /\ held'[c] = NoPermit /\ ~failedSince[c])
<1> SUFFICES ASSUME IInv, [Next]_vars,
                    circuit'.state = "closed", circuit.state # "closed"
             PROVE  \E c \in Client :
                      held[c] # NoPermit /\ held'[c] = NoPermit /\ ~failedSince[c]
  OBVIOUS
<1>1. IsCircuit(circuit)
  BY HeldFacts
<1>2. ASSUME NEW c \in Client, Success(c)
      PROVE  held[c] # NoPermit /\ held'[c] = NoPermit /\ ~failedSince[c]
  <2>1. held[c] # NoPermit /\ held'[c] = NoPermit
    BY <1>2 DEF Success, IInv, TypeOK
  <2>2. held[c].generation = circuit.generation
    BY <1>2 DEF Success, AfterSuccess
  <2>3. QED
    BY <2>1, <2>2 DEF IInv, CurrentSawNoFailure, Holds
<1>3. ASSUME NEW c \in Prober, Allow(c) \/ Abandon(c)
      PROVE  FALSE
  BY <1>1, <1>3 DEF Allow, Abandon, AfterAllow, IsCircuit
<1>4. ASSUME NEW c \in Observer, Observe(c)
      PROVE  FALSE
  BY <1>4 DEF Observe
<1>5. ASSUME RecordFailure
      PROVE  FALSE
  BY <1>1, <1>5 DEF RecordFailure, AfterFailure, IsCircuit
<1>6. ASSUME Tick
      PROVE  FALSE
  BY <1>1, <1>6 DEF Tick, AfterTick, IsCircuit
<1>7. CASE UNCHANGED vars
  BY <1>7 DEF vars
<1>8. QED
  BY <1>2, <1>3, <1>4, <1>5, <1>6, <1>7 DEF Next, Failure, OtherFailure

\* A success that predates a failure of any thread never closes the circuit,
\* in no interleaving and for no number of threads.
THEOREM StaleSuccessIsIgnored == Spec => StaleSuccessNeverCloses
<1>1. IInv /\ [Next]_vars =>
        [circuit'.state = "closed" /\ circuit.state # "closed" =>
           \E c \in Client :
             held[c] # NoPermit /\ held'[c] = NoPermit /\ ~failedSince[c]]_vars
  BY ClosedByCurrentPermit
<1>2. QED
  BY <1>1, CircuitInvariant, PTL DEF Spec, StaleSuccessNeverCloses

-----------------------------------------------------------------------------
(* The recovery time.  A failure of an open circuit restarts it only        *)
(* because the count is still at the threshold, where success alone resets  *)
(* it: without the first conjunct the second is not inductive.              *)

QuietSinceOpened ==
  /\ circuit.state # "closed" => circuit.failures = Threshold
  /\ circuit.state # "closed" => circuit.openFor <= quiet

\* A new breaker has not been opened.
LEMMA InitQuiet == Init => QuietSinceOpened
  BY DEF Init, Closed, QuietSinceOpened

\* No call of the breaker breaks the quiet period.
LEMMA NextQuiet == IInv /\ QuietSinceOpened /\ [Next]_vars => QuietSinceOpened'
<1> SUFFICES ASSUME IInv, QuietSinceOpened, [Next]_vars
             PROVE  QuietSinceOpened'
  OBVIOUS
<1>1. IsCircuit(circuit) /\ quiet \in 0..Recovery
  BY HeldFacts DEF IInv, TypeOK
<1>2. ASSUME NEW c \in Prober, Allow(c)
      PROVE  QuietSinceOpened'
  BY <1>1, <1>2 DEF QuietSinceOpened, Allow, Allows, AfterAllow, IsCircuit
<1>3. ASSUME NEW c \in Client, Success(c)
      PROVE  QuietSinceOpened'
  BY <1>1, <1>3 DEF QuietSinceOpened, Success, AfterSuccess, IsCircuit
<1>4. ASSUME UNCHANGED <<circuit, quiet>>
      PROVE  QuietSinceOpened'
  BY <1>4 DEF QuietSinceOpened
<1>5. ASSUME RecordFailure
      PROVE  QuietSinceOpened'
  <2>1. CASE circuit.state = "closed"
    BY <1>1, <1>5, <2>1, CircuitAssumption
       DEF QuietSinceOpened, RecordFailure, AfterFailure, IsCircuit
  <2>2. CASE circuit.state # "closed"
    BY <1>1, <1>5, <2>2, CircuitAssumption
       DEF QuietSinceOpened, RecordFailure, AfterFailure, IsCircuit
  <2>3. QED
    BY <2>1, <2>2
<1>6. CASE Tick
  BY <1>1, <1>6, CircuitAssumption DEF QuietSinceOpened, Tick, AfterTick, IsCircuit
<1>7. QED
  BY <1>2, <1>3, <1>4, <1>5, <1>6
     DEF Next, Observe, Abandon, Failure, OtherFailure, vars

\* While the circuit is open its recovery time is one without failures.
THEOREM CircuitStaysQuiet == Spec => [](IInv /\ QuietSinceOpened)
  BY InitInv, NextInv, InitQuiet, NextQuiet, PTL DEF Spec

\* A probe starts only after a whole recovery time without any failure,
\* whoever reported it.
THEOREM ProbesWaitForQuiet == Spec => ProbeOnlyAfterQuiet
<1>1. IInv /\ QuietSinceOpened /\ [Next]_vars =>
        (circuit'.state = "half_open" /\ circuit.state # "half_open" => quiet = Recovery)
  <2> SUFFICES ASSUME IInv, QuietSinceOpened, [Next]_vars,
                      circuit'.state = "half_open", circuit.state # "half_open"
               PROVE  quiet = Recovery
    OBVIOUS
  <2>1. IsCircuit(circuit) /\ quiet \in 0..Recovery
    BY HeldFacts DEF IInv, TypeOK
  <2>2. ASSUME NEW c \in Prober, Allow(c)
        PROVE  quiet = Recovery
    BY <2>1, <2>2, CircuitAssumption DEF QuietSinceOpened, Allow, Allows, AfterAllow
  <2>3. ASSUME NEW c \in Client, Success(c)
        PROVE  FALSE
    BY <2>1, <2>3 DEF Success, AfterSuccess, IsCircuit
  <2>4. ASSUME RecordFailure
        PROVE  FALSE
    BY <2>1, <2>4 DEF RecordFailure, AfterFailure, IsCircuit
  <2>5. ASSUME Tick
        PROVE  FALSE
    BY <2>1, <2>5 DEF Tick, AfterTick, IsCircuit
  <2>6. QED
    BY <2>2, <2>3, <2>4, <2>5 DEF Next, Observe, Abandon, Failure, OtherFailure, vars
<1>2. IInv /\ QuietSinceOpened /\ [Next]_vars =>
        [circuit'.state = "half_open" /\ circuit.state # "half_open" => quiet = Recovery]_vars
  BY <1>1
<1>3. QED
  BY <1>2, CircuitStaysQuiet, PTL DEF Spec, ProbeOnlyAfterQuiet

=============================================================================
