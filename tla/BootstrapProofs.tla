--------------------------- MODULE BootstrapProofs ---------------------------
(***************************************************************************)
(* Proofs about the start of the process (Bootstrap), for every set of     *)
(* keys, with and without the credential in the answer to an activation,   *)
(* and for every number of faults, stops and crashes.                      *)
(*                                                                         *)
(* The invariant says what the place in prepare tells about the identity   *)
(* on disk and about the Core: before an enrollment is saved there is      *)
(* none, the Core has pinned no other key than the one on disk, and a      *)
(* device that is on disk as bound is bound, or was revoked since.         *)
(***************************************************************************)
EXTENDS Bootstrap, FiniteSetTheorems, TLAPS

Identity == [key : Key \cup {None}, mode : Mode \cup {None},
             enrolled : BOOLEAN, connector : BOOLEAN, credential : BOOLEAN,
             binding : Binding \cup {None}]

Retried == {"activate", "check", "authenticate"}

Proc == [at : Retried \cup {"start", "answered", "bound", "exchange", "exchanged", "wait",
                            "prepared", "live"},
         binding : Binding, id : Identity, answer : Answer, to : Retried \cup {None}]

Device == [device : Binding \cup {"revoked"}, key : Key \cup {None},
           enrollment : {"offered", "pending", "approved", "rejected"}]

Typed ==
  /\ file \in Identity /\ proc \in Proc /\ core \in Device
  /\ stop \in BOOLEAN
  /\ proc.at # "start" => power = "up" /\ proc.id = file

\* The process is at a request, or waits to repeat it.
Towards(point) == proc.at = point \/ (proc.at = "wait" /\ proc.to = point)

\* An identity that is enrolled has a key, and the Core knows no other.
KeyPinned ==
  /\ file.connector \/ proc.at # "start" => file.key # None
  /\ core.key \in {None, file.key}

\* Activation and pairing are of an identity that is not enrolled; the check of
\* an enrollment is of a paired one.
RightPoint ==
  /\ Towards("activate") \/ proc.at \in {"answered", "exchange", "exchanged"}
       => ~file.connector
  /\ Towards("check") => file.mode # "device_secret"
  /\ proc.at = "bound" => file.connector
  /\ proc.at = "wait" => proc.to \in Retried

\* What is taken for bound is bound, unless it was revoked since.
BoundIsBound ==
  /\ proc.at = "answered" => /\ proc.answer.binding \in Binding
                             /\ proc.answer.connector = (proc.answer.binding = "ready")
                             /\ proc.answer.connector => core.device \in {"ready", "revoked"}
  /\ file.connector /\ file.mode = "device_secret" => core.device \in {"ready", "revoked"}

\* The gate of the data plane is open, unless the process is to stop.
GateOpen ==
  /\ Towards("authenticate") \/ proc.at = "bound" => proc.binding = "ready"
  /\ proc.at = "prepared" => stop \/ proc.binding = "ready"

IInv == Typed /\ KeyPinned /\ RightPoint /\ BoundIsBound /\ GateOpen

-----------------------------------------------------------------------------
(* Identities.                                                             *)

\* load_or_create can always generate a key that nobody knows yet.
LEMMA FreshKey == \A k : \E fresh \in Key : fresh # k
<1> SUFFICES ASSUME NEW k, \A fresh \in Key : fresh = k
             PROVE  FALSE
  OBVIOUS
<1>1. Key \subseteq {k}
  OBVIOUS
<1>2. IsFiniteSet({k}) /\ Cardinality({k}) = 1
  BY FS_Singleton
<1>3. Cardinality(Key) <= Cardinality({k})
  BY <1>1, <1>2, FS_Subset
<1>4. Cardinality(Key) > 2 /\ Cardinality(Key) \in Nat
  BY BootstrapAssumption, FS_CardinalityType
<1>5. QED
  BY <1>2, <1>3, <1>4

\* load_or_create gives an identity a key, and never another one.
LEMMA WithKeyEffect ==
  ASSUME NEW id \in Identity
  PROVE  /\ WithKey(id) \in Identity /\ WithKey(id).key # None
         /\ id.key # None => WithKey(id) = id
         /\ \A f \in {"mode", "enrolled", "connector", "credential", "binding"} :
              WithKey(id)[f] = id[f]
<1>1. PICK k \in Key : k = CHOOSE fresh \in Key : fresh # core.key
  BY FreshKey
<1>2. k # None
  BY BootstrapAssumption
<1>3. QED
  BY <1>1, <1>2 DEF WithKey, Identity

\* save_activation takes nothing from the identity on disk but its mode and the
\* state of its binding.
LEMMA ActivationSaved ==
  ASSUME file \in Identity, NEW b \in Binding, NEW v \in BOOLEAN
  PROVE  LET id == Merged(Join([mode |-> "device_secret", binding |-> b],
                               Present("connector", v)))
         IN  /\ id \in Identity
             /\ id.key = file.key /\ id.mode = "device_secret" /\ id.binding = b
             /\ id.connector = (v \/ file.connector)
             /\ id.credential = file.credential /\ id.enrolled = file.enrolled
  BY DEF Merged, Join, Present, Identity, Blank, Mode, Binding

\* save_binding_state adds the connector and the credential.
LEMMA BindingSaved ==
  ASSUME file \in Identity, NEW v \in BOOLEAN
  PROVE  LET id == Merged(Join([binding |-> "ready", connector |-> TRUE],
                               Present("credential", v)))
         IN  /\ id \in Identity
             /\ id.key = file.key /\ id.mode = file.mode /\ id.connector
             /\ id.credential = (v \/ file.credential) /\ id.enrolled = file.enrolled
  BY DEF Merged, Join, Present, Identity, Blank, Mode, Binding

\* save_exchange makes the identity a paired and enrolled one.
LEMMA ExchangeSaved ==
  ASSUME file \in Identity
  PROVE  LET id == Merged([mode |-> "pairing_code", enrolled |-> TRUE, connector |-> TRUE,
                           credential |-> TRUE, binding |-> "ready"])
         IN  /\ id \in Identity
             /\ id.key = file.key /\ id.mode = "pairing_code"
             /\ id.connector /\ id.credential /\ id.enrolled
  BY DEF Merged, Identity, Blank, Mode, Binding

\* prepare activates or pairs only what is not enrolled, checks only what is
\* paired, and finds fault only with a paired identity or none.
LEMMA PointOf ==
  ASSUME NEW id \in Identity
  PROVE  /\ StartingPoint(id) \in {"authenticate", "check", "invalid", "activate",
                                   "exchange", "unpaired"}
         /\ StartingPoint(id) \in {"activate", "exchange", "unpaired"} => ~id.connector
         /\ StartingPoint(id) \in {"check", "invalid"} => id.mode # "device_secret"
  BY DEF StartingPoint, Identity

-----------------------------------------------------------------------------
(* The invariant.                                                          *)

\* The first process finds an empty identity or one of an older version.
LEMMA InitInv == Init => IInv
<1> SUFFICES ASSUME Init
             PROVE  IInv
  OBVIOUS
<1>0. /\ file \in {Blank, Legacy} /\ proc = Started /\ stop = FALSE
      /\ core = [device |-> "awaiting_activation", key |-> None,
                 enrollment |-> IF file = Legacy THEN "approved" ELSE "offered"]
  BY DEF Init
<1>1. None \notin Key /\ None \notin Mode
  BY BootstrapAssumption
<1>2. Blank \in Identity /\ Blank.mode = None /\ Blank.connector = FALSE
  BY DEF Blank, Identity
<1>3. Legacy \in Identity /\ Legacy.mode = None /\ Legacy.key \in Key
  <2> DEFINE k == CHOOSE k \in Key : TRUE
  <2>1. k \in Key
    BY FreshKey
  <2>2. Legacy = [Blank EXCEPT !.key = k, !.enrolled = TRUE,
                               !.connector = TRUE, !.credential = TRUE]
    BY Zenon DEF Legacy
  <2> HIDE DEF k
  <2>3. QED
    BY <2>1, <2>2, <1>2 DEF Identity
<1>4. Started \in Proc /\ Started.at = "start"
  BY DEF Started, Proc, Blank, Identity, NoAnswer, Answer, Binding, Retried
<1>5. core \in Device /\ core.key = None
  BY <1>0 DEF Device, Binding
<1>6. /\ file \in Identity /\ file.mode = None /\ (file.connector => file.key # None)
  BY <1>0, <1>1, <1>2, <1>3
<1>7. Typed
  BY <1>0, <1>4, <1>5, <1>6 DEF Typed
<1>8. QED
  BY <1>0, <1>1, <1>4, <1>5, <1>6, <1>7
     DEF IInv, KeyPinned, RightPoint, BoundIsBound, GateOpen, Towards, Mode

\* An ended process leaves the invariant of the identity and the Core.
LEMMA EndInv ==
  ASSUME IInv, UNCHANGED <<file, core>>, proc' = Started, stop' = FALSE
  PROVE  IInv'
<1>1. Started \in Proc
  BY DEF Started, Proc, Blank, Identity, NoAnswer, Answer, Binding, Retried
<1>2. QED
  BY <1>1 DEF IInv, Typed, KeyPinned, RightPoint, BoundIsBound, GateOpen, Towards, Started

\* Every step of the process and of its surroundings keeps the invariant.
LEMMA NextInv == IInv /\ [Next]_vars => IInv'
<1> SUFFICES ASSUME IInv, [Next]_vars
             PROVE  IInv'
  OBVIOUS
<1> USE DEF IInv, Towards
<1>0. /\ file \in Identity /\ proc \in Proc /\ core \in Device /\ stop \in BOOLEAN
      /\ None \notin Key
  BY BootstrapAssumption DEF Typed
<1>1. CASE Prepare
  <2> DEFINE id == WithKey(file)
             point == StartingPoint(id)
  <2>1. /\ id \in Identity /\ id.key # None /\ (file.key # None => id = file)
        /\ id.mode = file.mode /\ id.connector = file.connector
    BY <1>0, WithKeyEffect
  <2>2. /\ point \in {"activate", "exchange", "unpaired"} => ~id.connector
        /\ point \in {"check", "invalid"} => id.mode # "device_secret"
        /\ point \in {"authenticate", "check", "invalid", "activate", "exchange", "unpaired"}
    BY <2>1, PointOf
  <2>3. file' = id /\ core' = core /\ proc.at = "start" /\ power = "up"
    BY <1>1 DEF Prepare, At
  <2>4. core.key \in {None, id.key}
    BY <2>1 DEF KeyPinned
  <2>5. CASE proc' = Started /\ stop' = FALSE
    <3>1. Started \in Proc
      BY DEF Started, Proc, Blank, Identity, NoAnswer, Answer, Binding, Retried
    <3>2. Typed'
      BY <1>0, <2>1, <2>3, <2>5, <3>1 DEF Typed, Started
    <3>3. KeyPinned'
      BY <2>1, <2>3, <2>4 DEF KeyPinned
    <3>4. RightPoint' /\ BoundIsBound' /\ GateOpen'
      BY <2>1, <2>3, <2>5 DEF RightPoint, BoundIsBound, GateOpen, Started
    <3>5. QED
      BY <3>2, <3>3, <3>4
  <2>6. CASE /\ point \notin {"invalid", "unpaired"}
             /\ proc' = [proc EXCEPT !.at = point, !.id = id,
                            !.binding = IF point = "authenticate" THEN "ready" ELSE @]
             /\ UNCHANGED <<stop, power>>
    <3> HIDE DEF id, point
    <3>1. /\ proc' \in Proc /\ proc'.at = point /\ proc'.id = id
          /\ proc'.binding = IF point = "authenticate" THEN "ready" ELSE proc.binding
      BY <1>0, <2>1, <2>2, <2>6 DEF Proc, Binding, Retried
    <3>2. Typed'
      BY <1>0, <2>1, <2>3, <2>6, <3>1 DEF Typed
    <3>3. KeyPinned'
      BY <2>1, <2>3, <2>4 DEF KeyPinned
    <3>4. RightPoint' /\ BoundIsBound' /\ GateOpen'
      BY <2>1, <2>2, <2>3, <2>6, <3>1 DEF RightPoint, BoundIsBound, GateOpen
    <3>5. QED
      BY <3>2, <3>3, <3>4
  <2>7. QED
    BY <1>1, <2>5, <2>6 DEF Prepare, End
<1>2. CASE Activate
  <2>1. /\ proc.at = "activate" /\ power = "up" /\ file' = file /\ proc.id = file
        /\ ~file.connector /\ file.key # None
    BY <1>2 DEF Activate, At, Typed, RightPoint, KeyPinned
  <2>2. core.device # "revoked"
    BY <1>2 DEF Activate, Rejections, HasGround
  <2>3. core' = [core EXCEPT !.key = proc.id.key,
                   !.device = IF @ = "awaiting_activation" THEN "awaiting_binding" ELSE @]
    BY <1>2 DEF Activate
  <2>4. core' \in Device /\ core'.device \in Binding /\ core'.key = file.key
    BY <1>0, <2>1, <2>2, <2>3 DEF Device, Binding, Identity
  <2>5. \/ /\ proc' = [proc EXCEPT !.at = "answered",
               !.answer = [binding |-> core'.device, connector |-> core'.device = "ready",
                           credential |-> core'.device = "ready" /\ CredentialInAnswer]]
           /\ UNCHANGED <<stop, power>>
        \/ Wait("activate")
    BY <1>2 DEF Activate
  <2>6. /\ proc' \in Proc /\ proc'.id = file /\ proc'.binding = proc.binding
        /\ \/ /\ proc'.at = "answered" /\ proc'.answer.binding = core'.device
              /\ proc'.answer.connector = (core'.device = "ready")
           \/ proc'.at = "wait" /\ proc'.to = "activate"
        /\ UNCHANGED <<stop, power>>
    <3>1. CASE Wait("activate")
      BY <1>0, <2>1, <3>1 DEF Proc, Retried, Wait
    <3>2. CASE ~Wait("activate")
      <4> DEFINE b == core'.device
                 a == [binding |-> b, connector |-> b = "ready",
                       credential |-> b = "ready" /\ CredentialInAnswer]
      <4>1. b \in Binding /\ CredentialInAnswer \in BOOLEAN
        BY <2>4, BootstrapAssumption
      <4>2. proc' = [proc EXCEPT !.at = "answered", !.answer = a] /\ UNCHANGED <<stop, power>>
        BY <2>5, <3>2
      <4> HIDE DEF b
      <4>3. a \in Answer /\ a.binding = b /\ a.connector = (b = "ready")
        BY <4>1 DEF Answer
      <4> HIDE DEF a
      <4>4. /\ proc' \in Proc /\ proc'.id = proc.id /\ proc'.binding = proc.binding
            /\ proc'.at = "answered" /\ proc'.answer = a
        BY <1>0, <4>2, <4>3 DEF Proc
      <4>5. QED
        BY <2>1, <4>2, <4>3, <4>4 DEF b
    <3>3. QED
      BY <3>1, <3>2
  <2>7. Typed' /\ KeyPinned'
    BY <1>0, <2>1, <2>4, <2>6 DEF Typed, KeyPinned
  <2>8. RightPoint' /\ BoundIsBound' /\ GateOpen'
    BY <2>1, <2>4, <2>6 DEF RightPoint, BoundIsBound, GateOpen, Retried
  <2>9. QED
    BY <2>7, <2>8
<1>3. CASE SaveActivation
  <2> DEFINE id == Merged(Join([mode |-> "device_secret", binding |-> proc.answer.binding],
                               Present("connector", proc.answer.connector)))
  <2>1. /\ proc.at = "answered" /\ power = "up" /\ UNCHANGED <<core, stop, power>> /\ file' = id
        /\ proc.answer.binding \in Binding /\ proc.answer.connector \in BOOLEAN
        /\ proc.answer.connector = (proc.answer.binding = "ready")
        /\ proc.answer.connector => core.device \in {"ready", "revoked"}
        /\ ~file.connector /\ file.key # None
    BY <1>0, <1>3 DEF SaveActivation, At, BoundIsBound, RightPoint, KeyPinned, Proc, Answer
  <2>2. /\ id \in Identity /\ id.key = file.key /\ id.mode = "device_secret"
        /\ id.connector = proc.answer.connector
    BY <1>0, <2>1, ActivationSaved
  <2>3. \/ /\ proc' = [proc EXCEPT !.at = "bound", !.id = file', !.binding = "ready"]
           /\ proc.answer.connector
        \/ /\ proc' = [proc EXCEPT !.at = "wait", !.to = "activate", !.id = file',
                                    !.binding = proc.answer.binding]
           /\ ~proc.answer.connector
    BY <1>3, <2>1 DEF SaveActivation
  <2> HIDE DEF id
  <2>4. /\ proc' \in Proc /\ proc'.id = file'
        /\ \/ proc'.at = "bound" /\ proc'.binding = "ready" /\ id.connector
           \/ proc'.at = "wait" /\ proc'.to = "activate" /\ ~id.connector
    BY <1>0, <2>1, <2>2, <2>3 DEF Proc, Binding, Retried
  <2>5. Typed' /\ KeyPinned'
    BY <1>0, <2>1, <2>2, <2>4 DEF Typed, KeyPinned
  <2>6. RightPoint' /\ BoundIsBound' /\ GateOpen'
    BY <2>1, <2>2, <2>4 DEF RightPoint, BoundIsBound, GateOpen, Retried
  <2>7. QED
    BY <2>5, <2>6
<1>4. CASE SaveBindingState
  <2> DEFINE id == Merged(Join([binding |-> "ready", connector |-> TRUE],
                               Present("credential", proc.answer.credential)))
  <2>1. /\ proc.at = "bound" /\ power = "up" /\ UNCHANGED <<core, stop, power>> /\ file' = id
        /\ proc' = [proc EXCEPT !.at = "authenticate", !.id = file']
        /\ proc.answer.credential \in BOOLEAN
        /\ proc.binding = "ready" /\ file.connector /\ file.key # None
    BY <1>0, <1>4 DEF SaveBindingState, At, RightPoint, KeyPinned, GateOpen, Proc, Answer
  <2>2. /\ id \in Identity /\ id.key = file.key /\ id.mode = file.mode /\ id.connector
    BY <1>0, <2>1, BindingSaved
  <2> HIDE DEF id
  <2>3. /\ proc' \in Proc /\ proc'.at = "authenticate" /\ proc'.id = file'
        /\ proc'.binding = "ready"
    BY <1>0, <2>1, <2>2 DEF Proc, Retried
  <2>4. Typed' /\ KeyPinned'
    BY <1>0, <2>1, <2>2, <2>3 DEF Typed, KeyPinned
  <2>5. RightPoint' /\ BoundIsBound' /\ GateOpen'
    BY <2>1, <2>2, <2>3 DEF RightPoint, BoundIsBound, GateOpen
  <2>6. QED
    BY <2>4, <2>5
<1>5. CASE Exchange
  <2>1. proc.at = "exchange" /\ UNCHANGED file /\ power = "up"
    BY <1>5 DEF Exchange, At
  <2>2. /\ core' \in Device /\ core'.key = core.key /\ core'.device = core.device
        /\ \/ proc' = Started /\ stop' = FALSE
           \/ /\ proc' = [proc EXCEPT !.at = "exchanged"] /\ UNCHANGED <<stop, power>>
    BY <1>0, <1>5 DEF Exchange, Go, End, Device
  <2>3. Started \in Proc
    BY DEF Started, Proc, Blank, Identity, NoAnswer, Answer, Binding, Retried
  <2>4. /\ proc' \in Proc /\ stop' \in BOOLEAN
        /\ \/ proc'.at = "start"
           \/ proc'.at = "exchanged" /\ proc'.id = proc.id /\ power' = power
    <3>1. CASE proc' = Started /\ stop' = FALSE
      BY <2>3, <3>1 DEF Started
    <3>2. CASE proc' = [proc EXCEPT !.at = "exchanged"] /\ UNCHANGED <<stop, power>>
      BY <1>0, <3>2 DEF Proc
    <3>3. QED
      BY <2>2, <3>1, <3>2
  <2>5. Typed' /\ KeyPinned'
    BY <2>1, <2>2, <2>4 DEF Typed, KeyPinned
  <2>6. RightPoint' /\ BoundIsBound' /\ GateOpen'
    BY <2>1, <2>2, <2>4 DEF RightPoint, BoundIsBound, GateOpen
  <2>7. QED
    BY <2>5, <2>6
<1>6. CASE SaveExchange
  <2> DEFINE id == Merged([mode |-> "pairing_code", enrolled |-> TRUE, connector |-> TRUE,
                           credential |-> TRUE, binding |-> "ready"])
  <2>1. /\ proc.at = "exchanged" /\ power = "up" /\ UNCHANGED <<core, stop, power>> /\ file' = id
        /\ proc' = [proc EXCEPT !.at = "check", !.id = file'] /\ file.key # None
    BY <1>6 DEF SaveExchange, At, KeyPinned
  <2>2. id \in Identity /\ id.key = file.key /\ id.mode = "pairing_code" /\ id.connector
    BY <1>0, ExchangeSaved
  <2> HIDE DEF id
  <2>3. proc' \in Proc /\ proc'.at = "check" /\ proc'.id = file'
    BY <1>0, <2>1, <2>2 DEF Proc, Retried
  <2>4. Typed' /\ KeyPinned'
    BY <1>0, <2>1, <2>2, <2>3 DEF Typed, KeyPinned
  <2>5. RightPoint' /\ BoundIsBound' /\ GateOpen'
    BY <2>1, <2>2, <2>3 DEF RightPoint, BoundIsBound, GateOpen
  <2>6. QED
    BY <2>4, <2>5
<1>7. CASE CheckEnrollment \/ Authenticate \/ OpenDataPlane \/ WaitOver \/ StopSeen
           \/ RequestFails \/ Crash \/ \E r \in Rejections : RejectActivation(r)
  <2>0. UNCHANGED <<file, core>>
    BY <1>7 DEF CheckEnrollment, Authenticate, OpenDataPlane, WaitOver, StopSeen,
                RequestFails, Crash, RejectActivation
  <2>1. CASE proc' = Started /\ stop' = FALSE
    BY <2>0, <2>1, EndInv
  <2>2. CASE ~(proc' = Started /\ stop' = FALSE)
    <3>1. /\ UNCHANGED <<stop, power>> /\ power = "up"
          /\ \/ /\ proc.at = "check"
                /\ proc' = [proc EXCEPT !.at = "authenticate", !.binding = "ready"]
             \/ /\ proc.at = "authenticate" \/ (proc.at \in {"wait", "activate"} /\ stop)
                /\ proc' = [proc EXCEPT !.at = "prepared"]
             \/ /\ proc.at = "prepared" /\ proc' = [proc EXCEPT !.at = "live"]
             \/ /\ proc.at = "wait" /\ proc' = [proc EXCEPT !.at = proc.to]
             \/ /\ proc.at \in Retried
                /\ proc' = [proc EXCEPT !.at = "wait", !.to = proc.at]
      BY <1>7, <2>2 DEF CheckEnrollment, Authenticate, OpenDataPlane, WaitOver, StopSeen,
                        RequestFails, Crash, RejectActivation, Go, Wait, End, At, Retried
    <3>2. /\ proc' \in Proc /\ proc'.id = proc.id
          /\ \/ proc.at = "check" /\ proc'.at = "authenticate" /\ proc'.binding = "ready"
             \/ /\ proc'.binding = proc.binding
                /\ \/ /\ proc.at = "authenticate" \/ stop
                      /\ proc'.at = "prepared"
                   \/ proc'.at = "live"
                   \/ proc.at = "wait" /\ proc'.at = proc.to /\ proc.to \in Retried
                   \/ proc.at \in Retried /\ proc'.at = "wait" /\ proc'.to = proc.at
      BY <1>0, <3>1 DEF Proc, Binding, Retried, RightPoint
    <3>3. proc.at # "start"
      BY <3>1 DEF Retried
    <3>4. Typed' /\ KeyPinned'
      BY <1>0, <2>0, <3>1, <3>2, <3>3 DEF Typed, KeyPinned
    <3>5. RightPoint' /\ BoundIsBound' /\ GateOpen'
      BY <2>0, <3>1, <3>2 DEF RightPoint, BoundIsBound, GateOpen, Retried
    <3>6. QED
      BY <3>4, <3>5
  <2>3. QED
    BY <2>1, <2>2
<1>8. CASE RequestStop
  BY <1>8 DEF RequestStop, Typed, KeyPinned, RightPoint, BoundIsBound, GateOpen
<1>9. CASE Restart
  <2>1. proc.at = "start" /\ UNCHANGED <<file, proc, stop, core>>
    BY <1>9 DEF Restart, Typed
  <2>2. QED
    BY <2>1 DEF Typed, KeyPinned, RightPoint, BoundIsBound, GateOpen
<1>10. CASE \/ ClockChanges \/ BindDevice \/ Revoke \/ DecideEnrollment \/ WriteClaimCode
            \/ UNCHANGED vars
  <2>1. UNCHANGED <<file, proc, stop, power>>
    BY <1>10 DEF ClockChanges, BindDevice, Revoke, DecideEnrollment, WriteClaimCode, vars
  <2>2. /\ core' \in Device /\ core'.key = core.key
        /\ core.device \in {"ready", "revoked"} => core'.device \in {"ready", "revoked"}
    BY <1>0, <1>10 DEF ClockChanges, BindDevice, Revoke, DecideEnrollment, WriteClaimCode,
                       vars, Device, Binding
  <2>3. QED
    BY <2>1, <2>2 DEF Typed, KeyPinned, RightPoint, BoundIsBound, GateOpen
<1>11. QED
  BY <1>1, <1>2, <1>3, <1>4, <1>5, <1>6, <1>7, <1>8, <1>9, <1>10 DEF Next, ProcessStep

-----------------------------------------------------------------------------
(* The theorems.                                                           *)

\* The identity in memory is always the one on disk, and every answer is of a
\* known state of the binding.
THEOREM BootstrapTyped == Spec => []TypeOK
<1>1. IInv => TypeOK
  BY DEF IInv, Typed, TypeOK, Identity, Proc
<1>2. QED
  BY InitInv, NextInv, <1>1, PTL DEF Spec

\* prepare (A.9): an enrolled identity is never activated or paired anew, and no
\* write of any step takes its key, its mode, its connector or its credential.
THEOREM EnrolledForGood == Spec => EnrolledOnce
<1>1. ASSUME IInv, [Next]_vars
      PROVE  [file.connector =>
               /\ proc'.at \notin {"activate", "exchange"}
               /\ file'.connector /\ (file.credential => file'.credential)
               /\ file'.key = file.key /\ file'.mode = file.mode]_vars
  <2> SUFFICES ASSUME Next, file.connector
               PROVE  /\ proc'.at \notin {"activate", "exchange"}
                      /\ file'.connector /\ (file.credential => file'.credential)
                      /\ file'.key = file.key /\ file'.mode = file.mode
    BY <1>1
  <2>1. /\ IInv' /\ file \in Identity /\ proc \in Proc /\ file.key # None
        /\ proc.at \notin {"answered", "exchange", "exchanged"}
    BY <1>1, NextInv DEF IInv, Typed, KeyPinned, RightPoint
  <2>2. CASE Prepare
    BY <2>1, <2>2, WithKeyEffect DEF Prepare, IInv, RightPoint, Towards
  <2>3. CASE SaveBindingState
    <3>1. proc.answer.credential \in BOOLEAN
      BY <2>1 DEF Proc, Answer
    <3>2. /\ file'.connector /\ (file.credential => file'.credential)
          /\ file'.key = file.key /\ file'.mode = file.mode
      BY <2>1, <2>3, <3>1, BindingSaved DEF SaveBindingState
    <3>3. QED
      BY <2>1, <3>2 DEF IInv, RightPoint, Towards
  <2>4. CASE ~Prepare /\ ~SaveBindingState
    <3>1. file' = file
      BY <2>1, <2>4
         DEF Next, ProcessStep, Activate, RejectActivation, SaveActivation, Exchange,
             SaveExchange, CheckEnrollment, Authenticate, OpenDataPlane, WaitOver, StopSeen,
             RequestFails, RequestStop, Crash, Restart, ClockChanges, BindDevice, Revoke,
             DecideEnrollment, WriteClaimCode, At
    <3>2. QED
      BY <2>1, <3>1 DEF IInv, RightPoint, Towards
  <2>5. QED
    BY <2>2, <2>3, <2>4
<1>2. QED
  BY InitInv, NextInv, <1>1, PTL DEF Spec, EnrolledOnce

\* _prepare_provisioned (A.5): a provisioned device outlasts every failure, lost
\* answer, crash, rate limit and lockout; unless it is stopped, the process ends by
\* itself only when the device is revoked, its identity was torn between two writes,
\* or its activation is rejected for a wrong triple or a wrong clock.
THEOREM DeviceWaits == Spec => WaitsForBinding
<1>1. ASSUME IInv, [Next]_vars
      PROVE  [/\ power = "up" /\ power' \notin {"up", "crashed"} /\ ~stop
              /\ \/ proc.at \in {"activate", "answered"}
                 \/ file.connector /\ file.mode = "device_secret"
              => core.device = "revoked" \/ Torn \/ Misplaced]_vars
  <2> SUFFICES ASSUME Next, power = "up", power' \notin {"up", "crashed"}, ~stop,
                      \/ proc.at \in {"activate", "answered"}
                      \/ file.connector /\ file.mode = "device_secret"
               PROVE  core.device = "revoked" \/ Torn \/ Misplaced
    BY <1>1
  <2>0. /\ file \in Identity /\ core \in Device
        /\ proc.at # "start" => proc.id = file /\ file.key # None
        /\ proc.at \in {"exchange", "exchanged"} => ~file.connector
        /\ proc.at = "check" => file.mode # "device_secret"
        /\ file.connector /\ file.mode = "device_secret" => core.device \in {"ready", "revoked"}
        /\ proc.at = "prepared" => proc.binding = "ready"
        /\ core.key \in {None, file.key}
    BY <1>1 DEF IInv, Typed, KeyPinned, RightPoint, BoundIsBound, GateOpen, Towards
  <2>1. CASE Prepare
    <3>1. WithKey(file).connector = file.connector /\ WithKey(file).mode = file.mode
      BY <2>0, WithKeyEffect
    <3>2. StartingPoint(WithKey(file)) \in {"invalid", "unpaired"}
      BY <2>1 DEF Prepare
    <3>3. WithKey(file).mode # "device_secret" \/ ~WithKey(file).connector
      BY <2>0, <3>2, PointOf, WithKeyEffect
    <3>4. QED
      BY <2>1, <3>1, <3>3 DEF Prepare, At
  <2>2. CASE \E r \in Rejections : RejectActivation(r)
    <3>1. PICK r \in Rejections : RejectActivation(r)
      BY <2>2
    <3>2. proc.at = "activate" /\ proc.id = file
      BY <2>0, <3>1 DEF RejectActivation, At
    <3>3. Terminal(r)
      BY <3>1 DEF RejectActivation, Wait
    <3>4. r \notin Temporary
      BY <3>3 DEF Terminal, Temporary, StatusOf, TerminalActivationStatuses
    <3>5. HasGround(r)
      BY <3>1, <3>4 DEF RejectActivation
    <3>6. QED
      BY <2>0, <3>2, <3>5 DEF HasGround, Misplaced
  <2>3. CASE Authenticate
    BY <2>0, <2>3 DEF Authenticate, At, Go, CredentialAccepted, Torn, Identity
  <2>4. CASE \/ Exchange \/ CheckEnrollment \/ OpenDataPlane \/ RequestFails \/ StopSeen
    BY <2>0, <2>4 DEF Exchange, CheckEnrollment, OpenDataPlane, RequestFails, StopSeen, At,
                      Go, Wait
  <2>5. CASE \/ Activate \/ SaveActivation \/ SaveBindingState \/ SaveExchange \/ WaitOver
             \/ RequestStop \/ Crash \/ Restart \/ ClockChanges
             \/ BindDevice \/ Revoke \/ DecideEnrollment \/ WriteClaimCode
    BY <2>5 DEF Activate, SaveActivation, SaveBindingState, SaveExchange, WaitOver,
                RequestStop, Crash, Restart, ClockChanges, BindDevice, Revoke,
                DecideEnrollment, WriteClaimCode, Go, Wait, End
  <2>6. QED
    BY <2>1, <2>2, <2>3, <2>4, <2>5 DEF Next, ProcessStep
<1>2. QED
  BY InitInv, NextInv, <1>1, PTL DEF Spec, WaitsForBinding

=============================================================================
