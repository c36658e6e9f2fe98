------------------------------ MODULE Bootstrap ------------------------------
(***************************************************************************)
(* From the start of the process to an open data plane: the identity on    *)
(* disk, activation of a provisioned device and the wait for its user, the *)
(* exchange of a pairing code and its approval (prepare and _prepare_... of *)
(* runtime.py, identity.py, activate and exchange of core_client.py).      *)
(*                                                                         *)
(* A step ends where the process may die or be asked to stop: at a request *)
(* and at a write of the identity file, which tmp and rename make atomic.  *)
(* What follows authentication is the subject of HubSession.               *)
(***************************************************************************)
EXTENDS Integers, FiniteSets

CONSTANTS
  Key,                 \* key pairs; one nobody knows may be generated again
  CredentialInAnswer,  \* whether the answer to an activation names the credential
  None,
  MaxFaults,           \* bound of the model: requests and answers that are lost
  MaxEnds              \* bound of the model: stops and crashes

Mode    == {"pairing_code", "device_secret"}
Binding == {"awaiting_activation", "awaiting_binding", "awaiting_approval", "ready"}

ASSUME BootstrapAssumption ==
  /\ IsFiniteSet(Key) /\ Cardinality(Key) > 2
  /\ None \notin Key /\ None \notin Mode \cup Binding
  /\ CredentialInAnswer \in BOOLEAN
  /\ {MaxFaults, MaxEnds} \subseteq Nat

VARIABLES
  file,    \* connector_identity.json, and the key beside it
  config,  \* what the operator configured: a triple, the right one or a wrong one,
           \* a "code", both or none
  skewed,  \* whether the clock of the device is off
  claim,   \* whether there is a claim code file
  proc,    \* where the process is, self.binding_state, the identity in memory, the
           \* answer it works on, and where a wait leads back to
  stop,    \* stop_event
  power,   \* "up", or how the process ended
  core,    \* IoT Core: the device and the key it was activated with, the enrollment
  budget   \* what is left of faults and ends

setup == <<config, skewed>>
vars  == <<file, setup, claim, proc, stop, power, core, budget>>

\* ConnectorIdentity without what never changes or no decision reads.
Blank == [key |-> None, mode |-> None, enrolled |-> FALSE, connector |-> FALSE,
          credential |-> FALSE, binding |-> None]

\* An identity from before there was a bootstrap_mode.
Legacy == [Blank EXCEPT !.key = CHOOSE k \in Key : TRUE, !.enrolled = TRUE,
                        !.connector = TRUE, !.credential = TRUE]

Answer == [binding : {None} \cup Binding, connector : BOOLEAN, credential : BOOLEAN]
NoAnswer == [binding |-> None, connector |-> FALSE, credential |-> FALSE]

Started == [at |-> "start", binding |-> "awaiting_activation", id |-> Blank,
            answer |-> NoAnswer, to |-> None]

Triples == {"triple", "wrong triple"}
Setups  == {s \in SUBSET (Triples \cup {"code"}) : ~(Triples \subseteq s)}

Init ==
  /\ file \in {Blank, Legacy}
  /\ config \in Setups /\ skewed \in BOOLEAN
  /\ claim = FALSE /\ stop = FALSE
  /\ proc = Started /\ power = "up"
  /\ core = [device |-> "awaiting_activation", key |-> None,
             enrollment |-> IF file = Legacy THEN "approved" ELSE "offered"]
  /\ budget = [faults |-> MaxFaults, ends |-> MaxEnds]

At(point) == power = "up" /\ proc.at = point
Go(point) == proc' = [proc EXCEPT !.at = point] /\ UNCHANGED <<stop, power>>
Wait(to)  == proc' = [proc EXCEPT !.at = "wait", !.to = to] /\ UNCHANGED <<stop, power>>

\* An exception out of run_forever, or its return.
End(how) == power' = how /\ proc' = Started /\ stop' = FALSE

Spend(what) == budget[what] > 0 /\ budget' = [budget EXCEPT ![what] = @ - 1]

-----------------------------------------------------------------------------
(* The identity on disk.                                                   *)

\* load_or_create: a key is generated once and written before anything is sent.
WithKey(id) ==
  IF id.key # None THEN id
  ELSE [id EXCEPT !.key = CHOOSE k \in Key : k # core.key]

\* Mutant of Merged: the file is replaced by what is saved.
Replaced(changes) ==
  [f \in DOMAIN Blank |->
     IF f \in DOMAIN changes THEN changes[f] ELSE IF f = "key" THEN file.key ELSE Blank[f]]

\* _merge_state: what is not saved anew stays.
Merged(changes) == [f \in DOMAIN Blank |-> IF f \in DOMAIN changes THEN changes[f] ELSE file[f]]

\* A value that is None is not among the changes.
Present(name, value) == IF value THEN [f \in {name} |-> TRUE] ELSE [f \in {} |-> TRUE]

Join(f, g) == [x \in DOMAIN f \cup DOMAIN g |-> IF x \in DOMAIN f THEN f[x] ELSE g[x]]

-----------------------------------------------------------------------------
(* prepare.                                                                *)

\* _has_provisioning_triple: whether there is one, not whether it is right.
HasTriple == config \cap Triples # {}

\* Mutant of StartingPoint: what is configured comes first.
PointByConfiguration(id) ==
  CASE HasTriple -> "activate"
    [] id.connector /\ id.mode = "device_secret" -> "authenticate"
    [] id.connector /\ id.mode # "device_secret" /\ id.enrolled -> "check"
    [] id.connector /\ id.mode # "device_secret" /\ ~id.enrolled -> "invalid"
    [] OTHER -> IF "code" \in config THEN "exchange" ELSE "unpaired"

\* An identity that is enrolled comes first, whatever is configured; one without
\* a bootstrap_mode is a paired one.
StartingPoint(id) ==
  CASE id.connector /\ id.mode = "device_secret" -> "authenticate"
    [] id.connector /\ id.mode # "device_secret" /\ id.enrolled -> "check"
    [] id.connector /\ id.mode # "device_secret" /\ ~id.enrolled -> "invalid"
    [] ~id.connector /\ HasTriple -> "activate"
    [] OTHER -> IF "code" \in config THEN "exchange" ELSE "unpaired"

Prepare ==
  LET id    == WithKey(file)
      point == StartingPoint(id)
  IN  /\ At("start")
      /\ file' = id
      /\ IF point \in {"invalid", "unpaired"}
           THEN End(point)
           ELSE /\ proc' = [proc EXCEPT !.at = point, !.id = id,
                              !.binding = IF point = "authenticate" THEN "ready" ELSE @]
                /\ UNCHANGED <<stop, power>>
      /\ UNCHANGED <<setup, claim, core, budget>>

-----------------------------------------------------------------------------
(* A provisioned device.                                                   *)

\* What the Core rejects an activation for.
Temporary  == {"locked_out", "limited"}
Rejections == {"clock_skew", "wrong_secret", "unknown_product", "malformed", "revoked",
               "clone"} \cup Temporary

StatusOf(r) ==
  CASE r = "clock_skew"                     -> 400
    [] r \in {"wrong_secret", "locked_out"} -> 403
    [] r = "unknown_product"                -> 404
    [] r \in {"revoked", "clone"}           -> 409
    [] r = "malformed"                      -> 422
    [] r = "limited"                        -> 429

\* The Core pins the first key; another one looks like a clone.
HasGround(r) ==
  \/ r = "clock_skew" /\ skewed
  \/ r \in {"wrong_secret", "unknown_product", "malformed"} /\ "wrong triple" \in config
  \/ r = "revoked" /\ core.device = "revoked"
  \/ r = "clone" /\ core.key \notin {None, proc.id.key}

TerminalActivationStatuses == {400, 403, 404, 409, 422}

\* Mutant of Terminal: the status decides alone.
TerminalByStatus(r) == StatusOf(r) \in TerminalActivationStatuses

\* _activation_error: a lockout has the status of a wrong secret, but ends.
Terminal(r) == StatusOf(r) \in TerminalActivationStatuses /\ r # "locked_out"

\* POST /gateways/activate, which also tells the Core that the device is alive.
Activate ==
  /\ At("activate") /\ ~stop
  /\ \A r \in Rejections : ~HasGround(r)
  /\ core' = [core EXCEPT !.key = proc.id.key,
                          !.device = IF @ = "awaiting_activation" THEN "awaiting_binding" ELSE @]
  /\ LET bound == core'.device = "ready"
     IN  \/ /\ proc' = [proc EXCEPT !.at = "answered",
                 !.answer = [binding |-> core'.device, connector |-> bound,
                             credential |-> bound /\ CredentialInAnswer]]
            /\ UNCHANGED <<stop, power, budget>>
         \/ Spend("faults") /\ Wait("activate")
  /\ UNCHANGED <<file, setup, claim>>

\* The Core rejects the activation: for a reason that stands, or for one that
\* passes (too many failed attempts, or too many requests).
RejectActivation(r) ==
  /\ At("activate") /\ ~stop
  /\ \/ HasGround(r) /\ UNCHANGED budget
     \/ r \in Temporary /\ Spend("faults")
  /\ IF Terminal(r) THEN End("rejected") ELSE Wait("activate")
  /\ UNCHANGED <<file, setup, claim, core>>

\* Mutant of SaveActivation: a device without a user is an error.
SaveActivationOrRaise ==
  /\ At("answered")
  /\ file' = Merged(Join([mode |-> "device_secret", binding |-> proc.answer.binding],
                         Present("connector", proc.answer.connector)))
  /\ IF proc.answer.binding = "ready" /\ proc.answer.connector
       THEN /\ proc' = [proc EXCEPT !.at = "bound", !.id = file', !.binding = "ready"]
            /\ UNCHANGED <<claim, stop, power>>
       ELSE claim' = FALSE /\ End("unbound")
  /\ UNCHANGED <<setup, core, budget>>

\* save_activation.  As long as the user has not bound the device the loop goes
\* on, after a look at the claim code file, which it deletes.
SaveActivation ==
  /\ At("answered")
  /\ file' = Merged(Join([mode |-> "device_secret", binding |-> proc.answer.binding],
                         Present("connector", proc.answer.connector)))
  /\ IF proc.answer.binding = "ready" /\ proc.answer.connector
       THEN /\ proc' = [proc EXCEPT !.at = "bound", !.id = file', !.binding = "ready"]
            /\ UNCHANGED claim
       ELSE /\ proc' = [proc EXCEPT !.at = "wait", !.to = "activate", !.id = file',
                                    !.binding = proc.answer.binding]
            /\ claim' = FALSE
  /\ UNCHANGED <<setup, stop, power, core, budget>>

\* Mutant of SaveBindingState: the credential is kept in memory.
SaveWithoutCredential ==
  /\ At("bound")
  /\ file' = Merged([binding |-> "ready", connector |-> TRUE])
  /\ proc' = [proc EXCEPT !.at = "authenticate",
                          !.id = [file' EXCEPT !.credential = proc.answer.credential]]
  /\ UNCHANGED <<setup, claim, stop, power, core, budget>>

\* save_binding_state, with the credential, if the answer had one.
SaveBindingState ==
  /\ At("bound")
  /\ file' = Merged(Join([binding |-> "ready", connector |-> TRUE],
                         Present("credential", proc.answer.credential)))
  /\ proc' = [proc EXCEPT !.at = "authenticate", !.id = file']
  /\ UNCHANGED <<setup, claim, stop, power, core, budget>>

-----------------------------------------------------------------------------
(* A paired installation.                                                  *)

\* The Core takes a pairing code once.  The call is a bare one: an exception
\* ends the process.
Exchange ==
  /\ At("exchange")
  /\ \/ /\ core.enrollment = "offered"
        /\ core' = [core EXCEPT !.enrollment = "pending"]
        /\ \/ Go("exchanged") /\ UNCHANGED budget
           \/ Spend("faults") /\ End("failed")
     \/ /\ core.enrollment # "offered"
        /\ End("failed")
        /\ UNCHANGED <<core, budget>>
  /\ UNCHANGED <<file, setup, claim>>

SaveExchange ==
  /\ At("exchanged")
  /\ file' = Merged([mode |-> "pairing_code", enrolled |-> TRUE, connector |-> TRUE,
                     credential |-> TRUE, binding |-> "ready"])
  /\ proc' = [proc EXCEPT !.at = "check", !.id = file']
  /\ UNCHANGED <<setup, claim, stop, power, core, budget>>

\* enrollment_status: until it is approved the process ends, and begins again.
CheckEnrollment ==
  /\ At("check")
  /\ IF core.enrollment = "approved"
       THEN /\ proc' = [proc EXCEPT !.at = "authenticate", !.binding = "ready"]
            /\ UNCHANGED <<stop, power>>
       ELSE End("unapproved")
  /\ UNCHANGED <<file, setup, claim, core, budget>>

-----------------------------------------------------------------------------
(* Going live.                                                             *)

CredentialAccepted ==
  IF proc.id.mode = "device_secret" THEN core.device = "ready"
                                    ELSE core.enrollment = "approved"

\* _go_live: the challenge, and a session, which is the subject of HubSession.
Authenticate ==
  /\ At("authenticate")
  /\ IF ~(proc.id.connector /\ proc.id.credential) THEN End("unenrolled")
     ELSE IF CredentialAccepted THEN Go("prepared")
     ELSE End("refused")
  /\ UNCHANGED <<file, setup, claim, core, budget>>

\* The rest of run_forever: the gate of the data plane is asked before stop_event.
OpenDataPlane ==
  /\ At("prepared")
  /\ IF proc.binding # "ready" THEN End("closed")
     ELSE IF stop THEN End("stopped")
     ELSE Go("live")
  /\ UNCHANGED <<file, setup, claim, core, budget>>

\* _wait_before_retry and the backoff of _call_while_core_unavailable.
WaitOver ==
  /\ At("wait")
  /\ Go(IF stop THEN "prepared" ELSE proc.to)
  /\ UNCHANGED <<file, setup, claim, core, budget>>

\* The head of the activation loop sees stop_event; the threads of the data plane
\* do, and run_forever ends.
StopSeen ==
  /\ stop
  /\ \/ At("activate") /\ Go("prepared")
     \/ At("live") /\ End("stopped")
  /\ UNCHANGED <<file, setup, claim, core, budget>>

-----------------------------------------------------------------------------
(* Everything else that happens.                                           *)

\* A request fails and the Core has not acted on it: no connection, 5xx, or 429.
RequestFails ==
  /\ Spend("faults")
  /\ \/ \E point \in {"activate", "check", "authenticate"} :
          /\ At(point) /\ (point = "authenticate" => proc.id.credential)
          /\ Wait(point)
     \/ At("exchange") /\ End("failed")
  /\ UNCHANGED <<file, setup, claim, core>>

RequestStop ==
  /\ power = "up" /\ ~stop /\ Spend("ends")
  /\ stop' = TRUE
  /\ UNCHANGED <<file, setup, claim, proc, power, core>>

Crash ==
  /\ power = "up" /\ Spend("ends")
  /\ End("crashed")
  /\ UNCHANGED <<file, setup, claim, core>>

\* The container is started again, perhaps with another configuration.
Restart ==
  /\ power # "up"
  /\ power' = "up"
  /\ config' \in Setups
  /\ UNCHANGED <<file, skewed, claim, proc, stop, core, budget>>

\* The clock of the device goes wrong, or is set right.
ClockChanges ==
  /\ skewed' = ~skewed
  /\ UNCHANGED <<file, config, claim, proc, stop, power, core, budget>>

\* The user binds the device in the app, which may need an approval.
BindDevice ==
  /\ core.device \in {"awaiting_binding", "awaiting_approval"}
  /\ core' \in {[core EXCEPT !.device = "ready"], [core EXCEPT !.device = "awaiting_approval"]}
  /\ UNCHANGED <<file, setup, claim, proc, stop, power, budget>>

Revoke ==
  /\ core' = [core EXCEPT !.device = "revoked"]
  /\ UNCHANGED <<file, setup, claim, proc, stop, power, budget>>

DecideEnrollment ==
  /\ core.enrollment = "pending"
  /\ core' \in {[core EXCEPT !.enrollment = "approved"], [core EXCEPT !.enrollment = "rejected"]}
  /\ UNCHANGED <<file, setup, claim, proc, stop, power, budget>>

\* Somebody at the device writes down the code of the manual.
WriteClaimCode ==
  /\ claim' = TRUE
  /\ UNCHANGED <<file, setup, proc, stop, power, core, budget>>

ProcessStep ==
  \/ Prepare
  \/ Activate \/ SaveActivation \/ SaveBindingState
  \/ \E r \in Rejections : RejectActivation(r)
  \/ Exchange \/ SaveExchange \/ CheckEnrollment
  \/ Authenticate \/ OpenDataPlane \/ WaitOver \/ StopSeen

Next ==
  \/ ProcessStep
  \/ RequestFails \/ RequestStop \/ Crash \/ Restart
  \/ ClockChanges \/ BindDevice \/ Revoke \/ DecideEnrollment \/ WriteClaimCode

\* Every request ends, every wait does (at most 300 s), and the container is
\* restarted.
Spec == Init /\ [][Next]_vars /\ WF_vars(ProcessStep) /\ WF_vars(Restart)

-----------------------------------------------------------------------------
(* Properties.                                                             *)

\* Type invariant.  The identity in memory is always the one on disk.
TypeOK ==
  /\ file \in [key : Key \cup {None}, mode : Mode \cup {None},
               enrolled : BOOLEAN, connector : BOOLEAN, credential : BOOLEAN,
               binding : Binding \cup {None}]
  /\ proc.answer \in Answer /\ proc.binding \in Binding
  /\ proc.at # "start" => proc.id = file

\* prepare, A.9: "an existing instance is not asked to activate or pair anew",
\* however often the configuration changes and wherever the process dies; and no
\* write takes away what an enrolled identity has.
EnrolledOnce ==
  [][file.connector =>
       /\ proc'.at \notin {"activate", "exchange"}
       /\ file'.connector /\ (file.credential => file'.credential)
       /\ file'.key = file.key /\ file'.mode = file.mode]_vars

\* The connector is on disk without its credential: between the two writes of
\* _prepare_provisioned, after a crash there, or when no credential came.
Torn == file.connector /\ ~file.credential

\* What an activation is rejected for, for good, though the device is as it should be:
\* its clock, or what the operator configured.
Misplaced == proc.at = "activate" /\ (skewed \/ "wrong triple" \in config)

\* _prepare_provisioned, A.5: a device waits for its user, through failures, lost
\* answers, crashes, rate limits and lockouts.  Unless it is stopped it ends only
\* when it is revoked, its identity is torn, or its activation is rejected for a
\* wrong triple or a wrong clock; never as a clone of itself.  That a wrong clock
\* ends it is what _activation_error does (400 is terminal, core_client.py:639-640);
\* the docstring at core_client.py:28 has it among what is retried.
WaitsForBinding ==
  [][/\ power = "up" /\ power' \notin {"up", "crashed"} /\ ~stop
     /\ \/ proc.at \in {"activate", "answered"}
        \/ file.connector /\ file.mode = "device_secret"
     => core.device = "revoked" \/ Torn \/ Misplaced]_vars

\* What the Core will let in: an approved enrollment, or a device that is bound and
\* known to be, or can find out.
Entitled ==
  IF file.enrolled THEN core.enrollment = "approved"
  ELSE core.device = "ready" /\ (file.connector \/ ("triple" \in config /\ ~skewed))

\* "... polls until the binding is complete, and only then goes live".
BoundGoesLive == <>[]Entitled => <>[]At("live")

\* The same of all identities that are not torn.
WholeIdentityGoesLive == <>[]Entitled => <>[](At("live") \/ Torn)

=============================================================================
