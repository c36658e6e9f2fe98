------------------------------ MODULE HubSession ------------------------------
(***************************************************************************)
(* The session of the connector at IoT Core and the access token it is     *)
(* bound to: token refresh and rebind, recovery, the lease of an earlier   *)
(* session, stop, crash and restart (core_client.py; _go_live,             *)
(* _establish_session, _recover_session, run_forever and                   *)
(* _disconnect_session of runtime.py).                                     *)
(*                                                                         *)
(* All threads share one client and so one token; nothing locks it.  A     *)
(* step ends where another thread may run and matter: a request reads the  *)
(* token as it is sent, and the Core judges it later.  What requests are   *)
(* about is the subject of the other modules; here they are accepted or    *)
(* refused.  Covered: requests that fail, answers that are lost, crashes,  *)
(* restarts.  Not covered: refusal of the connector's credential.          *)
(***************************************************************************)
EXTENDS Integers, FiniteSets

CONSTANTS
  Loop,         \* threads that talk to the Core
  Maintenance,  \* the one of them that sends heartbeats
  Main,         \* the thread of run_forever
  Token,        \* access tokens; one nobody holds may be issued again
  Session,      \* session ids, likewise
  None,
  MaxFaults,    \* bound of the model: requests and answers that are lost
  MaxEnds       \* bound of the model: stops and crashes

Thread == Loop \cup {Main}

ASSUME SessionAssumption ==
  /\ Maintenance \in Loop /\ Main \notin Loop
  /\ IsFiniteSet(Thread) /\ None \notin Token \cup Session \cup Thread
  /\ Cardinality(Token) > Cardinality(Thread) + 2
  /\ Cardinality(Session) > Cardinality(Thread) + 2
  /\ {MaxFaults, MaxEnds} \subseteq Nat

VARIABLES
  core,       \* IoT Core: its session, the token that is bound to, whether the
              \* lease is live, and (history) whether this process opened it
  token,      \* self._token of the client
  aging,      \* whether it has less than 60 s left
  session,    \* self.session of the runtime
  lock,       \* the holder of _session_lock
  stop,       \* stop_event
  thread,     \* where each thread is, with the session and token of its request
  power,      \* "up", or how the process ended
  budget,     \* what is left of faults and ends
  disturbed   \* history: a fault, a crash or two threads at the token at once,
              \* since last all was well

client == <<token, aging, session, lock, stop>>
vars   == <<core, client, thread, power, budget, disturbed>>

Resting(point) == [at |-> point, sess |-> None, tok |-> None]

\* run_forever of an enrolled connector begins with _go_live.
Started == [t \in Thread |-> Resting(IF t = Main THEN "authenticate" ELSE "off")]

Init ==
  /\ \E live \in BOOLEAN :
       core = [session |-> CHOOSE s \in Session : TRUE, bound |-> CHOOSE k \in Token : TRUE,
               live |-> live, ours |-> FALSE]
  /\ token = None /\ aging = FALSE /\ session = None /\ lock = None /\ stop = FALSE
  /\ thread = Started
  /\ power = "up"
  /\ budget = [faults |-> MaxFaults, ends |-> MaxEnds]
  /\ disturbed = FALSE

At(t, point) == power = "up" /\ thread[t].at = point
Go(t, point) == thread' = [thread EXCEPT ![t].at = point]
Rest(t, point) == thread' = [thread EXCEPT ![t] = Resting(point)]

Spend(what) == budget[what] > 0 /\ budget' = [budget EXCEPT ![what] = @ - 1]

FreshToken ==
  CHOOSE k \in Token : k \notin {token, core.bound} \cup {thread[t].tok : t \in Thread}

FreshSession ==
  CHOOSE s \in Session : s \notin {session, core.session} \cup {thread[t].sess : t \in Thread}

\* authenticate: challenge and proof of possession, and the client has a token
\* of 900 s.
Authenticate == token' = FreshToken /\ aging' = FALSE

-----------------------------------------------------------------------------
(* A request of a loop.                                                    *)

\* A loop takes self.session and asks for a usable token.  It looks at
\* stop_event between two rounds, not between the requests of one.
BeginRequest(l) ==
  /\ At(l, "next") \/ (At(l, "idle") /\ ~stop)
  /\ IF session = None
       THEN At(l, "next") /\ Rest(l, "idle")
       ELSE thread' = [thread EXCEPT ![l] = [at   |-> IF aging THEN "refresh" ELSE "send",
                                             sess |-> session, tok |-> None]]
  /\ UNCHANGED <<core, client, power, budget>>

\* Mutant of RefreshToken: the session is not rebound.
RefreshWithoutRebind(l) ==
  /\ At(l, "refresh")
  /\ Authenticate
  /\ Go(l, "send")
  /\ UNCHANGED <<core, session, lock, stop, power, budget>>

\* _ensure_token: a new token first, then the session is to be rebound to it.
RefreshToken(l) ==
  /\ At(l, "refresh")
  /\ Authenticate
  /\ Go(l, "rebind")
  /\ UNCHANGED <<core, session, lock, stop, power, budget>>

InFlight == [rebind |-> "rebinding", send |-> "sent",
             connect |-> "connecting", disconnect |-> "disconnecting"]

\* _request puts the token of this moment into the header.  connect_session
\* asks for a usable one before.
SendRequest(t) ==
  /\ power = "up" /\ thread[t].at \in DOMAIN InFlight
  /\ At(t, "connect") => ~aging
  /\ thread' = [thread EXCEPT ![t].at = InFlight[@], ![t].tok = token]
  /\ UNCHANGED <<core, client, power, budget>>

\* What the Core asks of a request in a session, and of a rebind.
SessionLives(t) == core.live /\ core.session = thread[t].sess
Accepted(t)     == SessionLives(t) /\ core.bound = thread[t].tok

\* _rebind_session_token.  Any refusal in a session that _invalid_session_detail
\* names, the binding mismatch among them, leads to recovery.
RebindAnswered(l) ==
  /\ At(l, "rebinding")
  /\ \/ /\ SessionLives(l)
        /\ core' = [core EXCEPT !.bound = thread[l].tok]
        /\ \/ Go(l, "send") /\ UNCHANGED budget
           \/ Spend("faults") /\ Rest(l, "idle")
     \/ /\ ~SessionLives(l)
        /\ Go(l, "recover") /\ UNCHANGED <<core, budget>>
  /\ UNCHANGED <<client, power>>

\* A heartbeat, upload, claim, acknowledgement: the round is over or goes on.
RequestAnswered(l) ==
  /\ At(l, "sent")
  /\ IF Accepted(l)
       THEN \/ Rest(l, "idle")
            \/ l # Maintenance /\ Rest(l, "next")
       ELSE Go(l, "recover")
  /\ UNCHANGED <<core, client, power, budget>>

-----------------------------------------------------------------------------
(* Recovery, and the start, which opens a session in the same way.         *)

\* Mutant of EnterRecovery: any session passes for one another thread recovered.
EnterRecoveryUnlessOpen(l) ==
  /\ At(l, "recover") /\ lock = None
  /\ IF session # None
       THEN Rest(l, "idle") /\ UNCHANGED lock
       ELSE Go(l, "authenticate") /\ lock' = l
  /\ UNCHANGED <<core, token, aging, session, stop, power, budget>>

\* _recover_session: under the lock, unless another thread has recovered.
EnterRecovery(l) ==
  /\ At(l, "recover") /\ lock = None
  /\ IF session # None /\ session # thread[l].sess
       THEN Rest(l, "idle") /\ UNCHANGED lock
       ELSE Go(l, "authenticate") /\ lock' = l
  /\ UNCHANGED <<core, token, aging, session, stop, power, budget>>

\* authenticate at the head of a recovery and of _go_live, and in the
\* _ensure_token of connect_session, which has no session to rebind.
AuthenticateToConnect(t) ==
  /\ At(t, "authenticate") \/ (At(t, "connect") /\ aging)
  /\ Authenticate
  /\ Go(t, "connect")
  /\ UNCHANGED <<core, session, lock, stop, power, budget>>

\* The thread has done with _recover_session, or with _go_live.
Leave(t) ==
  /\ Rest(t, IF t = Main THEN "serving" ELSE "idle")
  /\ lock' = IF lock = t THEN None ELSE lock

\* The loops start with the first session.
LeaveWithSession(t) ==
  /\ thread' = [u \in Thread |->
       IF u = t THEN Resting(IF t = Main THEN "serving" ELSE "idle")
       ELSE IF t = Main THEN Resting("idle") ELSE thread[u]]
  /\ lock' = IF lock = t THEN None ELSE lock

\* Mutant of Abandon: the lock is not released when an exception passes.
AbandonWithLock(t) ==
  /\ Rest(t, CASE t # Main -> "idle"
               [] At(t, "disconnecting") -> "joining"
               [] OTHER -> "backoff")
  /\ UNCHANGED lock

\* An exception: a loop goes on with its old session, the start backs off.
Abandon(t) ==
  /\ Rest(t, CASE t # Main -> "idle"
               [] At(t, "disconnecting") -> "joining"
               [] OTHER -> "backoff")
  /\ lock' = IF lock = t THEN None ELSE lock

\* POST /sessions: the Core refuses as long as a lease is live, whosever it is.
ConnectAnswered(t) ==
  /\ At(t, "connecting")
  /\ \/ /\ core.live
        /\ Go(t, "wait")
        /\ UNCHANGED <<core, session, lock, budget>>
     \/ /\ ~core.live
        /\ core' = [session |-> FreshSession, bound |-> thread[t].tok,
                    live |-> TRUE, ours |-> TRUE]
        /\ \/ session' = core'.session /\ LeaveWithSession(t) /\ UNCHANGED budget
           \/ Spend("faults") /\ Abandon(t) /\ UNCHANGED session
  /\ UNCHANGED <<token, aging, stop, power>>

\* stop_event.wait(_lease_conflict_wait_seconds(...)) runs out; the answer may
\* have named a time, or not, and the lease may have been renewed since.
WaitOver(t) ==
  /\ At(t, "wait") /\ ~stop
  /\ Go(t, "connect")
  /\ UNCHANGED <<core, client, power, budget>>

\* Mutant of WaitStopped: the wait is a sleep that stop does not end.
WaitUnstoppable(t) ==
  /\ At(t, "wait") /\ stop /\ ~core.live
  /\ Leave(t)
  /\ UNCHANGED <<core, token, aging, session, stop, power, budget>>

WaitStopped(t) ==
  /\ At(t, "wait") /\ stop
  /\ Leave(t)
  /\ UNCHANGED <<core, token, aging, session, stop, power, budget>>

\* The backoff of _call_while_core_unavailable: retried, or ended by stop.
BackoffOver ==
  /\ At(Main, "backoff")
  /\ Rest(Main, IF stop THEN "serving" ELSE "authenticate")
  /\ UNCHANGED <<core, client, power, budget>>

-----------------------------------------------------------------------------
(* The end of the process.                                                 *)

\* request_stop, the handler of SIGTERM and SIGINT.
RequestStop ==
  /\ power = "up" /\ ~stop /\ Spend("ends")
  /\ stop' = TRUE
  /\ UNCHANGED <<core, token, aging, session, lock, thread, power>>

\* Mutant of TakeSession: disconnecting asks for a usable token like any request.
TakeSessionWithToken ==
  /\ At(Main, "serving") /\ stop /\ lock = None
  /\ session' = None
  /\ IF aging THEN Authenticate ELSE UNCHANGED <<token, aging>>
  /\ thread' = [thread EXCEPT ![Main] =
       [at |-> IF session = None THEN "joining" ELSE "disconnect", sess |-> session, tok |-> None]]
  /\ UNCHANGED <<core, lock, stop, power, budget>>

\* run_forever ends; _disconnect_session takes the session under the lock ...
TakeSession ==
  /\ At(Main, "serving") /\ stop /\ lock = None
  /\ session' = None
  /\ thread' = [thread EXCEPT ![Main] =
       [at |-> IF session = None THEN "joining" ELSE "disconnect", sess |-> session, tok |-> None]]
  /\ UNCHANGED <<core, token, aging, lock, stop, power, budget>>

\* ... and closes it at the Core with the token there is.  Whatever the answer
\* is, the process ends.
DisconnectAnswered ==
  /\ At(Main, "disconnecting")
  /\ core' = [core EXCEPT !.live = @ /\ ~Accepted(Main)]
  /\ Rest(Main, "joining")
  /\ UNCHANGED <<client, power, budget>>

\* The process ends, and with it all it had in memory.
End(how) ==
  /\ power' = how
  /\ token' = None /\ aging' = FALSE /\ session' = None /\ lock' = None /\ stop' = FALSE
  /\ thread' = Started

\* The other threads are daemons and have a second each to finish.
Exit ==
  /\ At(Main, "joining")
  /\ End("stopped")
  /\ UNCHANGED <<core, budget>>

Crash ==
  /\ power = "up" /\ Spend("ends")
  /\ End("crashed")
  /\ UNCHANGED core

\* The process begins again with nothing but its identity.
Restart ==
  /\ power # "up"
  /\ power' = "up"
  /\ core' = [core EXCEPT !.ours = FALSE]
  /\ UNCHANGED <<client, thread, budget>>

-----------------------------------------------------------------------------
(* Network and time.                                                       *)

\* The session of the client is live at the Core and bound to its token.
Usable ==
  /\ session # None
  /\ core.live /\ core.session = session /\ core.bound = token

\* A request fails before the Core has acted on it.
RequestFails(t) ==
  /\ power = "up"
  /\ thread[t].at \in {"refresh", "rebinding", "sent", "authenticate", "connecting",
                       "disconnecting"}
  /\ Spend("faults")
  /\ Abandon(t)
  /\ UNCHANGED <<core, token, aging, session, stop, power>>

Connecting == {"connect", "connecting", "wait"}

\* Three heartbeats fit into a lease, so it runs out only when none is sent: the
\* process is down, or the maintenance loop waits for a session itself or for
\* the lock of a thread that does.  Stopping takes less time than a lease.
LeaseDue ==
  /\ core.live
  /\ \/ power # "up"
     \/ /\ ~stop
        /\ \E t \in Thread : thread[t].at \in Connecting
        /\ thread[Maintenance].at \in {"off", "recover"} \cup Connecting

LeaseRunsOut ==
  /\ LeaseDue
  /\ core' = [core EXCEPT !.live = FALSE]
  /\ UNCHANGED <<client, thread, power, budget>>

\* A token lives longer than a request, than a thread waits to be scheduled, than
\* a lease, and than the wait that is left once the lease has run out.  Before it
\* ages, heartbeats have been accepted with it: three fit into a lease, 28 into
\* the life of a token.
TokenAges ==
  /\ power = "up" /\ token # None /\ ~aging
  /\ ~LeaseDue /\ (session = None \/ Usable)
  /\ \A t \in Thread :
       \/ thread[t].at \in {"off", "idle", "next", "backoff", "serving"}
       \/ thread[t].at = "wait" /\ core.live
       \/ thread[t].at = "recover" /\ lock # None
  /\ aging' = TRUE
  /\ UNCHANGED <<core, token, session, lock, stop, thread, power, budget>>

\* Heartbeats lost, or late, for as long as a lease.
HeartbeatsLost ==
  /\ core.live /\ power = "up" /\ Spend("faults")
  /\ core' = [core EXCEPT !.live = FALSE]
  /\ UNCHANGED <<client, thread, power>>

-----------------------------------------------------------------------------

ThreadStep(t) ==
  \/ t \in Loop /\ \/ BeginRequest(t) \/ RefreshToken(t) \/ RebindAnswered(t)
                   \/ RequestAnswered(t) \/ EnterRecovery(t)
  \/ SendRequest(t)
  \/ AuthenticateToConnect(t) \/ ConnectAnswered(t) \/ WaitOver(t) \/ WaitStopped(t)
  \/ t = Main /\ (BackoffOver \/ TakeSession \/ DisconnectAnswered \/ Exit)

Step ==
  \/ \E t \in Thread : ThreadStep(t) \/ RequestFails(t)
  \/ RequestStop \/ Crash \/ Restart
  \/ TokenAges \/ LeaseRunsOut \/ HeartbeatsLost

\* All is well, and every thread between two requests.
Settled ==
  /\ power = "up" /\ Usable
  /\ \A t \in Thread : thread[t].at \in {"idle", "serving"}

\* A thread refreshes the token, opens or closes a session while another is in
\* the middle of a request.
Crossing ==
  \E t, u \in Thread :
    /\ t # u
    /\ thread[t].at \in {"refresh", "rebind", "rebinding", "authenticate", "connect", "connecting",
                         "disconnect", "disconnecting"}
    /\ thread[u].at \notin {"off", "idle", "next", "recover", "wait", "serving", "joining"}

Observe ==
  disturbed' = \/ Crossing' \/ budget'.faults # budget.faults \/ power' = "crashed"
               \/ (disturbed /\ ~Settled')

Next == Step /\ Observe

\* Every request ends (20 s, or 5 s at a stop), every sleep too, the daemons'
\* threads are scheduled; the container restarts what ended; leases end.
Fairness ==
  /\ \A t \in Thread : WF_vars(ThreadStep(t) /\ Observe)
  /\ WF_vars(Restart /\ Observe)
  /\ WF_vars(LeaseRunsOut /\ Observe)

Spec == Init /\ [][Next]_vars /\ Fairness

-----------------------------------------------------------------------------
(* Properties.                                                             *)

\* Type invariant.  Only a thread in recovery holds the lock.
TypeOK ==
  /\ core \in [session : Session, bound : Token, live : BOOLEAN, ours : BOOLEAN]
  /\ token \in Token \cup {None} /\ session \in Session \cup {None}
  /\ {aging, stop, disturbed} \subseteq BOOLEAN
  /\ lock \in Loop \cup {None}
  /\ lock # None => thread[lock].at \in {"authenticate", "connect", "connecting", "wait"}
  /\ \A t \in Thread : /\ thread[t].sess \in Session \cup {None}
                       /\ thread[t].tok \in Token \cup {None}
  /\ power \in {"up", "stopped", "crashed"}

\* _ensure_token, "a token replaced while a session is open must be rebound":
\* however often the token is refreshed, the Core refuses no request of a
\* session as long as refreshes do not cross other requests and nothing fails.
RefreshKeepsSession ==
  power = "up" /\ ~disturbed => \A l \in Loop : thread[l].at # "recover"

\* _disconnect_session, "teardown must use the token that owns the session": a
\* stop at a moment when all is well leaves no session of this process behind,
\* also when the token is about to expire.
QuietStopFreesLease ==
  power = "stopped" /\ ~disturbed => ~(core.live /\ core.ours)

\* _recover_session and the wait for a lease: whatever mismatch, lost lease or
\* lost answer there was, and at a start after a crash, the connector comes to
\* a session that is live and bound to the token in use, or is stopped.
SessionComesBack == []<>(Usable \/ stop \/ power # "up")

\* "The wait uses the stop event": a stop ends the process without a lease
\* having to run out first.
StopIsPrompt == stop ~> power # "up"

=============================================================================
