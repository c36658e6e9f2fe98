---------------------------- MODULE HubSessionProofs ----------------------------
(***************************************************************************)
(* Proofs about the session and its token (HubSession), for any number of  *)
(* loops, tokens, sessions, faults and ends.                               *)
(*                                                                         *)
(* While nothing disturbs it, a process is in one of four phases: it       *)
(* starts and has no session, has one that is open and bound to its token  *)
(* or about to be, closes it, or has closed it.  What RefreshKeepsSession  *)
(* and QuietStopFreesLease say of two moments follows from what holds in   *)
(* each phase.                                                             *)
(***************************************************************************)
EXTENDS HubSession, FiniteSetTheorems, TLAPS

\* Where a thread opens a session; where a loop is in the middle of a request.
Opening == {"authenticate", "connect", "connecting", "wait"}

Requesting == {"refresh", "rebind", "rebinding", "send", "sent"}

\* Where a loop, and where the thread of run_forever, may be.
LoopPoint == {"off", "idle", "next", "recover"} \cup Requesting \cup Opening
MainPoint == {"backoff", "serving", "disconnect", "disconnecting", "joining"} \cup Opening

CoreState == [session : Session, bound : Token, live : BOOLEAN, ours : BOOLEAN]

Position == [at : LoopPoint \cup MainPoint, sess : Session \cup {None}, tok : Token \cup {None}]

Budget == [faults : Nat, ends : Nat]

ThreadsTyped ==
  /\ thread \in [Thread -> Position] /\ thread[Main].at \in MainPoint
  /\ \A l \in Loop : thread[l].at \in LoopPoint

Typed ==
  /\ core \in CoreState
  /\ token \in Token \cup {None} /\ session \in Session \cup {None}
  /\ aging \in BOOLEAN /\ stop \in BOOLEAN /\ disturbed \in BOOLEAN
  /\ ThreadsTyped
  /\ lock \in Loop \cup {None}
  /\ power \in {"up", "stopped", "crashed"} /\ budget \in Budget

\* The lock is held by the loop that opens a session, and no loop runs while the
\* start does.
Guarded ==
  /\ \A l \in Loop : thread[l].at \in Opening <=> lock = l
  /\ thread[Main].at \in Opening \cup {"backoff"} => \A l \in Loop : thread[l].at = "off"

\* Whoever rebinds or connects has a token.
HasToken ==
  \A t \in Thread :
    /\ thread[t].at \in {"rebind", "rebinding", "connect", "connecting", "wait"} => token # None
    /\ thread[t].at \in {"rebinding", "connecting"} => thread[t].tok # None

\* A process that has ended has nothing in memory.
Down == power # "up" => thread = Started /\ session = None

\* run_forever opens the first session of the process; no loop runs yet.
Starting ==
  /\ session = None /\ ~core.ours
  /\ thread[Main].at \in Opening \cup {"serving", "joining"}
  /\ thread[Main].at = "connecting" => thread[Main].tok = token
  /\ \A l \in Loop : thread[l].at = "off"

\* There is a session, and every request under way is made in it with the token
\* in use.  The Core has it bound to that token unless a rebind is under way.
Open ==
  /\ session # None /\ core.live /\ core.session = session
  /\ thread[Main].at = "serving"
  /\ \A l \in Loop :
       /\ thread[l].at \in {"idle", "next"} \cup Requesting
       /\ thread[l].at \in Requesting => thread[l].sess = session
       /\ thread[l].at \in {"rebinding", "sent"} => thread[l].tok = token
  /\ (\A l \in Loop : thread[l].at \notin {"rebind", "rebinding"}) => core.bound = token

\* _disconnect_session has taken the session, and its token still owns it.
Closing ==
  /\ session = None /\ core.live /\ core.bound = token
  /\ thread[Main].at \in {"disconnect", "disconnecting"}
  /\ thread[Main].sess = core.session
  /\ thread[Main].at = "disconnecting" => thread[Main].tok = token
  /\ \A l \in Loop : thread[l].at \in {"idle", "next"}

\* The session is closed and the process about to end.
Closed ==
  /\ session = None /\ ~(core.live /\ core.ours)
  /\ thread[Main].at = "joining"
  /\ \A l \in Loop : thread[l].at \in {"idle", "next"}

\* The phase of a process that is up; and what one that has ended left behind.
Phase ==
  /\ power = "up" => Starting \/ Open \/ Closing \/ Closed
  /\ power # "up" => power = "stopped" /\ ~(core.live /\ core.ours)

\* What holds as long as nothing has been disturbed.
Quiet == ~disturbed => ~Crossing /\ Phase

IInv == Typed /\ Guarded /\ HasToken /\ Down /\ Quiet

-----------------------------------------------------------------------------
(* Tokens and sessions nobody holds.                                       *)

\* What n threads can hold, and two more, is not all there is of more than n + 2.
LEMMA SomethingFresh ==
  ASSUME NEW S, Cardinality(S) > Cardinality(Thread) + 2,
         NEW x, NEW y, NEW f, f \in [Thread -> S \cup {None}]
  PROVE  \E s \in S : s \notin {x, y} \cup {f[t] : t \in Thread}
<1> DEFINE held == {f[t] : t \in Thread}
           used == (held \cup {x}) \cup {y}
           n    == Cardinality(Thread)
<1>1. IsFiniteSet(Thread) /\ n \in Nat
  BY SessionAssumption, FS_CardinalityType DEF SessionAssumption
<1>2. f \in Surjection(Thread, held)
  BY DEF Surjection
<1>3. IsFiniteSet(held) /\ Cardinality(held) <= n
  BY <1>1, <1>2, FS_Surjection DEF ExistsSurjection
<1> HIDE DEF held
<1>4. IsFiniteSet(held \cup {x}) /\ Cardinality(held \cup {x}) <= Cardinality(held) + 1
      /\ Cardinality(held) \in Nat
  BY <1>3, FS_AddElement, FS_CardinalityType
<1>5. IsFiniteSet(used) /\ Cardinality(used) <= Cardinality(held \cup {x}) + 1
      /\ Cardinality(held \cup {x}) \in Nat /\ Cardinality(used) \in Nat
  <2>1. /\ IsFiniteSet(used)
        /\ Cardinality(used) \in {Cardinality(held \cup {x}), Cardinality(held \cup {x}) + 1}
    BY <1>4, FS_AddElement
  <2>2. Cardinality(held \cup {x}) \in Nat /\ Cardinality(used) \in Nat
    BY <1>4, <2>1, FS_CardinalityType
  <2>3. QED
    BY <2>1, <2>2
<1>6. Cardinality(used) <= n + 2
  BY <1>1, <1>3, <1>4, <1>5
<1>7. SUFFICES ASSUME S \subseteq used
               PROVE  FALSE
  BY DEF held
<1>8. Cardinality(S) <= Cardinality(used) /\ Cardinality(S) \in Nat
  BY <1>5, <1>7, FS_Subset, FS_CardinalityType
<1>9. QED
  BY <1>1, <1>5, <1>6, <1>8

\* The Core can always issue a token and a session that are not in use.
LEMMA FreshExist ==
  ASSUME Typed
  PROVE  FreshToken \in Token /\ FreshSession \in Session
<1>1. thread \in [Thread -> Position]
  BY DEF Typed, ThreadsTyped
<1>2. \E k \in Token : k \notin {token, core.bound} \cup {thread[t].tok : t \in Thread}
  <2> DEFINE f == [t \in Thread |-> thread[t].tok]
  <2>1. f \in [Thread -> Token \cup {None}]
    BY <1>1 DEF Position
  <2>2. \A t \in Thread : f[t] = thread[t].tok
    OBVIOUS
  <2>3. Cardinality(Token) > Cardinality(Thread) + 2
    BY SessionAssumption DEF SessionAssumption
  <2> HIDE DEF f
  <2>4. PICK k \in Token : k \notin {token, core.bound} \cup {f[t] : t \in Thread}
    BY <2>1, <2>3, SomethingFresh
  <2>5. QED
    BY <2>2, <2>4
<1>3. \E s \in Session : s \notin {session, core.session} \cup {thread[t].sess : t \in Thread}
  <2> DEFINE f == [t \in Thread |-> thread[t].sess]
  <2>1. f \in [Thread -> Session \cup {None}]
    BY <1>1 DEF Position
  <2>2. \A t \in Thread : f[t] = thread[t].sess
    OBVIOUS
  <2>3. Cardinality(Session) > Cardinality(Thread) + 2
    BY SessionAssumption DEF SessionAssumption
  <2> HIDE DEF f
  <2>4. PICK s \in Session : s \notin {session, core.session} \cup {f[t] : t \in Thread}
    BY <2>1, <2>3, SomethingFresh
  <2>5. QED
    BY <2>2, <2>4
<1>4. QED
  BY <1>2, <1>3 DEF FreshToken, FreshSession

-----------------------------------------------------------------------------
(* A step of one thread.                                                   *)

\* Thread t comes to point p, where it holds session s and token k.
Move(t, p, s, k) ==
  /\ thread' \in [Thread -> Position]
  /\ thread'[t].at = p /\ thread'[t].sess = s /\ thread'[t].tok = k
  /\ \A u \in Thread \ {t} : thread'[u] = thread[u]

Point == LoopPoint \cup MainPoint

\* A thread's record replaced by another.
LEMMA RecordMoves ==
  ASSUME Typed, NEW t \in Thread, NEW p \in Point,
         NEW s \in Session \cup {None}, NEW k \in Token \cup {None},
         thread' = [thread EXCEPT ![t] = [at |-> p, sess |-> s, tok |-> k]]
  PROVE  Move(t, p, s, k)
<1> DEFINE new == [at |-> p, sess |-> s, tok |-> k]
<1>1. new \in Position /\ new.at = p /\ new.sess = s /\ new.tok = k
  BY DEF Position, Point
<1>2. thread \in [Thread -> Position]
  BY DEF Typed, ThreadsTyped
<1>3. thread' = [thread EXCEPT ![t] = new]
  OBVIOUS
<1> HIDE DEF new
<1>4. QED
  BY <1>1, <1>2, <1>3 DEF Move

\* Rest forgets the session and token of the request.
LEMMA RestMoves ==
  ASSUME Typed, NEW t \in Thread, NEW p \in Point, Rest(t, p)
  PROVE  Move(t, p, None, None)
<1>1. thread' = [thread EXCEPT ![t] = [at |-> p, sess |-> None, tok |-> None]]
  BY DEF Rest, Resting
<1>2. QED
  BY <1>1, RecordMoves

\* Go keeps them.
LEMMA GoMoves ==
  ASSUME Typed, NEW t \in Thread, NEW p \in Point, Go(t, p)
  PROVE  Move(t, p, thread[t].sess, thread[t].tok)
<1>1. thread \in [Thread -> Position]
  BY DEF Typed, ThreadsTyped
<1>2. [thread[t] EXCEPT !.at = p] = [at |-> p, sess |-> thread[t].sess, tok |-> thread[t].tok]
  BY <1>1 DEF Position
<1>3. thread' = [thread EXCEPT ![t] = [at |-> p, sess |-> thread[t].sess, tok |-> thread[t].tok]]
  BY <1>1, <1>2 DEF Go
<1>4. thread[t].sess \in Session \cup {None} /\ thread[t].tok \in Token \cup {None}
  BY <1>1 DEF Position
<1>5. QED
  BY <1>3, <1>4, RecordMoves

\* A thread that stays on points of its own keeps the types.
LEMMA MoveTyped ==
  ASSUME Typed, NEW t \in Thread, NEW p, NEW s, NEW k, Move(t, p, s, k),
         t = Main => p \in MainPoint, t \in Loop => p \in LoopPoint
  PROVE  ThreadsTyped'
BY SessionAssumption DEF SessionAssumption, Typed, ThreadsTyped, Move, Thread

\* A thread that moves may take or release the lock for itself only.
LEMMA MoveGuarded ==
  ASSUME Guarded, NEW t \in Thread, NEW p, NEW s, NEW k, Move(t, p, s, k),
         t = Main => /\ p \in Opening \cup {"backoff"} => thread[t].at \in Opening \cup {"backoff"}
                     /\ lock' = lock,
         t \in Loop => /\ thread[t].at # "off"
                       /\ p \in Opening <=> lock' = t
                       /\ \A u \in Loop \ {t} : lock' = u <=> lock = u
  PROVE  Guarded'
<1>1. t \in Loop \/ t = Main
  BY DEF Thread
<1>2. Main \in Thread /\ Main \notin Loop /\ Loop \subseteq Thread
  BY SessionAssumption DEF SessionAssumption, Thread
<1>3. CASE t = Main
  BY <1>2, <1>3 DEF Guarded, Move
<1>4. CASE t \in Loop
  BY <1>2, <1>4 DEF Guarded, Move
<1>5. QED
  BY <1>1, <1>3, <1>4

\* A thread comes to where a token is needed only with one.
LEMMA MoveHasToken ==
  ASSUME HasToken, NEW t \in Thread, NEW p, NEW s, NEW k, Move(t, p, s, k),
         token # None => token' # None,
         p \in {"rebind", "rebinding", "connect", "connecting", "wait"} => token' # None,
         p \in {"rebinding", "connecting"} => k # None
  PROVE  HasToken'
BY DEF HasToken, Move

\* Where nothing has been disturbed, what is left to show is the phase; and
\* where everything settles after a disturbance, a session is open.
LEMMA QuietKept ==
  ASSUME Typed', Quiet, Observe,
         ~disturbed /\ ~Crossing /\ Phase /\ ~disturbed' /\ ~Crossing'
           /\ budget'.faults = budget.faults => Phase'
  PROVE  Quiet'
<1>1. SUFFICES ASSUME ~disturbed'
               PROVE  ~Crossing' /\ Phase'
  BY DEF Quiet
<1>2. /\ ~Crossing' /\ budget'.faults = budget.faults
      /\ ~disturbed \/ Settled'
  BY <1>1 DEF Observe
<1>3. CASE ~disturbed
  BY <1>1, <1>2, <1>3 DEF Quiet
<1>4. CASE Settled'
  <2>1. /\ power' = "up" /\ session' # None
        /\ core'.live /\ core'.session = session' /\ core'.bound = token'
        /\ \A t \in Thread : thread'[t].at \in {"idle", "serving"}
    BY <1>4 DEF Settled, Usable
  <2>2. thread'[Main].at \in MainPoint /\ Main \in Thread /\ Loop \subseteq Thread
        /\ \A l \in Loop : thread'[l].at \in LoopPoint
    BY DEF Typed, ThreadsTyped, Thread
  <2>3. thread'[Main].at = "serving" /\ \A l \in Loop : thread'[l].at = "idle"
    BY <2>1, <2>2 DEF MainPoint, LoopPoint, Opening, Requesting
  <2>4. Open'
    BY <2>1, <2>3 DEF Open, Requesting
  <2>5. QED
    BY <1>2, <2>1, <2>4 DEF Phase
<1>5. QED
  BY <1>2, <1>3, <1>4

-----------------------------------------------------------------------------
(* The actions of a loop.                                                  *)

\* A request begins in the session there is, or the round is over.
LEMMA BeginRequestKeeps ==
  ASSUME IInv, NEW l \in Loop, BeginRequest(l), Observe
  PROVE  IInv'
<1> USE DEF IInv
<1>1. /\ l \in Thread /\ l # Main
      /\ power = "up" /\ thread[l].at \in {"next", "idle"}
      /\ UNCHANGED <<core, token, aging, session, lock, stop, power, budget>>
  BY SessionAssumption DEF SessionAssumption, Thread, BeginRequest, At, client
<1>2. \/ session = None /\ thread[l].at = "next" /\ Move(l, "idle", None, None)
      \/ session # None /\ \E p \in {"refresh", "send"} : Move(l, p, session, None)
  <2>1. CASE session = None
    <3>1. "idle" \in Point
      BY DEF Point, LoopPoint
    <3>2. QED
      BY <1>1, <2>1, <3>1, RestMoves DEF BeginRequest, At
  <2>2. CASE session # None
    <3> DEFINE p == IF aging THEN "refresh" ELSE "send"
    <3>1. p \in {"refresh", "send"} /\ p \in Point
      BY DEF Point, LoopPoint, Requesting
    <3>2. thread' = [thread EXCEPT ![l] = [at |-> p, sess |-> session, tok |-> None]]
      BY <2>2 DEF BeginRequest
    <3> HIDE DEF p
    <3>3. session \in Session \cup {None}
      BY DEF Typed
    <3>4. Move(l, p, session, None)
      BY <1>1, <3>1, <3>2, <3>3, RecordMoves
    <3>5. QED
      BY <2>2, <3>1, <3>4
  <2>3. QED
    BY <2>1, <2>2
<1>3. PICK p \in {"idle", "refresh", "send"}, s \in Session \cup {None} :
        /\ Move(l, p, s, None)
        /\ p = "idle" => thread[l].at = "next"
        /\ p # "idle" => session # None /\ s = session
  BY <1>2 DEF Typed
<1>4. Typed'
  <2>1. ThreadsTyped'
    BY <1>1, <1>3, MoveTyped DEF LoopPoint, Requesting
  <2>2. QED
    BY <1>1, <2>1 DEF Typed, Observe
<1>5. Guarded'
  BY <1>1, <1>3, MoveGuarded DEF Guarded, Opening
<1>6. HasToken'
  BY <1>1, <1>3, MoveHasToken
<1>7. Down'
  BY <1>1 DEF Down
<1>8. Quiet'
  <2>1. SUFFICES ASSUME ~Crossing, Phase
                 PROVE  Phase'
    BY <1>4, QuietKept
  <2>2. /\ thread'[Main] = thread[Main] /\ thread'[l].at = p /\ thread'[l].sess = s
        /\ \A m \in Loop \ {l} : thread'[m] = thread[m]
    BY <1>1, <1>3 DEF Move, Thread
  <2>3. ~Starting
    BY <1>1 DEF Starting
  <2>4. CASE Open
    <3>1. Open'
      BY <1>1, <1>3, <2>2, <2>4 DEF Open, Requesting
    <3>2. QED
      BY <1>1, <3>1 DEF Phase
  <2>5. CASE Closing
    <3>1. Closing'
      BY <1>1, <1>3, <2>2, <2>5 DEF Closing
    <3>2. QED
      BY <1>1, <3>1 DEF Phase
  <2>6. CASE Closed
    <3>1. Closed'
      BY <1>1, <1>3, <2>2, <2>6 DEF Closed
    <3>2. QED
      BY <1>1, <3>1 DEF Phase
  <2>7. QED
    BY <1>1, <2>1, <2>3, <2>4, <2>5, <2>6 DEF Phase
<1>9. QED
  BY <1>4, <1>5, <1>6, <1>7, <1>8

\* A quiet refresh crosses no other request, so none is left with the old token.
LEMMA RefreshTokenKeeps ==
  ASSUME IInv, NEW l \in Loop, RefreshToken(l), Observe
  PROVE  IInv'
<1> USE DEF IInv
<1>1. /\ l \in Thread /\ l # Main
      /\ power = "up" /\ thread[l].at = "refresh"
      /\ UNCHANGED <<core, session, lock, stop, power, budget>> /\ aging' = FALSE
  BY SessionAssumption DEF SessionAssumption, Thread, RefreshToken, At, Authenticate
<1>2. token' \in Token /\ token' # None
  BY FreshExist, SessionAssumption DEF SessionAssumption, RefreshToken, Authenticate
<1>3. Move(l, "rebind", thread[l].sess, thread[l].tok)
  <2>1. "rebind" \in Point
    BY DEF Point, LoopPoint, Requesting
  <2>2. QED
    BY <1>1, <2>1, GoMoves DEF RefreshToken
<1>4. Typed'
  <2>1. ThreadsTyped'
    BY <1>1, <1>3, MoveTyped DEF LoopPoint, Requesting
  <2>2. QED
    BY <1>1, <1>2, <2>1 DEF Typed, Observe
<1>5. Guarded'
  BY <1>1, <1>3, MoveGuarded DEF Guarded, Opening
<1>6. HasToken'
  BY <1>1, <1>2, <1>3, MoveHasToken
<1>7. Down'
  BY <1>1 DEF Down
<1>8. Quiet'
  <2>1. SUFFICES ASSUME ~Crossing, Phase
                 PROVE  Phase'
    BY <1>4, QuietKept
  <2>2. /\ thread'[Main] = thread[Main]
        /\ thread'[l].at = "rebind" /\ thread'[l].sess = thread[l].sess
        /\ \A m \in Loop \ {l} : thread'[m] = thread[m]
    BY <1>1, <1>3 DEF Move, Thread
  <2>3. Open
    BY <1>1, <2>1 DEF Phase, Starting, Closing, Closed
  <2>4. \A m \in Loop \ {l} : thread[m].at \in {"idle", "next"}
    BY <1>1, <2>1, <2>3 DEF Crossing, Thread, Open, Requesting
  <2>5. Open'
    BY <1>1, <2>2, <2>3, <2>4 DEF Open, Requesting
  <2>6. QED
    BY <1>1, <2>5 DEF Phase
<1>9. QED
  BY <1>4, <1>5, <1>6, <1>7, <1>8

\* The rebind of a quiet session is accepted: its session is live.
LEMMA RebindAnsweredKeeps ==
  ASSUME IInv, NEW l \in Loop, RebindAnswered(l), Observe
  PROVE  IInv'
<1> USE DEF IInv
<1>1. /\ l \in Thread /\ l # Main
      /\ power = "up" /\ thread[l].at = "rebinding"
      /\ UNCHANGED <<token, aging, session, lock, stop, power>>
  BY SessionAssumption DEF SessionAssumption, Thread, RebindAnswered, At, client
<1>2. thread[l].tok \in Token /\ core \in CoreState /\ budget \in Budget
  BY <1>1 DEF HasToken, Typed, ThreadsTyped, Position
<1>3. /\ core' \in CoreState /\ core' = [core EXCEPT !.bound = core'.bound]
      /\ budget' \in Budget
      /\ budget'.faults = budget.faults /\ SessionLives(l) => core'.bound = thread[l].tok
      /\ ~SessionLives(l) => core' = core
  <2>1. SessionLives(l) => core' = [core EXCEPT !.bound = thread[l].tok]
    BY DEF RebindAnswered
  <2>2. ~SessionLives(l) => core' = core
    BY DEF RebindAnswered
  <2>3. budget' = budget \/ Spend("faults")
    BY DEF RebindAnswered
  <2>4. budget' \in Budget
    BY <1>2, <2>3 DEF Spend, Budget
  <2>5. QED
    BY <1>2, <2>1, <2>2, <2>4 DEF CoreState
<1>4. PICK p \in {"send", "idle", "recover"}, s \in Session \cup {None}, k \in Token \cup {None} :
        /\ Move(l, p, s, k)
        /\ budget'.faults = budget.faults => p # "idle"
        /\ p = "send" => s = thread[l].sess
        /\ p = "recover" <=> ~SessionLives(l)
  <2>1. {"send", "idle", "recover"} \subseteq Point
    BY DEF Point, LoopPoint, Requesting
  <2>2. thread[l].sess \in Session \cup {None} /\ thread[l].tok \in Token \cup {None}
    BY <1>1 DEF Typed, ThreadsTyped, Position
  <2>3. CASE ~SessionLives(l)
    <3>1. Move(l, "recover", thread[l].sess, thread[l].tok)
      BY <1>1, <2>1, <2>3, GoMoves DEF RebindAnswered
    <3>2. QED
      BY <2>2, <2>3, <3>1
  <2>4. CASE SessionLives(l) /\ Go(l, "send")
    <3>1. Move(l, "send", thread[l].sess, thread[l].tok)
      BY <1>1, <2>1, <2>4, GoMoves
    <3>2. QED
      BY <2>2, <2>4, <3>1
  <2>5. CASE SessionLives(l) /\ Spend("faults") /\ Rest(l, "idle")
    <3>1. Move(l, "idle", None, None)
      BY <1>1, <2>1, <2>5, RestMoves
    <3>2. budget'.faults # budget.faults
      BY <1>2, <2>5 DEF Spend, Budget
    <3>3. QED
      BY <2>5, <3>1, <3>2
  <2>6. QED
    BY <2>3, <2>4, <2>5 DEF RebindAnswered
<1>5. Typed'
  <2>1. ThreadsTyped'
    BY <1>1, <1>4, MoveTyped DEF LoopPoint, Requesting
  <2>2. QED
    BY <1>1, <1>3, <2>1 DEF Typed, Observe
<1>6. Guarded'
  BY <1>1, <1>4, MoveGuarded DEF Guarded, Opening
<1>7. HasToken'
  BY <1>1, <1>4, MoveHasToken
<1>8. Down'
  BY <1>1 DEF Down
<1>9. Quiet'
  <2>1. SUFFICES ASSUME ~Crossing, Phase, budget'.faults = budget.faults
                 PROVE  Phase'
    BY <1>5, QuietKept
  <2>2. /\ thread'[Main] = thread[Main]
        /\ thread'[l].at = p /\ thread'[l].sess = s
        /\ \A m \in Loop \ {l} : thread'[m] = thread[m]
    BY <1>1, <1>4 DEF Move, Thread
  <2>3. Open
    BY <1>1, <2>1 DEF Phase, Starting, Closing, Closed
  <2>4. SessionLives(l) /\ thread[l].sess = session /\ thread[l].tok = token
    BY <1>1, <2>3 DEF Open, Requesting, SessionLives
  <2>5. p = "send" /\ s = session /\ core'.bound = token
    BY <1>3, <1>4, <2>1, <2>4
  <2>6. core'.live /\ core'.session = core.session
    <3>1. core.live /\ core \in CoreState
      BY <1>2, <2>3 DEF Open
    <3>2. QED
      BY <1>3, <3>1 DEF CoreState
  <2>7. Open'
    BY <1>1, <2>2, <2>3, <2>5, <2>6 DEF Open, Requesting
  <2>8. QED
    BY <1>1, <2>7 DEF Phase
<1>10. QED
  BY <1>5, <1>6, <1>7, <1>8, <1>9

\* So is a request, which crosses no rebind.
LEMMA RequestAnsweredKeeps ==
  ASSUME IInv, NEW l \in Loop, RequestAnswered(l), Observe
  PROVE  IInv'
<1> USE DEF IInv
<1>1. /\ l \in Thread /\ l # Main
      /\ power = "up" /\ thread[l].at = "sent"
      /\ UNCHANGED <<core, token, aging, session, lock, stop, power, budget>>
  BY SessionAssumption DEF SessionAssumption, Thread, RequestAnswered, At, client
<1>2. PICK p \in {"idle", "next", "recover"}, s \in Session \cup {None}, k \in Token \cup {None} :
        /\ Move(l, p, s, k)
        /\ Accepted(l) => p # "recover"
  <2>1. {"idle", "next", "recover"} \subseteq Point
    BY DEF Point, LoopPoint
  <2>2. thread[l].sess \in Session \cup {None} /\ thread[l].tok \in Token \cup {None}
    BY <1>1 DEF Typed, ThreadsTyped, Position
  <2>3. CASE ~Accepted(l)
    <3>1. Move(l, "recover", thread[l].sess, thread[l].tok)
      BY <1>1, <2>1, <2>3, GoMoves DEF RequestAnswered
    <3>2. QED
      BY <2>2, <2>3, <3>1
  <2>4. CASE Accepted(l)
    <3>1. Move(l, "idle", None, None) \/ Move(l, "next", None, None)
      BY <1>1, <2>1, <2>4, RestMoves DEF RequestAnswered
    <3>2. QED
      BY <2>4, <3>1
  <2>5. QED
    BY <2>3, <2>4
<1>3. Typed'
  <2>1. ThreadsTyped'
    BY <1>1, <1>2, MoveTyped DEF LoopPoint
  <2>2. QED
    BY <1>1, <2>1 DEF Typed, Observe
<1>4. Guarded'
  BY <1>1, <1>2, MoveGuarded DEF Guarded, Opening
<1>5. HasToken'
  BY <1>1, <1>2, MoveHasToken
<1>6. Down'
  BY <1>1 DEF Down
<1>7. Quiet'
  <2>1. SUFFICES ASSUME ~Crossing, Phase
                 PROVE  Phase'
    BY <1>3, QuietKept
  <2>2. /\ thread'[Main] = thread[Main] /\ thread'[l].at = p
        /\ \A m \in Loop \ {l} : thread'[m] = thread[m]
    BY <1>1, <1>2 DEF Move, Thread
  <2>3. Open
    BY <1>1, <2>1 DEF Phase, Starting, Closing, Closed
  <2>4. \A m \in Loop : thread[m].at \notin {"rebind", "rebinding"}
    BY <1>1, <2>1 DEF Crossing, Thread
  <2>5. Accepted(l)
    BY <1>1, <2>3, <2>4 DEF Open, Requesting, Accepted, SessionLives
  <2>6. Open'
    BY <1>1, <1>2, <2>2, <2>3, <2>4, <2>5 DEF Open, Requesting
  <2>7. QED
    BY <1>1, <2>6 DEF Phase
<1>8. QED
  BY <1>3, <1>4, <1>5, <1>6, <1>7

\* A loop enters recovery only where something was disturbed.
LEMMA EnterRecoveryKeeps ==
  ASSUME IInv, NEW l \in Loop, EnterRecovery(l), Observe
  PROVE  IInv'
<1> USE DEF IInv
<1>1. /\ l \in Thread /\ l # Main
      /\ power = "up" /\ thread[l].at = "recover" /\ lock = None
      /\ UNCHANGED <<core, token, aging, session, stop, power, budget>>
  BY SessionAssumption DEF SessionAssumption, Thread, EnterRecovery, At
<1>2. PICK p \in {"idle", "authenticate"}, s \in Session \cup {None}, k \in Token \cup {None} :
        /\ Move(l, p, s, k)
        /\ lock' = IF p = "idle" THEN lock ELSE l
  <2>1. {"idle", "authenticate"} \subseteq Point
    BY DEF Point, LoopPoint, Opening
  <2>2. thread[l].sess \in Session \cup {None} /\ thread[l].tok \in Token \cup {None}
    BY <1>1 DEF Typed, ThreadsTyped, Position
  <2>3. CASE Rest(l, "idle") /\ lock' = lock
    <3>1. Move(l, "idle", None, None)
      BY <1>1, <2>1, <2>3, RestMoves
    <3>2. QED
      BY <2>3, <3>1
  <2>4. CASE Go(l, "authenticate") /\ lock' = l
    <3>1. Move(l, "authenticate", thread[l].sess, thread[l].tok)
      BY <1>1, <2>1, <2>4, GoMoves
    <3>2. QED
      BY <2>2, <2>4, <3>1
  <2>5. QED
    BY <2>3, <2>4 DEF EnterRecovery
<1>3. None \notin Loop
  BY SessionAssumption DEF SessionAssumption, Thread
<1>4. Typed'
  <2>1. ThreadsTyped'
    BY <1>1, <1>2, MoveTyped DEF LoopPoint, Opening
  <2>2. QED
    BY <1>1, <1>2, <2>1 DEF Typed, Observe
<1>5. Guarded'
  BY <1>1, <1>2, <1>3, MoveGuarded DEF Guarded, Opening
<1>6. HasToken'
  BY <1>1, <1>2, MoveHasToken
<1>7. Down'
  BY <1>1 DEF Down
<1>8. Quiet'
  <2>1. SUFFICES ASSUME Phase
                 PROVE  Phase'
    BY <1>4, QuietKept
  <2>2. FALSE
    BY <1>1, <2>1 DEF Phase, Starting, Open, Closing, Closed, Requesting
  <2>3. QED
    BY <2>2
<1>9. QED
  BY <1>4, <1>5, <1>6, <1>7, <1>8

-----------------------------------------------------------------------------
(* The actions of any thread.                                              *)

\* What every proof about a step of a thread begins with.
LEMMA ThreadsAre ==
  ASSUME IInv, NEW t \in Thread
  PROVE  /\ t = Main \/ t \in Loop
         /\ Main \in Thread /\ Main \notin Loop /\ Loop \subseteq Thread
         /\ None \notin Thread
         /\ thread[t].sess \in Session \cup {None} /\ thread[t].tok \in Token \cup {None}
         /\ thread[t].at \in Point
         /\ t \in Loop => thread[t].at \in LoopPoint
         /\ t = Main => thread[t].at \in MainPoint
BY SessionAssumption DEF SessionAssumption, Thread, IInv, Typed, ThreadsTyped, Position, Point

\* A request is sent with the token in use.
LEMMA SendRequestKeeps ==
  ASSUME IInv, NEW t \in Thread, SendRequest(t), Observe
  PROVE  IInv'
<1> USE DEF IInv
<1>1. /\ t = Main \/ t \in Loop
      /\ Main \in Thread /\ Main \notin Loop /\ Loop \subseteq Thread
      /\ thread[t].sess \in Session \cup {None}
      /\ t \in Loop => thread[t].at \in LoopPoint
      /\ t = Main => thread[t].at \in MainPoint
      /\ token \in Token \cup {None}
  BY ThreadsAre DEF Typed
<1>2. /\ power = "up"
      /\ UNCHANGED <<core, token, aging, session, lock, stop, power, budget>>
  BY DEF SendRequest, client
<1>3. PICK p \in {"rebinding", "sent", "connecting", "disconnecting"} :
        /\ p = InFlight[thread[t].at]
        /\ p = "rebinding" => thread[t].at = "rebind"
        /\ p = "sent" => thread[t].at = "send"
        /\ p = "connecting" => thread[t].at = "connect"
        /\ p = "disconnecting" => thread[t].at = "disconnect"
  <2>1. thread[t].at \in {"rebind", "send", "connect", "disconnect"}
    BY DEF SendRequest, InFlight
  <2>2. /\ InFlight["rebind"] = "rebinding" /\ InFlight["send"] = "sent"
        /\ InFlight["connect"] = "connecting" /\ InFlight["disconnect"] = "disconnecting"
    BY DEF InFlight
  <2>3. QED
    BY <2>1, <2>2
<1>4. Move(t, p, thread[t].sess, token)
  <2>1. thread \in [Thread -> Position]
    BY DEF Typed, ThreadsTyped
  <2>2. thread' = [thread EXCEPT ![t].at = p, ![t].tok = token]
    BY <1>3 DEF SendRequest
  <2>3. p \in LoopPoint \cup MainPoint
    BY DEF LoopPoint, MainPoint, Opening, Requesting
  <2>4. /\ thread'[t].at = p /\ thread'[t].sess = thread[t].sess /\ thread'[t].tok = token
        /\ \A u \in Thread \ {t} : thread'[u] = thread[u]
    BY <2>1, <2>2 DEF Position
  <2>5. thread' \in [Thread -> Position]
    BY <1>1, <2>1, <2>2, <2>3 DEF Position
  <2>6. QED
    BY <2>4, <2>5 DEF Move
<1>5. Typed'
  <2>1. ThreadsTyped'
    BY <1>1, <1>3, <1>4, MoveTyped DEF LoopPoint, MainPoint, Opening, Requesting
  <2>2. QED
    BY <1>2, <2>1 DEF Typed, Observe
<1>6. Guarded'
  BY <1>1, <1>2, <1>3, <1>4, MoveGuarded DEF Guarded, Opening
<1>7. HasToken'
  <2>1. p \in {"rebinding", "connecting"} => token # None
    BY <1>3 DEF HasToken
  <2>2. QED
    BY <1>2, <1>4, <2>1, MoveHasToken
<1>8. Down'
  BY <1>2 DEF Down
<1>9. Quiet'
  <2>1. SUFFICES ASSUME Phase
                 PROVE  Phase'
    BY <1>5, QuietKept
  <2>2. /\ thread'[t].at = p /\ thread'[t].sess = thread[t].sess /\ thread'[t].tok = token
        /\ \A u \in Thread \ {t} : thread'[u] = thread[u]
    BY <1>4 DEF Move
  <2>3. CASE Starting
    <3>1. Starting'
      BY <1>1, <1>2, <1>3, <2>2, <2>3 DEF Starting, Opening
    <3>2. QED
      BY <1>2, <3>1 DEF Phase
  <2>4. CASE Open
    <3>1. Open'
      BY <1>1, <1>2, <1>3, <2>2, <2>4 DEF Open, Requesting
    <3>2. QED
      BY <1>2, <3>1 DEF Phase
  <2>5. CASE Closing
    <3>1. Closing'
      BY <1>1, <1>2, <1>3, <2>2, <2>5 DEF Closing
    <3>2. QED
      BY <1>2, <3>1 DEF Phase
  <2>6. ~Closed
    BY <1>1, <1>3 DEF Closed
  <2>7. QED
    BY <1>2, <2>1, <2>3, <2>4, <2>5, <2>6 DEF Phase
<1>10. QED
  BY <1>5, <1>6, <1>7, <1>8, <1>9

\* Undisturbed, only the start authenticates to connect.
LEMMA AuthenticateToConnectKeeps ==
  ASSUME IInv, NEW t \in Thread, AuthenticateToConnect(t), Observe
  PROVE  IInv'
<1> USE DEF IInv
<1>1. /\ t = Main \/ t \in Loop
      /\ Main \in Thread /\ Main \notin Loop /\ Loop \subseteq Thread
  BY ThreadsAre
<1>2. /\ power = "up" /\ thread[t].at \in {"authenticate", "connect"}
      /\ UNCHANGED <<core, session, lock, stop, power, budget>> /\ aging' = FALSE
  BY DEF AuthenticateToConnect, At, Authenticate
<1>3. token' \in Token /\ token' # None
  BY FreshExist, SessionAssumption DEF SessionAssumption, AuthenticateToConnect, Authenticate
<1>4. Move(t, "connect", thread[t].sess, thread[t].tok)
  <2>1. "connect" \in Point
    BY DEF Point, LoopPoint, Opening
  <2>2. QED
    BY <2>1, GoMoves DEF AuthenticateToConnect
<1>5. Typed'
  <2>1. ThreadsTyped'
    BY <1>4, MoveTyped DEF LoopPoint, MainPoint, Opening
  <2>2. QED
    BY <1>2, <1>3, <2>1 DEF Typed, Observe
<1>6. Guarded'
  BY <1>1, <1>2, <1>4, MoveGuarded DEF Guarded, Opening
<1>7. HasToken'
  BY <1>3, <1>4, MoveHasToken
<1>8. Down'
  BY <1>2 DEF Down
<1>9. Quiet'
  <2>1. SUFFICES ASSUME Phase
                 PROVE  Phase'
    BY <1>5, QuietKept
  <2>2. /\ thread'[t].at = "connect"
        /\ \A u \in Thread \ {t} : thread'[u] = thread[u]
    BY <1>4 DEF Move
  <2>3. Starting /\ t = Main
    BY <1>1, <1>2, <2>1 DEF Phase, Starting, Open, Closing, Closed, Requesting
  <2>4. Starting'
    BY <1>1, <1>2, <2>2, <2>3 DEF Starting, Opening
  <2>5. QED
    BY <1>2, <2>4 DEF Phase
<1>10. QED
  BY <1>5, <1>6, <1>7, <1>8, <1>9

\* An exception: where the thread is then, and that the lock is free of it.
LEMMA AbandonMoves ==
  ASSUME IInv, NEW t \in Thread, power = "up", Abandon(t)
  PROVE  /\ t \in Loop => Move(t, "idle", None, None)
         /\ t = Main => IF thread[t].at = "disconnecting"
                          THEN Move(t, "joining", None, None)
                          ELSE Move(t, "backoff", None, None)
         /\ t = Main => lock' = lock
         /\ t \in Loop => lock' # t /\ \A u \in Loop \ {t} : lock' = u <=> lock = u
         /\ lock' \in Loop \cup {None}
<1> USE DEF IInv
<1>1. /\ Main \notin Loop /\ None \notin Thread /\ Main \in Thread /\ Loop \subseteq Thread
      /\ {"idle", "joining", "backoff"} \subseteq Point
  BY ThreadsAre DEF Point, LoopPoint, MainPoint
<1>2. lock \in Loop \cup {None} /\ lock' = IF lock = t THEN None ELSE lock
  BY DEF Abandon, Typed
<1>3. t \in Loop => Move(t, "idle", None, None)
  <2>1. t \in Loop => t # Main /\ thread[t].at # "disconnecting"
    BY <1>1, ThreadsAre DEF LoopPoint, Opening, Requesting
  <2>2. t \in Loop => Rest(t, "idle")
    BY <2>1 DEF Abandon, At
  <2>3. QED
    BY <1>1, <2>2, RestMoves
<1>4. t = Main /\ thread[t].at = "disconnecting" => Move(t, "joining", None, None)
  <2>1. t = Main /\ thread[t].at = "disconnecting" => Rest(t, "joining")
    BY DEF Abandon, At
  <2>2. QED
    BY <1>1, <2>1, RestMoves
<1>5. t = Main /\ thread[t].at # "disconnecting" => Move(t, "backoff", None, None)
  <2>1. t = Main /\ thread[t].at # "disconnecting" => Rest(t, "backoff")
    BY DEF Abandon, At
  <2>2. QED
    BY <1>1, <2>1, RestMoves
<1>6. QED
  BY <1>1, <1>2, <1>3, <1>4, <1>5

\* A request that fails disturbs, and leaves no lock behind.
LEMMA RequestFailsKeeps ==
  ASSUME IInv, NEW t \in Thread, RequestFails(t), Observe
  PROVE  IInv'
<1> USE DEF IInv
<1>1. /\ t = Main \/ t \in Loop
      /\ Main \in Thread /\ Main \notin Loop /\ Loop \subseteq Thread
      /\ t = Main => thread[t].at \in MainPoint
  BY ThreadsAre
<1>2. /\ power = "up"
      /\ thread[t].at \in {"refresh", "rebinding", "sent", "authenticate", "connecting",
                           "disconnecting"}
      /\ UNCHANGED <<core, token, aging, session, stop, power>>
  BY DEF RequestFails
<1>3. budget' \in Budget /\ budget'.faults # budget.faults
  <2>1. budget \in Budget
    BY DEF Typed
  <2>2. QED
    BY <2>1 DEF RequestFails, Spend, Budget
<1>4. PICK p \in {"idle", "joining", "backoff"} :
        /\ Move(t, p, None, None)
        /\ t \in Loop => p = "idle"
        /\ t = Main => p = IF thread[t].at = "disconnecting" THEN "joining" ELSE "backoff"
  BY <1>1, <1>2, AbandonMoves DEF RequestFails
<1>5. /\ t = Main => lock' = lock
      /\ t \in Loop => lock' # t /\ \A u \in Loop \ {t} : lock' = u <=> lock = u
      /\ lock' \in Loop \cup {None}
  BY <1>2, AbandonMoves DEF RequestFails
<1>6. Typed'
  <2>1. ThreadsTyped'
    BY <1>1, <1>4, MoveTyped DEF LoopPoint, MainPoint
  <2>2. QED
    BY <1>2, <1>3, <1>5, <2>1 DEF Typed, Observe
<1>7. Guarded'
  <2>1. t = Main /\ p \in Opening \cup {"backoff"} => thread[t].at \in Opening \cup {"backoff"}
    BY <1>1, <1>2, <1>4 DEF Opening, MainPoint
  <2>2. t \in Loop => p \notin Opening /\ thread[t].at # "off"
    BY <1>2, <1>4 DEF Opening
  <2>3. QED
    BY <1>1, <1>4, <1>5, <2>1, <2>2, MoveGuarded
<1>8. HasToken'
  BY <1>2, <1>4, MoveHasToken
<1>9. Down'
  BY <1>2 DEF Down
<1>10. Quiet'
  BY <1>3, <1>6, QuietKept
<1>11. QED
  BY <1>6, <1>7, <1>8, <1>9, <1>10

\* The wait for a lease ends in another attempt ...
LEMMA WaitOverKeeps ==
  ASSUME IInv, NEW t \in Thread, WaitOver(t), Observe
  PROVE  IInv'
<1> USE DEF IInv
<1>1. /\ t = Main \/ t \in Loop
      /\ Main \in Thread /\ Main \notin Loop /\ Loop \subseteq Thread
  BY ThreadsAre
<1>2. /\ power = "up" /\ thread[t].at = "wait"
      /\ UNCHANGED <<core, token, aging, session, lock, stop, power, budget>>
  BY DEF WaitOver, At, client
<1>3. Move(t, "connect", thread[t].sess, thread[t].tok)
  <2>1. "connect" \in Point
    BY DEF Point, LoopPoint, Opening
  <2>2. QED
    BY <2>1, GoMoves DEF WaitOver
<1>4. Typed'
  <2>1. ThreadsTyped'
    BY <1>3, MoveTyped DEF LoopPoint, MainPoint, Opening
  <2>2. QED
    BY <1>2, <2>1 DEF Typed, Observe
<1>5. Guarded'
  BY <1>1, <1>2, <1>3, MoveGuarded DEF Guarded, Opening
<1>6. HasToken'
  <2>1. token # None
    BY <1>2 DEF HasToken
  <2>2. QED
    BY <1>2, <1>3, <2>1, MoveHasToken
<1>7. Down'
  BY <1>2 DEF Down
<1>8. Quiet'
  <2>1. SUFFICES ASSUME Phase
                 PROVE  Phase'
    BY <1>4, QuietKept
  <2>2. /\ thread'[t].at = "connect"
        /\ \A u \in Thread \ {t} : thread'[u] = thread[u]
    BY <1>3 DEF Move
  <2>3. Starting /\ t = Main
    BY <1>1, <1>2, <2>1 DEF Phase, Starting, Open, Closing, Closed, Requesting
  <2>4. Starting'
    BY <1>1, <1>2, <2>2, <2>3 DEF Starting, Opening
  <2>5. QED
    BY <1>2, <2>4 DEF Phase
<1>9. QED
  BY <1>4, <1>5, <1>6, <1>7, <1>8

\* ... or, at a stop, without a session and without the lock.
LEMMA WaitStoppedKeeps ==
  ASSUME IInv, NEW t \in Thread, WaitStopped(t), Observe
  PROVE  IInv'
<1> USE DEF IInv
<1>1. /\ t = Main \/ t \in Loop
      /\ Main \in Thread /\ Main \notin Loop /\ Loop \subseteq Thread /\ None \notin Thread
      /\ lock \in Loop \cup {None}
  BY ThreadsAre DEF Typed
<1>2. /\ power = "up" /\ thread[t].at = "wait"
      /\ UNCHANGED <<core, token, aging, session, stop, power, budget>>
      /\ lock' = IF lock = t THEN None ELSE lock
  BY DEF WaitStopped, At, Leave
<1>3. PICK p \in {"idle", "serving"} :
        /\ Move(t, p, None, None)
        /\ p = IF t = Main THEN "serving" ELSE "idle"
  <2>1. {"idle", "serving"} \subseteq Point
    BY DEF Point, LoopPoint, MainPoint
  <2>2. Rest(t, IF t = Main THEN "serving" ELSE "idle")
    BY DEF WaitStopped, Leave
  <2>3. QED
    BY <2>1, <2>2, RestMoves
<1>4. Typed'
  <2>1. ThreadsTyped'
    BY <1>1, <1>3, MoveTyped DEF LoopPoint, MainPoint
  <2>2. QED
    BY <1>1, <1>2, <2>1 DEF Typed, Observe
<1>5. Guarded'
  BY <1>1, <1>2, <1>3, MoveGuarded DEF Opening
<1>6. HasToken'
  BY <1>2, <1>3, MoveHasToken
<1>7. Down'
  BY <1>2 DEF Down
<1>8. Quiet'
  <2>1. SUFFICES ASSUME Phase
                 PROVE  Phase'
    BY <1>4, QuietKept
  <2>2. /\ thread'[t].at = p
        /\ \A u \in Thread \ {t} : thread'[u] = thread[u]
    BY <1>3 DEF Move
  <2>3. Starting /\ t = Main
    BY <1>1, <1>2, <2>1 DEF Phase, Starting, Open, Closing, Closed, Requesting
  <2>4. Starting'
    BY <1>1, <1>2, <1>3, <2>2, <2>3 DEF Starting
  <2>5. QED
    BY <1>2, <2>4 DEF Phase
<1>9. QED
  BY <1>4, <1>5, <1>6, <1>7, <1>8

\* The first session is bound to the token in use, for the start has the process
\* to itself, and every loop begins in that session.
LEMMA ConnectAnsweredKeeps ==
  ASSUME IInv, NEW t \in Thread, ConnectAnswered(t), Observe
  PROVE  IInv'
<1> USE DEF IInv
<1>1. /\ t = Main \/ t \in Loop
      /\ Main \in Thread /\ Main \notin Loop /\ Loop \subseteq Thread /\ None \notin Thread
      /\ lock \in Loop \cup {None} /\ core \in CoreState /\ budget \in Budget
  BY ThreadsAre DEF Typed
<1>2. /\ power = "up" /\ thread[t].at = "connecting"
      /\ UNCHANGED <<token, aging, stop, power>>
  BY DEF ConnectAnswered, At
<1>3. Down'
  BY <1>2 DEF Down
<1>4. thread[t].tok \in Token /\ token # None
  BY <1>2, ThreadsAre DEF HasToken
<1>5. Phase => Starting /\ t = Main
  BY <1>1, <1>2 DEF Phase, Starting, Open, Closing, Closed, Requesting
<1>6. CASE core.live /\ Go(t, "wait") /\ UNCHANGED <<core, session, lock, budget>>
  <2>1. Move(t, "wait", thread[t].sess, thread[t].tok)
    <3>1. "wait" \in Point
      BY DEF Point, LoopPoint, Opening
    <3>2. QED
      BY <1>6, <3>1, GoMoves
  <2>2. Typed'
    <3>1. ThreadsTyped'
      BY <2>1, MoveTyped DEF LoopPoint, MainPoint, Opening
    <3>2. QED
      BY <1>2, <1>6, <3>1 DEF Typed, Observe
  <2>3. Guarded'
    BY <1>1, <1>2, <1>6, <2>1, MoveGuarded DEF Guarded, Opening
  <2>4. HasToken'
    BY <1>2, <1>4, <2>1, MoveHasToken
  <2>5. Quiet'
    <3>1. SUFFICES ASSUME Phase
                   PROVE  Phase'
      BY <2>2, QuietKept
    <3>2. /\ thread'[t].at = "wait"
          /\ \A u \in Thread \ {t} : thread'[u] = thread[u]
      BY <2>1 DEF Move
    <3>3. Starting'
      BY <1>1, <1>2, <1>5, <1>6, <3>1, <3>2 DEF Starting, Opening
    <3>4. QED
      BY <1>2, <3>3 DEF Phase
  <2>6. QED
    BY <1>3, <2>2, <2>3, <2>4, <2>5
<1> DEFINE opened == [session |-> FreshSession, bound |-> thread[t].tok,
                      live |-> TRUE, ours |-> TRUE]
<1>7. CASE core' = opened /\ Spend("faults") /\ Abandon(t) /\ UNCHANGED session
  <2>1. core' \in CoreState
    BY <1>4, <1>7, FreshExist DEF CoreState
  <2>2. budget' \in Budget /\ budget'.faults # budget.faults
    BY <1>1, <1>7 DEF Spend, Budget
  <2>3. PICK p \in {"idle", "backoff"} :
          /\ Move(t, p, None, None)
          /\ t \in Loop => p = "idle"
          /\ t = Main => p = "backoff"
    BY <1>1, <1>2, <1>7, AbandonMoves
  <2>4. /\ t = Main => lock' = lock
        /\ t \in Loop => lock' # t /\ \A u \in Loop \ {t} : lock' = u <=> lock = u
        /\ lock' \in Loop \cup {None}
    BY <1>2, <1>7, AbandonMoves
  <2>5. Typed'
    <3>1. ThreadsTyped'
      BY <1>1, <2>3, MoveTyped DEF LoopPoint, MainPoint
    <3>2. QED
      BY <1>2, <1>7, <2>1, <2>2, <2>4, <3>1 DEF Typed, Observe
  <2>6. Guarded'
    BY <1>1, <1>2, <2>3, <2>4, MoveGuarded DEF Opening
  <2>7. HasToken'
    BY <1>2, <2>3, MoveHasToken
  <2>8. Quiet'
    BY <2>2, <2>5, QuietKept
  <2>9. QED
    BY <1>3, <2>5, <2>6, <2>7, <2>8
<1>8. CASE core' = opened /\ session' = core'.session /\ LeaveWithSession(t)
             /\ UNCHANGED budget
  <2>1. /\ core' \in CoreState /\ core'.live /\ core'.session = session'
        /\ core'.bound = thread[t].tok /\ session' \in Session /\ session' # None
    BY <1>4, <1>8, FreshExist, SessionAssumption DEF CoreState, SessionAssumption
  <2>2. lock' = IF lock = t THEN None ELSE lock
    BY <1>8 DEF LeaveWithSession
  <2>3. CASE t \in Loop
    <3>1. Move(t, "idle", None, None)
      <4>1. thread' = [u \in Thread |-> IF u = t THEN Resting("idle") ELSE thread[u]]
        BY <1>1, <1>8, <2>3 DEF LeaveWithSession
      <4>2. thread \in [Thread -> Position]
        BY DEF Typed, ThreadsTyped
      <4>3. Rest(t, "idle")
        BY <4>1, <4>2 DEF Rest
      <4>4. "idle" \in Point
        BY DEF Point, LoopPoint
      <4>5. QED
        BY <4>3, <4>4, RestMoves
    <3>2. Typed'
      <4>1. ThreadsTyped'
        BY <1>1, <2>3, <3>1, MoveTyped DEF LoopPoint
      <4>2. QED
        BY <1>1, <1>2, <1>8, <2>1, <2>2, <4>1 DEF Typed, Observe
    <3>3. Guarded'
      BY <1>1, <1>2, <2>2, <2>3, <3>1, MoveGuarded DEF Opening
    <3>4. HasToken'
      BY <1>2, <3>1, MoveHasToken
    <3>5. Quiet'
      BY <1>1, <1>5, <2>3, <3>2, QuietKept
    <3>6. QED
      BY <1>3, <3>2, <3>3, <3>4, <3>5
  <2>4. CASE t = Main
    <3>1. thread' = [u \in Thread |-> IF u = Main THEN Resting("serving") ELSE Resting("idle")]
      BY <1>1, <1>8, <2>4 DEF LeaveWithSession
    <3>2. /\ thread'[Main].at = "serving" /\ \A l \in Loop : thread'[l].at = "idle"
          /\ thread' \in [Thread -> Position]
      <4>1. Resting("serving") \in Position /\ Resting("idle") \in Position
        BY DEF Resting, Position, LoopPoint, MainPoint
      <4>2. Resting("serving").at = "serving" /\ Resting("idle").at = "idle"
        BY DEF Resting
      <4>3. QED
        BY <1>1, <3>1, <4>1, <4>2
    <3>3. lock' = None /\ lock = None
      <4>1. \A l \in Loop : thread[l].at = "off"
        BY <1>2, <2>4 DEF Guarded, Opening
      <4>2. \A l \in Loop : lock # l
        BY <4>1 DEF Guarded, Opening
      <4>3. QED
        BY <1>1, <2>2, <4>2
    <3>4. Typed'
      <4>1. ThreadsTyped'
        BY <1>1, <3>2 DEF ThreadsTyped, LoopPoint, MainPoint
      <4>2. QED
        BY <1>1, <1>2, <1>8, <2>1, <3>3, <4>1 DEF Typed, Observe
    <3>5. Guarded'
      BY <1>1, <3>2, <3>3 DEF Guarded, Opening
    <3>6. HasToken'
      BY <3>2 DEF HasToken, Thread
    <3>7. Quiet'
      <4>1. SUFFICES ASSUME Phase
                     PROVE  Phase'
        BY <3>4, QuietKept
      <4>2. core'.bound = token'
        BY <1>2, <1>5, <2>1, <4>1 DEF Starting
      <4>3. Open'
        BY <2>1, <3>2, <4>2 DEF Open, Requesting
      <4>4. QED
        BY <1>2, <4>3 DEF Phase
    <3>8. QED
      BY <1>3, <3>4, <3>5, <3>6, <3>7
  <2>5. QED
    BY <1>1, <2>3, <2>4
<1>9. QED
  BY <1>6, <1>7, <1>8 DEF ConnectAnswered

-----------------------------------------------------------------------------
(* The actions of run_forever and its end.                                 *)

\* The start backs off only after something failed.
LEMMA BackoffOverKeeps ==
  ASSUME IInv, BackoffOver, Observe
  PROVE  IInv'
<1> USE DEF IInv
<1>1. Main \in Thread /\ Main \notin Loop /\ Loop \subseteq Thread
  BY SessionAssumption DEF SessionAssumption, Thread
<1>2. /\ power = "up" /\ thread[Main].at = "backoff"
      /\ UNCHANGED <<core, token, aging, session, lock, stop, power, budget>>
  BY DEF BackoffOver, At, client
<1>3. PICK p \in {"serving", "authenticate"} : Move(Main, p, None, None)
  <2>1. {"serving", "authenticate"} \subseteq Point
    BY DEF Point, LoopPoint, MainPoint, Opening
  <2>2. Rest(Main, "serving") \/ Rest(Main, "authenticate")
    BY DEF BackoffOver
  <2>3. QED
    BY <1>1, <2>1, <2>2, RestMoves
<1>4. Typed'
  <2>1. ThreadsTyped'
    BY <1>1, <1>3, MoveTyped DEF MainPoint, Opening
  <2>2. QED
    BY <1>2, <2>1 DEF Typed, Observe
<1>5. Guarded'
  BY <1>1, <1>2, <1>3, MoveGuarded
<1>6. HasToken'
  BY <1>1, <1>2, <1>3, MoveHasToken
<1>7. Down'
  BY <1>2 DEF Down
<1>8. Quiet'
  <2>1. SUFFICES ASSUME Phase
                 PROVE  Phase'
    BY <1>4, QuietKept
  <2>2. FALSE
    BY <1>2, <2>1 DEF Phase, Starting, Open, Closing, Closed, Opening
  <2>3. QED
    BY <2>2
<1>9. QED
  BY <1>4, <1>5, <1>6, <1>7, <1>8

\* A stop that crosses no request finds the session bound to the token in use.
LEMMA TakeSessionKeeps ==
  ASSUME IInv, TakeSession, Observe
  PROVE  IInv'
<1> USE DEF IInv
<1>1. Main \in Thread /\ Main \notin Loop /\ Loop \subseteq Thread
  BY SessionAssumption DEF SessionAssumption, Thread
<1>2. /\ power = "up" /\ thread[Main].at = "serving" /\ session' = None
      /\ UNCHANGED <<core, token, aging, lock, stop, power, budget>>
  BY DEF TakeSession, At
<1>3. PICK p \in {"joining", "disconnect"} :
        /\ Move(Main, p, session, None)
        /\ p = IF session = None THEN "joining" ELSE "disconnect"
  <2> DEFINE q == IF session = None THEN "joining" ELSE "disconnect"
  <2>1. q \in {"joining", "disconnect"} /\ q \in Point
    BY DEF Point, MainPoint
  <2>2. thread' = [thread EXCEPT ![Main] = [at |-> q, sess |-> session, tok |-> None]]
    BY DEF TakeSession
  <2>3. session \in Session \cup {None}
    BY DEF Typed
  <2>4. q = IF session = None THEN "joining" ELSE "disconnect"
    OBVIOUS
  <2> HIDE DEF q
  <2>5. Move(Main, q, session, None)
    BY <1>1, <2>1, <2>2, <2>3, RecordMoves
  <2>6. QED
    BY <2>1, <2>4, <2>5
<1>4. Typed'
  <2>1. ThreadsTyped'
    BY <1>1, <1>3, MoveTyped DEF MainPoint
  <2>2. QED
    BY <1>2, <2>1 DEF Typed, Observe
<1>5. Guarded'
  BY <1>1, <1>2, <1>3, MoveGuarded DEF Opening
<1>6. HasToken'
  BY <1>1, <1>2, <1>3, MoveHasToken
<1>7. Down'
  BY <1>2 DEF Down
<1>8. Quiet'
  <2>1. SUFFICES ASSUME Phase, ~Crossing'
                 PROVE  Phase'
    BY <1>4, QuietKept
  <2>2. /\ thread'[Main].at = p /\ thread'[Main].sess = session
        /\ \A l \in Loop : thread'[l] = thread[l]
    BY <1>1, <1>3 DEF Move
  <2>3. CASE Starting
    <3>1. Starting'
      BY <1>2, <1>3, <2>2, <2>3 DEF Starting
    <3>2. QED
      BY <1>2, <3>1 DEF Phase
  <2>4. CASE Open
    <3>1. p = "disconnect"
      BY <1>3, <2>4 DEF Open
    <3>2. \A l \in Loop : thread[l].at \notin Requesting
      <4>1. \A l \in Loop : thread'[l].at \in {"off", "idle", "next", "recover", "wait",
                                              "serving", "joining"}
        BY <1>1, <2>1, <2>2, <3>1 DEF Crossing
      <4>2. QED
        BY <2>2, <4>1 DEF Requesting
    <3>3. \A l \in Loop : thread[l].at \in {"idle", "next"}
      BY <2>4, <3>2 DEF Open
    <3>4. core.bound = token
      BY <2>4, <3>3 DEF Open
    <3>5. Closing'
      BY <1>2, <2>2, <2>4, <3>1, <3>3, <3>4 DEF Open, Closing
    <3>6. QED
      BY <1>2, <3>5 DEF Phase
  <2>5. ~Closing /\ ~Closed
    BY <1>2 DEF Closing, Closed
  <2>6. QED
    BY <1>2, <2>1, <2>3, <2>4, <2>5 DEF Phase
<1>9. QED
  BY <1>4, <1>5, <1>6, <1>7, <1>8

\* The Core accepts the disconnect of such a session.
LEMMA DisconnectAnsweredKeeps ==
  ASSUME IInv, DisconnectAnswered, Observe
  PROVE  IInv'
<1> USE DEF IInv
<1>1. Main \in Thread /\ Main \notin Loop /\ Loop \subseteq Thread
  BY SessionAssumption DEF SessionAssumption, Thread
<1>2. /\ power = "up" /\ thread[Main].at = "disconnecting"
      /\ UNCHANGED <<token, aging, session, lock, stop, power, budget>>
      /\ core' = [core EXCEPT !.live = @ /\ ~Accepted(Main)]
  BY DEF DisconnectAnswered, At, client
<1>3. core' \in CoreState /\ core'.live = (core.live /\ ~Accepted(Main))
  <2>1. core \in CoreState
    BY DEF Typed
  <2>2. QED
    BY <1>2, <2>1 DEF CoreState
<1>4. Move(Main, "joining", None, None)
  <2>1. "joining" \in Point
    BY DEF Point, MainPoint
  <2>2. QED
    BY <1>1, <2>1, RestMoves DEF DisconnectAnswered
<1>5. Typed'
  <2>1. ThreadsTyped'
    BY <1>1, <1>4, MoveTyped DEF MainPoint
  <2>2. QED
    BY <1>2, <1>3, <2>1 DEF Typed, Observe
<1>6. Guarded'
  BY <1>1, <1>2, <1>4, MoveGuarded DEF Opening
<1>7. HasToken'
  BY <1>1, <1>2, <1>4, MoveHasToken
<1>8. Down'
  BY <1>2 DEF Down
<1>9. Quiet'
  <2>1. SUFFICES ASSUME Phase
                 PROVE  Phase'
    BY <1>5, QuietKept
  <2>2. /\ thread'[Main].at = "joining"
        /\ \A l \in Loop : thread'[l] = thread[l]
    BY <1>1, <1>4 DEF Move
  <2>3. Closing
    BY <1>2, <2>1 DEF Phase, Starting, Open, Closed, Opening
  <2>4. Accepted(Main)
    BY <1>2, <2>3 DEF Closing, Accepted, SessionLives
  <2>5. Closed'
    BY <1>2, <1>3, <2>2, <2>3, <2>4 DEF Closing, Closed
  <2>6. QED
    BY <1>2, <2>5 DEF Phase
<1>10. QED
  BY <1>5, <1>6, <1>7, <1>8, <1>9

\* A process that has ended, or just begun, has nothing in memory.
LEMMA StartedIs ==
  ASSUME thread' = Started, lock' = None, session' = None
  PROVE  ThreadsTyped' /\ Guarded' /\ HasToken' /\ Down'
<1>1. Main \in Thread /\ Main \notin Loop /\ Loop \subseteq Thread /\ None \notin Thread
  BY SessionAssumption DEF SessionAssumption, Thread
<1>2. /\ Resting("authenticate").at = "authenticate" /\ Resting("off").at = "off"
      /\ Resting("authenticate") \in Position /\ Resting("off") \in Position
  BY DEF Resting, Position, LoopPoint, Opening
<1>3. /\ thread' \in [Thread -> Position]
      /\ thread'[Main].at = "authenticate" /\ \A l \in Loop : thread'[l].at = "off"
  BY <1>1, <1>2 DEF Started
<1>4. ThreadsTyped'
  BY <1>3 DEF ThreadsTyped, LoopPoint, MainPoint, Opening
<1>5. Guarded'
  BY <1>1, <1>3 DEF Guarded, Opening
<1>6. HasToken'
  BY <1>3 DEF HasToken, Thread
<1>7. Down'
  BY DEF Down
<1>8. QED
  BY <1>4, <1>5, <1>6, <1>7

\* The process ends where its session is closed, or it never had one.
LEMMA ExitKeeps ==
  ASSUME IInv, Exit, Observe
  PROVE  IInv'
<1> USE DEF IInv
<1>1. /\ power = "up" /\ thread[Main].at = "joining"
      /\ power' = "stopped" /\ UNCHANGED <<core, budget>>
      /\ token' = None /\ aging' = FALSE /\ session' = None /\ lock' = None /\ stop' = FALSE
      /\ thread' = Started
  BY DEF Exit, At, End
<1>2. ThreadsTyped' /\ Guarded' /\ HasToken' /\ Down'
  BY <1>1, StartedIs
<1>3. Typed'
  BY <1>1, <1>2 DEF Typed, Observe
<1>4. Quiet'
  <2>1. SUFFICES ASSUME Phase
                 PROVE  Phase'
    BY <1>3, QuietKept
  <2>2. ~(core.live /\ core.ours)
    BY <1>1, <2>1 DEF Phase, Starting, Open, Closing, Closed
  <2>3. QED
    BY <1>1, <2>2 DEF Phase
<1>5. QED
  BY <1>2, <1>3, <1>4

\* A crash disturbs.
LEMMA CrashKeeps ==
  ASSUME IInv, Crash, Observe
  PROVE  IInv'
<1> USE DEF IInv
<1>1. /\ power' = "crashed" /\ UNCHANGED core
      /\ token' = None /\ aging' = FALSE /\ session' = None /\ lock' = None /\ stop' = FALSE
      /\ thread' = Started
  BY DEF Crash, End
<1>2. ThreadsTyped' /\ Guarded' /\ HasToken' /\ Down'
  BY <1>1, StartedIs
<1>3. budget' \in Budget
  <2>1. budget \in Budget
    BY DEF Typed
  <2>2. QED
    BY <2>1 DEF Crash, Spend, Budget
<1>4. Typed'
  BY <1>1, <1>2, <1>3 DEF Typed, Observe
<1>5. disturbed'
  BY <1>1 DEF Observe
<1>6. Quiet'
  BY <1>5 DEF Quiet
<1>7. QED
  BY <1>2, <1>4, <1>6

\* A new process has opened no session.
LEMMA RestartKeeps ==
  ASSUME IInv, Restart, Observe
  PROVE  IInv'
<1> USE DEF IInv
<1>1. /\ power' = "up" /\ power # "up" /\ core' = [core EXCEPT !.ours = FALSE]
      /\ UNCHANGED <<token, aging, session, lock, stop, thread, budget>>
      /\ thread = Started /\ session = None
  BY DEF Restart, client, Down
<1>2. core' \in CoreState /\ ~core'.ours
  <2>1. core \in CoreState
    BY DEF Typed
  <2>2. QED
    BY <1>1, <2>1 DEF CoreState
<1>3. Typed'
  BY <1>1, <1>2 DEF Typed, ThreadsTyped, Observe
<1>4. Guarded' /\ HasToken' /\ Down'
  BY <1>1 DEF Guarded, HasToken, Down
<1>5. Quiet'
  <2>1. SUFFICES Phase'
    BY <1>3, QuietKept
  <2>2. thread[Main].at = "authenticate" /\ \A l \in Loop : thread[l].at = "off"
    BY <1>1, SessionAssumption DEF SessionAssumption, Started, Resting, Thread
  <2>3. Starting'
    BY <1>1, <1>2, <2>2 DEF Starting, Opening
  <2>4. QED
    BY <1>1, <2>3 DEF Phase
<1>6. QED
  BY <1>3, <1>4, <1>5

-----------------------------------------------------------------------------
(* Stop, network and time.                                                 *)

\* A stop request alone changes no phase.
LEMMA RequestStopKeeps ==
  ASSUME IInv, RequestStop, Observe
  PROVE  IInv'
<1> USE DEF IInv
<1>1. /\ power = "up" /\ stop' = TRUE
      /\ UNCHANGED <<core, token, aging, session, lock, thread, power>>
  BY DEF RequestStop
<1>2. budget' \in Budget
  <2>1. budget \in Budget
    BY DEF Typed
  <2>2. QED
    BY <2>1 DEF RequestStop, Spend, Budget
<1>3. Typed'
  BY <1>1, <1>2 DEF Typed, ThreadsTyped, Observe
<1>4. Guarded' /\ HasToken' /\ Down'
  BY <1>1 DEF Guarded, HasToken, Down
<1>5. Quiet'
  <2>1. Phase => Phase'
    BY <1>1 DEF Phase, Starting, Open, Closing, Closed
  <2>2. QED
    BY <1>3, <2>1, QuietKept
<1>6. QED
  BY <1>3, <1>4, <1>5

\* Nor does the age of a token.
LEMMA TokenAgesKeeps ==
  ASSUME IInv, TokenAges, Observe
  PROVE  IInv'
<1> USE DEF IInv
<1>1. /\ power = "up" /\ aging' = TRUE
      /\ UNCHANGED <<core, token, session, lock, stop, thread, power, budget>>
  BY DEF TokenAges
<1>2. Typed'
  BY <1>1 DEF Typed, ThreadsTyped, Observe
<1>3. Guarded' /\ HasToken' /\ Down'
  BY <1>1 DEF Guarded, HasToken, Down
<1>4. Quiet'
  <2>1. Phase => Phase'
    BY <1>1 DEF Phase, Starting, Open, Closing, Closed
  <2>2. QED
    BY <1>2, <2>1, QuietKept
<1>5. QED
  BY <1>2, <1>3, <1>4

\* A lease runs out under a client that is up only where a thread opens a
\* session or waits to, and there is none where a session is open.
LEMMA LeaseRunsOutKeeps ==
  ASSUME IInv, LeaseRunsOut, Observe
  PROVE  IInv'
<1> USE DEF IInv
<1>1. /\ core' = [core EXCEPT !.live = FALSE]
      /\ UNCHANGED <<token, aging, session, lock, stop, thread, power, budget>>
  BY DEF LeaseRunsOut, client
<1>2. core' \in CoreState /\ core'.live = FALSE /\ core'.ours = core.ours
  <2>1. core \in CoreState
    BY DEF Typed
  <2>2. QED
    BY <1>1, <2>1 DEF CoreState
<1>3. Typed'
  BY <1>1, <1>2 DEF Typed, ThreadsTyped, Observe
<1>4. Guarded' /\ HasToken' /\ Down'
  BY <1>1 DEF Guarded, HasToken, Down
<1>5. Quiet'
  <2>1. SUFFICES ASSUME Phase
                 PROVE  Phase'
    BY <1>3, QuietKept
  <2>2. CASE power # "up"
    BY <1>1, <1>2, <2>1, <2>2 DEF Phase
  <2>3. CASE power = "up"
    <3>1. PICK t \in Thread : thread[t].at \in Connecting
      BY <2>3 DEF LeaseRunsOut, LeaseDue
    <3>2. t = Main \/ t \in Loop
      BY ThreadsAre
    <3>3. Starting
      BY <2>1, <2>3, <3>1, <3>2 DEF Phase, Open, Closing, Closed, Requesting, Connecting
    <3>4. Starting'
      BY <1>1, <1>2, <3>3 DEF Starting
    <3>5. QED
      BY <1>1, <2>3, <3>4 DEF Phase
  <2>4. QED
    BY <2>2, <2>3
<1>6. QED
  BY <1>3, <1>4, <1>5

\* Lost heartbeats disturb.
LEMMA HeartbeatsLostKeeps ==
  ASSUME IInv, HeartbeatsLost, Observe
  PROVE  IInv'
<1> USE DEF IInv
<1>1. /\ core' = [core EXCEPT !.live = FALSE] /\ power = "up"
      /\ UNCHANGED <<token, aging, session, lock, stop, thread, power>>
  BY DEF HeartbeatsLost, client
<1>2. core' \in CoreState /\ budget' \in Budget /\ budget'.faults # budget.faults
  <2>1. core \in CoreState /\ budget \in Budget
    BY DEF Typed
  <2>2. core' \in CoreState
    BY <1>1, <2>1 DEF CoreState
  <2>3. Spend("faults")
    BY DEF HeartbeatsLost
  <2>4. budget' \in Budget /\ budget'.faults # budget.faults
    BY <2>1, <2>3 DEF Spend, Budget
  <2>5. QED
    BY <2>2, <2>4
<1>3. Typed'
  BY <1>1, <1>2 DEF Typed, ThreadsTyped, Observe
<1>4. Guarded' /\ HasToken' /\ Down'
  BY <1>1 DEF Guarded, HasToken, Down
<1>5. Quiet'
  BY <1>2, <1>3, QuietKept
<1>6. QED
  BY <1>3, <1>4, <1>5

-----------------------------------------------------------------------------
(* The invariant, and what follows from it.                                *)

\* The process starts.
LEMMA InitInv == Init => IInv
<1> SUFFICES ASSUME Init
             PROVE  IInv
  OBVIOUS
<1>1. (CHOOSE s \in Session : TRUE) \in Session /\ (CHOOSE k \in Token : TRUE) \in Token
  <2> DEFINE f == [t \in Thread |-> None]
  <2>1. f \in [Thread -> Session \cup {None}] /\ f \in [Thread -> Token \cup {None}]
    OBVIOUS
  <2>2. /\ Cardinality(Session) > Cardinality(Thread) + 2
        /\ Cardinality(Token) > Cardinality(Thread) + 2
    BY SessionAssumption DEF SessionAssumption
  <2> HIDE DEF f
  <2>3. \E s \in Session : s \notin {None, None} \cup {f[t] : t \in Thread}
    BY <2>1, <2>2, SomethingFresh
  <2>4. \E k \in Token : k \notin {None, None} \cup {f[t] : t \in Thread}
    BY <2>1, <2>2, SomethingFresh
  <2>5. QED
    BY <2>3, <2>4
<1>2. core \in CoreState /\ ~core.ours
  BY <1>1 DEF Init, CoreState
<1>3. /\ token = None /\ aging = FALSE /\ session = None /\ lock = None /\ stop = FALSE
      /\ thread = Started /\ power = "up" /\ disturbed = FALSE
  BY DEF Init
<1>4. budget \in Budget
  <2>1. MaxFaults \in Nat /\ MaxEnds \in Nat
    BY SessionAssumption DEF SessionAssumption
  <2>2. QED
    BY <2>1 DEF Init, Budget
<1>5. Main \in Thread /\ Main \notin Loop /\ Loop \subseteq Thread /\ None \notin Thread
  BY SessionAssumption DEF SessionAssumption, Thread
<1>6. /\ thread \in [Thread -> Position]
      /\ thread[Main].at = "authenticate" /\ \A l \in Loop : thread[l].at = "off"
  <2>1. /\ Resting("authenticate").at = "authenticate" /\ Resting("off").at = "off"
        /\ Resting("authenticate") \in Position /\ Resting("off") \in Position
    BY DEF Resting, Position, LoopPoint, Opening
  <2>2. QED
    BY <1>3, <1>5, <2>1 DEF Started
<1>7. Typed
  BY <1>2, <1>3, <1>4, <1>6 DEF Typed, ThreadsTyped, LoopPoint, MainPoint, Opening
<1>8. Guarded
  BY <1>3, <1>5, <1>6 DEF Guarded, Opening
<1>9. HasToken
  BY <1>6 DEF HasToken, Thread
<1>10. Down
  BY <1>3 DEF Down
<1>11. Quiet
  <2>1. Starting
    BY <1>2, <1>3, <1>6 DEF Starting, Opening
  <2>2. ~Crossing
    BY <1>6 DEF Crossing, Thread
  <2>3. QED
    BY <1>3, <2>1, <2>2 DEF Quiet, Phase
<1>12. QED
  BY <1>7, <1>8, <1>9, <1>10, <1>11 DEF IInv

\* Every step keeps the invariant.
LEMMA NextInv == IInv /\ [Next]_vars => IInv'
<1> SUFFICES ASSUME IInv, [Next]_vars
             PROVE  IInv'
  OBVIOUS
<1>1. CASE UNCHANGED vars
  BY <1>1 DEF vars, client, IInv, Typed, ThreadsTyped, Guarded, HasToken, Down, Quiet, Crossing,
              Phase, Starting, Open, Closing, Closed
<1>2. CASE Next
  <2>1. Step /\ Observe
    BY <1>2 DEF Next
  <2>2. ASSUME NEW t \in Thread, ThreadStep(t)
        PROVE  IInv'
    <3>1. CASE t \in Loop /\ \/ BeginRequest(t) \/ RefreshToken(t) \/ RebindAnswered(t)
                             \/ RequestAnswered(t) \/ EnterRecovery(t)
      BY <2>1, <3>1, BeginRequestKeeps, RefreshTokenKeeps, RebindAnsweredKeeps,
         RequestAnsweredKeeps, EnterRecoveryKeeps
    <3>2. CASE SendRequest(t) \/ AuthenticateToConnect(t) \/ ConnectAnswered(t)
               \/ WaitOver(t) \/ WaitStopped(t)
      BY <2>1, <3>2, SendRequestKeeps, AuthenticateToConnectKeeps, ConnectAnsweredKeeps,
         WaitOverKeeps, WaitStoppedKeeps
    <3>3. CASE BackoffOver \/ TakeSession \/ DisconnectAnswered \/ Exit
      BY <2>1, <3>3, BackoffOverKeeps, TakeSessionKeeps, DisconnectAnsweredKeeps, ExitKeeps
    <3>4. QED
      BY <2>2, <3>1, <3>2, <3>3 DEF ThreadStep
  <2>3. ASSUME NEW t \in Thread, RequestFails(t)
        PROVE  IInv'
    BY <2>1, <2>3, RequestFailsKeeps
  <2>4. CASE RequestStop \/ Crash \/ Restart \/ TokenAges \/ LeaseRunsOut \/ HeartbeatsLost
    BY <2>1, <2>4, RequestStopKeeps, CrashKeeps, RestartKeeps, TokenAgesKeeps,
       LeaseRunsOutKeeps, HeartbeatsLostKeeps
  <2>5. QED
    BY <2>1, <2>2, <2>3, <2>4 DEF Step
<1>3. QED
  BY <1>1, <1>2

\* So it always holds.
LEMMA SessionInv == Spec => []IInv
BY InitInv, NextInv, PTL DEF Spec

\* Every variable keeps its type and only a thread that opens a session holds
\* _session_lock: no return, exception or stop of _recover_session leaves it
\* locked.
THEOREM SessionTyped == Spec => []TypeOK
<1>1. IInv => TypeOK
  <2> SUFFICES ASSUME IInv
               PROVE  TypeOK
    OBVIOUS
  <2>1. lock # None => thread[lock].at \in {"authenticate", "connect", "connecting", "wait"}
    BY DEF IInv, Typed, Guarded, Opening
  <2>2. \A t \in Thread : /\ thread[t].sess \in Session \cup {None}
                          /\ thread[t].tok \in Token \cup {None}
    BY DEF IInv, Typed, ThreadsTyped, Position
  <2>3. QED
    BY <2>1, <2>2 DEF TypeOK, IInv, Typed, CoreState
<1>2. QED
  BY SessionInv, <1>1, PTL

\* As long as no refresh crosses another request and nothing fails, the Core
\* accepts every request of a session, however often _ensure_token replaces the
\* token: no loop comes to recover.
THEOREM RefreshIsSafe == Spec => []RefreshKeepsSession
<1>1. IInv => RefreshKeepsSession
  BY DEF IInv, Quiet, Phase, Starting, Open, Closing, Closed, Requesting, RefreshKeepsSession
<1>2. QED
  BY SessionInv, <1>1, PTL

\* A process that stops while all is well leaves no session of its own at the
\* Core: _disconnect_session closes it with the token it is bound to.
THEOREM StopFreesLease == Spec => []QuietStopFreesLease
<1>1. IInv => QuietStopFreesLease
  BY DEF IInv, Quiet, Phase, QuietStopFreesLease
<1>2. QED
  BY SessionInv, <1>1, PTL

=============================================================================
