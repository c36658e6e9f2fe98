------------------------- MODULE CommandDeliveryProofs -------------------------
(***************************************************************************)
(* Proofs about commands (CommandDelivery), for every number of commands,  *)
(* lights, attempts, faults and crashes and every claim limit.             *)
(*                                                                         *)
(* Five invariants on top of the types.  Claimed: a batch holds what the   *)
(* Core has no verdict on, in the order of issue, without leaving any out. *)
(* Results: a receipt that was pruned is of a command past its deadline.   *)
(* Words: what the Core was told of a command is what its receipt says, or *)
(* nothing will be said of the command any more.  Acceptances: nothing is  *)
(* executed without an answer of Home Assistant.  Ordered: a command of    *)
(* which a call was sent leaves no older one to be sent.                   *)
(***************************************************************************)
EXTENDS CommandDelivery, FiniteSetTheorems, SequenceTheorems, TLAPS

Status == Terminal \cup {"none", "accepted"}

LoopState == [at : {"idle", "execute", "call", "answer", "readback", "acknowledge", "wait"},
              batch : Seq(Command), status : Status, tries : 0..MaxAttempts]

Typed ==
  /\ receipts \in [Command -> Status] /\ settled \subseteq Command
  /\ loop \in LoopState /\ (At("idle") <=> loop.batch = <<>>)
  /\ At("acknowledge") => loop.tries < MaxAttempts
  /\ light \in [Light -> State] /\ calls \in [Command -> Nat]
  /\ accepted \subseteq Command
  /\ issued \in 0..NumCommands
  /\ verdicts \in [Command -> SUBSET Terminal]
  /\ network \subseteq Command \X Terminal

\* Where the loop is while a command is between its two receipts.
Calling == {"call", "answer", "readback"}

InBatch(c) == \E i \in 1..Len(loop.batch) : loop.batch[i] = c

\* The batch is in the order of issue and leaves out only what has a verdict.
Claimed ==
  /\ \A i, j \in 1..Len(loop.batch) : i < j => loop.batch[i] < loop.batch[j]
  /\ \A i \in 1..Len(loop.batch) : loop.batch[i] <= issued
  /\ \A c, d \in Command : c < d /\ InBatch(d) /\ ~InBatch(c) => verdicts[c] # {}

\* A command that had a result has its receipt, or is past its deadline; and it is
\* not the one in progress.
Results ==
  /\ \A c \in settled : /\ c <= issued
                        /\ c \in expired \/ Kept[c] \in Terminal
  /\ loop.at \in Calling => Kept[Current] = "accepted" /\ Current \notin settled

\* What is, or will be, in the Core's hands about a command.
Said(c) == verdicts[c] \cup {s \in Terminal : <<c, s>> \in network}

Words ==
  /\ \A c \in Command, s \in Terminal :
       s \in Said(c) => \/ Kept[c] = s
                        \/ /\ ~InBatch(c) /\ verdicts[c] = {s}
                           /\ \A t \in Terminal : <<c, t>> \notin network
  /\ loop.at \in {"acknowledge", "wait"} => loop.status = Kept[Current] /\ loop.status \in Terminal

\* Nothing is said, or written down, to be executed of which no call was accepted.
Acceptances ==
  /\ \A c \in Command : "executed" \in Said(c) \/ receipts[c] = "executed" => c \in accepted
  /\ At("readback") => Current \in accepted

\* A command of which a call was sent leaves no older one to be sent.
Ordered ==
  \A c, d \in Command : c < d /\ calls[d] > 0 => ~InBatch(c) /\ verdicts[c] # {}

-----------------------------------------------------------------------------
(* The batch.                                                              *)

\* The ranks of a finite set of naturals are the numbers up to its size, each once,
\* in the order of the set.
LEMMA Ranks ==
  ASSUME NEW U \in SUBSET Nat, IsFiniteSet(U)
  PROVE  LET rank(c) == Cardinality({d \in U : d <= c})
         IN  /\ \A c \in U : rank(c) \in 1..Cardinality(U)
             /\ \A c, d \in U : c < d => rank(c) < rank(d)
             /\ \A i \in 1..Cardinality(U) : \E c \in U : rank(c) = i
<1> DEFINE below(c) == {d \in U : d <= c}
           rank(c)  == Cardinality(below(c))
           n        == Cardinality(U)
<1>1. n \in Nat
  BY FS_CardinalityType
<1>2. \A c \in U : /\ IsFiniteSet(below(c)) /\ rank(c) \in Nat /\ rank(c) <= n
                  /\ below(c) # {}
  <2> TAKE c \in U
  <2>1. below(c) \in SUBSET U /\ c \in below(c)
    OBVIOUS
  <2>2. IsFiniteSet(below(c)) /\ rank(c) <= n
    BY <2>1, FS_Subset
  <2>3. QED
    BY <2>1, <2>2, FS_CardinalityType
<1>3. \A c \in U : rank(c) \in 1..n
  <2> TAKE c \in U
  <2>1. rank(c) # 0
    BY <1>2, FS_EmptySet
  <2>2. QED
    BY <1>1, <1>2, <2>1
<1>4. ASSUME NEW c \in U, NEW d \in U, c < d
      PROVE  rank(c) < rank(d)
  <2>1. below(c) \in SUBSET below(d) /\ d \in below(d) /\ d \notin below(c)
    <3>1. c \in Nat /\ d \in Nat /\ \A e \in U : e \in Nat
      OBVIOUS
    <3>2. \A e \in U : e <= c => e <= d
      BY <1>4, <3>1
    <3>3. d <= d /\ ~(d <= c)
      BY <1>4, <3>1
    <3>4. d \in below(d) /\ d \notin below(c)
      BY <3>3
    <3>5. below(c) \in SUBSET below(d)
      BY <3>2, Zenon
    <3>6. QED
      BY <3>4, <3>5
  <2>2. rank(c) <= rank(d) /\ (rank(d) = rank(c) => below(d) = below(c))
    BY <1>2, <2>1, FS_Subset
  <2>3. /\ rank(c) # rank(d) /\ rank(c) <= rank(d)
        /\ rank(c) \in Nat /\ rank(d) \in Nat
    BY <1>2, <2>1, <2>2
  <2>4. \A i, j \in Nat : i # j /\ i <= j => i < j
    OBVIOUS
  <2> HIDE DEF rank
  <2>5. QED
    BY <2>3, <2>4
<1>5. \A i \in 1..n : \E c \in U : rank(c) = i
  <2> DEFINE f == [c \in U |-> rank(c)]
  <2> HIDE DEF rank
  <2>1. \A c, d \in U : f[c] = f[d] => c = d
    <3> SUFFICES ASSUME NEW c \in U, NEW d \in U, rank(c) = rank(d)
                 PROVE  c = d
      OBVIOUS
    <3>1. rank(c) \in Nat /\ c \in Nat /\ d \in Nat
      BY <1>2
    <3>2. ~(c < d) /\ ~(d < c)
      BY <1>4, <3>1
    <3>3. QED
      BY <3>1, <3>2
  <2>2. f \in Injection(U, 1..n)
    BY <1>3, <2>1 DEF Injection, IsInjective
  <2>3. IsFiniteSet(1..n) /\ Cardinality(1..n) = n
    BY <1>1, FS_Interval
  <2>4. f \in Surjection(U, 1..n)
    BY <2>2, <2>3, FS_Injection
  <2>5. QED
    BY <2>4 DEF Surjection
<1>6. QED
  BY <1>3, <1>4, <1>5

\* claim_commands hands out the oldest commands that have no verdict, in order.
LEMMA BatchIs ==
  ASSUME Typed, Unanswered # {}
  PROVE  /\ ClaimedBatch \in Seq(Command) /\ Len(ClaimedBatch) \in Nat \ {0}
         /\ \A i \in 1..Len(ClaimedBatch) :
              ClaimedBatch[i] \in Unanswered /\ ClaimedBatch[i] <= issued
         /\ \A i, j \in 1..Len(ClaimedBatch) : i < j => ClaimedBatch[i] < ClaimedBatch[j]
         /\ \A c \in Unanswered, i \in 1..Len(ClaimedBatch) :
              c < ClaimedBatch[i] => \E j \in 1..Len(ClaimedBatch) : ClaimedBatch[j] = c
<1> DEFINE U       == Unanswered
           rank(c) == Cardinality({d \in U : d <= c})
           S       == {c \in U : rank(c) <= ClaimLimit}
           size    == Cardinality(S)
           at(i)   == CHOOSE c \in U : rank(c) = i
           b       == [i \in 1..size |-> at(i)]
<1>0. /\ U \in SUBSET Nat /\ U \subseteq Command /\ \A c \in U : c <= issued
      /\ ClaimLimit \in Nat \ {0} /\ NumCommands \in Nat
  BY CommandAssumption DEF Unanswered, Command, Typed
<1>1. IsFiniteSet(U)
  <2>1. IsFiniteSet(1..issued)
    BY FS_Interval DEF Typed
  <2>2. QED
    BY <2>1, FS_Subset DEF Unanswered
<1>2. ClaimedBatch = b
  BY DEF ClaimedBatch
<1> HIDE DEF U
<1>3. /\ \A c \in U : rank(c) \in 1..Cardinality(U)
      /\ \A c, d \in U : c < d => rank(c) < rank(d)
      /\ \A i \in 1..Cardinality(U) : \E c \in U : rank(c) = i
  BY <1>0, <1>1, Ranks
<1>4. Cardinality(U) \in Nat \ {0}
  BY <1>1, FS_CardinalityType, FS_EmptySet DEF U
<1> HIDE DEF rank
<1>5. size \in Nat /\ size <= Cardinality(U) /\ IsFiniteSet(S)
  BY <1>1, FS_Subset, FS_CardinalityType
<1>6. size # 0
  <2>1. PICK c \in U : rank(c) = 1
    BY <1>3, <1>4
  <2>2. c \in S
    BY <1>0, <2>1
  <2>3. QED
    BY <1>5, <2>2, FS_EmptySet
<1> HIDE DEF S, size
<1>7. \A i \in 1..size : at(i) \in U /\ rank(at(i)) = i
  BY <1>3, <1>4, <1>5
<1> HIDE DEF at
<1>8. b \in [1..size -> Command]
  BY <1>0, <1>7
<1>9. b \in Seq(Command) /\ Len(b) = size
  BY <1>5, <1>8, SeqDef, LenProperties
<1>10. ASSUME NEW i \in 1..size, NEW j \in 1..size, i < j
       PROVE  at(i) < at(j)
  <2>1. /\ at(i) \in Nat /\ at(j) \in Nat /\ rank(at(i)) = i /\ rank(at(j)) = j
        /\ at(i) \in U /\ at(j) \in U
    BY <1>0, <1>7
  <2>2. at(i) # at(j) /\ ~(at(j) < at(i))
    BY <1>3, <1>5, <1>10, <2>1
  <2>3. QED
    BY <2>1, <2>2
<1>11. ASSUME NEW c \in U, NEW i \in 1..size, c < at(i)
       PROVE  \E j \in 1..size : at(j) = c
  <2>1. at(i) \in U /\ rank(at(i)) = i /\ rank(c) \in Nat \ {0} /\ rank(c) < i
    BY <1>3, <1>4, <1>7, <1>11
  <2>2. rank(c) \in 1..size
    BY <1>5, <2>1
  <2> DEFINE d == at(rank(c))
  <2>3. d \in U /\ rank(d) = rank(c)
    BY <1>7, <2>2
  <2> HIDE DEF d
  <2>4. c \in Nat /\ d \in Nat /\ ~(c < d) /\ ~(d < c)
    BY <1>0, <1>3, <2>1, <2>3
  <2>5. c = d
    BY <2>4
  <2>6. QED
    BY <2>2, <2>5 DEF d
<1>12. QED
  BY <1>0, <1>2, <1>5, <1>6, <1>7, <1>8, <1>9, <1>10, <1>11 DEF U

\* There is a command in progress.
LEMMA InProgress ==
  ASSUME Typed, loop.at # "idle"
  PROVE  /\ loop.batch \in Seq(Command) /\ loop.batch # <<>>
         /\ Len(loop.batch) \in Nat \ {0}
         /\ Current \in Command /\ Current = loop.batch[1] /\ InBatch(Current)
<1>1. loop.batch \in Seq(Command) /\ loop.batch # <<>>
  BY DEF Typed, At, LoopState
<1>2. Len(loop.batch) \in Nat \ {0}
  BY <1>1, LenProperties, EmptySeq
<1>3. Current = loop.batch[1] /\ Current \in Command
  BY <1>1, <1>2, HeadTailProperties, ElementOfSeq DEF Current
<1>4. QED
  BY <1>1, <1>2, <1>3 DEF InBatch

\* What is left of the batch after the command in progress.
LEMMA RestOfBatch ==
  ASSUME Typed, loop.at # "idle"
  PROVE  /\ Tail(loop.batch) \in Seq(Command)
         /\ Len(Tail(loop.batch)) = Len(loop.batch) - 1
         /\ \A i \in 1..Len(Tail(loop.batch)) : Tail(loop.batch)[i] = loop.batch[i + 1]
  BY InProgress, HeadTailProperties

-----------------------------------------------------------------------------
(* What a step does to the batch, and to the receipts.                     *)

\* A step leaves the batch, gives it up, claims one, or has its first command
\* answered.
LEMMA BatchSteps ==
  ASSUME Typed, [Next]_vars
  PROVE  \/ loop'.batch = loop.batch
         \/ loop'.batch = <<>>
         \/ /\ Unanswered # {} /\ loop'.batch = ClaimedBatch
            /\ loop.batch = <<>> /\ UNCHANGED <<issued, verdicts, calls>>
         \/ /\ loop.at = "wait" /\ verdicts'[Current] # {} /\ UNCHANGED <<issued, calls>>
            /\ loop'.batch = Tail(loop.batch) /\ Len(loop.batch) # 1
<1> USE DEF Typed, LoopState, Idle, At
<1>1. CASE \/ RejectEnvelope \/ ReadbackError \/ Crash
  BY <1>1 DEF RejectEnvelope, ReadbackError, Crash, Abort
<1>2. CASE Claim
  BY <1>2 DEF Claim, core, past
<1>3. CASE \/ ReuseReceipt \/ DeadlineExpired \/ Accept \/ ReadbackConfirmed
           \/ ReadbackTimeout \/ SendCall \/ CallAccepted \/ SendAcknowledgement
  BY <1>3 DEF ReuseReceipt, DeadlineExpired, Accept, ReadbackConfirmed, ReadbackTimeout,
              SendCall, CallAccepted, SendAcknowledgement, SaveResult, Result
<1>4. CASE CallFails
  BY <1>4 DEF CallFails, SaveResult, Result
<1>5. CASE AcknowledgementFails
  BY <1>5 DEF AcknowledgementFails, Abort
<1>6. CASE \E m \in network : CoreReceives(m)
  <2> PICK m \in network : CoreReceives(m)
    BY <1>6
  <2>1. CASE UNCHANGED loop
    BY <2>1
  <2>2. CASE ~UNCHANGED loop
    <3>1. At("wait") /\ m = <<Current, loop.status>> /\ NextInBatch
      BY <2>2 DEF CoreReceives
    <3>2. m[1] = Current /\ m[1] \in Command
      BY <3>1
    <3>3. verdicts' = [verdicts EXCEPT ![m[1]] = @ \cup {m[2]}] /\ UNCHANGED <<issued, calls>>
      BY DEF CoreReceives, past
    <3>4. verdicts'[Current] # {}
      BY <3>2, <3>3
    <3>5. loop'.batch = <<>> \/ (loop'.batch = Tail(loop.batch) /\ Len(loop.batch) # 1)
      BY <3>1 DEF NextInBatch
    <3>6. QED
      BY <3>1, <3>3, <3>4, <3>5
  <2>3. QED
    BY <2>1, <2>2
<1>7. CASE \/ Issue
           \/ \E m \in network : Lost(m)
           \/ \E l \in Light : Switch(l)
           \/ \E c \in Command : CarryOut(c) \/ DeadlinePasses(c)
           \/ RetentionPasses
           \/ UNCHANGED vars
  BY <1>7 DEF Issue, Lost, Switch, CarryOut, DeadlinePasses, RetentionPasses, vars
<1>8. QED
  BY <1>1, <1>2, <1>3, <1>4, <1>5, <1>6, <1>7 DEF Next, LoopStep

\* The Core forgets neither a command nor a verdict.
LEMMA CoreKeeps ==
  ASSUME Typed, [Next]_vars
  PROVE  /\ issued' \in 0..NumCommands /\ issued <= issued'
         /\ verdicts' \in [Command -> SUBSET Terminal]
         /\ \A c \in Command : verdicts[c] \subseteq verdicts'[c]
<1>1. CASE Issue
  BY <1>1, CommandAssumption DEF Issue, Typed
<1>2. CASE \E m \in network : CoreReceives(m)
  <2> PICK m \in network : CoreReceives(m)
    BY <1>2
  <2>1. m[1] \in Command /\ m[2] \in Terminal
    BY DEF Typed
  <2>2. verdicts' = [verdicts EXCEPT ![m[1]] = @ \cup {m[2]}] /\ issued' = issued
    BY DEF CoreReceives
  <2>3. QED
    BY <2>1, <2>2 DEF Typed
<1>3. CASE ~Issue /\ ~(\E m \in network : CoreReceives(m))
  <2>1. UNCHANGED core
    BY <1>3 DEF Next, LoopStep, Claim, RejectEnvelope, ReuseReceipt, DeadlineExpired, Accept,
                SendCall, CallAccepted, CallFails, CarryOut, ReadbackConfirmed, ReadbackTimeout, ReadbackError,
                SendAcknowledgement, AcknowledgementFails, Lost, Switch, DeadlinePasses,
                RetentionPasses, Crash, outside, vars
  <2>2. QED
    BY <2>1 DEF Typed, core
<1>4. QED
  BY <1>1, <1>2, <1>3

\* The receipts are what get leaves of them.
LEMMA KeptIs ==
  \A c \in Command : Kept[c] = IF c \in old THEN "none" ELSE receipts[c]
BY DEF Kept

\* save writes the receipt of the command in progress and prunes the old ones.
LEMMA SaveEffect ==
  ASSUME Typed, loop.at # "idle", NEW status \in Status \ {"none"}, Save(status)
  PROVE  /\ receipts' \in [Command -> Status]
         /\ \A c \in Command : receipts'[c] = IF c = Current THEN status ELSE Kept[c]
         /\ \A c \in Command : Kept'[c] = IF c = Current THEN status ELSE Kept[c]
         /\ settled' = IF status \in Terminal THEN settled \cup {Current} ELSE settled
<1>1. Current \in Command
  BY InProgress
<1>2. Kept \in [Command -> Status]
  BY DEF Kept, Typed, Status
<1>3. receipts' = [Kept EXCEPT ![Current] = status] /\ old' = {}
  BY DEF Save
<1>4. /\ receipts' \in [Command -> Status]
      /\ \A c \in Command : receipts'[c] = IF c = Current THEN status ELSE Kept[c]
  BY <1>1, <1>2, <1>3
<1>5. \A c \in Command : Kept'[c] = receipts'[c]
  BY <1>3 DEF Kept
<1>6. QED
  BY <1>4, <1>5 DEF Save

\* What execute does when it writes a receipt.
Saves(status) ==
  /\ Save(status)
  /\ loop.at # "idle"
  /\ loop'.batch = loop.batch /\ loop'.status \in Status
  /\ \/ loop.at = "execute" /\ Kept[Current] \notin Terminal
     \/ loop.at \in Calling /\ status \in Terminal
  /\ \/ status = "accepted" /\ loop'.at = "call" /\ Current \notin expired
     \/ status \in Terminal /\ loop'.at = "acknowledge" /\ loop'.status = status
  /\ status = "executed" => loop.at = "readback"
  /\ loop' \in LoopState /\ (loop'.at = "acknowledge" => loop'.tries < MaxAttempts)
  /\ UNCHANGED <<issued, verdicts, expired, network>>

\* Each of them writes one.
LEMMA SaveSteps ==
  ASSUME Typed, DeadlineExpired \/ Accept \/ CallFails \/ ReadbackConfirmed \/ ReadbackTimeout
  PROVE  \E status \in Status \ {"none"} : Saves(status)
<1> USE DEF Typed, At, Calling
<1>1. loop \in LoopState /\ 0 \in 0..MaxAttempts /\ 0 < MaxAttempts
  BY CommandAssumption
<1>2. PICK status \in {"timeout", "failed", "executed", "accepted"} :
        /\ Save(status)
        /\ \/ loop.at = "execute" /\ Kept[Current] \notin Terminal
           \/ loop.at \in Calling /\ status \in Terminal
        /\ \/ status = "accepted" /\ loop' = [loop EXCEPT !.at = "call"] /\ Current \notin expired
           \/ status \in Terminal /\ Result(status)
        /\ status = "executed" => loop.at = "readback"
        /\ UNCHANGED <<issued, verdicts, expired, network>>
  <2>1. CASE DeadlineExpired
    BY <2>1 DEF DeadlineExpired, Executing, SaveResult, Terminal, outside, core
  <2>2. CASE Accept
    BY <2>2 DEF Accept, Executing, Terminal, outside, core
  <2>3. CASE CallFails
    BY <2>3 DEF CallFails, SaveResult, Terminal, core
  <2>4. CASE ReadbackConfirmed
    BY <2>4 DEF ReadbackConfirmed, SaveResult, Terminal, outside, core
  <2>5. CASE ReadbackTimeout
    BY <2>5 DEF ReadbackTimeout, SaveResult, Terminal, outside, core
  <2>6. QED
    BY <2>1, <2>2, <2>3, <2>4, <2>5
<1>3. /\ loop'.batch = loop.batch /\ loop'.status \in Status /\ loop' \in LoopState
      /\ loop'.at = "acknowledge" => loop'.tries < MaxAttempts
      /\ \/ status = "accepted" /\ loop'.at = "call" /\ Current \notin expired
         \/ status \in Terminal /\ loop'.at = "acknowledge" /\ loop'.status = status
  <2>1. CASE loop' = [loop EXCEPT !.at = "call"] /\ status = "accepted" /\ Current \notin expired
    BY <1>1, <2>1 DEF LoopState
  <2>2. CASE status \in Terminal /\ Result(status)
    BY <1>1, <2>2 DEF LoopState, Result, Status, Terminal
  <2>3. QED
    BY <1>2, <2>1, <2>2
<1>4. status \in Status \ {"none"}
  BY DEF Status, Terminal
<1>5. QED
  BY <1>2, <1>3, <1>4 DEF Saves

\* A receipt is written by a step of execute, and pruned by one or with time.
LEMMA StoreSteps ==
  ASSUME Typed, [Next]_vars
  PROVE  \/ /\ \/ UNCHANGED <<receipts, old>>
               \/ receipts' = Kept /\ old' = {}
            /\ UNCHANGED settled
            /\ expired \subseteq expired'
         \/ \E status \in Status \ {"none"} : Saves(status)
         \/ RetentionPasses
<1> USE DEF Typed, At
<1>1. CASE DeadlineExpired \/ Accept \/ CallFails \/ ReadbackConfirmed \/ ReadbackTimeout
  BY <1>1, SaveSteps
<1>2. CASE ReuseReceipt
  BY <1>2 DEF ReuseReceipt, outside
<1>3. CASE \E c \in Command : DeadlinePasses(c)
  BY <1>3 DEF DeadlinePasses, store
<1>4. CASE \/ Claim \/ RejectEnvelope \/ SendCall \/ CallAccepted \/ ReadbackError
           \/ SendAcknowledgement \/ AcknowledgementFails \/ Issue \/ Crash
           \/ \E m \in network : CoreReceives(m) \/ Lost(m)
           \/ \E l \in Light : Switch(l)
           \/ \E c \in Command : CarryOut(c)
           \/ UNCHANGED vars
  BY <1>4 DEF Claim, RejectEnvelope, SendCall, CallAccepted, ReadbackError, SendAcknowledgement,
              CarryOut, AcknowledgementFails, Issue, Crash, CoreReceives, Lost, Switch, vars, store
<1>5. QED
  BY <1>1, <1>2, <1>3, <1>4 DEF Next, LoopStep

-----------------------------------------------------------------------------
(* The invariants.                                                         *)

IInv == Typed /\ Claimed /\ Results /\ Words /\ Acceptances /\ Ordered

\* No command has been issued and nothing was said of any.
LEMMA InitInv == Init => IInv
<1> SUFFICES ASSUME Init
             PROVE  IInv
  OBVIOUS
<1>1. Idle \in LoopState
  BY CommandAssumption, EmptySeq DEF Idle, LoopState, Status
<1>2. Len(<<>>) = 0
  OBVIOUS
<1>3. Typed
  BY <1>1, CommandAssumption DEF Init, Typed, At, Idle, Status
<1>4. \A c : ~InBatch(c)
  BY <1>2 DEF InBatch, Init, Idle
<1>5. \A c \in Command : Kept[c] = "none" /\ Said(c) = {}
  BY DEF Init, Kept, Said
<1>6. QED
  BY <1>2, <1>3, <1>4, <1>5
     DEF Init, Idle, At, Calling, IInv, Claimed, Results, Words, Acceptances, Ordered

\* Every step keeps the values well formed.
LEMMA NextTyped == IInv /\ [Next]_vars => Typed'
<1> SUFFICES ASSUME IInv, [Next]_vars
             PROVE  Typed'
  OBVIOUS
<1>0. Typed
  BY DEF IInv
<1>1. /\ issued' \in 0..NumCommands /\ verdicts' \in [Command -> SUBSET Terminal]
  BY <1>0, CoreKeeps
<1>2. receipts' \in [Command -> Status] /\ settled' \subseteq Command
  <2>1. CASE \E status \in Status \ {"none"} : Saves(status)
    BY <1>0, <2>1, SaveEffect, InProgress DEF Saves, Typed
  <2>2. CASE UNCHANGED settled /\ receipts' \in {receipts, Kept}
    <3>1. Kept \in [Command -> Status]
      BY <1>0 DEF Kept, Typed, Status
    <3>2. QED
      BY <1>0, <2>2, <3>1 DEF Typed
  <2>3. QED
    BY <1>0, <2>1, <2>2, StoreSteps DEF RetentionPasses
<1>3. loop' \in LoopState /\ (loop'.at = "idle" <=> loop'.batch = <<>>)
         /\ (loop'.at = "acknowledge" => loop'.tries < MaxAttempts)
  <2>0. /\ loop \in LoopState /\ (loop.at = "idle" <=> loop.batch = <<>>)
        /\ loop.at = "acknowledge" => loop.tries < MaxAttempts
        /\ MaxAttempts \in Nat \ {0} /\ Idle \in LoopState
        /\ 0 \in 0..MaxAttempts /\ 0 < MaxAttempts
    BY <1>0, CommandAssumption, EmptySeq DEF Typed, At, LoopState, Idle, Status
  <2>1. CASE \E status \in Status \ {"none"} : Saves(status)
    BY <1>0, <2>0, <2>1 DEF Saves
  <2>2. CASE Claim
    <3>1. ClaimedBatch \in Seq(Command) /\ Len(ClaimedBatch) # 0
      BY <1>0, <2>2, BatchIs DEF Claim
    <3>2. ClaimedBatch # <<>>
      BY <3>1
    <3>3. QED
      BY <2>0, <2>2, <3>1, <3>2 DEF Claim, LoopState, Idle, Status
  <2>3. CASE \E m \in network : CoreReceives(m)
    <3>1. CASE At("wait") /\ NextInBatch
      <4>1. /\ Tail(loop.batch) \in Seq(Command)
            /\ Len(Tail(loop.batch)) = Len(loop.batch) - 1 /\ Len(loop.batch) \in Nat \ {0}
        BY <1>0, <3>1, RestOfBatch, InProgress DEF At
      <4>2. Len(loop.batch) # 1 => Tail(loop.batch) # <<>>
        <5> SUFFICES ASSUME Tail(loop.batch) = <<>>
                     PROVE  Len(loop.batch) = 1
          OBVIOUS
        <5> DEFINE rest == Len(Tail(loop.batch))
                   all  == Len(loop.batch)
        <5>1. rest = 0
          BY EmptySeq, Zenon
        <5>2. rest = all - 1 /\ all \in Nat
          BY <4>1
        <5> HIDE DEF rest, all
        <5>3. all = 1
          BY <5>1, <5>2
        <5>4. QED
          BY <5>3 DEF all
      <4>3. QED
        BY <2>0, <3>1, <4>1, <4>2 DEF NextInBatch, LoopState, Idle, Status
    <3>2. QED
      BY <2>0, <2>3, <3>1 DEF CoreReceives
  <2>4. CASE ReuseReceipt
    <3>1. Kept[Current] \in Status
      BY <2>4 DEF ReuseReceipt, Status
    <3>2. QED
      BY <2>0, <2>4, <3>1 DEF ReuseReceipt, Result, LoopState, Executing, At
  <2>5. CASE SendAcknowledgement
    <3>1. loop.tries + 1 \in 0..MaxAttempts
      BY <2>0, <2>5 DEF SendAcknowledgement, At, LoopState
    <3>2. QED
      BY <2>0, <2>5, <3>1 DEF SendAcknowledgement, At, LoopState
  <2>6. CASE SendCall \/ CallAccepted \/ AcknowledgementFails
    <3>1. CASE SendCall \/ CallAccepted
      BY <2>0, <3>1 DEF SendCall, CallAccepted, At, LoopState
    <3>2. CASE AcknowledgementFails /\ loop.tries < MaxAttempts
      BY <2>0, <3>2 DEF AcknowledgementFails, At, LoopState
    <3>3. CASE AcknowledgementFails /\ ~(loop.tries < MaxAttempts)
      <4>1. loop' = Idle
        BY <3>3 DEF AcknowledgementFails, Abort
      <4>2. QED
        BY <2>0, <4>1 DEF Idle
    <3>4. QED
      BY <2>6, <3>1, <3>2, <3>3
  <2>7. CASE \/ RejectEnvelope \/ ReadbackError \/ Crash
             \/ Issue \/ RetentionPasses \/ UNCHANGED vars
             \/ \E m \in network : Lost(m)
             \/ \E l \in Light : Switch(l)
             \/ \E c \in Command : CarryOut(c) \/ DeadlinePasses(c)
    BY <2>0, <2>7 DEF RejectEnvelope, ReadbackError, Crash, Abort, Issue, RetentionPasses, vars,
                      Lost, Switch, CarryOut, DeadlinePasses, Idle
  <2>8. CASE DeadlineExpired \/ Accept \/ CallFails \/ ReadbackConfirmed \/ ReadbackTimeout
    BY <1>0, <2>0, <2>8 DEF DeadlineExpired, Accept, CallFails, ReadbackConfirmed,
       ReadbackTimeout, SaveResult, Result, LoopState, Status, Terminal, Executing, At
  <2>9. QED
    BY <2>2, <2>3, <2>4, <2>5, <2>6, <2>7, <2>8 DEF Next, LoopStep
<1>4. light' \in [Light -> State] /\ calls' \in [Command -> Nat] /\ accepted' \subseteq Command
  <2>1. CASE SendCall
    <3>1. Current \in Command /\ UNCHANGED <<light, accepted>>
      BY <1>0, <2>1, InProgress DEF SendCall, At
    <3>2. calls' = [calls EXCEPT ![Current] = @ + 1]
      BY <2>1 DEF SendCall
    <3>3. QED
      BY <1>0, <3>1, <3>2 DEF Typed
  <2>2. CASE CallAccepted
    BY <1>0, <2>2, InProgress DEF CallAccepted, At, Typed
  <2>3. CASE \E c \in Command : CarryOut(c)
    <3> PICK c \in Command : CarryOut(c)
      BY <2>3
    <3>1. light' = [light EXCEPT ![LightOf[c]] = GoalOf[c]] /\ UNCHANGED past
      BY DEF CarryOut
    <3>2. GoalOf[c] \in State
      BY CommandAssumption
    <3>3. QED
      BY <1>0, <3>1, <3>2 DEF Typed, past
  <2>4. CASE \E l \in Light : Switch(l)
    BY <1>0, <2>4 DEF Switch, Typed, past
  <2>5. CASE UNCHANGED <<light, past>>
    BY <1>0, <2>5 DEF Typed, past
  <2>6. QED
    BY <2>1, <2>2, <2>3, <2>4, <2>5
       DEF Next, LoopStep, Claim, RejectEnvelope, ReuseReceipt, DeadlineExpired, Accept,
           CallFails, ReadbackConfirmed, ReadbackTimeout, ReadbackError,
           SendAcknowledgement, AcknowledgementFails, Issue, CoreReceives, Lost, DeadlinePasses,
           RetentionPasses, Crash, outside, vars
<1>5. network' \subseteq Command \X Terminal
  <2>1. CASE SendAcknowledgement
    <3>1. Current \in Command /\ loop.status \in Terminal
      BY <1>0, <2>1, InProgress DEF SendAcknowledgement, At, IInv, Words
    <3>2. QED
      BY <1>0, <2>1, <3>1 DEF SendAcknowledgement, Typed
  <2>2. CASE ~SendAcknowledgement
    <3>1. network' \subseteq network
      BY <2>2
         DEF Next, LoopStep, Claim, RejectEnvelope, ReuseReceipt, DeadlineExpired, Accept,
             SendCall, CallAccepted, CallFails, CarryOut, ReadbackConfirmed, ReadbackTimeout, ReadbackError,
             AcknowledgementFails, Issue, CoreReceives, Lost, Switch, DeadlinePasses,
             RetentionPasses, Crash, outside, vars
    <3>2. QED
      BY <1>0, <3>1 DEF Typed
  <2>3. QED
    BY <2>1, <2>2
<1>6. QED
  BY <1>1, <1>2, <1>3, <1>4, <1>5 DEF Typed, At

\* A batch stays in the order of issue, and complete.
LEMMA NextClaimed == IInv /\ [Next]_vars => Claimed'
<1> SUFFICES ASSUME IInv, [Next]_vars
             PROVE  Claimed'
  OBVIOUS
<1>0. /\ Typed /\ Claimed /\ Command \subseteq Nat /\ Len(<<>>) = 0
      /\ \A c \in Command : verdicts[c] # {} => verdicts'[c] # {}
      /\ issued \in Nat /\ issued' \in Nat /\ issued <= issued'
  BY CoreKeeps, CommandAssumption DEF IInv, Command, Typed
<1> DEFINE b == loop'.batch
<1>1. CASE b = loop.batch
  <2>1. \A i \in 1..Len(loop.batch) : loop.batch[i] \in Nat
    BY <1>0, ElementOfSeq DEF Typed, LoopState
  <2>2. \A c : InBatch(c)' <=> InBatch(c)
    BY <1>1 DEF InBatch
  <2>3. \A i \in 1..Len(loop.batch) : loop.batch[i] <= issued'
    BY <1>0, <2>1 DEF Claimed
  <2>4. QED
    BY <1>0, <1>1, <2>2, <2>3 DEF Claimed
<1>2. CASE b = <<>>
  BY <1>0, <1>2 DEF Claimed, InBatch
<1>3. CASE Unanswered # {} /\ b = ClaimedBatch /\ UNCHANGED <<issued, verdicts>>
  <2>1. \A i, j \in 1..Len(b) : i < j => b[i] < b[j]
    BY <1>0, <1>3, BatchIs
  <2>2. \A i \in 1..Len(b) : b[i] <= issued'
    BY <1>0, <1>3, BatchIs
  <2>3. ASSUME NEW c \in Command, NEW d \in Command, c < d, InBatch(d)', ~InBatch(c)'
        PROVE  verdicts'[c] # {}
    <3>1. PICK i \in 1..Len(b) : b[i] = d
      BY <2>3 DEF InBatch
    <3>2. c \in 1..issued
      BY <1>0, <2>3, <3>1, <1>3, <2>2 DEF Command
    <3>3. c \notin Unanswered
      BY <1>0, <1>3, <2>3, <3>1, BatchIs DEF InBatch
    <3>4. QED
      BY <1>3, <3>2, <3>3 DEF Unanswered
  <2>4. QED
    BY <2>1, <2>2, <2>3 DEF Claimed
<1>4. CASE /\ loop.at = "wait" /\ verdicts'[Current] # {} /\ issued' = issued
           /\ b = Tail(loop.batch)
  <2>1. /\ Len(loop.batch) \in Nat \ {0} /\ Len(b) = Len(loop.batch) - 1
        /\ \A i \in 1..Len(b) : b[i] = loop.batch[i + 1]
        /\ Current = loop.batch[1]
    BY <1>0, <1>4, RestOfBatch, InProgress
  <2> HIDE DEF b
  <2>2. \A i \in 1..Len(b) : i + 1 \in 1..Len(loop.batch)
    BY <2>1
  <2>3. \A i, j \in 1..Len(b) : i < j => b[i] < b[j]
    BY <1>0, <2>1, <2>2 DEF Claimed
  <2>4. \A i \in 1..Len(b) : b[i] <= issued'
    BY <1>0, <1>4, <2>1, <2>2 DEF Claimed
  <2>5. ASSUME NEW c \in Command, NEW d \in Command, c < d,
               \E i \in 1..Len(b) : b[i] = d, ~(\E i \in 1..Len(b) : b[i] = c)
        PROVE  verdicts'[c] # {}
    <3>1. InBatch(d)
      BY <2>1, <2>2, <2>5 DEF InBatch
    <3>2. CASE InBatch(c)
      <4>1. PICK k \in 1..Len(loop.batch) : loop.batch[k] = c
        BY <3>2 DEF InBatch
      <4>2. k # 1 => k - 1 \in 1..Len(b) /\ b[k - 1] = c
        BY <2>1, <4>1
      <4>3. QED
        BY <1>4, <2>1, <2>5, <4>1, <4>2
    <3>3. CASE ~InBatch(c)
      BY <1>0, <2>5, <3>1, <3>3 DEF Claimed
    <3>4. QED
      BY <3>2, <3>3
  <2>6. QED
    BY <2>3, <2>4, <2>5 DEF Claimed, InBatch, b
<1>5. QED
  BY <1>0, <1>1, <1>2, <1>3, <1>4, BatchSteps

\* Only what has no verdict gets into a batch.
LEMMA NewInBatch ==
  ASSUME Typed, [Next]_vars, NEW c \in Command, InBatch(c)'
  PROVE  InBatch(c) \/ verdicts[c] = {}
<1>1. CASE loop'.batch = loop.batch
  BY <1>1 DEF InBatch
<1>2. CASE loop'.batch = <<>>
  BY <1>2 DEF InBatch
<1>3. CASE Unanswered # {} /\ loop'.batch = ClaimedBatch
  BY <1>3, BatchIs DEF InBatch, Unanswered
<1>4. CASE loop.at = "wait" /\ loop'.batch = Tail(loop.batch)
  <2>1. PICK i \in 1..Len(Tail(loop.batch)) : Tail(loop.batch)[i] = c
    BY <1>4 DEF InBatch
  <2>2. i + 1 \in 1..Len(loop.batch) /\ loop.batch[i + 1] = c
    BY <1>4, <2>1, RestOfBatch, InProgress
  <2>3. QED
    BY <2>2 DEF InBatch
<1>5. QED
  BY <1>1, <1>2, <1>3, <1>4, BatchSteps

\* How the loop gets to its statements.
LEMMA PointSteps ==
  ASSUME Typed, [Next]_vars
  PROVE  /\ loop'.at \in Calling =>
              \/ loop.at \in Calling /\ loop'.batch = loop.batch
              \/ Accept /\ loop'.batch = loop.batch
         /\ loop'.at = "readback" =>
              \/ loop.at = "readback" /\ loop'.batch = loop.batch
              \/ CallAccepted /\ loop'.batch = loop.batch
         /\ loop'.at \in {"acknowledge", "wait"} =>
              \/ /\ loop.at \in {"acknowledge", "wait"} /\ UNCHANGED <<receipts, old>>
                 /\ loop'.batch = loop.batch /\ loop'.status = loop.status
              \/ ReuseReceipt /\ loop'.batch = loop.batch /\ loop'.status = Kept[Current]
              \/ \E status \in Status \ {"none"} : Saves(status)
<1> USE DEF At, LoopState, Calling
<1>0. loop \in LoopState
  BY DEF Typed
<1>1. CASE \/ RejectEnvelope \/ ReadbackError \/ Crash \/ Claim
           \/ AcknowledgementFails /\ ~(loop.tries < MaxAttempts)
  <2>1. loop' = Idle \/ loop' = [Idle EXCEPT !.at = "execute", !.batch = ClaimedBatch]
    BY <1>1, Zenon DEF RejectEnvelope, ReadbackError, Crash, Claim, AcknowledgementFails, Abort
  <2>2. loop'.at \in {"idle", "execute"}
    <3>1. CASE loop' = Idle
      BY <3>1 DEF Idle
    <3>2. CASE loop' = [Idle EXCEPT !.at = "execute", !.batch = ClaimedBatch]
      BY <3>2 DEF Idle
    <3>3. QED
      BY <2>1, <3>1, <3>2
  <2>3. QED
    BY <2>2
<1>2. CASE \/ DeadlineExpired \/ CallFails \/ ReadbackConfirmed \/ ReadbackTimeout
  <2>1. loop'.at = "acknowledge"
    BY <1>0, <1>2 DEF DeadlineExpired, CallFails, ReadbackConfirmed, ReadbackTimeout,
                      SaveResult, Result
  <2>2. QED
    BY <1>2, <2>1, SaveSteps
<1>3. CASE Accept
  <2>1. loop'.at = "call" /\ loop'.batch = loop.batch
    BY <1>0, <1>3 DEF Accept
  <2>2. QED
    BY <1>3, <2>1
<1>4. CASE ReuseReceipt
  <2>1. loop'.at = "acknowledge" /\ loop'.batch = loop.batch /\ loop'.status = Kept[Current]
    BY <1>0, <1>4 DEF ReuseReceipt, Result
  <2>2. QED
    BY <1>4, <2>1
<1>5. CASE SendCall \/ CallAccepted
  <2>1. /\ loop.at \in Calling /\ loop'.at \in Calling /\ loop'.batch = loop.batch
        /\ loop'.at \notin {"acknowledge", "wait"} /\ (loop'.at = "readback" => CallAccepted)
    BY <1>0, <1>5 DEF SendCall, CallAccepted, Calling
  <2>2. QED
    BY <1>5, <2>1
<1>6. CASE SendAcknowledgement \/ (AcknowledgementFails /\ loop.tries < MaxAttempts)
  <2>1. /\ loop.at \in {"acknowledge", "wait"} /\ UNCHANGED <<receipts, old>>
        /\ loop'.batch = loop.batch /\ loop'.status = loop.status
        /\ loop'.at \in {"acknowledge", "wait"}
    BY <1>0, <1>6 DEF SendAcknowledgement, AcknowledgementFails, store
  <2>2. QED
    BY <2>1
<1>7. CASE \E m \in network : CoreReceives(m)
  <2>1. CASE NextInBatch
    <3>1. loop'.at \in {"idle", "execute"}
      BY <2>1 DEF NextInBatch, Idle
    <3>2. QED
      BY <3>1
  <2>2. CASE ~NextInBatch
    BY <1>7, <2>2 DEF CoreReceives, store
  <2>3. QED
    BY <2>1, <2>2
<1>8. CASE \/ Issue \/ UNCHANGED vars
           \/ \E m \in network : Lost(m)
           \/ \E l \in Light : Switch(l)
           \/ \E c \in Command : CarryOut(c) \/ DeadlinePasses(c)
  BY <1>8 DEF Issue, Lost, Switch, CarryOut, DeadlinePasses, vars, store
<1>9. CASE RetentionPasses
  BY <1>9 DEF RetentionPasses
<1>10. QED
  BY <1>1, <1>2, <1>3, <1>4, <1>5, <1>6, <1>7, <1>8, <1>9 DEF Next, LoopStep

\* A result keeps its receipt until its deadline has passed.
LEMMA NextResults == IInv /\ [Next]_vars => Results'
<1> SUFFICES ASSUME IInv, [Next]_vars
             PROVE  Results'
  OBVIOUS
<1>0. /\ Typed /\ Results /\ issued \in Nat /\ issued' \in Nat /\ issued <= issued'
      /\ \A c \in Command : c \in Nat
  BY CoreKeeps, CommandAssumption DEF IInv, Typed, Command
<1>1. ASSUME NEW c \in settled'
      PROVE  c <= issued' /\ (c \in expired' \/ Kept'[c] \in Terminal)
  <2>1. CASE /\ UNCHANGED settled /\ expired \subseteq expired'
             /\ UNCHANGED <<receipts, old>> \/ (receipts' = Kept /\ old' = {})
    <3>1. c \in Command /\ c \in settled
      BY <1>0, <1>1, <2>1 DEF Typed
    <3>2. Kept'[c] = Kept[c]
      BY <2>1, <3>1 DEF Kept
    <3>3. QED
      BY <1>0, <2>1, <3>1, <3>2 DEF Results
  <2>2. CASE \E status \in Status \ {"none"} : Saves(status)
    <3>1. PICK status \in Status \ {"none"} : Saves(status)
      BY <2>2
    <3>2. /\ loop.at # "idle" /\ Save(status) /\ UNCHANGED <<issued, expired>>
          /\ status \notin Terminal => Kept[Current] \notin Terminal /\ Current \notin expired
      BY <3>1 DEF Saves, Terminal
    <3>3. /\ \A d \in Command : Kept'[d] = IF d = Current THEN status ELSE Kept[d]
          /\ settled' = IF status \in Terminal THEN settled \cup {Current} ELSE settled
          /\ Current \in Command /\ Current <= issued /\ settled \subseteq Command
      <4>1. Current \in Command /\ Current = loop.batch[1] /\ 1 \in 1..Len(loop.batch)
        BY <1>0, <3>2, InProgress
      <4>2. Current <= issued /\ settled \subseteq Command
        BY <1>0, <4>1 DEF Typed, IInv, Claimed
      <4>3. QED
        BY <1>0, <3>2, <4>1, <4>2, SaveEffect
    <3>4. CASE c = Current
      BY <1>0, <1>1, <3>2, <3>3, <3>4 DEF Results
    <3>5. CASE c # Current
      BY <1>0, <1>1, <3>2, <3>3, <3>5 DEF Results
    <3>6. QED
      BY <3>4, <3>5
  <2>3. CASE RetentionPasses
    <3>1. c \in settled /\ c \in Command /\ expired' = 1..issued /\ issued' = issued
      BY <1>0, <1>1, <2>3 DEF RetentionPasses, Typed, store, core
    <3>2. c <= issued /\ c \in Nat \ {0}
      BY <1>0, <3>1 DEF Results, Command
    <3>3. QED
      BY <1>0, <3>1, <3>2
  <2>4. QED
    BY <1>0, <2>1, <2>2, <2>3, StoreSteps
<1>2. ASSUME loop'.at \in Calling
      PROVE  Kept'[Current'] = "accepted" /\ Current' \notin settled'
  <2>1. CASE Accept /\ loop'.batch = loop.batch
    <3>1. /\ Current' = Current /\ loop.at = "execute" /\ Save("accepted")
          /\ Kept[Current] \notin Terminal /\ Current \notin expired
      BY <2>1 DEF Current, Accept, Executing, At
    <3>2. Kept'[Current] = "accepted" /\ settled' = settled /\ Current \in Command
      BY <1>0, <3>1, SaveEffect, InProgress DEF Status, Terminal
    <3>3. Current \notin settled
      BY <1>0, <3>1 DEF Results
    <3>4. QED
      BY <3>1, <3>2, <3>3
  <2>2. CASE loop.at \in Calling /\ loop'.batch = loop.batch
    <3>1. /\ Current' = Current /\ Kept[Current] = "accepted" /\ Current \notin settled
          /\ Current \in Command
      BY <1>0, <2>2, InProgress DEF Current, Results, Calling
    <3>2. ~RetentionPasses /\ ~(\E status \in Status \ {"none"} : Saves(status))
      BY <1>2, <2>2 DEF RetentionPasses, At, Saves, Terminal, Calling
    <3>3. /\ UNCHANGED settled
          /\ UNCHANGED <<receipts, old>> \/ (receipts' = Kept /\ old' = {})
      BY <1>0, <3>2, StoreSteps
    <3>4. Kept'[Current] = Kept[Current]
      BY <3>1, <3>3 DEF Kept
    <3>5. QED
      BY <3>1, <3>3, <3>4
  <2>3. QED
    BY <1>0, <1>2, <2>1, <2>2, PointSteps
<1>3. QED
  BY <1>1, <1>2 DEF Results

\* Only an acknowledgement that is sent adds to what is said of a command.
LEMMA SaidSteps ==
  ASSUME Typed, [Next]_vars, NEW c \in Command, NEW s \in Terminal, s \in Said(c)'
  PROVE  \/ s \in Said(c)
         \/ SendAcknowledgement /\ c = Current /\ s = loop.status
<1>1. CASE SendAcknowledgement
  BY <1>1 DEF SendAcknowledgement, Said, core
<1>2. CASE \E m \in network : CoreReceives(m)
  <2> PICK m \in network : CoreReceives(m)
    BY <1>2
  <2>1. /\ m = <<m[1], m[2]>> /\ m[1] \in Command /\ m[2] \in Terminal
        /\ network' = network \ {m} /\ verdicts' = [verdicts EXCEPT ![m[1]] = @ \cup {m[2]}]
    BY DEF CoreReceives, Typed
  <2>2. QED
    BY <2>1 DEF Said, Typed
<1>3. CASE ~SendAcknowledgement /\ ~(\E m \in network : CoreReceives(m))
  <2>1. network' \subseteq network /\ verdicts' = verdicts
    BY <1>3
       DEF Next, LoopStep, Claim, RejectEnvelope, ReuseReceipt, DeadlineExpired, Accept,
           SendCall, CallAccepted, CallFails, CarryOut, ReadbackConfirmed, ReadbackTimeout, ReadbackError,
           AcknowledgementFails, Issue, Lost, Switch, DeadlinePasses,
           RetentionPasses, Crash, outside, vars, core
  <2>2. QED
    BY <2>1 DEF Said
<1>4. QED
  BY <1>1, <1>2, <1>3

\* What the Core is told of a command is what its receipt says, as long as it may
\* be told again.
LEMMA NextWords == IInv /\ [Next]_vars => Words'
<1> SUFFICES ASSUME IInv, [Next]_vars
             PROVE  Words'
  OBVIOUS
<1>0. Typed /\ Claimed /\ Results /\ Words
  BY DEF IInv
<1>1. ASSUME NEW c \in Command, NEW s \in Terminal, s \in Said(c)'
      PROVE  \/ Kept'[c] = s
             \/ /\ ~InBatch(c)' /\ verdicts'[c] = {s}
                /\ \A t \in Terminal : <<c, t>> \notin network'
  <2>1. CASE Kept[c] = s
    <3>1. CASE receipts' \in {receipts, Kept} /\ (old' = {} \/ UNCHANGED <<receipts, old>>)
               /\ (receipts' = Kept \/ UNCHANGED <<receipts, old>>)
      BY <2>1, <3>1 DEF Kept
    <3>2. CASE \E status \in Status \ {"none"} : Saves(status)
      <4>1. PICK status \in Status \ {"none"} : Saves(status)
        BY <3>2
      <4>2. Kept[Current] \notin Terminal
        BY <1>0, <4>1 DEF Saves, Results, Terminal
      <4>3. Kept'[c] = Kept[c]
        BY <1>0, <2>1, <4>1, <4>2, SaveEffect DEF Saves
      <4>4. QED
        BY <2>1, <4>3
    <3>3. CASE RetentionPasses
      <4>1. /\ network = {} /\ UNCHANGED <<network, verdicts, loop>> /\ loop.batch = <<>>
        BY <1>0, <3>3 DEF RetentionPasses, core, Typed
      <4>2. ~InBatch(c)'
        <5>1. Len(<<>>) = 0
          OBVIOUS
        <5>2. QED
          BY <4>1, <5>1 DEF InBatch
      <4>3. s \in verdicts[c] /\ verdicts[c] \subseteq Terminal
        BY <1>0, <1>1, <4>1 DEF Said, Typed
      <4>4. \A r \in verdicts[c] : r = s
        <5> TAKE r \in verdicts[c]
        <5>1. r \in Terminal /\ r \in Said(c)
          BY <4>3 DEF Said
        <5>2. Kept[c] = r \/ verdicts[c] = {r}
          BY <1>0, <5>1 DEF Words
        <5>3. QED
          BY <2>1, <4>3, <5>2
      <4>5. QED
        BY <4>1, <4>2, <4>3, <4>4
    <3>4. QED
      BY <1>0, <3>1, <3>2, <3>3, StoreSteps
  <2>2. CASE /\ ~InBatch(c) /\ verdicts[c] = {s}
             /\ \A t \in Terminal : <<c, t>> \notin network
    <3>1. ~InBatch(c)'
      BY <1>0, <2>2, NewInBatch
    <3>2. ASSUME NEW r \in Terminal, r \in Said(c)'
          PROVE  r = s /\ r \notin {t \in Terminal : <<c, t>> \in network'}
      <4>1. ~(SendAcknowledgement /\ c = Current)
        BY <1>0, <2>2, InProgress DEF SendAcknowledgement, At
      <4>2. r \in Said(c)
        BY <1>0, <3>2, <4>1, SaidSteps
      <4>3. r = s
        BY <2>2, <4>2 DEF Said
      <4>4. <<c, r>> \notin network'
        <5>1. CASE SendAcknowledgement
          BY <2>2, <4>1, <5>1 DEF SendAcknowledgement
        <5>2. CASE ~SendAcknowledgement
          <6>1. network' \subseteq network
            BY <5>2
               DEF Next, LoopStep, Claim, RejectEnvelope, ReuseReceipt, DeadlineExpired, Accept,
                   SendCall, CallAccepted, CallFails, CarryOut, ReadbackConfirmed, ReadbackTimeout, ReadbackError,
                   AcknowledgementFails, Issue, CoreReceives, Lost, Switch, DeadlinePasses,
                   RetentionPasses, Crash, outside, vars
          <6>2. QED
            BY <2>2, <6>1
        <5>3. QED
          BY <5>1, <5>2
      <4>5. QED
        BY <4>3, <4>4
    <3>3. verdicts'[c] \subseteq Terminal /\ s \in verdicts'[c]
      BY <1>0, <2>2, CoreKeeps
    <3>4. \A r \in Terminal : r \in verdicts'[c] \/ <<c, r>> \in network' => r \in Said(c)'
      BY DEF Said
    <3>5. verdicts'[c] = {s}
      BY <3>2, <3>3, <3>4
    <3>6. \A t \in Terminal : <<c, t>> \notin network'
      BY <3>2, <3>4
    <3>7. QED
      BY <3>1, <3>5, <3>6
  <2>3. CASE SendAcknowledgement /\ c = Current /\ s = loop.status
    <3>1. Kept[c] = s
      BY <1>0, <2>3 DEF Words, SendAcknowledgement, At
    <3>2. Kept'[c] = Kept[c]
      BY <2>3 DEF SendAcknowledgement, store, Kept
    <3>3. QED
      BY <3>1, <3>2
  <2>4. QED
    BY <1>0, <1>1, <2>1, <2>2, <2>3, SaidSteps DEF Words
<1>2. ASSUME loop'.at \in {"acknowledge", "wait"}
      PROVE  loop'.status = Kept'[Current'] /\ loop'.status \in Terminal
  <2>1. CASE /\ loop.at \in {"acknowledge", "wait"} /\ UNCHANGED <<receipts, old>>
             /\ loop'.batch = loop.batch /\ loop'.status = loop.status
    BY <1>0, <2>1 DEF Words, Current, Kept
  <2>2. CASE ReuseReceipt /\ loop'.batch = loop.batch /\ loop'.status = Kept[Current]
    <3>1. loop.at # "idle" /\ Current' = Current /\ receipts' = Kept /\ old' = {}
      BY <2>2 DEF Current, ReuseReceipt, Executing, At
    <3>2. Current \in Command
      BY <1>0, <3>1, InProgress
    <3>3. Kept'[Current] = Kept[Current]
      BY <3>1, <3>2 DEF Kept
    <3>4. QED
      BY <2>2, <3>1, <3>3 DEF ReuseReceipt
  <2>3. CASE \E status \in Status \ {"none"} : Saves(status)
    <3>1. PICK status \in Status \ {"none"} : Saves(status)
      BY <2>3
    <3>2. loop.at # "idle" /\ Current' = Current /\ loop'.status = status /\ status \in Terminal
          /\ Save(status)
      BY <1>2, <3>1 DEF Saves, Current
    <3>3. Kept'[Current] = status
      BY <1>0, <3>1, <3>2, SaveEffect, InProgress
    <3>4. QED
      BY <3>2, <3>3
  <2>4. QED
    BY <1>0, <1>2, <2>1, <2>2, <2>3, PointSteps
<1>3. QED
  BY <1>1, <1>2 DEF Words

\* Only a call of the command in progress is sent, and what was accepted stays so.
LEMMA CallSteps ==
  ASSUME Typed, [Next]_vars
  PROVE  /\ \A c \in Command : calls'[c] \in Nat /\ calls[c] <= calls'[c]
         /\ \A c \in Command : calls'[c] # calls[c] =>
              loop.at = "call" /\ c = Current /\ loop'.batch = loop.batch
         /\ accepted \subseteq accepted'
<1>1. CASE SendCall
  <2>1. Current \in Command /\ calls \in [Command -> Nat] /\ loop.at = "call"
    BY <1>1, InProgress DEF Typed, SendCall, At
  <2>2. calls' = [calls EXCEPT ![Current] = @ + 1] /\ accepted' = accepted
    BY <1>1 DEF SendCall
  <2>3. loop'.batch = loop.batch
    BY <1>1 DEF SendCall, Typed, LoopState
  <2>4. QED
    BY <2>1, <2>2, <2>3
<1>2. CASE UNCHANGED calls /\ accepted \subseteq accepted'
  BY <1>2 DEF Typed
<1>3. QED
  BY <1>1, <1>2
     DEF Next, LoopStep, Claim, RejectEnvelope, ReuseReceipt, DeadlineExpired, Accept,
         CallAccepted, CallFails, ReadbackConfirmed, ReadbackTimeout, ReadbackError,
         SendAcknowledgement, AcknowledgementFails, Issue, CoreReceives, Lost, Switch, CarryOut,
         DeadlinePasses, RetentionPasses, Crash, outside, vars, past

\* What is said to be executed was accepted.
LEMMA NextAcceptances == IInv /\ [Next]_vars => Acceptances'
<1> SUFFICES ASSUME IInv, [Next]_vars
             PROVE  Acceptances'
  OBVIOUS
<1>0. Typed /\ Words /\ Acceptances /\ "executed" \in Terminal
  BY DEF IInv, Terminal
<1>1. accepted \subseteq accepted'
  BY <1>0, CallSteps
<1>2. \A c \in Command : Kept[c] = "executed" => c \in accepted
  BY <1>0 DEF Kept, Acceptances
<1>3. ASSUME NEW c \in Command, "executed" \in Said(c)'
      PROVE  c \in accepted
  <2>1. CASE SendAcknowledgement /\ c = Current /\ "executed" = loop.status
    BY <1>0, <1>2, <2>1 DEF Words, SendAcknowledgement, At
  <2>2. QED
    BY <1>0, <1>3, <2>1, SaidSteps DEF Acceptances
<1>4. ASSUME NEW c \in Command, receipts'[c] = "executed"
      PROVE  c \in accepted
  <2>1. CASE receipts' = receipts \/ receipts' = Kept
    BY <1>0, <1>2, <1>4, <2>1 DEF Acceptances
  <2>2. CASE \E status \in Status \ {"none"} : Saves(status)
    <3>1. PICK status \in Status \ {"none"} : Saves(status)
      BY <2>2
    <3>2. receipts'[c] = IF c = Current THEN status ELSE Kept[c]
      BY <1>0, <3>1, SaveEffect DEF Saves
    <3>3. status = "executed" => loop.at = "readback"
      BY <3>1 DEF Saves
    <3>4. QED
      BY <1>0, <1>2, <1>4, <3>2, <3>3 DEF Acceptances, At
  <2>3. QED
    BY <1>0, <2>1, <2>2, StoreSteps DEF RetentionPasses
<1>5. ASSUME loop'.at = "readback"
      PROVE  Current' \in accepted'
  <2>1. CASE loop.at = "readback" /\ loop'.batch = loop.batch
    BY <1>0, <1>1, <2>1, InProgress DEF Acceptances, At, Current
  <2>2. CASE CallAccepted /\ loop'.batch = loop.batch
    BY <2>2 DEF CallAccepted, Current
  <2>3. QED
    BY <1>0, <1>5, <2>1, <2>2, PointSteps
<1>6. QED
  BY <1>1, <1>3, <1>4, <1>5 DEF Acceptances, At

\* A command of which a call was sent leaves no older one to be sent.
LEMMA NextOrdered == IInv /\ [Next]_vars => Ordered'
<1> SUFFICES ASSUME IInv, [Next]_vars,
                    NEW c \in Command, NEW d \in Command, c < d, calls'[d] > 0
             PROVE  ~InBatch(c)' /\ verdicts'[c] # {}
  BY DEF Ordered
<1>0. Typed /\ Claimed /\ Ordered /\ c \in Nat /\ d \in Nat
  BY CommandAssumption DEF IInv, Command
<1>1. ~InBatch(c) /\ verdicts[c] # {}
  <2>1. CASE calls[d] > 0
    BY <1>0, <2>1 DEF Ordered
  <2>2. CASE ~(calls[d] > 0)
    <3>1. loop.at = "call" /\ d = Current
      BY <1>0, <2>2, CallSteps
    <3>2. /\ loop.batch[1] = d /\ InBatch(d) /\ Len(loop.batch) \in Nat \ {0}
      BY <1>0, <3>1, InProgress
    <3>3. ~InBatch(c)
      <4> SUFFICES ASSUME NEW i \in 1..Len(loop.batch), loop.batch[i] = c
                   PROVE  FALSE
        BY DEF InBatch
      <4>1. i = 1 \/ 1 < i
        OBVIOUS
      <4>2. CASE 1 < i
        <5>1. loop.batch[1] < loop.batch[i]
          BY <1>0, <3>2, <4>2 DEF Claimed
        <5>2. QED
          BY <1>0, <3>2, <5>1
      <4>3. QED
        BY <1>0, <3>2, <4>1, <4>2
    <3>4. QED
      BY <1>0, <3>2, <3>3 DEF Claimed
  <2>3. QED
    BY <2>1, <2>2
<1>2. QED
  BY <1>0, <1>1, NewInBatch, CoreKeeps

\* Every step of the loop, the Core and the world keeps the invariant.
LEMMA NextInv == IInv /\ [Next]_vars => IInv'
BY NextTyped, NextClaimed, NextResults, NextWords, NextAcceptances, NextOrdered DEF IInv

-----------------------------------------------------------------------------
(* The theorems.                                                           *)

\* The receipts, the loop and the messages hold the statuses execute returns.
THEOREM CommandsTyped == Spec => []TypeOK
<1>1. IInv => TypeOK
  BY DEF IInv, Typed, TypeOK, LoopState, Status
<1>2. QED
  BY InitInv, NextInv, <1>1, PTL DEF Spec

\* execute: a command that had a result is not sent to Home Assistant again,
\* whatever is redelivered, retried, pruned or crashes in between.
THEOREM ResultEndsCalls == Spec => NoCallAfterResult
<1>1. IInv /\ [Next]_vars =>
        [\A c \in Command : calls'[c] # calls[c] => c \notin settled]_vars
  BY CallSteps DEF IInv, Results, Calling
<1>2. QED
  BY InitInv, NextInv, <1>1, PTL DEF Spec, NoCallAfterResult

\* execute and acknowledge_command: all that the Core ever hears of one command is
\* one and the same verdict.
THEOREM VerdictsAgree == Spec => []OneVerdict
<1>1. IInv => OneVerdict
  <2> SUFFICES ASSUME IInv, NEW c \in Command
               PROVE  Cardinality(Said(c)) <= 1
    BY DEF OneVerdict, Said
  <2>1. \A s \in Said(c) : s \in Terminal
    BY DEF Said, IInv, Typed
  <2>2. ASSUME NEW s \in Said(c), NEW t \in Said(c)
        PROVE  s = t
    <3>1. \/ Kept[c] = s
          \/ verdicts[c] = {s} /\ \A r \in Terminal : <<c, r>> \notin network
      BY <2>1 DEF IInv, Words
    <3>2. \/ Kept[c] = t
          \/ verdicts[c] = {t} /\ \A r \in Terminal : <<c, r>> \notin network
      BY <2>1 DEF IInv, Words
    <3>3. QED
      BY <3>1, <3>2 DEF Said
  <2>3. CASE Said(c) = {}
    BY <2>3, FS_EmptySet
  <2>4. CASE Said(c) # {}
    <3>1. PICK s \in Said(c) : TRUE
      BY <2>4
    <3>2. Said(c) = {s}
      BY <2>2
    <3>3. Cardinality(Said(c)) = 1
      BY <3>2, FS_Singleton
    <3>4. QED
      BY <3>3
  <2>5. QED
    BY <2>3, <2>4
<1>2. QED
  BY InitInv, NextInv, <1>1, PTL DEF Spec

\* execute: the Core is told "executed" only of a command of which Home Assistant
\* answered a call with success.
THEOREM ExecutedIsAccepted == Spec => []ExecutedWasAccepted
<1>1. IInv => ExecutedWasAccepted
  BY DEF IInv, Acceptances, ExecutedWasAccepted, Said
<1>2. QED
  BY InitInv, NextInv, <1>1, PTL DEF Spec

\* process_commands_once: no call of a command is sent after one of a newer command.
THEOREM CallsInOrder == Spec => CallsKeepOrder
<1>1. ASSUME IInv, [Next]_vars
      PROVE  [\A c, d \in Command :
                calls'[c] # calls[c] /\ c < d /\ LightOf[c] = LightOf[d] => calls[d] = 0]_vars
  <2> SUFFICES ASSUME NEW c \in Command, NEW d \in Command, calls'[c] # calls[c], c < d
               PROVE  calls[d] = 0
    BY Zenon
  <2>1. Typed /\ Ordered /\ calls[d] \in Nat
    BY <1>1 DEF IInv, Typed
  <2>2. InBatch(c)
    BY <1>1, <2>1, CallSteps, InProgress
  <2>3. ~(calls[d] > 0)
    BY <2>1, <2>2 DEF Ordered
  <2>4. QED
    BY <2>1, <2>3
<1>2. QED
  BY InitInv, NextInv, <1>1, PTL DEF Spec, CallsKeepOrder

=============================================================================
