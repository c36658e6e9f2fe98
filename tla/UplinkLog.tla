------------------------------- MODULE UplinkLog -------------------------------
(***************************************************************************)
(* What the bounded uplink queue promises its users, with no tables, ages  *)
(* or attempt counters: a log that continues the Core's cursor.            *)
(*                                                                         *)
(*   cursor     the last sequence the Core is known to have               *)
(*   tail       the items behind it; tail[i] carries sequence cursor + i   *)
(*   dropped    how many items were given up, ever                         *)
(*   owed       a reconciliation snapshot is required                      *)
(*                                                                         *)
(* An item enters at the end, leaves at the front when the Core confirms   *)
(* it, and is lost only together with the whole tail, or on entry, and     *)
(* then it is counted and a snapshot is owed.                              *)
(***************************************************************************)
EXTENDS Integers, Sequences

CONSTANT Payload

VARIABLES cursor, tail, dropped, owed

vars == <<cursor, tail, dropped, owed>>

TypeOK ==
  /\ cursor \in Nat
  /\ tail \in Seq(Payload)
  /\ dropped \in Nat
  /\ owed \in BOOLEAN

Init == cursor = 0 /\ tail = <<>> /\ dropped = 0 /\ owed = FALSE

\* n items were given up.
GiveUp(n) == dropped' = dropped + n /\ owed' = TRUE

Append1(p) ==
  /\ tail' = Append(tail, p)
  /\ UNCHANGED <<cursor, dropped, owed>>

Refuse == GiveUp(1) /\ UNCHANGED <<cursor, tail>>

\* The tail is given up and, in the same transaction, nothing, a new first
\* item, or one more refusal follows.
Clear           == tail # <<>> /\ GiveUp(Len(tail)) /\ tail' = <<>> /\ UNCHANGED cursor
ClearAndAppend(p) == tail # <<>> /\ GiveUp(Len(tail)) /\ tail' = <<p>> /\ UNCHANGED cursor
ClearAndRefuse  == tail # <<>> /\ GiveUp(Len(tail) + 1) /\ tail' = <<>> /\ UNCHANGED cursor

\* The Core confirms everything up to its cursor, queued here or not.
Confirm ==
  /\ cursor' \in Nat
  /\ cursor' > cursor
  /\ LET n == cursor' - cursor
     IN  tail' = IF n >= Len(tail) THEN <<>> ELSE SubSeq(tail, n + 1, Len(tail))
  /\ UNCHANGED <<dropped, owed>>

\* The Core names an older cursor than the log's: nothing queued can follow it.
Rewind ==
  /\ cursor' \in Nat
  /\ cursor' < cursor
  /\ tail' = <<>>
  /\ IF tail = <<>> THEN UNCHANGED <<dropped, owed>> ELSE GiveUp(Len(tail))

Reconciled == owed' = FALSE /\ UNCHANGED <<cursor, tail, dropped>>

Next ==
  \/ \E p \in Payload : Append1(p) \/ ClearAndAppend(p)
  \/ Refuse
  \/ Clear
  \/ ClearAndRefuse
  \/ Confirm
  \/ Rewind
  \/ Reconciled

Spec == Init /\ [][Next]_vars

=============================================================================
