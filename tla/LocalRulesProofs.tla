---------------------------- MODULE LocalRulesProofs ----------------------------
(***************************************************************************)
(* Proofs about rule packages (LocalRules), for all packages, events,      *)
(* outcomes, sizes of the table and bounds of the model.                   *)
(*                                                                         *)
(* The lemmas of the first part say what a step does to the table of       *)
(* executions.  What they leave of LocalRuleStore is: an insert records    *)
(* the new key and drops at most one old one, and nothing else drops any.  *)
(***************************************************************************)
EXTENDS LocalRules, FiniteSetTheorems, SequenceTheorems, WellFoundedInduction, TLAPS

Upload == {"held", "pending", "uploaded"}

Row == [key : Key, upload : Upload]

SubState == [at : {"idle", "taken", "rules", "dispatch", "finalize"},
             event : Event \cup {NoSub.event}, left : SUBSET Package, key : Key \cup {<<>>}]

LoopState == [at : {"claim", "controls", "acknowledge", "report", "upload", "mark"},
              controls : SUBSET Package, items : SUBSET Package,
              sent : SUBSET (Package \cup Key)]

CatalogState == [released : SUBSET Package, superseded : SUBSET Package,
                 withdrawn : SUBSET Package, answered : SUBSET Package,
                 failed : SUBSET Package]

OneRowEach(rs) == \A i, j \in DOMAIN rs : rs[i].key = rs[j].key => i = j

KeysOf(rs) == {rs[i].key : i \in DOMAIN rs}

\* The table local_rule_execution: its primary key, and its size.
Table ==
  /\ rows \in Seq(Row) /\ Len(rows) <= MaxRows
  /\ OneRowEach(rows)

Typed ==
  /\ active \subseteq Package
  /\ sub \in SubState /\ loop \in LoopState /\ catalog \in CatalogState
  /\ sub.at # "idle" => sub.event \in Event
  /\ calls \in [Key -> Nat]

IInv == Table /\ Typed /\ ReservationKept

-----------------------------------------------------------------------------
(* The table of executions.                                                *)

\* RemoveAt takes one element out and keeps the others in their order: the DELETE
\* of _prune.
LEMMA Removal ==
  ASSUME NEW S, NEW s \in Seq(S), NEW j \in 1..Len(s)
  PROVE  /\ RemoveAt(s, j) \in Seq(S)
         /\ Len(RemoveAt(s, j)) = Len(s) - 1
         /\ \A i \in 1..(Len(s) - 1) :
              RemoveAt(s, j)[i] = s[IF i < j THEN i ELSE i + 1]
<1> DEFINE n == Len(s)
           a == SubSeq(s, 1, j - 1)
           b == SubSeq(s, j + 1, n)
<1>1. n \in Nat /\ j \in Nat /\ 1 <= j /\ j <= n
  BY LenProperties
<1>2. /\ a \in Seq(S) /\ Len(a) = j - 1
      /\ \A i \in 1..(j - 1) : a[i] = s[i]
  <2>1. \A i \in 1..(j - 1) : s[i] \in S
    BY <1>1, ElementOfSeq
  <2>2. 1 \in Int /\ j - 1 \in Int
    BY <1>1
  <2>3. /\ a \in Seq(S) /\ Len(a) = IF 1 <= j - 1 THEN (j - 1) - 1 + 1 ELSE 0
        /\ \A i \in 1..((j - 1) - 1 + 1) : a[i] = s[1 + i - 1]
    BY <2>1, <2>2, SubSeqProperties
  <2> HIDE DEF a
  <2>4. QED
    BY <1>1, <2>3
<1>3. /\ b \in Seq(S) /\ Len(b) = n - j
      /\ \A i \in 1..(n - j) : b[i] = s[j + i]
  <2>1. \A i \in (j + 1)..n : s[i] \in S
    BY <1>1, ElementOfSeq
  <2>2. j + 1 \in Int /\ n \in Int
    BY <1>1
  <2>3. /\ b \in Seq(S) /\ Len(b) = IF j + 1 <= n THEN n - (j + 1) + 1 ELSE 0
        /\ \A i \in 1..(n - (j + 1) + 1) : b[i] = s[(j + 1) + i - 1]
    BY <2>1, <2>2, SubSeqProperties
  <2> HIDE DEF b, n
  <2>4. QED
    BY <1>1, <2>3
<1>4. /\ a \o b \in Seq(S) /\ Len(a \o b) = Len(a) + Len(b)
      /\ \A i \in 1..(Len(a) + Len(b)) :
           (a \o b)[i] = IF i <= Len(a) THEN a[i] ELSE b[i - Len(a)]
  BY <1>2, <1>3, ConcatProperties
<1>5. RemoveAt(s, j) = a \o b
  BY DEF RemoveAt
<1> HIDE DEF a, b, n
<1>6. Len(a) + Len(b) = n - 1
  BY <1>1, <1>2, <1>3
<1>7. ASSUME NEW i \in 1..(n - 1)
      PROVE  (a \o b)[i] = s[IF i < j THEN i ELSE i + 1]
  <2>1. CASE i < j
    <3>1. i <= Len(a) /\ i \in 1..(j - 1)
      BY <1>1, <1>2, <2>1
    <3>2. QED
      BY <1>2, <1>4, <1>6, <2>1, <3>1
  <2>2. CASE ~(i < j)
    <3>1. ~(i <= Len(a)) /\ i - Len(a) \in 1..(n - j) /\ j + (i - Len(a)) = i + 1
      BY <1>1, <1>2, <2>2
    <3>2. QED
      BY <1>3, <1>4, <1>6, <2>2, <3>1
  <2>3. QED
    BY <2>1, <2>2
<1>8. QED
  BY <1>4, <1>5, <1>6, <1>7 DEF n

\* A set of row numbers that is not empty has a least one: ORDER BY created_at
\* LIMIT 1 finds a row.
LEMMA LeastRow ==
  ASSUME NEW U \in SUBSET Nat, U # {}
  PROVE  Min(U) \in U
<1>1. OpToRel(<, Nat) = {r \in Nat \X Nat : r[1] < r[2]}
  BY DEF OpToRel
<1> DEFINE R == {r \in Nat \X Nat : r[1] < r[2]}
<1>2. IsWellFoundedOn(R, Nat)
  BY <1>1, NatLessThanWellFounded
<1>3. \E m \in U : \A y \in U : ~(<<y, m>> \in R)
  <2> HIDE DEF R
  <2>1. QED
    BY <1>2, WFMin
<1>4. PICK m \in U : \A y \in U : ~(<<y, m>> \in R)
  BY <1>3, Zenon
<1>5. \A y \in U : m <= y
  <2> TAKE y \in U
  <2>1. m \in Nat /\ y \in Nat
    OBVIOUS
  <2>2. ~(y < m)
    BY <1>4, <2>1
  <2>3. QED
    BY <2>1, <2>2
<1>6. QED
  BY <1>5 DEF Min

\* Marking rows changes neither their number nor their keys: finalize_execution and
\* mark_evidence_uploaded are UPDATEs.
LEMMA MarkedRows ==
  ASSUME NEW rs \in Seq(Row), NEW keys, NEW upload \in Upload
  PROVE  /\ Marked(rs, keys, upload) \in Seq(Row)
         /\ Len(Marked(rs, keys, upload)) = Len(rs)
         /\ \A i \in 1..Len(rs) : Marked(rs, keys, upload)[i].key = rs[i].key
<1> DEFINE n == Len(rs)
           e(i) == IF rs[i].key \in keys THEN [rs[i] EXCEPT !.upload = upload] ELSE rs[i]
           m == Marked(rs, keys, upload)
<1>1. n \in Nat /\ DOMAIN rs = 1..n
  BY LenProperties
<1>2. \A i \in 1..n : rs[i] \in Row
  BY ElementOfSeq
<1>3. \A i \in 1..n : e(i) \in Row /\ e(i).key = rs[i].key
  BY <1>2 DEF Row
<1>4. m = [i \in 1..n |-> e(i)]
  BY <1>1 DEF Marked
<1> HIDE DEF e, n
<1>5. m \in [1..n -> Row] /\ \A i \in 1..n : m[i].key = rs[i].key
  <2> HIDE DEF m
  <2>1. QED
    BY <1>3, <1>4
<1>6. m \in Seq(Row)
  BY <1>1, <1>5, SeqDef
<1>7. Len(m) = n
  <2>1. DOMAIN m = 1..n /\ DOMAIN m = 1..Len(m) /\ Len(m) \in Nat
    BY <1>5, <1>6, LenProperties
  <2> HIDE DEF m
  <2>2. QED
    BY <1>1, <2>1
<1>8. QED
  BY <1>5, <1>6, <1>7 DEF n

\* _prune drops at most one row: one that was uploaded, or any if none was; never
\* the row that was just inserted.
LEMMA PrunedRows ==
  ASSUME NEW rs \in Seq(Row), rs # <<>>, Len(rs) <= MaxRows + 1, OneRowEach(rs),
         rs[Len(rs)].upload = "held"
  PROVE  /\ Prune(rs) \in Seq(Row) /\ Len(Prune(rs)) <= MaxRows /\ OneRowEach(Prune(rs))
         /\ rs[Len(rs)].key \in KeysOf(Prune(rs))
         /\ KeysOf(Prune(rs)) \subseteq KeysOf(rs)
         /\ Len(rs) <= MaxRows => Prune(rs) = rs
         /\ \A i \in 1..Len(rs) :
              rs[i].key \notin KeysOf(Prune(rs)) =>
                \/ rs[i].upload = "uploaded"
                \/ \A h \in 1..Len(rs) : rs[h].upload # "uploaded"
<1> DEFINE n == Len(rs)
           U == {i \in DOMAIN rs : rs[i].upload = "uploaded"}
           j == IF U = {} THEN 1 ELSE Min(U)
           P == RemoveAt(rs, j)
<1>1. n \in Nat /\ n > 0 /\ DOMAIN rs = 1..n /\ MaxRows \in Nat /\ MaxRows > 0
  <2>1. n \in Nat /\ n # 0 /\ DOMAIN rs = 1..n
    BY LenProperties, EmptySeq
  <2>2. MaxRows \in Nat \ {0}
    BY RulesAssumption DEF RulesAssumption
  <2> HIDE DEF n
  <2>3. QED
    BY <2>1, <2>2
<1>2. CASE n <= MaxRows
  <2>1. Prune(rs) = rs
    BY <1>2 DEF Prune
  <2>2. n \in DOMAIN rs
    <3> HIDE DEF n
    <3>1. QED
      BY <1>1
  <2>3. rs[n].key \in KeysOf(rs)
    BY <2>2 DEF KeysOf
  <2>4. \A i \in 1..n : rs[i].key \in KeysOf(rs)
    BY <1>1 DEF KeysOf
  <2>5. QED
    BY <1>2, <2>1, <2>3, <2>4
<1>3. CASE ~(n <= MaxRows)
  <2>1. Prune(rs) = P
    BY <1>3 DEF Prune
  <2>2. n = MaxRows + 1 /\ n >= 2
    <3>1. n <= MaxRows + 1
      OBVIOUS
    <3> HIDE DEF n
    <3>2. QED
      BY <1>1, <1>3, <3>1
  <2>3. j \in 1..n /\ (U # {} => j \in U)
    <3>1. U \in SUBSET Nat
      BY <1>1
    <3>2. U # {} => Min(U) \in U
      BY <3>1, LeastRow
    <3>3. 1 \in 1..n
      <4> HIDE DEF n
      <4>1. QED
        BY <1>1
    <3> HIDE DEF n
    <3>4. QED
      BY <1>1, <3>2, <3>3
  <2>4. j # n
    <3>1. CASE U = {}
      <4>1. j = 1
        BY <3>1
      <4> HIDE DEF j, n
      <4>2. QED
        BY <2>2, <4>1
    <3>2. CASE U # {}
      <4>1. rs[j].upload = "uploaded" /\ rs[n].upload = "held"
        BY <2>3, <3>2
      <4> HIDE DEF j, n, U
      <4>2. QED
        BY <4>1
    <3>3. QED
      BY <3>1, <3>2
  <2> HIDE DEF j
  <2>5. /\ P \in Seq(Row) /\ Len(P) = n - 1
        /\ \A i \in 1..(n - 1) : P[i] = rs[IF i < j THEN i ELSE i + 1]
    BY <2>3, Removal
  <2>6. DOMAIN P = 1..(n - 1)
    BY <2>5, LenProperties
  <2> HIDE DEF P, n
  <2>7. OneRowEach(P)
    <3> SUFFICES ASSUME NEW a \in 1..(n - 1), NEW b \in 1..(n - 1), P[a].key = P[b].key
                 PROVE  a = b
      BY <2>6 DEF OneRowEach
    <3> DEFINE at(i) == IF i < j THEN i ELSE i + 1
    <3>1. at(a) \in 1..n /\ at(b) \in 1..n
      BY <1>1
    <3>2. rs[at(a)].key = rs[at(b)].key
      BY <2>5
    <3>3. at(a) = at(b)
      BY <1>1, <3>1, <3>2 DEF OneRowEach
    <3>4. QED
      BY <1>1, <2>3, <3>3
  <2>8. \A i \in 1..n : i # j => rs[i].key \in KeysOf(P)
    <3> SUFFICES ASSUME NEW i \in 1..n, i # j
                 PROVE  rs[i].key \in KeysOf(P)
      OBVIOUS
    <3>1. CASE i < j
      <4>1. i \in 1..(n - 1)
        BY <1>1, <2>3, <3>1
      <4>2. P[i] = rs[i]
        BY <2>5, <3>1, <4>1
      <4>3. QED
        BY <2>6, <4>1, <4>2 DEF KeysOf
    <3>2. CASE i > j
      <4>1. i - 1 \in 1..(n - 1) /\ ~(i - 1 < j) /\ (i - 1) + 1 = i
        BY <1>1, <2>3, <3>2
      <4>2. P[i - 1] = rs[i]
        BY <2>5, <4>1
      <4>3. QED
        BY <2>6, <4>1, <4>2 DEF KeysOf
    <3>3. QED
      BY <1>1, <2>3, <3>1, <3>2
  <2>9. KeysOf(P) \subseteq KeysOf(rs)
    <3> SUFFICES ASSUME NEW i \in 1..(n - 1)
                 PROVE  P[i].key \in KeysOf(rs)
      BY <2>6 DEF KeysOf
    <3>1. CASE i < j
      <4>1. i \in DOMAIN rs /\ P[i] = rs[i]
        BY <1>1, <2>5, <3>1
      <4>2. QED
        BY <4>1 DEF KeysOf
    <3>2. CASE ~(i < j)
      <4>1. i + 1 \in DOMAIN rs /\ P[i] = rs[i + 1]
        BY <1>1, <2>5, <3>2
      <4>2. QED
        BY <4>1 DEF KeysOf
    <3>3. QED
      BY <3>1, <3>2
  <2>10. ASSUME NEW i \in 1..n, rs[i].key \notin KeysOf(P)
         PROVE  \/ rs[i].upload = "uploaded"
                \/ \A h \in 1..n : rs[h].upload # "uploaded"
    <3>1. i = j
      BY <2>8, <2>10
    <3>2. CASE U = {}
      BY <1>1, <3>2
    <3>3. CASE U # {}
      BY <2>3, <3>1, <3>3
    <3>4. QED
      BY <3>2, <3>3
  <2>11. n \in 1..n
    BY <1>1
  <2>12. Len(P) <= MaxRows
    <3> DEFINE m == Len(P)
    <3>1. m = n - 1
      BY <2>5
    <3> HIDE DEF m
    <3>2. m <= MaxRows
      BY <1>1, <2>2, <3>1
    <3>3. QED
      BY <3>2 DEF m
  <2>13. rs[n].key \in KeysOf(P)
    BY <2>4, <2>8, <2>11
  <2>14. QED
    BY <1>3, <2>1, <2>5, <2>7, <2>9, <2>10, <2>12, <2>13 DEF n
<1>4. QED
  BY <1>2, <1>3

\* What a step does to the table: an insert, an update of some rows, or nothing.
LEMMA TableSteps ==
  ASSUME [Next]_vars
  PROVE  \/ rows' = rows
         \/ \E keys : rows' = Marked(rows, keys, "pending")
         \/ \E keys : rows' = Marked(rows, keys, "uploaded")
         \/ \E p \in Package : ReserveExecution(p)
<1>1. CASE UNCHANGED vars
  BY <1>1 DEF vars, files
<1>2. ASSUME NEW e \in Event, TakeEvent(e) PROVE rows' = rows
  BY <1>2 DEF TakeEvent, files
<1>3. CASE SubscriptionStep
  <2>1. CASE ReadDocuments
    BY <2>1 DEF ReadDocuments
  <2>2. ASSUME NEW p \in Package, RuleUnverified(p) \/ RuleSkipped(p) PROVE rows' = rows
    BY <2>2 DEF RuleUnverified, RuleSkipped, files
  <2>3. CASE DispatchActions \/ EventDone
    BY <2>3 DEF DispatchActions, EventDone, files
  <2>4. CASE FinalizeExecution
    BY <2>4 DEF FinalizeExecution, Finalize
  <2>5. QED
    BY <1>3, <2>1, <2>2, <2>3, <2>4 DEF SubscriptionStep
<1>4. CASE RuleLoopStep
  <2>1. CASE ClaimPackages \/ AcknowledgeItem \/ ReadEvidence \/ UploadEvidence
    BY <2>1 DEF ClaimPackages, AcknowledgeItem, ReadEvidence, UploadEvidence, files
  <2>2. ASSUME NEW p \in Package, ApplyControl(p) \/ ApplyItem(p) \/ ItemFails(p)
        PROVE  rows' = rows
    BY <2>2 DEF ApplyControl, ApplyItem, ItemFails
  <2>3. CASE MarkEvidence
    BY <2>3 DEF MarkEvidence, MarkUploaded
  <2>4. QED
    BY <1>4, <2>1, <2>2, <2>3 DEF RuleLoopStep
<1>5. CASE RoundFails \/ RuntimeGone \/ RuntimeBack \/ Crash
  BY <1>5 DEF RoundFails, RuntimeGone, RuntimeBack, Crash, files
<1>6. ASSUME NEW p \in Package, Release(p) \/ Revoke(p) \/ Expire(p) PROVE rows' = rows
  BY <1>6 DEF Release, Revoke, Expire, files
<1>7. QED
  BY <1>1, <1>2, <1>3, <1>4, <1>5, <1>6 DEF Next

\* reserve_execution: the row of the execution is there, the row that made room for
\* it was uploaded or the table held nothing that was, and a table that is not
\* full loses nothing.
LEMMA ReserveRows ==
  ASSUME Table, NEW k \in Key, k \notin Recorded, Reserve(k)
  PROVE  /\ Table' /\ k \in Recorded' /\ Recorded' \subseteq Recorded \cup {k}
         /\ Len(rows) < MaxRows => Recorded \subseteq Recorded'
         /\ \A q \in Recorded : q \notin Recorded' =>
              /\ Len(rows) = MaxRows
              /\ q \in Keys("uploaded") \/ Keys("uploaded") = {}
<1> DEFINE row == [key |-> k, upload |-> "held"]
           rs  == Append(rows, row)
           n   == Len(rows)
<1>1. rows \in Seq(Row) /\ row \in Row /\ n \in Nat /\ n <= MaxRows /\ MaxRows \in Nat
      /\ DOMAIN rows = 1..n
  BY LenProperties, RulesAssumption DEF Table, RulesAssumption, Row, Upload
<1>2. row.key = k /\ row.upload = "held"
  OBVIOUS
<1> HIDE DEF row
<1>3. /\ rs \in Seq(Row) /\ rs # <<>> /\ Len(rs) = n + 1
      /\ \A i \in 1..n : rs[i] = rows[i]
      /\ rs[n + 1] = row
  BY <1>1, AppendProperties
<1>4. DOMAIN rs = 1..(n + 1)
  BY <1>3, LenProperties
<1>5. rows' = Prune(rs)
  BY DEF Reserve, row
<1> HIDE DEF rs, n
<1>6. KeysOf(rs) = Recorded \cup {k}
  <2>1. 1..(n + 1) = (1..n) \cup {n + 1}
    BY <1>1
  <2>2. \A i \in 1..n : rs[i].key = rows[i].key
    BY <1>3
  <2>3. rs[n + 1].key = k
    BY <1>2, <1>3
  <2>4. QED
    BY <1>1, <1>4, <2>1, <2>2, <2>3 DEF KeysOf, Recorded
<1>7. OneRowEach(rs)
  <2> SUFFICES ASSUME NEW a \in 1..(n + 1), NEW b \in 1..(n + 1), rs[a].key = rs[b].key
               PROVE  a = b
    BY <1>4 DEF OneRowEach
  <2>1. CASE a \in 1..n /\ b \in 1..n
    BY <1>1, <1>3, <2>1 DEF Table, OneRowEach
  <2>2. CASE a = n + 1 /\ b = n + 1
    BY <2>2
  <2>3. CASE a = n + 1 /\ b \in 1..n
    <3>1. rows[b].key = k
      BY <1>2, <1>3, <2>3
    <3>2. QED
      BY <1>1, <2>3, <3>1 DEF Recorded
  <2>4. CASE a \in 1..n /\ b = n + 1
    <3>1. rows[a].key = k
      BY <1>2, <1>3, <2>4
    <3>2. QED
      BY <1>1, <2>4, <3>1 DEF Recorded
  <2>5. QED
    BY <1>1, <2>1, <2>2, <2>3, <2>4
<1>8. Len(rs) <= MaxRows + 1 /\ rs[Len(rs)].upload = "held" /\ rs[Len(rs)].key = k
  <2>1. Len(rs) <= MaxRows + 1
    <3> DEFINE m == Len(rs)
    <3>1. m = n + 1
      BY <1>3
    <3> HIDE DEF m
    <3>2. m <= MaxRows + 1
      BY <1>1, <3>1
    <3>3. QED
      BY <3>2 DEF m
  <2>2. QED
    BY <1>2, <1>3, <2>1
<1>9. /\ rows' \in Seq(Row) /\ Len(rows') <= MaxRows /\ OneRowEach(rows')
      /\ k \in KeysOf(rows')
      /\ KeysOf(rows') \subseteq KeysOf(rs)
      /\ Len(rs) <= MaxRows => rows' = rs
      /\ \A i \in 1..(n + 1) :
           rs[i].key \notin KeysOf(rows') =>
             \/ rs[i].upload = "uploaded"
             \/ \A h \in 1..(n + 1) : rs[h].upload # "uploaded"
  BY <1>3, <1>5, <1>7, <1>8, PrunedRows
<1>10. KeysOf(rows') = Recorded'
  BY DEF KeysOf, Recorded
<1>11. n < MaxRows => Recorded \subseteq Recorded'
  <2>1. n < MaxRows => n + 1 <= MaxRows
    BY <1>1
  <2>2. n < MaxRows => rows' = rs
    BY <1>3, <1>9, <2>1
  <2>3. QED
    BY <1>6, <1>10, <2>2
<1>12. ASSUME NEW q \in Recorded, q \notin Recorded'
       PROVE  n = MaxRows /\ (q \in Keys("uploaded") \/ Keys("uploaded") = {})
  <2>1. n = MaxRows
    BY <1>1, <1>11, <1>12
  <2>2. PICK i \in 1..n : rows[i].key = q
    BY <1>1, <1>12 DEF Recorded
  <2>3. i \in 1..(n + 1) /\ rs[i] = rows[i]
    BY <1>1, <1>3
  <2>4. \/ rows[i].upload = "uploaded"
        \/ \A h \in 1..(n + 1) : rs[h].upload # "uploaded"
    BY <1>9, <1>10, <1>12, <2>2, <2>3
  <2>5. CASE rows[i].upload = "uploaded"
    BY <1>1, <2>1, <2>2, <2>5 DEF Keys
  <2>6. CASE \A h \in 1..(n + 1) : rs[h].upload # "uploaded"
    <3>1. \A h \in 1..n : h \in 1..(n + 1)
      BY <1>1
    <3>2. \A h \in 1..n : rows[h].upload # "uploaded"
      BY <1>3, <2>6, <3>1
    <3>3. QED
      BY <1>1, <2>1, <3>2 DEF Keys
  <2>7. QED
    BY <2>4, <2>5, <2>6
<1>13. Table'
  BY <1>9 DEF Table
<1>14. QED
  BY <1>6, <1>9, <1>10, <1>11, <1>12, <1>13 DEF n

\* finalize_execution and mark_evidence_uploaded keep every row.
LEMMA MarkKeepsRows ==
  ASSUME Table, NEW keys, NEW upload \in Upload, rows' = Marked(rows, keys, upload)
  PROVE  Table' /\ Recorded' = Recorded
<1> DEFINE n == Len(rows)
<1>1. rows \in Seq(Row) /\ n \in Nat /\ n <= MaxRows /\ DOMAIN rows = 1..n
  BY LenProperties DEF Table
<1>2. /\ rows' \in Seq(Row) /\ Len(rows') = n
      /\ \A i \in 1..n : rows'[i].key = rows[i].key
  BY <1>1, MarkedRows
<1>3. DOMAIN rows' = 1..n
  BY <1>2, LenProperties
<1> HIDE DEF n
<1>4. Recorded' = Recorded
  BY <1>1, <1>2, <1>3 DEF Recorded
<1>5. OneRowEach(rows)'
  BY <1>1, <1>2, <1>3 DEF Table, OneRowEach
<1>6. Len(rows') <= MaxRows
  BY <1>1, <1>2
<1>7. QED
  BY <1>2, <1>4, <1>5, <1>6 DEF Table

-----------------------------------------------------------------------------
(* The inductive invariant.                                                *)

InProgress == sub.at \in {"dispatch", "finalize"}

\* Executions are reserved and dispatched by the subscription loop alone, and the
\* one in progress is the one that was reserved.
LEMMA ExecutionSteps ==
  ASSUME Typed, [Next]_vars
  PROVE  /\ \/ \E p \in Package : ReserveExecution(p)
            \/ DispatchActions
            \/ calls' = calls /\ (InProgress' => InProgress /\ sub'.key = sub.key)
         /\ \/ DispatchActions
            \/ sub'.at = "dispatch" => sub.at = "dispatch" \/ \E p \in Package : ReserveExecution(p)
<1> USE DEF InProgress
<1>a. NoSub.at = "idle"
  BY DEF NoSub
<1>1. CASE UNCHANGED vars
  BY <1>1 DEF vars
<1>2. ASSUME NEW e \in Event, TakeEvent(e)
      PROVE  calls' = calls /\ ~InProgress'
  <2>1. sub'.at \in {"taken", "idle"}
    BY <1>2, <1>a DEF TakeEvent, NoSub
  <2>2. QED
    BY <1>2, <2>1 DEF TakeEvent
<1>3. CASE SubscriptionStep
  <2>1. CASE ReadDocuments
    <3>1. sub'.at \in {"rules", "idle"}
      BY <2>1, <1>a DEF ReadDocuments, LeaveEvent, Typed, SubState
    <3>2. QED
      BY <2>1, <3>1 DEF ReadDocuments
  <2>2. ASSUME NEW p \in Package, RuleUnverified(p) \/ RuleSkipped(p)
        PROVE  calls' = calls /\ ~InProgress'
    <3>1. sub'.at \in {"rules", "idle"}
      BY <2>2, <1>a DEF RuleUnverified, RuleSkipped, LeaveEvent, Typed, SubState
    <3>2. QED
      BY <2>2, <3>1 DEF RuleUnverified, RuleSkipped
  <2>3. CASE EventDone
    <3>1. sub'.at = "idle"
      BY <2>3, <1>a DEF EventDone, LeaveEvent
    <3>2. QED
      BY <2>3, <3>1 DEF EventDone
  <2>4. CASE FinalizeExecution
    <3>1. sub'.at \in {"rules", "idle"}
      BY <2>4, <1>a DEF FinalizeExecution, LeaveEvent, Typed, SubState
    <3>2. QED
      BY <2>4, <3>1 DEF FinalizeExecution
  <2>5. QED
    BY <1>3, <2>1, <2>2, <2>3, <2>4 DEF SubscriptionStep
<1>4. ASSUME RuleLoopStep \/ RoundFails \/ RuntimeGone \/ RuntimeBack
      PROVE  calls' = calls /\ sub' = sub
  <2>1. CASE ClaimPackages \/ AcknowledgeItem \/ ReadEvidence \/ UploadEvidence \/ MarkEvidence
    BY <2>1 DEF ClaimPackages, AcknowledgeItem, ReadEvidence, UploadEvidence, MarkEvidence
  <2>2. ASSUME NEW p \in Package, ApplyControl(p) \/ ApplyItem(p) \/ ItemFails(p)
        PROVE  calls' = calls /\ sub' = sub
    BY <2>2 DEF ApplyControl, ApplyItem, ItemFails
  <2>3. CASE RoundFails \/ RuntimeGone \/ RuntimeBack
    BY <2>3 DEF RoundFails, RuntimeGone, RuntimeBack
  <2>4. QED
    BY <1>4, <2>1, <2>2, <2>3 DEF RuleLoopStep
<1>5. CASE Crash
  <2>1. sub'.at = "idle"
    BY <1>5, <1>a DEF Crash
  <2>2. QED
    BY <1>5, <2>1 DEF Crash
<1>6. ASSUME NEW p \in Package, Release(p) \/ Revoke(p) \/ Expire(p)
      PROVE  calls' = calls /\ sub' = sub
  BY <1>6 DEF Release, Revoke, Expire
<1>7. QED
  BY <1>1, <1>2, <1>3, <1>4, <1>5, <1>6 DEF Next

\* An insert adds the key that was not there, and no step but an insert changes
\* which executions are recorded.
LEMMA RecordSteps ==
  ASSUME IInv, [Next]_vars
  PROVE  /\ Table'
         /\ \/ Recorded' = Recorded
            \/ \E p \in Package :
                 /\ ReserveExecution(p) /\ <<p, sub.event>> \in Key
                 /\ <<p, sub.event>> \notin Recorded /\ Reserve(<<p, sub.event>>)
<1>1. Table /\ Typed
  BY DEF IInv
<1>2. CASE rows' = rows
  BY <1>1, <1>2 DEF Table, OneRowEach, Recorded
<1>3. ASSUME NEW keys, rows' = Marked(rows, keys, "pending")
      PROVE  Table' /\ Recorded' = Recorded
  BY <1>1, <1>3, MarkKeepsRows DEF Upload
<1>4. ASSUME NEW keys, rows' = Marked(rows, keys, "uploaded")
      PROVE  Table' /\ Recorded' = Recorded
  BY <1>1, <1>4, MarkKeepsRows DEF Upload
<1>5. ASSUME NEW p \in Package, ReserveExecution(p)
      PROVE  /\ Table'
             /\ <<p, sub.event>> \in Key
             /\ <<p, sub.event>> \notin Recorded /\ Reserve(<<p, sub.event>>)
  <2> DEFINE k == <<p, sub.event>>
  <2>1. sub.at = "rules" /\ k \notin Recorded /\ Reserve(k)
    BY <1>5 DEF ReserveExecution
  <2>2. sub.event \in Event
    BY <1>1, <2>1 DEF Typed
  <2>3. k \in Key
    BY <2>2 DEF Key
  <2>4. Table'
    BY <1>1, <2>1, <2>3, ReserveRows
  <2>5. QED
    BY <2>1, <2>3, <2>4
<1>6. QED
  BY <1>2, <1>3, <1>4, <1>5, TableSteps

\* finalize_execution finds the reservation: what is in progress was inserted, and
\* nothing is inserted while it is.
LEMMA ReservationStep ==
  ASSUME IInv, [Next]_vars
  PROVE  ReservationKept'
<1>1. Table /\ Typed /\ (InProgress => sub.key \in Recorded)
  BY DEF IInv, ReservationKept, InProgress
<1>2. SUFFICES ASSUME InProgress' PROVE sub'.key \in Recorded'
  BY DEF ReservationKept, InProgress
<1>3. ASSUME NEW p \in Package, ReserveExecution(p)
      PROVE  sub'.key \in Recorded'
  <2> DEFINE k == <<p, sub.event>>
  <2>1. sub.at = "rules" /\ k \notin Recorded /\ Reserve(k)
    BY <1>3 DEF ReserveExecution
  <2>2. k \in Key
    BY <1>1, <2>1 DEF Typed, Key
  <2>3. k \in Recorded'
    BY <1>1, <2>1, <2>2, ReserveRows
  <2>4. sub'.key = k
    BY <1>1, <1>3 DEF ReserveExecution, Typed, SubState
  <2>5. QED
    BY <2>3, <2>4
<1>4. ASSUME ~ \E p \in Package : ReserveExecution(p)
      PROVE  sub'.key \in Recorded'
  <2>1. Recorded' = Recorded
    BY <1>4, RecordSteps
  <2>2. InProgress /\ sub'.key = sub.key
    <3>1. CASE DispatchActions
      BY <1>1, <3>1 DEF DispatchActions, InProgress, Typed, SubState
    <3>2. CASE ~DispatchActions
      BY <1>1, <1>2, <1>4, <3>2, ExecutionSteps
    <3>3. QED
      BY <3>1, <3>2
  <2>3. QED
    BY <1>1, <2>1, <2>2
<1>5. QED
  BY <1>3, <1>4

\* Before the first step nothing is recorded, dispatched or under way.
LEMMA RulesInit ==
  ASSUME Init
  PROVE  IInv
<1>1. Table
  <2>1. rows = <<>>
    BY DEF Init
  <2>2. rows \in Seq(Row) /\ Len(rows) = 0 /\ DOMAIN rows = {}
    BY <2>1, EmptySeq
  <2>3. MaxRows \in Nat \ {0}
    BY RulesAssumption DEF RulesAssumption
  <2>4. 0 <= MaxRows
    BY <2>3
  <2>5. QED
    BY <2>2, <2>4 DEF Table, OneRowEach
<1>2. sub.at = "idle" /\ sub \in SubState
  BY DEF Init, NoSub, SubState
<1>3. loop \in LoopState
  BY DEF Init, NoLoop, LoopState
<1>4. active \subseteq Package /\ catalog \in CatalogState /\ calls \in [Key -> Nat]
  BY DEF Init, CatalogState
<1>5. QED
  BY <1>1, <1>2, <1>3, <1>4 DEF IInv, Typed, ReservationKept

\* What is read and uploaded is evidence of executions.
LEMMA EvidenceIsOfExecutions ==
  ASSUME Table
  PROVE  PendingEvidence \subseteq Key
<1>1. \A i \in DOMAIN rows : rows[i].key \in Key
  <2>1. DOMAIN rows = 1..Len(rows)
    BY LenProperties DEF Table
  <2>2. \A i \in DOMAIN rows : rows[i] \in Row
    BY <2>1, ElementOfSeq DEF Table
  <2>3. QED
    BY <2>2 DEF Row
<1>2. QED
  BY <1>1 DEF PendingEvidence

\* Every step keeps the types of the loops, of the packages and of IoT Core.
LEMMA TypedStep ==
  ASSUME IInv, [Next]_vars
  PROVE  Typed'
<1> USE DEF IInv
<1>a. /\ active \subseteq Package /\ sub \in SubState /\ loop \in LoopState
      /\ catalog \in CatalogState /\ calls \in [Key -> Nat]
      /\ sub.at # "idle" => sub.event \in Event
  BY DEF Typed
<1>b. NoSub \in SubState /\ NoSub.at = "idle"
  BY DEF NoSub, SubState
<1>c. NoLoop \in LoopState
  BY DEF NoLoop, LoopState
<1>1. CASE UNCHANGED vars
  BY <1>a, <1>1 DEF vars, files, core, Typed
<1>2. ASSUME NEW e \in Event, TakeEvent(e)
      PROVE  Typed'
  <2>1. CASE sub' = [NoSub EXCEPT !.at = "taken", !.event = e]
    <3>1. sub' \in SubState /\ sub'.event = e
      BY <2>1 DEF NoSub, SubState
    <3>2. QED
      BY <1>a, <1>2, <3>1 DEF TakeEvent, files, core, Typed
  <2>2. CASE sub' = NoSub
    BY <1>a, <1>b, <1>2, <2>2 DEF TakeEvent, files, core, Typed
  <2>3. QED
    BY <1>2, <2>1, <2>2 DEF TakeEvent
<1>3. CASE SubscriptionStep
  <2>1. CASE ReadDocuments
    <3>1. CASE runtime /\ active' = active \ expired
               /\ sub' = [sub EXCEPT !.at = "rules", !.left = active']
      <4>1. active' \subseteq Package
        BY <1>a, <3>1
      <4>2. sub' \in SubState /\ sub'.event = sub.event
        BY <1>a, <3>1, <4>1 DEF SubState
      <4>3. sub'.event \in Event
        BY <1>a, <2>1, <4>2 DEF ReadDocuments
      <4>4. QED
        BY <1>a, <2>1, <4>1, <4>2, <4>3 DEF ReadDocuments, core, Typed
    <3>2. CASE sub' = NoSub /\ active' = active
      BY <1>a, <1>b, <2>1, <3>2 DEF ReadDocuments, core, Typed
    <3>3. QED
      BY <2>1, <3>1, <3>2 DEF ReadDocuments, LeaveEvent
  <2>2. ASSUME NEW p \in Package, RuleUnverified(p)
        PROVE  Typed'
    BY <1>a, <1>b, <2>2 DEF RuleUnverified, LeaveEvent, files, core, Typed
  <2>3. ASSUME NEW p \in Package, RuleSkipped(p)
        PROVE  Typed'
    <3>1. sub' \in SubState /\ sub'.event = sub.event
      BY <1>a, <2>3 DEF RuleSkipped, SubState
    <3>2. sub'.event \in Event
      BY <1>a, <2>3, <3>1 DEF RuleSkipped
    <3>3. QED
      BY <1>a, <2>3, <3>1, <3>2 DEF RuleSkipped, files, core, Typed
  <2>4. ASSUME NEW p \in Package, ReserveExecution(p)
        PROVE  Typed'
    <3> DEFINE k    == <<p, sub.event>>
               then == IF Outcome[k] = "hit" THEN "dispatch" ELSE "finalize"
    <3>1. sub.event \in Event /\ k \in Key
      BY <1>a, <2>4 DEF ReserveExecution, Key
    <3>2. sub' = [sub EXCEPT !.at = then, !.left = @ \ {p}, !.key = k]
      BY <2>4 DEF ReserveExecution
    <3>3. then \in {"dispatch", "finalize"}
      OBVIOUS
    <3> HIDE DEF then, k
    <3>4. sub' \in SubState /\ sub'.event = sub.event
      BY <1>a, <3>1, <3>2, <3>3 DEF SubState
    <3>5. QED
      BY <1>a, <2>4, <3>1, <3>4 DEF ReserveExecution, core, Typed
  <2>5. CASE DispatchActions
    <3>1. sub' \in SubState /\ sub'.event = sub.event
      BY <1>a, <2>5 DEF DispatchActions, SubState
    <3>2. sub'.event \in Event
      BY <1>a, <2>5, <3>1 DEF DispatchActions
    <3>3. calls' \in [Key -> Nat]
      <4> DEFINE key == sub.key
      <4>1. calls' = [calls EXCEPT ![key] = @ + 1]
        BY <2>5 DEF DispatchActions
      <4> HIDE DEF key
      <4>2. DOMAIN calls' = Key
        BY <1>a, <4>1
      <4>3. \A k \in Key : calls'[k] \in {calls[k], calls[k] + 1} /\ calls[k] \in Nat
        BY <1>a, <4>1
      <4>4. calls' = [k \in Key |-> calls'[k]]
        BY <4>1, <4>2
      <4>5. \A k \in Key : calls'[k] \in Nat
        BY <4>3
      <4>6. QED
        BY <4>4, <4>5
    <3>4. QED
      BY <1>a, <2>5, <3>1, <3>2, <3>3 DEF DispatchActions, files, core, Typed
  <2>6. CASE FinalizeExecution
    <3>1. CASE sub' = [sub EXCEPT !.at = "rules"]
      <4>1. sub' \in SubState /\ sub'.event = sub.event
        BY <1>a, <3>1 DEF SubState
      <4>2. sub'.event \in Event
        BY <1>a, <2>6, <4>1 DEF FinalizeExecution
      <4>3. QED
        BY <1>a, <2>6, <4>1, <4>2 DEF FinalizeExecution, core, Typed
    <3>2. CASE sub' = NoSub
      BY <1>a, <1>b, <2>6, <3>2 DEF FinalizeExecution, core, Typed
    <3>3. QED
      BY <2>6, <3>1, <3>2 DEF FinalizeExecution, LeaveEvent
  <2>7. CASE EventDone
    BY <1>a, <1>b, <2>7 DEF EventDone, LeaveEvent, files, core, Typed
  <2>8. QED
    BY <1>3, <2>1, <2>2, <2>3, <2>4, <2>5, <2>6, <2>7 DEF SubscriptionStep
<1>4. CASE RuleLoopStep
  <2>1. CASE ClaimPackages
    <3>1. loop' \in LoopState
      BY <1>a, <1>c, <2>1 DEF ClaimPackages, LoopState, CatalogState
    <3>2. QED
      BY <1>a, <2>1, <3>1 DEF ClaimPackages, files, core, Typed
  <2>2. ASSUME NEW p \in Package, ApplyControl(p)
        PROVE  Typed'
    <3>1. loop' \in LoopState
      BY <1>a, <2>2 DEF ApplyControl, LoopState
    <3>2. active' \subseteq Package
      BY <1>a, <2>2 DEF ApplyControl
    <3>3. QED
      BY <1>a, <2>2, <3>1, <3>2 DEF ApplyControl, core, Typed
  <2>3. ASSUME NEW p \in Package, ApplyItem(p) \/ ItemFails(p)
        PROVE  Typed'
    <3>1. \/ loop' = [loop EXCEPT !.at = "acknowledge", !.sent = {p}]
          \/ loop' = [loop EXCEPT !.at = "report", !.sent = {p}]
      BY <2>3, Zenon DEF ApplyItem, ItemFails
    <3>2. loop' \in LoopState
      <4>1. CASE loop' = [loop EXCEPT !.at = "acknowledge", !.sent = {p}]
        BY <1>a, <4>1 DEF LoopState
      <4>2. CASE loop' = [loop EXCEPT !.at = "report", !.sent = {p}]
        BY <1>a, <4>2 DEF LoopState
      <4>3. QED
        BY <3>1, <4>1, <4>2
    <3>3. active' \subseteq Package
      <4>1. ApplyPackage(p) \/ active' = active
        BY <2>3 DEF ApplyItem, ItemFails
      <4>2. QED
        BY <1>a, <4>1 DEF ApplyPackage
    <3>4. UNCHANGED <<sub, core, calls>>
      BY <2>3 DEF ApplyItem, ItemFails
    <3>5. QED
      BY <1>a, <3>2, <3>3, <3>4 DEF core, Typed
  <2>4. CASE AcknowledgeItem
    <3>1. loop' \in LoopState
      <4>1. CASE loop' = NoLoop
        BY <1>c, <4>1
      <4>2. CASE loop' = [loop EXCEPT !.at = "controls", !.items = @ \ loop.sent,
                                      !.sent = {}]
        <5>1. loop.items \ loop.sent \in SUBSET Package
          BY <1>a DEF LoopState
        <5>2. QED
          BY <1>a, <4>2, <5>1 DEF LoopState
      <4>3. QED
        BY <2>4, <4>1, <4>2 DEF AcknowledgeItem, EndRound
    <3>2. catalog' \in CatalogState
      <4> DEFINE told   == loop.sent \cap catalog.released
                 failed == IF loop.at = "report" THEN catalog.failed \cup told
                                                 ELSE catalog.failed
      <4>1. catalog' = [catalog EXCEPT !.answered = @ \cup told, !.failed = failed]
        BY <2>4 DEF AcknowledgeItem
      <4>2. told \in SUBSET Package /\ failed \in SUBSET Package
        BY <1>a DEF CatalogState
      <4> HIDE DEF told, failed
      <4>3. QED
        BY <1>a, <4>1, <4>2 DEF CatalogState
    <3>3. QED
      BY <1>a, <2>4, <3>1, <3>2 DEF AcknowledgeItem, files, Typed
  <2>5. CASE ReadEvidence
    <3>1. PendingEvidence \subseteq Key
      BY EvidenceIsOfExecutions
    <3>2. loop' \in LoopState
      <4>1. CASE loop' = NoLoop
        BY <1>c, <4>1
      <4>2. CASE loop' = [NoLoop EXCEPT !.at = "upload", !.sent = PendingEvidence]
        <5> HIDE DEF NoLoop, PendingEvidence
        <5>1. QED
          BY <1>c, <3>1, <4>2 DEF LoopState
      <4>3. QED
        BY <2>5, <4>1, <4>2 DEF ReadEvidence
    <3>3. QED
      BY <1>a, <2>5, <3>2 DEF ReadEvidence, files, core, Typed
  <2>6. CASE UploadEvidence
    <3>1. loop' \in LoopState
      BY <1>a, <1>c, <2>6 DEF UploadEvidence, EndRound, LoopState
    <3>2. QED
      BY <1>a, <2>6, <3>1 DEF UploadEvidence, files, Typed
  <2>7. CASE MarkEvidence
    BY <1>a, <1>c, <2>7 DEF MarkEvidence, EndRound, core, Typed
  <2>8. QED
    BY <1>4, <2>1, <2>2, <2>3, <2>4, <2>5, <2>6, <2>7 DEF RuleLoopStep
<1>5. CASE RoundFails
  BY <1>a, <1>c, <1>5 DEF RoundFails, EndRound, files, core, Typed
<1>6. CASE RuntimeGone \/ RuntimeBack
  BY <1>a, <1>6 DEF RuntimeGone, RuntimeBack, files, core, Typed
<1>7. CASE Crash
  <2>1. /\ sub' = NoSub /\ loop' = NoLoop /\ runtime' = TRUE
        /\ UNCHANGED <<files, core, expired, calls>>
    BY <1>7 DEF Crash
  <2>2. sub' \in SubState /\ loop' \in LoopState
    BY <1>b, <1>c, <2>1
  <2>3. active' = active /\ catalog' = catalog /\ calls' = calls
    BY <2>1 DEF files, core
  <2>4. sub'.at = "idle"
    BY <2>1 DEF NoSub
  <2> HIDE DEF NoSub, NoLoop
  <2>5. QED
    BY <1>a, <2>2, <2>3, <2>4 DEF Typed
<1>8. ASSUME NEW p \in Package, Release(p) \/ Revoke(p) \/ Expire(p)
      PROVE  Typed'
  <2>1. catalog' \in CatalogState
    <3>1. CASE Release(p)
      <4> DEFINE superseded == {q \in catalog.released : RuleOf[q] = RuleOf[p]}
      <4>1. catalog' = [catalog EXCEPT !.released = (@ \ superseded) \cup {p},
                                       !.superseded = @ \cup superseded,
                                       !.answered = @ \ superseded,
                                       !.failed = @ \ superseded]
        BY <3>1 DEF Release
      <4>2. superseded \subseteq Package
        BY <1>a DEF CatalogState
      <4> HIDE DEF superseded
      <4>3. QED
        BY <1>a, <4>1, <4>2 DEF CatalogState
    <3>2. CASE Withdraw(p)
      <4>1. catalog' = [catalog EXCEPT !.released = @ \ {p}, !.superseded = @ \ {p},
                                       !.answered = @ \ {p}, !.failed = @ \ {p},
                                       !.withdrawn = @ \cup {p}]
        BY <3>2 DEF Withdraw
      <4>2. QED
        BY <1>a, <4>1 DEF CatalogState
    <3>3. QED
      BY <1>8, <3>1, <3>2 DEF Revoke, Expire
  <2>2. QED
    BY <1>a, <1>8, <2>1 DEF Release, Revoke, Expire, files, Typed
<1>9. QED
  BY <1>1, <1>2, <1>3, <1>4, <1>5, <1>6, <1>7, <1>8 DEF Next

\* The invariant is inductive.
LEMMA RulesStep ==
  ASSUME IInv, [Next]_vars
  PROVE  IInv'
BY RecordSteps, TypedStep, ReservationStep DEF IInv

-----------------------------------------------------------------------------
(* Theorems.                                                               *)

\* The table keeps its primary key and every loop its place, in every interleaving
\* of the loops with session recovery, the Core and crashes (TypeOK).
THEOREM RulesTyped == Spec => []TypeOK
<1>1. IInv => TypeOK
  <2> SUFFICES ASSUME IInv PROVE TypeOK
    OBVIOUS
  <2>1. DOMAIN rows = 1..Len(rows)
    BY LenProperties DEF IInv, Table
  <2>2. \A i \in DOMAIN rows : rows[i] \in Row
    BY <2>1, ElementOfSeq DEF IInv, Table
  <2>3. \A i \in DOMAIN rows :
          rows[i].key \in Key /\ rows[i].upload \in {"held", "pending", "uploaded"}
    BY <2>2 DEF Row, Upload
  <2>4. sub.at \in {"idle", "taken", "rules", "dispatch", "finalize"}
    BY DEF IInv, Typed, SubState
  <2>5. loop.at \in {"claim", "controls", "acknowledge", "report", "upload", "mark"}
    BY DEF IInv, Typed, LoopState
  <2>6. QED
    BY <2>3, <2>4, <2>5 DEF IInv, Table, OneRowEach, Typed, TypeOK
<1>2. QED
  BY <1>1, RulesInit, RulesStep, PTL DEF Spec

\* finalize_execution never finds the reservation gone (ReservationKept), whatever
\* the size of the table: _prune may drop any row but that of the execution in
\* progress, because the insert is the last one before it is finalized.
THEOREM ReservationOutlivesPruning == Spec => []ReservationKept
<1>1. IInv => ReservationKept
  BY DEF IInv
<1>2. QED
  BY <1>1, RulesInit, RulesStep, PTL DEF Spec

\* _prune and the two UPDATEs: evidence the Core does not have leaves the table only
\* when the table is full and holds nothing the Core has (PruneSparesEvidence).
THEOREM EvidenceOutlivesPruning == Spec => PruneSparesEvidence
<1> DEFINE Left(k) == k \in Recorded /\ k \notin Recorded'
           Spared  == (\E k \in Key : Left(k) /\ k \notin Keys("uploaded")) =>
                        Keys("uploaded") = {} /\ Len(rows) = MaxRows
<1>1. ASSUME IInv, [Next]_vars
      PROVE  Spared
  <2>1. SUFFICES ASSUME NEW k \in Key, Left(k), k \notin Keys("uploaded")
                 PROVE  Keys("uploaded") = {} /\ Len(rows) = MaxRows
    OBVIOUS
  <2>2. PICK p \in Package :
          /\ <<p, sub.event>> \in Key /\ <<p, sub.event>> \notin Recorded
          /\ Reserve(<<p, sub.event>>)
    BY <1>1, <2>1, RecordSteps
  <2>3. QED
    BY <1>1, <2>1, <2>2, ReserveRows DEF IInv
<1>2. IInv /\ [Next]_vars => [Spared]_vars
  BY <1>1
<1>3. QED
  BY <1>2, RulesInit, RulesStep, PTL DEF Spec, PruneSparesEvidence

\* What makes an execution happen once: it is recorded before it is dispatched, and
\* it was not dispatched before it was recorded.
Acted ==
  /\ ActedOnRecord /\ ActedOnce
  /\ sub.at = "dispatch" => calls[sub.key] = 0

\* Dispatching what is reserved for the first time keeps executions at one each, as
\* long as no record is dropped.
LEMMA ActedStep ==
  ASSUME IInv, Acted, [Next]_vars, Recorded \subseteq Recorded'
  PROVE  Acted'
<1>1. Table /\ Typed /\ (InProgress => sub.key \in Recorded)
  BY DEF IInv, ReservationKept, InProgress
<1>2. /\ calls \in [Key -> Nat]
      /\ \A k \in Key : calls[k] <= 1 /\ (calls[k] > 0 => k \in Recorded)
      /\ sub.at = "dispatch" => calls[sub.key] = 0
  BY <1>1 DEF Acted, ActedOnRecord, ActedOnce, Typed
<1>3. CASE DispatchActions
  <2> DEFINE key == sub.key
  <2>1. sub.at = "dispatch" /\ calls' = [calls EXCEPT ![key] = @ + 1]
        /\ sub'.at = "finalize"
    BY <1>1, <1>3 DEF DispatchActions, Typed, SubState
  <2>2. key \in Recorded /\ calls[key] = 0
    BY <1>1, <1>2, <2>1 DEF InProgress
  <2> HIDE DEF key
  <2>3. \A k \in Key : calls'[k] <= 1 /\ (calls'[k] > 0 => k \in Recorded)
    BY <1>2, <2>1, <2>2
  <2>4. QED
    BY <2>1, <2>3 DEF Acted, ActedOnRecord, ActedOnce
<1>4. ASSUME NEW p \in Package, ReserveExecution(p)
      PROVE  Acted'
  <2> DEFINE k == <<p, sub.event>>
  <2>1. sub.at = "rules" /\ k \notin Recorded /\ calls' = calls
    BY <1>4 DEF ReserveExecution
  <2>2. k \in Key
    BY <1>1, <2>1 DEF Typed, Key
  <2>3. sub'.key = k
    BY <1>1, <1>4 DEF ReserveExecution, Typed, SubState
  <2>4. calls[k] = 0
    BY <1>2, <2>1, <2>2
  <2>5. QED
    BY <1>2, <2>1, <2>3, <2>4 DEF Acted, ActedOnRecord, ActedOnce
<1>5. CASE calls' = calls /\ (InProgress' => InProgress /\ sub'.key = sub.key)
           /\ ~DispatchActions /\ ~ \E p \in Package : ReserveExecution(p)
  <2>1. sub'.at = "dispatch" => sub.at = "dispatch" /\ sub'.key = sub.key
    BY <1>1, <1>5, ExecutionSteps DEF InProgress
  <2>2. QED
    BY <1>2, <1>5, <2>1 DEF Acted, ActedOnRecord, ActedOnce
<1>6. QED
  BY <1>1, <1>3, <1>4, <1>5, ExecutionSteps

\* As long as _prune drops nothing, the actions of a rule are dispatched at most
\* once for an event, and never without a record that outlives a crash: any
\* number of deliveries, crashes, failed requests, releases and revocations.
THEOREM RulesActOnceWhileRecordsAreKept ==
  Spec /\ [][Recorded \subseteq Recorded']_vars => [](ActedOnce /\ ActedOnRecord)
<1>1. Init => Acted
  <2>1. Init => calls = [k \in Key |-> 0] /\ sub.at = "idle"
    BY DEF Init, NoSub
  <2>2. QED
    BY <2>1 DEF Acted, ActedOnRecord, ActedOnce
<1>2. ASSUME IInv, Acted, [Next]_vars, [Recorded \subseteq Recorded']_vars
      PROVE  Acted'
  <2>1. CASE UNCHANGED vars
    <3>1. rows' = rows /\ sub' = sub /\ calls' = calls
      BY <2>1 DEF vars, files
    <3>2. QED
      BY <1>2, <3>1 DEF Acted, ActedOnRecord, ActedOnce, Recorded
  <2>2. CASE Recorded \subseteq Recorded'
    BY <1>2, <2>2, ActedStep
  <2>3. QED
    BY <1>2, <2>1, <2>2
<1>3. Acted => ActedOnce /\ ActedOnRecord
  BY DEF Acted
<1>4. QED
  BY <1>1, <1>2, <1>3, RulesInit, RulesStep, PTL DEF Spec

\* A table with room for a record of every execution drops none.
LEMMA RoomForAll ==
  ASSUME IsFiniteSet(Key), Cardinality(Key) <= MaxRows,
         Table, NEW k \in Key, k \notin Recorded
  PROVE  Len(rows) < MaxRows
<1> DEFINE n == Len(rows)
           f == [i \in 1..n |-> rows[i].key]
<1>1. n \in Nat /\ DOMAIN rows = 1..n /\ \A i \in 1..n : rows[i] \in Row
  BY LenProperties, ElementOfSeq DEF Table
<1> HIDE DEF n
<1>2. \A i \in 1..n : f[i] \in Key \ {k}
  BY <1>1 DEF Recorded, Row
<1>3. \A i, j \in 1..n : f[i] = f[j] => i = j
  BY <1>1 DEF Table, OneRowEach
<1>4. f \in Injection(1..n, Key \ {k})
  BY <1>2, <1>3 DEF Injection, IsInjective
<1>5. IsFiniteSet(Key \ {k}) /\ Cardinality(Key \ {k}) = Cardinality(Key) - 1
  BY FS_RemoveElement
<1>6. IsFiniteSet(1..n) /\ Cardinality(1..n) = n
  BY <1>1, FS_Interval
<1> HIDE DEF f
<1>7. n <= Cardinality(Key \ {k})
  BY <1>4, <1>5, <1>6, FS_Injection
<1>8. Cardinality(Key) \in Nat /\ MaxRows \in Nat
  BY FS_CardinalityType, RulesAssumption DEF RulesAssumption
<1>9. n < MaxRows
  BY <1>1, <1>5, <1>7, <1>8
<1>10. QED
  BY <1>9 DEF n

\* evidence_max_rows with room for a record of every execution: none is dropped.
LEMMA RecordsAreKept ==
  ASSUME IsFiniteSet(Key), Cardinality(Key) <= MaxRows
  PROVE  Spec => [][Recorded \subseteq Recorded']_vars
<1>1. ASSUME IInv, [Next]_vars
      PROVE  Recorded \subseteq Recorded'
  <2>1. CASE Recorded' = Recorded
    BY <2>1
  <2>2. ASSUME NEW k \in Key, k \notin Recorded, Reserve(k)
        PROVE  Recorded \subseteq Recorded'
    BY <1>1, <2>2, ReserveRows, RoomForAll DEF IInv
  <2>3. QED
    BY <1>1, <2>1, <2>2, RecordSteps
<1>2. IInv /\ [Next]_vars => [Recorded \subseteq Recorded']_vars
  BY <1>1
<1>3. QED
  BY <1>2, RulesInit, RulesStep, PTL DEF Spec

\* test_local_rule_executes_offline_once_and_replays_evidence, with any number of
\* packages and events for which evidence_max_rows has room: the actions of a rule
\* are dispatched at most once for an event (ActedOnce).
THEOREM RulesActOnce ==
  ASSUME IsFiniteSet(Key), Cardinality(Key) <= MaxRows
  PROVE  Spec => []ActedOnce
BY RecordsAreKept, RulesActOnceWhileRecordsAreKept, PTL

\* Under the same condition process_event leaves no action without the record of it
\* that reserve_execution committed first (ActedOnRecord).
THEOREM RulesActOnRecord ==
  ASSUME IsFiniteSet(Key), Cardinality(Key) <= MaxRows
  PROVE  Spec => []ActedOnRecord
BY RecordsAreKept, RulesActOnceWhileRecordsAreKept, PTL
=============================================================================
