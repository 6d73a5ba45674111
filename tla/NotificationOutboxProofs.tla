---------------------- MODULE NotificationOutboxProofs ----------------------
(***************************************************************************)
(* The notifications implement a reliable outbox: for any number of        *)
(* workers, sources, conditions, channels and updates, every backoff and   *)
(* every number of crashes.                                                *)
(***************************************************************************)
EXTENDS NotificationOutbox, FiniteSetTheorems, TLAPS

\* What a worker has in hand: rows that were claimed and that nobody forgets;
\* what it calls sent has arrived.
InHand ==
    \A w \in Workers :
        /\ \A i \in 1..Len(batch[w]) :
              rows[batch[w][i]].attempts > 0 /\ rows[batch[w][i]].status # "none"
        /\ result[w] # "none" => batch[w] # <<>>
        /\ result[w] = "sent" => batch[w][1] \in delivered

OutboxInv == TypeOK /\ InHand

RowType == [status : RowStatuses, attempts : Nat, wait : Nat]

---------------------------------------------------------------------------
(* Operators *)

\* The order in which a claim hands out its rows.
LEMMA SetToSeqType ==
    ASSUME NEW S \in SUBSET Rows, IsFiniteSet(S)
    PROVE  /\ SetToSeq(S) \in Seq(Rows)
           /\ \A i \in 1..Len(SetToSeq(S)) : SetToSeq(S)[i] \in S
<1> DEFINE n == Cardinality(S)
<1>1. n \in Nat /\ ExistsBijection(1..n, S)
  BY FS_CardinalityType
<1>2. PICK f \in [1..n -> S] : IsInjective(f)
  BY <1>1 DEF ExistsBijection, Bijection, Injection, IsInjective
<1>3. SetToSeq(S) \in [1..n -> S]
  BY <1>2 DEF SetToSeq
<1> QED
  BY <1>1, <1>3

\* New rows are pending, every other row is as it was.
LEMMA Enqueued ==
    ASSUME rows \in [Rows -> RowType], NEW S, Enqueue(S)
    PROVE  /\ rows' \in [Rows -> RowType]
           /\ \A r \in Rows : rows[r].status # "none" => rows'[r] = rows[r]
           /\ \A r \in Rows : rows'[r] # rows[r] =>
                 r \in S /\ rows[r].status = "none" /\ rows'[r] = Pending
BY DEF Enqueue, RowType, Pending, RowStatuses

LEMMA RowUpdated ==
    ASSUME NEW row \in RowType, NEW status \in RowStatuses, NEW wait \in Nat
    PROVE  /\ [row EXCEPT !.status = status, !.wait = wait] \in RowType
           /\ [row EXCEPT !.status = status, !.wait = wait].status = status
           /\ [row EXCEPT !.status = status, !.wait = wait].attempts = row.attempts
BY DEF RowType

LEMMA MarkType ==
    ASSUME TypeOK, NEW r \in Rows, NEW kind \in {"sent", "failed"},
           rows[r].attempts > 0
    PROVE  /\ Marked(r, kind) \in RowType
           /\ Marked(r, kind).attempts = rows[r].attempts
           /\ Marked(r, kind).status \in {"sent", "dead", "retry"}
           /\ kind = "sent" => Marked(r, kind).status = "sent"
           /\ kind = "failed" => Marked(r, kind).status # "sent"
           /\ Marked(r, kind).status = "dead" => rows[r].attempts >= MaxAttempts
<1>1. rows[r] \in RowType
  BY DEF TypeOK, RowType
<1> PICK zero \in Nat : zero = 0
  OBVIOUS
<1>2. CASE kind = "sent"
  <2>1. Marked(r, kind) = [rows[r] EXCEPT !.status = "sent", !.wait = zero]
    BY <1>2 DEF Marked
  <2>3. /\ Marked(r, kind) \in RowType /\ Marked(r, kind).status = "sent"
        /\ Marked(r, kind).attempts = rows[r].attempts
    BY <1>1, <2>1 DEF RowType, RowStatuses
  <2> QED
    BY <1>2, <2>3
<1>3. CASE kind = "failed" /\ rows[r].attempts >= MaxAttempts
  <2>1. Marked(r, kind) = [rows[r] EXCEPT !.status = "dead", !.wait = zero]
    BY <1>3 DEF Marked, AfterFailure
  <2>3. /\ Marked(r, kind) \in RowType /\ Marked(r, kind).status = "dead"
        /\ Marked(r, kind).attempts = rows[r].attempts
    BY <1>1, <2>1 DEF RowType, RowStatuses
  <2> QED
    BY <1>3, <2>3
<1>4. CASE kind = "failed" /\ ~(rows[r].attempts >= MaxAttempts)
  <2>1. Marked(r, kind) = [rows[r] EXCEPT !.status = "retry", !.wait = Delay[rows[r].attempts]]
    BY <1>4 DEF Marked, AfterFailure
  <2>2. Delay[rows[r].attempts] \in Nat
    BY <1>1, <1>4, OutboxAssumption DEF RowType
  <2>3. /\ Marked(r, kind) \in RowType /\ Marked(r, kind).status = "retry"
        /\ Marked(r, kind).attempts = rows[r].attempts
    BY <1>1, <2>1, <2>2 DEF RowType, RowStatuses
  <2> QED
    BY <1>4, <2>3
<1> QED
  BY <1>2, <1>3, <1>4

---------------------------------------------------------------------------
(* The invariant *)

LEMMA HandRows ==
    ASSUME OutboxInv
    PROVE  /\ rows \in [Rows -> RowType]
           /\ \A w \in Workers : \A i \in 1..Len(batch[w]) : batch[w][i] \in Rows
           /\ \A w \in Workers : batch[w] # <<>> =>
                 /\ Len(batch[w]) \in Nat \ {0} /\ Head(batch[w]) = batch[w][1]
                 /\ batch[w][1] \in Rows
<1>1. \A w \in Workers : batch[w] \in Seq(Rows)
  BY DEF OutboxInv, TypeOK
<1>2. \A q \in Seq(Rows) : /\ \A i \in 1..Len(q) : q[i] \in Rows
                           /\ q # <<>> => Len(q) \in Nat \ {0} /\ Head(q) = q[1]
  OBVIOUS
<1> QED
  BY <1>1, <1>2 DEF OutboxInv, TypeOK, RowType

LEMMA InitInv == ASSUME Init PROVE OutboxInv
<1>1. TypeOK
  BY OutboxAssumption DEF Init, TypeOK, NoRow, NoRead, RowStatuses
<1> QED
  BY <1>1 DEF Init, OutboxInv, InHand

\* What is dropped is in nobody's hand.
LEMMA DropInv ==
    ASSUME OutboxInv, NEW w \in Workers, Drop(w), UNCHANGED <<rows, delivered>>
    PROVE  /\ batch' \in [Workers -> Seq(Rows)]
           /\ result' \in [Workers -> {"none", "sent", "failed"}]
           /\ losses' \in 0..MaxLosses
           /\ InHand'
<1>1. <<>> \in Seq(Rows) /\ Len(<<>>) = 0
  OBVIOUS
<1>2. batch' \in [Workers -> Seq(Rows)]
  BY <1>1 DEF OutboxInv, TypeOK, Drop
<1>3. result' \in [Workers -> {"none", "sent", "failed"}]
  BY DEF OutboxInv, TypeOK, Drop
<1>4. losses' \in 0..MaxLosses
  BY OutboxAssumption DEF OutboxInv, TypeOK, Drop
<1>5. \A v \in Workers \ {w} : batch'[v] = batch[v] /\ result'[v] = result[v]
  BY DEF OutboxInv, TypeOK, Drop
<1>6. batch'[w] = <<>> /\ result'[w] = "none"
  BY DEF OutboxInv, TypeOK, Drop
<1>7. InHand'
  BY <1>1, <1>5, <1>6 DEF OutboxInv, InHand
<1> QED
  BY <1>2, <1>3, <1>4, <1>7

\* Steps of the processes and of the projection.
LEMMA LifecycleInv ==
    ASSUME OutboxInv, NEW w \in Workers, Start(w) \/ Stop(w) \/ LoseBatch(w)
    PROVE  OutboxInv'
<1> USE DEF OutboxInv
<1>1. CASE Start(w)
  BY <1>1 DEF Start, TypeOK, InHand, delivery
<1>2. CASE Stop(w)
  BY <1>2, DropInv DEF Stop, TypeOK
<1>3. CASE LoseBatch(w)
  BY <1>3, DropInv DEF LoseBatch, TypeOK, projection
<1> QED
  BY <1>1, <1>2, <1>3

LEMMA TickInv == ASSUME OutboxInv, Tick PROVE OutboxInv'
<1> DEFINE ticked(row) == [row EXCEPT !.wait = IF @ > 0 THEN @ - 1 ELSE 0]
<1>1. \A row \in RowType : /\ ticked(row) \in RowType
                           /\ ticked(row).status = row.status
                           /\ ticked(row).attempts = row.attempts
  BY DEF RowType
<1>2. rows' = [r \in Rows |-> ticked(rows[r])]
  BY DEF Tick
<1> HIDE DEF ticked
<1>3. rows \in [Rows -> RowType]
  BY DEF OutboxInv, TypeOK, RowType
<1>4. rows' \in [Rows -> RowType] /\ \A r \in Rows :
         rows'[r].status = rows[r].status /\ rows'[r].attempts = rows[r].attempts
  BY <1>1, <1>2, <1>3
<1>5. TypeOK'
  BY <1>4 DEF OutboxInv, TypeOK, Tick, projection, delivery, RowType
<1>6. InHand'
  BY <1>4 DEF OutboxInv, TypeOK, InHand, Tick, delivery
<1> QED
  BY <1>5, <1>6 DEF OutboxInv

LEMMA ReadInv ==
    ASSUME OutboxInv, NEW s \in Sources,
           \/ \E c \in Conditions : ConditionChanges(s, c)
           \/ \E w \in Workers : ReadCondition(w, s)
    PROVE  OutboxInv'
<1>1. CASE \E c \in Conditions : ConditionChanges(s, c)
  BY <1>1, OutboxAssumption
     DEF OutboxInv, ConditionChanges, TypeOK, InHand, projection, delivery
<1>2. CASE \E w \in Workers : ReadCondition(w, s)
  BY <1>2 DEF OutboxInv, ReadCondition, TypeOK, InHand, delivery
<1> QED
  BY <1>1, <1>2

\* New rows are nobody's: what is in hand exists.
LEMMA EnqueueInHand ==
    ASSUME OutboxInv, NEW S, Enqueue(S), UNCHANGED <<batch, result, delivered>>
    PROVE  rows' \in [Rows -> RowType] /\ InHand'
<1>1. rows \in [Rows -> RowType]
  BY DEF OutboxInv, TypeOK, RowType
<1>2. \A r \in Rows : rows[r].status # "none" => rows'[r] = rows[r]
  BY <1>1, Enqueued
<1>3. InHand'
  BY <1>2, HandRows DEF OutboxInv, InHand
<1> QED
  BY <1>1, <1>3, Enqueued

LEMMA ProjectInv ==
    ASSUME OutboxInv, NEW w \in Workers, Project(w)
    PROVE  OutboxInv'
<1> DEFINE s == seen[w].source
           c == seen[w].condition
<1>1. s \in Sources /\ c \in Conditions
  BY DEF OutboxInv, TypeOK, Project
<1>2. CASE Known(s, c)
  BY <1>1, <1>2 DEF OutboxInv, TypeOK, InHand, Project, delivery
<1>3. CASE ~Known(s, c)
  <2>1. rows' \in [Rows -> RowType] /\ InHand'
    BY <1>3, EnqueueInHand DEF Project, delivery
  <2>2. NextGeneration(s) \in 0..MaxGeneration
    BY <1>1, <1>3, OutboxAssumption DEF Project, NextGeneration, OutboxInv, TypeOK
  <2>3. [fingerprint |-> c, generation |-> NextGeneration(s)]
            \in [fingerprint : Conditions \cup {"none"}, generation : 0..MaxGeneration]
    BY <1>1, <2>2
  <2>4. projected' \in [Sources -> [fingerprint : Conditions \cup {"none"},
                                    generation : 0..MaxGeneration]]
    BY <1>3, <2>3 DEF Project, OutboxInv, TypeOK
  <2> QED
    BY <2>1, <2>4 DEF Project, OutboxInv, TypeOK, delivery, RowType
<1> QED
  BY <1>2, <1>3

LEMMA UpdateInv ==
    ASSUME OutboxInv, NEW u \in Updates, HandleUpdate(u)
    PROVE  OutboxInv'
<1>1. rows' \in [Rows -> RowType] /\ InHand'
  BY EnqueueInHand DEF HandleUpdate, delivery
<1> QED
  BY <1>1 DEF HandleUpdate, OutboxInv, TypeOK, projection, delivery, RowType
LEMMA ClaimInv ==
    ASSUME OutboxInv, NEW w \in Workers, NEW S \in SUBSET Due, Claim(w, S)
    PROVE  OutboxInv'
<1>1. S \in SUBSET Rows /\ IsFiniteSet(S) /\ rows \in [Rows -> RowType]
  BY HandRows DEF Claim, Due, InStatus
<1>2. \A r \in Rows : /\ r \in S => rows'[r] = [status |-> "sending",
                             attempts |-> rows[r].attempts + 1, wait |-> StaleAfter]
                      /\ r \notin S => rows'[r] = rows[r]
  BY DEF Claim
<1>3. \A r \in Rows : /\ rows'[r] \in RowType
                      /\ rows[r].status # "none" => rows'[r].status # "none"
                      /\ rows[r].attempts > 0 => rows'[r].attempts > 0
                      /\ r \in S => rows'[r].status = "sending" /\ rows'[r].attempts > 0
  <2>1. ASSUME NEW r \in S
        PROVE  rows'[r] \in RowType /\ rows'[r].status = "sending" /\ rows'[r].attempts > 0
    <3>1. rows[r].attempts + 1 \in Nat \ {0} /\ StaleAfter \in Nat /\ "sending" \in RowStatuses
      BY <1>1, OutboxAssumption DEF RowType, RowStatuses
    <3>2. rows'[r] = [status |-> "sending", attempts |-> rows[r].attempts + 1,
                      wait |-> StaleAfter]
      BY <1>1, <1>2
    <3> QED
      BY <3>1, <3>2 DEF RowType
  <2> QED
    BY <1>1, <1>2, <2>1
<1>4. rows' \in [Rows -> RowType]
  <2>1. rows' = [r \in Rows |-> rows'[r]]
    BY DEF Claim
  <2> QED
    BY <1>3, <2>1
<1>5. /\ batch'[w] \in Seq(Rows)
      /\ \A i \in 1..Len(batch'[w]) : batch'[w][i] \in S
      /\ result'[w] = "none"
  <2>1. batch'[w] = SetToSeq(S) /\ batch[w] = <<>> /\ result' = result
    BY DEF Claim, OutboxInv, TypeOK, projection
  <2> QED
    BY <1>1, <2>1, SetToSeqType DEF OutboxInv, TypeOK, InHand
<1>6. \A v \in Workers \ {w} : batch'[v] = batch[v] /\ result'[v] = result[v]
  BY DEF Claim, OutboxInv, TypeOK
<1>7. batch' \in [Workers -> Seq(Rows)]
  BY <1>5 DEF Claim, OutboxInv, TypeOK
<1>8. TypeOK'
  BY <1>4, <1>7 DEF Claim, OutboxInv, TypeOK, projection, RowType
<1>9. \A v \in Workers : \A i \in 1..Len(batch'[v]) :
         rows'[batch'[v][i]].attempts > 0 /\ rows'[batch'[v][i]].status # "none"
  <2>1. ASSUME NEW i \in 1..Len(batch'[w])
        PROVE  rows'[batch'[w][i]].attempts > 0 /\ rows'[batch'[w][i]].status # "none"
    <3>1. batch'[w][i] \in S /\ batch'[w][i] \in Rows
      BY <1>1, <1>5
    <3> QED
      BY <1>3, <3>1
  <2>2. ASSUME NEW v \in Workers \ {w}, NEW i \in 1..Len(batch'[v])
        PROVE  rows'[batch'[v][i]].attempts > 0 /\ rows'[batch'[v][i]].status # "none"
    <3>1. /\ batch'[v][i] = batch[v][i] /\ batch[v][i] \in Rows
          /\ rows[batch[v][i]].attempts > 0 /\ rows[batch[v][i]].status # "none"
      BY <1>6, HandRows DEF OutboxInv, InHand
    <3> QED
      BY <1>3, <3>1
  <2> QED
    BY <2>1, <2>2
<1>10. InHand'
  <2>1. ASSUME NEW v \in Workers
        PROVE  /\ result'[v] # "none" => batch'[v] # <<>>
               /\ result'[v] = "sent" => batch'[v][1] \in delivered'
    <3>1. CASE v = w
      BY <1>5, <3>1
    <3>2. CASE v # w
      <4>1. batch'[v] = batch[v] /\ result'[v] = result[v] /\ delivered' = delivered
        BY <1>6, <3>2 DEF Claim
      <4> QED
        BY <4>1 DEF OutboxInv, InHand
    <3> QED
      BY <3>1, <3>2
  <2> QED
    BY <1>9, <2>1 DEF InHand
<1> QED
  BY <1>8, <1>10 DEF OutboxInv

\* A send leaves everything but its result, and adds to what has arrived.
LEMMA SendInv ==
    ASSUME OutboxInv, NEW w \in Workers,
           SendSucceeds(w) \/ SendFails(w) \/ ChannelUnconfigured(w)
    PROVE  OutboxInv'
<1>1. batch[w] # <<>> /\ UNCHANGED <<world, changes, projection, rows, up, batch, losses>>
  BY DEF SendSucceeds, SendFails, ChannelUnconfigured, Sends
<1>2. Head(batch[w]) = batch[w][1] /\ batch[w][1] \in Rows
  BY <1>1, HandRows
<1>3. /\ delivered \subseteq delivered' /\ delivered' \subseteq Rows
      /\ result'[w] \in {"sent", "failed"}
      /\ result' = [result EXCEPT ![w] = result'[w]]
      /\ result'[w] = "sent" => batch[w][1] \in delivered'
  BY <1>2 DEF SendSucceeds, SendFails, ChannelUnconfigured, OutboxInv, TypeOK
<1>4. TypeOK'
  BY <1>1, <1>3 DEF OutboxInv, TypeOK, projection
<1>5. InHand'
  BY <1>1, <1>3 DEF OutboxInv, TypeOK, InHand
<1> QED
  BY <1>4, <1>5 DEF OutboxInv

\* What a mark does to the row, if it is still being sent.
LEMMA MarkedRow ==
    ASSUME OutboxInv, NEW w \in Workers, Mark(w)
    PROVE  LET r == batch[w][1]
           IN  /\ r \in Rows /\ result[w] \in {"sent", "failed"}
               /\ rows[r].attempts > 0
               /\ rows' = IF StillSending(r)
                          THEN [rows EXCEPT ![r] = Marked(r, result[w])] ELSE rows
               /\ batch' = [batch EXCEPT ![w] = Tail(batch[w])]
<1>1. result[w] # "none" /\ batch[w] # <<>>
  BY DEF Mark, OutboxInv, InHand
<1>2. Head(batch[w]) = batch[w][1] /\ batch[w][1] \in Rows /\ 1 \in 1..Len(batch[w])
  BY <1>1, HandRows
<1> QED
  BY <1>1, <1>2 DEF Mark, OutboxInv, TypeOK, InHand

LEMMA MarkInv == ASSUME OutboxInv, NEW w \in Workers, Mark(w) PROVE OutboxInv'
<1> DEFINE r == batch[w][1]
<1>1. /\ r \in Rows /\ result[w] \in {"sent", "failed"} /\ rows[r].attempts > 0
      /\ rows' = IF StillSending(r)
                 THEN [rows EXCEPT ![r] = Marked(r, result[w])] ELSE rows
      /\ batch' = [batch EXCEPT ![w] = Tail(batch[w])]
  BY MarkedRow
<1>2. rows \in [Rows -> RowType]
  BY HandRows
<1>3. /\ Marked(r, result[w]) \in RowType
      /\ Marked(r, result[w]).attempts = rows[r].attempts
      /\ Marked(r, result[w]).status # "none"
  BY <1>1, MarkType DEF OutboxInv
<1>4. /\ rows' \in [Rows -> RowType]
      /\ \A u \in Rows : /\ rows'[u].attempts = rows[u].attempts
                         /\ rows[u].status # "none" => rows'[u].status # "none"
  BY <1>1, <1>2, <1>3
<1>5. batch[w] \in Seq(Rows) /\ batch[w] # <<>>
  BY DEF OutboxInv, TypeOK, InHand, Mark
<1>6. /\ Tail(batch[w]) \in Seq(Rows)
      /\ \A i \in 1..Len(Tail(batch[w])) :
            i + 1 \in 1..Len(batch[w]) /\ Tail(batch[w])[i] = batch[w][i + 1]
  BY <1>5
<1>7. batch' \in [Workers -> Seq(Rows)] /\ result' \in [Workers -> {"none", "sent", "failed"}]
  BY <1>1, <1>6 DEF OutboxInv, TypeOK, Mark
<1>8. /\ batch'[w] = Tail(batch[w]) /\ result'[w] = "none"
      /\ \A v \in Workers \ {w} : batch'[v] = batch[v] /\ result'[v] = result[v]
  BY <1>1 DEF OutboxInv, TypeOK, Mark
<1>9. TypeOK'
  BY <1>4, <1>7 DEF OutboxInv, TypeOK, Mark, projection, RowType
<1>10. InHand'
  <2>1. ASSUME NEW i \in 1..Len(batch'[w])
        PROVE  rows'[batch'[w][i]].attempts > 0 /\ rows'[batch'[w][i]].status # "none"
    <3>1. i + 1 \in 1..Len(batch[w]) /\ batch'[w][i] = batch[w][i + 1]
      BY <1>6, <1>8
    <3>2. /\ batch[w][i + 1] \in Rows /\ rows[batch[w][i + 1]].attempts > 0
          /\ rows[batch[w][i + 1]].status # "none"
      BY <3>1, HandRows DEF OutboxInv, InHand
    <3> QED
      BY <1>4, <3>1, <3>2
  <2>2. ASSUME NEW v \in Workers \ {w}, NEW i \in 1..Len(batch'[v])
        PROVE  rows'[batch'[v][i]].attempts > 0 /\ rows'[batch'[v][i]].status # "none"
    <3>1. /\ batch'[v][i] = batch[v][i] /\ batch[v][i] \in Rows
          /\ rows[batch[v][i]].attempts > 0 /\ rows[batch[v][i]].status # "none"
      BY <1>8, HandRows DEF OutboxInv, InHand
    <3> QED
      BY <1>4, <3>1
  <2>3. \A v \in Workers :
           /\ result'[v] # "none" => batch'[v] # <<>>
           /\ result'[v] = "sent" => batch'[v][1] \in delivered'
    BY <1>8 DEF Mark, OutboxInv, InHand
  <2> QED
    BY <2>1, <2>2, <2>3 DEF InHand
<1> QED
  BY <1>9, <1>10 DEF OutboxInv

LEMMA PruneInv ==
    ASSUME OutboxInv, NEW S, Prune(S)
    PROVE  OutboxInv'
<1>1. \A w \in Workers : \A i \in 1..Len(batch[w]) :
         batch[w][i] \in Rows /\ batch[w][i] \notin S
  <2>1. \A w \in Workers : DOMAIN batch[w] = 1..Len(batch[w])
    BY DEF OutboxInv, TypeOK
  <2> QED
    BY <2>1, HandRows DEF Prune, InFlight, Range
<1>2. NoRow \in RowType /\ rows \in [Rows -> RowType]
  BY HandRows DEF NoRow, RowType, RowStatuses
<1>3. rows' \in [Rows -> RowType] /\ \A r \in Rows \ S : rows'[r] = rows[r]
  BY <1>2 DEF Prune
<1>4. TypeOK'
  BY <1>3 DEF Prune, OutboxInv, TypeOK, projection, RowType
<1>5. \A w \in Workers : result[w] = "sent" => batch[w][1] \in delivered'
  BY <1>1, HandRows DEF Prune, OutboxInv, InHand
<1>6. InHand'
  BY <1>1, <1>3, <1>5 DEF Prune, OutboxInv, InHand
<1> QED
  BY <1>4, <1>6 DEF OutboxInv

LEMMA NextInv == ASSUME OutboxInv, [Next]_vars PROVE OutboxInv'
<1>1. CASE UNCHANGED vars
  BY <1>1 DEF vars, projection, delivery, OutboxInv, TypeOK, InHand
<1>2. CASE Next
  BY <1>2, LifecycleInv, TickInv, ReadInv, ProjectInv, UpdateInv, ClaimInv, SendInv,
     MarkInv, PruneInv DEF Next, DeliveryLoop, Deliver
<1> QED
  BY <1>1, <1>2

\* TypeOK: every state of the outbox, the projection and the workers is typed.
THEOREM NotificationTypes == Spec => []TypeOK
<1>1. Spec => []OutboxInv
  BY InitInv, NextInv, PTL DEF Spec
<1> QED
  BY <1>1, PTL DEF OutboxInv

---------------------------------------------------------------------------
(* Rows that do not exist have not been tried *)

Untried == \A r \in Rows : rows[r].status = "none" => rows[r].attempts = 0

LEMMA UntriedInv ==
    ASSUME OutboxInv, Untried, [Next]_vars
    PROVE  Untried'
<1>1. rows \in [Rows -> RowType]
  BY HandRows
<1>2. CASE UNCHANGED rows
  BY <1>2 DEF Untried
<1>3. CASE Tick
  <2>1. \A r \in Rows : rows'[r].status = rows[r].status /\ rows'[r].attempts = rows[r].attempts
    BY <1>1, <1>3 DEF Tick, RowType
  <2> QED
    BY <2>1 DEF Untried
<1>4. ASSUME NEW S, Enqueue(S) PROVE Untried'
  <2>1. \A r \in Rows : rows'[r] = rows[r] \/ rows'[r] = Pending
    BY <1>4 DEF Enqueue
  <2> QED
    BY <2>1 DEF Untried, Pending
<1>5. ASSUME NEW w \in Workers, NEW S \in SUBSET Due, Claim(w, S) PROVE Untried'
  <2>1. ASSUME NEW r \in Rows PROVE rows'[r] = rows[r] \/ rows'[r].status = "sending"
    BY <1>5 DEF Claim
  <2> QED
    BY <2>1 DEF Untried
<1>6. ASSUME NEW w \in Workers, Mark(w) PROVE Untried'
  <2> DEFINE r == batch[w][1]
  <2>1. /\ r \in Rows
        /\ rows' = IF StillSending(r)
                   THEN [rows EXCEPT ![r] = Marked(r, result[w])] ELSE rows
        /\ Marked(r, result[w]).status \in {"sent", "dead", "retry"}
    BY <1>6, MarkedRow, MarkType DEF OutboxInv
  <2> QED
    BY <1>1, <2>1 DEF Untried
<1>7. ASSUME NEW S, Prune(S) PROVE Untried'
  <2>1. \A r \in Rows : rows'[r] = rows[r] \/ rows'[r] = NoRow
    BY <1>7 DEF Prune
  <2> QED
    BY <2>1 DEF Untried, NoRow
<1>8. ASSUME NEW w \in Workers, Project(w) PROVE Untried'
  BY <1>2, <1>4, <1>8 DEF Project
<1>9. ASSUME NEW w \in Workers, Deliver(w) PROVE Untried'
  BY <1>2, <1>6, <1>9 DEF Deliver, SendSucceeds, SendFails, ChannelUnconfigured, Sends
<1>10. CASE UNCHANGED vars
  BY <1>2, <1>10 DEF vars
<1>11. CASE Next
  BY <1>2, <1>3, <1>4, <1>5, <1>7, <1>8, <1>9, <1>11
     DEF Next, DeliveryLoop, Start, Stop, LoseBatch, ReadCondition, ConditionChanges, HandleUpdate
<1> QED
  BY <1>10, <1>11

---------------------------------------------------------------------------
(* The refinement *)

LEMMA InitRefines == ASSUME Init PROVE Outbox!Init /\ Untried
BY DEF Init, Outbox!Init, Outcome, NoRow, Untried

\* Rows that keep outcome and attempts are not seen to change.
LEMMA OutboxUnchanged ==
    ASSUME UNCHANGED delivered,
           \A r \in Rows : /\ Outcome(rows'[r]) = Outcome(rows[r])
                           /\ rows'[r].attempts = rows[r].attempts
    PROVE  UNCHANGED Outbox!outbox
BY DEF Outbox!outbox

LEMMA EnqueueAccepts ==
    ASSUME OutboxInv, Untried, NEW S, Enqueue(S), UNCHANGED delivered
    PROVE  Outbox!Next
<1> DEFINE A == {r \in Rows : r \in S /\ rows[r].status = "none"}
<1>1. rows \in [Rows -> RowType]
  BY HandRows
<1>2. \A r \in Rows : IF r \in A THEN rows'[r] = Pending ELSE rows'[r] = rows[r]
  BY <1>1 DEF Enqueue
<1>3. \A r \in A : Outcome(rows[r]) = "none" /\ rows[r].attempts = 0
  BY DEF Untried, Outcome
<1>4. Outcome(Pending) = "open" /\ Pending.attempts = 0
  BY DEF Outcome, Pending
<1>5. Outbox!Accept(A)
  BY <1>2, <1>3, <1>4 DEF Outbox!Accept
<1>6. A \in SUBSET Rows
  OBVIOUS
<1> QED
  BY <1>5, <1>6 DEF Outbox!Next

LEMMA ClaimTries ==
    ASSUME OutboxInv, NEW w \in Workers, NEW S \in SUBSET Due, Claim(w, S)
    PROVE  Outbox!Next
<1>1. S \in SUBSET Rows /\ rows \in [Rows -> RowType]
  BY HandRows DEF Due, InStatus
<1>2. \A r \in S : Outcome(rows[r]) = "open"
  BY DEF Due, InStatus, Outcome
<1>3. \A r \in Rows : IF r \in S
         THEN Outcome(rows'[r]) = "open" /\ rows'[r].attempts = rows[r].attempts + 1
         ELSE rows'[r] = rows[r]
  BY <1>1 DEF Claim, Outcome
<1>4. Outbox!Try(S)
  BY <1>1, <1>2, <1>3 DEF Outbox!Try, Claim
<1> QED
  BY <1>1, <1>4 DEF Outbox!Next

LEMMA SendDelivers ==
    ASSUME OutboxInv, NEW w \in Workers,
           SendSucceeds(w) \/ SendFails(w) \/ ChannelUnconfigured(w)
    PROVE  Outbox!Next \/ UNCHANGED Outbox!outbox
<1> DEFINE r == batch[w][1]
<1>1. batch[w] # <<>> /\ UNCHANGED rows
  BY DEF SendSucceeds, SendFails, ChannelUnconfigured, Sends
<1>2. Head(batch[w]) = r /\ r \in Rows /\ 1 \in 1..Len(batch[w])
  BY <1>1, HandRows
<1>3. rows[r].attempts > 0
  BY <1>2 DEF OutboxInv, InHand
<1>4. delivered' = delivered \/ delivered' = delivered \cup {r}
  BY <1>2 DEF SendSucceeds, SendFails, ChannelUnconfigured
<1>5. CASE delivered' = delivered
  BY <1>1, <1>5 DEF Outbox!outbox
<1>6. CASE delivered' = delivered \cup {r}
  <2>1. Outbox!Deliver(r)
    BY <1>1, <1>2, <1>3, <1>6 DEF Outbox!Deliver
  <2> QED
    BY <1>2, <2>1 DEF Outbox!Next
<1> QED
  BY <1>4, <1>5, <1>6

\* A mark closes the row it is about, or leaves it open.
LEMMA MarkCloses ==
    ASSUME OutboxInv, NEW w \in Workers, Mark(w)
    PROVE  Outbox!Next \/ UNCHANGED Outbox!outbox
<1> DEFINE r == batch[w][1]
           new == Marked(r, result[w])
<1>1. /\ r \in Rows /\ result[w] \in {"sent", "failed"} /\ rows[r].attempts > 0
      /\ rows' = IF StillSending(r) THEN [rows EXCEPT ![r] = new] ELSE rows
  BY MarkedRow
<1>2. /\ new.attempts = rows[r].attempts /\ new.status \in {"sent", "dead", "retry"}
      /\ new.status = "sent" => result[w] = "sent"
      /\ new.status = "dead" => rows[r].attempts >= MaxAttempts
  BY <1>1, MarkType DEF OutboxInv
<1>3. result[w] = "sent" => r \in delivered
  BY DEF OutboxInv, InHand
<1>4. UNCHANGED delivered /\ rows \in [Rows -> RowType]
  BY HandRows DEF Mark
<1>5. CASE ~StillSending(r)
  BY <1>1, <1>4, <1>5 DEF Outbox!outbox
<1>6. CASE StillSending(r)
  <2>1. Outcome(rows[r]) = "open"
    BY <1>6 DEF StillSending, Outcome
  <2>2. rows' = [rows EXCEPT ![r] = new]
    BY <1>1, <1>6
  <2>3. \A u \in Rows : rows'[u] = IF u = r THEN new ELSE rows[u]
    BY <1>1, <1>4, <2>2
  <2>4. CASE new.status = "retry"
    <3>1. Outcome(new) = "open"
      BY <2>4 DEF Outcome
    <3> QED
      BY <1>2, <1>4, <2>1, <2>3, <3>1, OutboxUnchanged
  <2>5. CASE new.status \in {"sent", "dead"}
    <3>1. Outcome(new) = new.status
      BY <2>5 DEF Outcome
    <3>2. Outbox!Close(r)
      BY <1>1, <1>2, <1>3, <1>4, <2>1, <2>3, <2>5, <3>1 DEF Outbox!Close
    <3> QED
      BY <1>1, <3>2 DEF Outbox!Next
  <2> QED
    BY <1>2, <2>4, <2>5
<1> QED
  BY <1>5, <1>6

LEMMA PruneForgets ==
    ASSUME OutboxInv, NEW S \in SUBSET Rows, Prune(S)
    PROVE  Outbox!Next
<1>1. \A r \in S : Outcome(rows[r]) \in {"sent", "dead"}
  BY DEF Prune, InStatus, Outcome
<1>2. \A r \in Rows : rows'[r] = IF r \in S THEN NoRow ELSE rows[r]
  BY DEF Prune
<1>3. Outcome(NoRow) = "none" /\ NoRow.attempts = 0
  BY DEF Outcome, NoRow
<1>4. Outbox!Forget(S)
  BY <1>1, <1>2, <1>3 DEF Outbox!Forget, Outbox!Closed, Prune
<1> QED
  BY <1>4 DEF Outbox!Next

LEMMA StepRefines ==
    ASSUME OutboxInv, Untried, [Next]_vars
    PROVE  [Outbox!Next]_(Outbox!outbox)
<1>1. CASE UNCHANGED <<rows, delivered>>
  BY <1>1 DEF Outbox!outbox
<1>2. CASE Tick
  <2>1. \A r \in Rows : rows'[r].status = rows[r].status /\ rows'[r].attempts = rows[r].attempts
    BY <1>2, HandRows DEF Tick, RowType
  <2> QED
    BY <1>2, <2>1, OutboxUnchanged DEF Outcome, Tick, delivery
<1>3. ASSUME NEW w \in Workers, Project(w) PROVE [Outbox!Next]_(Outbox!outbox)
  BY <1>1, <1>3, EnqueueAccepts DEF Project, delivery
<1>4. ASSUME NEW u \in Updates, HandleUpdate(u) PROVE [Outbox!Next]_(Outbox!outbox)
  BY <1>4, EnqueueAccepts DEF HandleUpdate, delivery
<1>5. ASSUME NEW w \in Workers, DeliveryLoop(w) PROVE [Outbox!Next]_(Outbox!outbox)
  BY <1>5, ClaimTries, SendDelivers, MarkCloses DEF DeliveryLoop, Deliver
<1>6. ASSUME NEW w \in Workers, Start(w) \/ Stop(w) \/ LoseBatch(w)
                                \/ \E s \in Sources : ReadCondition(w, s)
      PROVE  [Outbox!Next]_(Outbox!outbox)
  BY <1>1, <1>6 DEF Start, Stop, LoseBatch, ReadCondition, delivery
<1>7. ASSUME NEW s \in Sources, NEW c \in Conditions, ConditionChanges(s, c)
      PROVE  [Outbox!Next]_(Outbox!outbox)
  BY <1>1, <1>7 DEF ConditionChanges, delivery
<1>8. ASSUME NEW S \in SUBSET InStatus({"sent", "dead"}), Prune(S)
      PROVE  [Outbox!Next]_(Outbox!outbox)
  BY <1>8, PruneForgets DEF InStatus
<1>9. CASE UNCHANGED vars
  BY <1>1, <1>9 DEF vars, delivery
<1> QED
  BY <1>2, <1>3, <1>4, <1>5, <1>6, <1>7, <1>8, <1>9 DEF Next

\* ImplementsOutbox: through crashes, stale claims, lost and late marks and
\* pruning, the rows keep the promise of a reliable outbox: what is called
\* sent has arrived, what is given up was tried often enough, and no row that
\* is closed is opened again.
THEOREM NotificationsImplementOutbox == Spec => ImplementsOutbox
<1>1. Init => OutboxInv /\ Untried /\ Outbox!Init
  BY InitInv, InitRefines
<1>2. OutboxInv /\ Untried /\ [Next]_vars =>
         OutboxInv' /\ Untried' /\ [Outbox!Next]_(Outbox!outbox)
  BY NextInv, UntriedInv, StepRefines
<1> QED
  BY <1>1, <1>2, PTL DEF Spec, ImplementsOutbox, Outbox!Spec
=============================================================================
