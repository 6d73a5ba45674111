------------------------ MODULE MultiLegTasksProofs ------------------------
(***************************************************************************)
(* The safety of multi-leg tasks, for any number of tasks and legs, any    *)
(* targets, chunks and grids, any limits of retries and chases, and every  *)
(* fault: what a task has at the exchange is what it may have.             *)
(***************************************************************************)
EXTENDS MultiLegTasks, SumTheorems

---------------------------------------------------------------------------
(* The inductive invariant.  What it says of a task it says of the status  *)
(* of the task, its rows and what the exchange made of them, so that a     *)
(* step of one task leaves the others alone.                               *)

Of(os, leg, purpose) ==
    {i \in DOMAIN os : os[i].leg = leg /\ os[i].purpose = purpose}

\* What an order can still come to: an open one may be filled completely.
Reach(o) == IF o.status \in OpenOrder THEN o.quantity ELSE o.filled

FilledIn(os, leg, purpose) ==
    SumFunctionOnSet([i \in DOMAIN os |-> os[i].filled], Of(os, leg, purpose))
ReachIn(os, leg, purpose) ==
    SumFunctionOnSet([i \in DOMAIN os |-> Reach(os[i])], Of(os, leg, purpose))
GotIn(os, xs, leg, purpose) ==
    SumFunctionOnSet([i \in DOMAIN xs |-> xs[i].got], Of(os, leg, purpose))

\* A row and its order at the exchange.  What has ended in the ledger has ended
\* there with the same fills, and what was seen there stays there.
Matches(o, x) ==
    /\ 0 < o.quantity /\ o.filled <= x.got /\ x.got <= o.quantity
    /\ x.at \in {"none", "sent"} => x.got = 0
    /\ x.at = "live" => x.got < o.quantity
    /\ o.status \in Ended => x.at = "done" /\ o.filled = x.got
    /\ o.status \in Uncertain \ {"unknown"} => x.at \in {"live", "done"}

\* The rows of a task: only the last one may be open.
Rows(os, xs) ==
    /\ DOMAIN xs = DOMAIN os
    /\ \A i \in DOMAIN os : Matches(os[i], xs[i])
    /\ \A i \in DOMAIN os : i < Len(os) => os[i].status \in Ended

\* No leg can come to more than its target, or be traded back beyond its fills.
Budget(os) ==
    \A leg \in Legs :
        /\ ReachIn(os, leg, "primary") <= Target[leg]
        /\ ReachIn(os, leg, "compensation") <= FilledIn(os, leg, "primary")

\* A hedge cannot come to more than its share of the anchor's fills, nor the
\* anchor to more than one order beyond what a hedge has filled.
Paced(os) ==
    \A leg \in Hedges :
        /\ ReachIn(os, leg, "primary") * Target[Anchor]
             <= FilledIn(os, Anchor, "primary") * Target[leg]
        /\ ReachIn(os, Anchor, "primary") * Target[leg]
             - FilledIn(os, leg, "primary") * Target[Anchor]
             <= (Max({HedgeFrom - 1, 0}) + OneOrder(Anchor)) * Target[leg]

AllEnded(os) == \A i \in DOMAIN os : os[i].status \in Ended
SomeCreated(os) == \E i \in DOMAIN os : os[i].status = "created"

\* What a completed task, and a failed one, leaves in its rows.
Outcome(status, os) ==
    /\ status = "completed" =>
          AllEnded(os) /\ \A leg \in Legs : FilledIn(os, leg, "primary") = Target[leg]
    /\ status = "failed" =>
          \/ SomeCreated(os)
          \/ /\ AllEnded(os)
             /\ \A leg \in Legs : FilledIn(os, leg, "primary") = FilledIn(os, leg, "compensation")

Untouched == {"none", "draft", "preflight_ready", "queued", "emergency_stopped"}
Working == {"running", "hedging", "compensating"}

TaskInv(t, status, os, xs) ==
    /\ Rows(os, xs) /\ Budget(os)
    /\ t \notin PaperTasks => Paced(os)
    /\ Outcome(status, os)
    /\ status \in Untouched => os = <<>>
    /\ t \in PaperTasks => /\ status \notin {"hedging", "compensating", "manual_review"}
                           /\ status # "completed" => os = <<>>

\* What the worker knows of the task it has taken up and of its open order.
InHand ==
    /\ pc = "paper" => w.task \in PaperTasks /\ tasks[w.task] = "running"
    /\ pc \in {"decide", "answer", "found", "chase"} =>
          w.task \in Tasks \ PaperTasks /\ tasks[w.task] \in Working
    /\ pc \in {"answer", "found", "chase"} =>
          /\ Last(w.task) \in DOMAIN orders[w.task]
          /\ orders[w.task][Last(w.task)].status \in OpenOrder
    /\ pc = "found" => w.seen \in LiveWords \cup DoneWords
    /\ pc \in {"found", "chase"} => exch[w.task][Last(w.task)].at \in {"live", "done"}
    /\ pc = "found" /\ w.seen \in {"canceled", "filled"} => exch[w.task][Last(w.task)].at = "done"

MultiLegInv ==
    /\ TypeOK
    /\ \A t \in Tasks : TaskInv(t, tasks[t], orders[t], exch[t])
    /\ InHand

---------------------------------------------------------------------------
(* Sums over the rows of one task *)

\* The orders of one leg and purpose are finitely many.
LEMMA OfIsFinite ==
    ASSUME NEW os \in Seq(OrderRows), NEW leg, NEW purpose
    PROVE  /\ Of(os, leg, purpose) \subseteq DOMAIN os
           /\ IsFiniteSet(Of(os, leg, purpose))
<1>1. Of(os, leg, purpose) \subseteq 1..Len(os) /\ Len(os) \in Nat
  BY DEF Of
<1>2. IsFiniteSet(1..Len(os))
  BY <1>1, FS_Interval
<1> QED BY <1>1, <1>2, FS_Subset

\* What was filled is at most what the orders can still come to, and every
\* sum is a natural number.
LEMMA SumsOfRows ==
    ASSUME NEW os \in Seq(OrderRows), NEW xs \in Seq(ExchRows), NEW leg, NEW purpose,
           Rows(os, xs)
    PROVE  /\ FilledIn(os, leg, purpose) \in Nat /\ ReachIn(os, leg, purpose) \in Nat
           /\ GotIn(os, xs, leg, purpose) \in Nat
           /\ FilledIn(os, leg, purpose) <= GotIn(os, xs, leg, purpose)
           /\ GotIn(os, xs, leg, purpose) <= ReachIn(os, leg, purpose)
<1> DEFINE S == Of(os, leg, purpose)
           f == [i \in DOMAIN os |-> os[i].filled]
           r == [i \in DOMAIN os |-> Reach(os[i])]
           g == [i \in DOMAIN xs |-> xs[i].got]
<1>1. S \subseteq DOMAIN os /\ IsFiniteSet(S)
  BY OfIsFinite
<1> HIDE DEF S
<1>2. ASSUME NEW i \in S
      PROVE  /\ f[i] \in Nat /\ r[i] \in Nat /\ g[i] \in Nat
             /\ f[i] <= g[i] /\ g[i] <= r[i]
  <2>1. i \in DOMAIN os /\ i \in DOMAIN xs /\ Matches(os[i], xs[i])
    BY <1>1, <1>2 DEF Rows
  <2>2. os[i] \in OrderRows /\ xs[i] \in ExchRows
    BY <2>1
  <2>3. os[i].filled <= xs[i].got /\ xs[i].got <= Reach(os[i]) /\ Reach(os[i]) \in Nat
    BY <2>1, <2>2 DEF Matches, Reach, OrderRows, ExchRows
  <2>4. os[i].filled \in Nat /\ xs[i].got \in Nat
    BY <2>2 DEF OrderRows, ExchRows
  <2> QED BY <2>1, <2>3, <2>4
<1> HIDE DEF f, r, g
<1>3. Numbers(f, S) /\ Numbers(r, S) /\ Numbers(g, S)
  BY <1>1, <1>2 DEF Numbers
<1>4. /\ SumFunctionOnSet(f, S) \in Nat /\ SumFunctionOnSet(r, S) \in Nat
      /\ SumFunctionOnSet(g, S) \in Nat
  BY <1>1, <1>2, SumOfNaturals
<1>5. /\ SumFunctionOnSet(f, S) <= SumFunctionOnSet(g, S)
      /\ SumFunctionOnSet(g, S) <= SumFunctionOnSet(r, S)
  BY <1>2, <1>3, SumGrows
<1> QED BY <1>4, <1>5 DEF FilledIn, ReachIn, GotIn, S, f, r, g

\* No orders have no fills.
LEMMA SumsOfNothing ==
    ASSUME NEW leg, NEW purpose
    PROVE  FilledIn(<<>>, leg, purpose) = 0 /\ ReachIn(<<>>, leg, purpose) = 0
<1>1. Of(<<>>, leg, purpose) = {}
  BY DEF Of
<1> QED BY <1>1, SumOfNothing DEF FilledIn, ReachIn

\* A new order counts with its quantity, and only for its leg and purpose.
LEMMA SumsOfAppended ==
    ASSUME NEW os \in Seq(OrderRows), NEW o \in OrderRows, o.filled = 0,
           o.status = "created", NEW leg, NEW purpose
    PROVE  LET os2 == Append(os, o)
           IN  /\ FilledIn(os2, leg, purpose) = FilledIn(os, leg, purpose)
               /\ ReachIn(os2, leg, purpose) =
                     ReachIn(os, leg, purpose)
                        + IF o.leg = leg /\ o.purpose = purpose THEN o.quantity ELSE 0
<1> DEFINE os2 == Append(os, o)
           n   == Len(os) + 1
           S   == Of(os, leg, purpose)
           S2  == Of(os2, leg, purpose)
           f   == [i \in DOMAIN os |-> os[i].filled]
           f2  == [i \in DOMAIN os2 |-> os2[i].filled]
           r   == [i \in DOMAIN os |-> Reach(os[i])]
           r2  == [i \in DOMAIN os2 |-> Reach(os2[i])]
           new == o.leg = leg /\ o.purpose = purpose
<1>1. /\ os2 \in Seq(OrderRows) /\ DOMAIN os2 = DOMAIN os \cup {n} /\ n \notin DOMAIN os
      /\ os2[n] = o /\ \A i \in DOMAIN os : os2[i] = os[i]
  OBVIOUS
<1>2. S2 = IF new THEN S \cup {n} ELSE S
  BY <1>1 DEF Of
<1>3. S \subseteq DOMAIN os /\ n \notin S /\ IsFiniteSet(S) /\ IsFiniteSet(S2)
  BY <1>1, OfIsFinite
<1>4. ASSUME NEW i \in S
      PROVE  f[i] = f2[i] /\ r[i] = r2[i] /\ f2[i] \in Int /\ r2[i] \in Int
  <2>1. i \in DOMAIN os /\ os2[i] = os[i] /\ i \in DOMAIN os2 /\ os[i] \in OrderRows
    BY <1>1, <1>3, <1>4
  <2>2. os[i].filled \in Nat /\ Reach(os[i]) \in Nat
    BY <2>1 DEF OrderRows, Reach
  <2>3. /\ f[i] = os[i].filled /\ r[i] = Reach(os[i])
        /\ f2[i] = os[i].filled /\ r2[i] = Reach(os[i])
    BY <2>1
  <2> HIDE DEF f, f2, r, r2
  <2> QED BY <2>2, <2>3
<1>5. f2[n] = 0 /\ r2[n] = o.quantity /\ o.quantity \in Nat
  BY <1>1 DEF Reach, OpenOrder, OrderRows
<1> HIDE DEF os2, n, S, S2, f, f2, r, r2, new
<1>6. /\ Numbers(f, S) /\ Numbers(f2, S2) /\ Numbers(r, S) /\ Numbers(r2, S2)
  BY <1>2, <1>3, <1>4, <1>5 DEF Numbers
<1>7. /\ SumFunctionOnSet(f, S) = SumFunctionOnSet(f2, S)
      /\ SumFunctionOnSet(r, S) = SumFunctionOnSet(r2, S)
  BY <1>4, <1>6, SumAgrees
<1>8. SumFunctionOnSet(f, S) \in Int /\ SumFunctionOnSet(r, S) \in Int
  BY <1>6, SumIsInt
<1>9. /\ SumFunctionOnSet(f2, S2) = SumFunctionOnSet(f, S)
      /\ SumFunctionOnSet(r2, S2) =
            SumFunctionOnSet(r, S) + IF new THEN o.quantity ELSE 0
  <2>1. CASE new
    <3>1. /\ SumFunctionOnSet(f2, S \cup {n}) = SumFunctionOnSet(f2, S) + f2[n]
          /\ SumFunctionOnSet(r2, S \cup {n}) = SumFunctionOnSet(r2, S) + r2[n]
      BY <1>2, <1>3, <1>6, <2>1, SumWith
    <3> QED BY <1>2, <1>5, <1>7, <1>8, <2>1, <3>1
  <2>2. CASE ~ new
    BY <1>2, <1>7, <1>8, <2>2
  <2> QED BY <2>1, <2>2
<1> QED BY <1>9 DEF FilledIn, ReachIn, S, S2, f, f2, r, r2, os2, new

\* Rows that keep their leg and purpose, with no less filled and no more to
\* come.
LEMMA SumsOfChanged ==
    ASSUME NEW os \in Seq(OrderRows), NEW os2 \in Seq(OrderRows),
           DOMAIN os2 = DOMAIN os,
           \A i \in DOMAIN os : /\ os2[i].leg = os[i].leg
                                /\ os2[i].purpose = os[i].purpose
                                /\ os[i].filled <= os2[i].filled
                                /\ Reach(os2[i]) <= Reach(os[i]),
           NEW leg, NEW purpose
    PROVE  /\ FilledIn(os, leg, purpose) <= FilledIn(os2, leg, purpose)
           /\ ReachIn(os2, leg, purpose) <= ReachIn(os, leg, purpose)
<1> DEFINE S  == Of(os, leg, purpose)
           f  == [i \in DOMAIN os |-> os[i].filled]
           f2 == [i \in DOMAIN os2 |-> os2[i].filled]
           r  == [i \in DOMAIN os |-> Reach(os[i])]
           r2 == [i \in DOMAIN os2 |-> Reach(os2[i])]
<1>1. Of(os2, leg, purpose) = S
  BY DEF Of
<1>2. S \subseteq DOMAIN os /\ IsFiniteSet(S)
  BY OfIsFinite
<1> HIDE DEF S
<1>3. ASSUME NEW i \in S
      PROVE  /\ f[i] \in Int /\ f2[i] \in Int /\ r[i] \in Int /\ r2[i] \in Int
             /\ f[i] <= f2[i] /\ r2[i] <= r[i]
  <2>1. i \in DOMAIN os /\ i \in DOMAIN os2 /\ os[i] \in OrderRows /\ os2[i] \in OrderRows
    BY <1>2, <1>3
  <2>2. /\ os[i].filled \in Nat /\ os2[i].filled \in Nat
        /\ Reach(os[i]) \in Nat /\ Reach(os2[i]) \in Nat
    BY <2>1 DEF OrderRows, Reach
  <2>3. os[i].filled <= os2[i].filled /\ Reach(os2[i]) <= Reach(os[i])
    BY <2>1
  <2> QED BY <2>1, <2>2, <2>3
<1> HIDE DEF f, f2, r, r2
<1>4. Numbers(f, S) /\ Numbers(f2, S) /\ Numbers(r, S) /\ Numbers(r2, S)
  BY <1>2, <1>3 DEF Numbers
<1>5. /\ SumFunctionOnSet(f, S) <= SumFunctionOnSet(f2, S)
      /\ SumFunctionOnSet(r2, S) <= SumFunctionOnSet(r, S)
  BY <1>3, <1>4, SumGrows
<1> QED BY <1>1, <1>5 DEF FilledIn, ReachIn, f, f2, r, r2, S

\* Once all its orders have ended, a leg has come to what it can come to.
LEMMA SumsOfEnded ==
    ASSUME NEW os \in Seq(OrderRows), AllEnded(os), NEW leg, NEW purpose
    PROVE  ReachIn(os, leg, purpose) = FilledIn(os, leg, purpose)
<1>1. ASSUME NEW i \in DOMAIN os PROVE Reach(os[i]) = os[i].filled
  BY DEF AllEnded, Reach, Ended, OpenOrder, Uncertain
<1>2. [i \in DOMAIN os |-> Reach(os[i])] = [i \in DOMAIN os |-> os[i].filled]
  BY <1>1
<1> QED BY <1>2 DEF ReachIn, FilledIn

---------------------------------------------------------------------------
(* What the model's operators are for the rows of a task *)

\* What the model sums over the rows of a leg and purpose.
LEMMA FilledIsSum ==
    ASSUME NEW t, NEW leg, NEW purpose
    PROVE  /\ Filled(t, leg, purpose) = FilledIn(orders[t], leg, purpose)
           /\ Got(t, leg, purpose) = GotIn(orders[t], exch[t], leg, purpose)
<1>1. OfPurpose(t, leg, purpose) = Of(orders[t], leg, purpose)
  BY DEF OfPurpose, OfLeg, Of
<1> QED BY <1>1 DEF Filled, Got, FilledIn, GotIn

\* The open order of a task is its last one.
LEMMA CurrentIsLast ==
    ASSUME NEW t, orders[t] \in Seq(OrderRows), Rows(orders[t], exch[t]), Active(t)
    PROVE  /\ Current(t) = Last(t) /\ Last(t) \in DOMAIN orders[t]
           /\ orders[t][Last(t)].status \in OpenOrder
<1>1. ASSUME NEW i \in DOMAIN orders[t], orders[t][i].status \in OpenOrder
      PROVE  i = Last(t)
  <2>1. orders[t][i].status \notin Ended
    BY <1>1 DEF OpenOrder, Uncertain, Ended
  <2>2. ~ (i < Len(orders[t]))
    BY <2>1 DEF Rows
  <2>3. i \in 1..Len(orders[t]) /\ Len(orders[t]) \in Nat
    OBVIOUS
  <2> QED BY <2>2, <2>3 DEF Last
<1>2. PICK i \in DOMAIN orders[t] : orders[t][i].status \in OpenOrder
  BY DEF Active
<1>3. i = Last(t)
  BY <1>1, <1>2
<1>4. i <= i
  BY <1>2
<1>5. /\ Current(t) \in DOMAIN orders[t]
      /\ orders[t][Current(t)].status \in OpenOrder
  <2>1. ASSUME NEW j \in DOMAIN orders[t], orders[t][j].status \in OpenOrder
        PROVE  i <= j
    BY <1>1, <1>3, <1>4, <2>1
  <2> QED BY <1>2, <2>1 DEF Current
<1> QED BY <1>1, <1>2, <1>3, <1>5

\* Without an open order, all orders of the task have ended.
LEMMA InactiveHasEnded ==
    ASSUME NEW t, orders[t] \in Seq(OrderRows), ~ Active(t)
    PROVE  AllEnded(orders[t])
<1> SUFFICES ASSUME NEW i \in DOMAIN orders[t] PROVE orders[t][i].status \in Ended
  BY DEF AllEnded
<1>1. orders[t][i] \in OrderRows
  OBVIOUS
<1>2. orders[t][i].status \in OpenOrder \cup Ended
  BY <1>1 DEF OrderRows
<1> QED BY <1>2 DEF Active

---------------------------------------------------------------------------
(* The greatest of some numbers, and rounding *)

\* Numbers with a bound have a greatest one.
LEMMA GreatestNumber ==
    ASSUME NEW S \in SUBSET Nat, S # {}, NEW bound \in Nat, \A x \in S : x <= bound
    PROVE  Max(S) \in S /\ \A x \in S : x <= Max(S)
<1> DEFINE B == {n \in Nat : \A x \in S : x <= n}
<1>1. PICK n \in B : \A m \in B : n <= m
  <2>1. bound \in B
    OBVIOUS
  <2> QED BY <2>1, LeastNumber
<1>2. n \in Nat /\ \A x \in S : x <= n
  BY <1>1
<1>3. n \in S
  <2> SUFFICES ASSUME n \notin S PROVE FALSE
    OBVIOUS
  <2>1. \A x \in S : x \in Nat /\ x < n
    BY <1>2
  <2>2. n - 1 \in Nat
    <3>1. PICK x : x \in S
      OBVIOUS
    <3> QED BY <1>2, <2>1, <3>1
  <2>3. ASSUME NEW x \in S PROVE x <= n - 1
    <3>1. x \in Nat /\ x < n
      BY <2>1
    <3> QED BY <1>2, <3>1
  <2>4. n - 1 \in B
    BY <2>2, <2>3
  <2>5. n <= n - 1
    BY <1>1, <2>4
  <2> QED BY <1>2, <2>5
<1>4. \E x \in S : \A y \in S : x >= y
  BY <1>2, <1>3
<1>5. Max(S) \in S /\ \A y \in S : Max(S) >= y
  BY <1>4 DEF Max
<1> QED BY <1>5

\* The bound of the hedges' waiting.
LEMMA WaitedFor ==
    ASSUME NEW n \in Nat
    PROVE  /\ Max({n - 1, 0}) \in Nat
           /\ \A k \in Nat : k < n => k <= Max({n - 1, 0})
<1>1. CASE n = 0
  <2>1. \A x \in {n - 1, 0} : 0 >= x
    BY <1>1
  <2>2. Max({n - 1, 0}) = 0
    BY <1>1, <2>1 DEF Max
  <2> QED BY <1>1, <2>2
<1>2. CASE n # 0
  <2>1. n - 1 \in Nat /\ {n - 1, 0} \subseteq Nat /\ \A x \in {n - 1, 0} : x <= n
    BY <1>2
  <2>2. Max({n - 1, 0}) \in {n - 1, 0} /\ \A x \in {n - 1, 0} : x <= Max({n - 1, 0})
    BY <2>1, GreatestNumber
  <2> DEFINE m == Max({n - 1, 0})
  <2>3. m \in Nat /\ n - 1 <= m
    BY <2>1, <2>2
  <2> HIDE DEF m
  <2>4. \A k \in Nat : k < n => k <= m
    BY <2>1, <2>3
  <2> QED BY <2>3, <2>4 DEF m
<1> QED BY <1>1, <1>2

\* quote_order never rounds up.
LEMMA GridBounds ==
    ASSUME NEW leg \in Legs, NEW number \in Nat, NEW scale \in Nat \ {0}
    PROVE  /\ OnGrid(leg, number, scale) \in Nat
           /\ OnGrid(leg, number, scale) * scale <= number
<1> DEFINE inc == Increment[leg]
           q == number \div scale
           p == q \div inc
<1>1. inc \in Nat \ {0}
  BY MultiLegAssumption
<1> HIDE DEF inc
<1>2. q \in Nat /\ q * scale <= number
  OBVIOUS
<1> HIDE DEF q
<1>3. p \in Nat /\ p * inc <= q
  BY <1>1, <1>2
<1> HIDE DEF p
<1>4. p * inc \in Nat
  BY <1>1, <1>3
<1>5. (p * inc) * scale <= q * scale
  <2> DEFINE g == p * inc
  <2>1. g \in Nat /\ g <= q
    BY <1>3, <1>4
  <2> HIDE DEF g
  <2>2. q - g \in Nat
    BY <1>2, <2>1
  <2>3. (q - g) * scale \in Nat
    BY <2>2
  <2>4. (q - g) * scale = q * scale - g * scale
    BY <1>2, <2>1
  <2>5. g * scale \in Nat /\ q * scale \in Nat
    BY <1>2, <2>1
  <2>6. g * scale <= q * scale
    BY <2>3, <2>4, <2>5
  <2> QED BY <2>6 DEF g
<1>6. OnGrid(leg, number, scale) = p * inc
  BY DEF OnGrid, p, q, inc
<1>7. (p * inc) * scale \in Nat /\ q * scale \in Nat
  BY <1>2, <1>4
<1> HIDE DEF p
<1> QED BY <1>2, <1>4, <1>5, <1>6, <1>7

\* A chunk is no more than what is missing, nor than one order.
LEMMA ChunkBounds ==
    ASSUME NEW leg \in Legs, NEW number \in Nat, NEW scale \in Nat \ {0}
    PROVE  /\ Chunk(leg, number, scale) \in Nat
           /\ Chunk(leg, number, scale) * scale <= number
           /\ scale = 1 /\ number <= Target[leg] =>
                 Chunk(leg, number, scale) <= OneOrder(leg)
<1> DEFINE n == IF PerOrder[leg] > 0 /\ PerOrder[leg] * scale < number
                THEN PerOrder[leg] * scale ELSE number
<1>1. PerOrder[leg] \in Nat /\ Target[leg] \in Nat
  BY MultiLegAssumption
<1>2. n \in Nat /\ n <= number
  <2>1. PerOrder[leg] * scale \in Nat
    BY <1>1
  <2> QED BY <2>1
<1>3. scale = 1 /\ number <= Target[leg] => n <= OneOrder(leg)
  BY <1>1 DEF OneOrder
<1>4. OneOrder(leg) \in Nat
  BY <1>1 DEF OneOrder
<1> HIDE DEF n
<1> DEFINE c == OnGrid(leg, n, scale)
<1>5. c \in Nat /\ c * scale <= n
  BY <1>2, GridBounds
<1>6. Chunk(leg, number, scale) = c
  BY DEF Chunk, n
<1> HIDE DEF c
<1>7. c * scale \in Nat /\ (scale = 1 => c * scale = c)
  BY <1>5
<1> QED BY <1>2, <1>3, <1>4, <1>5, <1>6, <1>7

\* A product of natural numbers is one.
LEMMA ProductIsNatural ==
    ASSUME NEW a \in Nat, NEW b \in Nat
    PROVE  a * b \in Nat
OBVIOUS

\* A product grows with its factor,
LEMMA ProductGrows ==
    ASSUME NEW a \in Int, NEW b \in Int, NEW c \in Nat, a <= b
    PROVE  a * c <= b * c
<1>1. b - a \in Nat
  OBVIOUS
<1>2. (b - a) * c \in Nat
  BY <1>1
<1>3. (b - a) * c = b * c - a * c /\ a * c \in Int /\ b * c \in Int
  OBVIOUS
<1> QED BY <1>2, <1>3

\* ... and shows which of two factors is greater.
LEMMA ProductCompares ==
    ASSUME NEW a \in Int, NEW b \in Int, NEW c \in Nat \ {0}, a * c <= b * c
    PROVE  a <= b
<1> SUFFICES ASSUME b < a PROVE FALSE
  OBVIOUS
<1>1. (a - b) - 1 \in Nat
  OBVIOUS
<1>2. ((a - b) - 1) * c \in Nat
  BY <1>1
<1>3. ((a - b) - 1) * c = (a * c - b * c) - c /\ a * c \in Int /\ b * c \in Int
  OBVIOUS
<1> QED BY <1>2, <1>3

---------------------------------------------------------------------------
(* The next order *)

\* The attempts of a leg are counted from its rows.
LEMMA AttemptIsNumber ==
    ASSUME NEW t, NEW leg, orders[t] \in Seq(OrderRows)
    PROVE  /\ Attempts(t, leg) \in Nat
           /\ LatestOf(t, leg) # 0 => LatestOf(t, leg) \in DOMAIN orders[t]
<1> DEFINE D == DOMAIN orders[t]
           f == [i \in D |-> orders[t][i].attempt]
           S == {0} \cup {orders[t][i].attempt : i \in OfLeg(t, leg)}
           total == SumFunctionOnSet(f, D)
<1>1. D = 1..Len(orders[t]) /\ Len(orders[t]) \in Nat /\ OfLeg(t, leg) \subseteq D
  BY DEF OfLeg
<1>2. IsFiniteSet(D)
  BY <1>1, FS_Interval
<1>3. \A i \in D : f[i] = orders[t][i].attempt /\ f[i] \in Nat
  <2> SUFFICES ASSUME NEW i \in D PROVE f[i] = orders[t][i].attempt /\ f[i] \in Nat
    OBVIOUS
  <2>1. orders[t][i] \in OrderRows
    OBVIOUS
  <2> QED BY <2>1 DEF OrderRows
<1> HIDE DEF f, D
<1>4. total \in Nat /\ \A i \in D : f[i] <= total
  BY <1>2, <1>3, SumOfNaturals
<1> HIDE DEF total
<1>5. S \subseteq Nat /\ S # {} /\ \A x \in S : x <= total
  BY <1>1, <1>3, <1>4
<1>6. Max(S) \in Nat
  <2> HIDE DEF S
  <2> QED BY <1>4, <1>5, GreatestNumber
<1>7. ASSUME LatestOf(t, leg) # 0 PROVE LatestOf(t, leg) \in D
  <2> DEFINE O == OfLeg(t, leg)
  <2>1. O # {} /\ LatestOf(t, leg) = Max(O)
    BY <1>7 DEF LatestOf
  <2>2. O \subseteq Nat /\ \A x \in O : x <= Len(orders[t])
    BY <1>1
  <2> HIDE DEF O
  <2>3. Max(O) \in O
    BY <1>1, <2>1, <2>2, GreatestNumber
  <2> QED BY <1>1, <2>1, <2>3 DEF O
<1> QED BY <1>6, <1>7 DEF Attempts, D

\* The row that _create_next_order creates.
LEMMA NewOrderIsRow ==
    ASSUME NEW t, NEW leg \in Legs, NEW quantity \in Nat, orders[t] \in Seq(OrderRows)
    PROVE  LET o == NewOrder(t, leg, quantity)
           IN  /\ o \in OrderRows /\ o.leg = leg /\ o.purpose = "primary"
               /\ o.status = "created" /\ o.quantity = quantity /\ o.filled = 0
<1> DEFINE i == LatestOf(t, leg)
<1>1. Attempts(t, leg) \in Nat /\ (i # 0 => i \in DOMAIN orders[t])
  BY AttemptIsNumber
<1>2. ChaseParent(t, leg) =>
         orders[t][i].attempt \in Nat /\ orders[t][i].chase \in Nat
  <2> SUFFICES ASSUME ChaseParent(t, leg)
               PROVE  orders[t][i].attempt \in Nat /\ orders[t][i].chase \in Nat
    OBVIOUS
  <2>1. i # 0
    BY DEF ChaseParent
  <2>2. orders[t][i] \in OrderRows
    BY <1>1, <2>1
  <2> QED BY <2>2 DEF OrderRows
<1> DEFINE o == NewOrder(t, leg, quantity)
           mode == o.mode
           attempt == o.attempt
           chase == o.chase
<1>3. o = [leg |-> leg, purpose |-> "primary", mode |-> mode, status |-> "created",
           quantity |-> quantity, filled |-> 0, attempt |-> attempt, chase |-> chase]
  BY DEF NewOrder
<1>4. mode \in {"maker", "ioc"} /\ attempt \in Nat /\ chase \in Nat
  <2>1. mode \in {"maker", "ioc"}
    BY DEF NewOrder
  <2>2. attempt = IF ChaseParent(t, leg) THEN orders[t][i].attempt
                  ELSE Attempts(t, leg) + 1
    BY DEF NewOrder
  <2>3. chase = IF ChaseParent(t, leg) THEN orders[t][i].chase + 1 ELSE 0
    BY DEF NewOrder
  <2> HIDE DEF i, mode, attempt, chase
  <2> QED BY <1>1, <1>2, <2>1, <2>2, <2>3
<1> HIDE DEF o, i, mode, attempt, chase
<1>5. o \in OrderRows
  BY <1>3, <1>4 DEF OrderRows, OpenOrder
<1> QED BY <1>3, <1>5 DEF o

\* Where the next order goes, and what it may come to: the anchor's is one
\* order and no more than it lacks, a hedge's no more than its share lacks.
LEMMA NextOrderBounds ==
    ASSUME NEW t, orders[t] \in Seq(OrderRows), exch[t] \in Seq(ExchRows),
           Rows(orders[t], exch[t]), Budget(orders[t]), AllEnded(orders[t])
    PROVE  /\ NextLeg(t) \in Legs /\ NextQuantity(t) \in Nat
           /\ NextLeg(t) = Anchor =>
                 /\ Behind(t) = {}
                 /\ NextQuantity(t) <= OneOrder(Anchor)
                 /\ FilledIn(orders[t], Anchor, "primary") + NextQuantity(t)
                       <= Target[Anchor]
           /\ NextLeg(t) # Anchor =>
                 /\ NextLeg(t) \in Hedges
                 /\ NextQuantity(t) * Target[Anchor] <= Deficit(t, NextLeg(t))
<1> DEFINE F(leg) == FilledIn(orders[t], leg, "primary")
           q == NextQuantity(t)
           n == NextLeg(t)
<1>1. \A leg \in Legs : F(leg) \in Nat /\ F(leg) <= Target[leg]
  <2> SUFFICES ASSUME NEW leg \in Legs PROVE F(leg) \in Nat /\ F(leg) <= Target[leg]
    OBVIOUS
  <2>1. F(leg) \in Nat /\ ReachIn(orders[t], leg, "primary") = F(leg)
    BY SumsOfRows, SumsOfEnded
  <2> QED BY <2>1 DEF Budget
<1>2. \A leg : Filled(t, leg, "primary") = F(leg)
  BY FilledIsSum
<1> HIDE DEF F
<1>3. Anchor \in Legs /\ Target \in [Legs -> Nat \ {0}]
  BY MultiLegAssumption
<1>4. \A leg \in Legs : Deficit(t, leg) = F(Anchor) * Target[leg] - F(leg) * Target[Anchor]
                        /\ Deficit(t, leg) \in Int
  BY <1>1, <1>2, <1>3 DEF Deficit
<1>5. Behind(t) \subseteq Hedges /\ \A leg \in Behind(t) : Deficit(t, leg) > 0
  BY DEF Behind
<1>6. CASE Behind(t) = {}
  <2>1. n = Anchor /\ AnchorRemaining(t) = Target[Anchor] - F(Anchor)
    BY <1>2, <1>6 DEF NextLeg, AnchorRemaining
  <2> DEFINE r == AnchorRemaining(t)
  <2>2. r \in Nat /\ r <= Target[Anchor] /\ F(Anchor) + r = Target[Anchor]
        /\ F(Anchor) \in Nat /\ Target[Anchor] \in Nat
    BY <1>1, <1>3, <2>1
  <2> HIDE DEF r
  <2>3. q = Chunk(Anchor, r, 1)
    BY <2>1 DEF NextQuantity, r
  <2>4. q \in Nat /\ q * 1 <= r /\ q <= OneOrder(Anchor)
    BY <1>3, <2>2, <2>3, ChunkBounds
  <2> HIDE DEF q
  <2> QED BY <1>3, <1>6, <2>1, <2>2, <2>4 DEF q, F
<1>7. CASE Behind(t) # {}
  <2>1. n \in Behind(t)
    <3>1. Behind(t) \subseteq Nat
      BY <1>5 DEF Hedges, Legs
    <3>2. \E leg \in Behind(t) : \A l \in Behind(t) : leg <= l
      BY <1>7, <3>1, LeastNumber
    <3> QED BY <1>7, <3>2 DEF NextLeg
  <2>2. n \in Hedges /\ n \in Legs /\ n # Anchor
    BY <1>5, <2>1 DEF Hedges
  <2> HIDE DEF n
  <2> DEFINE d == Deficit(t, n)
  <2>3. d \in Nat
    <3>1. d \in Int /\ d > 0
      BY <1>4, <1>5, <2>1, <2>2
    <3> HIDE DEF d
    <3> QED BY <3>1
  <2> HIDE DEF d
  <2>4. q = Chunk(n, d, Target[Anchor])
    BY <2>2 DEF NextQuantity, d, n
  <2>5. q \in Nat /\ q * Target[Anchor] <= d
    BY <1>3, <2>2, <2>3, <2>4, ChunkBounds
  <2> QED BY <2>2, <2>5 DEF d, n
<1> QED BY <1>6, <1>7

---------------------------------------------------------------------------
(* What one step makes of the rows of a task *)

\* A new order is the only open one.
LEMMA RowAdded ==
    ASSUME NEW os \in Seq(OrderRows), NEW xs \in Seq(ExchRows), Rows(os, xs), AllEnded(os),
           NEW o \in OrderRows, o.status = "created", o.filled = 0, 0 < o.quantity
    PROVE  LET os2 == Append(os, o)
               xs2 == Append(xs, [at |-> "none", got |-> 0])
           IN  os2 \in Seq(OrderRows) /\ xs2 \in Seq(ExchRows) /\ Rows(os2, xs2)
<1> DEFINE x == [at |-> "none", got |-> 0]
           os2 == Append(os, o)
           xs2 == Append(xs, x)
           n == Len(os) + 1
<1>1. x \in ExchRows /\ Matches(o, x)
  <2>1. o.quantity \in Nat
    BY DEF OrderRows
  <2> QED BY <2>1 DEF ExchRows, Matches, Ended, Uncertain
<1>2. Len(xs) = Len(os) /\ Len(os) \in Nat
  BY DEF Rows
<1> HIDE DEF x
<1>3. /\ os2 \in Seq(OrderRows) /\ xs2 \in Seq(ExchRows)
      /\ DOMAIN os2 = DOMAIN os \cup {n} /\ DOMAIN xs2 = DOMAIN os2 /\ Len(os2) = n
      /\ os2[n] = o /\ xs2[n] = x
      /\ \A i \in DOMAIN os : os2[i] = os[i] /\ xs2[i] = xs[i]
  BY <1>1, <1>2
<1> HIDE DEF os2, xs2
<1>4. \A i \in DOMAIN os2 : Matches(os2[i], xs2[i])
  BY <1>1, <1>3 DEF Rows
<1>5. ASSUME NEW i \in DOMAIN os2, i < Len(os2) PROVE os2[i].status \in Ended
  <2>1. i # n
    BY <1>2, <1>3, <1>5
  <2>2. i \in DOMAIN os /\ os2[i] = os[i]
    BY <1>3, <2>1
  <2> QED BY <2>2 DEF AllEnded
<1>6. Rows(os2, xs2)
  BY <1>3, <1>4, <1>5 DEF Rows
<1> QED BY <1>3, <1>6 DEF os2, xs2, x

\* An order of a leg that is filled completely would still be within the target
\* and the pace.
LEMMA PrimaryAdded ==
    ASSUME NEW t, orders[t] \in Seq(OrderRows), exch[t] \in Seq(ExchRows),
           Rows(orders[t], exch[t]), Budget(orders[t]), Paced(orders[t]),
           AllEnded(orders[t]), NEW o \in OrderRows, o.status = "created", o.filled = 0,
           o.leg = NextLeg(t), o.purpose = "primary", o.quantity = NextQuantity(t)
    PROVE  Budget(Append(orders[t], o)) /\ Paced(Append(orders[t], o))
<1> DEFINE os == orders[t]
           os2 == Append(os, o)
           n == NextLeg(t)
           q == NextQuantity(t)
           F(leg) == FilledIn(os, leg, "primary")
           C(leg) == FilledIn(os, leg, "compensation")
           T(leg) == Target[leg]
           W == Max({HedgeFrom - 1, 0})
           O == OneOrder(Anchor)
<1>1. \A leg \in Legs :
         /\ F(leg) \in Nat /\ C(leg) \in Nat
         /\ ReachIn(os, leg, "primary") = F(leg) /\ ReachIn(os, leg, "compensation") = C(leg)
         /\ F(leg) <= T(leg) /\ C(leg) <= F(leg)
  <2> SUFFICES ASSUME NEW leg \in Legs
               PROVE  /\ F(leg) \in Nat /\ C(leg) \in Nat
                      /\ ReachIn(os, leg, "primary") = F(leg)
                      /\ ReachIn(os, leg, "compensation") = C(leg)
                      /\ F(leg) <= T(leg) /\ C(leg) <= F(leg)
    OBVIOUS
  <2>1. /\ F(leg) \in Nat /\ ReachIn(os, leg, "primary") = F(leg)
        /\ C(leg) \in Nat /\ ReachIn(os, leg, "compensation") = C(leg)
    BY SumsOfRows, SumsOfEnded
  <2> QED BY <2>1 DEF Budget
<1>2. \A leg \in Legs :
         /\ FilledIn(os2, leg, "primary") = F(leg)
         /\ FilledIn(os2, leg, "compensation") = C(leg)
         /\ ReachIn(os2, leg, "primary") = F(leg) + IF leg = n THEN q ELSE 0
         /\ ReachIn(os2, leg, "compensation") = C(leg)
  <2> SUFFICES ASSUME NEW leg \in Legs
               PROVE  /\ FilledIn(os2, leg, "primary") = F(leg)
                      /\ FilledIn(os2, leg, "compensation") = C(leg)
                      /\ ReachIn(os2, leg, "primary") = F(leg) + IF leg = n THEN q ELSE 0
                      /\ ReachIn(os2, leg, "compensation") = C(leg)
    OBVIOUS
  <2>1. /\ FilledIn(os2, leg, "primary") = F(leg)
        /\ ReachIn(os2, leg, "primary") =
              ReachIn(os, leg, "primary")
                 + IF o.leg = leg /\ o.purpose = "primary" THEN o.quantity ELSE 0
    BY SumsOfAppended
  <2>2. /\ FilledIn(os2, leg, "compensation") = C(leg)
        /\ ReachIn(os2, leg, "compensation") =
              ReachIn(os, leg, "compensation")
                 + IF o.leg = leg /\ o.purpose = "compensation" THEN o.quantity ELSE 0
    BY SumsOfAppended
  <2> HIDE DEF F, C, os, os2, n, q
  <2>3. o.leg = n /\ o.purpose = "primary" /\ o.quantity = q
    BY DEF n, q
  <2> QED BY <1>1, <2>1, <2>2, <2>3
<1>3. /\ n \in Legs /\ q \in Nat
      /\ n = Anchor => Behind(t) = {} /\ q <= O /\ F(Anchor) + q <= T(Anchor)
      /\ n # Anchor => n \in Hedges /\ q * T(Anchor) <= Deficit(t, n)
  BY NextOrderBounds
<1>4. \A leg \in Legs : Deficit(t, leg) = F(Anchor) * T(leg) - F(leg) * T(Anchor)
  BY FilledIsSum DEF Deficit
<1>5. /\ \A leg \in Legs : T(leg) \in Nat \ {0}
      /\ Anchor \in Legs /\ Hedges = Legs \ {Anchor}
      /\ W \in Nat /\ \A k \in Nat : k < HedgeFrom => k <= W
      /\ O \in Nat /\ HedgeFrom \in Nat
  <2>1. HedgeFrom \in Nat
    BY MultiLegAssumption
  <2>2. O \in Nat
    BY MultiLegAssumption DEF OneOrder
  <2> QED BY <2>1, <2>2, WaitedFor, MultiLegAssumption DEF Hedges
<1>6. Waiting(t) <=> F(Anchor) < HedgeFrom
  BY FilledIsSum DEF Waiting
<1>7. \A leg \in Hedges : F(leg) * T(Anchor) <= F(Anchor) * T(leg)
  <2>1. \A leg \in Hedges : ReachIn(os, leg, "primary") * T(Anchor) <= F(Anchor) * T(leg)
    BY DEF Paced
  <2> HIDE DEF os, F, T
  <2> QED BY <1>1, <1>5, <2>1
<1>8. \A leg \in Hedges :
         F(Anchor) * T(leg) - F(leg) * T(Anchor) <= (W + O) * T(leg)
  <2>1. \A leg \in Hedges :
           ReachIn(os, Anchor, "primary") * T(leg) - F(leg) * T(Anchor) <= (W + O) * T(leg)
    BY DEF Paced
  <2> HIDE DEF os, F, T, W, O
  <2> QED BY <1>1, <1>5, <2>1
<1> HIDE DEF os, os2, n, q, F, C, T, W, O
\* A hedge that needs a further order stays within its share.
<1>9. ASSUME n # Anchor
      PROVE  (F(n) + q) * T(Anchor) <= F(Anchor) * T(n)
  <2>1. q * T(Anchor) <= F(Anchor) * T(n) - F(n) * T(Anchor) /\ n \in Legs
    BY <1>3, <1>4, <1>9
  <2>2. /\ F(n) \in Nat /\ F(Anchor) \in Nat /\ T(n) \in Nat /\ T(Anchor) \in Nat
    BY <1>1, <1>5, <2>1
  <2>3. (F(n) + q) * T(Anchor) = F(n) * T(Anchor) + q * T(Anchor)
    BY <1>3, <2>2
  <2>4. /\ F(n) * T(Anchor) \in Nat /\ q * T(Anchor) \in Nat /\ F(Anchor) * T(n) \in Nat
    BY <1>3, <2>2
  <2> QED BY <2>1, <2>3, <2>4
<1>10. ASSUME n # Anchor PROVE F(n) + q <= T(n)
  <2>1. /\ F(n) \in Nat /\ F(Anchor) \in Nat /\ T(n) \in Nat /\ T(Anchor) \in Nat \ {0}
        /\ F(Anchor) <= T(Anchor)
    BY <1>1, <1>3, <1>5
  <2>2. F(Anchor) * T(n) <= T(Anchor) * T(n)
    <3>1. F(Anchor) \in Int /\ T(Anchor) \in Int
      BY <2>1
    <3> QED BY <2>1, <3>1, ProductGrows
  <2>3. T(Anchor) * T(n) = T(n) * T(Anchor) /\ T(Anchor) * T(n) \in Nat
        /\ F(Anchor) * T(n) \in Nat /\ F(n) + q \in Nat /\ (F(n) + q) * T(Anchor) \in Nat
    BY <1>3, <2>1
  <2>4. (F(n) + q) * T(Anchor) <= T(n) * T(Anchor)
    BY <1>9, <1>10, <2>2, <2>3
  <2> QED BY <2>1, <2>3, <2>4, ProductCompares
<1>11. Budget(os2)
  <2> SUFFICES ASSUME NEW leg \in Legs
               PROVE  /\ ReachIn(os2, leg, "primary") <= T(leg)
                      /\ ReachIn(os2, leg, "compensation") <= FilledIn(os2, leg, "primary")
    BY DEF Budget, T
  <2>1. ReachIn(os2, leg, "compensation") <= FilledIn(os2, leg, "primary")
    BY <1>1, <1>2
  <2>2. CASE leg # n
    BY <1>1, <1>2, <2>1, <2>2
  <2>3. CASE leg = n /\ n = Anchor
    BY <1>2, <1>3, <2>1, <2>3
  <2>4. CASE leg = n /\ n # Anchor
    BY <1>2, <1>10, <2>1, <2>4
  <2> QED BY <2>2, <2>3, <2>4
<1>12. Paced(os2)
  <2> SUFFICES ASSUME NEW leg \in Hedges
               PROVE  /\ ReachIn(os2, leg, "primary") * T(Anchor)
                           <= FilledIn(os2, Anchor, "primary") * T(leg)
                      /\ ReachIn(os2, Anchor, "primary") * T(leg)
                           - FilledIn(os2, leg, "primary") * T(Anchor)
                           <= (W + O) * T(leg)
    BY DEF Paced, T, W, O
  <2>1. /\ leg \in Legs /\ leg # Anchor /\ Anchor \in Legs
        /\ F(leg) \in Nat /\ F(Anchor) \in Nat /\ T(leg) \in Nat /\ T(Anchor) \in Nat
        /\ W \in Nat /\ O \in Nat /\ q \in Nat
    BY <1>1, <1>3, <1>5
  <2>2. FilledIn(os2, Anchor, "primary") = F(Anchor) /\ FilledIn(os2, leg, "primary") = F(leg)
    BY <1>2, <2>1
  <2>3. ReachIn(os2, leg, "primary") * T(Anchor) <= F(Anchor) * T(leg)
    <3>1. CASE leg = n
      <4>1. ReachIn(os2, leg, "primary") = F(n) + q
        BY <1>2, <2>1, <3>1
      <4> QED BY <1>9, <2>1, <3>1, <4>1
    <3>2. CASE leg # n
      <4>1. ReachIn(os2, leg, "primary") = F(leg)
        BY <1>2, <2>1, <3>2
      <4> QED BY <1>7, <4>1
    <3> QED BY <3>1, <3>2
  <2>4. ReachIn(os2, Anchor, "primary") * T(leg) - F(leg) * T(Anchor) <= (W + O) * T(leg)
    <3>1. CASE n # Anchor
      <4>1. ReachIn(os2, Anchor, "primary") = F(Anchor)
        BY <1>2, <2>1, <3>1
      <4> QED BY <1>8, <4>1
    <3>2. CASE n = Anchor
      <4>1. ReachIn(os2, Anchor, "primary") = F(Anchor) + q
        BY <1>2, <2>1, <3>2
      <4>2. Behind(t) = {} /\ q <= O
        BY <1>3, <3>2
      <4>3. q * T(leg) <= O * T(leg)
        <5>1. q \in Int /\ O \in Int /\ T(leg) \in Nat /\ q <= O
          BY <2>1, <4>2
        <5> QED BY <5>1, ProductGrows
      <4>4. /\ (F(Anchor) + q) * T(leg) = F(Anchor) * T(leg) + q * T(leg)
            /\ (W + O) * T(leg) = W * T(leg) + O * T(leg)
        BY <2>1
      <4>5. /\ F(Anchor) * T(leg) \in Nat /\ q * T(leg) \in Nat /\ W * T(leg) \in Nat
            /\ O * T(leg) \in Nat /\ F(leg) * T(Anchor) \in Nat
        BY <2>1, ProductIsNatural
      <4>6. F(Anchor) * T(leg) - F(leg) * T(Anchor) <= W * T(leg)
        <5>1. CASE Waiting(t)
          <6>1. F(Anchor) <= W
            BY <1>5, <1>6, <2>1, <5>1
          <6>2. F(Anchor) * T(leg) <= W * T(leg)
            <7>1. F(Anchor) \in Int /\ W \in Int /\ T(leg) \in Nat
              BY <2>1
            <7> QED BY <6>1, <7>1, ProductGrows
          <6> QED BY <4>5, <6>2
        <5>2. CASE ~ Waiting(t)
          <6>1. ~ (Deficit(t, leg) > 0)
            BY <4>2, <5>2 DEF Behind
          <6>2. Deficit(t, leg) = F(Anchor) * T(leg) - F(leg) * T(Anchor)
            BY <1>4, <2>1
          <6> QED BY <4>5, <6>1, <6>2
        <5> QED BY <5>1, <5>2
      <4> QED BY <4>1, <4>3, <4>4, <4>5, <4>6
    <3> QED BY <3>1, <3>2
  <2> QED BY <2>2, <2>3, <2>4
<1> QED BY <1>11, <1>12 DEF os, os2

\* A compensating order is no more than what is left to trade back.
LEMMA CompensationAdded ==
    ASSUME NEW os \in Seq(OrderRows), NEW xs \in Seq(ExchRows), Rows(os, xs),
           Budget(os), AllEnded(os), NEW o \in OrderRows, o.status = "created",
           o.filled = 0, o.purpose = "compensation",
           o.quantity <= FilledIn(os, o.leg, "primary") - FilledIn(os, o.leg, "compensation")
    PROVE  Budget(Append(os, o)) /\ (Paced(os) => Paced(Append(os, o)))
<1> DEFINE os2 == Append(os, o)
           F(leg) == FilledIn(os, leg, "primary")
           C(leg) == FilledIn(os, leg, "compensation")
<1>1. ASSUME NEW leg \in Legs
      PROVE  /\ F(leg) \in Nat /\ C(leg) \in Nat
             /\ ReachIn(os, leg, "primary") = F(leg)
             /\ ReachIn(os, leg, "compensation") = C(leg)
  BY SumsOfRows, SumsOfEnded
<1>2. ASSUME NEW leg \in Legs
      PROVE  /\ FilledIn(os2, leg, "primary") = F(leg)
             /\ ReachIn(os2, leg, "primary") = F(leg)
             /\ ReachIn(os2, leg, "compensation") =
                   C(leg) + IF o.leg = leg THEN o.quantity ELSE 0
  <2>1. /\ FilledIn(os2, leg, "primary") = F(leg)
        /\ ReachIn(os2, leg, "primary") =
              ReachIn(os, leg, "primary")
                 + IF o.leg = leg /\ o.purpose = "primary" THEN o.quantity ELSE 0
    BY SumsOfAppended
  <2>2. ReachIn(os2, leg, "compensation") =
           ReachIn(os, leg, "compensation")
              + IF o.leg = leg /\ o.purpose = "compensation" THEN o.quantity ELSE 0
    BY SumsOfAppended
  <2> HIDE DEF os2, F, C
  <2> QED BY <1>1, <2>1, <2>2
<1>3. Anchor \in Legs /\ o.leg \in Legs /\ o.quantity \in Nat
  BY MultiLegAssumption DEF OrderRows
<1>4. o.quantity <= F(o.leg) - C(o.leg)
  OBVIOUS
<1>5. \A leg \in Legs : ReachIn(os, leg, "primary") <= Target[leg] /\ C(leg) <= F(leg)
  BY <1>1 DEF Budget
<1> HIDE DEF os2, F, C
<1>6. Budget(os2)
  <2> SUFFICES ASSUME NEW leg \in Legs
               PROVE  /\ ReachIn(os2, leg, "primary") <= Target[leg]
                      /\ ReachIn(os2, leg, "compensation") <= FilledIn(os2, leg, "primary")
    BY DEF Budget
  <2>1. ReachIn(os2, leg, "primary") <= Target[leg]
    BY <1>1, <1>2, <1>5
  <2>2. ReachIn(os2, leg, "compensation") <= FilledIn(os2, leg, "primary")
    <3>1. CASE o.leg = leg
      BY <1>1, <1>2, <1>3, <1>4, <3>1
    <3>2. CASE o.leg # leg
      BY <1>1, <1>2, <1>5, <3>2
    <3> QED BY <3>1, <3>2
  <2> QED BY <2>1, <2>2
<1>7. ASSUME Paced(os) PROVE Paced(os2)
  <2>1. /\ Hedges \subseteq Legs
        /\ \A leg \in Legs : /\ ReachIn(os2, leg, "primary") = ReachIn(os, leg, "primary")
                             /\ FilledIn(os2, leg, "primary") = FilledIn(os, leg, "primary")
    BY <1>1, <1>2 DEF Hedges, F
  <2> QED BY <1>3, <1>7, <2>1 DEF Paced
<1> QED BY <1>6, <1>7 DEF os2

\* Rows that have no less filled, and no more to come, keep the targets and the
\* pace.
LEMMA BudgetKept ==
    ASSUME NEW os \in Seq(OrderRows), NEW os2 \in Seq(OrderRows), NEW xs \in Seq(ExchRows),
           Rows(os, xs), Rows(os2, xs), Budget(os),
           \A i \in DOMAIN os : /\ os2[i].leg = os[i].leg
                                /\ os2[i].purpose = os[i].purpose
                                /\ os[i].filled <= os2[i].filled
                                /\ Reach(os2[i]) <= Reach(os[i])
    PROVE  Budget(os2) /\ (Paced(os) => Paced(os2))
<1>1. DOMAIN os2 = DOMAIN os
  BY DEF Rows
<1>2. \A leg \in Legs : \A p \in {"primary", "compensation"} :
         /\ FilledIn(os, leg, p) \in Nat /\ FilledIn(os2, leg, p) \in Nat
         /\ ReachIn(os, leg, p) \in Nat /\ ReachIn(os2, leg, p) \in Nat
         /\ FilledIn(os, leg, p) <= FilledIn(os2, leg, p)
         /\ ReachIn(os2, leg, p) <= ReachIn(os, leg, p)
  BY <1>1, SumsOfRows, SumsOfChanged
<1>3. Target \in [Legs -> Nat \ {0}] /\ Anchor \in Legs
  BY MultiLegAssumption
<1>4. Budget(os2)
  <2> SUFFICES ASSUME NEW leg \in Legs
               PROVE  /\ ReachIn(os2, leg, "primary") <= Target[leg]
                      /\ ReachIn(os2, leg, "compensation") <= FilledIn(os2, leg, "primary")
    BY DEF Budget
  <2>1. /\ ReachIn(os, leg, "primary") <= Target[leg]
        /\ ReachIn(os, leg, "compensation") <= FilledIn(os, leg, "primary")
    BY DEF Budget
  <2>2. Target[leg] \in Nat
    BY <1>3
  <2> QED BY <1>2, <2>1, <2>2
<1>5. ASSUME Paced(os) PROVE Paced(os2)
  <2> SUFFICES ASSUME NEW leg \in Hedges
               PROVE  /\ ReachIn(os2, leg, "primary") * Target[Anchor]
                           <= FilledIn(os2, Anchor, "primary") * Target[leg]
                      /\ ReachIn(os2, Anchor, "primary") * Target[leg]
                           - FilledIn(os2, leg, "primary") * Target[Anchor]
                           <= (Max({HedgeFrom - 1, 0}) + OneOrder(Anchor)) * Target[leg]
    BY DEF Paced
  <2> DEFINE R(l) == ReachIn(os, l, "primary")
             R2(l) == ReachIn(os2, l, "primary")
             F(l) == FilledIn(os, l, "primary")
             F2(l) == FilledIn(os2, l, "primary")
             most == (Max({HedgeFrom - 1, 0}) + OneOrder(Anchor)) * Target[leg]
             T == Target[leg]
             A == Target[Anchor]
  <2>1. R(leg) * A <= F(Anchor) * T /\ R(Anchor) * T - F(leg) * A <= most
    BY <1>5 DEF Paced
  <2>2. leg \in Legs /\ T \in Nat /\ A \in Nat
    BY <1>3 DEF Hedges
  <2>3. most \in Int
    <3>1. HedgeFrom \in Nat /\ OneOrder(Anchor) \in Nat
      BY <1>3, MultiLegAssumption DEF OneOrder
    <3>2. Max({HedgeFrom - 1, 0}) \in Nat
      BY <3>1, WaitedFor
    <3> QED BY <2>2, <3>1, <3>2
  <2>4. \A l \in {leg, Anchor} :
           /\ R(l) \in Nat /\ R2(l) \in Nat /\ F(l) \in Nat /\ F2(l) \in Nat
           /\ R2(l) <= R(l) /\ F(l) <= F2(l)
    BY <1>2, <1>3, <2>2
  <2> HIDE DEF R, R2, F, F2, most, T, A
  <2>5. /\ R2(leg) * A <= R(leg) * A /\ F(Anchor) * T <= F2(Anchor) * T
        /\ R2(Anchor) * T <= R(Anchor) * T /\ F(leg) * A <= F2(leg) * A
    <3>1. /\ R2(leg) \in Int /\ R(leg) \in Int /\ F(Anchor) \in Int /\ F2(Anchor) \in Int
          /\ R2(Anchor) \in Int /\ R(Anchor) \in Int /\ F(leg) \in Int /\ F2(leg) \in Int
      BY <2>4
    <3> QED BY <2>2, <2>4, <3>1, ProductGrows
  <2>6. /\ R2(leg) * A \in Nat /\ R(leg) * A \in Nat /\ F(Anchor) * T \in Nat
        /\ F2(Anchor) * T \in Nat /\ R2(Anchor) * T \in Nat /\ R(Anchor) * T \in Nat
        /\ F(leg) * A \in Nat /\ F2(leg) * A \in Nat
    BY <2>2, <2>4, ProductIsNatural
  <2>7. R2(leg) * A <= F2(Anchor) * T /\ R2(Anchor) * T - F2(leg) * A <= most
    BY <2>1, <2>3, <2>5, <2>6
  <2> QED BY <2>7 DEF R2, F2, most, T, A
<1> QED BY <1>4, <1>5

\* The last order takes a new status, with the fills that were seen.
LEMMA RowChanged ==
    ASSUME NEW os \in Seq(OrderRows), NEW xs \in Seq(ExchRows), Rows(os, xs), Budget(os),
           NEW i \in DOMAIN os, i = Len(os), os[i].status \in OpenOrder,
           NEW o \in OrderRows, o.leg = os[i].leg, o.purpose = os[i].purpose,
           o.quantity = os[i].quantity, os[i].filled <= o.filled, Matches(o, xs[i])
    PROVE  LET os2 == [os EXCEPT ![i] = o]
           IN  /\ os2 \in Seq(OrderRows) /\ Rows(os2, xs) /\ Budget(os2)
               /\ Paced(os) => Paced(os2)
<1> DEFINE os2 == [os EXCEPT ![i] = o]
<1>1. /\ os2 \in Seq(OrderRows) /\ DOMAIN os2 = DOMAIN os /\ Len(os2) = Len(os)
      /\ os2[i] = o /\ \A j \in DOMAIN os : j # i => os2[j] = os[j]
  OBVIOUS
<1> HIDE DEF os2
<1>2. Rows(os2, xs)
  <2>1. DOMAIN xs = DOMAIN os2
    BY <1>1 DEF Rows
  <2>2. \A j \in DOMAIN os2 : Matches(os2[j], xs[j])
    BY <1>1 DEF Rows
  <2>3. \A j \in DOMAIN os2 : j < Len(os2) => os2[j].status \in Ended
    BY <1>1 DEF Rows
  <2> QED BY <2>1, <2>2, <2>3 DEF Rows
<1>3. \A j \in DOMAIN os : /\ os2[j].leg = os[j].leg /\ os2[j].purpose = os[j].purpose
                           /\ os[j].filled <= os2[j].filled
                           /\ Reach(os2[j]) <= Reach(os[j])
  <2> SUFFICES ASSUME NEW j \in DOMAIN os
               PROVE  /\ os2[j].leg = os[j].leg /\ os2[j].purpose = os[j].purpose
                      /\ os[j].filled <= os2[j].filled
                      /\ Reach(os2[j]) <= Reach(os[j])
    OBVIOUS
  <2>1. os[j].filled \in Nat /\ os[j].quantity \in Nat
    <3>1. os[j] \in OrderRows
      OBVIOUS
    <3> QED BY <3>1 DEF OrderRows
  <2>2. CASE j # i
    <3>1. os2[j] = os[j] /\ Reach(os[j]) \in Nat
      BY <1>1, <2>1, <2>2 DEF Reach
    <3> QED BY <2>1, <3>1
  <2>3. CASE j = i
    <3>1. os2[j] = o /\ Reach(os[j]) = o.quantity
      BY <1>1, <2>3 DEF Reach
    <3>2. xs[i] \in ExchRows
      <4>1. i \in DOMAIN xs
        BY DEF Rows
      <4> QED BY <4>1
    <3>3. o.filled <= o.quantity /\ o.filled \in Nat /\ o.quantity \in Nat
      <4>1. o.filled <= xs[i].got /\ xs[i].got <= o.quantity
        BY DEF Matches
      <4>2. o.filled \in Nat /\ o.quantity \in Nat /\ xs[i].got \in Nat
        BY <3>2 DEF OrderRows, ExchRows
      <4> QED BY <4>1, <4>2
    <3>4. Reach(o) <= o.quantity
      BY <3>3 DEF Reach
    <3> QED BY <2>3, <3>1, <3>4
  <2> QED BY <2>2, <2>3
<1>4. Budget(os2) /\ (Paced(os) => Paced(os2))
  BY <1>1, <1>2, <1>3, BudgetKept
<1> QED BY <1>1, <1>2, <1>4 DEF os2

\* An order moves on at the exchange.
LEMMA ExchangeChanged ==
    ASSUME NEW os \in Seq(OrderRows), NEW xs \in Seq(ExchRows), Rows(os, xs),
           NEW i \in DOMAIN xs, NEW x \in ExchRows, Matches(os[i], x)
    PROVE  LET xs2 == [xs EXCEPT ![i] = x]
           IN  xs2 \in Seq(ExchRows) /\ Rows(os, xs2)
<1> DEFINE xs2 == [xs EXCEPT ![i] = x]
<1>1. /\ xs2 \in Seq(ExchRows) /\ DOMAIN xs2 = DOMAIN xs
      /\ xs2[i] = x /\ \A j \in DOMAIN xs : j # i => xs2[j] = xs[j]
  OBVIOUS
<1> HIDE DEF xs2
<1>2. Rows(os, xs2)
  BY <1>1 DEF Rows
<1> QED BY <1>1, <1>2 DEF xs2

---------------------------------------------------------------------------
(* Steps of one task *)

\* What the invariant says of all tasks and their rows, without the worker.
TasksInv ==
    /\ tasks \in [Tasks -> TaskStatuses]
    /\ orders \in [Tasks -> Seq(OrderRows)]
    /\ exch \in [Tasks -> Seq(ExchRows)]
    /\ \A t \in Tasks : TaskInv(t, tasks[t], orders[t], exch[t])

\* A step that changes one task leaves the others as they are.
LEMMA OneTask ==
    ASSUME TasksInv, NEW t \in Tasks, NEW status \in TaskStatuses,
           NEW os \in Seq(OrderRows), NEW xs \in Seq(ExchRows),
           tasks' = [tasks EXCEPT ![t] = status], orders' = [orders EXCEPT ![t] = os],
           exch' = [exch EXCEPT ![t] = xs], TaskInv(t, status, os, xs)
    PROVE  /\ TasksInv'
           /\ tasks'[t] = status /\ orders'[t] = os /\ exch'[t] = xs
<1>1. /\ tasks' \in [Tasks -> TaskStatuses] /\ orders' \in [Tasks -> Seq(OrderRows)]
      /\ exch' \in [Tasks -> Seq(ExchRows)]
  BY DEF TasksInv
<1>2. tasks'[t] = status /\ orders'[t] = os /\ exch'[t] = xs
  BY DEF TasksInv
<1>3. ASSUME NEW u \in Tasks, u # t
      PROVE  tasks'[u] = tasks[u] /\ orders'[u] = orders[u] /\ exch'[u] = exch[u]
  BY <1>3 DEF TasksInv
<1>4. ASSUME NEW u \in Tasks PROVE TaskInv(u, tasks'[u], orders'[u], exch'[u])
  BY <1>2, <1>3 DEF TasksInv
<1> QED BY <1>1, <1>2, <1>4 DEF TasksInv

\* The same for a step that leaves a part of the task alone: its rows,
LEMMA OnlyStatus ==
    ASSUME TasksInv, NEW t \in Tasks, NEW status \in TaskStatuses,
           SetTask(t, status), UNCHANGED <<orders, exch>>,
           TaskInv(t, status, orders[t], exch[t])
    PROVE  TasksInv' /\ tasks'[t] = status
<1>1. orders[t] \in Seq(OrderRows) /\ exch[t] \in Seq(ExchRows)
  BY DEF TasksInv
<1>2. orders' = [orders EXCEPT ![t] = orders[t]] /\ exch' = [exch EXCEPT ![t] = exch[t]]
  BY DEF TasksInv
<1>3. tasks' = [tasks EXCEPT ![t] = status]
  BY DEF SetTask
<1> QED BY <1>1, <1>2, <1>3, OneTask

\* ... its status and its orders at the exchange,
LEMMA OnlyOrders ==
    ASSUME TasksInv, NEW t \in Tasks, NEW os \in Seq(OrderRows),
           orders' = [orders EXCEPT ![t] = os], UNCHANGED <<tasks, exch>>,
           TaskInv(t, tasks[t], os, exch[t])
    PROVE  TasksInv' /\ orders'[t] = os
<1>1. tasks[t] \in TaskStatuses /\ exch[t] \in Seq(ExchRows)
  BY DEF TasksInv
<1>2. tasks' = [tasks EXCEPT ![t] = tasks[t]] /\ exch' = [exch EXCEPT ![t] = exch[t]]
  BY DEF TasksInv
<1> QED BY <1>1, <1>2, OneTask

\* ... or its status and its rows.
LEMMA OnlyExchange ==
    ASSUME TasksInv, NEW t \in Tasks, NEW xs \in Seq(ExchRows),
           exch' = [exch EXCEPT ![t] = xs], UNCHANGED <<tasks, orders>>,
           TaskInv(t, tasks[t], orders[t], xs)
    PROVE  TasksInv' /\ exch'[t] = xs
<1>1. tasks[t] \in TaskStatuses /\ orders[t] \in Seq(OrderRows)
  BY DEF TasksInv
<1>2. tasks' = [tasks EXCEPT ![t] = tasks[t]] /\ orders' = [orders EXCEPT ![t] = orders[t]]
  BY DEF TasksInv
<1> QED BY <1>1, <1>2, OneTask

\* A live task the worker works at promises nothing of its outcome.
LEMMA WorkingTask ==
    ASSUME NEW t \in Tasks \ PaperTasks, NEW status \in TaskStatuses,
           NEW os, NEW xs, Rows(os, xs), Budget(os), Paced(os),
           status \notin Untouched, status \notin {"completed", "failed"}
    PROVE  TaskInv(t, status, os, xs)
BY DEF TaskInv, Outcome

\* A task without orders may be in any status but the completed one.
LEMMA EmptyTask ==
    ASSUME NEW t \in Tasks, NEW status \in TaskStatuses, status # "completed",
           t \in PaperTasks => status \notin {"hedging", "compensating", "manual_review"},
           NEW xs, Rows(<<>>, xs), t \notin PaperTasks => Paced(<<>>), Budget(<<>>)
    PROVE  TaskInv(t, status, <<>>, xs)
<1>1. AllEnded(<<>>) /\ \A leg \in Legs :
         FilledIn(<<>>, leg, "primary") = FilledIn(<<>>, leg, "compensation")
  BY SumsOfNothing DEF AllEnded
<1>2. Outcome(status, <<>>)
  BY <1>1 DEF Outcome
<1> QED BY <1>2 DEF TaskInv

\* An open order takes what the worker has learnt of it.
LEMMA OrderChanged ==
    ASSUME TasksInv, NEW t \in Tasks \ PaperTasks, tasks[t] \in Working,
           NEW i \in DOMAIN orders[t], i = Last(t), orders[t][i].status \in OpenOrder,
           NEW o \in OrderRows, o.leg = orders[t][i].leg, o.purpose = orders[t][i].purpose,
           o.quantity = orders[t][i].quantity, orders[t][i].filled <= o.filled,
           Matches(o, exch[t][i]),
           orders' = [orders EXCEPT ![t] = [orders[t] EXCEPT ![i] = o]],
           UNCHANGED <<tasks, exch>>
    PROVE  /\ TasksInv' /\ Len(orders'[t]) = Last(t)
           /\ orders'[t][i] = o
<1>1. /\ orders[t] \in Seq(OrderRows) /\ exch[t] \in Seq(ExchRows)
      /\ tasks[t] \in TaskStatuses /\ TaskInv(t, tasks[t], orders[t], exch[t])
  BY DEF TasksInv
<1>2. Rows(orders[t], exch[t]) /\ Budget(orders[t]) /\ Paced(orders[t])
  BY <1>1 DEF TaskInv
<1> DEFINE os == [orders[t] EXCEPT ![i] = o]
<1>3. os \in Seq(OrderRows) /\ Rows(os, exch[t]) /\ Budget(os) /\ Paced(os)
  BY <1>1, <1>2, RowChanged DEF Last
<1>4. Len(os) = Last(t) /\ os[i] = o
  BY <1>1 DEF Last
<1> HIDE DEF os
<1>5. TaskInv(t, tasks[t], os, exch[t])
  BY <1>1, <1>3, WorkingTask DEF Working, Untouched
<1>6. TasksInv' /\ orders'[t] = os
  BY <1>3, <1>5, OnlyOrders DEF os
<1> QED BY <1>4, <1>6

\* Its status alone: it stays open, and is as its row at the exchange allows.
LEMMA StatusChanged ==
    ASSUME TasksInv, NEW t \in Tasks \ PaperTasks, tasks[t] \in Working,
           Last(t) \in DOMAIN orders[t], orders[t][Last(t)].status \in OpenOrder,
           NEW status \in Uncertain,
           status # "unknown" => exch[t][Last(t)].at \in {"live", "done"},
           SetOrder(t, Last(t), status), UNCHANGED <<tasks, exch>>
    PROVE  TasksInv'
<1> DEFINE i == Last(t)
           o == [orders[t][i] EXCEPT !.status = status]
<1>1. orders[t] \in Seq(OrderRows) /\ Rows(orders[t], exch[t])
  BY DEF TasksInv, TaskInv
<1>2. orders[t][i] \in OrderRows /\ Matches(orders[t][i], exch[t][i])
  BY <1>1 DEF Rows
<1> HIDE DEF i
<1>3. /\ o \in OrderRows /\ o.leg = orders[t][i].leg /\ o.purpose = orders[t][i].purpose
      /\ o.quantity = orders[t][i].quantity /\ o.filled = orders[t][i].filled
      /\ o.status = status
  BY <1>2 DEF OrderRows, OpenOrder
<1>4. orders' = [orders EXCEPT ![t] = [orders[t] EXCEPT ![i] = o]]
  BY <1>1 DEF SetOrder, i, TasksInv
<1> HIDE DEF o
<1>5. Matches(o, exch[t][i])
  <2>1. status \notin Ended /\ (status # "unknown" => exch[t][i].at \in {"live", "done"})
    BY DEF Uncertain, Ended, i
  <2> QED BY <1>2, <1>3, <2>1 DEF Matches
<1>6. orders[t][i].filled <= o.filled
  BY <1>2, <1>3 DEF OrderRows
<1>7. i \in DOMAIN orders[t] /\ orders[t][i].status \in OpenOrder /\ i = Last(t)
  BY DEF i
<1> QED BY <1>3, <1>4, <1>5, <1>6, <1>7, OrderChanged

\* An order that may not have arrived becomes unknown, or stays as it was seen.
LEMMA UnknownMarked ==
    ASSUME TasksInv, NEW t \in Tasks \ PaperTasks, tasks[t] \in Working,
           Last(t) \in DOMAIN orders[t], orders[t][Last(t)].status \in OpenOrder,
           MarkUnknown(t, Last(t)), UNCHANGED <<tasks, exch>>
    PROVE  TasksInv'
<1>1. CASE orders[t][Last(t)].status \in {"created", "submitted", "unknown"}
  <2>1. SetOrder(t, Last(t), "unknown")
    BY <1>1 DEF MarkUnknown
  <2>2. "unknown" \in Uncertain
    BY DEF Uncertain
  <2> QED BY <2>1, <2>2, StatusChanged
<1>2. CASE orders[t][Last(t)].status \notin {"created", "submitted", "unknown"}
  BY <1>2 DEF MarkUnknown, TasksInv
<1> QED BY <1>1, <1>2

\* Its status and its fills.
LEMMA OrderRecorded ==
    ASSUME TasksInv, NEW t \in Tasks \ PaperTasks, tasks[t] \in Working,
           Last(t) \in DOMAIN orders[t], orders[t][Last(t)].status \in OpenOrder,
           NEW status \in Uncertain \cup Ended,
           exch[t][Last(t)].at \in {"live", "done"},
           status \in Ended => exch[t][Last(t)].at = "done",
           Record(t, Last(t), status), UNCHANGED <<tasks, exch>>
    PROVE  TasksInv' /\ Len(orders'[t]) = Last(t) /\ orders'[t][Last(t)].status = status
<1> DEFINE i == Last(t)
           g == exch[t][i].got
           o == [orders[t][i] EXCEPT !.status = status, !.filled = g]
<1>1. /\ orders[t] \in Seq(OrderRows) /\ exch[t] \in Seq(ExchRows)
      /\ Rows(orders[t], exch[t])
  BY DEF TasksInv, TaskInv
<1>2. orders[t][i] \in OrderRows /\ Matches(orders[t][i], exch[t][i])
  BY <1>1 DEF Rows
<1>3. g \in Nat
  <2>1. exch[t][i] \in ExchRows
    BY <1>1 DEF Rows
  <2> QED BY <2>1 DEF ExchRows
<1>4. orders' = [orders EXCEPT ![t] = [orders[t] EXCEPT ![i] = o]]
  BY <1>1 DEF Record, TasksInv
<1>5. /\ i \in DOMAIN orders[t] /\ orders[t][i].status \in OpenOrder /\ i = Last(t)
      /\ exch[t][i].at \in {"live", "done"} /\ (status \in Ended => exch[t][i].at = "done")
  OBVIOUS
<1> HIDE DEF i
<1>6. /\ o \in OrderRows /\ o.leg = orders[t][i].leg /\ o.purpose = orders[t][i].purpose
      /\ o.quantity = orders[t][i].quantity /\ o.filled = exch[t][i].got
      /\ o.status = status
  <2> HIDE DEF g
  <2>1. /\ o \in OrderRows /\ o.leg = orders[t][i].leg /\ o.purpose = orders[t][i].purpose
        /\ o.quantity = orders[t][i].quantity /\ o.filled = g /\ o.status = status
    BY <1>2, <1>3 DEF OrderRows, OpenOrder
  <2> QED BY <2>1 DEF g
<1> HIDE DEF o
<1>7. Matches(o, exch[t][i]) /\ orders[t][i].filled <= o.filled
  <2> USE DEF g
  <2> QED BY <1>2, <1>3, <1>5, <1>6 DEF Matches
<1>8. /\ TasksInv' /\ Len(orders'[t]) = Last(t) /\ orders'[t][i] = o
  BY <1>4, <1>5, <1>6, <1>7, OrderChanged
<1> QED BY <1>6, <1>8 DEF i

---------------------------------------------------------------------------
(* The steps of the worker *)

\* The part of the invariant the lemmas above are about.
LEMMA InvHasTasks == MultiLegInv => TasksInv
BY DEF MultiLegInv, TypeOK, TasksInv

\* A pass that ends leaves the worker without a task.
LEMMA PassOver ==
    ASSUME MultiLegInv, TasksInv', PassEnds, control' \in {"ready", "paused"},
           UNCHANGED admin, crashes' \in 0..MaxCrashes
    PROVE  MultiLegInv'
<1>1. TypeOK'
  BY DEF MultiLegInv, TypeOK, TasksInv, PassEnds, admin, Steps, Idle
<1>2. InHand'
  BY DEF InHand, PassEnds
<1> QED BY <1>1, <1>2 DEF MultiLegInv, TasksInv

\* What the worker knows of the task it has in hand.
LEMMA TaskInHand ==
    ASSUME MultiLegInv, NEW t \in Tasks, w.task = t, pc \in {"decide", "answer", "found", "chase"}
    PROVE  /\ TasksInv /\ t \in Tasks \ PaperTasks /\ tasks[t] \in Working
           /\ orders[t] \in Seq(OrderRows) /\ exch[t] \in Seq(ExchRows)
           /\ Rows(orders[t], exch[t]) /\ Budget(orders[t]) /\ Paced(orders[t])
           /\ control \in {"ready", "paused"} /\ crashes \in 0..MaxCrashes
<1>1. TasksInv /\ InHand
  BY InvHasTasks DEF MultiLegInv
<1>2. t \in Tasks \ PaperTasks /\ tasks[t] \in Working
  BY <1>1 DEF InHand
<1> QED BY <1>1, <1>2 DEF TasksInv, TaskInv, MultiLegInv, TypeOK

\* ... and of its open order, which is the last one.
LEMMA OrderInHand ==
    ASSUME MultiLegInv, NEW t \in Tasks, w.task = t,
           (pc = "decide" /\ Active(t)) \/ pc \in {"answer", "found", "chase"}
    PROVE  /\ Current(t) = Last(t) /\ Last(t) \in DOMAIN orders[t]
           /\ orders[t][Last(t)].status \in OpenOrder
           /\ pc \in {"found", "chase"} => exch[t][Last(t)].at \in {"live", "done"}
           /\ pc = "found" /\ w.seen \in {"canceled", "filled"} => exch[t][Last(t)].at = "done"
           /\ Matches(orders[t][Last(t)], exch[t][Last(t)])
<1>1. orders[t] \in Seq(OrderRows) /\ Rows(orders[t], exch[t])
  BY TaskInHand
<1>2. Active(t)
  <2>1. CASE pc \in {"answer", "found", "chase"}
    BY <2>1 DEF MultiLegInv, InHand, Active
  <2> QED BY <2>1
<1>3. /\ Current(t) = Last(t) /\ Last(t) \in DOMAIN orders[t]
      /\ orders[t][Last(t)].status \in OpenOrder
  BY <1>1, <1>2, CurrentIsLast
<1>4. Matches(orders[t][Last(t)], exch[t][Last(t)])
  BY <1>1, <1>3 DEF Rows
<1> QED BY <1>3, <1>4 DEF MultiLegInv, InHand

\* A queued task starts, one in progress goes on.
LEMMA ClaimKeeps ==
    ASSUME MultiLegInv, NEW t \in Tasks, Claim(t)
    PROVE  MultiLegInv'
<1> DEFINE status == IF tasks[t] = "queued" THEN "running" ELSE tasks[t]
<1>1. TasksInv /\ t \in Tasks \ PaperTasks /\ tasks[t] \in Claimable
  BY InvHasTasks DEF Claim, Candidates, LiveClaimable
<1>2. /\ orders[t] \in Seq(OrderRows) /\ exch[t] \in Seq(ExchRows)
      /\ TaskInv(t, tasks[t], orders[t], exch[t])
  BY <1>1 DEF TasksInv
<1>3. status \in Working /\ status \in TaskStatuses
  BY <1>1 DEF Claimable, Working, TaskStatuses
<1>4. SetTask(t, status) /\ UNCHANGED <<orders, exch>>
  BY DEF Claim, SetTask
<1> HIDE DEF status
<1>5. TaskInv(t, status, orders[t], exch[t])
  BY <1>1, <1>2, <1>3, WorkingTask DEF TaskInv, Working, Untouched
<1>6. TasksInv' /\ tasks'[t] = status
  BY <1>1, <1>3, <1>4, <1>5, OnlyStatus
<1>7. pc' = "decide" /\ w' = [Idle EXCEPT !.task = t] /\ UNCHANGED <<control, admin, crashes>>
  BY DEF Claim
<1>8. TypeOK'
  BY <1>6, <1>7 DEF MultiLegInv, TypeOK, TasksInv, admin, Steps, Idle
<1>9. InHand'
  BY <1>1, <1>3, <1>6, <1>7 DEF InHand, Idle
<1> QED BY <1>6, <1>8, <1>9 DEF MultiLegInv, TasksInv

\* The next order is sized on ended orders, whose fills the ledger has.
LEMMA CreateNextOrderKeeps ==
    ASSUME MultiLegInv, NEW t \in Tasks, CreateNextOrder(t)
    PROVE  MultiLegInv'
<1> DEFINE o == NewOrder(t, NextLeg(t), NextQuantity(t))
           x == [at |-> "none", got |-> 0]
           status == IF NextLeg(t) = Anchor THEN "running" ELSE "hedging"
<1>1. /\ TasksInv /\ t \in Tasks \ PaperTasks
      /\ orders[t] \in Seq(OrderRows) /\ exch[t] \in Seq(ExchRows)
      /\ Rows(orders[t], exch[t]) /\ Budget(orders[t]) /\ Paced(orders[t])
      /\ control \in {"ready", "paused"} /\ crashes \in 0..MaxCrashes
  BY TaskInHand DEF CreateNextOrder
<1>2. AllEnded(orders[t])
  BY <1>1, InactiveHasEnded DEF CreateNextOrder
<1>3. NextLeg(t) \in Legs /\ NextQuantity(t) \in Nat /\ NextQuantity(t) > 0
  BY <1>1, <1>2, NextOrderBounds DEF CreateNextOrder
<1>4. /\ o \in OrderRows /\ o.leg = NextLeg(t) /\ o.purpose = "primary"
      /\ o.status = "created" /\ o.quantity = NextQuantity(t) /\ o.filled = 0
  <2> DEFINE n == NextLeg(t)
             q == NextQuantity(t)
             new == NewOrder(t, n, q)
  <2>1. n \in Legs /\ q \in Nat /\ orders[t] \in Seq(OrderRows)
    BY <1>1, <1>3
  <2> HIDE DEF n, q
  <2>2. /\ new \in OrderRows /\ new.leg = n /\ new.purpose = "primary"
        /\ new.status = "created" /\ new.quantity = q /\ new.filled = 0
    BY <2>1, NewOrderIsRow
  <2> HIDE DEF new
  <2> QED BY <2>2 DEF new, n, q
<1>5. status \in {"running", "hedging"} /\ status \in TaskStatuses
  BY DEF TaskStatuses
<1>6. /\ tasks' = [tasks EXCEPT ![t] = status]
      /\ orders' = [orders EXCEPT ![t] = Append(orders[t], o)]
      /\ exch' = [exch EXCEPT ![t] = Append(exch[t], x)]
      /\ PassEnds /\ UNCHANGED <<control, admin, crashes>>
  BY DEF CreateNextOrder, AddOrder, SetTask
<1> HIDE DEF o, status
<1> DEFINE os == Append(orders[t], o)
           xs == Append(exch[t], x)
<1>7. os \in Seq(OrderRows) /\ xs \in Seq(ExchRows) /\ Rows(os, xs)
  BY <1>1, <1>2, <1>3, <1>4, RowAdded
<1>8. Budget(os) /\ Paced(os)
  BY <1>1, <1>2, <1>4, PrimaryAdded
<1> HIDE DEF os, xs
<1>9. TaskInv(t, status, os, xs)
  BY <1>1, <1>5, <1>7, <1>8, WorkingTask DEF Untouched
<1>10. TasksInv'
  BY <1>1, <1>5, <1>6, <1>7, <1>9, OneTask DEF os, xs
<1> QED BY <1>1, <1>6, <1>10, PassOver

\* A finished task has every leg at its target: the anchor because nothing of it
\* remains, a hedge because it is not behind.
LEMMA CompleteTaskKeeps ==
    ASSUME MultiLegInv, NEW t \in Tasks, CompleteTask(t)
    PROVE  MultiLegInv'
<1> DEFINE os == orders[t]
           F(leg) == FilledIn(os, leg, "primary")
           T(leg) == Target[leg]
<1>1. /\ TasksInv /\ t \in Tasks \ PaperTasks
      /\ os \in Seq(OrderRows) /\ exch[t] \in Seq(ExchRows)
      /\ Rows(os, exch[t]) /\ Budget(os) /\ Paced(os)
      /\ control \in {"ready", "paused"} /\ crashes \in 0..MaxCrashes
  BY TaskInHand DEF CompleteTask
<1>2. AllEnded(os)
  BY <1>1, InactiveHasEnded DEF CompleteTask
<1>3. \A leg \in Legs : F(leg) \in Nat /\ F(leg) <= T(leg)
  <2> SUFFICES ASSUME NEW leg \in Legs PROVE F(leg) \in Nat /\ F(leg) <= T(leg)
    OBVIOUS
  <2>1. F(leg) \in Nat /\ ReachIn(os, leg, "primary") = F(leg)
    BY <1>1, <1>2, SumsOfRows, SumsOfEnded
  <2>2. ReachIn(os, leg, "primary") <= T(leg)
    BY <1>1 DEF Budget
  <2> HIDE DEF F, T, os
  <2> QED BY <2>1, <2>2
<1>4. Target[Anchor] - Filled(t, Anchor, "primary") = 0 /\ Behind(t) = {}
  BY DEF CompleteTask, AllFilled, AnchorRemaining
<1>5. \A leg : Filled(t, leg, "primary") = F(leg)
  BY FilledIsSum
<1>6. Anchor \in Legs /\ (\A leg \in Legs : T(leg) \in Nat \ {0}) /\ HedgeFrom \in 0..T(Anchor)
  BY MultiLegAssumption
<1>7. \A leg \in Legs : Deficit(t, leg) = F(Anchor) * T(leg) - F(leg) * T(Anchor)
  BY <1>5 DEF Deficit
<1>8. F(Anchor) = T(Anchor)
  <2>1. T(Anchor) - F(Anchor) = 0
    BY <1>4, <1>5
  <2> HIDE DEF F, T
  <2> QED BY <1>3, <1>6, <2>1
<1>9. ~ Waiting(t)
  <2>1. Filled(t, Anchor, "primary") = T(Anchor)
    BY <1>5, <1>8
  <2> HIDE DEF T
  <2> QED BY <1>6, <2>1 DEF Waiting
<1>10. \A leg \in Hedges : ~ (Deficit(t, leg) > 0)
  BY <1>4, <1>9 DEF Behind
<1> HIDE DEF F, T, os
<1>11. ASSUME NEW leg \in Legs PROVE F(leg) = T(leg)
  <2>1. CASE leg = Anchor
    BY <1>8, <2>1
  <2>2. CASE leg # Anchor
    <3>1. ~ (T(Anchor) * T(leg) - F(leg) * T(Anchor) > 0)
      BY <1>7, <1>8, <1>10, <2>2 DEF Hedges
    <3>2. T(leg) \in Nat /\ F(leg) \in Nat /\ T(Anchor) \in Nat \ {0}
      BY <1>3, <1>6
    <3>3. T(leg) * T(Anchor) <= F(leg) * T(Anchor)
      <4>1. T(Anchor) * T(leg) = T(leg) * T(Anchor) /\ T(leg) * T(Anchor) \in Int
            /\ F(leg) * T(Anchor) \in Int
        BY <3>2
      <4> QED BY <3>1, <4>1
    <3>4. T(leg) <= F(leg)
      BY <3>2, <3>3, ProductCompares
    <3> QED BY <1>3, <3>2, <3>4
  <2> QED BY <2>1, <2>2
<1>12. Outcome("completed", os)
  BY <1>2, <1>11 DEF Outcome, F, T
<1>13. TaskInv(t, "completed", os, exch[t])
  BY <1>1, <1>12 DEF TaskInv, Untouched
<1>14. SetTask(t, "completed") /\ PassEnds /\ UNCHANGED <<control, admin, orders, exch, crashes>>
  BY DEF CompleteTask
<1>15. TasksInv'
  BY <1>1, <1>13, <1>14, OnlyStatus DEF os, TaskStatuses
<1> QED BY <1>1, <1>14, <1>15, PassOver

\* A compensating order is sized on what is left to trade back.
LEMMA CreateCompensationKeeps ==
    ASSUME MultiLegInv, NEW t \in Tasks, CreateCompensation(t)
    PROVE  MultiLegInv'
<1> DEFINE leg == CompensatedLeg(t)
           rest == Remaining(t, leg)
           q == OnGrid(leg, rest, 1)
           a == Attempts(t, leg) + 1
           o == [leg |-> leg, purpose |-> "compensation", mode |-> "ioc",
                 status |-> "created", quantity |-> q, filled |-> 0,
                 attempt |-> a, chase |-> 0]
           x == [at |-> "none", got |-> 0]
<1>1. /\ TasksInv /\ t \in Tasks \ PaperTasks /\ tasks[t] \in Working
      /\ orders[t] \in Seq(OrderRows) /\ exch[t] \in Seq(ExchRows)
      /\ Rows(orders[t], exch[t]) /\ Budget(orders[t]) /\ Paced(orders[t])
      /\ control \in {"ready", "paused"} /\ crashes \in 0..MaxCrashes
  BY TaskInHand DEF CreateCompensation
<1>2. AllEnded(orders[t])
  BY <1>1, InactiveHasEnded DEF CreateCompensation
<1>3. leg \in Legs /\ rest > 0
  <2> DEFINE S == ToCompensate(t)
  <2>1. S \subseteq Legs /\ S # {} /\ \A l \in S : Remaining(t, l) > 0
    BY DEF CreateCompensation, ToCompensate
  <2>2. S \subseteq Nat
    BY <2>1 DEF Legs
  <2> HIDE DEF S
  <2>3. \E l \in S : \A k \in S : l <= k
    BY <2>1, <2>2, LeastNumber
  <2>4. leg \in S
    BY <2>3 DEF CompensatedLeg, S
  <2> QED BY <2>1, <2>4
<1>4. /\ q > 0 /\ PassEnds /\ UNCHANGED <<control, tasks, admin, crashes>>
      /\ orders' = [orders EXCEPT ![t] = Append(orders[t], o)]
      /\ exch' = [exch EXCEPT ![t] = Append(exch[t], x)]
  BY DEF CreateCompensation, AddOrder
<1>5. rest = FilledIn(orders[t], leg, "primary") - FilledIn(orders[t], leg, "compensation")
  BY FilledIsSum DEF Remaining
<1>6. a \in Nat
  BY <1>1, AttemptIsNumber
<1> HIDE DEF leg, rest
<1>7. rest \in Nat
  <2>1. /\ FilledIn(orders[t], leg, "primary") \in Nat
        /\ FilledIn(orders[t], leg, "compensation") \in Nat
    BY <1>1, SumsOfRows
  <2> QED BY <1>3, <1>5, <2>1
<1>8. q \in Nat /\ q <= rest
  <2>1. q \in Nat /\ q * 1 <= rest
    BY <1>3, <1>7, GridBounds
  <2> HIDE DEF q
  <2> QED BY <1>7, <2>1
<1> HIDE DEF q, a
<1>9. /\ o \in OrderRows /\ o.status = "created" /\ o.filled = 0
      /\ o.purpose = "compensation" /\ 0 < o.quantity
      /\ o.quantity <= FilledIn(orders[t], o.leg, "primary")
                          - FilledIn(orders[t], o.leg, "compensation")
  <2>1. o \in OrderRows
    BY <1>3, <1>6, <1>8 DEF OrderRows, OpenOrder
  <2>2. o.leg = leg /\ o.quantity = q
    OBVIOUS
  <2>3. o.quantity <= FilledIn(orders[t], o.leg, "primary")
                          - FilledIn(orders[t], o.leg, "compensation")
    BY <1>5, <1>8, <2>2
  <2> QED BY <1>4, <1>8, <2>1, <2>3
<1> HIDE DEF o
<1> DEFINE os == Append(orders[t], o)
           xs == Append(exch[t], x)
<1>10. os \in Seq(OrderRows) /\ xs \in Seq(ExchRows) /\ Rows(os, xs)
  BY <1>1, <1>2, <1>9, RowAdded
<1>11. Budget(os) /\ Paced(os)
  BY <1>1, <1>2, <1>9, CompensationAdded
<1> HIDE DEF os, xs
<1>12. tasks[t] \in TaskStatuses /\ tasks[t] \notin Untouched
       /\ tasks[t] \notin {"completed", "failed"}
  BY <1>1 DEF Working, Untouched, TasksInv
<1>13. TaskInv(t, tasks[t], os, xs)
  BY <1>1, <1>10, <1>11, <1>12, WorkingTask
<1>14. tasks' = [tasks EXCEPT ![t] = tasks[t]]
  BY <1>1, <1>4 DEF TasksInv
<1>15. TasksInv'
  BY <1>1, <1>4, <1>10, <1>12, <1>13, <1>14, OneTask DEF os, xs
<1> QED BY <1>1, <1>4, <1>15, PassOver

\* Nothing is left to trade back: as much was traded back as was filled.
LEMMA CompensationDoneKeeps ==
    ASSUME MultiLegInv, NEW t \in Tasks, CompensationDone(t)
    PROVE  MultiLegInv'
<1>1. /\ TasksInv /\ t \in Tasks \ PaperTasks
      /\ orders[t] \in Seq(OrderRows) /\ exch[t] \in Seq(ExchRows)
      /\ Rows(orders[t], exch[t]) /\ Budget(orders[t]) /\ Paced(orders[t])
      /\ control \in {"ready", "paused"} /\ crashes \in 0..MaxCrashes
  BY TaskInHand DEF CompensationDone
<1>2. AllEnded(orders[t])
  BY <1>1, InactiveHasEnded DEF CompensationDone
<1>3. ASSUME NEW leg \in Legs
      PROVE  FilledIn(orders[t], leg, "primary") = FilledIn(orders[t], leg, "compensation")
  <2> DEFINE F == FilledIn(orders[t], leg, "primary")
             C == FilledIn(orders[t], leg, "compensation")
  <2>1. F \in Nat /\ C \in Nat /\ ReachIn(orders[t], leg, "compensation") = C
    BY <1>1, <1>2, SumsOfRows, SumsOfEnded
  <2>2. ReachIn(orders[t], leg, "compensation") <= F
    BY <1>1 DEF Budget
  <2>3. ~ (F - C > 0)
    BY FilledIsSum DEF CompensationDone, ToCompensate, Remaining
  <2> HIDE DEF F, C
  <2>4. F = C
    BY <2>1, <2>2, <2>3
  <2> QED BY <2>4 DEF F, C
<1>4. Outcome("failed", orders[t])
  BY <1>2, <1>3 DEF Outcome
<1>5. TaskInv(t, "failed", orders[t], exch[t])
  BY <1>1, <1>4 DEF TaskInv, Untouched
<1>6. SetTask(t, "failed") /\ PassEnds /\ UNCHANGED <<control, admin, orders, exch, crashes>>
  BY DEF CompensationDone
<1>7. TasksInv'
  BY <1>1, <1>5, <1>6, OnlyStatus DEF TaskStatuses
<1> QED BY <1>1, <1>6, <1>7, PassOver

\* A task fails without a review only when nothing of it was filled and no order
\* of it may be at the exchange, except one whose sending was not recorded.
LEMMA HandleFailureKeeps ==
    ASSUME MultiLegInv, NEW t \in Tasks, w.task = t, pc \in {"decide", "found", "chase"},
           HandleFailure(t)
    PROVE  MultiLegInv'
<1>1. /\ TasksInv /\ t \in Tasks \ PaperTasks
      /\ orders[t] \in Seq(OrderRows) /\ exch[t] \in Seq(ExchRows)
      /\ Rows(orders[t], exch[t]) /\ Budget(orders[t]) /\ Paced(orders[t])
      /\ control \in {"ready", "paused"} /\ crashes \in 0..MaxCrashes
  BY TaskInHand
<1>2. PassEnds /\ UNCHANGED <<admin, orders, exch, crashes>>
  BY DEF HandleFailure, PassEnds
<1>3. CASE /\ \E status \in {"compensating", "manual_review"} : SetTask(t, status)
           /\ control' = "paused"
  <2>1. PICK status \in {"compensating", "manual_review"} : SetTask(t, status)
    BY <1>3
  <2>2. TaskInv(t, status, orders[t], exch[t]) /\ status \in TaskStatuses
    BY <1>1, WorkingTask DEF Untouched, TaskStatuses
  <2>3. TasksInv'
    BY <1>1, <1>2, <2>1, <2>2, OnlyStatus
  <2> QED BY <1>1, <1>2, <1>3, <2>3, PassOver
<1>4. CASE /\ ~ Exposed(t) /\ ~ Pending(t)
           /\ SetTask(t, "failed") /\ UNCHANGED control
  <2>1. ASSUME NEW leg \in Legs
        PROVE  FilledIn(orders[t], leg, "primary") = 0
               /\ FilledIn(orders[t], leg, "compensation") \in Nat
    <3> DEFINE f == [i \in DOMAIN orders[t] |-> orders[t][i].filled]
               S == Of(orders[t], leg, "primary")
    <3>1. IsFiniteSet(S) /\ S \subseteq DOMAIN orders[t]
      BY <1>1, OfIsFinite
    <3>2. ASSUME NEW i \in S PROVE f[i] = 0
      <4>1. i \in DOMAIN orders[t] /\ orders[t][i].purpose = "primary"
        BY <3>1 DEF Of
      <4>2. ~ (orders[t][i].filled > 0) /\ orders[t][i] \in OrderRows
        BY <1>1, <1>4, <4>1 DEF Exposed
      <4> QED BY <4>1, <4>2 DEF OrderRows
    <3> HIDE DEF f, S
    <3>3. SumFunctionOnSet(f, S) = 0
      BY <3>1, <3>2, SumOfZeros
    <3>4. FilledIn(orders[t], leg, "compensation") \in Nat
      BY <1>1, SumsOfRows
    <3> QED BY <3>3, <3>4 DEF FilledIn, f, S
  <2>2. \A i \in DOMAIN orders[t] : orders[t][i].status \in {"created"} \cup Ended
    <3> SUFFICES ASSUME NEW i \in DOMAIN orders[t]
                 PROVE  orders[t][i].status \in {"created"} \cup Ended
      OBVIOUS
    <3>1. orders[t][i] \in OrderRows /\ orders[t][i].status \notin Uncertain
      BY <1>1, <1>4 DEF Pending
    <3> QED BY <3>1 DEF OrderRows, OpenOrder
  <2>3. SomeCreated(orders[t]) \/ AllEnded(orders[t])
    BY <2>2 DEF SomeCreated, AllEnded
  <2>4. ASSUME NEW leg \in Legs
        PROVE  FilledIn(orders[t], leg, "compensation") = 0
    <3>1. /\ FilledIn(orders[t], leg, "compensation") \in Nat
          /\ ReachIn(orders[t], leg, "compensation") \in Nat
          /\ FilledIn(orders[t], leg, "compensation")
                <= ReachIn(orders[t], leg, "compensation")
      <4>1. /\ FilledIn(orders[t], leg, "compensation") \in Nat
            /\ ReachIn(orders[t], leg, "compensation") \in Nat
            /\ GotIn(orders[t], exch[t], leg, "compensation") \in Nat
            /\ FilledIn(orders[t], leg, "compensation")
                  <= GotIn(orders[t], exch[t], leg, "compensation")
            /\ GotIn(orders[t], exch[t], leg, "compensation")
                  <= ReachIn(orders[t], leg, "compensation")
        BY <1>1, SumsOfRows
      <4> QED BY <4>1
    <3>2. ReachIn(orders[t], leg, "compensation") <= 0
      BY <1>1, <2>1 DEF Budget
    <3> QED BY <3>1, <3>2
  <2>5. Outcome("failed", orders[t])
    BY <2>1, <2>3, <2>4 DEF Outcome
  <2>6. TaskInv(t, "failed", orders[t], exch[t])
    BY <1>1, <2>5 DEF TaskInv, Untouched
  <2>7. TasksInv'
    BY <1>1, <1>2, <1>4, <2>6, OnlyStatus DEF TaskStatuses
  <2> QED BY <1>1, <1>2, <1>4, <2>7, PassOver
<1> QED BY <1>3, <1>4 DEF HandleFailure

\* An exception ends in the handler of the pass.
LEMMA RaiseKeeps ==
    ASSUME MultiLegInv, NEW t \in Tasks, Raise(t)
    PROVE  MultiLegInv'
BY HandleFailureKeeps DEF Raise

\* What the worker learns of the open order, and does with it.
LEMMA LookupKeeps ==
    ASSUME MultiLegInv, NEW t \in Tasks, LookupStep(t)
    PROVE  MultiLegInv'
<1>1. pc = "decide" /\ w.task = t /\ Active(t)
  BY DEF LookupStep, LookupIncomplete, LookupFound, AbsentCanceled, AbsentAgain,
         SendOrder, Looking
<1>2. /\ TasksInv /\ t \in Tasks \ PaperTasks /\ tasks[t] \in Working
      /\ orders[t] \in Seq(OrderRows) /\ exch[t] \in Seq(ExchRows)
      /\ Rows(orders[t], exch[t]) /\ Budget(orders[t]) /\ Paced(orders[t])
      /\ control \in {"ready", "paused"} /\ crashes \in 0..MaxCrashes
  BY <1>1, TaskInHand
<1>3. /\ Current(t) = Last(t) /\ Last(t) \in DOMAIN orders[t]
      /\ orders[t][Last(t)].status \in OpenOrder
      /\ Matches(orders[t][Last(t)], exch[t][Last(t)])
  BY <1>1, OrderInHand
<1>4. CASE LookupIncomplete(t) \/ AbsentAgain(t)
  <2>1. /\ MarkUnknown(t, Last(t)) /\ PassEnds
        /\ UNCHANGED <<control, tasks, admin, exch, crashes>>
    BY <1>3, <1>4 DEF LookupIncomplete, AbsentAgain
  <2>2. TasksInv'
    BY <1>2, <1>3, <2>1, UnknownMarked
  <2> QED BY <1>2, <2>1, <2>2, PassOver
<1>5. CASE LookupFound(t)
  <2> DEFINE at == exch[t][Last(t)].at
             Seen == {"none"} \cup LiveWords \cup DoneWords
  <2>1. PICK word \in SeenAs(t, Last(t)) :
           /\ at \in {"live", "done"} /\ pc' = "found" /\ w' = [w EXCEPT !.seen = word]
           /\ UNCHANGED <<control, tasks, admin, orders, exch, crashes>>
    BY <1>3, <1>5 DEF LookupFound
  <2>2. w \in [task : {0} \cup Tasks, seen : Seen]
    BY DEF MultiLegInv, TypeOK
  <2>7. /\ word \in LiveWords \cup DoneWords
        /\ word \in {"canceled", "filled"} => at = "done"
    <3>1. orders[t][Last(t)] \in OrderRows
      BY <1>2, <1>3
    <3>2. Words[orders[t][Last(t)].leg]
            \in [live : SUBSET LiveWords, done : SUBSET DoneWords]
      BY <3>1, MultiLegAssumption DEF OrderRows
    <3> QED BY <2>1, <3>2 DEF SeenAs, LiveWords, DoneWords
  <2> HIDE DEF at
  <2>3. /\ w' \in [task : {0} \cup Tasks, seen : Seen]
        /\ w'.task = t /\ w'.seen = word
    BY <1>1, <2>1, <2>2, <2>7
  <2>4. TypeOK'
    BY <2>1, <2>3 DEF MultiLegInv, TypeOK, admin, Steps
  <2>5. InHand'
    BY <1>2, <1>3, <2>1, <2>3, <2>7 DEF InHand, Last, at
  <2>6. TasksInv'
    BY <1>2, <2>1 DEF TasksInv
  <2> QED BY <2>4, <2>5, <2>6 DEF MultiLegInv, TasksInv
<1>6. CASE AbsentCanceled(t)
  <2>1. /\ MayBeAbsent(t, Last(t)) /\ orders[t][Last(t)].status = "cancel_pending"
        /\ Record(t, Last(t), "canceled") /\ PassEnds
        /\ UNCHANGED <<control, tasks, admin, exch, crashes>>
    BY <1>3, <1>6 DEF AbsentCanceled
  <2>2. exch[t][Last(t)].at = "done"
    BY <1>3, <2>1 DEF MayBeAbsent, Matches, Uncertain
  <2>3. TasksInv'
    BY <1>2, <1>3, <2>1, <2>2, OrderRecorded DEF Ended
  <2> QED BY <1>2, <2>1, <2>3, PassOver
<1>7. CASE SendOrder(t)
  <2> DEFINE i == Last(t)
             at == exch[t][i].at
             x == [exch[t][i] EXCEPT !.at = IF at = "none" THEN "sent" ELSE at]
             xs == [exch[t] EXCEPT ![i] = x]
  <2>1. /\ orders[t][i].status \in {"created", "unknown"}
        /\ exch' = [exch EXCEPT ![t][i].at = IF @ = "none" THEN "sent" ELSE @]
        /\ pc' = "answer" /\ UNCHANGED w
        /\ UNCHANGED <<control, tasks, admin, orders, crashes>>
    BY <1>3, <1>7 DEF SendOrder
  <2>2. i \in DOMAIN exch[t]
    BY <1>2, <1>3 DEF Rows
  <2>3. exch' = [exch EXCEPT ![t] = xs]
    BY <1>2, <2>1, <2>2 DEF TasksInv
  <2>4. exch[t][i] \in ExchRows
    BY <1>2, <2>2
  <2>5. Matches(orders[t][i], exch[t][i])
    BY <1>3
  <2> HIDE DEF i
  <2>6. x \in ExchRows /\ x.got = exch[t][i].got
        /\ x.at = IF at = "none" THEN "sent" ELSE at
    BY <2>4 DEF ExchRows
  <2> HIDE DEF x
  <2>7. Matches(orders[t][i], x)
    <3>1. orders[t][i].status \notin Ended
          /\ orders[t][i].status \notin Uncertain \ {"unknown"}
      BY <2>1 DEF Ended, Uncertain
    <3> QED BY <2>5, <2>6, <3>1 DEF Matches
  <2>8. xs \in Seq(ExchRows) /\ Rows(orders[t], xs)
    BY <1>2, <2>2, <2>6, <2>7, ExchangeChanged
  <2> HIDE DEF xs
  <2>9. tasks[t] \in TaskStatuses /\ tasks[t] \notin Untouched
        /\ tasks[t] \notin {"completed", "failed"}
    BY <1>2 DEF Working, Untouched, TasksInv
  <2>10. TaskInv(t, tasks[t], orders[t], xs)
    BY <1>2, <2>8, <2>9, WorkingTask
  <2>11. TasksInv'
    BY <1>2, <2>1, <2>3, <2>8, <2>10, OnlyExchange
  <2>12. TypeOK'
    BY <2>1, <2>11 DEF MultiLegInv, TypeOK, TasksInv, admin, Steps
  <2>13. InHand'
    <3>1. w' = w /\ w.task = t /\ pc' = "answer" /\ tasks' = tasks /\ orders' = orders
      BY <1>1, <2>1
    <3> QED BY <1>2, <1>3, <3>1 DEF InHand, Last
  <2> QED BY <2>11, <2>12, <2>13 DEF MultiLegInv, TasksInv
<1> QED BY <1>4, <1>5, <1>6, <1>7 DEF LookupStep

\* The answer of the exchange, and what a look at the order shows.
LEMMA AnswerKeeps ==
    ASSUME MultiLegInv, NEW t \in Tasks,
           Acknowledged(t) \/ AnswerLost(t) \/ FillsIncomplete(t) \/ KeepOrder(t)
              \/ ChaseOrder(t)
    PROVE  MultiLegInv'
<1>1. pc \in {"answer", "found", "chase"} /\ w.task = t /\ PassEnds
      /\ UNCHANGED <<control, tasks, admin, exch, crashes>>
  BY DEF Acknowledged, AnswerLost, FillsIncomplete, KeepOrder, ChaseOrder
<1>2. /\ TasksInv /\ t \in Tasks \ PaperTasks /\ tasks[t] \in Working
      /\ control \in {"ready", "paused"} /\ crashes \in 0..MaxCrashes
  BY <1>1, TaskInHand
<1>3. /\ Current(t) = Last(t) /\ Last(t) \in DOMAIN orders[t]
      /\ orders[t][Last(t)].status \in OpenOrder
      /\ pc \in {"found", "chase"} => exch[t][Last(t)].at \in {"live", "done"}
  BY <1>1, OrderInHand
<1>4. CASE Acknowledged(t)
  <2>1. exch[t][Last(t)].at \in {"live", "done"} /\ SetOrder(t, Last(t), "submitted")
    BY <1>3, <1>4 DEF Acknowledged
  <2> QED BY <1>1, <1>2, <1>3, <2>1, StatusChanged, PassOver DEF Uncertain
<1>5. CASE AnswerLost(t)
  <2>1. SetOrder(t, Last(t), "unknown")
    BY <1>3, <1>5 DEF AnswerLost
  <2> QED BY <1>1, <1>2, <1>3, <2>1, StatusChanged, PassOver DEF Uncertain
<1>6. CASE FillsIncomplete(t)
  <2>1. MarkUnknown(t, Last(t))
    BY <1>3, <1>6 DEF FillsIncomplete
  <2> QED BY <1>1, <1>2, <1>3, <2>1, UnknownMarked, PassOver
<1>7. CASE KeepOrder(t)
  <2>1. TasksInv'
    BY <1>1, <1>2, <1>7 DEF KeepOrder, TasksInv
  <2> QED BY <1>1, <1>2, <2>1, PassOver
<1>8. CASE ChaseOrder(t)
  <2>1. SetOrder(t, Last(t), "cancel_pending") /\ pc = "chase"
    BY <1>3, <1>8 DEF ChaseOrder
  <2> QED BY <1>1, <1>2, <1>3, <2>1, StatusChanged, PassOver DEF Uncertain
<1> QED BY <1>4, <1>5, <1>6, <1>7, <1>8

\* The fills and the status the exchange shows are recorded together.
LEMMA ObserveKeeps ==
    ASSUME MultiLegInv, NEW t \in Tasks, Observe(t)
    PROVE  MultiLegInv'
<1> DEFINE i == Last(t)
           status == Observed(t, i)
<1>1. pc = "found" /\ w.task = t /\ UNCHANGED <<control, tasks, admin, exch, crashes>>
  BY DEF Observe
<1>2. /\ TasksInv /\ t \in Tasks \ PaperTasks /\ tasks[t] \in Working
      /\ orders[t] \in Seq(OrderRows) /\ exch[t] \in Seq(ExchRows)
      /\ Rows(orders[t], exch[t])
      /\ control \in {"ready", "paused"} /\ crashes \in 0..MaxCrashes
  BY <1>1, TaskInHand
<1>3. /\ Current(t) = i /\ i \in DOMAIN orders[t]
      /\ orders[t][i].status \in OpenOrder
      /\ exch[t][i].at \in {"live", "done"}
      /\ w.seen \in {"canceled", "filled"} => exch[t][i].at = "done"
      /\ Matches(orders[t][i], exch[t][i])
  BY <1>1, OrderInHand
<1>4. /\ Record(t, i, status)
      /\ \/ /\ status \in {"acknowledged", "partially_filled"}
            /\ pc' = "chase" /\ UNCHANGED w
         \/ PassEnds
  BY <1>3 DEF Observe
<1>5. /\ status \in Uncertain \cup Ended
      /\ status \in Ended => exch[t][i].at = "done"
  <2> HIDE DEF i
  <2>1. exch[t][i] \in ExchRows /\ orders[t][i] \in OrderRows
    BY <1>2, <1>3 DEF Rows
  <2>2. exch[t][i].got >= orders[t][i].quantity => exch[t][i].at = "done"
    BY <1>3, <2>1 DEF Matches, ExchRows, OrderRows
  <2>3. /\ status \in {"filled", "canceled", "cancel_pending", "partially_filled",
                        "acknowledged", "unknown"}
        /\ status \in {"filled", "canceled"} =>
              \/ exch[t][i].got >= orders[t][i].quantity
              \/ w.seen \in {"canceled", "filled"}
    BY DEF Observed
  <2> HIDE DEF status
  <2> QED BY <1>3, <2>2, <2>3 DEF Uncertain, Ended
<1> HIDE DEF status
<1>6. TasksInv' /\ Len(orders'[t]) = i /\ orders'[t][i].status = status
  BY <1>1, <1>2, <1>3, <1>4, <1>5, OrderRecorded
<1>7. CASE PassEnds
  BY <1>1, <1>2, <1>6, <1>7, PassOver
<1>8. CASE /\ status \in {"acknowledged", "partially_filled"}
           /\ pc' = "chase" /\ UNCHANGED w
  <2>1. TypeOK'
    BY <1>1, <1>6, <1>8 DEF MultiLegInv, TypeOK, TasksInv, admin, Steps
  <2>2. Last(t)' = i /\ i \in DOMAIN orders'[t] /\ orders'[t][i].status \in OpenOrder
    <3>1. orders'[t] \in Seq(OrderRows) /\ i \in 1..Len(orders[t])
      BY <1>2, <1>3, <1>6 DEF TasksInv
    <3>2. i \in 1..Len(orders'[t])
      <4>1. i >= 1 /\ i \in Nat
        BY <1>2, <3>1
      <4> QED BY <1>6, <4>1
    <3>3. i \in DOMAIN orders'[t]
      BY <3>1, <3>2
    <3> QED BY <1>6, <1>8, <3>3 DEF Last, OpenOrder, Uncertain
  <2>3. InHand'
    <3>1. pc' = "chase" /\ w' = w /\ w.task = t /\ tasks' = tasks /\ exch' = exch
      BY <1>1, <1>8
    <3> QED BY <1>2, <1>3, <2>2, <3>1 DEF InHand
  <2> QED BY <1>6, <2>1, <2>3 DEF MultiLegInv, TasksInv
<1> QED BY <1>4, <1>7, <1>8

---------------------------------------------------------------------------
(* Paper tasks, the administrator and the exchange *)

\* A paper task takes its orders once, all of them filled.
LEMMA PaperRows ==
    LET os == [i \in 1..LegCount |-> PaperOrder(i)]
        xs == [i \in 1..LegCount |-> [at |-> "done", got |-> Target[i]]]
    IN  /\ os \in Seq(OrderRows) /\ xs \in Seq(ExchRows) /\ Rows(os, xs)
        /\ Budget(os) /\ Outcome("completed", os)
<1> DEFINE os == [i \in 1..LegCount |-> PaperOrder(i)]
           xs == [i \in 1..LegCount |-> [at |-> "done", got |-> Target[i]]]
<1>1. LegCount \in Nat /\ Legs = 1..LegCount /\ Target \in [Legs -> Nat \ {0}]
  BY MultiLegAssumption DEF Legs
<1>2. ASSUME NEW i \in Legs
      PROVE  /\ PaperOrder(i) \in OrderRows
             /\ PaperOrder(i).leg = i /\ PaperOrder(i).purpose = "primary"
             /\ PaperOrder(i).status = "filled" /\ PaperOrder(i).filled = Target[i]
             /\ PaperOrder(i).quantity = Target[i]
             /\ [at |-> "done", got |-> Target[i]] \in ExchRows
  BY <1>1 DEF PaperOrder, OrderRows, ExchRows, Ended
<1>3. /\ os \in Seq(OrderRows) /\ xs \in Seq(ExchRows)
      /\ DOMAIN os = Legs /\ DOMAIN xs = Legs /\ Len(os) = LegCount
      /\ \A i \in Legs : os[i] = PaperOrder(i) /\ xs[i] = [at |-> "done", got |-> Target[i]]
  <2>1. os \in [1..LegCount -> OrderRows] /\ xs \in [1..LegCount -> ExchRows]
    BY <1>1, <1>2
  <2> QED BY <1>1, <2>1
<1> HIDE DEF os, xs
<1>4. ASSUME NEW i \in Legs PROVE Matches(os[i], xs[i]) /\ os[i].status \in Ended
  <2>1. /\ os[i].status = "filled" /\ os[i].filled = Target[i] /\ os[i].quantity = Target[i]
        /\ xs[i].at = "done" /\ xs[i].got = Target[i] /\ Target[i] \in Nat \ {0}
    BY <1>1, <1>2, <1>3
  <2> QED BY <2>1 DEF Matches, Ended, Uncertain
<1>5. Rows(os, xs) /\ AllEnded(os)
  BY <1>3, <1>4 DEF Rows, AllEnded
<1>6. ASSUME NEW leg \in Legs
      PROVE  /\ FilledIn(os, leg, "primary") = Target[leg]
             /\ ReachIn(os, leg, "primary") = Target[leg]
             /\ ReachIn(os, leg, "compensation") = 0
  <2> DEFINE f == [i \in DOMAIN os |-> os[i].filled]
  <2>1. Of(os, leg, "primary") = {leg} /\ Of(os, leg, "compensation") = {}
    BY <1>2, <1>3 DEF Of
  <2>2. f[leg] = Target[leg] /\ Target[leg] \in Nat
    BY <1>1, <1>2, <1>3
  <2> HIDE DEF f
  <2>3. Numbers(f, {leg})
    <3>1. IsFiniteSet({leg})
      BY FS_Singleton
    <3> QED BY <2>2, <3>1 DEF Numbers
  <2>4. SumFunctionOnSet(f, {leg}) = f[leg] + SumFunctionOnSet(f, {leg} \ {leg})
    BY <2>3, SumWithout
  <2>5. {leg} \ {leg} = {}
    OBVIOUS
  <2>6. SumFunctionOnSet(f, {leg}) = Target[leg]
    BY <2>2, <2>4, <2>5, SumOfNothing
  <2>7. FilledIn(os, leg, "primary") = Target[leg]
    BY <2>1, <2>6 DEF FilledIn, f
  <2>8. ReachIn(os, leg, "primary") = Target[leg]
    BY <1>3, <1>5, <2>7, SumsOfEnded
  <2>9. ReachIn(os, leg, "compensation") = 0
    BY <2>1, SumOfNothing DEF ReachIn
  <2> QED BY <2>7, <2>8, <2>9
<1>7. Budget(os)
  <2> SUFFICES ASSUME NEW leg \in Legs
               PROVE  /\ ReachIn(os, leg, "primary") <= Target[leg]
                      /\ ReachIn(os, leg, "compensation") <= FilledIn(os, leg, "primary")
    BY DEF Budget
  <2>1. Target[leg] \in Nat
    BY <1>1
  <2> QED BY <1>6, <2>1
<1>8. Outcome("completed", os)
  BY <1>5, <1>6 DEF Outcome
<1> QED BY <1>3, <1>5, <1>7, <1>8 DEF os, xs

\* No orders are within every target.
LEMMA NoRows ==
    Rows(<<>>, <<>>) /\ Budget(<<>>) /\ Paced(<<>>)
<1>1. Rows(<<>>, <<>>)
  BY DEF Rows
<1>2. Target \in [Legs -> Nat \ {0}] /\ Anchor \in Legs /\ HedgeFrom \in Nat
      /\ OneOrder(Anchor) \in Nat
  BY MultiLegAssumption DEF OneOrder
<1>3. Budget(<<>>)
  <2>1. \A leg \in Legs : 0 <= Target[leg]
    BY <1>2
  <2> QED BY <2>1, SumsOfNothing DEF Budget
<1>4. Paced(<<>>)
  <2> SUFFICES ASSUME NEW leg \in Hedges
               PROVE  /\ 0 * Target[Anchor] <= 0 * Target[leg]
                      /\ 0 * Target[leg] - 0 * Target[Anchor]
                           <= (Max({HedgeFrom - 1, 0}) + OneOrder(Anchor)) * Target[leg]
    BY SumsOfNothing DEF Paced
  <2> DEFINE most == Max({HedgeFrom - 1, 0}) + OneOrder(Anchor)
  <2>1. most \in Nat
    BY <1>2, WaitedFor
  <2>2. Target[leg] \in Nat /\ Target[Anchor] \in Nat
    BY <1>2 DEF Hedges
  <2> HIDE DEF most
  <2>3. most * Target[leg] \in Nat
    BY <2>1, <2>2
  <2>4. 0 * Target[leg] = 0 /\ 0 * Target[Anchor] = 0
    BY <2>2
  <2> QED BY <2>3, <2>4 DEF most
<1> QED BY <1>1, <1>3, <1>4

\* A paper task has no orders before it is completed, and then all of them.
LEMMA PaperStepKeeps ==
    ASSUME MultiLegInv, NEW t \in Tasks, PaperStep(t)
    PROVE  MultiLegInv'
<1>1. /\ TasksInv /\ tasks[t] \in TaskStatuses
      /\ orders[t] \in Seq(OrderRows) /\ exch[t] \in Seq(ExchRows)
      /\ TaskInv(t, tasks[t], orders[t], exch[t])
      /\ control \in {"ready", "paused"} /\ crashes \in 0..MaxCrashes
  BY InvHasTasks DEF TasksInv, MultiLegInv, TypeOK
<1>2. t \in PaperTasks /\ tasks[t] # "completed"
  BY DEF PaperStep, PaperClaim, PaperComplete, PaperFail, MultiLegInv, InHand
<1>3. orders[t] = <<>>
  BY <1>1, <1>2 DEF TaskInv
<1>4. exch[t] = <<>>
  <2>1. DOMAIN exch[t] = DOMAIN <<>>
    BY <1>1, <1>3 DEF TaskInv, Rows
  <2>2. Len(exch[t]) \in Nat /\ 1..Len(exch[t]) = {}
    <3>1. DOMAIN exch[t] = 1..Len(exch[t]) /\ Len(exch[t]) \in Nat
      BY <1>1
    <3>2. DOMAIN <<>> = {}
      OBVIOUS
    <3> QED BY <2>1, <3>1, <3>2
  <2>3. Len(exch[t]) = 0
    BY <2>2
  <2> QED BY <1>1, <2>3
<1>5. CASE PaperClaim(t)
  <2>1. /\ SetTask(t, "running") /\ pc' = "paper" /\ w' = [Idle EXCEPT !.task = t]
        /\ UNCHANGED <<control, admin, orders, exch, crashes>>
    BY <1>5 DEF PaperClaim
  <2>2. TaskInv(t, "running", orders[t], exch[t])
    BY <1>2, <1>3, <1>4, NoRows, EmptyTask DEF TaskStatuses
  <2>3. TasksInv' /\ tasks'[t] = "running"
    BY <1>1, <2>1, <2>2, OnlyStatus DEF TaskStatuses
  <2>4. TypeOK'
    BY <2>1, <2>3 DEF MultiLegInv, TypeOK, TasksInv, admin, Steps, Idle
  <2>5. InHand'
    BY <1>2, <2>1, <2>3 DEF InHand, Idle
  <2> QED BY <2>3, <2>4, <2>5 DEF MultiLegInv, TasksInv
<1>6. CASE PaperFail(t)
  <2>1. SetTask(t, "failed") /\ PassEnds /\ UNCHANGED <<control, admin, orders, exch, crashes>>
    BY <1>6 DEF PaperFail, PassEnds
  <2>2. TaskInv(t, "failed", orders[t], exch[t])
    BY <1>2, <1>3, <1>4, NoRows, EmptyTask DEF TaskStatuses
  <2>3. TasksInv'
    BY <1>1, <2>1, <2>2, OnlyStatus DEF TaskStatuses
  <2> QED BY <1>1, <2>1, <2>3, PassOver
<1>7. CASE PaperComplete(t)
  <2> DEFINE os == [i \in 1..LegCount |-> PaperOrder(i)]
             xs == [i \in 1..LegCount |-> [at |-> "done", got |-> Target[i]]]
  <2>1. /\ SetTask(t, "completed") /\ PassEnds /\ UNCHANGED <<control, admin, crashes>>
        /\ orders' = [orders EXCEPT ![t] = @ \o os] /\ exch' = [exch EXCEPT ![t] = @ \o xs]
    BY <1>7 DEF PaperComplete, PassEnds
  <2>2. /\ os \in Seq(OrderRows) /\ xs \in Seq(ExchRows) /\ Rows(os, xs)
        /\ Budget(os) /\ Outcome("completed", os)
    BY PaperRows
  <2> HIDE DEF os, xs
  <2>3. orders[t] \o os = os /\ exch[t] \o xs = xs
    BY <1>3, <1>4, <2>2
  <2>4. /\ tasks' = [tasks EXCEPT ![t] = "completed"]
        /\ orders' = [orders EXCEPT ![t] = os] /\ exch' = [exch EXCEPT ![t] = xs]
    BY <2>1, <2>3 DEF SetTask
  <2>5. TaskInv(t, "completed", os, xs)
    BY <1>2, <2>2 DEF TaskInv, Untouched
  <2>6. TasksInv'
    BY <1>1, <2>2, <2>4, <2>5, OneTask DEF TaskStatuses
  <2> QED BY <1>1, <2>1, <2>6, PassOver
<1> QED BY <1>5, <1>6, <1>7 DEF PaperStep

\* The administrator has tasks in hand that have no orders yet.
LEMMA AdministratorKeeps ==
    ASSUME MultiLegInv, NEW t \in Tasks, Administrator(t)
    PROVE  MultiLegInv'
<1>1. TasksInv /\ tasks[t] \in TaskStatuses /\ TaskInv(t, tasks[t], orders[t], exch[t])
  BY InvHasTasks DEF TasksInv
<1>2. UNCHANGED <<control, orders, exch, work, crashes>>
  BY DEF Administrator, CreateTask, PreflightRead, PreflightRefused, PreflightReady,
         PreflightExpires, StartTask, CancelTask
<1>3. stale' \subseteq Tasks /\ pre' \subseteq Tasks
  BY DEF Administrator, CreateTask, PreflightRead, PreflightRefused, PreflightReady,
         PreflightExpires, StartTask, CancelTask, admin, MultiLegInv, TypeOK
<1>4. \/ UNCHANGED tasks
      \/ /\ tasks[t] \in Untouched
         /\ \E status \in Untouched : SetTask(t, status)
  BY DEF Administrator, CreateTask, PreflightRead, PreflightRefused, PreflightReady,
         PreflightExpires, StartTask, CancelTask, Untouched
<1>5. /\ TasksInv'
      /\ \A u \in Tasks : tasks[u] \in Working => tasks'[u] = tasks[u]
  <2>1. CASE UNCHANGED tasks
    BY <1>1, <1>2, <2>1 DEF TasksInv
  <2>2. CASE tasks[t] \in Untouched /\ \E status \in Untouched : SetTask(t, status)
    <3>1. PICK status \in Untouched : SetTask(t, status)
      BY <2>2
    <3>2. status \in TaskStatuses /\ status # "completed" /\ status # "failed"
          /\ status \notin {"hedging", "compensating", "manual_review"}
      BY DEF Untouched, TaskStatuses
    <3>3. orders[t] = <<>>
      BY <1>1, <2>2 DEF TaskInv
    <3>4. TaskInv(t, status, orders[t], exch[t])
      BY <1>1, <3>2, <3>3 DEF TaskInv, Outcome
    <3>5. TasksInv'
      BY <1>1, <1>2, <3>1, <3>2, <3>4, OnlyStatus
    <3>6. \A u \in Tasks : tasks[u] \in Working => tasks'[u] = tasks[u]
      BY <1>1, <2>2, <3>1 DEF SetTask, TasksInv, Untouched, Working
    <3> QED BY <3>5, <3>6
  <2> QED BY <1>4, <2>1, <2>2
<1>6. TypeOK'
  BY <1>2, <1>3, <1>5 DEF MultiLegInv, TypeOK, TasksInv, work
<1>7. InHand'
  <2>1. w.task \in {0} \cup Tasks /\ PaperTasks \subseteq Tasks
    BY MultiLegAssumption DEF MultiLegInv, TypeOK
  <2>2. InHand
    BY DEF MultiLegInv
  <2> QED BY <1>2, <1>5, <2>1, <2>2 DEF InHand, work, Last, Working
<1> QED BY <1>5, <1>6, <1>7 DEF MultiLegInv, TasksInv

\* The exchange moves an order on that it has been sent and has not ended.
LEMMA ExchangeKeeps ==
    ASSUME MultiLegInv, NEW t \in Tasks, NEW i \in DOMAIN exch[t], ExchangeStep(t, i)
    PROVE  MultiLegInv'
<1>1. /\ TasksInv /\ tasks[t] \in TaskStatuses
      /\ orders[t] \in Seq(OrderRows) /\ exch[t] \in Seq(ExchRows)
      /\ TaskInv(t, tasks[t], orders[t], exch[t])
  BY InvHasTasks DEF TasksInv
<1>2. UNCHANGED <<control, tasks, admin, orders, work, crashes>>
  BY DEF ExchangeStep
<1> DEFINE old == exch[t][i]
           o == orders[t][i]
           next == IF old.got + 1 = o.quantity THEN "done" ELSE "live"
           SetsAt(at) == exch' = [exch EXCEPT ![t][i].at = at]
           Follows(at) == \/ old.at = "sent" /\ at \in {"none", "live"}
                          \/ old.at = "live" /\ at = "done"
           MovesTo(x) ==
              /\ exch' = [exch EXCEPT ![t] = [exch[t] EXCEPT ![i] = x]]
              /\ Matches(o, x)
              /\ old.at \in {"live", "done"} => x.at \in {"live", "done"}
              /\ old.at = "done" => x.at = "done"
<1>3. old \in ExchRows /\ o \in OrderRows /\ Matches(o, old)
  BY <1>1 DEF TaskInv, Rows
<1>4. \E x \in ExchRows : MovesTo(x)
  <2>1. exch \in [Tasks -> Seq(ExchRows)]
    BY <1>1 DEF TasksInv
  <2>2. ASSUME NEW at \in {"none", "live", "done"},
               SetsAt(at), Follows(at)
        PROVE  \E x \in ExchRows : MovesTo(x)
    <3> DEFINE x == [old EXCEPT !.at = at]
    <3>1. exch' = [exch EXCEPT ![t] = [exch[t] EXCEPT ![i] = x]]
      BY <1>1, <2>1, <2>2
    <3> HIDE DEF old
    <3>2. x \in ExchRows /\ x.at = at /\ x.got = old.got
      BY <1>3 DEF ExchRows
    <3> HIDE DEF x, o
    <3>3. Matches(o, x)
      <4>1. o.filled \in Nat /\ o.quantity \in Nat /\ old.got \in Nat
        BY <1>3 DEF OrderRows, ExchRows
      <4> QED BY <1>3, <2>2, <3>2, <4>1 DEF Matches, Ended, Uncertain, old
    <3>4. /\ old.at \in {"live", "done"} => x.at \in {"live", "done"}
          /\ old.at = "done" => x.at = "done"
      BY <2>2, <3>2 DEF old
    <3> QED BY <3>1, <3>2, <3>3, <3>4
  <2>3. CASE Accept(t, i)
    <3>1. SetsAt("live") /\ Follows("live")
      BY <2>3 DEF Accept
    <3> HIDE DEF MovesTo, SetsAt, Follows
    <3> QED BY <2>2, <3>1
  <2>4. CASE Refuse(t, i)
    <3>1. SetsAt("none") /\ Follows("none")
      BY <2>4 DEF Refuse
    <3> HIDE DEF MovesTo, SetsAt, Follows
    <3> QED BY <2>2, <3>1
  <2>5. CASE EndOrder(t, i)
    <3>1. SetsAt("done") /\ Follows("done")
      BY <2>5 DEF EndOrder
    <3> HIDE DEF MovesTo, SetsAt, Follows
    <3> QED BY <2>2, <3>1
  <2>6. CASE Fill(t, i)
    <3> DEFINE x == [at |-> next, got |-> old.got + 1]
    <3>1. /\ old.at = "live"
          /\ exch' = [exch EXCEPT ![t] = [exch[t] EXCEPT ![i] = x]]
      BY <1>1, <2>1, <2>6 DEF Fill
    <3>2. /\ o.filled \in Nat /\ o.quantity \in Nat /\ old.got \in Nat
          /\ o.filled <= old.got /\ old.got < o.quantity
      BY <1>3, <3>1 DEF OrderRows, ExchRows, Matches
    <3>3. next \in {"live", "done"} /\ (next = "live" => old.got + 1 < o.quantity)
      BY <3>2
    <3>4. o.status \notin Ended
      BY <1>3, <3>1 DEF Matches
    <3> HIDE DEF next, old, o
    <3>5. x \in ExchRows /\ x.at = next /\ x.got = old.got + 1
      BY <3>2, <3>3 DEF ExchRows
    <3> HIDE DEF x
    <3>6. Matches(o, x)
      BY <1>3, <3>2, <3>3, <3>4, <3>5 DEF Matches
    <3>7. /\ old.at \in {"live", "done"} => x.at \in {"live", "done"}
          /\ old.at = "done" => x.at = "done"
      BY <3>1, <3>3, <3>5
    <3> QED BY <3>1, <3>5, <3>6, <3>7
  <2> QED BY <2>3, <2>4, <2>5, <2>6 DEF ExchangeStep
<1>5. PICK x \in ExchRows :
         /\ exch' = [exch EXCEPT ![t] = [exch[t] EXCEPT ![i] = x]]
         /\ Matches(o, x)
         /\ old.at \in {"live", "done"} => x.at \in {"live", "done"}
         /\ old.at = "done" => x.at = "done"
  BY <1>4
<1> DEFINE xs == [exch[t] EXCEPT ![i] = x]
<1>6. xs \in Seq(ExchRows) /\ Rows(orders[t], xs)
  BY <1>1, <1>5, ExchangeChanged DEF TaskInv
<1>7. xs[i] = x /\ \A j \in DOMAIN exch[t] : j # i => xs[j] = exch[t][j]
  BY <1>1
<1> HIDE DEF xs
<1>8. TaskInv(t, tasks[t], orders[t], xs)
  BY <1>1, <1>6 DEF TaskInv
<1>9. TasksInv'
  BY <1>1, <1>2, <1>5, <1>6, <1>8, OnlyExchange DEF xs
<1>10. ASSUME NEW u \in Tasks, NEW j \in DOMAIN orders[u]
       PROVE  /\ exch[u][j].at \in {"live", "done"} => exch'[u][j].at \in {"live", "done"}
              /\ exch[u][j].at = "done" => exch'[u][j].at = "done"
  <2>1. j \in DOMAIN exch[u]
    BY <1>1 DEF TasksInv, TaskInv, Rows
  <2>2. CASE u = t
    <3>1. exch'[t] = xs
      BY <1>1, <1>5 DEF xs, TasksInv
    <3> QED BY <1>5, <1>7, <2>1, <2>2, <3>1
  <2>3. CASE u # t
    <3>1. exch'[u] = exch[u]
      BY <1>1, <1>5, <2>3 DEF TasksInv
    <3> QED BY <3>1
  <2> QED BY <2>2, <2>3
<1>11. TypeOK'
  BY <1>2, <1>9 DEF MultiLegInv, TypeOK, TasksInv, work, admin
<1>12. InHand'
  BY <1>2, <1>10 DEF MultiLegInv, InHand, work, Last
<1> QED BY <1>9, <1>11, <1>12 DEF MultiLegInv, TasksInv

---------------------------------------------------------------------------
(* The invariant is inductive *)

\* No task, no orders.
LEMMA InitHasInv == Init => MultiLegInv
<1> SUFFICES ASSUME Init PROVE MultiLegInv
  OBVIOUS
<1>1. TypeOK
  BY MultiLegAssumption DEF Init, TypeOK, TaskStatuses, Steps, Idle
<1>2. ASSUME NEW t \in Tasks PROVE TaskInv(t, tasks[t], orders[t], exch[t])
  <2>1. tasks[t] = "none" /\ orders[t] = <<>> /\ exch[t] = <<>>
    BY DEF Init
  <2> QED BY <2>1, NoRows, EmptyTask DEF TaskStatuses
<1>3. InHand
  BY DEF Init, InHand
<1> QED BY <1>1, <1>2, <1>3 DEF MultiLegInv

\* Every step of anyone keeps the invariant.
LEMMA NextKeepsInv == MultiLegInv /\ [Next]_vars => MultiLegInv'
<1> SUFFICES ASSUME MultiLegInv, [Next]_vars PROVE MultiLegInv'
  OBVIOUS
<1>1. CASE ControlChanges
  <2>1. /\ control' \in {"ready", "paused"}
        /\ UNCHANGED <<tasks, admin, orders, exch, work, crashes>>
    BY <1>1, MultiLegAssumption DEF ControlChanges
  <2> QED BY <2>1 DEF MultiLegInv, TypeOK, InHand, admin, work, Last
<1>2. CASE Crash
  <2>1. /\ PassEnds /\ crashes' \in 0..MaxCrashes /\ control' \in {"ready", "paused"}
        /\ UNCHANGED <<control, tasks, admin, orders, exch>>
    BY <1>2, MultiLegAssumption DEF Crash, MultiLegInv, TypeOK
  <2>2. TasksInv'
    BY <2>1, InvHasTasks DEF TasksInv
  <2> QED BY <2>1, <2>2, PassOver
<1>3. ASSUME NEW t \in Tasks, Administrator(t) PROVE MultiLegInv'
  BY <1>3, AdministratorKeeps
<1>4. ASSUME NEW t \in Tasks, PaperStep(t) PROVE MultiLegInv'
  BY <1>4, PaperStepKeeps
<1>5. ASSUME NEW t \in Tasks, WorkerStep(t) PROVE MultiLegInv'
  BY <1>5, ClaimKeeps, RaiseKeeps, CreateNextOrderKeeps, CompleteTaskKeeps,
     CreateCompensationKeeps, CompensationDoneKeeps, LookupKeeps, AnswerKeeps,
     ObserveKeeps DEF WorkerStep
<1>6. ASSUME NEW t \in Tasks, NEW i \in DOMAIN exch[t], ExchangeStep(t, i)
      PROVE  MultiLegInv'
  BY <1>6, ExchangeKeeps
<1>7. CASE UNCHANGED vars
  BY <1>7 DEF vars, MultiLegInv, TypeOK, InHand, admin, work, Last
<1> QED BY <1>1, <1>2, <1>3, <1>4, <1>5, <1>6, <1>7 DEF Next

\* The invariant of all the theorems below.
LEMMA InvHolds == Spec => []MultiLegInv
BY InitHasInv, NextKeepsInv, PTL DEF Spec

---------------------------------------------------------------------------
(* What the invariant means for the exchange *)

\* What the exchange holds of a leg lies between what the ledger has seen and
\* what the orders can still come to.
LEMMA GotBetween ==
    ASSUME MultiLegInv, NEW t \in Tasks, NEW leg \in Legs, NEW purpose
    PROVE  LET F == FilledIn(orders[t], leg, purpose)
               G == Got(t, leg, purpose)
               R == ReachIn(orders[t], leg, purpose)
           IN  F \in Nat /\ G \in Nat /\ R \in Nat /\ F <= G /\ G <= R
<1>1. /\ orders[t] \in Seq(OrderRows) /\ exch[t] \in Seq(ExchRows)
      /\ Rows(orders[t], exch[t])
  BY InvHasTasks DEF TasksInv, TaskInv
<1>2. Got(t, leg, purpose) = GotIn(orders[t], exch[t], leg, purpose)
  BY FilledIsSum
<1> QED BY <1>1, <1>2, SumsOfRows

\* Types.
THEOREM TaskTypes == Spec => []TypeOK
<1>1. MultiLegInv => TypeOK
  BY DEF MultiLegInv
<1> QED BY <1>1, InvHolds, PTL

\* No order is created beside one that could still be filled, and the ledger
\* has the fills of every order before the last: the next order is sized on them.
THEOREM SupersededOrdersHaveEnded == Spec => []SupersededOrdersEnded
<1>1. MultiLegInv => SupersededOrdersEnded
  <2> SUFFICES ASSUME MultiLegInv, NEW t \in Tasks, NEW i \in DOMAIN orders[t], i < Last(t)
               PROVE  /\ orders[t][i].status \in Ended
                      /\ exch[t][i].at = "done"
                      /\ orders[t][i].filled = exch[t][i].got
    BY DEF SupersededOrdersEnded
  <2>1. Rows(orders[t], exch[t])
    BY DEF MultiLegInv, TaskInv
  <2> QED BY <2>1 DEF Rows, Matches, Last
<1> QED BY <1>1, InvHolds, PTL

\* Through chases, retries, lost answers and restarts no leg of any task is
\* filled beyond its target, or traded back beyond what was filled.
THEOREM NothingIsOverfilled == Spec => []NothingOverfilled
<1>1. MultiLegInv => NothingOverfilled
  <2> SUFFICES ASSUME MultiLegInv, NEW t \in Tasks, NEW leg \in Legs
               PROVE  /\ Got(t, leg, "primary") <= Target[leg]
                      /\ Got(t, leg, "compensation") <= Got(t, leg, "primary")
    BY DEF NothingOverfilled
  <2> DEFINE F == FilledIn(orders[t], leg, "primary")
             G == Got(t, leg, "primary")
             R == ReachIn(orders[t], leg, "primary")
             D == Got(t, leg, "compensation")
             C == ReachIn(orders[t], leg, "compensation")
  <2>1. /\ F \in Nat /\ G \in Nat /\ R \in Nat /\ F <= G /\ G <= R
        /\ D \in Nat /\ C \in Nat /\ D <= C
    BY GotBetween
  <2>2. R <= Target[leg] /\ C <= F /\ Target[leg] \in Nat
    BY MultiLegAssumption DEF MultiLegInv, TaskInv, Budget
  <2> HIDE DEF F, G, R, D, C
  <2>3. G <= Target[leg] /\ D <= G
    BY <2>1, <2>2
  <2> QED BY <2>3 DEF G, D
<1> QED BY <1>1, InvHolds, PTL

\* A hedge never holds more, of its target, than the anchor does of its own.
THEOREM HedgesNeverLead == Spec => []HedgeNeverLeads
<1>1. MultiLegInv => HedgeNeverLeads
  <2> SUFFICES ASSUME MultiLegInv, NEW t \in Tasks \ PaperTasks, NEW leg \in Hedges
               PROVE  Got(t, leg, "primary") * Target[Anchor]
                         <= Got(t, Anchor, "primary") * Target[leg]
    BY DEF HedgeNeverLeads
  <2> DEFINE F == FilledIn(orders[t], Anchor, "primary")
             GA == Got(t, Anchor, "primary")
             G == Got(t, leg, "primary")
             R == ReachIn(orders[t], leg, "primary")
             A == Target[Anchor]
             T == Target[leg]
  <2>1. leg \in Legs /\ Anchor \in Legs /\ A \in Nat /\ T \in Nat
    BY MultiLegAssumption DEF Hedges
  <2>2. F \in Nat /\ GA \in Nat /\ F <= GA /\ G \in Nat /\ R \in Nat /\ G <= R
    BY <2>1, GotBetween
  <2>3. R * A <= F * T
    BY DEF MultiLegInv, TaskInv, Paced
  <2> HIDE DEF F, GA, G, R, A, T
  <2>4. G * A <= R * A /\ F * T <= GA * T
    <3>1. G \in Int /\ R \in Int /\ F \in Int /\ GA \in Int
      BY <2>2
    <3> QED BY <2>1, <2>2, <3>1, ProductGrows
  <2>5. G * A \in Nat /\ R * A \in Nat /\ F * T \in Nat /\ GA * T \in Nat
    BY <2>1, <2>2, ProductIsNatural
  <2>6. G * A <= GA * T
    BY <2>3, <2>4, <2>5
  <2> QED BY <2>6 DEF G, A, GA, T
<1> QED BY <1>1, InvHolds, PTL

\* The anchor is never more than one of its orders ahead of a hedge, beyond the
\* fills the hedges wait for.
THEOREM ExposureIsBounded == Spec => []ExposureWithinOneOrder
<1>1. MultiLegInv => ExposureWithinOneOrder
  <2> SUFFICES ASSUME MultiLegInv, NEW t \in Tasks \ PaperTasks, NEW leg \in Hedges
               PROVE  Got(t, Anchor, "primary") * Target[leg]
                        - Got(t, leg, "primary") * Target[Anchor]
                        <= (Max({HedgeFrom - 1, 0}) + OneOrder(Anchor)) * Target[leg]
    BY DEF ExposureWithinOneOrder
  <2> DEFINE F == FilledIn(orders[t], leg, "primary")
             GA == Got(t, Anchor, "primary")
             G == Got(t, leg, "primary")
             R == ReachIn(orders[t], Anchor, "primary")
             A == Target[Anchor]
             T == Target[leg]
             W == Max({HedgeFrom - 1, 0}) + OneOrder(Anchor)
  <2>1. leg \in Legs /\ Anchor \in Legs /\ A \in Nat /\ T \in Nat
    BY MultiLegAssumption DEF Hedges
  <2>2. F \in Nat /\ G \in Nat /\ F <= G /\ GA \in Nat /\ R \in Nat /\ GA <= R
    BY <2>1, GotBetween
  <2>3. R * T - F * A <= W * T
    BY DEF MultiLegInv, TaskInv, Paced
  <2>4. W \in Nat
    <3>1. HedgeFrom \in Nat /\ OneOrder(Anchor) \in Nat
      BY MultiLegAssumption DEF OneOrder
    <3>2. Max({HedgeFrom - 1, 0}) \in Nat
      BY <3>1, WaitedFor
    <3> QED BY <3>1, <3>2
  <2> HIDE DEF F, GA, G, R, A, T, W
  <2>5. GA * T <= R * T /\ F * A <= G * A
    <3>1. G \in Int /\ R \in Int /\ F \in Int /\ GA \in Int
      BY <2>2
    <3> QED BY <2>1, <2>2, <3>1, ProductGrows
  <2>6. GA * T \in Nat /\ R * T \in Nat /\ F * A \in Nat /\ G * A \in Nat /\ W * T \in Nat
    BY <2>1, <2>2, <2>4, ProductIsNatural
  <2>7. GA * T - G * A <= W * T
    BY <2>3, <2>5, <2>6
  <2> QED BY <2>7 DEF GA, T, G, A, W
<1> QED BY <1>1, InvHolds, PTL

\* A completed task holds every leg at its target, and a failed one nothing, but
\* for an order that was never recorded as sent; no order is left behind.
THEOREM FinishedIsAsRecorded == Spec => []FinishedAsRecorded
<1>1. MultiLegInv => FinishedAsRecorded
  <2> SUFFICES ASSUME MultiLegInv, NEW t \in Tasks
               PROVE  CompletedIsHedged(t) /\ FailedIsFlat(t)
    BY DEF FinishedAsRecorded
  <2>1. /\ orders[t] \in Seq(OrderRows) /\ exch[t] \in Seq(ExchRows)
        /\ Rows(orders[t], exch[t]) /\ Outcome(tasks[t], orders[t])
    BY InvHasTasks DEF TasksInv, TaskInv
  <2>2. ASSUME AllEnded(orders[t])
        PROVE  /\ AtExchange(t) = {}
               /\ \A leg \in Legs : \A p \in {"primary", "compensation"} :
                     Got(t, leg, p) = FilledIn(orders[t], leg, p)
    <3>1. AtExchange(t) = {}
      <4> SUFFICES ASSUME NEW i \in DOMAIN exch[t] PROVE exch[t][i].at \notin {"sent", "live"}
        BY DEF AtExchange
      <4>1. i \in DOMAIN orders[t] /\ orders[t][i].status \in Ended
        BY <2>1, <2>2 DEF Rows, AllEnded
      <4>2. exch[t][i].at = "done"
        BY <2>1, <4>1 DEF Rows, Matches
      <4> QED BY <4>2
    <3>2. ASSUME NEW leg \in Legs, NEW p \in {"primary", "compensation"}
          PROVE  Got(t, leg, p) = FilledIn(orders[t], leg, p)
      <4> DEFINE F == FilledIn(orders[t], leg, p)
                 G == Got(t, leg, p)
                 R == ReachIn(orders[t], leg, p)
      <4>1. F \in Nat /\ G \in Nat /\ R \in Nat /\ F <= G /\ G <= R
        BY GotBetween
      <4>2. R = F
        BY <2>1, <2>2, SumsOfEnded
      <4> HIDE DEF F, G, R
      <4>3. G = F
        BY <4>1, <4>2
      <4> QED BY <4>3 DEF G, F
    <3> QED BY <3>1, <3>2
  <2>3. CompletedIsHedged(t)
    BY <2>1, <2>2 DEF CompletedIsHedged, Outcome
  <2>4. FailedIsFlat(t)
    <3> SUFFICES ASSUME tasks[t] = "failed",
                        \A i \in DOMAIN orders[t] : orders[t][i].status # "created"
                 PROVE  /\ \A leg \in Legs : Got(t, leg, "primary") = Got(t, leg, "compensation")
                        /\ AtExchange(t) = {}
      BY DEF FailedIsFlat
    <3>1. /\ AllEnded(orders[t])
          /\ \A leg \in Legs : FilledIn(orders[t], leg, "primary")
                                  = FilledIn(orders[t], leg, "compensation")
      BY <2>1 DEF Outcome, SomeCreated
    <3> QED BY <2>2, <3>1
  <2> QED BY <2>3, <2>4
<1> QED BY <1>1, InvHolds, PTL
=============================================================================
