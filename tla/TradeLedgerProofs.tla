------------------------- MODULE TradeLedgerProofs -------------------------
(***************************************************************************)
(* The tickets and the reservations of TradeLedger, for any number of      *)
(* clients, keys, assets, intents, previews, settings and crashes: a       *)
(* ticket becomes one intent, a position is reserved by one close, rows    *)
(* stay within what was planned, positions say what both legs hold, and    *)
(* the trader has one pair of an asset at a time.                          *)
(***************************************************************************)
EXTENDS TradeLedger, SumTheorems, TLAPS, WellFoundedInduction

---------------------------------------------------------------------------
(* The inductive invariant *)

Key == [kind : {"none", "request", "open", "close"}, of : Nat, quote : Nat]
Environments == {"live", "paper"}
Actions == {"open", "close"}
Order == [leg : {"none", "spot", "perp"}, qty : Int,
          status : {"none", "created", "filled", "failed"}]

Preview ==
    [action : Actions, target : Nat, emergency : BOOLEAN, qty : Int,
     config : Nat, key : Key, fresh : BOOLEAN]
Intent ==
    [env : Environments, action : Actions, target : Nat, emergency : BOOLEAN,
     preview : Nat, key : Key, qty : Int, status : IntentStatuses,
     spot : Int, perp : Int, order : Order]
Position ==
    [status : {"none", "open", "closing", "closed"}, qty : Int, closer : Nat]
Request ==
    [pc : {"idle", "recheck", "reserve", "pause", "find", "price", "insert"},
     env : Environments, action : Actions, target : Nat, emergency : BOOLEAN,
     preview : Nat, key : Key, keyed : BOOLEAN, config : Nat, qty : Int]
Worker ==
    [pc : {"idle", "paper", "live", "ready", "trader", "keys", "decide", "plan"},
     todo : SUBSET Nat, seen : SUBSET (Nat \X {"open", "closing"}), blocked : SUBSET Nat]

\* The rows and the requests have their fields; what the worker has picked is
\* among the intents.
Shape ==
    /\ previews \in Seq(Preview) /\ intents \in Seq(Intent)
    /\ Len(intents) <= MaxIntents
    /\ positions \in [IntentIds -> Position]
    /\ requests \in [Planners -> Request]
    /\ worker \in Worker /\ worker.todo \subseteq DOMAIN intents
    /\ config \in Nat /\ quote \in Nat /\ scenario \in Scenarios

\* What a row or a request says of its ticket.
OfTicket(r) ==
    /\ r.preview \in DOMAIN previews /\ r.key # NoKey
    /\ previews[r.preview].target = r.target
    /\ previews[r.preview].action = r.action
    /\ previews[r.preview].emergency = r.emergency

\* A request that has passed its reservation.
Holds(r) == r.pc \in {"pause", "find", "price", "insert"}

Entitled(r) ==
    r.preview # 0 =>
        OfTicket(r) /\ (Holds(r) => previews[r.preview].key = r.key)

Tickets ==
    /\ \A i, j \in DOMAIN intents : intents[i].key = intents[j].key => i = j
    /\ \A i \in DOMAIN intents : intents[i].preview # 0 =>
          OfTicket(intents[i]) /\ previews[intents[i].preview].key = intents[i].key
    /\ \A c \in Planners : Entitled(requests[c])

Pending(r, action) == r.action = action /\ r.status \in Unsettled

Reservations ==
    /\ \A p \in IntentIds : positions[p].status = "closing" =>
          /\ positions[p].closer \in DOMAIN intents
          /\ Pending(intents[positions[p].closer], "close")
          /\ intents[positions[p].closer].target = p
    /\ \A i \in DOMAIN intents : Pending(intents[i], "close") =>
          /\ intents[i].target \in IntentIds
          /\ positions[intents[i].target].status = "closing"
          /\ positions[intents[i].target].closer = i
    /\ \A i \in DOMAIN intents : Pending(intents[i], "open") => positions[i].status = "none"
    /\ \A p \in IntentIds \ DOMAIN intents : positions[p].status = "none"

LedgerInv == Shape /\ Tickets /\ Reservations

---------------------------------------------------------------------------
(* Sequences and minimums *)

\* Replacing an element of a sequence.
LEMMA Replaced ==
    ASSUME NEW S, NEW s \in Seq(S), NEW i \in DOMAIN s, NEW v \in S
    PROVE  LET t == [s EXCEPT ![i] = v]
           IN  /\ t \in Seq(S) /\ DOMAIN t = DOMAIN s /\ Len(t) = Len(s)
               /\ t[i] = v /\ \A j \in DOMAIN s : j # i => t[j] = s[j]
OBVIOUS

\* Adding one at the end.
LEMMA Appended ==
    ASSUME NEW S, NEW s \in Seq(S), NEW v \in S
    PROVE  LET t == Append(s, v)
           IN  /\ t \in Seq(S) /\ DOMAIN t = DOMAIN s \cup {Len(s) + 1}
               /\ Len(t) = Len(s) + 1 /\ Len(s) + 1 \notin DOMAIN s
               /\ t[Len(s) + 1] = v /\ \A j \in DOMAIN s : t[j] = s[j]
OBVIOUS

\* The least of some numbers is one of them.
LEMMA MinIsMember ==
    ASSUME NEW S \in SUBSET Nat, S # {}
    PROVE  Min(S) \in S
<1>1. PICK x \in S : \A y \in S : ~ (<<y, x>> \in OpToRel(<, Nat))
  BY NatLessThanWellFounded, WFMin
<1>2. \A y \in S : x <= y
  <2> SUFFICES ASSUME NEW y \in S PROVE x <= y
    OBVIOUS
  <2>1. ~ (y < x)
    BY <1>1 DEF OpToRel
  <2> QED BY <2>1
<1> QED BY <1>2 DEF Min

---------------------------------------------------------------------------
(* Steps of tickets and requests *)

\* Intents are numbered from one and are no more than the bound.
LEMMA IntentNumbers ==
    ASSUME LedgerInv
    PROVE  /\ DOMAIN intents = 1..Len(intents) /\ Len(intents) \in Nat
           /\ DOMAIN intents \subseteq IntentIds /\ IntentIds \subseteq Nat \ {0}
           /\ \A i \in DOMAIN intents : intents[i] \in Intent
           /\ \A p \in IntentIds : positions[p] \in Position
<1>1. intents \in Seq(Intent) /\ Len(intents) <= MaxIntents /\ MaxIntents \in Nat
      /\ positions \in [IntentIds -> Position]
  BY LedgerAssumption DEF LedgerInv, Shape
<1>2. /\ DOMAIN intents = 1..Len(intents) /\ Len(intents) \in Nat
      /\ \A i \in DOMAIN intents : intents[i] \in Intent
  BY <1>1
<1> QED BY <1>1, <1>2 DEF IntentIds

\* A step that leaves intents and positions alone keeps the invariant if a
\* ticket only ever gets a key while it has none, and each request that
\* changes is entitled to where it goes.
LEMMA TicketStep ==
    ASSUME LedgerInv, UNCHANGED <<intents, positions, scenario>>,
           previews' \in Seq(Preview),
           \A p \in DOMAIN previews :
              /\ p \in DOMAIN previews'
              /\ previews'[p].target = previews[p].target
              /\ previews'[p].action = previews[p].action
              /\ previews'[p].emergency = previews[p].emergency
              /\ previews'[p].key = previews[p].key \/ previews[p].key = NoKey,
           requests' \in [Planners -> Request],
           \A c \in Planners : requests'[c] = requests[c] \/ Entitled(requests[c])',
           worker' \in Worker, worker'.todo \subseteq DOMAIN intents,
           config' \in Nat, quote' \in Nat
    PROVE  LedgerInv'
<1>1. Shape'
  BY DEF LedgerInv, Shape
<1>2. Reservations'
  BY DEF LedgerInv, Reservations, Pending
<1>3. \A c \in Planners : Entitled(requests[c])'
  <2> SUFFICES ASSUME NEW c \in Planners, requests'[c] = requests[c]
               PROVE  Entitled(requests[c])'
    OBVIOUS
  <2>1. Entitled(requests[c])
    BY DEF LedgerInv, Tickets
  <2> QED BY <2>1 DEF Entitled, OfTicket, Holds
<1>4. ASSUME NEW i \in DOMAIN intents, intents[i].preview # 0
      PROVE  OfTicket(intents[i])' /\ previews'[intents[i].preview].key = intents[i].key
  <2>1. OfTicket(intents[i]) /\ previews[intents[i].preview].key = intents[i].key
    BY <1>4 DEF LedgerInv, Tickets
  <2> QED BY <2>1 DEF OfTicket
<1>5. Tickets'
  BY <1>3, <1>4 DEF LedgerInv, Tickets
<1> QED BY <1>1, <1>2, <1>5 DEF LedgerInv

\* The same where the tickets stay as they are.
LEMMA RequestStep ==
    ASSUME LedgerInv, UNCHANGED <<intents, positions, scenario, previews>>,
           requests' \in [Planners -> Request],
           \A c \in Planners : requests'[c] = requests[c] \/ Entitled(requests[c])',
           worker' \in Worker, worker'.todo \subseteq DOMAIN intents,
           config' \in Nat, quote' \in Nat
    PROVE  LedgerInv'
<1>1. previews' \in Seq(Preview)
  BY DEF LedgerInv, Shape
<1> QED BY <1>1, TicketStep

\* The same where nothing but the worker, the settings or a switch changes.
LEMMA WorkerStep ==
    ASSUME LedgerInv,
           UNCHANGED <<intents, positions, scenario, previews, requests>>,
           worker' \in Worker, worker'.todo \subseteq DOMAIN intents,
           config' \in Nat, quote' \in Nat
    PROVE  LedgerInv'
<1>1. requests' \in [Planners -> Request]
  BY DEF LedgerInv, Shape
<1> QED BY <1>1, RequestStep

\* An idle request asks for nothing.
LEMMA IdleIsEntitled == Idle \in Request /\ Idle.preview = 0
BY DEF Idle, Request, NoKey, Key, Environments, Actions

\* A request that ends.
LEMMA Ended ==
    ASSUME LedgerInv, NEW c \in Planners, End(c),
           UNCHANGED <<intents, positions, scenario, previews, worker, config, quote>>
    PROVE  LedgerInv'
<1>1. requests' \in [Planners -> Request]
  BY IdleIsEntitled DEF End, LedgerInv, Shape
<1>2. \A d \in Planners : requests'[d] = requests[d] \/ Entitled(requests[d])'
  BY IdleIsEntitled DEF End, LedgerInv, Shape, Entitled
<1>3. worker' \in Worker /\ worker'.todo \subseteq DOMAIN intents /\ config' \in Nat
      /\ quote' \in Nat
  BY DEF LedgerInv, Shape
<1> QED BY <1>1, <1>2, <1>3, RequestStep

\* What a step that only changes one request has to keep.
LEMMA OneRequest ==
    ASSUME LedgerInv, NEW c \in Planners,
           UNCHANGED <<intents, positions, scenario, previews, worker, config, quote>>,
           requests'[c] \in Request, Entitled(requests[c])',
           requests' = [requests EXCEPT ![c] = requests'[c]]
    PROVE  LedgerInv'
<1>1. requests' \in [Planners -> Request]
  BY DEF LedgerInv, Shape
<1>2. \A d \in Planners : requests'[d] = requests[d] \/ Entitled(requests[d])'
  BY DEF LedgerInv, Shape
<1>3. worker' \in Worker /\ worker'.todo \subseteq DOMAIN intents /\ config' \in Nat
      /\ quote' \in Nat
  BY DEF LedgerInv, Shape
<1> QED BY <1>1, <1>2, <1>3, RequestStep

\* A confirmation starts with what the ticket shows.
LEMMA ConfirmKeeps ==
    ASSUME LedgerInv, NEW c \in Planners, NEW p \in DOMAIN previews, NEW n \in RequestKeys,
           Confirm(c, p, Uuid(n))
    PROVE  LedgerInv'
<1> DEFINE r == requests'[c]
<1>1. previews[p] \in Preview /\ p \in Nat
  BY DEF LedgerInv, Shape
<1>2. Uuid(n) \in Key /\ Uuid(n) # NoKey
  BY LedgerAssumption DEF Uuid, Key, NoKey
<1>3. requests' = [requests EXCEPT ![c] = r]
      /\ r = [pc |-> "recheck", env |-> "live", action |-> previews[p].action,
              target |-> previews[p].target, emergency |-> previews[p].emergency,
              preview |-> p, key |-> Uuid(n), keyed |-> previews[p].key # NoKey,
              config |-> previews[p].config, qty |-> previews[p].qty]
  BY DEF Confirm, LedgerInv, Shape
<1> HIDE DEF r
<1>4. r \in Request
  BY <1>1, <1>2, <1>3 DEF Request, Preview, Environments
<1>5. UNCHANGED <<intents, positions, scenario, previews, worker, config, quote>>
  BY DEF Confirm, environment
<1>6. Entitled(requests[c])'
  BY <1>2, <1>3, <1>5 DEF Entitled, OfTicket, Holds, r
<1> QED BY <1>3, <1>4, <1>5, <1>6, OneRequest DEF r

\* A paper request has no ticket.
LEMMA PaperRequestKeeps ==
    ASSUME LedgerInv, NEW c \in Planners, NEW action \in Actions, NEW target \in Nat,
           NEW n \in RequestKeys, PaperRequest(c, action, target, Uuid(n))
    PROVE  LedgerInv'
<1> DEFINE r == requests'[c]
<1>1. Uuid(n) \in Key
  BY LedgerAssumption DEF Uuid, Key
<1>2. requests' = [requests EXCEPT ![c] = r] /\ r \in Request /\ r.preview = 0
  BY <1>1, IdleIsEntitled DEF PaperRequest, LedgerInv, Shape, Request, Environments
<1> HIDE DEF r
<1>3. UNCHANGED <<intents, positions, scenario, previews, worker, config, quote>>
  BY DEF PaperRequest, environment
<1>4. Entitled(requests[c])'
  BY <1>2 DEF Entitled, r
<1> QED BY <1>2, <1>3, <1>4, OneRequest DEF r

\* A request that moves on without changing what it asks for, and to where it
\* may be, stays entitled.
LEMMA MovesOn ==
    ASSUME LedgerInv, NEW c \in Planners,
           UNCHANGED <<intents, positions, scenario, previews, worker, config, quote>>,
           requests' = [requests EXCEPT ![c] = requests'[c]],
           requests'[c] \in Request,
           requests'[c].preview = requests[c].preview,
           requests'[c].key = requests[c].key,
           requests'[c].target = requests[c].target,
           requests'[c].action = requests[c].action,
           requests'[c].emergency = requests[c].emergency,
           Holds(requests[c])' => Holds(requests[c])
    PROVE  LedgerInv'
<1>1. Entitled(requests[c])
  BY DEF LedgerInv, Tickets
<1>2. Entitled(requests[c])'
  BY <1>1 DEF Entitled, OfTicket
<1> QED BY <1>2, OneRequest

\* The second look at the market or the position.
LEMMA RecheckKeeps ==
    ASSUME LedgerInv, NEW c \in Planners, Recheck(c)
    PROVE  LedgerInv'
<1>1. requests[c] \in Request /\ requests \in [Planners -> Request] /\ config \in Nat
  BY DEF LedgerInv, Shape
<1>2. ASSUME requests[c].action = "close", Closable(requests[c].target, "live")
      PROVE  positions[requests[c].target].qty \in Int
  <2>1. requests[c].target \in IntentIds
    BY <1>2, IntentNumbers DEF Closable
  <2> QED BY <2>1, IntentNumbers DEF Position
<1>3. /\ requests' = [requests EXCEPT ![c] = requests'[c]]
      /\ requests'[c] \in Request
      /\ requests'[c].preview = requests[c].preview
      /\ requests'[c].key = requests[c].key
      /\ requests'[c].target = requests[c].target
      /\ requests'[c].action = requests[c].action
      /\ requests'[c].emergency = requests[c].emergency
      /\ requests'[c].pc = "reserve"
  <2>1. CASE requests' = [requests EXCEPT ![c].pc = "reserve"]
    BY <1>1, <2>1 DEF Request
  <2>2. CASE requests' = [requests EXCEPT ![c].pc = "reserve", ![c].config = config]
    BY <1>1, <2>2 DEF Request
  <2>3. CASE /\ requests[c].action = "close" /\ Closable(requests[c].target, "live")
             /\ requests' = [requests EXCEPT ![c].pc = "reserve", ![c].config = config,
                                 ![c].qty = positions[requests[c].target].qty]
    <3> DEFINE q == positions[requests[c].target].qty
    <3>1. q \in Int
      BY <1>2, <2>3
    <3>2. requests' = [requests EXCEPT ![c].pc = "reserve", ![c].config = config,
                                       ![c].qty = q]
      BY <2>3
    <3> HIDE DEF q
    <3> QED BY <1>1, <3>1, <3>2 DEF Request
  <2> QED BY <2>1, <2>2, <2>3 DEF Recheck, Goto
<1>4. UNCHANGED <<intents, positions, scenario, previews, worker, config, quote>>
  BY DEF Recheck, environment
<1>5. ~ Holds(requests[c])'
  BY <1>3 DEF Holds
<1> QED BY <1>3, <1>4, <1>5, MovesOn

\* A ticket is reserved with a key: it had none, or this one.
LEMMA ReserveKeeps ==
    ASSUME LedgerInv, NEW c \in Planners, Reserve(c)
    PROVE  LedgerInv'
<1> DEFINE r == requests[c]
           p == r.preview
<1>1. r \in Request /\ requests \in [Planners -> Request] /\ previews \in Seq(Preview)
  BY DEF LedgerInv, Shape
<1>2. Reservable(r) /\ previews' = [previews EXCEPT ![p].key = r.key]
  BY DEF Reserve
<1>3. requests' = [requests EXCEPT ![c].pc = IF r.emergency THEN "pause" ELSE "find"]
  BY DEF Reserve, Goto
<1>4. Entitled(r)
  BY DEF LedgerInv, Tickets
<1> HIDE DEF r
<1>5. requests' \in [Planners -> Request]
  BY <1>1, <1>3 DEF Request
<1>6. /\ requests'[c].preview = p /\ requests'[c].key = r.key
      /\ requests'[c].target = r.target /\ requests'[c].action = r.action
      /\ requests'[c].emergency = r.emergency
      /\ \A d \in Planners : d # c => requests'[d] = requests[d]
  BY <1>1, <1>3 DEF Request, r
<1>7. p \in DOMAIN previews => previews[p] \in Preview /\ r.key \in Key
  BY <1>1 DEF Request
<1>8. previews[p].key = r.key \/ previews[p].key = NoKey
  BY <1>2 DEF Reservable
<1>9. /\ previews' \in Seq(Preview) /\ DOMAIN previews' = DOMAIN previews
      /\ \A q \in DOMAIN previews :
            /\ previews'[q].target = previews[q].target
            /\ previews'[q].action = previews[q].action
            /\ previews'[q].emergency = previews[q].emergency
            /\ previews'[q].key = previews[q].key \/ previews[q].key = NoKey
      /\ p \in DOMAIN previews => previews'[p].key = r.key
  <2>1. CASE p \in DOMAIN previews
    <3> DEFINE v == [previews[p] EXCEPT !.key = r.key]
    <3>1. v \in Preview /\ v.key = r.key /\ v.target = previews[p].target
          /\ v.action = previews[p].action /\ v.emergency = previews[p].emergency
      BY <1>7, <2>1 DEF Preview
    <3>2. previews' = [previews EXCEPT ![p] = v]
      BY <1>2
    <3> HIDE DEF v
    <3> QED BY <1>1, <1>8, <2>1, <3>1, <3>2, Replaced
  <2>2. CASE p \notin DOMAIN previews
    <3>1. previews' = previews
      BY <1>1, <1>2, <2>2
    <3> QED BY <1>1, <2>2, <3>1
  <2> QED BY <2>1, <2>2
<1>10. Entitled(requests[c])'
  BY <1>4, <1>6, <1>9 DEF Entitled, OfTicket
<1>11. UNCHANGED <<intents, positions, scenario, worker, config, quote>>
  BY DEF Reserve, environment
<1>12. worker' \in Worker /\ worker'.todo \subseteq DOMAIN intents /\ config' \in Nat
       /\ quote' \in Nat
  BY <1>11 DEF LedgerInv, Shape
<1> QED BY <1>5, <1>6, <1>9, <1>10, <1>11, <1>12, TicketStep

\* The remaining steps up to the insertion move on or end.
LEMMA PlanningKeeps ==
    ASSUME LedgerInv, NEW c \in Planners,
           \/ NotReservable(c) \/ PauseForClose(c) \/ FindExisting(c)
           \/ Price(c) \/ Refused(c) \/ NotInserted(c)
    PROVE  LedgerInv'
<1>1. UNCHANGED <<intents, positions, scenario, previews, worker, config, quote>>
  BY DEF NotReservable, PauseForClose, FindExisting, Price, Refused, NotInserted,
     environment
<1>2. requests[c] \in Request /\ requests \in [Planners -> Request] /\ config \in Nat
  BY DEF LedgerInv, Shape
<1>3. CASE End(c)
  BY <1>1, <1>3, Ended
<1>4. CASE Holds(requests[c]) /\ \E pc \in {"find", "price"} : Goto(c, pc)
  <2>1. /\ requests' = [requests EXCEPT ![c] = requests'[c]]
        /\ requests'[c] \in Request
        /\ requests'[c].preview = requests[c].preview
        /\ requests'[c].key = requests[c].key
        /\ requests'[c].target = requests[c].target
        /\ requests'[c].action = requests[c].action
        /\ requests'[c].emergency = requests[c].emergency
    BY <1>2, <1>4 DEF Goto, Request
  <2> QED BY <1>1, <1>4, <2>1, MovesOn
<1>5. CASE Price(c)
  <2> DEFINE q == IF requests[c].action = "open" THEN Quantity
                  ELSE positions[requests[c].target].qty
  <2>1. q \in Int
    <3>1. CASE requests[c].action = "open"
      BY <3>1, LedgerAssumption
    <3>2. CASE requests[c].action # "open"
      <4>1. Closable(requests[c].target, requests[c].env)
        BY <1>2, <1>5, <3>2 DEF Price, Request, Actions
      <4>2. requests[c].target \in IntentIds
        BY <4>1, IntentNumbers DEF Closable
      <4> QED BY <3>2, <4>2, IntentNumbers DEF Position
    <3> QED BY <3>1, <3>2
  <2>2. requests' = [requests EXCEPT ![c].pc = "insert", ![c].config = config,
                                     ![c].qty = q]
        /\ requests[c].pc = "price"
    BY <1>5 DEF Price
  <2> HIDE DEF q
  <2>3. /\ requests' = [requests EXCEPT ![c] = requests'[c]]
        /\ requests'[c] \in Request
        /\ requests'[c].preview = requests[c].preview
        /\ requests'[c].key = requests[c].key
        /\ requests'[c].target = requests[c].target
        /\ requests'[c].action = requests[c].action
        /\ requests'[c].emergency = requests[c].emergency
    BY <1>2, <2>1, <2>2 DEF Request
  <2>4. Holds(requests[c])
    BY <2>2 DEF Holds
  <2> QED BY <1>1, <2>3, <2>4, MovesOn
<1> QED BY <1>3, <1>4, <1>5 DEF NotReservable, PauseForClose, FindExisting, Refused,
        NotInserted, Holds

---------------------------------------------------------------------------
(* The insertion *)

\* A planned row of a request is for the request's ticket, and a new key.
LEMMA InsertTickets ==
    ASSUME LedgerInv, NEW c \in Planners, Insert(c)
    PROVE  Shape' /\ Tickets'
<1> DEFINE r == requests[c]
           i == Len(intents) + 1
           row == PlannedRow(r)
<1>1. r \in Request /\ requests \in [Planners -> Request] /\ intents \in Seq(Intent)
      /\ positions \in [IntentIds -> Position]
  BY DEF LedgerInv, Shape
<1>2. r.pc = "insert" /\ Insertable(r) /\ i \in IntentIds
      /\ intents' = Append(intents, row)
  BY DEF Insert
<1>3. requests' = [requests EXCEPT ![c] = Idle] /\ UNCHANGED <<previews, worker, config, quote, scenario>>
  BY DEF Insert, End, environment
<1>4. Entitled(r)
  BY DEF LedgerInv, Tickets
<1> HIDE DEF r
<1>5. row \in Intent /\ row.key = r.key /\ row.preview = r.preview
      /\ row.target = r.target /\ row.action = r.action /\ row.emergency = r.emergency
      /\ row.status = "planned"
  BY <1>1 DEF PlannedRow, Request, Intent, NoOrder, Order, IntentStatuses, Unsettled
<1> HIDE DEF row
<1>6. /\ intents' \in Seq(Intent) /\ DOMAIN intents' = DOMAIN intents \cup {i}
      /\ Len(intents') = i /\ i \notin DOMAIN intents /\ intents'[i] = row
      /\ \A j \in DOMAIN intents : intents'[j] = intents[j]
  BY <1>1, <1>2, <1>5, Appended
<1>7. MaxIntents \in Nat /\ i <= MaxIntents /\ i \in Nat
  BY <1>2, LedgerAssumption DEF IntentIds
<1>8. positions' \in [IntentIds -> Position]
  <2>1. CASE positions' = positions
    BY <1>1, <2>1
  <2>2. CASE positions' = [positions EXCEPT ![r.target].status = "closing",
                                            ![r.target].closer = i]
    BY <1>1, <1>7, <2>2 DEF Position
  <2> QED BY <2>1, <2>2 DEF Insert, r
<1>9. requests' \in [Planners -> Request]
  BY <1>1, <1>3, IdleIsEntitled
<1>10. Shape'
  BY <1>3, <1>6, <1>7, <1>8, <1>9 DEF LedgerInv, Shape
<1>11. \A j \in DOMAIN intents : intents[j].key # row.key
  BY <1>2, <1>5 DEF Insertable, Existing
<1>12. ASSUME NEW j \in DOMAIN intents', intents'[j].preview # 0
       PROVE  OfTicket(intents[j])' /\ previews'[intents'[j].preview].key = intents'[j].key
  <2>1. CASE j \in DOMAIN intents
    <3>1. OfTicket(intents[j]) /\ previews[intents[j].preview].key = intents[j].key
      BY <1>6, <1>12, <2>1 DEF LedgerInv, Tickets
    <3> QED BY <1>3, <1>6, <2>1, <3>1 DEF OfTicket
  <2>2. CASE j = i
    <3>1. r.preview # 0
      BY <1>5, <1>6, <1>12, <2>2
    <3>2. OfTicket(r) /\ previews[r.preview].key = r.key
      BY <1>2, <1>4, <3>1 DEF Entitled, Holds
    <3> QED BY <1>3, <1>5, <1>6, <2>2, <3>2 DEF OfTicket
  <2> QED BY <1>6, <2>1, <2>2
<1>13. ASSUME NEW d \in Planners PROVE Entitled(requests[d])'
  <2>1. CASE d = c
    BY <1>1, <1>3, <2>1, IdleIsEntitled DEF Entitled
  <2>2. CASE d # c
    <3>1. Entitled(requests[d]) /\ requests'[d] = requests[d]
      BY <1>1, <1>3, <2>2 DEF LedgerInv, Tickets
    <3> QED BY <1>3, <3>1 DEF Entitled, OfTicket, Holds
  <2> QED BY <2>1, <2>2
<1>14. \A j, k \in DOMAIN intents' : intents'[j].key = intents'[k].key => j = k
  BY <1>6, <1>11 DEF LedgerInv, Tickets
<1> QED BY <1>10, <1>12, <1>13, <1>14 DEF Tickets

\* A close that is planned finds its position open and reserves it; an open
\* gets a number that no position has.
LEMMA InsertReserves ==
    ASSUME LedgerInv, NEW c \in Planners, Insert(c)
    PROVE  Reservations'
<1> DEFINE r == requests[c]
           i == Len(intents) + 1
           row == PlannedRow(r)
<1>1. r \in Request /\ intents \in Seq(Intent) /\ positions \in [IntentIds -> Position]
  BY DEF LedgerInv, Shape
<1>2. Insertable(r) /\ i \in IntentIds /\ intents' = Append(intents, row)
      /\ positions' = IF r.action = "open" THEN positions
                      ELSE [positions EXCEPT ![r.target].status = "closing",
                                             ![r.target].closer = i]
  BY DEF Insert
<1> HIDE DEF r
<1>3. row \in Intent /\ row.target = r.target /\ row.action = r.action
      /\ row.status = "planned"
  BY <1>1 DEF PlannedRow, Request, Intent, NoOrder, Order, IntentStatuses, Unsettled
<1> HIDE DEF row
<1>4. /\ DOMAIN intents' = DOMAIN intents \cup {i} /\ i \notin DOMAIN intents
      /\ intents'[i] = row /\ \A j \in DOMAIN intents : intents'[j] = intents[j]
  BY <1>1, <1>2, <1>3, Appended
<1>5. DOMAIN intents \subseteq IntentIds
  BY IntentNumbers
<1>6. /\ \A p \in IntentIds : positions[p].status = "closing" =>
            /\ positions[p].closer \in DOMAIN intents
            /\ Pending(intents[positions[p].closer], "close")
            /\ intents[positions[p].closer].target = p
      /\ \A j \in DOMAIN intents : Pending(intents[j], "close") =>
            /\ intents[j].target \in IntentIds
            /\ positions[intents[j].target].status = "closing"
            /\ positions[intents[j].target].closer = j
      /\ \A j \in DOMAIN intents : Pending(intents[j], "open") => positions[j].status = "none"
      /\ \A p \in IntentIds \ DOMAIN intents : positions[p].status = "none"
  BY DEF LedgerInv, Reservations
<1> HIDE DEF i
<1>8. CASE r.action = "open"
  <2>1. positions' = positions
    BY <1>2, <1>8
  <2>2. ~ Pending(intents'[i], "close")
    BY <1>3, <1>4, <1>8 DEF Pending
  <2>3. \A p \in IntentIds : positions'[p].status = "closing" =>
            /\ positions'[p].closer \in DOMAIN intents'
            /\ Pending(intents'[positions'[p].closer], "close")
            /\ intents'[positions'[p].closer].target = p
    BY <1>4, <1>6, <2>1
  <2>4. \A j \in DOMAIN intents' : Pending(intents'[j], "close") =>
            /\ intents'[j].target \in IntentIds
            /\ positions'[intents'[j].target].status = "closing"
            /\ positions'[intents'[j].target].closer = j
    BY <1>4, <1>6, <2>1, <2>2
  <2>5. positions'[i].status = "none"
    BY <1>2, <1>4, <1>6, <2>1
  <2>6. \A j \in DOMAIN intents' : Pending(intents'[j], "open") => positions'[j].status = "none"
    BY <1>4, <1>6, <2>1, <2>5
  <2>7. \A p \in IntentIds \ DOMAIN intents' : positions'[p].status = "none"
    BY <1>4, <1>6, <2>1
  <2> QED BY <2>3, <2>4, <2>6, <2>7 DEF Reservations
<1>9. CASE r.action = "close"
  <2>1. r.target \in DOMAIN intents /\ positions[r.target].status = "open"
    BY <1>2, <1>9 DEF Insertable, Closable
  <2>2. /\ positions'[r.target].status = "closing" /\ positions'[r.target].closer = i
        /\ \A p \in IntentIds : p # r.target => positions'[p] = positions[p]
    BY <1>1, <1>2, <1>5, <1>9, <2>1 DEF Position
  <2>3. Pending(intents'[i], "close") /\ ~ Pending(intents'[i], "open")
    BY <1>3, <1>4, <1>9 DEF Pending, Unsettled
  <2>4. \A j \in DOMAIN intents : Pending(intents[j], "close") => intents[j].target # r.target
    BY <1>6, <2>1
  <2>5. \A j \in DOMAIN intents : Pending(intents[j], "open") => j # r.target
    BY <1>6, <2>1
  <2>6. \A p \in IntentIds : positions'[p].status = "closing" =>
            /\ positions'[p].closer \in DOMAIN intents'
            /\ Pending(intents'[positions'[p].closer], "close")
            /\ intents'[positions'[p].closer].target = p
    <3> SUFFICES ASSUME NEW p \in IntentIds, positions'[p].status = "closing"
                 PROVE  /\ positions'[p].closer \in DOMAIN intents'
                        /\ Pending(intents'[positions'[p].closer], "close")
                        /\ intents'[positions'[p].closer].target = p
      OBVIOUS
    <3>1. CASE p = r.target
      BY <1>3, <1>4, <2>2, <2>3, <3>1 DEF Pending
    <3>2. CASE p # r.target
      BY <1>4, <1>6, <2>2, <3>2 DEF Pending
    <3> QED BY <3>1, <3>2
  <2>7. \A j \in DOMAIN intents' : Pending(intents'[j], "close") =>
            /\ intents'[j].target \in IntentIds
            /\ positions'[intents'[j].target].status = "closing"
            /\ positions'[intents'[j].target].closer = j
    BY <1>3, <1>4, <1>5, <1>6, <2>1, <2>2, <2>4
  <2>8. \A j \in DOMAIN intents' : Pending(intents'[j], "open") => positions'[j].status = "none"
    BY <1>4, <1>5, <1>6, <2>2, <2>3, <2>5
  <2>9. \A p \in IntentIds \ DOMAIN intents' : positions'[p].status = "none"
    BY <1>4, <1>6, <2>1, <2>2
  <2> QED BY <2>6, <2>7, <2>8, <2>9 DEF Reservations
<1> QED BY <1>1, <1>8, <1>9 DEF Request, Actions

---------------------------------------------------------------------------
(* Fills, settlements and reviews *)

\* The worker's step i of an intent to a row for the same request.
Progresses(i, row) ==
    /\ i \in DOMAIN intents /\ row \in Intent
    /\ intents' = [intents EXCEPT ![i] = row]
    /\ row.key = intents[i].key /\ row.preview = intents[i].preview
    /\ row.target = intents[i].target /\ row.action = intents[i].action
    /\ row.emergency = intents[i].emergency

\* What a worker's step leaves alone.
Undisturbed ==
    /\ UNCHANGED <<previews, requests, scenario, config, quote>>
    /\ worker' \in Worker /\ worker'.todo \subseteq DOMAIN intents

\* Rows that progress stay with their tickets.
LEMMA ProgressTickets ==
    ASSUME LedgerInv, NEW i, NEW row, Progresses(i, row), Undisturbed,
           positions' \in [IntentIds -> Position]
    PROVE  Shape' /\ Tickets'
<1>1. /\ intents' \in Seq(Intent) /\ DOMAIN intents' = DOMAIN intents
      /\ Len(intents') = Len(intents) /\ intents'[i] = row
      /\ \A j \in DOMAIN intents : j # i => intents'[j] = intents[j]
  BY Replaced DEF Progresses, LedgerInv, Shape
<1>2. Shape'
  BY <1>1 DEF Undisturbed, LedgerInv, Shape
<1>3. \A j \in DOMAIN intents :
          /\ intents'[j].key = intents[j].key /\ intents'[j].preview = intents[j].preview
          /\ intents'[j].target = intents[j].target
          /\ intents'[j].action = intents[j].action
          /\ intents'[j].emergency = intents[j].emergency
  BY <1>1 DEF Progresses
<1>4. \A j, k \in DOMAIN intents' : intents'[j].key = intents'[k].key => j = k
  BY <1>1, <1>3 DEF LedgerInv, Tickets
<1>5. ASSUME NEW j \in DOMAIN intents', intents'[j].preview # 0
      PROVE  OfTicket(intents[j])' /\ previews'[intents'[j].preview].key = intents'[j].key
  <2>1. OfTicket(intents[j]) /\ previews[intents[j].preview].key = intents[j].key
    BY <1>1, <1>3, <1>5 DEF LedgerInv, Tickets
  <2> QED BY <1>1, <1>3, <2>1 DEF OfTicket, Undisturbed
<1>6. ASSUME NEW c \in Planners PROVE Entitled(requests[c])'
  <2>1. Entitled(requests[c])
    BY DEF LedgerInv, Tickets
  <2> QED BY <2>1 DEF Entitled, OfTicket, Holds, Undisturbed
<1> QED BY <1>2, <1>4, <1>5, <1>6 DEF Tickets

\* The four parts of Reservations, for a step that replaces one row.
LEMMA ReservationParts ==
    ASSUME LedgerInv
    PROVE  /\ \A p \in IntentIds : positions[p].status = "closing" =>
                 /\ positions[p].closer \in DOMAIN intents
                 /\ Pending(intents[positions[p].closer], "close")
                 /\ intents[positions[p].closer].target = p
           /\ \A j \in DOMAIN intents : Pending(intents[j], "close") =>
                 /\ intents[j].target \in IntentIds
                 /\ positions[intents[j].target].status = "closing"
                 /\ positions[intents[j].target].closer = j
           /\ \A j \in DOMAIN intents :
                 Pending(intents[j], "open") => positions[j].status = "none"
           /\ \A p \in IntentIds \ DOMAIN intents : positions[p].status = "none"
BY DEF LedgerInv, Reservations

\* An unsettled intent that stays unsettled keeps what it has reserved.
LEMMA StillPending ==
    ASSUME LedgerInv, NEW i, NEW row, Progresses(i, row), Undisturbed,
           intents[i].status \in Unsettled, row.status \in Unsettled,
           positions' = positions
    PROVE  LedgerInv'
<1>1. /\ DOMAIN intents' = DOMAIN intents /\ intents'[i] = row /\ i \in DOMAIN intents
      /\ \A j \in DOMAIN intents : j # i => intents'[j] = intents[j]
  BY Replaced DEF Progresses, LedgerInv, Shape
<1>2. \A j \in DOMAIN intents :
          /\ intents'[j].target = intents[j].target
          /\ Pending(intents'[j], "close") <=> Pending(intents[j], "close")
          /\ Pending(intents'[j], "open") <=> Pending(intents[j], "open")
  BY <1>1 DEF Progresses, Pending
<1>3. \A p \in IntentIds : positions'[p].status = "closing" =>
          /\ positions'[p].closer \in DOMAIN intents'
          /\ Pending(intents'[positions'[p].closer], "close")
          /\ intents'[positions'[p].closer].target = p
  BY <1>1, <1>2, ReservationParts
<1>4. \A j \in DOMAIN intents' : Pending(intents'[j], "close") =>
          /\ intents'[j].target \in IntentIds
          /\ positions'[intents'[j].target].status = "closing"
          /\ positions'[intents'[j].target].closer = j
  BY <1>1, <1>2, ReservationParts
<1>5. \A j \in DOMAIN intents' : Pending(intents'[j], "open") => positions'[j].status = "none"
  BY <1>1, <1>2, ReservationParts
<1>6. \A p \in IntentIds \ DOMAIN intents' : positions'[p].status = "none"
  BY <1>1, ReservationParts
<1>7. Reservations'
  BY <1>3, <1>4, <1>5, <1>6 DEF Reservations
<1>8. positions' \in [IntentIds -> Position]
  BY DEF LedgerInv, Shape
<1> QED BY <1>7, <1>8, ProgressTickets DEF LedgerInv

\* A settled open may have a position, which nothing referred to before.
LEMMA OpenSettled ==
    ASSUME LedgerInv, NEW i, NEW row, Progresses(i, row), Undisturbed,
           Pending(intents[i], "open"), row.status \notin Unsettled,
           \/ positions' = positions
           \/ \E q \in Int : positions' = [positions EXCEPT ![i] =
                                   [status |-> "open", qty |-> q, closer |-> 0]]
    PROVE  LedgerInv'
<1>1. /\ DOMAIN intents' = DOMAIN intents /\ intents'[i] = row /\ i \in DOMAIN intents
      /\ \A j \in DOMAIN intents : j # i => intents'[j] = intents[j]
  BY Replaced DEF Progresses, LedgerInv, Shape
<1>2. i \in IntentIds /\ positions \in [IntentIds -> Position] /\ positions[i].status = "none"
  BY <1>1, IntentNumbers, ReservationParts DEF LedgerInv, Shape
<1>3. /\ positions' \in [IntentIds -> Position] /\ positions'[i].status # "closing"
      /\ \A p \in IntentIds : p # i => positions'[p] = positions[p]
  BY <1>2 DEF Position
<1>4. ~ Pending(intents'[i], "open") /\ ~ Pending(intents'[i], "close")
      /\ ~ Pending(intents[i], "close")
  BY <1>1 DEF Pending
<1>5. \A p \in IntentIds : positions'[p].status = "closing" =>
          /\ positions'[p].closer \in DOMAIN intents'
          /\ Pending(intents'[positions'[p].closer], "close")
          /\ intents'[positions'[p].closer].target = p
  <2> SUFFICES ASSUME NEW p \in IntentIds, positions'[p].status = "closing"
               PROVE  /\ positions'[p].closer \in DOMAIN intents'
                      /\ Pending(intents'[positions'[p].closer], "close")
                      /\ intents'[positions'[p].closer].target = p
    OBVIOUS
  <2>1. p # i /\ positions'[p] = positions[p]
    BY <1>3
  <2>2. positions[p].closer # i
    BY <1>4, <2>1, ReservationParts
  <2> QED BY <1>1, <2>1, <2>2, ReservationParts
<1>6. ASSUME NEW j \in DOMAIN intents', Pending(intents'[j], "close")
      PROVE  /\ intents'[j].target \in IntentIds
             /\ positions'[intents'[j].target].status = "closing"
             /\ positions'[intents'[j].target].closer = j
  <2>1. j # i /\ intents'[j] = intents[j] /\ j \in DOMAIN intents
    BY <1>1, <1>4, <1>6
  <2>2. /\ intents[j].target \in IntentIds
        /\ positions[intents[j].target].status = "closing"
        /\ positions[intents[j].target].closer = j
    BY <1>6, <2>1, ReservationParts
  <2>3. intents[j].target # i
    BY <1>2, <2>2
  <2> QED BY <1>3, <2>1, <2>2, <2>3
<1>7. \A j \in DOMAIN intents' : Pending(intents'[j], "open") => positions'[j].status = "none"
  BY <1>1, <1>3, <1>4, IntentNumbers, ReservationParts
<1>8. \A p \in IntentIds \ DOMAIN intents' : positions'[p].status = "none"
  BY <1>1, <1>3, ReservationParts
<1>9. Reservations'
  BY <1>5, <1>6, <1>7, <1>8 DEF Reservations
<1> QED BY <1>3, <1>9, ProgressTickets DEF LedgerInv

\* A settled close gives its position back, or ends it; it was the only one to
\* reserve it.
LEMMA CloseSettled ==
    ASSUME LedgerInv, NEW i, NEW row, Progresses(i, row), Undisturbed,
           Pending(intents[i], "close"), row.status \notin Unsettled,
           NEW new \in Position, new.status \in {"open", "closed"},
           positions' = [positions EXCEPT ![intents[i].target] = new]
    PROVE  LedgerInv'
<1> DEFINE t == intents[i].target
<1>1. /\ DOMAIN intents' = DOMAIN intents /\ intents'[i] = row /\ i \in DOMAIN intents
      /\ \A j \in DOMAIN intents : j # i => intents'[j] = intents[j]
  BY Replaced DEF Progresses, LedgerInv, Shape
<1>2. t \in IntentIds /\ positions \in [IntentIds -> Position]
      /\ positions[t].status = "closing" /\ positions[t].closer = i
  BY <1>1, ReservationParts DEF LedgerInv, Shape
<1>3. /\ positions' \in [IntentIds -> Position] /\ positions'[t] = new
      /\ \A p \in IntentIds : p # t => positions'[p] = positions[p]
  BY <1>2
<1>4. ~ Pending(intents'[i], "open") /\ ~ Pending(intents'[i], "close")
  BY <1>1 DEF Pending
<1> HIDE DEF t
<1>5. \A p \in IntentIds : positions'[p].status = "closing" =>
          /\ positions'[p].closer \in DOMAIN intents'
          /\ Pending(intents'[positions'[p].closer], "close")
          /\ intents'[positions'[p].closer].target = p
  <2> SUFFICES ASSUME NEW p \in IntentIds, positions'[p].status = "closing"
               PROVE  /\ positions'[p].closer \in DOMAIN intents'
                      /\ Pending(intents'[positions'[p].closer], "close")
                      /\ intents'[positions'[p].closer].target = p
    OBVIOUS
  <2>1. p # t /\ positions'[p] = positions[p]
    BY <1>3
  <2>2. positions[p].closer # i
    BY <2>1, ReservationParts DEF t
  <2> QED BY <1>1, <2>1, <2>2, ReservationParts
<1>6. ASSUME NEW j \in DOMAIN intents', Pending(intents'[j], "close")
      PROVE  /\ intents'[j].target \in IntentIds
             /\ positions'[intents'[j].target].status = "closing"
             /\ positions'[intents'[j].target].closer = j
  <2>1. j # i /\ intents'[j] = intents[j] /\ j \in DOMAIN intents
    BY <1>1, <1>4, <1>6
  <2>2. /\ intents[j].target \in IntentIds
        /\ positions[intents[j].target].status = "closing"
        /\ positions[intents[j].target].closer = j
    BY <1>6, <2>1, ReservationParts
  <2>3. intents[j].target # t
    BY <1>2, <2>1, <2>2
  <2> QED BY <1>3, <2>1, <2>2, <2>3
<1>7. ASSUME NEW j \in DOMAIN intents', Pending(intents'[j], "open")
      PROVE  positions'[j].status = "none"
  <2>1. j # i /\ intents'[j] = intents[j] /\ j \in DOMAIN intents
    BY <1>1, <1>4, <1>7
  <2>2. positions[j].status = "none" /\ j \in IntentIds
    BY <1>7, <2>1, IntentNumbers, ReservationParts
  <2> QED BY <1>2, <1>3, <2>2
<1>8. \A p \in IntentIds \ DOMAIN intents' : positions'[p].status = "none"
  BY <1>1, <1>2, <1>3, ReservationParts
<1>9. Reservations'
  BY <1>5, <1>6, <1>7, <1>8 DEF Reservations
<1> QED BY <1>3, <1>9, ProgressTickets DEF LedgerInv

\* Settling an unsettled intent of either kind.
LEMMA SettlesKeeps ==
    ASSUME LedgerInv, NEW i \in DOMAIN intents, intents[i].status \in Unsettled,
           NEW spot \in Int, NEW perp \in Int, NEW order \in Order,
           Settles(i, spot, perp, order), Undisturbed
    PROVE  LedgerInv'
<1> DEFINE common == Lesser(spot, perp)
<1>1. intents[i] \in Intent /\ intents \in Seq(Intent) /\ i \in IntentIds /\ i \in Nat
      /\ common \in Int
  BY IntentNumbers DEF LedgerInv, Shape, Lesser
<1> HIDE DEF common
<1>2. ASSUME NEW status \in {"hedged", "closed", "failed"},
             intents' = [intents EXCEPT ![i].spot = spot, ![i].perp = perp,
                            ![i].order = order, ![i].status = status]
      PROVE  \E row : Progresses(i, row) /\ row.status \notin Unsettled
  <2> DEFINE row == [intents[i] EXCEPT !.spot = spot, !.perp = perp,
                                       !.order = order, !.status = status]
  <2>1. /\ row \in Intent /\ row.status = status
        /\ row.key = intents[i].key /\ row.preview = intents[i].preview
        /\ row.target = intents[i].target /\ row.action = intents[i].action
        /\ row.emergency = intents[i].emergency
    BY <1>1 DEF Intent, IntentStatuses
  <2>2. intents' = [intents EXCEPT ![i] = row]
    BY <1>1, <1>2
  <2> HIDE DEF row
  <2>3. Progresses(i, row) /\ row.status \notin Unsettled
    BY <2>1, <2>2 DEF Progresses, Unsettled
  <2> QED BY <2>3
<1>3. CASE intents[i].action = "open" /\ OpenSettles(i, spot, perp, order)
  <2>1. PICK row : Progresses(i, row) /\ row.status \notin Unsettled
    BY <1>2, <1>3 DEF OpenSettles
  <2>2. Pending(intents[i], "open")
    BY <1>3 DEF Pending
  <2>3. \/ positions' = positions
        \/ \E q \in Int : positions' = [positions EXCEPT ![i] =
                                [status |-> "open", qty |-> q, closer |-> 0]]
    BY <1>1, <1>3 DEF OpenSettles, common
  <2> QED BY <2>1, <2>2, <2>3, OpenSettled
<1>4. CASE intents[i].action = "close" /\ CloseSettles(i, spot, perp, order)
  <2> DEFINE t == intents[i].target
             left == positions[t].qty - common
             new == IF left = 0 THEN [status |-> "closed", qty |-> 0, closer |-> i]
                    ELSE [status |-> "open", qty |-> left, closer |-> 0]
  <2>1. PICK row : Progresses(i, row) /\ row.status \notin Unsettled
    BY <1>2, <1>4 DEF CloseSettles
  <2>2. Pending(intents[i], "close")
    BY <1>4 DEF Pending
  <2>3. t \in IntentIds
    BY <2>2, ReservationParts
  <2>4. positions[t].qty \in Int
    BY <2>3, IntentNumbers DEF Position
  <2>5. positions' = [positions EXCEPT ![t] = new]
    BY <1>4 DEF CloseSettles, common
  <2>6. left \in Int
    BY <1>1, <2>4
  <2> HIDE DEF left
  <2>7. new \in Position /\ new.status \in {"open", "closed"}
    BY <1>1, <2>6 DEF Position
  <2> HIDE DEF new
  <2> QED BY <2>1, <2>2, <2>5, <2>7, CloseSettled
<1> QED BY <1>3, <1>4 DEF Settles

\* The worker takes up an intent it picked.
LEMMA OldestIsPicked ==
    ASSUME LedgerInv, worker.todo # {}
    PROVE  /\ Oldest \in DOMAIN intents /\ intents[Oldest] \in Intent
           /\ NextCandidate =>
                 worker' \in Worker /\ worker'.todo \subseteq DOMAIN intents
<1>1. worker \in Worker /\ worker.todo \subseteq DOMAIN intents
  BY DEF LedgerInv, Shape
<1>2. worker.todo \in SUBSET Nat
  BY <1>1 DEF Worker
<1>3. Oldest \in worker.todo
  BY <1>2, MinIsMember DEF Oldest
<1> HIDE DEF Oldest
<1>4. NextCandidate => worker' \in Worker /\ worker'.todo \subseteq DOMAIN intents
  BY <1>1, <1>2 DEF NextCandidate, Worker
<1> QED BY <1>1, <1>3, <1>4, IntentNumbers

\* Quarters of a quantity.
LEMMA PartIsInt ==
    ASSUME NEW i, intents[i] \in Intent, NEW quarters \in 0..4
    PROVE  Part(i, quarters) \in Int
<1>1. intents[i].qty \in Int /\ quarters \in Int
  BY DEF Intent
<1>2. intents[i].qty * quarters \in Int
  BY <1>1
<1> QED BY <1>2 DEF Part

\* Paper fills settle, or leave an order of the excess to be compensated.
LEMMA FillsKeep ==
    ASSUME LedgerInv, NEW action \in Actions, NEW ratio \in Ratios,
           PaperFills(action, ratio)
    PROVE  LedgerInv'
<1> DEFINE i == Oldest
           spot == Part(i, ratio.spot)
           perp == Part(i, ratio.perp)
<1>1. i \in DOMAIN intents /\ intents[i] \in Intent
      /\ (NextCandidate => worker' \in Worker /\ worker'.todo \subseteq DOMAIN intents)
  BY OldestIsPicked DEF PaperFills
<1> HIDE DEF i
<1>2. spot \in Int /\ perp \in Int
  <2>1. ratio.spot \in 0..4 /\ ratio.perp \in 0..4
    BY LedgerAssumption
  <2> QED BY <1>1, <2>1, PartIsInt
<1> HIDE DEF spot, perp
<1>3. intents[i].status = "planned" /\ intents[i].status \in Unsettled
  BY DEF PaperFills, Unsettled, i
<1>4. UNCHANGED <<previews, requests, scenario, config, quote>>
  BY DEF PaperFills, environment
<1>5. NoOrder \in Order
  BY DEF NoOrder, Order
<1>6. CASE Settles(i, spot, perp, NoOrder) /\ NextCandidate
  <2>1. Undisturbed
    BY <1>1, <1>4, <1>6 DEF Undisturbed
  <2> QED BY <1>1, <1>2, <1>3, <1>5, <1>6, <2>1, SettlesKeeps
<1>7. CASE /\ intents' = [intents EXCEPT ![i].spot = spot, ![i].perp = perp,
                   ![i].order = ExcessOrder(spot, perp), ![i].status = "compensating"]
           /\ UNCHANGED <<positions, worker>>
  <2> DEFINE order == ExcessOrder(spot, perp)
             row == [intents[i] EXCEPT !.spot = spot, !.perp = perp,
                                       !.order = order, !.status = "compensating"]
  <2>1. order \in Order
    BY <1>2 DEF ExcessOrder, Excess, Order
  <2> HIDE DEF order
  <2>2. /\ row \in Intent /\ row.status \in Unsettled
        /\ row.key = intents[i].key /\ row.preview = intents[i].preview
        /\ row.target = intents[i].target /\ row.action = intents[i].action
        /\ row.emergency = intents[i].emergency
    BY <1>1, <1>2, <2>1 DEF Intent, IntentStatuses, Unsettled
  <2>3. intents' = [intents EXCEPT ![i] = row]
    BY <1>7 DEF order
  <2> HIDE DEF row
  <2>4. Progresses(i, row)
    BY <1>1, <2>2, <2>3 DEF Progresses
  <2>5. Undisturbed
    BY <1>4, <1>7 DEF Undisturbed, LedgerInv, Shape
  <2> QED BY <1>3, <1>7, <2>2, <2>4, <2>5, StillPending
<1> QED BY <1>6, <1>7 DEF PaperFills, i, spot, perp

\* The excess order's fill settles; its failure leaves the intent to review.
LEMMA CompensationKeeps ==
    ASSUME LedgerInv, NEW action \in Actions, NEW succeeds \in Compensates,
           PaperCompensates(action, succeeds)
    PROVE  LedgerInv'
<1> DEFINE i == Oldest
<1>1. i \in DOMAIN intents /\ intents[i] \in Intent
      /\ worker' \in Worker /\ worker'.todo \subseteq DOMAIN intents
  BY OldestIsPicked DEF PaperCompensates
<1> HIDE DEF i
<1>2. intents[i].status \in Unsettled
  BY DEF PaperCompensates, Unsettled, i
<1>3. Undisturbed
  BY <1>1 DEF PaperCompensates, environment, Undisturbed
<1>4. intents[i].spot \in Int /\ intents[i].perp \in Int /\ intents[i].order \in Order
  BY <1>1 DEF Intent
<1>5. CASE succeeds
  <2> DEFINE order == [intents[i].order EXCEPT !.status = "filled"]
  <2>1. order \in Order
    BY <1>4 DEF Order
  <2>2. Settles(i, intents[i].spot, intents[i].perp, order)
    BY <1>5 DEF PaperCompensates, i
  <2> HIDE DEF order
  <2> QED BY <1>1, <1>2, <1>3, <1>4, <2>1, <2>2, SettlesKeeps
<1>6. CASE ~ succeeds
  <2> DEFINE order == [intents[i].order EXCEPT !.status = "failed"]
             row == [intents[i] EXCEPT !.status = "manual_review", !.order = order]
  <2>1. order \in Order
    BY <1>4 DEF Order
  <2>2. /\ row \in Intent /\ row.status \in Unsettled
        /\ row.key = intents[i].key /\ row.preview = intents[i].preview
        /\ row.target = intents[i].target /\ row.action = intents[i].action
        /\ row.emergency = intents[i].emergency
    BY <1>1, <2>1 DEF Intent, IntentStatuses, Unsettled
  <2>3. intents' = [intents EXCEPT ![i] = row] /\ positions' = positions
    BY <1>1, <1>6 DEF PaperCompensates, Intent, i
  <2> HIDE DEF row
  <2>4. Progresses(i, row)
    BY <1>1, <2>2, <2>3 DEF Progresses
  <2> QED BY <1>2, <1>3, <2>2, <2>3, <2>4, StillPending
<1> QED BY <1>5, <1>6

\* The worker goes to its next step with nothing in hand.
LEMMA StepTyped ==
    ASSUME NEW pc \in {"idle", "live", "ready", "trader", "plan"}, Step(pc)
    PROVE  worker' \in Worker /\ worker'.todo = {}
BY DEF Step, Resting, Worker

\* The live services settle the oldest intent that may run, or leave it to
\* review.
LEMMA LiveKeeps ==
    ASSUME LedgerInv, LiveSettles \/ LiveReview
    PROVE  LedgerInv'
<1> DEFINE queue == {i \in DOMAIN intents : Executable(i)}
           i == Min(queue)
<1>1. queue # {} /\ queue \in SUBSET Nat
  BY IntentNumbers DEF LiveSettles, LiveReview
<1>2. i \in queue
  BY <1>1, MinIsMember
<1>3. i \in DOMAIN intents /\ intents[i].status = "planned"
  BY <1>2 DEF Executable
<1> HIDE DEF i
<1>4. intents[i] \in Intent /\ intents[i].status \in Unsettled
  BY <1>3, IntentNumbers DEF Unsettled
<1>5. Undisturbed
  BY StepTyped DEF LiveSettles, LiveReview, Undisturbed, environment
<1>6. CASE LiveSettles
  <2>1. PICK filled \in {0} \cup {Part(i, ratio.spot) : ratio \in Ratios} :
            Settles(i, filled, filled, NoOrder)
    BY <1>6 DEF LiveSettles, i
  <2>2. filled \in Int
    BY <1>4, PartIsInt, LedgerAssumption
  <2>3. NoOrder \in Order
    BY DEF NoOrder, Order
  <2> QED BY <1>3, <1>4, <1>5, <2>1, <2>2, <2>3, SettlesKeeps
<1>7. CASE LiveReview
  <2> DEFINE row == [intents[i] EXCEPT !.status = "manual_review"]
  <2>1. /\ row \in Intent /\ row.status \in Unsettled
        /\ row.key = intents[i].key /\ row.preview = intents[i].preview
        /\ row.target = intents[i].target /\ row.action = intents[i].action
        /\ row.emergency = intents[i].emergency
    BY <1>4 DEF Intent, IntentStatuses, Unsettled
  <2>2. intents' = [intents EXCEPT ![i] = row] /\ positions' = positions
    BY <1>7 DEF LiveReview, i
  <2> HIDE DEF row
  <2>3. Progresses(i, row)
    BY <1>3, <2>1, <2>2 DEF Progresses
  <2> QED BY <1>4, <1>5, <2>1, <2>2, <2>3, StillPending
<1> QED BY <1>6, <1>7

---------------------------------------------------------------------------
(* The worker's round and the automatic trader *)

\* Picking paper intents and going on.
LEMMA PaperStepKeeps ==
    ASSUME LedgerInv, PaperStep
    PROVE  LedgerInv'
<1>1. worker \in Worker /\ config \in Nat /\ quote \in Nat
  BY DEF LedgerInv, Shape
<1>2. CASE StartRound
  <2>1. Candidates \subseteq DOMAIN intents /\ Candidates \in SUBSET Nat
    BY IntentNumbers DEF Candidates
  <2>2. worker' \in Worker /\ worker'.todo \subseteq DOMAIN intents
    BY <1>1, <1>2, <2>1 DEF StartRound, Worker
  <2> QED BY <1>1, <1>2, <2>2, WorkerStep DEF StartRound, environment
<1>3. CASE PaperEnds
  BY <1>1, <1>3, StepTyped, WorkerStep DEF PaperEnds, environment
<1>4. CASE \E ratio \in Ratios : RecordPaperOpenFills(ratio) \/ RecordPaperCloseFills(ratio)
  BY <1>4, FillsKeep DEF RecordPaperOpenFills, RecordPaperCloseFills, Actions
<1>5. CASE \E succeeds \in Compensates : \/ ExecutePaperCompensation(succeeds)
                                        \/ ExecutePaperCloseCompensation(succeeds)
  BY <1>5, CompensationKeeps
     DEF ExecutePaperCompensation, ExecutePaperCloseCompensation, Actions
<1>6. CASE PaperRaises
  <2>1. Resting \in Worker /\ Resting.todo = {}
    BY DEF Resting, Worker
  <2> QED BY <1>1, <1>6, <2>1, WorkerStep DEF PaperRaises, environment
<1> QED BY <1>2, <1>3, <1>4, <1>5, <1>6 DEF PaperStep

\* The trader decides for a target it read: its request has no ticket.
LEMMA DecidedKeeps ==
    ASSUME LedgerInv, NEW action \in Actions, NEW target \in Nat,
           Decided(action, target)
    PROVE  LedgerInv'
<1> DEFINE r == requests'[Trader]
<1>1. /\ requests \in [Planners -> Request] /\ Trader \in Planners /\ quote \in Nat
      /\ config \in Nat
  BY DEF LedgerInv, Shape, Planners
<1>2. TraderKey(action, target) \in Key
  BY <1>1 DEF TraderKey, Key, Actions
<1>3. requests' = [requests EXCEPT ![Trader] = [Idle EXCEPT
          !.pc = "find", !.action = action, !.target = target,
          !.key = TraderKey(action, target)]]
  BY DEF Decided
<1>4. r \in Request /\ r.preview = 0
      /\ \A c \in Planners : c # Trader => requests'[c] = requests[c]
  BY <1>1, <1>2, <1>3, IdleIsEntitled DEF Request
<1>5. requests' \in [Planners -> Request]
  BY <1>1, <1>3, <1>4
<1> HIDE DEF r
<1>6. Entitled(requests[Trader])'
  BY <1>4 DEF Entitled, r
<1>7. UNCHANGED <<intents, positions, scenario, previews, config, quote>>
  BY DEF Decided, environment
<1>8. worker' \in Worker /\ worker'.todo \subseteq DOMAIN intents
  BY StepTyped DEF Decided
<1> QED BY <1>1, <1>4, <1>5, <1>6, <1>7, <1>8, RequestStep

\* The rest of the round up to the trader's decision.
LEMMA RoundKeeps ==
    ASSUME LedgerInv,
           \/ LiveIdle \/ \E state \in {"ready", "blocked"} : RoundReady(state)
           \/ RoundPaused \/ TraderReads \/ TraderReadsKeys \/ TraderWaits
           \/ TraderStops \/ RoundEnds
    PROVE  LedgerInv'
<1>1. /\ worker \in Worker /\ worker.todo \subseteq DOMAIN intents
      /\ config \in Nat /\ quote \in Nat
  BY DEF LedgerInv, Shape
<1>2. UNCHANGED <<intents, positions, scenario, previews, requests, config, quote>>
  BY DEF LiveIdle, RoundReady, RoundPaused, TraderReads, TraderReadsKeys, TraderWaits,
     TraderStops, RoundEnds, environment
<1>3. CASE LiveIdle \/ RoundPaused \/ TraderWaits \/ TraderStops
           \/ \E state \in {"ready", "blocked"} : RoundReady(state)
  <2>1. \E pc \in {"idle", "live", "ready", "trader", "plan"} : Step(pc)
    BY <1>3 DEF LiveIdle, RoundReady, RoundPaused, TraderWaits, TraderStops
  <2> QED BY <1>1, <1>2, <2>1, StepTyped, WorkerStep
<1>4. CASE TraderReads
  <2>1. CASE Step("idle")
    BY <1>1, <1>2, <2>1, StepTyped, WorkerStep
  <2>2. CASE worker' = [worker EXCEPT !.pc = "keys",
               !.seen = {<<p, positions[p].status>> :
                            p \in LivePositions({"open", "closing"})}]
    <3> DEFINE seen == {<<p, positions[p].status>> :
                            p \in LivePositions({"open", "closing"})}
    <3>1. \A p \in LivePositions({"open", "closing"}) :
              p \in Nat /\ positions[p].status \in {"open", "closing"}
      BY IntentNumbers DEF LivePositions, Position
    <3>2. seen \in SUBSET (Nat \X {"open", "closing"})
      BY <3>1
    <3>3. worker' = [worker EXCEPT !.pc = "keys", !.seen = seen]
      BY <2>2
    <3> HIDE DEF seen
    <3>4. worker' \in Worker /\ worker'.todo = worker.todo
      BY <1>1, <3>2, <3>3 DEF Worker
    <3> QED BY <1>1, <1>2, <3>4, WorkerStep
  <2> QED BY <1>4, <2>1, <2>2 DEF TraderReads
<1>5. CASE TraderReadsKeys
  <2>1. OpeningAssets \in SUBSET Nat
    BY IntentNumbers DEF OpeningAssets, AssetOf, Intent
  <2>2. worker' \in Worker /\ worker'.todo = worker.todo
    BY <1>1, <1>5, <2>1 DEF TraderReadsKeys, Worker
  <2> QED BY <1>1, <1>2, <2>2, WorkerStep
<1>6. CASE RoundEnds
  <2>1. worker' \in Worker /\ worker'.todo = {}
    BY <1>6 DEF RoundEnds, Resting, Worker
  <2> QED BY <1>1, <1>2, <2>1, WorkerStep
<1> QED BY <1>3, <1>4, <1>5, <1>6

\* Planning, for a client as for the trader.
LEMMA PlanKeeps ==
    ASSUME LedgerInv, NEW c \in Planners, Plan(c)
    PROVE  LedgerInv'
BY PlanningKeeps, InsertTickets, InsertReserves DEF Plan, LedgerInv

\* A target the trader decides on is an asset or a position it read.
LEMMA RestOfRoundKeeps ==
    ASSUME LedgerInv, RestOfRound
    PROVE  LedgerInv'
<1>1. CASE LiveSettles \/ LiveReview
  BY <1>1, LiveKeeps
<1>2. CASE TraderCloses
  <2>1. PICK s \in worker.seen : Decided("close", s[1])
    BY <1>2 DEF TraderCloses
  <2>2. s[1] \in Nat
    BY DEF LedgerInv, Shape, Worker
  <2> QED BY <2>1, <2>2, DecidedKeeps DEF Actions
<1>3. CASE \E asset \in Assets : TraderOpens(asset)
  BY <1>3, DecidedKeeps, LedgerAssumption DEF TraderOpens, Actions
<1>4. CASE Plan(Trader)
  BY <1>4, PlanKeeps DEF Planners
<1>5. CASE \/ LiveIdle \/ \E state \in {"ready", "blocked"} : RoundReady(state)
           \/ RoundPaused \/ TraderReads \/ TraderReadsKeys \/ TraderWaits
           \/ TraderStops \/ RoundEnds
  BY <1>5, RoundKeeps
<1> QED BY <1>1, <1>2, <1>3, <1>4, <1>5 DEF RestOfRound

\* Any step of a client's request.
LEMMA ClientKeeps ==
    ASSUME LedgerInv, NEW c \in Clients, ClientStep(c)
    PROVE  LedgerInv'
<1>1. c \in Planners /\ scenario.keys[c] \subseteq RequestKeys
  BY LedgerAssumption DEF LedgerInv, Shape, Planners
<1>2. CASE \E p \in DOMAIN previews, n \in scenario.keys[c] : Confirm(c, p, Uuid(n))
  BY <1>1, <1>2, ConfirmKeeps
<1>3. CASE \E asset \in Assets, n \in scenario.keys[c] :
               PaperRequest(c, "open", asset, Uuid(n))
  BY <1>1, <1>3, PaperRequestKeeps, LedgerAssumption DEF Actions
<1>4. CASE \E p \in DOMAIN intents, n \in scenario.keys[c] :
               PaperRequest(c, "close", p, Uuid(n))
  BY <1>1, <1>4, PaperRequestKeeps, IntentNumbers DEF Actions
<1>5. CASE Recheck(c) \/ Reserve(c) \/ NotReservable(c) \/ PauseForClose(c) \/ Plan(c)
  BY <1>1, <1>5, RecheckKeeps, ReserveKeeps, PlanningKeeps, PlanKeeps
<1> QED BY <1>2, <1>3, <1>4, <1>5 DEF ClientStep

---------------------------------------------------------------------------
(* Previews, switches, crashes *)

\* A new preview is a new ticket without a key.
LEMMA PreviewKeeps ==
    ASSUME LedgerInv, NEW action \in Actions, NEW target \in Nat,
           NEW emergency \in BOOLEAN, NEW qty \in Int,
           AddPreview(action, target, emergency, qty)
    PROVE  LedgerInv'
<1> DEFINE p == [action |-> action, target |-> target, emergency |-> emergency,
                 qty |-> qty, config |-> config, key |-> NoKey, fresh |-> TRUE]
<1>1. /\ previews \in Seq(Preview) /\ requests \in [Planners -> Request]
      /\ worker \in Worker /\ worker.todo \subseteq DOMAIN intents
      /\ config \in Nat /\ quote \in Nat
  BY DEF LedgerInv, Shape
<1>2. p \in Preview
  BY <1>1 DEF Preview, NoKey, Key
<1>3. previews' = Append(previews, p)
      /\ UNCHANGED <<intents, positions, scenario, requests, worker, config, quote>>
  BY DEF AddPreview, environment
<1> HIDE DEF p
<1>4. /\ previews' \in Seq(Preview)
      /\ \A q \in DOMAIN previews : q \in DOMAIN previews' /\ previews'[q] = previews[q]
  BY <1>1, <1>2, <1>3, Appended
<1> QED BY <1>1, <1>3, <1>4, TicketStep

\* A ticket that expires stays what it is otherwise.
LEMMA ExpiryKeeps ==
    ASSUME LedgerInv, NEW p \in DOMAIN previews, ExpirePreview(p)
    PROVE  LedgerInv'
<1> DEFINE v == [previews[p] EXCEPT !.fresh = FALSE]
<1>1. /\ previews \in Seq(Preview) /\ requests \in [Planners -> Request]
      /\ worker \in Worker /\ worker.todo \subseteq DOMAIN intents
      /\ config \in Nat /\ quote \in Nat
  BY DEF LedgerInv, Shape
<1>2. previews[p] \in Preview
  BY <1>1
<1>3. /\ v \in Preview /\ v.target = previews[p].target /\ v.key = previews[p].key
      /\ v.action = previews[p].action /\ v.emergency = previews[p].emergency
  BY <1>2 DEF Preview
<1>4. previews' = [previews EXCEPT ![p] = v]
      /\ UNCHANGED <<intents, positions, scenario, requests, worker, config, quote>>
  BY DEF ExpirePreview, environment
<1> HIDE DEF v
<1>5. /\ previews' \in Seq(Preview) /\ DOMAIN previews' = DOMAIN previews
      /\ previews'[p] = v
      /\ \A q \in DOMAIN previews : q # p => previews'[q] = previews[q]
  BY <1>1, <1>3, <1>4, Replaced
<1>6. \A q \in DOMAIN previews :
          /\ previews'[q].target = previews[q].target
          /\ previews'[q].action = previews[q].action
          /\ previews'[q].emergency = previews[q].emergency
          /\ previews'[q].key = previews[q].key
  BY <1>3, <1>5
<1> QED BY <1>1, <1>4, <1>5, <1>6, TicketStep

\* What the administrator, the market and the machine may do at any time.
LEMMA SurroundingsKeep ==
    ASSUME LedgerInv, Surroundings
    PROVE  LedgerInv'
<1>1. /\ requests \in [Planners -> Request] /\ Trader \in Planners
      /\ worker \in Worker /\ worker.todo \subseteq DOMAIN intents
      /\ config \in Nat /\ quote \in Nat
  BY DEF LedgerInv, Shape, Planners
<1>2. CASE \/ PauseExecution \/ ResumeExecution
           \/ \E state \in {"enabled", "paused", "disabled"} : SetAutomation(state)
           \/ ChangeConfig \/ NewQuote
  <2>1. /\ UNCHANGED <<intents, positions, scenario, previews, requests, worker>>
        /\ config' \in Nat /\ quote' \in Nat
    BY <1>1, <1>2 DEF PauseExecution, ResumeExecution, SetAutomation, ChangeConfig,
       NewQuote, environment
  <2> QED BY <1>1, <2>1, WorkerStep
<1>3. CASE \E p \in DOMAIN previews : ExpirePreview(p)
  BY <1>3, ExpiryKeeps
<1>4. CASE \E asset \in Assets : PreviewOpen(asset)
  <2>1. PICK asset \in Assets : AddPreview("open", asset, FALSE, Quantity)
    BY <1>4 DEF PreviewOpen
  <2>2. asset \in Nat /\ Quantity \in Int /\ FALSE \in BOOLEAN
    BY LedgerAssumption
  <2> QED BY <2>1, <2>2, PreviewKeeps DEF Actions
<1>5. CASE \E p \in DOMAIN intents, emergency \in BOOLEAN : PreviewClose(p, emergency)
  <2>1. PICK p \in DOMAIN intents, emergency \in BOOLEAN :
            AddPreview("close", p, emergency, positions[p].qty)
    BY <1>5 DEF PreviewClose
  <2>2. p \in Nat /\ positions[p].qty \in Int
    BY IntentNumbers DEF Position
  <2> QED BY <2>1, <2>2, PreviewKeeps DEF Actions
<1>6. CASE CutOff
  <2>1. /\ requests' = [c \in Planners |-> IF c \in Clients THEN Idle ELSE requests[c]]
        /\ UNCHANGED <<intents, positions, scenario, previews, worker, config, quote>>
    BY <1>6 DEF CutOff
  <2>2. requests' \in [Planners -> Request]
    BY <1>1, <2>1, IdleIsEntitled
  <2>3. \A c \in Planners : requests'[c] = requests[c] \/ Entitled(requests[c])'
    BY <2>1, IdleIsEntitled DEF Entitled
  <2> QED BY <1>1, <2>1, <2>2, <2>3, RequestStep
<1>7. CASE WorkerCrash
  <2>1. /\ requests' = [requests EXCEPT ![Trader] = Idle] /\ worker' = Resting
        /\ UNCHANGED <<intents, positions, scenario, previews, config, quote>>
    BY <1>7 DEF WorkerCrash
  <2>2. requests' \in [Planners -> Request]
    BY <1>1, <2>1, IdleIsEntitled
  <2>3. \A c \in Planners : requests'[c] = requests[c] \/ Entitled(requests[c])'
    BY <1>1, <2>1, IdleIsEntitled DEF Entitled
  <2>4. worker' \in Worker /\ worker'.todo = {}
    BY <2>1 DEF Resting, Worker
  <2> QED BY <1>1, <2>1, <2>2, <2>3, <2>4, RequestStep
<1> QED BY <1>2, <1>3, <1>4, <1>5, <1>6, <1>7 DEF Surroundings

---------------------------------------------------------------------------
(* Tickets and reservations *)

\* At first there is no row and no request.
LEMMA InitHolds == Init => LedgerInv
<1> SUFFICES ASSUME Init PROVE LedgerInv
  OBVIOUS
<1>1. /\ previews = <<>> /\ intents = <<>> /\ config = 0 /\ quote = 0
      /\ positions = [p \in IntentIds |-> NoPosition]
      /\ requests = [c \in Planners |-> Idle] /\ worker = Resting
      /\ scenario \in Scenarios
  BY DEF Init
<1>2. Shape
  <2>1. NoPosition \in Position /\ Resting \in Worker /\ Resting.todo = {}
    BY DEF NoPosition, Position, Resting, Worker
  <2>2. MaxIntents \in Nat
    BY LedgerAssumption
  <2> QED BY <1>1, <2>1, <2>2, IdleIsEntitled DEF Shape
<1>3. Tickets
  BY <1>1, IdleIsEntitled DEF Tickets, Entitled
<1>4. Reservations
  BY <1>1 DEF Reservations, NoPosition
<1> QED BY <1>2, <1>3, <1>4 DEF LedgerInv

\* Every step keeps the invariant.
LEMMA NextKeeps == LedgerInv /\ [Next]_vars => LedgerInv'
<1> SUFFICES ASSUME LedgerInv, [Next]_vars PROVE LedgerInv'
  OBVIOUS
<1>1. CASE PaperStep
  BY <1>1, PaperStepKeeps
<1>2. CASE RestOfRound
  BY <1>2, RestOfRoundKeeps
<1>3. CASE Surroundings
  BY <1>3, SurroundingsKeep
<1>4. CASE \E c \in Clients : ClientStep(c)
  BY <1>4, ClientKeeps
<1>5. CASE UNCHANGED vars
  BY <1>5, WorkerStep DEF vars, environment, LedgerInv, Shape
<1> QED BY <1>1, <1>2, <1>3, <1>4, <1>5 DEF Next

\* A key plans one intent, and a ticket one intent, for what the ticket shows
\* and under the key that reserved it, however many requests run at once, are
\* cut off and come again (api.py's confirmations, create_trade_intent).
THEOREM TicketsPlanOnce == Spec => []OneIntentPerTicket
<1>1. LedgerInv => OneIntentPerTicket
  BY DEF LedgerInv, Tickets, OfTicket, OneIntentPerTicket
<1> QED BY <1>1, InitHolds, NextKeeps, PTL DEF Spec

\* A position is reserved by exactly one unsettled close, the one its row names,
\* whoever plans closes at once (create_trade_intent, settle_live_close).
THEOREM PositionsReservedOnce == Spec => []ReservedByOneClose
<1>1. LedgerInv => ReservedByOneClose
  <2> SUFFICES ASSUME LedgerInv, NEW p \in IntentIds
               PROVE  {i \in DOMAIN intents :
                         /\ intents[i].action = "close" /\ intents[i].target = p
                         /\ intents[i].status \in Unsettled}
                      = IF positions[p].status = "closing"
                        THEN {positions[p].closer} ELSE {}
    BY DEF ReservedByOneClose
  <2>1. \A i \in DOMAIN intents : Pending(intents[i], "close") /\ intents[i].target = p
            => positions[p].status = "closing" /\ positions[p].closer = i
    BY ReservationParts
  <2>2. positions[p].status = "closing" =>
            /\ positions[p].closer \in DOMAIN intents
            /\ Pending(intents[positions[p].closer], "close")
            /\ intents[positions[p].closer].target = p
    BY ReservationParts
  <2> QED BY <2>1, <2>2 DEF Pending
<1> QED BY <1>1, InitHolds, NextKeeps, PTL DEF Spec

---------------------------------------------------------------------------
(* The books *)

Targets == Assets \cup IntentIds
Settled == {"hedged", "closed", "failed"}

\* What a row or a request asks for.
Asked(r) ==
    /\ r.qty \in 0..Quantity /\ r.target \in Targets
    /\ r.emergency => r.action = "close"

Common(r) == Lesser(r.spot, r.perp)
Kept(r, leg) ==
    r[leg] - (IF r.order.leg = leg /\ r.order.status = "filled" THEN r.order.qty ELSE 0)

\* A row's fills: none before it is executed, an order of the excess while it
\* is compensated, and the same of both legs once it is settled.  Filling and
\* settling or compensating are one step, so none is found executing.
RowSound(r) ==
    /\ Asked(r) /\ {r.spot, r.perp, r.order.qty} \subseteq 0..Quantity
    /\ r.status # "executing"
    /\ r.status = "planned" => r.spot = 0 /\ r.perp = 0 /\ r.order = NoOrder
    /\ r.status = "compensating" => r.order = ExcessOrder(r.spot, r.perp)
    /\ r.status \in Settled => Kept(r, "spot") = Common(r) /\ Kept(r, "perp") = Common(r)

\* What each settled intent has booked.
Booked == [i \in DOMAIN intents |->
              IF intents[i].status \in Settled THEN Common(intents[i]) ELSE 0]

RowsSound == \A i \in DOMAIN intents : RowSound(intents[i])
ClosesKnown ==
    \A i \in DOMAIN intents : intents[i].action = "close" =>
       intents[i].target \in DOMAIN intents /\ intents[intents[i].target].action = "open"
PositionsSound ==
    \A p \in IntentIds :
       /\ positions[p].qty \in 0..Quantity /\ positions[p].closer \in 0..MaxIntents
       /\ positions[p].status = "none" => positions[p].qty = 0
       /\ positions[p].status # "none" => p \in DOMAIN intents /\ intents[p].action = "open"
BooksAgree ==
    \A p \in DOMAIN intents : intents[p].action = "open" =>
       positions[p].qty = Booked[p] - SumFunctionOnSet(Booked, ClosesOf(p))

BooksInv == RowsSound /\ ClosesKnown /\ PositionsSound /\ BooksAgree

\* The requests ask for quantities of that kind.
RequestsAsk ==
    /\ \A p \in DOMAIN previews : Asked(previews[p])
    /\ \A c \in Planners : /\ requests[c].qty \in 0..Quantity
                           /\ requests[c].pc # "idle" => Asked(requests[c])
    /\ \A s \in worker.seen : s[1] \in DOMAIN intents

\* Booked quantities are numbers, and zero where nothing is settled.
LEMMA BookedNumbers ==
    ASSUME LedgerInv, BooksInv
    PROVE  /\ \A i \in DOMAIN intents :
                 /\ Booked[i] \in 0..Quantity
                 /\ intents[i].status \notin Settled => Booked[i] = 0
                 /\ intents[i].status \in Settled => Booked[i] = Common(intents[i])
           /\ \A p : ClosesOf(p) \subseteq DOMAIN intents /\ IsFiniteSet(ClosesOf(p))
           /\ \A p : Numbers(Booked, ClosesOf(p))
<1>1. ASSUME NEW i \in DOMAIN intents
      PROVE  /\ Booked[i] \in 0..Quantity
             /\ intents[i].status \notin Settled => Booked[i] = 0
             /\ intents[i].status \in Settled => Booked[i] = Common(intents[i])
  <2>1. intents[i].spot \in 0..Quantity /\ intents[i].perp \in 0..Quantity
    BY DEF BooksInv, RowsSound, RowSound
  <2>2. Common(intents[i]) \in 0..Quantity /\ 0 \in 0..Quantity
    BY <2>1, LedgerAssumption DEF Common, Lesser
  <2> QED BY <2>2 DEF Booked
<1>2. ASSUME NEW p PROVE ClosesOf(p) \subseteq DOMAIN intents /\ IsFiniteSet(ClosesOf(p))
  <2>1. IsFiniteSet(DOMAIN intents)
    BY IntentNumbers, FS_Interval
  <2>2. ClosesOf(p) \subseteq DOMAIN intents
    BY DEF ClosesOf
  <2> QED BY <2>1, <2>2, FS_Subset
<1> QED BY <1>1, <1>2 DEF Numbers

\* Steps that leave the rows and the positions alone.
LEMMA BooksUnchanged ==
    ASSUME BooksInv, UNCHANGED <<intents, positions>>
    PROVE  BooksInv'
<1>1. RowsSound'
  BY DEF BooksInv, RowsSound
<1>2. ClosesKnown'
  BY DEF BooksInv, ClosesKnown
<1>3. PositionsSound'
  BY DEF BooksInv, PositionsSound
<1>4. Booked' = Booked /\ \A p : ClosesOf(p)' = ClosesOf(p)
  BY DEF Booked, ClosesOf
<1>5. BooksAgree'
  BY <1>4 DEF BooksInv, BooksAgree
<1> QED BY <1>1, <1>2, <1>3, <1>5 DEF BooksInv

\* Rows that ask for the same and the same books agree as before.
LEMMA SumsKept ==
    ASSUME LedgerInv, BooksInv, NEW p, ClosesOf(p)' = ClosesOf(p),
           \A i \in ClosesOf(p) : Booked'[i] = Booked[i]
    PROVE  SumFunctionOnSet(Booked, ClosesOf(p))' = SumFunctionOnSet(Booked, ClosesOf(p))
<1>1. Numbers(Booked, ClosesOf(p))
  BY BookedNumbers
<1>2. SumFunctionOnSet(Booked, ClosesOf(p)) = SumFunctionOnSet(Booked', ClosesOf(p))
  BY <1>1, SumAgrees
<1> QED BY <1>2

\* A planned row books nothing; nothing closes what it opens.
LEMMA InsertBooks ==
    ASSUME LedgerInv, LedgerInv', BooksInv, RequestsAsk, NEW c \in Planners, Insert(c)
    PROVE  BooksInv'
<1> DEFINE r == requests[c]
           i == Len(intents) + 1
           row == PlannedRow(r)
<1>1. /\ r \in Request /\ intents \in Seq(Intent) /\ Asked(r)
      /\ positions \in [IntentIds -> Position]
  BY DEF LedgerInv, Shape, RequestsAsk, Insert
<1>2. Insertable(r) /\ i \in IntentIds /\ intents' = Append(intents, row)
      /\ positions' = IF r.action = "open" THEN positions
                      ELSE [positions EXCEPT ![r.target].status = "closing",
                                             ![r.target].closer = i]
  BY DEF Insert
<1> HIDE DEF r
<1>3. row \in Intent /\ row.target = r.target /\ row.action = r.action
      /\ row.status = "planned" /\ RowSound(row)
  <2>1. row \in Intent /\ row.target = r.target /\ row.action = r.action
        /\ row.status = "planned"
    BY <1>1 DEF PlannedRow, Request, Intent, NoOrder, Order, IntentStatuses, Unsettled
  <2>2. 0 \in 0..Quantity
    BY LedgerAssumption
  <2> QED BY <1>1, <2>1, <2>2 DEF PlannedRow, RowSound, Asked, NoOrder, Settled
<1> HIDE DEF row
<1>4. /\ DOMAIN intents' = DOMAIN intents \cup {i} /\ i \notin DOMAIN intents
      /\ intents'[i] = row /\ \A j \in DOMAIN intents : intents'[j] = intents[j]
  BY <1>1, <1>2, <1>3, Appended
<1> HIDE DEF i
<1>5. r.action = "close" =>
         /\ r.target \in DOMAIN intents /\ r.target \in IntentIds
         /\ positions[r.target].status = "open" /\ intents[r.target].action = "open"
  <2> SUFFICES ASSUME r.action = "close"
               PROVE  /\ r.target \in DOMAIN intents /\ r.target \in IntentIds
                      /\ positions[r.target].status = "open"
                      /\ intents[r.target].action = "open"
    OBVIOUS
  <2>1. r.target \in DOMAIN intents /\ positions[r.target].status = "open"
    BY <1>2 DEF Insertable, Closable
  <2> QED BY <2>1, IntentNumbers DEF BooksInv, PositionsSound
<1>6. RowsSound'
  BY <1>3, <1>4 DEF BooksInv, RowsSound, RowSound, Asked
<1>7. ClosesKnown'
  BY <1>3, <1>4, <1>5 DEF BooksInv, ClosesKnown
<1>8. \A p \in IntentIds :
         /\ positions'[p].qty = positions[p].qty
         /\ positions'[p].closer = positions[p].closer \/ positions'[p].closer = i
         /\ \/ positions'[p].status = positions[p].status
            \/ p = r.target /\ r.action = "close" /\ positions'[p].status = "closing"
  <2>1. CASE r.action = "open"
    BY <1>2, <2>1
  <2>2. CASE r.action = "close"
    BY <1>1, <1>2, <1>5, <2>2 DEF Position
  <2> QED BY <1>1, <2>1, <2>2 DEF Request, Actions
<1>9. i \in 0..MaxIntents
  BY <1>2, LedgerAssumption DEF IntentIds
<1>10. PositionsSound'
  <2> SUFFICES ASSUME NEW p \in IntentIds
               PROVE  /\ positions'[p].qty \in 0..Quantity
                      /\ positions'[p].closer \in 0..MaxIntents
                      /\ positions'[p].status = "none" => positions'[p].qty = 0
                      /\ positions'[p].status # "none" =>
                            p \in DOMAIN intents' /\ intents'[p].action = "open"
    BY DEF PositionsSound
  <2> QED BY <1>4, <1>5, <1>8, <1>9 DEF BooksInv, PositionsSound
<1>11. Booked'[i] = 0 /\ \A j \in DOMAIN intents : Booked'[j] = Booked[j]
  BY <1>3, <1>4 DEF Booked, Settled
<1>12. ASSUME NEW p \in DOMAIN intents
       PROVE  SumFunctionOnSet(Booked, ClosesOf(p))' = SumFunctionOnSet(Booked, ClosesOf(p))
  <2>1. CASE row.action = "close" /\ row.target = p
    <3>1. ClosesOf(p)' = ClosesOf(p) \cup {i} /\ i \notin ClosesOf(p)
      BY <1>4, <2>1 DEF ClosesOf
    <3>2. IsFiniteSet(ClosesOf(p) \cup {i}) /\ ClosesOf(p) \subseteq DOMAIN intents
      BY BookedNumbers, FS_AddElement
    <3>3. Numbers(Booked', ClosesOf(p) \cup {i}) /\ Numbers(Booked, ClosesOf(p))
      BY <1>11, <3>2, BookedNumbers DEF Numbers
    <3>4. SumFunctionOnSet(Booked', ClosesOf(p) \cup {i})
             = SumFunctionOnSet(Booked', ClosesOf(p)) + Booked'[i]
      BY <3>1, <3>3, SumWith
    <3>5. SumFunctionOnSet(Booked, ClosesOf(p)) = SumFunctionOnSet(Booked', ClosesOf(p))
      BY <1>11, <3>2, <3>3, SumAgrees
    <3>6. SumFunctionOnSet(Booked, ClosesOf(p)) \in Int
      BY <3>3, SumIsInt
    <3> QED BY <1>11, <3>1, <3>4, <3>5, <3>6
  <2>2. CASE ~ (row.action = "close" /\ row.target = p)
    <3>1. ClosesOf(p)' = ClosesOf(p) /\ ClosesOf(p) \subseteq DOMAIN intents
      BY <1>4, <2>2 DEF ClosesOf
    <3> QED BY <1>11, <3>1, SumsKept
  <2> QED BY <2>1, <2>2
<1>13. ASSUME NEW p \in DOMAIN intents', intents'[p].action = "open"
       PROVE  positions'[p].qty = Booked'[p] - SumFunctionOnSet(Booked, ClosesOf(p))'
  <2>1. CASE p \in DOMAIN intents
    <3>1. positions[p].qty = Booked[p] - SumFunctionOnSet(Booked, ClosesOf(p))
      BY <1>4, <1>13, <2>1 DEF BooksInv, BooksAgree
    <3>2. p \in IntentIds
      BY <2>1, IntentNumbers
    <3> QED BY <1>8, <1>11, <1>12, <2>1, <3>1, <3>2
  <2>2. CASE p = i
    <3>1. ClosesOf(p)' = {}
      BY <1>3, <1>4, <1>13, <2>2 DEF ClosesOf, BooksInv, ClosesKnown
    <3>2. positions'[p].qty = 0
      BY <1>2, <1>4, <1>8, <2>2 DEF BooksInv, PositionsSound
    <3>3. SumFunctionOnSet(Booked', {}) = 0
      BY SumOfNothing
    <3> QED BY <1>11, <2>2, <3>1, <3>2, <3>3
  <2> QED BY <1>4, <2>1, <2>2
<1>14. BooksAgree'
  BY <1>13 DEF BooksAgree
<1> QED BY <1>6, <1>7, <1>10, <1>14 DEF BooksInv

\* A row that goes on unsettled books nothing before or after.
LEMMA ProgressBooks ==
    ASSUME LedgerInv, BooksInv, NEW i, NEW row, Progresses(i, row), RowSound(row),
           intents[i].status \in Unsettled, row.status \in Unsettled,
           positions' = positions
    PROVE  BooksInv'
<1>1. /\ DOMAIN intents' = DOMAIN intents /\ intents'[i] = row /\ i \in DOMAIN intents
      /\ \A j \in DOMAIN intents : j # i => intents'[j] = intents[j]
  BY Replaced DEF Progresses, LedgerInv, Shape
<1>2. \A j \in DOMAIN intents :
         intents'[j].target = intents[j].target /\ intents'[j].action = intents[j].action
  BY <1>1 DEF Progresses
<1>3. RowsSound'
  BY <1>1 DEF BooksInv, RowsSound, RowSound, Asked
<1>4. ClosesKnown'
  BY <1>1, <1>2 DEF BooksInv, ClosesKnown
<1>5. PositionsSound'
  BY <1>1, <1>2 DEF BooksInv, PositionsSound
<1>6. Booked' = Booked
  BY <1>1 DEF Booked, Settled, Unsettled
<1>7. \A p : ClosesOf(p)' = ClosesOf(p)
  BY <1>1, <1>2 DEF ClosesOf
<1>8. BooksAgree'
  BY <1>1, <1>2, <1>6, <1>7 DEF BooksInv, BooksAgree
<1> QED BY <1>3, <1>4, <1>5, <1>8 DEF BooksInv

\* A settled open books its position.
LEMMA OpenBooks ==
    ASSUME LedgerInv, BooksInv, NEW i, NEW row, Progresses(i, row), RowSound(row),
           Pending(intents[i], "open"), row.status \in Settled,
           positions' = IF Common(row) = 0 THEN positions
                        ELSE [positions EXCEPT ![i] =
                                 [status |-> "open", qty |-> Common(row), closer |-> 0]]
    PROVE  BooksInv'
<1>1. /\ DOMAIN intents' = DOMAIN intents /\ intents'[i] = row /\ i \in DOMAIN intents
      /\ \A j \in DOMAIN intents : j # i => intents'[j] = intents[j]
  BY Replaced DEF Progresses, LedgerInv, Shape
<1>2. \A j \in DOMAIN intents :
         intents'[j].target = intents[j].target /\ intents'[j].action = intents[j].action
  BY <1>1 DEF Progresses
<1>3. i \in IntentIds /\ positions \in [IntentIds -> Position]
      /\ positions[i].status = "none" /\ positions[i].qty = 0
  BY <1>1, IntentNumbers, ReservationParts DEF LedgerInv, Shape, BooksInv, PositionsSound
<1>4. Common(row) \in 0..Quantity /\ 0 \in 0..MaxIntents
  <2>1. row.spot \in 0..Quantity /\ row.perp \in 0..Quantity
    BY DEF RowSound
  <2> QED BY <2>1, LedgerAssumption DEF Common, Lesser
<1>5. /\ positions'[i].qty = Common(row) /\ positions'[i].closer \in 0..MaxIntents
      /\ positions'[i].status = "none" => Common(row) = 0
      /\ \A p \in IntentIds : p # i => positions'[p] = positions[p]
  BY <1>3, <1>4 DEF BooksInv, PositionsSound
<1>6. RowsSound'
  BY <1>1 DEF BooksInv, RowsSound, RowSound, Asked
<1>7. ClosesKnown'
  BY <1>1, <1>2 DEF BooksInv, ClosesKnown
<1>8. intents'[i].action = "open"
  BY <1>1, <1>2 DEF Pending
<1>9. PositionsSound'
  <2> SUFFICES ASSUME NEW p \in IntentIds
               PROVE  /\ positions'[p].qty \in 0..Quantity
                      /\ positions'[p].closer \in 0..MaxIntents
                      /\ positions'[p].status = "none" => positions'[p].qty = 0
                      /\ positions'[p].status # "none" =>
                            p \in DOMAIN intents' /\ intents'[p].action = "open"
    BY DEF PositionsSound
  <2>1. CASE p = i
    BY <1>1, <1>4, <1>5, <1>8, <2>1
  <2>2. CASE p # i
    BY <1>1, <1>2, <1>5, <2>2 DEF BooksInv, PositionsSound
  <2> QED BY <2>1, <2>2
<1>10. /\ Booked'[i] = Common(row) /\ Booked[i] = 0
       /\ \A j \in DOMAIN intents : j # i => Booked'[j] = Booked[j]
  BY <1>1 DEF Booked, Pending, Settled, Unsettled
<1>11. ASSUME NEW p \in DOMAIN intents
       PROVE  SumFunctionOnSet(Booked, ClosesOf(p))' = SumFunctionOnSet(Booked, ClosesOf(p))
  <2>1. ClosesOf(p)' = ClosesOf(p)
    BY <1>1, <1>2 DEF ClosesOf
  <2>2. i \notin ClosesOf(p) /\ ClosesOf(p) \subseteq DOMAIN intents
    BY DEF ClosesOf, Pending
  <2> QED BY <1>10, <2>1, <2>2, SumsKept
<1>12. ASSUME NEW p \in DOMAIN intents', intents'[p].action = "open"
       PROVE  positions'[p].qty = Booked'[p] - SumFunctionOnSet(Booked, ClosesOf(p))'
  <2>1. positions[p].qty = Booked[p] - SumFunctionOnSet(Booked, ClosesOf(p))
        /\ p \in IntentIds /\ p \in DOMAIN intents
    BY <1>1, <1>2, <1>12, IntentNumbers DEF BooksInv, BooksAgree
  <2>2. SumFunctionOnSet(Booked, ClosesOf(p)) \in Int
    BY BookedNumbers, SumIsInt
  <2>3. CASE p = i
    BY <1>3, <1>4, <1>5, <1>10, <1>11, <2>1, <2>2, <2>3
  <2>4. CASE p # i
    BY <1>5, <1>10, <1>11, <2>1, <2>4
  <2> QED BY <2>3, <2>4
<1>13. BooksAgree'
  BY <1>12 DEF BooksAgree
<1> QED BY <1>6, <1>7, <1>9, <1>13 DEF BooksInv

\* A settled close takes what it booked off the position.
LEMMA CloseBooks ==
    ASSUME LedgerInv, BooksInv, NEW i, NEW row, Progresses(i, row), RowSound(row),
           Pending(intents[i], "close"), row.status \in Settled,
           NEW t, t = intents[i].target,
           NEW left, left = positions[t].qty - Common(row), Common(row) <= positions[t].qty,
           positions' = [positions EXCEPT ![t] =
              IF left = 0 THEN [status |-> "closed", qty |-> 0, closer |-> i]
              ELSE [status |-> "open", qty |-> left, closer |-> 0]]
    PROVE  BooksInv'
<1>1. /\ DOMAIN intents' = DOMAIN intents /\ intents'[i] = row /\ i \in DOMAIN intents
      /\ \A j \in DOMAIN intents : j # i => intents'[j] = intents[j]
  BY Replaced DEF Progresses, LedgerInv, Shape
<1>2. \A j \in DOMAIN intents :
         intents'[j].target = intents[j].target /\ intents'[j].action = intents[j].action
  BY <1>1 DEF Progresses
<1>3. t \in IntentIds /\ positions \in [IntentIds -> Position]
      /\ positions[t].qty \in 0..Quantity /\ t \in DOMAIN intents
      /\ intents[t].action = "open" /\ t # i
  <2>1. intents[i].action = "close"
    BY DEF Pending
  <2> QED BY <1>1, <2>1, IntentNumbers
      DEF LedgerInv, Shape, BooksInv, PositionsSound, ClosesKnown
<1>4. Common(row) \in 0..Quantity /\ i \in 0..MaxIntents /\ 0 \in 0..MaxIntents
  <2>1. row.spot \in 0..Quantity /\ row.perp \in 0..Quantity
    BY DEF RowSound
  <2>2. i \in IntentIds
    BY <1>1, IntentNumbers
  <2> QED BY <2>1, <2>2, LedgerAssumption DEF Common, Lesser, IntentIds
<1>5. left \in 0..Quantity
  BY <1>3, <1>4, LedgerAssumption
<1>6. /\ positions'[t].qty = left /\ positions'[t].closer \in 0..MaxIntents
      /\ positions'[t].status # "none"
      /\ \A p \in IntentIds : p # t => positions'[p] = positions[p]
  BY <1>3, <1>4, <1>5
<1>7. RowsSound'
  BY <1>1 DEF BooksInv, RowsSound, RowSound, Asked
<1>8. ClosesKnown'
  BY <1>1, <1>2 DEF BooksInv, ClosesKnown
<1>9. PositionsSound'
  <2> SUFFICES ASSUME NEW p \in IntentIds
               PROVE  /\ positions'[p].qty \in 0..Quantity
                      /\ positions'[p].closer \in 0..MaxIntents
                      /\ positions'[p].status = "none" => positions'[p].qty = 0
                      /\ positions'[p].status # "none" =>
                            p \in DOMAIN intents' /\ intents'[p].action = "open"
    BY DEF PositionsSound
  <2>1. CASE p = t
    BY <1>1, <1>2, <1>3, <1>5, <1>6, <2>1
  <2>2. CASE p # t
    BY <1>1, <1>2, <1>6, <2>2 DEF BooksInv, PositionsSound
  <2> QED BY <2>1, <2>2
<1>10. /\ Booked'[i] = Common(row) /\ Booked[i] = 0
       /\ \A j \in DOMAIN intents : j # i => Booked'[j] = Booked[j]
  BY <1>1 DEF Booked, Pending, Settled, Unsettled
<1>11. \A p : ClosesOf(p)' = ClosesOf(p)
  BY <1>1, <1>2 DEF ClosesOf
<1>12. SumFunctionOnSet(Booked, ClosesOf(t))'
          = SumFunctionOnSet(Booked, ClosesOf(t)) + Common(row)
  <2>1. i \in ClosesOf(t) /\ ClosesOf(t) \subseteq DOMAIN intents
    BY <1>1 DEF ClosesOf, Pending
  <2>2. Numbers(Booked, ClosesOf(t)) /\ Booked'[i] \in Int
    BY <1>4, <1>10, BookedNumbers
  <2>3. SumFunctionOnSet(Booked', ClosesOf(t))
           = (SumFunctionOnSet(Booked, ClosesOf(t)) - Booked[i]) + Booked'[i]
    BY <1>10, <2>1, <2>2, SumChanges
  <2>4. SumFunctionOnSet(Booked, ClosesOf(t)) \in Int
    BY <2>2, SumIsInt
  <2> QED BY <1>10, <1>11, <2>2, <2>3, <2>4
<1>13. ASSUME NEW p \in DOMAIN intents, p # t
       PROVE  SumFunctionOnSet(Booked, ClosesOf(p))' = SumFunctionOnSet(Booked, ClosesOf(p))
  <2>1. i \notin ClosesOf(p) /\ ClosesOf(p) \subseteq DOMAIN intents
    BY <1>13 DEF ClosesOf
  <2> QED BY <1>10, <1>11, <2>1, SumsKept
<1>14. ASSUME NEW p \in DOMAIN intents', intents'[p].action = "open"
       PROVE  positions'[p].qty = Booked'[p] - SumFunctionOnSet(Booked, ClosesOf(p))'
  <2>1. positions[p].qty = Booked[p] - SumFunctionOnSet(Booked, ClosesOf(p))
        /\ p \in IntentIds /\ p \in DOMAIN intents /\ p # i
    BY <1>1, <1>2, <1>14, IntentNumbers DEF BooksInv, BooksAgree, Pending
  <2>2. SumFunctionOnSet(Booked, ClosesOf(p)) \in Int /\ Booked[p] \in Int
    BY <2>1, BookedNumbers, SumIsInt
  <2>3. CASE p = t
    <3>1. left = positions[p].qty - Common(row)
      BY <2>3
    <3>2. positions'[p].qty = left /\ Booked'[p] = Booked[p]
          /\ SumFunctionOnSet(Booked, ClosesOf(p))'
                = SumFunctionOnSet(Booked, ClosesOf(p)) + Common(row)
      BY <1>6, <1>10, <1>12, <2>1, <2>3
    <3>3. Common(row) \in Int
      BY <1>4
    <3> QED BY <2>1, <2>2, <3>1, <3>2, <3>3
  <2>4. CASE p # t
    BY <1>6, <1>10, <1>13, <2>1, <2>4
  <2> QED BY <2>3, <2>4
<1>15. BooksAgree'
  BY <1>14 DEF BooksAgree
<1> QED BY <1>7, <1>8, <1>9, <1>15 DEF BooksInv

\* Settling with fills whose excess is compensated.
LEMMA SettlesBooks ==
    ASSUME LedgerInv, BooksInv, NEW i \in DOMAIN intents, intents[i].status \in Unsettled,
           NEW spot \in 0..Quantity, NEW perp \in 0..Quantity, NEW order \in Order,
           order.qty \in 0..Quantity,
           \A row : row.spot = spot /\ row.perp = perp /\ row.order = order
                    => Kept(row, "spot") = Common(row) /\ Kept(row, "perp") = Common(row),
           Settles(i, spot, perp, order)
    PROVE  BooksInv'
<1> DEFINE common == Lesser(spot, perp)
<1>1. intents[i] \in Intent /\ intents \in Seq(Intent) /\ Asked(intents[i])
      /\ spot \in Int /\ perp \in Int
  BY IntentNumbers DEF LedgerInv, Shape, BooksInv, RowsSound, RowSound
<1> HIDE DEF common
<1>2. ASSUME NEW status \in Settled,
             intents' = [intents EXCEPT ![i].spot = spot, ![i].perp = perp,
                            ![i].order = order, ![i].status = status]
      PROVE  \E row : /\ Progresses(i, row) /\ row.status \in Settled /\ RowSound(row)
                      /\ Common(row) = common
  <2> DEFINE row == [intents[i] EXCEPT !.spot = spot, !.perp = perp,
                                       !.order = order, !.status = status]
  <2>1. /\ row \in Intent /\ row.status = status
        /\ row.key = intents[i].key /\ row.preview = intents[i].preview
        /\ row.target = intents[i].target /\ row.action = intents[i].action
        /\ row.emergency = intents[i].emergency /\ row.qty = intents[i].qty
        /\ row.spot = spot /\ row.perp = perp /\ row.order = order
    BY <1>1 DEF Intent, IntentStatuses, Settled
  <2>2. intents' = [intents EXCEPT ![i] = row]
    BY <1>1, <1>2
  <2> HIDE DEF row
  <2>3. Progresses(i, row) /\ row.status \in Settled
    BY <2>1, <2>2 DEF Progresses
  <2>4. Common(row) = common
    BY <2>1 DEF Common, common
  <2>5. RowSound(row)
    BY <1>1, <2>1 DEF RowSound, Asked, Settled
  <2> QED BY <2>3, <2>4, <2>5
<1>3. CASE intents[i].action = "open" /\ OpenSettles(i, spot, perp, order)
  <2>1. PICK row : /\ Progresses(i, row) /\ row.status \in Settled /\ RowSound(row)
                   /\ Common(row) = common
    BY <1>2, <1>3 DEF OpenSettles, Settled
  <2>2. Pending(intents[i], "open")
    BY <1>3 DEF Pending
  <2>3. positions' = IF Common(row) = 0 THEN positions
                     ELSE [positions EXCEPT ![i] =
                              [status |-> "open", qty |-> Common(row), closer |-> 0]]
    BY <1>3, <2>1 DEF OpenSettles, common
  <2> QED BY <2>1, <2>2, <2>3, OpenBooks
<1>4. CASE intents[i].action = "close" /\ CloseSettles(i, spot, perp, order)
  <2> DEFINE t == intents[i].target
             left == positions[t].qty - common
  <2>1. PICK row : /\ Progresses(i, row) /\ row.status \in Settled /\ RowSound(row)
                   /\ Common(row) = common
    BY <1>2, <1>4 DEF CloseSettles, Settled
  <2>2. Pending(intents[i], "close")
    BY <1>4 DEF Pending
  <2>3. /\ Common(row) <= positions[t].qty /\ left = positions[t].qty - Common(row)
        /\ positions' = [positions EXCEPT ![t] =
              IF left = 0 THEN [status |-> "closed", qty |-> 0, closer |-> i]
              ELSE [status |-> "open", qty |-> left, closer |-> 0]]
    BY <1>4, <2>1 DEF CloseSettles, Remains, common
  <2>4. t = intents[i].target
    OBVIOUS
  <2> HIDE DEF left, t
  <2> QED BY <2>1, <2>2, <2>3, <2>4, CloseBooks
<1> QED BY <1>3, <1>4 DEF Settles

\* A part of a quantity is no more than the quantity.
LEMMA PartOfQuantity ==
    ASSUME NEW i, intents[i].qty \in 0..Quantity, NEW quarters \in 0..4
    PROVE  Part(i, quarters) \in 0..Quantity
<1> DEFINE q == intents[i].qty
<1>1. q \in 0..Quantity /\ Quantity \in Nat
  BY LedgerAssumption
<1> HIDE DEF q
<1>2. /\ (q * 0) \div 4 \in 0..Quantity /\ (q * 1) \div 4 \in 0..Quantity
      /\ (q * 2) \div 4 \in 0..Quantity /\ (q * 3) \div 4 \in 0..Quantity
      /\ (q * 4) \div 4 \in 0..Quantity
  BY <1>1
<1>3. quarters \in {0, 1, 2, 3, 4}
  OBVIOUS
<1> QED BY <1>2, <1>3 DEF Part, q

\* With nothing to compensate, both legs keep what they filled.
LEMMA EvenFills ==
    ASSUME NEW fill \in 0..Quantity, NEW row,
           row.spot = fill, row.perp = fill, row.order = NoOrder
    PROVE  Kept(row, "spot") = Common(row) /\ Kept(row, "perp") = Common(row)
BY LedgerAssumption DEF Kept, Common, Lesser, NoOrder

\* A filled order of the excess leaves both legs with the lesser fill.
LEMMA ExcessFilled ==
    ASSUME NEW spot \in 0..Quantity, NEW perp \in 0..Quantity, NEW row,
           row.spot = spot, row.perp = perp,
           row.order = [ExcessOrder(spot, perp) EXCEPT !.status = "filled"]
    PROVE  Kept(row, "spot") = Common(row) /\ Kept(row, "perp") = Common(row)
<1>1. /\ row.order.leg = IF spot > perp THEN "spot" ELSE "perp"
      /\ row.order.qty = IF spot > perp THEN spot - perp ELSE perp - spot
      /\ row.order.status = "filled"
  BY DEF ExcessOrder, Excess
<1>2. spot \in Int /\ perp \in Int
  OBVIOUS
<1>3. CASE spot > perp
  BY <1>1, <1>2, <1>3 DEF Kept, Common, Lesser
<1>4. CASE ~ (spot > perp)
  BY <1>1, <1>2, <1>4 DEF Kept, Common, Lesser
<1> QED BY <1>3, <1>4

\* The excess of two fills.
LEMMA ExcessTyped ==
    ASSUME NEW spot \in 0..Quantity, NEW perp \in 0..Quantity
    PROVE  /\ ExcessOrder(spot, perp) \in Order
           /\ ExcessOrder(spot, perp).qty \in 0..Quantity
           /\ ExcessOrder(spot, perp).status = "created"
BY LedgerAssumption DEF ExcessOrder, Excess, Order

\* Paper fills.
LEMMA FillsBook ==
    ASSUME LedgerInv, BooksInv, NEW action \in Actions, NEW ratio \in Ratios,
           PaperFills(action, ratio)
    PROVE  BooksInv'
<1> DEFINE i == Oldest
           spot == Part(i, ratio.spot)
           perp == Part(i, ratio.perp)
<1>1. i \in DOMAIN intents /\ intents[i] \in Intent
  BY OldestIsPicked DEF PaperFills
<1> HIDE DEF i
<1>2. spot \in 0..Quantity /\ perp \in 0..Quantity
  <2>1. ratio.spot \in 0..4 /\ ratio.perp \in 0..4 /\ intents[i].qty \in 0..Quantity
    BY <1>1, LedgerAssumption DEF BooksInv, RowsSound, RowSound, Asked
  <2> QED BY <1>1, <2>1, PartOfQuantity
<1> HIDE DEF spot, perp
<1>3. intents[i].status = "planned" /\ intents[i].status \in Unsettled
  BY DEF PaperFills, Unsettled, i
<1>4. CASE spot = perp /\ Settles(i, spot, perp, NoOrder)
  <2>1. NoOrder \in Order /\ NoOrder.qty \in 0..Quantity
    BY LedgerAssumption DEF NoOrder, Order
  <2>2. \A row : row.spot = spot /\ row.perp = perp /\ row.order = NoOrder
                 => Kept(row, "spot") = Common(row) /\ Kept(row, "perp") = Common(row)
    BY <1>2, <1>4, EvenFills
  <2> QED BY <1>1, <1>2, <1>3, <1>4, <2>1, <2>2, SettlesBooks
<1>5. CASE /\ intents' = [intents EXCEPT ![i].spot = spot, ![i].perp = perp,
                   ![i].order = ExcessOrder(spot, perp), ![i].status = "compensating"]
           /\ UNCHANGED <<positions, worker>>
  <2> DEFINE order == ExcessOrder(spot, perp)
             row == [intents[i] EXCEPT !.spot = spot, !.perp = perp,
                                       !.order = order, !.status = "compensating"]
  <2>1. order \in Order /\ order.qty \in 0..Quantity
    BY <1>2, ExcessTyped
  <2>2. intents' = [intents EXCEPT ![i] = row]
    BY <1>5
  <2> HIDE DEF order
  <2>7. spot \in Int /\ perp \in Int
    BY <1>2
  <2>3. /\ row \in Intent /\ row.status = "compensating"
        /\ row.key = intents[i].key /\ row.preview = intents[i].preview
        /\ row.target = intents[i].target /\ row.action = intents[i].action
        /\ row.emergency = intents[i].emergency /\ row.qty = intents[i].qty
        /\ row.spot = spot /\ row.perp = perp /\ row.order = order
    BY <1>1, <2>1, <2>7 DEF Intent, IntentStatuses, Unsettled
  <2>8. row.status \in Unsettled
    BY <2>3 DEF Unsettled
  <2> HIDE DEF row
  <2>4. Progresses(i, row)
    BY <1>1, <2>2, <2>3 DEF Progresses
  <2>5. Asked(intents[i])
    BY <1>1 DEF BooksInv, RowsSound, RowSound
  <2>6. RowSound(row)
    BY <1>2, <2>1, <2>3, <2>5 DEF RowSound, Asked, Settled, order
  <2> QED BY <1>3, <1>5, <2>4, <2>6, <2>8, ProgressBooks
<1> QED BY <1>4, <1>5 DEF PaperFills, i, spot, perp

\* Paper compensations.
LEMMA CompensationBooks ==
    ASSUME LedgerInv, BooksInv, NEW action \in Actions, NEW succeeds \in Compensates,
           PaperCompensates(action, succeeds)
    PROVE  BooksInv'
<1> DEFINE i == Oldest
           spot == intents[i].spot
           perp == intents[i].perp
<1>1. i \in DOMAIN intents /\ intents[i] \in Intent
  BY OldestIsPicked DEF PaperCompensates
<1> HIDE DEF i
<1>2. intents[i].status \in Unsettled /\ intents[i].status = "compensating"
  BY DEF PaperCompensates, Unsettled, i
<1>3. /\ spot \in 0..Quantity /\ perp \in 0..Quantity /\ Asked(intents[i])
      /\ intents[i].order = ExcessOrder(spot, perp)
  BY <1>1, <1>2 DEF BooksInv, RowsSound, RowSound
<1>4. CASE succeeds
  <2> DEFINE order == [intents[i].order EXCEPT !.status = "filled"]
  <2>1. order \in Order /\ order.qty \in 0..Quantity
    BY <1>3, ExcessTyped DEF Order
  <2>2. Settles(i, spot, perp, order)
    BY <1>4 DEF PaperCompensates, i
  <2>3. \A row : row.spot = spot /\ row.perp = perp /\ row.order = order
                 => Kept(row, "spot") = Common(row) /\ Kept(row, "perp") = Common(row)
    BY <1>3, ExcessFilled
  <2> HIDE DEF order, spot, perp
  <2> QED BY <1>1, <1>2, <1>3, <2>1, <2>2, <2>3, SettlesBooks
<1>5. CASE ~ succeeds
  <2> DEFINE order == [intents[i].order EXCEPT !.status = "failed"]
             row == [intents[i] EXCEPT !.status = "manual_review", !.order = order]
  <2>1. order \in Order /\ order.qty \in 0..Quantity
    BY <1>3, ExcessTyped DEF Order
  <2>2. intents' = [intents EXCEPT ![i] = row] /\ positions' = positions
    BY <1>1, <1>5 DEF PaperCompensates, Intent, i
  <2> HIDE DEF order
  <2>3. /\ row \in Intent /\ row.status = "manual_review" /\ row.order = order
        /\ row.key = intents[i].key /\ row.preview = intents[i].preview
        /\ row.target = intents[i].target /\ row.action = intents[i].action
        /\ row.emergency = intents[i].emergency /\ row.qty = intents[i].qty
        /\ row.spot = intents[i].spot /\ row.perp = intents[i].perp
    BY <1>1, <2>1 DEF Intent, IntentStatuses, Unsettled
  <2>6. row.status \in Unsettled
    BY <2>3 DEF Unsettled
  <2> HIDE DEF row
  <2>4. Progresses(i, row)
    BY <1>1, <2>2, <2>3 DEF Progresses
  <2>5. RowSound(row)
    BY <1>3, <2>1, <2>3 DEF RowSound, Asked, Settled
  <2> QED BY <1>2, <2>2, <2>4, <2>5, <2>6, ProgressBooks
<1> QED BY <1>4, <1>5

\* The live services.
LEMMA LiveBooks ==
    ASSUME LedgerInv, BooksInv, LiveSettles \/ LiveReview
    PROVE  BooksInv'
<1> DEFINE queue == {i \in DOMAIN intents : Executable(i)}
           i == Min(queue)
<1>1. queue # {} /\ queue \in SUBSET Nat
  BY IntentNumbers DEF LiveSettles, LiveReview
<1>2. i \in queue
  BY <1>1, MinIsMember
<1>3. i \in DOMAIN intents /\ intents[i].status = "planned"
  BY <1>2 DEF Executable
<1> HIDE DEF i
<1>4. intents[i] \in Intent /\ intents[i].status \in Unsettled /\ RowSound(intents[i])
  BY <1>3, IntentNumbers DEF Unsettled, BooksInv, RowsSound
<1>5. CASE LiveSettles
  <2>1. PICK filled \in {0} \cup {Part(i, ratio.spot) : ratio \in Ratios} :
            Settles(i, filled, filled, NoOrder)
    BY <1>5 DEF LiveSettles, i
  <2>2. filled \in 0..Quantity
    <3>1. intents[i].qty \in 0..Quantity /\ 0 \in 0..Quantity
      BY <1>4, LedgerAssumption DEF RowSound, Asked
    <3>2. \A ratio \in Ratios : ratio.spot \in 0..4
      BY LedgerAssumption
    <3> QED BY <3>1, <3>2, PartOfQuantity
  <2>3. NoOrder \in Order /\ NoOrder.qty \in 0..Quantity
    BY LedgerAssumption DEF NoOrder, Order
  <2>4. \A row : row.spot = filled /\ row.perp = filled /\ row.order = NoOrder
                 => Kept(row, "spot") = Common(row) /\ Kept(row, "perp") = Common(row)
    BY <2>2, EvenFills
  <2> QED BY <1>3, <1>4, <2>1, <2>2, <2>3, <2>4, SettlesBooks
<1>6. CASE LiveReview
  <2> DEFINE row == [intents[i] EXCEPT !.status = "manual_review"]
  <2>1. /\ row \in Intent /\ row.status = "manual_review" /\ row.status \in Unsettled
        /\ row.key = intents[i].key /\ row.preview = intents[i].preview
        /\ row.target = intents[i].target /\ row.action = intents[i].action
        /\ row.emergency = intents[i].emergency /\ row.qty = intents[i].qty
        /\ row.spot = intents[i].spot /\ row.perp = intents[i].perp
        /\ row.order = intents[i].order
    BY <1>4 DEF Intent, IntentStatuses, Unsettled
  <2>2. intents' = [intents EXCEPT ![i] = row] /\ positions' = positions
    BY <1>6 DEF LiveReview, i
  <2> HIDE DEF row
  <2>3. Progresses(i, row)
    BY <1>3, <2>1, <2>2 DEF Progresses
  <2>4. RowSound(row)
    BY <1>4, <2>1 DEF RowSound, Asked, Settled
  <2> QED BY <1>4, <2>1, <2>2, <2>3, <2>4, ProgressBooks
<1> QED BY <1>5, <1>6

\* Every step keeps the books.
LEMMA NextBooks ==
    ASSUME LedgerInv, LedgerInv', RequestsAsk, BooksInv, [Next]_vars
    PROVE  BooksInv'
<1>1. CASE PaperStep
  <2>1. CASE \E ratio \in Ratios : RecordPaperOpenFills(ratio) \/ RecordPaperCloseFills(ratio)
    BY <2>1, FillsBook DEF RecordPaperOpenFills, RecordPaperCloseFills, Actions
  <2>2. CASE \E succeeds \in Compensates : \/ ExecutePaperCompensation(succeeds)
                                          \/ ExecutePaperCloseCompensation(succeeds)
    BY <2>2, CompensationBooks
       DEF ExecutePaperCompensation, ExecutePaperCloseCompensation, Actions
  <2>3. CASE StartRound \/ PaperRaises \/ PaperEnds
    BY <2>3, BooksUnchanged DEF StartRound, PaperRaises, PaperEnds
  <2> QED BY <1>1, <2>1, <2>2, <2>3 DEF PaperStep
<1>2. ASSUME NEW c \in Planners, Plan(c) PROVE BooksInv'
  BY <1>2, InsertBooks, BooksUnchanged DEF Plan, FindExisting, Price, Refused, NotInserted
<1>3. CASE RestOfRound
  <2>1. CASE LiveSettles \/ LiveReview
    BY <2>1, LiveBooks
  <2>2. CASE Plan(Trader)
    BY <1>2, <2>2 DEF Planners
  <2>3. CASE \/ LiveIdle \/ \E state \in {"ready", "blocked"} : RoundReady(state)
             \/ RoundPaused \/ TraderReads \/ TraderReadsKeys \/ TraderWaits
             \/ TraderStops \/ RoundEnds \/ TraderCloses
             \/ \E asset \in Assets : TraderOpens(asset)
    BY <2>3, BooksUnchanged DEF LiveIdle, RoundReady, RoundPaused, TraderReads,
       TraderReadsKeys, TraderWaits, TraderStops, RoundEnds, TraderCloses, TraderOpens,
       Decided
  <2> QED BY <1>3, <2>1, <2>2, <2>3 DEF RestOfRound
<1>4. CASE Surroundings
  BY <1>4, BooksUnchanged DEF Surroundings, PauseExecution, ResumeExecution,
     SetAutomation, ChangeConfig, NewQuote, ExpirePreview, PreviewOpen, PreviewClose,
     AddPreview, CutOff, WorkerCrash
<1>5. ASSUME NEW c \in Clients, ClientStep(c) PROVE BooksInv'
  <2>1. c \in Planners
    BY LedgerAssumption DEF LedgerInv, Shape, Planners
  <2>2. CASE Plan(c)
    BY <1>2, <2>1, <2>2
  <2>3. CASE ~ Plan(c)
    BY <1>5, <2>3, BooksUnchanged DEF ClientStep, Confirm, PaperRequest, Recheck, Reserve,
       NotReservable, PauseForClose
  <2> QED BY <2>2, <2>3
<1>6. CASE UNCHANGED vars
  BY <1>6, BooksUnchanged DEF vars
<1> QED BY <1>1, <1>3, <1>4, <1>5, <1>6 DEF Next

\* A request asks for something sensible, or for nothing.
Fine(r) == r.qty \in 0..Quantity /\ (r.pc # "idle" => Asked(r))

\* Steps that change one request, and no preview or position that was read.
LEMMA OneAsks ==
    ASSUME LedgerInv, RequestsAsk, NEW c \in Planners, NEW r, Fine(r),
           requests' = [requests EXCEPT ![c] = r],
           \A p \in DOMAIN previews' : Asked(previews'[p]),
           \A s \in worker'.seen : s[1] \in DOMAIN intents'
    PROVE  RequestsAsk'
<1>1. requests \in [Planners -> Request]
  BY DEF LedgerInv, Shape
<1>2. requests'[c] = r /\ \A d \in Planners : d # c => requests'[d] = requests[d]
  BY <1>1
<1> QED BY <1>2 DEF RequestsAsk, Fine, Asked

\* Steps that leave the requests, the previews and what was read.
LEMMA NoneAsks ==
    ASSUME RequestsAsk, UNCHANGED <<requests, previews>>,
           \A s \in worker'.seen : s[1] \in DOMAIN intents'
    PROVE  RequestsAsk'
BY DEF RequestsAsk, Asked

\* Rows are replaced, never taken back.
LEMMA IntentsStay ==
    ASSUME LedgerInv, NEW action \in Actions,
           \/ \E ratio \in Ratios : PaperFills(action, ratio)
           \/ \E succeeds \in Compensates : PaperCompensates(action, succeeds)
           \/ LiveSettles \/ LiveReview
    PROVE  DOMAIN intents' = DOMAIN intents
<1>1. ASSUME NEW i, NEW spot, NEW perp, NEW order, Settles(i, spot, perp, order)
      PROVE  DOMAIN intents' = DOMAIN intents
  BY <1>1 DEF Settles, OpenSettles, CloseSettles
<1>2. CASE \E ratio \in Ratios : PaperFills(action, ratio)
  BY <1>1, <1>2 DEF PaperFills
<1>3. CASE \E succeeds \in Compensates : PaperCompensates(action, succeeds)
  BY <1>1, <1>3 DEF PaperCompensates
<1>4. CASE LiveSettles
  BY <1>1, <1>4 DEF LiveSettles
<1>5. CASE LiveReview
  BY <1>5 DEF LiveReview
<1> QED BY <1>2, <1>3, <1>4, <1>5

\* The worker's round changes no request but the trader's.
LEMMA RoundAsks ==
    ASSUME LedgerInv, RequestsAsk, PaperStep \/ RestOfRound, ~ Plan(Trader)
    PROVE  RequestsAsk'
<1>1. \A s \in worker.seen : s[1] \in DOMAIN intents
  BY DEF RequestsAsk
<1>2. CASE \/ \E ratio \in Ratios : RecordPaperOpenFills(ratio) \/ RecordPaperCloseFills(ratio)
           \/ \E succeeds \in Compensates : \/ ExecutePaperCompensation(succeeds)
                                            \/ ExecutePaperCloseCompensation(succeeds)
  <2>1. PICK action \in Actions :
           \/ \E ratio \in Ratios : PaperFills(action, ratio)
           \/ \E succeeds \in Compensates : PaperCompensates(action, succeeds)
    BY <1>2 DEF RecordPaperOpenFills, RecordPaperCloseFills, ExecutePaperCompensation,
       ExecutePaperCloseCompensation, Actions
  <2>2. DOMAIN intents' = DOMAIN intents
    BY <2>1, IntentsStay
  <2>3. UNCHANGED <<requests, previews>> /\ worker'.seen = worker.seen
    BY <2>1 DEF PaperFills, PaperCompensates, NextCandidate, LedgerInv, Shape, Worker
  <2> QED BY <1>1, <2>2, <2>3, NoneAsks
<1>3. CASE LiveSettles \/ LiveReview
  <2>1. DOMAIN intents' = DOMAIN intents
    BY <1>3, IntentsStay DEF Actions
  <2>2. UNCHANGED <<requests, previews>> /\ worker'.seen = {}
    BY <1>3 DEF LiveSettles, LiveReview, Step, Resting
  <2> QED BY <2>1, <2>2, NoneAsks
<1>4. CASE \/ PaperRaises \/ PaperEnds \/ LiveIdle \/ RoundPaused \/ TraderWaits
           \/ TraderStops \/ RoundEnds
           \/ \E state \in {"ready", "blocked"} : RoundReady(state)
  <2>1. UNCHANGED <<requests, previews>> /\ (worker' = Resting \/ \E pc : Step(pc))
    BY <1>4 DEF PaperRaises, PaperEnds, LiveIdle, RoundPaused, TraderWaits, TraderStops,
       RoundEnds, RoundReady
  <2>2. worker'.seen = {}
    BY <2>1 DEF Step, Resting
  <2> QED BY <2>1, <2>2, NoneAsks
<1>5. CASE StartRound \/ TraderReadsKeys
  <2>1. UNCHANGED <<requests, previews, intents>> /\ worker'.seen = worker.seen
    BY <1>5 DEF StartRound, TraderReadsKeys, LedgerInv, Shape, Worker
  <2> QED BY <1>1, <2>1, NoneAsks
<1>6. CASE TraderReads
  <2> DEFINE read == {<<p, positions[p].status>> : p \in LivePositions({"open", "closing"})}
  <2>1. UNCHANGED <<requests, previews, intents>>
        /\ (worker' = [worker EXCEPT !.pc = "keys", !.seen = read] \/ Step("idle"))
    BY <1>6 DEF TraderReads
  <2>2. \A s \in read : s[1] \in DOMAIN intents
    BY DEF LivePositions
  <2> HIDE DEF read
  <2>3. worker'.seen = read \/ worker'.seen = {}
    BY <2>1 DEF Step, Resting, LedgerInv, Shape, Worker
  <2> QED BY <2>1, <2>2, <2>3, NoneAsks
<1>7. ASSUME NEW action \in Actions, NEW target \in Targets, Decided(action, target)
      PROVE  RequestsAsk'
  <2> DEFINE r == [Idle EXCEPT !.pc = "find", !.action = action, !.target = target,
                              !.key = TraderKey(action, target)]
  <2>1. Fine(r)
    BY LedgerAssumption DEF Fine, Asked, Idle
  <2>2. requests' = [requests EXCEPT ![Trader] = r] /\ UNCHANGED <<previews, intents>>
        /\ worker'.seen = {} /\ Trader \in Planners
    BY <1>7 DEF Decided, Step, Resting, Planners
  <2> HIDE DEF r
  <2>3. \A p \in DOMAIN previews' : Asked(previews'[p])
    BY <2>2 DEF RequestsAsk
  <2> QED BY <2>1, <2>2, <2>3, OneAsks
<1>8. CASE TraderCloses
  <2>1. PICK s \in worker.seen : Decided("close", s[1])
    BY <1>8 DEF TraderCloses
  <2>2. s[1] \in Targets
    BY <1>1, IntentNumbers DEF Targets
  <2> QED BY <1>7, <2>1, <2>2 DEF Actions
<1>9. CASE \E asset \in Assets : TraderOpens(asset)
  BY <1>7, <1>9 DEF TraderOpens, Targets, Actions
<1> QED BY <1>2, <1>3, <1>4, <1>5, <1>6, <1>8, <1>9 DEF PaperStep, RestOfRound

\* Planning a trade.
LEMMA PlanAsks ==
    ASSUME LedgerInv, LedgerInv', BooksInv, RequestsAsk, NEW c \in Planners, Plan(c)
    PROVE  RequestsAsk'
<1>1. requests[c] \in Request /\ Fine(requests[c])
  BY DEF LedgerInv, Shape, RequestsAsk, Fine
<1>2. UNCHANGED <<previews, worker>> /\ DOMAIN intents \subseteq DOMAIN intents'
  <2>1. ASSUME NEW row, intents' = Append(intents, row)
        PROVE  DOMAIN intents \subseteq DOMAIN intents'
    <3>1. intents \in Seq(Intent)
      BY DEF LedgerInv, Shape
    <3> QED BY <2>1, <3>1
  <2> QED BY <2>1 DEF Plan, FindExisting, Price, Refused, Insert, NotInserted
<1>3. /\ \A p \in DOMAIN previews' : Asked(previews'[p])
      /\ \A s \in worker'.seen : s[1] \in DOMAIN intents'
  BY <1>2 DEF RequestsAsk
<1>4. Fine(Idle)
  BY LedgerAssumption DEF Fine, Idle
<1>5. CASE End(c)
  BY <1>3, <1>4, <1>5, OneAsks DEF End
<1>6. CASE requests[c].pc = "find" /\ Goto(c, "price")
  <2> DEFINE r == [requests[c] EXCEPT !.pc = "price"]
  <2>1. Fine(r)
    BY <1>1, <1>6 DEF Fine, Asked, Request
  <2>2. requests' = [requests EXCEPT ![c] = r]
    BY <1>6 DEF Goto
  <2> HIDE DEF r
  <2> QED BY <1>3, <2>1, <2>2, OneAsks
<1>7. CASE Price(c)
  <2> DEFINE q == IF requests[c].action = "open" THEN Quantity
                  ELSE positions[requests[c].target].qty
             r == [requests[c] EXCEPT !.pc = "insert", !.config = config, !.qty = q]
  <2>1. q \in 0..Quantity
    <3>1. CASE requests[c].action = "open"
      BY <3>1, LedgerAssumption
    <3>2. CASE requests[c].action # "open"
      <4>1. Closable(requests[c].target, requests[c].env)
        BY <1>1, <1>7, <3>2 DEF Price, Request, Actions
      <4>2. requests[c].target \in IntentIds
        BY <4>1, IntentNumbers DEF Closable
      <4> QED BY <3>2, <4>2 DEF BooksInv, PositionsSound
    <3> QED BY <3>1, <3>2
  <2>2. requests' = [requests EXCEPT ![c] = r] /\ requests[c].pc = "price"
    BY <1>7 DEF Price
  <2> HIDE DEF q
  <2>3. Fine(r)
    BY <1>1, <2>1, <2>2 DEF Fine, Asked, Request
  <2> HIDE DEF r
  <2> QED BY <1>3, <2>2, <2>3, OneAsks
<1> QED BY <1>5, <1>6, <1>7 DEF Plan, FindExisting, Refused, Insert, NotInserted

\* A client's other steps.
LEMMA ClientAsks ==
    ASSUME LedgerInv, BooksInv, RequestsAsk, NEW c \in Clients, ClientStep(c),
           ~ Plan(c)
    PROVE  RequestsAsk'
<1>1. c \in Planners /\ requests[c] \in Request /\ Fine(requests[c])
  <2>1. c \in Planners
    BY LedgerAssumption DEF LedgerInv, Shape, Planners
  <2> QED BY <2>1 DEF LedgerInv, Shape, RequestsAsk, Fine
<1>2. UNCHANGED <<intents, worker>>
  BY DEF ClientStep, Confirm, PaperRequest, Recheck, Reserve, NotReservable, PauseForClose
<1>3. \A s \in worker'.seen : s[1] \in DOMAIN intents'
  BY <1>2 DEF RequestsAsk
<1>4. \A p \in DOMAIN previews : Asked(previews[p])
  BY DEF RequestsAsk
<1>5. CASE NotReservable(c)
  <2>1. Fine(Idle)
    BY LedgerAssumption DEF Fine, Idle
  <2> QED BY <1>1, <1>3, <1>4, <1>5, <2>1, OneAsks DEF NotReservable, End
<1>6. CASE PauseForClose(c)
  <2> DEFINE r == [requests[c] EXCEPT !.pc = "find"]
  <2>1. Fine(r)
    BY <1>1, <1>6 DEF PauseForClose, Fine, Asked, Request
  <2>2. requests' = [requests EXCEPT ![c] = r] /\ previews' = previews
    BY <1>6 DEF PauseForClose, Goto
  <2> HIDE DEF r
  <2> QED BY <1>1, <1>3, <1>4, <2>1, <2>2, OneAsks
<1>7. CASE Reserve(c)
  <2> DEFINE r == [requests[c] EXCEPT !.pc = IF requests[c].emergency THEN "pause" ELSE "find"]
  <2>1. Fine(r)
    BY <1>1, <1>7 DEF Reserve, Fine, Asked, Request
  <2>2. requests' = [requests EXCEPT ![c] = r]
        /\ previews' = [previews EXCEPT ![requests[c].preview].key = requests[c].key]
    BY <1>7 DEF Reserve, Goto
  <2> HIDE DEF r
  <2>3. \A p \in DOMAIN previews' : Asked(previews'[p])
    <3>1. previews \in Seq(Preview)
      BY DEF LedgerInv, Shape
    <3>2. DOMAIN previews' = DOMAIN previews
      BY <2>2
    <3>3. ASSUME NEW p \in DOMAIN previews
          PROVE  /\ previews'[p].qty = previews[p].qty
                 /\ previews'[p].target = previews[p].target
                 /\ previews'[p].emergency = previews[p].emergency
                 /\ previews'[p].action = previews[p].action
      BY <2>2, <3>1 DEF Preview
    <3> QED BY <1>4, <3>2, <3>3 DEF Asked
  <2> QED BY <1>1, <1>3, <2>1, <2>2, <2>3, OneAsks
<1>8. CASE Recheck(c)
  <2>1. previews' = previews /\ requests[c].pc = "recheck"
    BY <1>8 DEF Recheck
  <2>2. ASSUME NEW v, NEW q \in 0..Quantity,
               requests' = [requests EXCEPT ![c].pc = "reserve", ![c].config = v, ![c].qty = q]
        PROVE  RequestsAsk'
    <3> DEFINE r == [requests[c] EXCEPT !.pc = "reserve", !.config = v, !.qty = q]
    <3>1. Fine(r)
      BY <1>1, <2>1 DEF Fine, Asked, Request
    <3>2. requests' = [requests EXCEPT ![c] = r]
      BY <2>2
    <3> HIDE DEF r
    <3> QED BY <1>1, <1>3, <1>4, <2>1, <3>1, <3>2, OneAsks
  <2>3. CASE requests' = [requests EXCEPT ![c].pc = "reserve"]
    <3> DEFINE r == [requests[c] EXCEPT !.pc = "reserve"]
    <3>1. Fine(r)
      BY <1>1, <2>1 DEF Fine, Asked, Request
    <3>2. requests' = [requests EXCEPT ![c] = r]
      BY <2>3
    <3> HIDE DEF r
    <3> QED BY <1>1, <1>3, <1>4, <2>1, <3>1, <3>2, OneAsks
  <2>4. CASE requests' = [requests EXCEPT ![c].pc = "reserve", ![c].config = config]
    <3> DEFINE r == [requests[c] EXCEPT !.pc = "reserve", !.config = config]
    <3>1. Fine(r)
      BY <1>1, <2>1 DEF Fine, Asked, Request
    <3>2. requests' = [requests EXCEPT ![c] = r]
      BY <2>4
    <3> HIDE DEF r
    <3> QED BY <1>1, <1>3, <1>4, <2>1, <3>1, <3>2, OneAsks
  <2>5. CASE /\ Closable(requests[c].target, "live")
             /\ requests' = [requests EXCEPT ![c].pc = "reserve", ![c].config = config,
                                 ![c].qty = positions[requests[c].target].qty]
    <3>1. requests[c].target \in IntentIds
      BY <2>5, IntentNumbers DEF Closable
    <3>2. positions[requests[c].target].qty \in 0..Quantity
      BY <3>1 DEF BooksInv, PositionsSound
    <3> QED BY <2>2, <2>5, <3>2
  <2> QED BY <1>8, <2>3, <2>4, <2>5 DEF Recheck, Goto
<1>9. CASE \E p \in DOMAIN previews, n \in scenario.keys[c] : Confirm(c, p, Uuid(n))
  <2>1. PICK p \in DOMAIN previews, n \in scenario.keys[c] : Confirm(c, p, Uuid(n))
    BY <1>9
  <2> DEFINE r == [pc |-> "recheck", env |-> "live", action |-> previews[p].action,
              target |-> previews[p].target, emergency |-> previews[p].emergency,
              preview |-> p, key |-> Uuid(n), keyed |-> previews[p].key # NoKey,
              config |-> previews[p].config, qty |-> previews[p].qty]
  <2>2. Fine(r)
    BY <1>4 DEF Fine, Asked
  <2>3. requests' = [requests EXCEPT ![c] = r] /\ previews' = previews
    BY <2>1 DEF Confirm
  <2> HIDE DEF r
  <2> QED BY <1>1, <1>3, <1>4, <2>2, <2>3, OneAsks
<1>10. ASSUME NEW action \in Actions, NEW target \in Targets, NEW n \in scenario.keys[c],
              PaperRequest(c, action, target, Uuid(n))
       PROVE  RequestsAsk'
  <2> DEFINE r == [Idle EXCEPT !.pc = "find", !.env = "paper", !.action = action,
                              !.target = target, !.key = Uuid(n)]
  <2>1. Fine(r)
    BY LedgerAssumption DEF Fine, Asked, Idle
  <2>2. requests' = [requests EXCEPT ![c] = r] /\ previews' = previews
    BY <1>10 DEF PaperRequest
  <2> HIDE DEF r
  <2> QED BY <1>1, <1>3, <1>4, <2>1, <2>2, OneAsks
<1>11. CASE \E asset \in Assets, n \in scenario.keys[c] :
                PaperRequest(c, "open", asset, Uuid(n))
  BY <1>10, <1>11 DEF Targets, Actions
<1>12. CASE \E p \in DOMAIN intents, n \in scenario.keys[c] :
                PaperRequest(c, "close", p, Uuid(n))
  BY <1>10, <1>12, IntentNumbers DEF Targets, Actions
<1> QED BY <1>5, <1>6, <1>7, <1>8, <1>9, <1>11, <1>12 DEF ClientStep

\* The surroundings.
LEMMA SurroundingsAsk ==
    ASSUME LedgerInv, BooksInv, RequestsAsk, Surroundings
    PROVE  RequestsAsk'
<1>1. \A p \in DOMAIN previews : Asked(previews[p])
  BY DEF RequestsAsk
<1>2. previews \in Seq(Preview) /\ requests \in [Planners -> Request]
  BY DEF LedgerInv, Shape
<1>3. CASE \/ PauseExecution \/ ResumeExecution
           \/ \E state \in {"enabled", "paused", "disabled"} : SetAutomation(state)
           \/ ChangeConfig \/ NewQuote
  <2>1. UNCHANGED <<requests, previews, intents, worker>>
    BY <1>3 DEF PauseExecution, ResumeExecution, SetAutomation, ChangeConfig, NewQuote
  <2> QED BY <2>1, NoneAsks DEF RequestsAsk
<1>4. ASSUME UNCHANGED <<requests, intents, worker>>,
             \A p \in DOMAIN previews' : Asked(previews'[p])
      PROVE  RequestsAsk'
  BY <1>4 DEF RequestsAsk, Asked
<1>5. CASE \E p \in DOMAIN previews : ExpirePreview(p)
  <2>1. PICK p \in DOMAIN previews : previews' = [previews EXCEPT ![p].fresh = FALSE]
    BY <1>5 DEF ExpirePreview
  <2>2. DOMAIN previews' = DOMAIN previews
    BY <2>1
  <2>3. ASSUME NEW q \in DOMAIN previews
        PROVE  /\ previews'[q].qty = previews[q].qty
               /\ previews'[q].target = previews[q].target
               /\ previews'[q].emergency = previews[q].emergency
               /\ previews'[q].action = previews[q].action
    BY <1>2, <2>1 DEF Preview
  <2>4. \A q \in DOMAIN previews' : Asked(previews'[q])
    BY <1>1, <2>2, <2>3 DEF Asked
  <2> QED BY <1>4, <1>5, <2>4 DEF ExpirePreview
<1>6. ASSUME NEW action, NEW target, NEW emergency, NEW qty,
             AddPreview(action, target, emergency, qty),
             qty \in 0..Quantity, target \in Targets, emergency => action = "close"
      PROVE  RequestsAsk'
  <2> DEFINE p == [action |-> action, target |-> target, emergency |-> emergency,
                   qty |-> qty, config |-> config, key |-> NoKey, fresh |-> TRUE]
  <2>1. previews' = Append(previews, p) /\ UNCHANGED <<requests, intents, worker>>
    BY <1>6 DEF AddPreview
  <2>2. Asked(p)
    BY <1>6 DEF Asked
  <2> HIDE DEF p
  <2>3. \A q \in DOMAIN previews' : q \in DOMAIN previews \/ q = Len(previews) + 1
    BY <1>2, <2>1
  <2>4. previews'[Len(previews) + 1] = p /\ \A q \in DOMAIN previews : previews'[q] = previews[q]
    BY <1>2, <2>1
  <2>5. \A q \in DOMAIN previews' : Asked(previews'[q])
    BY <1>1, <2>2, <2>3, <2>4
  <2> QED BY <1>4, <2>1, <2>5
<1>7. CASE \E asset \in Assets : PreviewOpen(asset)
  <2>1. PICK asset \in Assets : AddPreview("open", asset, FALSE, Quantity)
    BY <1>7 DEF PreviewOpen
  <2>2. Quantity \in 0..Quantity /\ asset \in Targets
    BY LedgerAssumption DEF Targets
  <2> QED BY <1>6, <2>1, <2>2
<1>8. CASE \E p \in DOMAIN intents, emergency \in BOOLEAN : PreviewClose(p, emergency)
  <2>1. PICK p \in DOMAIN intents, emergency \in BOOLEAN :
            AddPreview("close", p, emergency, positions[p].qty)
    BY <1>8 DEF PreviewClose
  <2>2. p \in IntentIds
    BY IntentNumbers
  <2>3. positions[p].qty \in 0..Quantity /\ p \in Targets
    BY <2>2 DEF BooksInv, PositionsSound, Targets
  <2> QED BY <1>6, <2>1, <2>3
<1>9. CASE CutOff \/ WorkerCrash
  <2>1. \A c \in Planners : requests'[c] = Idle \/ requests'[c] = requests[c]
    BY <1>2, <1>9 DEF CutOff, WorkerCrash
  <2>2. UNCHANGED <<previews, intents>> /\ (worker'.seen = {} \/ worker' = worker)
    BY <1>9 DEF CutOff, WorkerCrash, Resting
  <2>3. Idle.qty = 0 /\ Idle.pc = "idle" /\ 0 \in 0..Quantity
    BY LedgerAssumption DEF Idle
  <2> QED BY <2>1, <2>2, <2>3 DEF RequestsAsk, Asked
<1> QED BY <1>3, <1>5, <1>7, <1>8, <1>9 DEF Surroundings

\* Every step.
LEMMA NextAsks ==
    ASSUME LedgerInv, LedgerInv', BooksInv, RequestsAsk, [Next]_vars
    PROVE  RequestsAsk'
<1>1. CASE PaperStep \/ RestOfRound
  BY <1>1, RoundAsks, PlanAsks DEF Planners
<1>2. ASSUME NEW c \in Clients, ClientStep(c) PROVE RequestsAsk'
  <2>1. c \in Planners
    BY LedgerAssumption DEF LedgerInv, Shape, Planners
  <2> QED BY <1>2, <2>1, ClientAsks, PlanAsks
<1>3. CASE Surroundings
  BY <1>3, SurroundingsAsk
<1>4. CASE UNCHANGED vars
  BY <1>4, NoneAsks DEF vars, RequestsAsk
<1> QED BY <1>1, <1>2, <1>3, <1>4 DEF Next

---------------------------------------------------------------------------
(* The bounds *)

\* What the switches are and how often things happen.
Bounded ==
    /\ control \in {"blocked", "reconciling", "ready", "paused"}
    /\ automation \in {"disabled", "enabled", "paused"}
    /\ config \in 0..MaxConfig /\ quote \in 0..MaxQuote /\ crashes \in 0..MaxCrashes
    /\ Len(previews) <= MaxPreviews

\* Every step of the worker.
LEMMA RoundBounded ==
    ASSUME LedgerInv, Bounded, PaperStep \/ RestOfRound
    PROVE  Bounded'
<1>1. /\ UNCHANGED <<environment, previews>>
      /\ control' = control \/ control' \in {"blocked", "ready", "paused"}
      /\ automation' = automation \/ automation' = "paused"
  BY DEF PaperStep, RestOfRound, StartRound, PaperRaises, PaperEnds, RecordPaperOpenFills,
     RecordPaperCloseFills, PaperFills, ExecutePaperCompensation,
     ExecutePaperCloseCompensation, PaperCompensates, LiveSettles, LiveReview, LiveIdle,
     RoundReady, RoundPaused, TraderReads, TraderReadsKeys, TraderCloses, TraderOpens,
     Decided, TraderWaits, TraderStops, RoundEnds, Plan, FindExisting, Price, Refused,
     Insert, NotInserted, switches
<1> QED BY <1>1 DEF Bounded, environment

\* Every step of a client.
LEMMA ClientBounded ==
    ASSUME LedgerInv, Bounded, NEW c \in Clients, ClientStep(c)
    PROVE  Bounded'
<1>1. UNCHANGED <<environment, automation>> /\ (control' = control \/ control' = "paused")
  BY DEF ClientStep, Confirm, PaperRequest, Recheck, Reserve, NotReservable, PauseForClose,
     Plan, FindExisting, Price, Refused, Insert, NotInserted, switches
<1>2. Len(previews') = Len(previews)
  <2>1. previews \in Seq(Preview)
    BY DEF LedgerInv, Shape
  <2>2. CASE previews' = previews
    BY <2>2
  <2>3. CASE Reserve(c)
    BY <2>1, <2>3 DEF Reserve
  <2> QED BY <2>2, <2>3 DEF ClientStep, Confirm, PaperRequest, Recheck, NotReservable,
          PauseForClose, Plan, FindExisting, Price, Refused, Insert, NotInserted
<1> QED BY <1>1, <1>2 DEF Bounded, environment

\* Every other step.
LEMMA SurroundingsBounded ==
    ASSUME LedgerInv, Bounded, Surroundings
    PROVE  Bounded'
<1>1. /\ config \in 0..MaxConfig /\ MaxConfig \in Nat
      /\ quote \in 0..MaxQuote /\ MaxQuote \in Nat
      /\ crashes \in 0..MaxCrashes /\ MaxCrashes \in Nat
      /\ Len(previews) <= MaxPreviews /\ MaxPreviews \in Nat /\ previews \in Seq(Preview)
  BY LedgerAssumption DEF Bounded, LedgerInv, Shape
<1>2. CASE PauseExecution \/ ResumeExecution
  BY <1>2 DEF PauseExecution, ResumeExecution, Bounded, environment
<1>3. CASE \E state \in {"enabled", "paused", "disabled"} : SetAutomation(state)
  BY <1>3 DEF SetAutomation, Bounded, environment
<1>4. CASE ChangeConfig
  <2>1. config' \in 0..MaxConfig
    BY <1>1, <1>4 DEF ChangeConfig
  <2> QED BY <1>4, <2>1 DEF ChangeConfig, Bounded, switches
<1>5. CASE NewQuote
  <2>1. quote' \in 0..MaxQuote
    BY <1>1, <1>5 DEF NewQuote
  <2> QED BY <1>5, <2>1 DEF NewQuote, Bounded, switches
<1>6. CASE \E p \in DOMAIN previews : ExpirePreview(p)
  <2>1. Len(previews') = Len(previews)
    BY <1>1, <1>6 DEF ExpirePreview
  <2> QED BY <1>6, <2>1 DEF ExpirePreview, Bounded, switches, environment
<1>7. ASSUME NEW action, NEW target, NEW emergency, NEW qty,
             AddPreview(action, target, emergency, qty)
      PROVE  Bounded'
  <2>1. Len(previews') = Len(previews) + 1 /\ Len(previews) < MaxPreviews
        /\ Len(previews) \in Nat
    BY <1>1, <1>7 DEF AddPreview
  <2>2. Len(previews') <= MaxPreviews
    BY <1>1, <2>1
  <2> QED BY <1>7, <2>2 DEF AddPreview, Bounded, switches, environment
<1>8. CASE CutOff \/ WorkerCrash
  <2>1. crashes' \in 0..MaxCrashes
    BY <1>1, <1>8 DEF CutOff, WorkerCrash
  <2> QED BY <1>8, <2>1 DEF CutOff, WorkerCrash, Bounded, switches
<1> QED BY <1>2, <1>3, <1>4, <1>5, <1>6, <1>7, <1>8 DEF Surroundings, PreviewOpen, PreviewClose

---------------------------------------------------------------------------
(* Rows, positions and requests together *)

LedgerBooks == LedgerInv /\ BooksInv /\ RequestsAsk /\ Bounded

\* At first there is nothing to book.
LEMMA InitBooks == Init => LedgerBooks
<1> SUFFICES ASSUME Init PROVE LedgerBooks
  OBVIOUS
<1>1. /\ previews = <<>> /\ intents = <<>> /\ config = 0 /\ quote = 0 /\ crashes = 0
      /\ positions = [p \in IntentIds |-> NoPosition]
      /\ requests = [c \in Planners |-> Idle] /\ worker = Resting
      /\ control = "blocked" /\ automation = "disabled"
  BY DEF Init
<1>2. /\ Quantity \in Nat /\ MaxIntents \in Nat /\ MaxConfig \in Nat /\ MaxQuote \in Nat
      /\ MaxCrashes \in Nat /\ MaxPreviews \in Nat
  BY LedgerAssumption
<1>3. BooksInv
  BY <1>1, <1>2 DEF BooksInv, RowsSound, ClosesKnown, PositionsSound, BooksAgree, NoPosition
<1>4. RequestsAsk
  BY <1>1, <1>2 DEF RequestsAsk, Idle, Resting
<1>5. Bounded
  BY <1>1, <1>2 DEF Bounded
<1> QED BY <1>3, <1>4, <1>5, InitHolds DEF LedgerBooks

\* Every step keeps the rows, the books, the requests and the bounds.
LEMMA NextLedgerBooks == LedgerBooks /\ [Next]_vars => LedgerBooks'
<1> SUFFICES ASSUME LedgerBooks, [Next]_vars PROVE LedgerBooks'
  OBVIOUS
<1>1. LedgerInv /\ BooksInv /\ RequestsAsk /\ Bounded
  BY DEF LedgerBooks
<1>2. LedgerInv'
  BY <1>1, NextKeeps
<1>3. Bounded'
  <2>1. CASE UNCHANGED vars
    BY <1>1, <2>1 DEF vars, switches, environment, Bounded
  <2> QED BY <1>1, <2>1, RoundBounded, ClientBounded, SurroundingsBounded DEF Next
<1> QED BY <1>1, <1>2, <1>3, NextBooks, NextAsks DEF LedgerBooks

\* Every row, position and request stays within what was planned, and every
\* counter within its bound: no settlement takes more off a position than is
\* left of it, because the one that would raises (settle_live_close and its
\* paper counterpart, record_paper_close_fills).
THEOREM LedgerTypes == Spec => []TypeOK
<1>1. LedgerBooks => TypeOK
  <2> SUFFICES ASSUME LedgerBooks PROVE TypeOK
    OBVIOUS
  <2>1. LedgerInv /\ BooksInv /\ RequestsAsk /\ Bounded
    BY DEF LedgerBooks
  <2>2. ASSUME NEW i \in DOMAIN intents PROVE RowTyped(intents[i])
    <3>1. intents[i] \in Intent /\ RowSound(intents[i])
      BY <2>1, IntentNumbers DEF BooksInv, RowsSound
    <3>2. intents[i].preview \in 0..MaxPreviews
      <4>1. CASE intents[i].preview = 0
        BY <4>1, LedgerAssumption
      <4>2. CASE intents[i].preview # 0
        <5>1. intents[i].preview \in DOMAIN previews
          BY <2>1, <4>2 DEF LedgerInv, Tickets, OfTicket
        <5>2. previews \in Seq(Preview) /\ Len(previews) <= MaxPreviews /\ MaxPreviews \in Nat
          BY <2>1, LedgerAssumption DEF LedgerInv, Shape, Bounded
        <5> QED BY <5>1, <5>2
      <4> QED BY <4>1, <4>2
    <3> QED BY <3>1, <3>2 DEF RowTyped, RowSound, Asked, Targets, Intent, Environments, Actions
  <2>3. Len(intents) <= MaxIntents
    BY <2>1 DEF LedgerInv, Shape
  <2>4. ASSUME NEW p \in IntentIds
        PROVE  /\ positions[p].qty \in 0..Quantity
               /\ positions[p].closer \in 0..MaxIntents
               /\ positions[p].status \in {"none", "open", "closing", "closed"}
    BY <2>1, IntentNumbers DEF BooksInv, PositionsSound, Position
  <2>5. \A c \in Planners : requests[c].qty \in 0..Quantity
    BY <2>1 DEF RequestsAsk
  <2> QED BY <2>1, <2>2, <2>3, <2>4, <2>5 DEF TypeOK, Bounded
<1> QED BY <1>1, InitBooks, NextLedgerBooks, PTL DEF Spec

\* A row that is neither compensated nor under review keeps on both legs what
\* it has booked.
LEMMA RowHeld ==
    ASSUME LedgerBooks, NEW i \in DOMAIN intents,
           intents[i].status \notin {"compensating", "manual_review"}
    PROVE  Filled(i, "spot") = Booked[i] /\ Filled(i, "perp") = Booked[i]
<1>1. LedgerInv /\ BooksInv /\ RowSound(intents[i]) /\ intents[i] \in Intent
  BY IntentNumbers DEF LedgerBooks, BooksInv, RowsSound
<1>2. CASE intents[i].status = "planned"
  <2>1. intents[i].spot = 0 /\ intents[i].perp = 0 /\ intents[i].order = NoOrder
    BY <1>1, <1>2 DEF RowSound
  <2>2. Booked[i] = 0
    BY <1>1, <1>2, BookedNumbers DEF Settled
  <2> QED BY <2>1, <2>2 DEF Filled, NoOrder
<1>3. CASE intents[i].status \in Settled
  <2>1. Booked[i] = Common(intents[i])
    BY <1>1, <1>3, BookedNumbers
  <2>2. Kept(intents[i], "spot") = Common(intents[i])
        /\ Kept(intents[i], "perp") = Common(intents[i])
    BY <1>1, <1>3 DEF RowSound
  <2> QED BY <2>1, <2>2 DEF Filled, Kept
<1>4. intents[i].status \in {"planned"} \cup Settled
  BY <1>1 DEF RowSound, Intent, IntentStatuses, Unsettled, Settled
<1> QED BY <1>2, <1>3, <1>4

\* Once nothing of a pair is compensating or under review, the spot it bought
\* and the perpetual it sold are what its position says, for any number of
\* closes of it, fill ratios and crashes between a fill and its compensation
\* (record_paper_open_fills, record_paper_close_fills, execute_paper_compensation).
THEOREM BooksAreTrue == Spec => []BookedIsHeld
<1>1. LedgerBooks => BookedIsHeld
  <2> SUFFICES ASSUME LedgerBooks, NEW p \in DOMAIN intents, intents[p].action = "open",
                      \A i \in {p} \cup ClosesOf(p) :
                         intents[i].status \notin {"compensating", "manual_review"}
               PROVE  Holding(p, "spot") = positions[p].qty
                      /\ Holding(p, "perp") = positions[p].qty
    BY DEF BookedIsHeld
  <2>1. LedgerInv /\ BooksInv
    BY DEF LedgerBooks
  <2>2. positions[p].qty = Booked[p] - SumFunctionOnSet(Booked, ClosesOf(p))
    BY <2>1 DEF BooksInv, BooksAgree
  <2>3. ASSUME NEW leg \in {"spot", "perp"}
        PROVE  Holding(p, leg) = positions[p].qty
    <3> DEFINE legs == [i \in DOMAIN intents |-> Filled(i, leg)]
    <3>1. ClosesOf(p) \subseteq DOMAIN intents /\ Numbers(Booked, ClosesOf(p))
      BY <2>1, BookedNumbers
    <3>2. \A i \in ClosesOf(p) : Booked[i] = legs[i]
      BY <3>1, RowHeld
    <3>3. Filled(p, leg) = Booked[p]
      BY RowHeld
    <3> HIDE DEF legs
    <3>4. SumFunctionOnSet(Booked, ClosesOf(p)) = SumFunctionOnSet(legs, ClosesOf(p))
      BY <3>1, <3>2, SumAgrees
    <3>5. Holding(p, leg) = Filled(p, leg) - SumFunctionOnSet(legs, ClosesOf(p))
      BY DEF Holding, legs
    <3> QED BY <2>2, <3>3, <3>4, <3>5
  <2> QED BY <2>3
<1> QED BY <1>1, InitBooks, NextLedgerBooks, PTL DEF Spec

---------------------------------------------------------------------------
(* The automatic trader *)

\* An open of the trader, and whether it still stands in the way of another.
Automatic(i) == intents[i].key.kind = "open"
Holdable(p) == positions[p].status \in {"open", "closing"}
Active(i) == intents[i].status \in Unsettled \/ Holdable(i)

TradersOpens ==
    \A i \in DOMAIN intents : Automatic(i) =>
       intents[i].env = "live" /\ intents[i].action = "open"
OnePerAsset ==
    \A i, j \in DOMAIN intents :
       Automatic(i) /\ Automatic(j) /\ intents[i].target = intents[j].target
       /\ Active(i) /\ Active(j) => i = j

\* The clients' keys are not the trader's; the trader asks in its own name,
\* and to open only what it may still open.
ClientsAsk == \A c \in Clients : requests[c].pc = "idle" \/ requests[c].key.kind = "request"
TraderAsks ==
    requests[Trader].pc # "idle" =>
       /\ worker.pc = "plan" /\ requests[Trader].env = "live"
       /\ requests[Trader].key.kind = requests[Trader].action
       /\ requests[Trader].action = "open" =>
             \A i \in DOMAIN intents :
                Automatic(i) /\ intents[i].target = requests[Trader].target => ~ Active(i)

\* What it has read shows every open of its own that is in the way.
TraderSees ==
    /\ worker.pc \in {"keys", "decide"} =>
          \A i \in DOMAIN intents : Automatic(i) /\ Holdable(i) =>
             \E s \in worker.seen : s[1] = i
    /\ worker.pc = "decide" =>
          \A i \in DOMAIN intents : Automatic(i) /\ intents[i].status \in Unsettled =>
             intents[i].target \in worker.blocked

TraderInv == TradersOpens /\ OnePerAsset /\ ClientsAsk /\ TraderAsks /\ TraderSees

\* What steps other than the trader's planning do to the rows: no open of the
\* trader is added, and none comes back into the way.
Quiet ==
    \A i \in DOMAIN intents' : Automatic(i)' =>
       /\ i \in DOMAIN intents /\ Automatic(i)
       /\ intents'[i].env = intents[i].env /\ intents'[i].action = intents[i].action
       /\ intents'[i].target = intents[i].target
       /\ Active(i)' => Active(i)

\* Clients' planning leaves even the statuses of the trader's opens.
Still ==
    /\ Quiet
    /\ \A i \in DOMAIN intents' : Automatic(i)' =>
          /\ intents'[i].status = intents[i].status
          /\ Holdable(i)' => Holdable(i)

\* Steps that change neither rows nor positions are still.
LEMMA NothingMoves ==
    ASSUME UNCHANGED <<intents, positions>>
    PROVE  Still
BY DEF Still, Quiet, Automatic, Active, Holdable

\* A quiet step keeps what is said of the rows.
LEMMA QuietRows ==
    ASSUME TraderInv, Quiet
    PROVE  TradersOpens' /\ OnePerAsset'
<1>1. TradersOpens'
  BY DEF TraderInv, TradersOpens, Quiet
<1>2. OnePerAsset'
  <2> SUFFICES ASSUME NEW i \in DOMAIN intents', NEW j \in DOMAIN intents',
                      Automatic(i)', Automatic(j)', intents'[i].target = intents'[j].target,
                      Active(i)', Active(j)'
               PROVE  i = j
    BY DEF OnePerAsset
  <2> QED BY DEF TraderInv, OnePerAsset, Quiet
<1> QED BY <1>1, <1>2

\* It keeps what is said of the trader's request, too.
LEMMA QuietAsks ==
    ASSUME TraderInv, Quiet,
           \/ requests'[Trader].pc = "idle"
           \/ /\ requests[Trader].pc # "idle" /\ worker'.pc = worker.pc
              /\ requests'[Trader].env = requests[Trader].env
              /\ requests'[Trader].key = requests[Trader].key
              /\ requests'[Trader].action = requests[Trader].action
              /\ requests'[Trader].target = requests[Trader].target
    PROVE  TraderAsks'
<1>1. CASE requests'[Trader].pc = "idle"
  BY <1>1 DEF TraderAsks
<1>2. CASE requests'[Trader].pc # "idle"
  <2>1. /\ requests[Trader].pc # "idle" /\ worker'.pc = worker.pc
        /\ requests'[Trader].env = requests[Trader].env
        /\ requests'[Trader].key = requests[Trader].key
        /\ requests'[Trader].action = requests[Trader].action
        /\ requests'[Trader].target = requests[Trader].target
    BY <1>2
  <2>2. TraderAsks
    BY DEF TraderInv
  <2>3. ASSUME NEW i \in DOMAIN intents', Automatic(i)', requests'[Trader].action = "open",
               intents'[i].target = requests'[Trader].target
        PROVE  ~ Active(i)'
    BY <2>1, <2>2, <2>3 DEF TraderAsks, Quiet
  <2> QED BY <2>1, <2>2, <2>3 DEF TraderAsks
<1> QED BY <1>1, <1>2

\* A still step that leaves the worker keeps what the trader has read.
LEMMA StillSees ==
    ASSUME TraderInv, Still, UNCHANGED worker
    PROVE  TraderSees'
<1>1. TraderSees
  BY DEF TraderInv
<1>2. ASSUME NEW i \in DOMAIN intents', Automatic(i)'
      PROVE  /\ i \in DOMAIN intents /\ Automatic(i)
             /\ intents'[i].target = intents[i].target
             /\ intents'[i].status = intents[i].status
             /\ Holdable(i)' => Holdable(i)
  BY <1>2 DEF Still, Quiet
<1> QED BY <1>1, <1>2 DEF TraderSees

\* Neither does a worker that rests, or does something else, need to know.
LEMMA NotReading ==
    ASSUME worker'.pc \notin {"keys", "decide"}
    PROVE  TraderSees'
BY DEF TraderSees

\* A row that is replaced while it is unsettled, by one of the same request,
\* with its position or the one it closes.
LEMMA RowsReplaced ==
    ASSUME LedgerInv, NEW i \in DOMAIN intents, intents[i].status \in Unsettled,
           NEW spot, NEW perp, NEW order, NEW status,
           \/ intents' = [intents EXCEPT ![i].spot = spot, ![i].perp = perp,
                              ![i].order = order, ![i].status = status]
           \/ intents' = [intents EXCEPT ![i].status = status,
                              ![i].order.status = order]
           \/ intents' = [intents EXCEPT ![i].status = status],
           \A j \in DOMAIN intents :
              \/ positions'[j].status = positions[j].status
              \/ j = i \/ positions[j].status = "closing"
    PROVE  Quiet
<1>1. intents \in Seq(Intent) /\ DOMAIN intents' = DOMAIN intents
  BY DEF LedgerInv, Shape
<1>2. ASSUME NEW j \in DOMAIN intents
      PROVE  /\ intents'[j].key = intents[j].key /\ intents'[j].env = intents[j].env
             /\ intents'[j].action = intents[j].action
             /\ intents'[j].target = intents[j].target
             /\ j # i => intents'[j].status = intents[j].status
  <2>1. intents[j] \in Intent
    BY <1>1
  <2>2. CASE j # i
    BY <2>2
  <2>3. CASE j = i
    BY <2>1, <2>3 DEF Intent
  <2> QED BY <2>2, <2>3
<1>3. ASSUME NEW j \in DOMAIN intents, Active(j)'
      PROVE  Active(j)
  BY <1>2, <1>3 DEF Active, Holdable
<1> QED BY <1>1, <1>2, <1>3 DEF Quiet, Automatic

\* Settling is quiet: an open was unsettled before, and a close frees what it
\* had reserved.
LEMMA SettlesQuietly ==
    ASSUME LedgerInv, NEW i \in DOMAIN intents, intents[i].status \in Unsettled,
           NEW spot, NEW perp, NEW order, Settles(i, spot, perp, order)
    PROVE  Quiet
<1>1. positions \in [IntentIds -> Position] /\ DOMAIN intents \subseteq IntentIds
  BY IntentNumbers DEF LedgerInv, Shape
<1>2. CASE intents[i].action = "open" /\ OpenSettles(i, spot, perp, order)
  <2>1. \A j \in DOMAIN intents : positions'[j].status = positions[j].status \/ j = i
    BY <1>1, <1>2 DEF OpenSettles
  <2> QED BY <1>2, <2>1, RowsReplaced DEF OpenSettles
<1>3. CASE intents[i].action = "close" /\ CloseSettles(i, spot, perp, order)
  <2>1. positions[intents[i].target].status = "closing"
    BY <1>3, ReservationParts DEF Pending
  <2>2. \A j \in DOMAIN intents : positions'[j].status = positions[j].status
                                  \/ positions[j].status = "closing"
    BY <1>1, <1>3, <2>1 DEF CloseSettles
  <2> QED BY <1>3, <2>2, RowsReplaced DEF CloseSettles
<1> QED BY <1>2, <1>3 DEF Settles

\* The worker's fills, compensations and settlements are quiet.
LEMMA WorkerQuiet ==
    ASSUME LedgerInv, NEW action,
           \/ \E ratio \in Ratios : PaperFills(action, ratio)
           \/ \E succeeds \in Compensates : PaperCompensates(action, succeeds)
           \/ LiveSettles \/ LiveReview
    PROVE  Quiet
<1>1. worker.pc = "paper" /\ worker.todo # {} => Oldest \in DOMAIN intents
  BY OldestIsPicked
<1>2. CASE \E ratio \in Ratios : PaperFills(action, ratio)
  <2>1. PICK ratio \in Ratios : PaperFills(action, ratio)
    BY <1>2
  <2> DEFINE i == Oldest
             spot == Part(i, ratio.spot)
             perp == Part(i, ratio.perp)
  <2>2. i \in DOMAIN intents /\ intents[i].status \in Unsettled
    BY <1>1, <2>1 DEF PaperFills, Unsettled
  <2>3. \/ Settles(i, spot, perp, NoOrder)
        \/ /\ intents' = [intents EXCEPT ![i].spot = spot, ![i].perp = perp,
                   ![i].order = ExcessOrder(spot, perp), ![i].status = "compensating"]
           /\ positions' = positions
    BY <2>1 DEF PaperFills
  <2> DEFINE order == ExcessOrder(spot, perp)
  <2> HIDE DEF i, spot, perp
  <2>4. CASE Settles(i, spot, perp, NoOrder)
    BY <2>2, <2>4, SettlesQuietly
  <2>5. CASE /\ intents' = [intents EXCEPT ![i].spot = spot, ![i].perp = perp,
                   ![i].order = order, ![i].status = "compensating"]
             /\ positions' = positions
    <3> HIDE DEF order
    <3> QED BY <2>2, <2>5, RowsReplaced
  <2> QED BY <2>3, <2>4, <2>5
<1>3. CASE \E succeeds \in Compensates : PaperCompensates(action, succeeds)
  <2>1. PICK succeeds \in Compensates : PaperCompensates(action, succeeds)
    BY <1>3
  <2> DEFINE i == Oldest
  <2>2. i \in DOMAIN intents /\ intents[i].status \in Unsettled
    BY <1>1, <2>1 DEF PaperCompensates, Unsettled
  <2>3. \/ \E spot, perp, order : Settles(i, spot, perp, order)
        \/ /\ intents' = [intents EXCEPT ![i].status = "manual_review",
                                         ![i].order.status = "failed"]
           /\ positions' = positions
    BY <2>1 DEF PaperCompensates
  <2> HIDE DEF i
  <2> QED BY <2>2, <2>3, SettlesQuietly, RowsReplaced
<1>4. CASE LiveSettles \/ LiveReview
  <2> DEFINE queue == {i \in DOMAIN intents : Executable(i)}
             i == Min(queue)
  <2>1. queue # {} /\ queue \in SUBSET Nat
    BY <1>4, IntentNumbers DEF LiveSettles, LiveReview
  <2>2. i \in queue
    BY <2>1, MinIsMember
  <2>3. i \in DOMAIN intents /\ intents[i].status \in Unsettled
    BY <2>2 DEF Executable, Unsettled
  <2>4. \/ \E filled : Settles(i, filled, filled, NoOrder)
        \/ intents' = [intents EXCEPT ![i].status = "manual_review"] /\ positions' = positions
    BY <1>4 DEF LiveSettles, LiveReview
  <2> HIDE DEF i
  <2> QED BY <2>3, <2>4, SettlesQuietly, RowsReplaced
<1> QED BY <1>2, <1>3, <1>4

\* A planned row is the trader's only if the trader's request asks for it; a
\* close reserves an open position, which was in the way before.
LEMMA InsertedQuietly ==
    ASSUME LedgerInv, NEW c \in Planners, Insert(c), requests[c].key.kind # "open"
    PROVE  Still
<1> DEFINE r == requests[c]
           i == Len(intents) + 1
           row == PlannedRow(r)
<1>1. r \in Request /\ intents \in Seq(Intent) /\ positions \in [IntentIds -> Position]
      /\ DOMAIN intents \subseteq IntentIds
  BY IntentNumbers DEF LedgerInv, Shape
<1>2. /\ Insertable(r) /\ intents' = Append(intents, row)
      /\ positions' = IF r.action = "open" THEN positions
                      ELSE [positions EXCEPT ![r.target].status = "closing",
                                             ![r.target].closer = i]
  BY DEF Insert
<1>3. r.key.kind # "open"
  OBVIOUS
<1> HIDE DEF r
<1>4. row \in Intent /\ row.key = r.key
  BY <1>1 DEF PlannedRow, Request, Intent, NoOrder, Order, IntentStatuses, Unsettled
<1> HIDE DEF row
<1>5. /\ DOMAIN intents' = DOMAIN intents \cup {i} /\ intents'[i] = row
      /\ \A j \in DOMAIN intents : intents'[j] = intents[j]
  BY <1>1, <1>2, <1>4, Appended
<1> HIDE DEF i
<1>6. ASSUME NEW j \in DOMAIN intents, positions'[j].status \in {"open", "closing"}
      PROVE  positions[j].status \in {"open", "closing"}
  <2>1. CASE r.action = "open"
    BY <1>2, <1>6, <2>1
  <2>2. CASE r.action # "open"
    <3>1. positions[r.target].status = "open" /\ r.target \in IntentIds
      BY <1>1, <1>2, <2>2 DEF Insertable, Closable, Request, Actions
    <3> QED BY <1>1, <1>2, <1>6, <2>2, <3>1
  <2> QED BY <2>1, <2>2
<1>7. ASSUME NEW j \in DOMAIN intents', Automatic(j)'
      PROVE  /\ j \in DOMAIN intents /\ Automatic(j) /\ intents'[j] = intents[j]
             /\ Holdable(j)' => Holdable(j)
  <2>1. j # i
    BY <1>3, <1>4, <1>5, <1>7 DEF Automatic
  <2> QED BY <1>5, <1>6, <1>7, <2>1 DEF Automatic, Holdable
<1> QED BY <1>7 DEF Still, Quiet, Active

\* The trader's open is planned when none of its own is in the way.
LEMMA InsertedByTrader ==
    ASSUME LedgerInv, TraderInv, Insert(Trader), requests[Trader].key.kind = "open"
    PROVE  TradersOpens' /\ OnePerAsset'
<1> DEFINE r == requests[Trader]
           i == Len(intents) + 1
           row == PlannedRow(r)
<1>1. Trader \in Planners
  BY DEF Planners
<1>2. r \in Request /\ intents \in Seq(Intent)
  BY <1>1 DEF LedgerInv, Shape
<1>3. r.pc # "idle" /\ r.env = "live" /\ r.action = "open"
      /\ \A j \in DOMAIN intents : Automatic(j) /\ intents[j].target = r.target => ~ Active(j)
  BY DEF TraderInv, TraderAsks, Insert
<1>4. intents' = Append(intents, row) /\ positions' = positions
  BY <1>3 DEF Insert
<1> HIDE DEF r
<1>5. row \in Intent /\ row.env = r.env /\ row.action = r.action /\ row.target = r.target
  BY <1>2 DEF PlannedRow, Request, Intent, NoOrder, Order, IntentStatuses, Unsettled
<1> HIDE DEF row
<1>6. /\ DOMAIN intents' = DOMAIN intents \cup {i} /\ intents'[i] = row
      /\ \A j \in DOMAIN intents : intents'[j] = intents[j]
  BY <1>2, <1>4, <1>5, Appended
<1> HIDE DEF i
<1>7. TradersOpens'
  BY <1>3, <1>5, <1>6 DEF TraderInv, TradersOpens, Automatic
<1>8. OnePerAsset'
  <2> SUFFICES ASSUME NEW j \in DOMAIN intents', NEW k \in DOMAIN intents',
                      Automatic(j)', Automatic(k)', intents'[j].target = intents'[k].target,
                      Active(j)', Active(k)'
               PROVE  j = k
    BY DEF OnePerAsset
  <2>4. /\ j \in DOMAIN intents => Automatic(j) /\ Active(j)
        /\ k \in DOMAIN intents => Automatic(k) /\ Active(k)
    BY <1>4, <1>6 DEF Automatic, Active, Holdable
  <2>1. CASE j \in DOMAIN intents /\ k \in DOMAIN intents
    BY <1>6, <2>4, <2>1 DEF TraderInv, OnePerAsset
  <2>2. CASE j \in DOMAIN intents /\ k = i
    BY <1>3, <1>5, <1>6, <2>4, <2>2
  <2>3. CASE k \in DOMAIN intents /\ j = i
    BY <1>3, <1>5, <1>6, <2>4, <2>3
  <2> QED BY <1>6, <2>1, <2>2, <2>3
<1> QED BY <1>7, <1>8

\* The worker's round up to the trader's decision.
LEMMA RoundTrades ==
    ASSUME LedgerInv, TraderInv, PaperStep \/ RestOfRound, ~ Plan(Trader)
    PROVE  TraderInv'
<1>1. requests \in [Planners -> Request] /\ worker \in Worker
      /\ Trader \in Planners /\ Clients \subseteq Planners /\ Trader \notin Clients
  BY LedgerAssumption DEF LedgerInv, Shape, Planners
<1>2. ASSUME Quiet, requests' = requests, TraderSees',
             worker.pc # "plan" \/ requests[Trader].pc = "idle"
      PROVE  TraderInv'
  <2>1. requests[Trader].pc = "idle"
    BY <1>2 DEF TraderInv, TraderAsks
  <2>2. ClientsAsk'
    BY <1>2 DEF TraderInv, ClientsAsk
  <2> QED BY <1>2, <2>1, <2>2, QuietRows, QuietAsks DEF TraderInv
<1>3. CASE \/ \E ratio \in Ratios : RecordPaperOpenFills(ratio) \/ RecordPaperCloseFills(ratio)
           \/ \E succeeds \in Compensates : \/ ExecutePaperCompensation(succeeds)
                                            \/ ExecutePaperCloseCompensation(succeeds)
  <2>1. PICK action \in Actions :
           \/ \E ratio \in Ratios : PaperFills(action, ratio)
           \/ \E succeeds \in Compensates : PaperCompensates(action, succeeds)
    BY <1>3 DEF RecordPaperOpenFills, RecordPaperCloseFills, ExecutePaperCompensation,
       ExecutePaperCloseCompensation, Actions
  <2>2. requests' = requests /\ worker.pc = "paper" /\ worker'.pc = "paper"
    BY <1>1, <2>1 DEF PaperFills, PaperCompensates, NextCandidate, Worker
  <2>3. Quiet
    BY <2>1, WorkerQuiet
  <2> QED BY <1>2, <2>2, <2>3, NotReading
<1>4. CASE LiveSettles \/ LiveReview
  <2>1. requests' = requests /\ worker.pc = "live" /\ worker'.pc = "ready"
    BY <1>4 DEF LiveSettles, LiveReview, Step, Resting
  <2>2. Quiet
    BY <1>4, WorkerQuiet
  <2> QED BY <1>2, <2>1, <2>2, NotReading
<1>5. CASE \/ StartRound \/ PaperRaises \/ PaperEnds \/ LiveIdle \/ RoundPaused
           \/ TraderWaits \/ TraderStops \/ RoundEnds
           \/ \E state \in {"ready", "blocked"} : RoundReady(state)
  <2>1. UNCHANGED <<requests, intents, positions>>
    BY <1>5 DEF StartRound, PaperRaises, PaperEnds, LiveIdle, RoundPaused, TraderWaits,
       TraderStops, RoundEnds, RoundReady
  <2>2. worker.pc # "plan" \/ requests[Trader].pc = "idle"
    BY <1>5 DEF StartRound, PaperRaises, PaperEnds, LiveIdle, RoundPaused, TraderWaits,
       TraderStops, RoundEnds, RoundReady
  <2>3. worker'.pc \notin {"keys", "decide"}
    <3>1. CASE StartRound
      BY <1>1, <3>1 DEF StartRound, Worker
    <3>2. CASE \E state \in {"ready", "blocked"} : RoundReady(state)
      <4>1. \E pc \in {"trader", "idle"} : Step(pc)
        BY <3>2 DEF RoundReady
      <4> QED BY <4>1 DEF Step, Resting
    <3>3. CASE PaperRaises \/ RoundEnds
      <4>1. worker' = Resting
        BY <3>3 DEF PaperRaises, RoundEnds
      <4> QED BY <4>1 DEF Resting
    <3>4. CASE PaperEnds \/ LiveIdle \/ RoundPaused \/ TraderWaits \/ TraderStops
      BY <3>4 DEF PaperEnds, LiveIdle, RoundPaused, TraderWaits, TraderStops, Step, Resting
    <3> QED BY <1>5, <3>1, <3>2, <3>3, <3>4
  <2>4. Quiet
    BY <2>1, NothingMoves DEF Still
  <2> QED BY <1>2, <2>1, <2>2, <2>3, <2>4, NotReading
<1>6. CASE TraderReads
  <2> DEFINE read == {<<p, positions[p].status>> : p \in LivePositions({"open", "closing"})}
  <2>1. UNCHANGED <<requests, intents, positions>> /\ worker.pc = "trader"
        /\ (worker' = [worker EXCEPT !.pc = "keys", !.seen = read] \/ Step("idle"))
    BY <1>6 DEF TraderReads
  <2>2. ASSUME NEW i \in DOMAIN intents, Automatic(i), Holdable(i)
        PROVE  \E s \in read : s[1] = i
    <3>1. i \in LivePositions({"open", "closing"})
      BY <2>2 DEF LivePositions, Holdable, TraderInv, TradersOpens
    <3>2. <<i, positions[i].status>> \in read /\ <<i, positions[i].status>>[1] = i
      BY <3>1
    <3> QED BY <3>2
  <2> HIDE DEF read
  <2>3. (worker'.pc = "keys" /\ worker'.seen = read) \/ worker'.pc = "idle"
    BY <1>1, <2>1 DEF Step, Resting, Worker
  <2>4. TraderSees'
    BY <2>1, <2>2, <2>3 DEF TraderSees, Automatic, Holdable
  <2>5. Quiet
    BY <2>1, NothingMoves DEF Still
  <2> QED BY <1>2, <2>1, <2>4, <2>5
<1>7. CASE TraderReadsKeys
  <2>1. UNCHANGED <<requests, intents, positions>> /\ worker.pc = "keys"
        /\ worker' = [worker EXCEPT !.pc = "decide", !.blocked = OpeningAssets]
    BY <1>7 DEF TraderReadsKeys
  <2>2. worker'.seen = worker.seen /\ worker'.blocked = OpeningAssets
    BY <1>1, <2>1 DEF Worker
  <2>3. ASSUME NEW i \in DOMAIN intents, Automatic(i), intents[i].status \in Unsettled
        PROVE  intents[i].target \in OpeningAssets
    <3>1. intents[i].env = "live" /\ intents[i].action = "open"
      BY <2>3 DEF TraderInv, TradersOpens
    <3> QED BY <2>3, <3>1 DEF OpeningAssets, AssetOf
  <2>4. TraderSees'
    BY <2>1, <2>2, <2>3 DEF TraderInv, TraderSees, Automatic, Holdable
  <2>5. Quiet
    BY <2>1, NothingMoves DEF Still
  <2> QED BY <1>2, <2>1, <2>4, <2>5
<1>8. ASSUME NEW action \in Actions, NEW target, Decided(action, target), worker.pc = "decide",
             action = "open" =>
                \A i \in DOMAIN intents : Automatic(i) /\ intents[i].target = target => ~ Active(i)
      PROVE  TraderInv'
  <2>1. /\ requests'[Trader].env = "live" /\ requests'[Trader].action = action
        /\ requests'[Trader].target = target /\ requests'[Trader].key.kind = action
        /\ \A c \in Planners : c # Trader => requests'[c] = requests[c]
    BY <1>1, <1>8 DEF Decided, Idle, TraderKey
  <2>2. UNCHANGED <<intents, positions>> /\ worker'.pc = "plan"
    BY <1>8 DEF Decided, Step, Resting
  <2>3. Quiet
    BY <2>2, NothingMoves DEF Still
  <2>4. TradersOpens' /\ OnePerAsset'
    BY <2>3, QuietRows
  <2>5. ClientsAsk'
    BY <1>1, <2>1 DEF TraderInv, ClientsAsk
  <2>6. TraderSees'
    BY <2>2, NotReading
  <2>7. TraderAsks'
    BY <1>8, <2>1, <2>2 DEF TraderAsks, Automatic, Active, Holdable
  <2> QED BY <2>4, <2>5, <2>6, <2>7 DEF TraderInv
<1>9. CASE TraderCloses
  <2>1. PICK s \in worker.seen : Decided("close", s[1])
    BY <1>9 DEF TraderCloses
  <2>2. worker.pc = "decide" /\ "close" \in Actions
    BY <1>9 DEF TraderCloses, Actions
  <2> QED BY <1>8, <2>1, <2>2
<1>10. CASE \E asset \in Assets : TraderOpens(asset)
  <2>1. PICK asset \in Assets : TraderOpens(asset)
    BY <1>10
  <2>2. worker.pc = "decide" /\ Decided("open", asset) /\ asset \notin worker.blocked
        /\ \A s \in worker.seen : AssetOf(s[1]) # asset
    BY <2>1 DEF TraderOpens, Openable
  <2>3. ASSUME NEW i \in DOMAIN intents, Automatic(i), intents[i].target = asset, Active(i)
        PROVE  FALSE
    <3>1. TradersOpens /\ TraderSees
      BY DEF TraderInv
    <3>2. CASE intents[i].status \in Unsettled
      BY <2>2, <2>3, <3>1, <3>2 DEF TraderSees
    <3>3. CASE Holdable(i)
      <4>1. PICK s \in worker.seen : s[1] = i
        BY <2>2, <2>3, <3>1, <3>3 DEF TraderSees
      <4>2. AssetOf(i) = asset
        BY <2>3, <3>1 DEF AssetOf, TradersOpens
      <4> QED BY <2>2, <4>1, <4>2
    <3> QED BY <2>3, <3>2, <3>3 DEF Active
  <2> QED BY <1>8, <2>2, <2>3 DEF Actions
<1> QED BY <1>3, <1>4, <1>5, <1>6, <1>7, <1>9, <1>10 DEF PaperStep, RestOfRound

\* Planning, for a client as for the trader.
LEMMA PlanTrades ==
    ASSUME LedgerInv, TraderInv, NEW c \in Planners, Plan(c)
    PROVE  TraderInv'
<1>1. requests \in [Planners -> Request] /\ Clients \subseteq Planners /\ Trader \notin Clients
      /\ Trader \in Planners
  BY LedgerAssumption DEF LedgerInv, Shape, Planners
<1>2. requests[c].pc # "idle" /\ UNCHANGED worker
  BY DEF Plan, FindExisting, Price, Refused, Insert, NotInserted
<1>3. /\ requests'[c].pc # "idle" =>
            /\ requests'[c].env = requests[c].env /\ requests'[c].key = requests[c].key
            /\ requests'[c].action = requests[c].action
            /\ requests'[c].target = requests[c].target
      /\ \A d \in Planners : d # c => requests'[d] = requests[d]
  <2>1. CASE End(c)
    BY <1>1, <2>1 DEF End, Idle
  <2>2. CASE Goto(c, "price")
    BY <1>1, <2>2 DEF Goto, Request
  <2>3. CASE Price(c)
    BY <1>1, <2>3 DEF Price, Request
  <2> QED BY <2>1, <2>2, <2>3 DEF Plan, FindExisting, Refused, Insert, NotInserted
<1>4. ClientsAsk'
  BY <1>1, <1>2, <1>3 DEF TraderInv, ClientsAsk
<1>5. c # Trader => requests[c].key.kind = "request"
  BY <1>1, <1>2 DEF TraderInv, ClientsAsk, Planners
<1>6. CASE ~ Insert(c) \/ requests[c].key.kind # "open"
  <2>1. Still
    <3>1. CASE Insert(c)
      BY <1>6, <3>1, InsertedQuietly
    <3>2. CASE ~ Insert(c)
      BY <3>2, NothingMoves DEF Plan, FindExisting, Price, Refused, NotInserted
    <3> QED BY <3>1, <3>2
  <2>2. Quiet
    BY <2>1 DEF Still
  <2>3. TradersOpens' /\ OnePerAsset'
    BY <2>2, QuietRows
  <2>4. TraderSees'
    BY <1>2, <2>1, StillSees
  <2>5. TraderAsks'
    <3>1. CASE requests'[Trader].pc = "idle"
      BY <2>2, <3>1, QuietAsks
    <3>2. CASE requests'[Trader].pc # "idle"
      <4>1. requests[Trader].pc # "idle"
        BY <1>1, <1>2, <1>3, <3>2
      <4>2. /\ requests'[Trader].env = requests[Trader].env
            /\ requests'[Trader].key = requests[Trader].key
            /\ requests'[Trader].action = requests[Trader].action
            /\ requests'[Trader].target = requests[Trader].target
        BY <1>1, <1>3, <3>2
      <4> QED BY <1>2, <2>2, <4>1, <4>2, QuietAsks
    <3> QED BY <3>1, <3>2
  <2> QED BY <1>4, <2>3, <2>4, <2>5 DEF TraderInv
<1>7. CASE Insert(c) /\ requests[c].key.kind = "open"
  <2>1. c = Trader
    BY <1>5, <1>7
  <2>2. TradersOpens' /\ OnePerAsset'
    BY <1>7, <2>1, InsertedByTrader
  <2>3. worker'.pc = "plan"
    BY <1>2, <2>1 DEF TraderInv, TraderAsks
  <2>4. requests'[Trader].pc = "idle"
    BY <1>1, <1>7, <2>1 DEF Insert, End, Idle
  <2> QED BY <1>4, <2>2, <2>3, <2>4, NotReading DEF TraderInv, TraderAsks
<1> QED BY <1>6, <1>7

\* A client's other steps, and what the surroundings do: rows and positions
\* stay, requests keep their kind of key or end.
LEMMA OthersTrade ==
    ASSUME LedgerInv, TraderInv, UNCHANGED <<intents, positions>>,
           worker' = worker \/ worker'.pc = "idle",
           requests'[Trader].pc = "idle" \/
              (requests'[Trader] = requests[Trader] /\ worker' = worker),
           \A c \in Clients : requests'[c].pc = "idle" \/ requests'[c].key.kind = "request"
    PROVE  TraderInv'
<1>1. Still /\ Quiet
  BY NothingMoves DEF Still
<1>2. TradersOpens' /\ OnePerAsset'
  BY <1>1, QuietRows
<1>3. TraderSees'
  BY <1>1, StillSees, NotReading
<1>4. TraderAsks'
  BY <1>1, QuietAsks
<1>5. ClientsAsk'
  BY DEF ClientsAsk
<1> QED BY <1>2, <1>3, <1>4, <1>5 DEF TraderInv

\* A client's request never takes the trader's kind of key.
LEMMA ClientTrades ==
    ASSUME LedgerInv, TraderInv, NEW c \in Clients, ClientStep(c)
    PROVE  TraderInv'
<1>1. /\ requests \in [Planners -> Request] /\ c \in Clients /\ Clients \subseteq Planners
      /\ Trader \in Planners /\ Trader \notin Clients
  BY LedgerAssumption DEF LedgerInv, Shape, Planners
<1>2. CASE Plan(c)
  BY <1>1, <1>2, PlanTrades
<1>3. CASE ~ Plan(c)
  <2>1. UNCHANGED <<intents, positions, worker>>
    BY <1>3 DEF ClientStep, Confirm, PaperRequest, Recheck, Reserve, NotReservable,
       PauseForClose
  <2>2. \A d \in Planners : d # c => requests'[d] = requests[d]
    BY <1>1, <1>3 DEF ClientStep, Confirm, PaperRequest, Recheck, Reserve, NotReservable,
       PauseForClose, Goto, End
  <2>3. requests'[c].pc = "idle" \/ requests'[c].key.kind = "request"
    <3>1. CASE \E p \in DOMAIN previews, n \in scenario.keys[c] : Confirm(c, p, Uuid(n))
      BY <1>1, <3>1 DEF Confirm, Uuid
    <3>2. CASE \E action, target : \E n \in scenario.keys[c] : PaperRequest(c, action, target, Uuid(n))
      BY <1>1, <3>2 DEF PaperRequest, Uuid, Idle
    <3>3. CASE NotReservable(c)
      BY <1>1, <3>3 DEF NotReservable, End, Idle
    <3>4. CASE Recheck(c) \/ Reserve(c) \/ PauseForClose(c)
      <4>1. requests[c].pc # "idle"
        BY <3>4 DEF Recheck, Reserve, PauseForClose
      <4>2. requests'[c].key = requests[c].key
        BY <1>1, <3>4 DEF Recheck, Reserve, PauseForClose, Goto, Request
      <4> QED BY <1>1, <4>1, <4>2 DEF TraderInv, ClientsAsk
    <3> QED BY <1>3, <3>1, <3>2, <3>3, <3>4 DEF ClientStep
  <2>4. \A d \in Clients : requests'[d].pc = "idle" \/ requests'[d].key.kind = "request"
    BY <1>1, <2>2, <2>3 DEF TraderInv, ClientsAsk
  <2>5. requests'[Trader] = requests[Trader]
    BY <1>1, <2>2
  <2> QED BY <2>1, <2>4, <2>5, OthersTrade
<1> QED BY <1>2, <1>3

\* Crashes end requests; the rest touches none.
LEMMA SurroundingsTrade ==
    ASSUME LedgerInv, TraderInv, Surroundings
    PROVE  TraderInv'
<1>1. /\ requests \in [Planners -> Request] /\ Clients \subseteq Planners
      /\ Trader \in Planners /\ Trader \notin Clients
      /\ \A c \in Clients : requests[c].pc = "idle" \/ requests[c].key.kind = "request"
  BY LedgerAssumption DEF LedgerInv, Shape, Planners, TraderInv, ClientsAsk
<1>2. UNCHANGED <<intents, positions>>
  BY DEF Surroundings, PauseExecution, ResumeExecution, SetAutomation, ChangeConfig,
     NewQuote, ExpirePreview, PreviewOpen, PreviewClose, AddPreview, CutOff, WorkerCrash
<1>3. CASE CutOff
  BY <1>1, <1>2, <1>3, OthersTrade DEF CutOff, Idle
<1>4. CASE WorkerCrash
  BY <1>1, <1>2, <1>4, OthersTrade DEF WorkerCrash, Idle, Resting
<1>5. CASE ~ CutOff /\ ~ WorkerCrash
  <2>1. UNCHANGED <<requests, worker>>
    BY <1>5 DEF Surroundings, PauseExecution, ResumeExecution, SetAutomation, ChangeConfig,
       NewQuote, ExpirePreview, PreviewOpen, PreviewClose, AddPreview
  <2> QED BY <1>1, <1>2, <2>1, OthersTrade
<1> QED BY <1>3, <1>4, <1>5

\* At first the trader has opened nothing.
LEMMA InitTrades == Init => TraderInv
BY DEF Init, TraderInv, TradersOpens, OnePerAsset, ClientsAsk, TraderAsks, TraderSees, Idle,
   Resting, Planners

\* Every step keeps what the trader relies on.
LEMMA NextTrades == LedgerInv /\ TraderInv /\ [Next]_vars => TraderInv'
<1> SUFFICES ASSUME LedgerInv, TraderInv, [Next]_vars PROVE TraderInv'
  OBVIOUS
<1>1. CASE Plan(Trader)
  BY <1>1, PlanTrades DEF Planners
<1>2. CASE (PaperStep \/ RestOfRound) /\ ~ Plan(Trader)
  BY <1>2, RoundTrades
<1>3. CASE Surroundings \/ \E c \in Clients : ClientStep(c)
  BY <1>3, SurroundingsTrade, ClientTrades
<1>4. CASE UNCHANGED vars
  BY <1>4, OthersTrade DEF vars, TraderInv, ClientsAsk
<1> QED BY <1>1, <1>2, <1>3, <1>4 DEF Next

\* The automatic trader never opens an asset again while its own earlier open
\* of it is unsettled, under review or holds a position, whatever requests and
\* crashes come between what it reads and what it plans (automation.py reads the
\* positions before the intents' keys, and decides from both).
THEOREM OneAutomaticPair == Spec => []OneAutomaticPairPerAsset
<1>1. TraderInv => OneAutomaticPairPerAsset
  <2> SUFFICES ASSUME TraderInv, NEW i \in DOMAIN intents, NEW j \in DOMAIN intents, i # j,
                      {intents[i].key.kind, intents[j].key.kind} = {"open"},
                      intents[i].target = intents[j].target
               PROVE  \E k \in {i, j} : /\ intents[k].status \notin Unsettled
                                       /\ positions[k].status \notin {"open", "closing"}
    BY DEF OneAutomaticPairPerAsset
  <2>1. Automatic(i) /\ Automatic(j)
    BY DEF Automatic
  <2>2. ~ Active(i) \/ ~ Active(j)
    BY <2>1 DEF TraderInv, OnePerAsset
  <2> QED BY <2>2 DEF Active, Holdable
<1>2. Init => LedgerInv /\ TraderInv
  BY InitHolds, InitTrades
<1>3. (LedgerInv /\ TraderInv) /\ [Next]_vars => (LedgerInv /\ TraderInv)'
  BY NextKeeps, NextTrades
<1> QED BY <1>1, <1>2, <1>3, PTL DEF Spec
=============================================================================
