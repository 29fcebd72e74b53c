----------------------- MODULE OrderManagementV1_proofs -----------------------
(***************************************************************************)
(* Proofs about OrderManagementV1 for every set of order and broker ids,   *)
(* every snapshot and command, and every bound on the time.                *)
(***************************************************************************)
EXTENDS OrderManagementV1, TLAPS

\* What risk approved is remembered for every order there is.
ApprovalRecorded == \A i \in OrderIds : orders[i] # None => approved[i] \in Nat

\* An order the broker has not acknowledged has no broker id: acknowledging it cannot
\* orphan an earlier one.
PendingUnknownToBroker ==
    \A i \in OrderIds : (orders[i] # None /\ orders[i].status = "PENDING_SUBMISSION") =>
        orders[i].broker = None

\* The inductive invariant.
OrderIInv ==
    /\ OrderTypeOK
    /\ WithinApproval
    /\ BrokerIdsAgree
    /\ ApprovalRecorded
    /\ PendingUnknownToBroker

\* The books of one order, against what was approved for it.
BooksClosed(o, limit) ==
    /\ o.filled + o.remaining = o.quantity
    /\ o.quantity <= limit
    /\ o.status = "FILLED" => o.remaining = 0

-------------------------------------------------------------------------------
(* Commands, and what they make of an order *)

\* A command on its way has the fields of its kind.
LEMMA CommandFacts ==
    ASSUME OrderTypeOK, NEW c \in issued
    PROVE  /\ c.id \in OrderIds
           /\ c.stamp \in Nat
           /\ c.quantity \in Optional(Nat)
           /\ c.limit \in Optional(Prices)
           /\ c.trigger \in Optional(Prices)
           /\ c.type = "ACKNOWLEDGE" => c.broker \in BrokerIds
           /\ c.type = "FILL" => c.fill \in Nat \ {0} /\ c.price \in Prices
<1>1. PICK content \in Contents, t \in 0 .. MaxStamp : c = Stamped(content, t)
  BY DEF OrderTypeOK
<1>2. content \in Content /\ WellFormed(content)
  BY OrderAssumption
<1>3. t \in Nat
  BY OrderAssumption
<1> QED
  BY <1>1, <1>2, <1>3 DEF Stamped, Content, WellFormed

\* The order a command is about, under the invariant.
LEMMA OrderFacts ==
    ASSUME OrderIInv, NEW i \in OrderIds, orders[i] # None
    PROVE  /\ orders[i] \in Order
           /\ orders[i].id = i
           /\ approved[i] \in Nat
           /\ BooksClosed(orders[i], approved[i])
BY DEF OrderIInv, OrderTypeOK, Optional, ApprovalRecorded, WithinApproval, BooksClosed

\* Being touched changes the version and the time.
LEMMA TouchedFacts ==
    ASSUME NEW o \in Order, NEW c, c.stamp \in Nat
    PROVE  /\ Touched(o, c) \in Order
           /\ \A f \in {"id", "broker", "side", "type", "status", "quantity", "filled",
                       "remaining", "notional", "limit", "trigger", "entry"} :
                Touched(o, c)[f] = o[f]
           /\ Touched(o, c).updatedAt = c.stamp
           /\ Touched(o, c).version = o.version + 1
<1>1. Touched(o, c) = [o EXCEPT !.updatedAt = c.stamp, !.version = o.version + 1]
  BY DEF Touched, Order
<1>2. o.version + 1 \in Nat
  BY DEF Order
<1> QED
  BY <1>1, <1>2 DEF Order

\* A change of status alone keeps the books closed, unless it claims a fill.
LEMMA StatusFacts ==
    ASSUME NEW o \in Order, NEW c, c.stamp \in Nat, NEW limit \in Nat, BooksClosed(o, limit),
           NEW status \in Statuses \ {"FILLED"}
    PROVE  LET p == [Touched(o, c) EXCEPT !.status = status]
           IN /\ p \in Order
              /\ p.id = o.id
              /\ p.broker = o.broker
              /\ p.status = status
              /\ BooksClosed(p, limit)
<1>1. Touched(o, c) \in Order
  BY TouchedFacts
<1>2. /\ Touched(o, c).id = o.id
      /\ Touched(o, c).broker = o.broker
      /\ Touched(o, c).filled = o.filled
      /\ Touched(o, c).remaining = o.remaining
      /\ Touched(o, c).quantity = o.quantity
  BY TouchedFacts
<1> QED
  BY <1>1, <1>2 DEF Order, BooksClosed

\* An accepted modification keeps the books closed and within what was approved.
LEMMA ModifiedFacts ==
    ASSUME NEW o \in Order, NEW c, c.stamp \in Nat, c.quantity \in Optional(Nat),
           c.limit \in Optional(Prices), c.trigger \in Optional(Prices),
           NEW limit \in Nat, BooksClosed(o, limit), o.status # "FILLED",
           QuantityAllowed(o, c, limit)
    PROVE  /\ Modified(o, c) \in Order
           /\ Modified(o, c).id = o.id
           /\ Modified(o, c).broker = o.broker
           /\ Modified(o, c).status = o.status
           /\ BooksClosed(Modified(o, c), limit)
<1> DEFINE q == IF c.quantity = None THEN o.quantity ELSE c.quantity
           l == IF c.limit = None THEN o.limit ELSE c.limit
           t == IF c.trigger = None THEN o.trigger ELSE c.trigger
<1>1. o.quantity \in Nat /\ o.filled \in Nat /\ o.remaining \in Nat
  BY DEF Order
<1>2. q \in Nat /\ q >= o.filled /\ q <= limit
  <2>1. CASE c.quantity = None
    BY <1>1, <2>1 DEF BooksClosed
  <2>2. CASE c.quantity # None
    BY <1>1, <2>2 DEF QuantityAllowed, Optional
  <2> QED
    BY <2>1, <2>2
<1>3. l \in Optional(Prices) /\ t \in Optional(Prices)
  BY DEF Order
<1>4. q - o.filled \in Nat /\ o.filled + (q - o.filled) = q
  BY <1>1, <1>2
<1>5. Touched(o, c) \in Order
  BY TouchedFacts
<1>6. /\ Touched(o, c).id = o.id
      /\ Touched(o, c).broker = o.broker
      /\ Touched(o, c).filled = o.filled
      /\ Touched(o, c).status = o.status
      /\ Touched(o, c).limit = o.limit
      /\ Touched(o, c).trigger = o.trigger
  BY TouchedFacts
<1> HIDE DEF q, l, t
<1>7. Modified(o, c) = [Touched(o, c) EXCEPT !.quantity = q, !.remaining = q - o.filled,
                                             !.limit = l, !.trigger = t]
  <2>1. Touched(o, c).limit = o.limit /\ Touched(o, c).trigger = o.trigger
    BY <1>6
  <2> QED
    BY <1>5, <2>1 DEF Modified, q, l, t, Order
<1> HIDE DEF Modified
<1>8. Modified(o, c) \in Order
  BY <1>2, <1>3, <1>4, <1>5, <1>7 DEF Order
<1>9. /\ Modified(o, c).quantity = q
      /\ Modified(o, c).remaining = q - o.filled
      /\ Modified(o, c).id = o.id
      /\ Modified(o, c).broker = o.broker
      /\ Modified(o, c).filled = o.filled
      /\ Modified(o, c).status = o.status
  BY <1>5, <1>6, <1>7 DEF Order
<1> QED
  BY <1>2, <1>4, <1>8, <1>9 DEF BooksClosed

\* A product of a quantity and a price is a cost.
LEMMA CostType ==
    ASSUME NEW a \in Nat, NEW p \in Prices
    PROVE  a * p \in Nat
<1>1. p \in Nat
  BY OrderAssumption
<1> QED
  BY <1>1

\* A fill no larger than what remains moves that much from remaining to filled, and
\* ends the order exactly when nothing is left.
LEMMA FillFacts ==
    ASSUME NEW o \in Order, NEW c, c.stamp \in Nat, c.fill \in Nat \ {0}, c.price \in Prices,
           NEW limit \in Nat, BooksClosed(o, limit), c.fill <= o.remaining
    PROVE  /\ WithFill(o, c) \in Order
           /\ WithFill(o, c).id = o.id
           /\ WithFill(o, c).broker = o.broker
           /\ WithFill(o, c).status \in {"PARTIALLY_FILLED", "FILLED"}
           /\ BooksClosed(WithFill(o, c), limit)
<1> DEFINE left   == o.quantity - (o.filled + c.fill)
           status == IF o.quantity > o.filled + c.fill THEN "PARTIALLY_FILLED" ELSE "FILLED"
           filled == o.filled + c.fill
           cost   == o.notional + c.fill * c.price
<1>1. o.quantity \in Nat /\ o.filled \in Nat /\ o.remaining \in Nat /\ o.notional \in Nat
  BY DEF Order
<1>2. left \in Nat /\ filled \in Nat /\ filled + left = o.quantity
  BY <1>1 DEF BooksClosed
<1>3. c.fill * c.price \in Nat
  BY CostType
<1>4. cost \in Nat
  BY <1>1, <1>3
<1>5. status \in {"PARTIALLY_FILLED", "FILLED"} /\ (status = "FILLED" => left = 0)
  BY <1>1, <1>2
<1>6. Touched(o, c) \in Order
  BY TouchedFacts
<1>7. /\ Touched(o, c).id = o.id
      /\ Touched(o, c).broker = o.broker
      /\ Touched(o, c).filled = o.filled
      /\ Touched(o, c).notional = o.notional
      /\ Touched(o, c).quantity = o.quantity
  BY TouchedFacts
<1>8. WithFill(o, c) = [Touched(o, c) EXCEPT !.filled = filled, !.remaining = left,
                                             !.notional = cost, !.status = status]
  BY <1>6, <1>7 DEF WithFill, Order
<1> HIDE DEF left, filled, cost, status
<1>9. status \in Statuses
  BY <1>5 DEF Statuses
<1>10. o.quantity <= limit
  BY DEF BooksClosed
<1>11. WithFill(o, c) \in Order
  <2>1. [Touched(o, c) EXCEPT !.filled = filled, !.remaining = left] \in Order
    BY <1>2, <1>6 DEF Order
  <2> DEFINE p == [Touched(o, c) EXCEPT !.filled = filled, !.remaining = left]
  <2>2. WithFill(o, c) = [p EXCEPT !.notional = cost, !.status = status]
    BY <1>8
  <2>3. p \in Order
    BY <2>1
  <2> HIDE DEF p
  <2> QED BY <1>4, <1>9, <2>2, <2>3 DEF Order
<1>12. /\ WithFill(o, c).id = o.id
       /\ WithFill(o, c).broker = o.broker
       /\ WithFill(o, c).status = status
       /\ WithFill(o, c).quantity = o.quantity
       /\ WithFill(o, c).filled = filled
       /\ WithFill(o, c).remaining = left
  BY <1>6, <1>7, <1>8 DEF Order
<1>13. BooksClosed(WithFill(o, c), limit)
  BY <1>2, <1>5, <1>10, <1>12 DEF BooksClosed
<1> QED
  BY <1>5, <1>11, <1>12, <1>13

-------------------------------------------------------------------------------
(* Each operation keeps the invariant *)

LEMMA OrderInitKeeps == OrderInit => OrderIInv
BY OrderAssumption
   DEF OrderInit, OrderIInv, OrderTypeOK, Optional, WithinApproval, BrokerIdsAgree,
       ApprovalRecorded, PendingUnknownToBroker

\* A stored transition that leaves the broker's ids alone.
LEMMA StoreKeeps ==
    ASSUME OrderIInv, NEW c \in issued, orders[c.id] # None, NEW o \in Order,
           o.id = c.id, o.broker = orders[c.id].broker, BooksClosed(o, approved[c.id]),
           o.status = "PENDING_SUBMISSION" => o.broker = None,
           StoreTransition(o, c), UNCHANGED brokerOwner
    PROVE  OrderIInv'
<1>1. c.id \in OrderIds
  BY CommandFacts DEF OrderIInv
<1>2. o # None
  BY OrderAssumption
<1>3. \A i \in OrderIds : orders'[i] = IF i = c.id THEN o ELSE orders[i]
  BY <1>1 DEF StoreTransition, OrderIInv, OrderTypeOK
<1>4. OrderTypeOK'
  <2>1. orders' \in [OrderIds -> Optional(Order)]
    BY <1>1 DEF StoreTransition, OrderIInv, OrderTypeOK, Optional
  <2>2. latestCommand' \in [OrderIds -> Optional(issued)]
    BY <1>1 DEF StoreTransition, OrderIInv, OrderTypeOK, Optional
  <2> QED
    BY <1>1, <1>3, <2>1, <2>2 DEF StoreTransition, OrderIInv, OrderTypeOK, Optional
<1>5. WithinApproval'
  BY <1>3 DEF StoreTransition, OrderIInv, WithinApproval, BooksClosed
<1>6. BrokerIdsAgree'
  BY <1>2, <1>3 DEF OrderIInv, BrokerIdsAgree
<1>7. ApprovalRecorded' /\ PendingUnknownToBroker'
  BY <1>3 DEF StoreTransition, OrderIInv, ApprovalRecorded, PendingUnknownToBroker
<1> QED
  BY <1>4, <1>5, <1>6, <1>7 DEF OrderIInv

\* A created order's broker id is None, so no table entry has to change.
LEMMA CreateKeeps ==
    ASSUME OrderIInv, NEW s \in Snapshots, Create(s)
    PROVE  OrderIInv'
<1> DEFINE o == NewOrder(s, now + 1)
<1>1. s \in Snapshot /\ s.id \in OrderIds
  BY OrderAssumption DEF Snapshot
<1>2. /\ o.id = s.id /\ o.broker = None
      /\ o.status = "PENDING_SUBMISSION"
      /\ BooksClosed(o, s.quantity)
  BY <1>1 DEF NewOrder, BooksClosed, Snapshot
<1>3. o \in Order
  BY <1>1 DEF NewOrder, Order, Snapshot, Statuses, Optional, OrderIInv, OrderTypeOK
<1>4. /\ orders' = [orders EXCEPT ![s.id] = o]
      /\ now' = now + 1
  BY DEF Create
<1> HIDE DEF o
<1>5. \A i \in OrderIds : /\ orders'[i] = (IF i = s.id THEN o ELSE orders[i])
                          /\ approved'[i] = (IF i = s.id THEN s.quantity ELSE approved[i])
  BY <1>1, <1>4 DEF Create, OrderIInv, OrderTypeOK
<1>6. OrderTypeOK'
  <2>1. orders' \in [OrderIds -> Optional(Order)]
    BY <1>1, <1>3, <1>4 DEF OrderIInv, OrderTypeOK, Optional
  <2>2. approved' \in [OrderIds -> Optional(Nat)]
    BY <1>1 DEF Create, OrderIInv, OrderTypeOK, Optional, Snapshot
  <2>3. now' \in 0 .. MaxStamp
    BY OrderAssumption DEF Create, OrderIInv, OrderTypeOK
  <2> QED
    BY <1>1, <1>2, <1>5, <2>1, <2>2, <2>3 DEF Create, OrderIInv, OrderTypeOK, Optional
<1>7. WithinApproval'
  BY <1>2, <1>5 DEF OrderIInv, WithinApproval, BooksClosed
<1>8. BrokerIdsAgree'
  <2>1. \A b \in BrokerIds : b # None
    BY OrderAssumption
  <2>2. orders[s.id] = None /\ brokerOwner' = brokerOwner
    BY DEF Create
  <2> QED
    BY <1>1, <1>2, <1>5, <2>1, <2>2 DEF OrderIInv, BrokerIdsAgree
<1>9. ApprovalRecorded' /\ PendingUnknownToBroker'
  BY <1>1, <1>2, <1>5 DEF OrderIInv, ApprovalRecorded, PendingUnknownToBroker, Snapshot
<1> QED
  BY <1>6, <1>7, <1>8, <1>9 DEF OrderIInv

LEMMA IssueKeeps ==
    ASSUME OrderIInv, NEW content \in Contents, Issue(content)
    PROVE  OrderIInv'
<1>1. now' \in 0 .. MaxStamp
  BY OrderAssumption DEF Issue, OrderIInv, OrderTypeOK
<1>2. /\ issued \subseteq issued'
      /\ \A c \in issued' : \E d \in Contents, t \in 0 .. MaxStamp : c = Stamped(d, t)
  BY <1>1 DEF Issue, OrderIInv, OrderTypeOK
<1>3. OrderTypeOK'
  <2>1. latestCommand' \in [OrderIds -> Optional(issued')]
    BY <1>2 DEF Issue, orderVars, OrderIInv, OrderTypeOK, Optional
  <2>2. /\ orders' = orders /\ latestOrder' = latestOrder /\ brokerOwner' = brokerOwner
        /\ approved' = approved /\ applied' = applied /\ displaced' = displaced
    BY DEF Issue, orderVars
  <2>3. applied \subseteq issued'
    BY <1>2 DEF OrderIInv, OrderTypeOK
  <2> QED
    BY <1>1, <1>2, <2>1, <2>2, <2>3 DEF OrderIInv, OrderTypeOK
<1> QED
  BY <1>3 DEF Issue, orderVars, OrderIInv, WithinApproval, BrokerIdsAgree, ApprovalRecorded,
              PendingUnknownToBroker

\* Acknowledging a pending order gives its first broker id to it: no other order has it.
LEMMA AcknowledgeKeeps ==
    ASSUME OrderIInv, NEW c \in issued, Acknowledge(c)
    PROVE  OrderIInv'
<1> DEFINE t == Touched(orders[c.id], c)
           o == [t EXCEPT !.broker = c.broker, !.status = "SUBMITTED"]
<1>1. /\ c.type = "ACKNOWLEDGE" /\ orders[c.id] # None
      /\ orders[c.id].status = "PENDING_SUBMISSION"
      /\ FreeBrokerId(c)
      /\ StoreTransition(o, c)
      /\ brokerOwner' = [brokerOwner EXCEPT ![c.broker] = c.id]
  <2>1. "ACKNOWLEDGE" \in LegalCommands(orders[c.id].status)
    BY DEF Acknowledge, Accepts
  <2>2. orders[c.id].status = "PENDING_SUBMISSION"
    BY <2>1 DEF LegalCommands
  <2> QED
    BY <2>2 DEF Acknowledge, Accepts
<1>2. /\ c.id \in OrderIds /\ c.stamp \in Nat /\ c.broker \in BrokerIds
  BY <1>1, CommandFacts DEF OrderIInv
<1>3. /\ orders[c.id] \in Order /\ orders[c.id].id = c.id /\ approved[c.id] \in Nat
      /\ BooksClosed(orders[c.id], approved[c.id])
  BY <1>1, <1>2, OrderFacts
<1>4. orders[c.id].broker = None
  BY <1>1, <1>2 DEF OrderIInv, PendingUnknownToBroker
<1>5. /\ t \in Order /\ t.id = c.id /\ t.filled = orders[c.id].filled
      /\ t.remaining = orders[c.id].remaining /\ t.quantity = orders[c.id].quantity
  BY <1>2, <1>3, TouchedFacts
<1> HIDE DEF t
<1>6. /\ o \in Order /\ o.id = c.id /\ o.broker = c.broker /\ o.status = "SUBMITTED"
      /\ BooksClosed(o, approved[c.id])
  BY <1>2, <1>3, <1>5 DEF Order, Optional, Statuses, BooksClosed
<1>7. o # None
  BY <1>6, OrderAssumption
<1> HIDE DEF o
<1>8. \A i \in OrderIds : orders'[i] = IF i = c.id THEN o ELSE orders[i]
  BY <1>1, <1>2 DEF StoreTransition, OrderIInv, OrderTypeOK
<1>9. \A b \in BrokerIds : brokerOwner'[b] = IF b = c.broker THEN c.id ELSE brokerOwner[b]
  BY <1>1, <1>2 DEF OrderIInv, OrderTypeOK
<1>10. OrderTypeOK'
  <2>1. orders' \in [OrderIds -> Optional(Order)]
    BY <1>1, <1>2, <1>6 DEF StoreTransition, OrderIInv, OrderTypeOK, Optional
  <2>2. latestCommand' \in [OrderIds -> Optional(issued)]
    BY <1>1, <1>2 DEF StoreTransition, OrderIInv, OrderTypeOK, Optional
  <2>3. brokerOwner' \in [BrokerIds -> Optional(OrderIds)]
    BY <1>1, <1>2 DEF OrderIInv, OrderTypeOK, Optional
  <2> QED
    BY <1>1, <1>2, <1>6, <1>8, <2>1, <2>2, <2>3
       DEF StoreTransition, OrderIInv, OrderTypeOK, Optional
<1>11. WithinApproval'
  BY <1>1, <1>6, <1>8 DEF StoreTransition, OrderIInv, WithinApproval, BooksClosed
<1>12. BrokerIdsAgree'
  <2>1. \A b \in BrokerIds : b # None
    BY OrderAssumption
  <2>2. brokerOwner[c.broker] \in {None, c.id}
    BY <1>1 DEF FreeBrokerId
  <2>3. \A b \in BrokerIds : brokerOwner[b] # c.id
    BY <1>2, <1>4, <2>1 DEF OrderIInv, BrokerIdsAgree
  <2>4. brokerOwner[c.broker] = None
    BY <1>2, <2>2, <2>3
  <2>5. \A i \in OrderIds : i # None
    BY OrderAssumption
  <2> SUFFICES ASSUME NEW i \in OrderIds, NEW b \in BrokerIds
               PROVE  brokerOwner'[b] = i <=> (orders'[i] # None /\ orders'[i].broker = b)
    BY DEF BrokerIdsAgree
  <2>6. CASE i = c.id
    BY <1>6, <1>7, <1>8, <1>9, <2>3, <2>6
  <2>7. CASE i # c.id
    BY <1>2, <1>8, <1>9, <2>4, <2>5, <2>7 DEF OrderIInv, BrokerIdsAgree
  <2> QED
    BY <2>6, <2>7
<1>13. ApprovalRecorded' /\ PendingUnknownToBroker'
  BY <1>1, <1>6, <1>8 DEF StoreTransition, OrderIInv, ApprovalRecorded, PendingUnknownToBroker
<1> QED
  BY <1>10, <1>11, <1>12, <1>13 DEF OrderIInv

\* What Accepts guarantees about the order and the command.
LEMMA AcceptedFacts ==
    ASSUME OrderIInv, NEW c \in issued, NEW type \in Commands, Accepts(c, type)
    PROVE  /\ c.type = type /\ c.id \in OrderIds /\ c.stamp \in Nat
           /\ orders[c.id] # None /\ orders[c.id] \in Order /\ orders[c.id].id = c.id
           /\ approved[c.id] \in Nat
           /\ BooksClosed(orders[c.id], approved[c.id])
           /\ orders[c.id].status \notin Ended
           /\ c.stamp >= orders[c.id].updatedAt
           /\ orders[c.id].status = "PENDING_SUBMISSION" => orders[c.id].broker = None
<1>1. c.type = type /\ orders[c.id] # None /\ c.stamp >= orders[c.id].updatedAt
  BY DEF Accepts, Current
<1>2. c.id \in OrderIds /\ c.stamp \in Nat
  BY CommandFacts DEF OrderIInv
<1>3. /\ orders[c.id] \in Order /\ orders[c.id].id = c.id /\ approved[c.id] \in Nat
      /\ BooksClosed(orders[c.id], approved[c.id])
  BY <1>1, <1>2, OrderFacts
<1>4. type \in LegalCommands(orders[c.id].status)
  BY DEF Accepts
<1>5. orders[c.id].status \notin Ended
  BY <1>4 DEF LegalCommands, Ended
<1>6. orders[c.id].status = "PENDING_SUBMISSION" => orders[c.id].broker = None
  BY <1>1, <1>2 DEF OrderIInv, PendingUnknownToBroker
<1> QED
  BY <1>1, <1>2, <1>3, <1>5, <1>6

LEMMA ModifyKeeps ==
    ASSUME OrderIInv, NEW c \in issued, Modify(c)
    PROVE  OrderIInv'
<1> DEFINE old == orders[c.id]
<1>1. /\ Accepts(c, "MODIFY") /\ QuantityAllowed(old, c, approved[c.id])
      /\ StoreTransition(Modified(old, c), c) /\ UNCHANGED brokerOwner
  BY DEF Modify, Modifiable
<1>2. /\ c.id \in OrderIds /\ c.stamp \in Nat /\ old # None /\ old \in Order /\ old.id = c.id
      /\ approved[c.id] \in Nat /\ BooksClosed(old, approved[c.id])
      /\ old.status \notin Ended
      /\ old.status = "PENDING_SUBMISSION" => old.broker = None
  BY <1>1, AcceptedFacts DEF Commands
<1>3. c.quantity \in Optional(Nat) /\ c.limit \in Optional(Prices) /\ c.trigger \in Optional(Prices)
  BY CommandFacts DEF OrderIInv
<1>4. old.status # "FILLED"
  BY <1>2 DEF Ended
<1>5. /\ Modified(old, c) \in Order /\ Modified(old, c).id = old.id
      /\ Modified(old, c).broker = old.broker /\ Modified(old, c).status = old.status
      /\ BooksClosed(Modified(old, c), approved[c.id])
  BY <1>1, <1>2, <1>3, <1>4, ModifiedFacts
<1> QED
  BY <1>1, <1>2, <1>5, StoreKeeps

LEMMA RememberKeeps ==
    ASSUME OrderIInv, NEW c \in issued, RememberDuplicate(c)
    PROVE  OrderIInv'
<1>1. c.id \in OrderIds
  BY CommandFacts DEF OrderIInv
<1>2. OrderTypeOK'
  <2>1. latestCommand' \in [OrderIds -> Optional(issued')]
    BY <1>1 DEF RememberDuplicate, OrderIInv, OrderTypeOK, Optional
  <2>2. displaced' \subseteq OrderIds
    BY <1>1 DEF RememberDuplicate, OrderIInv, OrderTypeOK
  <2> QED
    BY <2>1, <2>2 DEF RememberDuplicate, OrderIInv, OrderTypeOK
<1> QED
  BY <1>2 DEF RememberDuplicate, OrderIInv, WithinApproval, BrokerIdsAgree, ApprovalRecorded,
              PendingUnknownToBroker

LEMMA FillKeeps ==
    ASSUME OrderIInv, NEW c \in issued, Fill(c)
    PROVE  OrderIInv'
<1> DEFINE old == orders[c.id]
<1>1. /\ Accepts(c, "FILL") /\ c.fill <= old.remaining
      /\ StoreTransition(WithFill(old, c), c) /\ UNCHANGED brokerOwner
  BY DEF Fill
<1>2. /\ c.type = "FILL" /\ c.id \in OrderIds /\ c.stamp \in Nat
      /\ old # None /\ old \in Order /\ old.id = c.id
      /\ approved[c.id] \in Nat /\ BooksClosed(old, approved[c.id])
  BY <1>1, AcceptedFacts DEF Commands
<1>3. c.fill \in Nat \ {0} /\ c.price \in Prices
  BY <1>2, CommandFacts DEF OrderIInv
<1>4. /\ WithFill(old, c) \in Order /\ WithFill(old, c).id = old.id
      /\ WithFill(old, c).broker = old.broker
      /\ WithFill(old, c).status \in {"PARTIALLY_FILLED", "FILLED"}
      /\ BooksClosed(WithFill(old, c), approved[c.id])
  BY <1>1, <1>2, <1>3, FillFacts
<1> QED
  BY <1>1, <1>2, <1>4, StoreKeeps

\* Cancel and Reject: a change of status alone.
LEMMA EndKeeps ==
    ASSUME OrderIInv, NEW c \in issued, NEW type \in Commands, NEW status \in {"CANCELLED", "REJECTED"},
           Accepts(c, type), UNCHANGED brokerOwner,
           StoreTransition([Touched(orders[c.id], c) EXCEPT !.status = status], c)
    PROVE  OrderIInv'
<1> DEFINE old == orders[c.id]
           p   == [Touched(old, c) EXCEPT !.status = status]
<1>1. /\ c.id \in OrderIds /\ c.stamp \in Nat /\ old # None /\ old \in Order /\ old.id = c.id
      /\ approved[c.id] \in Nat /\ BooksClosed(old, approved[c.id])
  BY AcceptedFacts
<1>2. status \in Statuses \ {"FILLED"} /\ status # "PENDING_SUBMISSION"
  BY DEF Statuses
<1>3. /\ p \in Order /\ p.id = old.id /\ p.broker = old.broker /\ p.status = status
      /\ BooksClosed(p, approved[c.id])
  BY <1>1, <1>2, StatusFacts
<1>4. StoreTransition(p, c)
  OBVIOUS
<1> HIDE DEF p
<1> QED
  BY <1>1, <1>2, <1>3, <1>4, StoreKeeps

LEMMA ResetKeeps ==
    ASSUME OrderIInv, Reset
    PROVE  OrderIInv'
<1>1. /\ \A i \in OrderIds : orders'[i] = None
      /\ \A b \in BrokerIds : brokerOwner'[b] = None
      /\ \A i \in OrderIds : i # None
  BY OrderAssumption DEF Reset
<1>2. OrderTypeOK'
  BY <1>1 DEF Reset, OrderIInv, OrderTypeOK, Optional
<1> QED
  BY <1>1, <1>2 DEF OrderIInv, WithinApproval, BrokerIdsAgree, ApprovalRecorded,
                    PendingUnknownToBroker

LEMMA OrderNextKeeps == OrderIInv /\ [OrderNext]_vars => OrderIInv'
<1> SUFFICES ASSUME OrderIInv, [OrderNext]_vars
             PROVE  OrderIInv'
  OBVIOUS
<1>1. ASSUME NEW s \in Snapshots, Create(s)
      PROVE  OrderIInv'
  BY <1>1, CreateKeeps
<1>2. ASSUME NEW content \in Contents, Issue(content)
      PROVE  OrderIInv'
  BY <1>2, IssueKeeps
<1>3. ASSUME NEW c \in issued, Deliver(c)
      PROVE  OrderIInv'
  <2>1. CASE Acknowledge(c)
    BY <2>1, AcknowledgeKeeps
  <2>2. CASE Modify(c)
    BY <2>2, ModifyKeeps
  <2>3. CASE RememberDuplicate(c)
    BY <2>3, RememberKeeps
  <2>4. CASE Fill(c)
    BY <2>4, FillKeeps
  <2>5. CASE Cancel(c)
    <3>1. /\ Accepts(c, "CANCEL") /\ UNCHANGED brokerOwner
          /\ StoreTransition([Touched(orders[c.id], c) EXCEPT !.status = "CANCELLED"], c)
      BY <2>5 DEF Cancel
    <3> QED
      BY <3>1, EndKeeps DEF Commands
  <2>6. CASE Reject(c)
    <3>1. /\ Accepts(c, "REJECT") /\ UNCHANGED brokerOwner
          /\ StoreTransition([Touched(orders[c.id], c) EXCEPT !.status = "REJECTED"], c)
      BY <2>6 DEF Reject
    <3> QED
      BY <3>1, EndKeeps DEF Commands
  <2> QED
    BY <1>3, <2>1, <2>2, <2>3, <2>4, <2>5, <2>6 DEF Deliver
<1>4. CASE Reset
  BY <1>4, ResetKeeps
<1>5. CASE UNCHANGED vars
  BY <1>5 DEF vars, orderVars, OrderIInv, OrderTypeOK, WithinApproval, BrokerIdsAgree,
              ApprovalRecorded, PendingUnknownToBroker
<1> QED
  BY <1>1, <1>2, <1>3, <1>4, <1>5 DEF OrderNext

-------------------------------------------------------------------------------
(* Theorems *)

\* The invariant of every behaviour of the engine.
THEOREM OrderInvariant == OrderSpec => []OrderIInv
BY OrderInitKeeps, OrderNextKeeps, PTL DEF OrderSpec

\* create, apply and reset leave well-typed orders, whatever commands come and when.
THEOREM OrderTypeCorrect == OrderSpec => []OrderTypeOK
<1>1. OrderIInv => OrderTypeOK
  BY DEF OrderIInv
<1> QED
  BY <1>1, OrderInvariant, PTL

\* However _modify and _fill interleave, filled and remaining make up the quantity and
\* the quantity stays within what risk approved.
THEOREM OrdersStayWithinApproval == OrderSpec => []WithinApproval
<1>1. OrderIInv => WithinApproval
  BY DEF OrderIInv
<1> QED
  BY <1>1, OrderInvariant, PTL

\* However acknowledgements are repeated, delayed or crossed, a broker order id has one
\* order and _broker_order_ids knows it.
THEOREM BrokerIdsAlwaysAgree == OrderSpec => []BrokerIdsAgree
<1>1. OrderIInv => BrokerIdsAgree
  BY DEF OrderIInv
<1> QED
  BY <1>1, OrderInvariant, PTL

-------------------------------------------------------------------------------
(* Orders move forward *)

\* What a transition may make of an order.
MovesForward(old, new) ==
    /\ old.status \notin Ended
    /\ new.filled >= old.filled
    /\ new.updatedAt >= old.updatedAt
    /\ new.version = old.version + 1

AllMoveForward ==
    \A i \in OrderIds : (orders[i] # None /\ orders'[i] # None /\ orders'[i] # orders[i]) =>
        MovesForward(orders[i], orders'[i])

\* Every order the transitions make is a touched one with other fields changed.
LEMMA TransitionFacts ==
    ASSUME NEW o \in Order, NEW c, c.stamp \in Nat, c.stamp >= o.updatedAt, o.status \notin Ended
    PROVE  /\ \A b, s : MovesForward(o, [Touched(o, c) EXCEPT !.broker = b, !.status = s])
           /\ \A s : MovesForward(o, [Touched(o, c) EXCEPT !.status = s])
           /\ MovesForward(o, Modified(o, c))
           /\ c.fill \in Nat => MovesForward(o, WithFill(o, c))
<1>1. /\ Touched(o, c) \in Order /\ Touched(o, c).filled = o.filled
      /\ Touched(o, c).updatedAt = c.stamp /\ Touched(o, c).version = o.version + 1
  BY TouchedFacts
<1>2. o.filled \in Nat
  BY DEF Order
<1>3. \A b, s : LET p == [Touched(o, c) EXCEPT !.broker = b, !.status = s]
                IN p.filled = o.filled /\ p.updatedAt = c.stamp /\ p.version = o.version + 1
  BY <1>1 DEF Order
<1>4. \A s : LET p == [Touched(o, c) EXCEPT !.status = s]
             IN p.filled = o.filled /\ p.updatedAt = c.stamp /\ p.version = o.version + 1
  BY <1>1 DEF Order
<1>5. /\ Modified(o, c).filled = o.filled /\ Modified(o, c).updatedAt = c.stamp
      /\ Modified(o, c).version = o.version + 1
  BY <1>1 DEF Modified, Order
<1>6. /\ WithFill(o, c).filled = o.filled + c.fill /\ WithFill(o, c).updatedAt = c.stamp
      /\ WithFill(o, c).version = o.version + 1
  BY <1>1 DEF WithFill, Order
<1> HIDE DEF Touched, Modified, WithFill
<1>7. o.filled >= o.filled /\ (c.fill \in Nat => o.filled + c.fill >= o.filled)
  BY <1>2
<1> QED
  BY <1>3, <1>4, <1>5, <1>6, <1>7 DEF MovesForward

\* A stored transition changes one order.
LEMMA StoreMoves ==
    ASSUME OrderIInv, NEW c \in issued, NEW o, StoreTransition(o, c), MovesForward(orders[c.id], o)
    PROVE  AllMoveForward
<1>1. c.id \in OrderIds
  BY CommandFacts DEF OrderIInv
<1>2. \A i \in OrderIds : orders'[i] = IF i = c.id THEN o ELSE orders[i]
  BY <1>1 DEF StoreTransition, OrderIInv, OrderTypeOK
<1> QED
  BY <1>2 DEF AllMoveForward

LEMMA DeliveryMovesForward ==
    ASSUME OrderIInv, NEW c \in issued, Deliver(c)
    PROVE  AllMoveForward
<1> DEFINE old == orders[c.id]
<1>1. ASSUME NEW type \in Commands, Accepts(c, type)
      PROVE  /\ old \in Order /\ c.stamp \in Nat /\ c.stamp >= old.updatedAt
             /\ old.status \notin Ended
  BY <1>1, AcceptedFacts
<1>2. CASE Acknowledge(c)
  <2>1. /\ Accepts(c, "ACKNOWLEDGE")
        /\ StoreTransition([Touched(old, c) EXCEPT !.broker = c.broker, !.status = "SUBMITTED"], c)
    BY <1>2 DEF Acknowledge
  <2>2. MovesForward(old, [Touched(old, c) EXCEPT !.broker = c.broker, !.status = "SUBMITTED"])
    BY <1>1, <2>1, TransitionFacts DEF Commands
  <2> QED
    BY <2>1, <2>2, StoreMoves
<1>3. CASE Modify(c)
  <2>1. Accepts(c, "MODIFY") /\ StoreTransition(Modified(old, c), c)
    BY <1>3 DEF Modify
  <2>2. MovesForward(old, Modified(old, c))
    BY <1>1, <2>1, TransitionFacts DEF Commands
  <2> QED
    BY <2>1, <2>2, StoreMoves
<1>4. CASE RememberDuplicate(c)
  BY <1>4 DEF RememberDuplicate, AllMoveForward
<1>5. CASE Fill(c)
  <2>1. Accepts(c, "FILL") /\ StoreTransition(WithFill(old, c), c)
    BY <1>5 DEF Fill
  <2>2. c.type = "FILL"
    BY <2>1 DEF Accepts
  <2>3. c.fill \in Nat
    BY <2>2, CommandFacts DEF OrderIInv
  <2>4. MovesForward(old, WithFill(old, c))
    BY <1>1, <2>1, <2>3, TransitionFacts DEF Commands
  <2> QED
    BY <2>1, <2>4, StoreMoves
<1>6. ASSUME NEW type \in Commands, NEW s, Accepts(c, type),
             StoreTransition([Touched(old, c) EXCEPT !.status = s], c)
      PROVE  AllMoveForward
  <2>1. MovesForward(old, [Touched(old, c) EXCEPT !.status = s])
    BY <1>1, <1>6, TransitionFacts
  <2> QED
    BY <1>6, <2>1, StoreMoves
<1>7. CASE Cancel(c)
  BY <1>6, <1>7 DEF Cancel, Commands
<1>8. CASE Reject(c)
  BY <1>6, <1>8 DEF Reject, Commands
<1> QED
  BY <1>2, <1>3, <1>4, <1>5, <1>7, <1>8 DEF Deliver

LEMMA NextMovesForward ==
    ASSUME OrderIInv, OrderNext
    PROVE  AllMoveForward
<1>1. ASSUME NEW s \in Snapshots, Create(s)
      PROVE  AllMoveForward
  <2>1. s.id \in OrderIds /\ orders[s.id] = None
    BY <1>1, OrderAssumption DEF Create, Snapshot
  <2>2. \A i \in OrderIds : i # s.id => orders'[i] = orders[i]
    BY <1>1, <2>1 DEF Create, OrderIInv, OrderTypeOK
  <2> QED
    BY <2>1, <2>2 DEF AllMoveForward
<1>2. ASSUME NEW content \in Contents, Issue(content)
      PROVE  AllMoveForward
  BY <1>2 DEF Issue, orderVars, AllMoveForward
<1>3. CASE Reset
  BY <1>3 DEF Reset, AllMoveForward
<1> QED
  BY <1>1, <1>2, <1>3, DeliveryMovesForward DEF OrderNext

\* An order that has ended stays as it is; a live one never loses a fill, goes back in time
\* or skips a version, whatever apply is given.
THEOREM OrdersOnlyMoveForward == OrderSpec => OrdersMoveForward
<1>1. OrderIInv /\ [OrderNext]_vars =>
        [\A i \in OrderIds : (orders[i] # None /\ orders'[i] # None /\ orders'[i] # orders[i]) =>
           /\ orders[i].status \notin Ended
           /\ orders'[i].filled >= orders[i].filled
           /\ orders'[i].updatedAt >= orders[i].updatedAt
           /\ orders'[i].version = orders[i].version + 1]_vars
  BY NextMovesForward DEF AllMoveForward, MovesForward
<1> QED
  BY <1>1, OrderInvariant, PTL DEF OrderSpec, OrdersMoveForward


-------------------------------------------------------------------------------
(* The engine keeps the book of orders *)

EntryOf(o, limit) ==
    [status |-> o.status, limit |-> limit, quantity |-> o.quantity, filled |-> o.filled]
BookOfOrders == [i \in OrderIds |-> Entry(i)]


LEMMA EntryFacts ==
    ASSUME NEW o \in Order, NEW limit \in Nat
    PROVE  /\ EntryOf(o, limit) \in Seen
           /\ EntryOf(o, limit) # None
<1>1. EntryOf(o, limit) \in Seen
  BY DEF EntryOf, Seen, Order
<1> QED
  BY <1>1, OrderAssumption

\* A transition the book has for an order's entry, or none at all, is a step of the book.
LEMMA StoreIsChange ==
    ASSUME OrderIInv, NEW c \in issued, orders[c.id] # None, NEW o \in Order,
           StoreTransition(o, c), approved[c.id] \in Nat,
           EntryOf(o, approved[c.id])
             \in Book!Successors(EntryOf(orders[c.id], approved[c.id]))
                  \cup {EntryOf(orders[c.id], approved[c.id])}
    PROVE  Book!BookNext \/ BookOfOrders' = BookOfOrders
<1> DEFINE before == EntryOf(orders[c.id], approved[c.id])
           after  == EntryOf(o, approved[c.id])
<1>1. c.id \in OrderIds
  BY CommandFacts DEF OrderIInv
<1>2. orders' = [orders EXCEPT ![c.id] = o] /\ approved' = approved
  BY DEF StoreTransition
<1>3. o # None
  BY OrderAssumption
<1>4. orders \in [OrderIds -> Optional(Order)]
  BY DEF OrderIInv, OrderTypeOK
<1>5. before # None
  BY <1>1, <1>4, EntryFacts DEF Optional
<1>6. BookOfOrders[c.id] = before
  BY <1>1 DEF BookOfOrders, Entry, EntryOf
<1>7. BookOfOrders' = [BookOfOrders EXCEPT ![c.id] = after]
  BY <1>1, <1>2, <1>3, <1>4 DEF BookOfOrders, Entry, EntryOf
<1> HIDE DEF before, after
<1>8. CASE after = before
  BY <1>6, <1>7, <1>8 DEF BookOfOrders
<1>9. CASE after \in Book!Successors(before)
  <2>1. Book!Change(c.id)
    BY <1>5, <1>6, <1>7, <1>9 DEF Book!Change, BookOfOrders
  <2> QED
    BY <1>1, <2>1 DEF Book!BookNext
<1> QED
  BY <1>8, <1>9 DEF before, after

\* What each command makes of an order, seen in the book.
LEMMA StatusSuccessor ==
    ASSUME NEW o \in Order, NEW limit, NEW c, c.stamp \in Nat,
           NEW s \in {"SUBMITTED", "CANCELLED", "REJECTED"},
           \/ o.status = "PENDING_SUBMISSION"
           \/ o.status = "SUBMITTED" /\ s # "SUBMITTED"
           \/ o.status = "PARTIALLY_FILLED" /\ s = "CANCELLED",
           NEW p, p.status = s, p.quantity = o.quantity, p.filled = o.filled
    PROVE  EntryOf(p, limit) \in Book!Successors(EntryOf(o, limit))
<1>1. EntryOf(p, limit) = [EntryOf(o, limit) EXCEPT !.status = s]
  BY DEF EntryOf
<1>2. EntryOf(p, limit) \in Book!Moved(EntryOf(o, limit), s)
  BY <1>1 DEF Book!Moved
<1>3. EntryOf(o, limit).status = o.status
  BY DEF EntryOf
<1> QED
  BY <1>2, <1>3 DEF Book!Successors

LEMMA ModifiedSuccessor ==
    ASSUME NEW o \in Order, NEW limit \in Nat, BooksClosed(o, limit), o.status \notin Ended,
           NEW p, p.status = o.status, p.filled = o.filled, p.quantity \in Nat,
           p.quantity = o.quantity \/ (p.quantity > 0 /\ p.quantity >= o.filled /\ p.quantity <= limit)
    PROVE  EntryOf(p, limit)
             \in Book!Successors(EntryOf(o, limit)) \cup {EntryOf(o, limit)}
<1>1. CASE p.quantity = o.quantity
  BY <1>1 DEF EntryOf
<1>2. CASE p.quantity > 0 /\ p.quantity >= o.filled /\ p.quantity <= limit
  <2>1. EntryOf(p, limit) = [EntryOf(o, limit) EXCEPT !.quantity = p.quantity]
    BY DEF EntryOf
  <2>2. EntryOf(o, limit).limit = limit /\ EntryOf(o, limit).filled = o.filled
        /\ EntryOf(o, limit).status = o.status
    BY DEF EntryOf
  <2>3. p.quantity \in {q \in 1 .. EntryOf(o, limit).limit : q >= EntryOf(o, limit).filled}
    BY <1>2, <2>2
  <2>4. EntryOf(p, limit) \in Book!Resized(EntryOf(o, limit))
    BY <2>1, <2>3 DEF Book!Resized
  <2>5. o.status \in {"PENDING_SUBMISSION", "SUBMITTED", "PARTIALLY_FILLED"}
    BY DEF Order, Statuses, Ended
  <2> QED
    BY <2>2, <2>4, <2>5 DEF Book!Successors
<1> QED
  BY <1>1, <1>2

LEMMA FillSuccessor ==
    ASSUME NEW o \in Order, NEW limit \in Nat, BooksClosed(o, limit),
           o.status \in {"SUBMITTED", "PARTIALLY_FILLED"},
           NEW n \in Nat \ {0}, n <= o.remaining,
           NEW p, p.filled = o.filled + n, p.quantity = o.quantity,
           p.status = IF o.quantity > o.filled + n THEN "PARTIALLY_FILLED" ELSE "FILLED"
    PROVE  EntryOf(p, limit) \in Book!Successors(EntryOf(o, limit))
<1>1. o.quantity \in Nat /\ o.filled \in Nat /\ o.remaining \in Nat
  BY DEF Order
<1>2. /\ EntryOf(o, limit).filled = o.filled /\ EntryOf(o, limit).quantity = o.quantity
      /\ EntryOf(o, limit).status = o.status
  BY DEF EntryOf
<1>3. n \in 1 .. (EntryOf(o, limit).quantity - EntryOf(o, limit).filled)
  BY <1>1, <1>2 DEF BooksClosed
<1>4. (o.filled + n < o.quantity) <=> (o.quantity > o.filled + n)
  BY <1>1
<1>5. EntryOf(p, limit) = Book!Filling(EntryOf(o, limit), n)
  <2> DEFINE s == IF o.filled + n < o.quantity THEN "PARTIALLY_FILLED" ELSE "FILLED"
  <2>1. p.status = s
    BY <1>4
  <2>2. EntryOf(p, limit) = [status |-> s, limit |-> limit, quantity |-> o.quantity,
                             filled |-> o.filled + n]
    BY <2>1 DEF EntryOf
  <2>3. Book!Filling(EntryOf(o, limit), n)
          = [EntryOf(o, limit) EXCEPT !.filled = o.filled + n, !.status = s]
    BY <1>2 DEF Book!Filling
  <2> HIDE DEF s
  <2> QED
    BY <2>2, <2>3 DEF EntryOf
<1>6. EntryOf(p, limit) \in Book!FilledBy(EntryOf(o, limit))
  BY <1>3, <1>5 DEF Book!FilledBy
<1> QED
  BY <1>2, <1>6 DEF Book!Successors

\* A command that is delivered is a step of the book, or changes nothing it shows.
LEMMA DeliveryIsBookStep ==
    ASSUME OrderIInv, NEW c \in issued, Deliver(c)
    PROVE  Book!BookNext \/ BookOfOrders' = BookOfOrders
<1> DEFINE old == orders[c.id]
           cap == approved[c.id]
<1>1. ASSUME NEW type \in Commands, Accepts(c, type)
      PROVE  /\ c.stamp \in Nat /\ old # None /\ old \in Order /\ cap \in Nat
             /\ BooksClosed(old, cap) /\ old.status \notin Ended
             /\ old.status \in Statuses /\ type \in LegalCommands(old.status)
             /\ Touched(old, c) \in Order
             /\ Touched(old, c).quantity = old.quantity
             /\ Touched(old, c).filled = old.filled
             /\ Touched(old, c).status = old.status
  <2>1. /\ c.stamp \in Nat /\ old # None /\ old \in Order /\ cap \in Nat
        /\ BooksClosed(old, cap) /\ old.status \notin Ended
    BY <1>1, AcceptedFacts
  <2>2. old.status \in Statuses
    BY <2>1 DEF Order
  <2>3. type \in LegalCommands(old.status)
    BY <1>1 DEF Accepts
  <2> QED
    BY <2>1, <2>2, <2>3, TouchedFacts
<1>2. CASE Acknowledge(c)
  <2> DEFINE p == [Touched(old, c) EXCEPT !.broker = c.broker, !.status = "SUBMITTED"]
  <2>1. Accepts(c, "ACKNOWLEDGE") /\ StoreTransition(p, c)
    BY <1>2 DEF Acknowledge
  <2>2. c.broker \in BrokerIds
    BY <2>1, CommandFacts DEF Accepts, OrderIInv
  <2>3. old.status = "PENDING_SUBMISSION"
    BY <1>1, <2>1 DEF Commands, LegalCommands, Statuses
  <2>4. p \in Order /\ p.status = "SUBMITTED" /\ p.quantity = old.quantity
        /\ p.filled = old.filled
    BY <1>1, <2>1, <2>2 DEF Commands, Order, Optional, Statuses
  <2> HIDE DEF p
  <2>5. EntryOf(p, cap) \in Book!Successors(EntryOf(old, cap))
    BY <1>1, <2>1, <2>3, <2>4, StatusSuccessor DEF Commands
  <2> QED
    BY <1>1, <2>1, <2>4, <2>5, StoreIsChange DEF Commands
<1>3. CASE Modify(c)
  <2> DEFINE p == Modified(old, c)
  <2>1. /\ Accepts(c, "MODIFY") /\ QuantityAllowed(old, c, cap)
        /\ StoreTransition(p, c)
    BY <1>3 DEF Modify, Modifiable
  <2>2. c.quantity \in Optional(Nat) /\ c.limit \in Optional(Prices) /\ c.trigger \in Optional(Prices)
    BY CommandFacts DEF OrderIInv
  <2>3. p \in Order /\ p.status = old.status
    BY <1>1, <2>1, <2>2, ModifiedFacts DEF Commands, Ended
  <2>4. /\ p.filled = old.filled
        /\ p.quantity = IF c.quantity = None THEN old.quantity ELSE c.quantity
    BY <1>1, <2>1 DEF Commands, Modified, Order
  <2>5. p.quantity = old.quantity
        \/ (p.quantity > 0 /\ p.quantity >= old.filled /\ p.quantity <= cap)
    BY <2>1, <2>4 DEF QuantityAllowed
  <2>6. p.quantity \in Nat
    BY <2>3 DEF Order
  <2> HIDE DEF p
  <2>7. EntryOf(p, cap)
          \in Book!Successors(EntryOf(old, cap)) \cup {EntryOf(old, cap)}
    BY <1>1, <2>1, <2>3, <2>4, <2>5, <2>6, ModifiedSuccessor DEF Commands
  <2> QED
    BY <1>1, <2>1, <2>3, <2>7, StoreIsChange DEF Commands
<1>4. CASE RememberDuplicate(c)
  BY <1>4 DEF RememberDuplicate, BookOfOrders, Entry
<1>5. CASE Fill(c)
  <2> DEFINE p == WithFill(old, c)
  <2>1. Accepts(c, "FILL") /\ c.fill <= old.remaining /\ StoreTransition(p, c)
    BY <1>5 DEF Fill
  <2>2. c.fill \in Nat \ {0} /\ c.price \in Prices
    BY <2>1, CommandFacts DEF Accepts, OrderIInv
  <2>3. p \in Order
    BY <1>1, <2>1, <2>2, FillFacts DEF Commands
  <2>4. old.status \in {"SUBMITTED", "PARTIALLY_FILLED"}
    BY <1>1, <2>1 DEF Commands, LegalCommands, Statuses
  <2>5. /\ p.filled = old.filled + c.fill /\ p.quantity = old.quantity
        /\ p.status = IF old.quantity > old.filled + c.fill THEN "PARTIALLY_FILLED" ELSE "FILLED"
    BY <1>1, <2>1 DEF Commands, WithFill, Order
  <2> HIDE DEF p
  <2>6. EntryOf(p, cap) \in Book!Successors(EntryOf(old, cap))
    BY <1>1, <2>1, <2>2, <2>4, <2>5, FillSuccessor DEF Commands
  <2> QED
    BY <1>1, <2>1, <2>3, <2>6, StoreIsChange DEF Commands
<1>6. ASSUME NEW s \in {"CANCELLED", "REJECTED"},
             NEW type \in Commands, Accepts(c, type),
             type = IF s = "CANCELLED" THEN "CANCEL" ELSE "REJECT",
             StoreTransition([Touched(old, c) EXCEPT !.status = s], c)
      PROVE  Book!BookNext \/ BookOfOrders' = BookOfOrders
  <2> DEFINE p == [Touched(old, c) EXCEPT !.status = s]
  <2>1. p \in Order /\ p.status = s /\ p.quantity = old.quantity /\ p.filled = old.filled
    BY <1>1, <1>6 DEF Order, Statuses
  <2>2. \/ old.status \in {"PENDING_SUBMISSION", "SUBMITTED"}
        \/ old.status = "PARTIALLY_FILLED" /\ s = "CANCELLED"
    BY <1>1, <1>6 DEF LegalCommands, Statuses
  <2>3. StoreTransition(p, c)
    BY <1>6
  <2> HIDE DEF p
  <2>4. EntryOf(p, cap) \in Book!Successors(EntryOf(old, cap))
    BY <1>1, <1>6, <2>1, <2>2, StatusSuccessor
  <2> QED
    BY <1>1, <1>6, <2>1, <2>3, <2>4, StoreIsChange
<1>7. CASE Cancel(c)
  BY <1>6, <1>7 DEF Cancel, Commands
<1>8. CASE Reject(c)
  BY <1>6, <1>8 DEF Reject, Commands
<1> QED
  BY <1>2, <1>3, <1>4, <1>5, <1>7, <1>8 DEF Deliver

\* A new order is a new entry.
LEMMA CreateIsPlace ==
    ASSUME OrderIInv, NEW s \in Snapshots, Create(s)
    PROVE  Book!BookNext
<1> DEFINE o == NewOrder(s, now + 1)
<1>1. s \in Snapshot /\ s.id \in OrderIds /\ s.quantity \in Nat
  BY OrderAssumption DEF Snapshot
<1>2. o \in Order
  BY <1>1 DEF NewOrder, Order, Snapshot, Statuses, Optional, OrderIInv, OrderTypeOK
<1>3. o # None
  BY <1>2, OrderAssumption
<1>4. EntryOf(o, s.quantity) = Book!Placed(s.quantity)
  BY DEF EntryOf, NewOrder, Book!Placed
<1>5. orders[s.id] = None /\ orders' = [orders EXCEPT ![s.id] = o]
      /\ approved' = [approved EXCEPT ![s.id] = s.quantity]
  BY DEF Create
<1> HIDE DEF o
<1>6. orders \in [OrderIds -> Optional(Order)] /\ approved \in [OrderIds -> Optional(Nat)]
  BY DEF OrderIInv, OrderTypeOK
<1>7. BookOfOrders[s.id] = None
  BY <1>1, <1>5 DEF BookOfOrders, Entry
<1>8. BookOfOrders' = [BookOfOrders EXCEPT ![s.id] = EntryOf(o, s.quantity)]
  <2>1. \A i \in OrderIds : Entry(i)' = IF i = s.id THEN EntryOf(o, s.quantity) ELSE Entry(i)
    BY <1>1, <1>3, <1>5, <1>6 DEF Entry, EntryOf
  <2> QED
    BY <1>1, <2>1 DEF BookOfOrders
<1>9. Book!Place(s.id, s.quantity)
  BY <1>4, <1>7, <1>8 DEF Book!Place, BookOfOrders
<1> QED
  BY <1>1, <1>9 DEF Book!BookNext

LEMMA NextIsBookStep ==
    ASSUME OrderIInv, OrderNext
    PROVE  Book!BookNext \/ BookOfOrders' = BookOfOrders
<1>1. ASSUME NEW content \in Contents, Issue(content)
      PROVE  BookOfOrders' = BookOfOrders
  BY <1>1 DEF Issue, orderVars, BookOfOrders, Entry
<1>2. CASE Reset
  <2>1. BookOfOrders' = [i \in OrderIds |-> None]
    BY <1>2 DEF Reset, BookOfOrders, Entry
  <2> QED
    BY <2>1 DEF Book!BookNext, Book!Emptied, BookOfOrders
<1> QED
  BY <1>1, <1>2, CreateIsPlace, DeliveryIsBookStep DEF OrderNext

\* For every set of commands in every order of delivery, the engine keeps the book.
THEOREM OrdersImplementBook == OrderSpec => ImplementsOrderBook
<1>1. OrderInit => Book!BookInit
  <2> SUFFICES ASSUME OrderInit PROVE Book!BookInit
    OBVIOUS
  <2> QED
    BY DEF OrderInit, Book!BookInit, Entry
<1>2. OrderIInv /\ [OrderNext]_vars => [Book!BookNext]_BookOfOrders
  <2>1. ASSUME OrderIInv, UNCHANGED vars
        PROVE  BookOfOrders' = BookOfOrders
    BY <2>1 DEF vars, orderVars, BookOfOrders, Entry
  <2> QED
    BY <2>1, NextIsBookStep
<1>3. [Book!BookNext]_BookOfOrders => [Book!BookNext]_[i \in OrderIds |-> Entry(i)]
  BY DEF BookOfOrders
<1> QED
  BY <1>1, <1>2, <1>3, OrderInvariant, PTL DEF OrderSpec, ImplementsOrderBook, Book!BookSpec

\* OrdersAreSound: an order is well-typed, within its approval, found under its broker id
\* and moves forward only, for every set of orders, commands and prices and in every order
\* of deliveries.
THEOREM OrdersStaySound == OrderSpec => OrdersAreSound
<1>1. OrderSpec => [](OrderTypeOK /\ WithinApproval /\ BrokerIdsAgree)
  BY OrderTypeCorrect, OrdersStayWithinApproval, BrokerIdsAlwaysAgree, PTL
<1> QED
  BY <1>1, OrdersOnlyMoveForward, PTL DEF OrdersAreSound
===============================================================================
