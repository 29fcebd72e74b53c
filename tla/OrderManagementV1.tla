--------------------------- MODULE OrderManagementV1 ---------------------------
(***************************************************************************)
(* engines/order_management: the internal lifecycle of the orders of one   *)
(* instrument.  An order is created from a risk-approved snapshot and then *)
(* moved by commands: acknowledged, modified, filled, cancelled, rejected. *)
(*                                                                         *)
(* Commands reach the engine through SymbolRuntime.apply_order_command.    *)
(* Here each is issued once, with a timestamp of its own, and may then be  *)
(* delivered late, out of order, more than once or never.  A command the   *)
(* engine answers without changing anything (a duplicate, a refusal) is no *)
(* step.                                                                   *)
(***************************************************************************)
EXTENDS NoneValue, Integers, FiniteSetsExt

CONSTANTS
    OrderIds,    \* client order ids
    BrokerIds,   \* broker order ids
    Prices,      \* limit, trigger and fill prices
    Snapshots,   \* the order snapshots offered to create
    Contents,    \* what commands say, their timestamps left out
    MaxStamp     \* bound: timestamps are 0 .. MaxStamp

VARIABLES
    orders,         \* _orders: client order id -> order, or None
    latestOrder,    \* _latest_order_id
    latestCommand,  \* _latest_commands: client order id -> command, or None
    brokerOwner,    \* _broker_order_ids: broker order id -> client order id, or None
    approved,       \* _approved_quantities: client order id -> quantity, or None
    now,            \* the time of the last snapshot or command
    issued,         \* commands on their way: they may still be delivered
    applied,        \* history: the commands that changed an order since the last reset
    displaced       \* history: the orders whose latest command an idle one has replaced

orderVars == <<orders, latestOrder, latestCommand, brokerOwner, approved>>
vars == <<orderVars, now, issued, applied, displaced>>

Sides    == {"BUY", "SELL"}
Types    == {"MARKET", "LIMIT", "STOP_MARKET", "STOP_LIMIT"}
Statuses == {"PENDING_SUBMISSION", "SUBMITTED", "PARTIALLY_FILLED",
             "FILLED", "CANCELLED", "REJECTED"}
Ended    == {"FILLED", "CANCELLED", "REJECTED"}
Commands == {"ACKNOWLEDGE", "MODIFY", "FILL", "CANCEL", "REJECT"}
Optional(S) == S \cup {None}

\* OrderState.  average_fill_price is notional / filled.
Order ==
    [id : OrderIds, broker : Optional(BrokerIds), side : Sides, type : Types,
     status : Statuses, quantity : Nat, filled : Nat, remaining : Nat, notional : Nat,
     limit : Optional(Prices), trigger : Optional(Prices), entry : Prices,
     updatedAt : Nat, version : Nat]

\* What the book of orders knows of an order (see Book below).
Seen == [status : Statuses, limit : Nat, quantity : Nat, filled : Nat]

\* OrderSnapshot: the request and the risk decision it was made from.
Snapshot ==
    [id : OrderIds, side : Sides, type : Types, quantity : Nat \ {0},
     limit : Optional(Prices), trigger : Optional(Prices),
     riskApproved : BOOLEAN, riskSide : Sides, riskQuantity : Nat, riskEntry : Prices]

\* OrderCommand: the fields its kind does not use are None.
Content ==
    [type : Commands, id : OrderIds, broker : Optional(BrokerIds),
     quantity : Optional(Nat), limit : Optional(Prices), trigger : Optional(Prices),
     fill : Optional(Nat), price : Optional(Prices)]

Stamped(content, time) ==
    [type |-> content.type, id |-> content.id, broker |-> content.broker,
     quantity |-> content.quantity, limit |-> content.limit, trigger |-> content.trigger,
     fill |-> content.fill, price |-> content.price, stamp |-> time]

\* What a fill or an acknowledgement must say: any other is refused.
WellFormed(c) ==
    /\ c.type = "FILL" => c.fill \in Nat \ {0} /\ c.price \in Prices
    /\ c.type = "ACKNOWLEDGE" => c.broker \in BrokerIds

ASSUME OrderAssumption ==
    /\ None \notin OrderIds \cup BrokerIds \cup Nat
    /\ None \notin Order \cup Seen
    /\ Prices \subseteq Nat \ {0}
    /\ Snapshots \subseteq Snapshot
    /\ Contents \subseteq {c \in Content : WellFormed(c)}
    /\ MaxStamp \in Nat
-----------------------------------------------------------------------------
\* A faulty form: an order may be filled before the broker acknowledged it.
FillableEarly(status) ==
    IF status \in {"PENDING_SUBMISSION", "SUBMITTED"} THEN Commands
    ELSE IF status = "PARTIALLY_FILLED" THEN {"MODIFY", "FILL", "CANCEL"} ELSE {}
\* LEGAL_COMMANDS.
LegalCommands(status) ==
    CASE status = "PENDING_SUBMISSION" -> Commands \ {"FILL"}
      [] status = "SUBMITTED"          -> Commands \ {"ACKNOWLEDGE"}
      [] status = "PARTIALLY_FILLED"   -> {"MODIFY", "FILL", "CANCEL"}
      [] OTHER                         -> {}

\* The prices an order of each type carries: the one that decides the entry is the
\* entry price risk approved.
FieldsFit(type, side, limit, trigger, entry) ==
    \/ type = "MARKET" /\ limit = None /\ trigger = None
    \/ type = "LIMIT" /\ limit = entry /\ trigger = None
    \/ type = "STOP_MARKET" /\ limit = None /\ trigger = entry
    \/ /\ type = "STOP_LIMIT" /\ limit # None /\ trigger = entry
       /\ IF side = "BUY" THEN limit >= trigger ELSE limit <= trigger

\* What validate_creation_snapshot lets through.
RiskConsistent(s) ==
    /\ s.riskApproved
    /\ s.side = s.riskSide
    /\ s.quantity = s.riskQuantity
    /\ FieldsFit(s.type, s.side, s.limit, s.trigger, s.riskEntry)

NewOrder(s, time) ==
    [id |-> s.id, broker |-> None, side |-> s.side, type |-> s.type,
     status |-> "PENDING_SUBMISSION", quantity |-> s.quantity, filled |-> 0,
     remaining |-> s.quantity, notional |-> 0, limit |-> s.limit, trigger |-> s.trigger,
     entry |-> s.riskEntry, updatedAt |-> time, version |-> 1]

\* A faulty form: commands are applied whatever their age.
CurrentWhenever(c, o) == TRUE
Current(c, o) == c.stamp >= o.updatedAt

\* The next version of an order.
Touched(o, c) == [o EXCEPT !.updatedAt = c.stamp, !.version = @ + 1]

\* The order a modification leaves; a value the command leaves out is kept.
Modified(o, c) ==
    LET quantity == IF c.quantity = None THEN o.quantity ELSE c.quantity
    IN [Touched(o, c) EXCEPT
          !.quantity  = quantity,
          !.remaining = quantity - o.filled,
          !.limit     = IF c.limit = None THEN @ ELSE c.limit,
          !.trigger   = IF c.trigger = None THEN @ ELSE c.trigger]

\* Two faulty forms: the quantity may fall below what is filled, or grow past what risk
\* approved.
BelowFilled(o, c, limit) == c.quantity # None => c.quantity > 0 /\ c.quantity <= limit
UnlimitedQuantity(o, c, limit) == c.quantity # None => c.quantity > 0 /\ c.quantity >= o.filled
QuantityAllowed(o, c, limit) ==
    c.quantity # None => c.quantity > 0 /\ c.quantity >= o.filled /\ c.quantity <= limit

\* What _modify accepts.
Modifiable(o, c, limit) ==
    /\ ~(c.quantity = None /\ c.limit = None /\ c.trigger = None)
    /\ QuantityAllowed(o, c, limit)
    /\ FieldsFit(o.type, o.side, Modified(o, c).limit, Modified(o, c).trigger, o.entry)

\* A modification to what the order already is.
SameTerms(o, p) == o.quantity = p.quantity /\ o.limit = p.limit /\ o.trigger = p.trigger

\* The order a fill leaves.
WithFill(o, c) ==
    [Touched(o, c) EXCEPT
       !.filled    = @ + c.fill,
       !.remaining = o.quantity - (o.filled + c.fill),
       !.notional  = @ + c.fill * c.price,
       !.status    = IF o.quantity > o.filled + c.fill THEN "PARTIALLY_FILLED" ELSE "FILLED"]
-----------------------------------------------------------------------------
OrderTypeOK ==
    /\ orders \in [OrderIds -> Optional(Order)]
    /\ \A i \in OrderIds : orders[i] # None => orders[i].id = i
    /\ latestOrder \in Optional(OrderIds)
    /\ \A c \in issued : \E d \in Contents, t \in 0 .. MaxStamp : c = Stamped(d, t)
    /\ applied \subseteq issued
    /\ latestCommand \in [OrderIds -> Optional(issued)]
    /\ brokerOwner \in [BrokerIds -> Optional(OrderIds)]
    /\ approved \in [OrderIds -> Optional(Nat)]
    /\ now \in 0 .. MaxStamp
    /\ displaced \subseteq OrderIds

OrderInit ==
    /\ orders = [i \in OrderIds |-> None]
    /\ latestOrder = None
    /\ latestCommand = [i \in OrderIds |-> None]
    /\ brokerOwner = [b \in BrokerIds |-> None]
    /\ approved = [i \in OrderIds |-> None]
    /\ now = 0
    /\ issued = {}
    /\ applied = {}
    /\ displaced = {}

\* create().
Create(s) ==
    /\ now < MaxStamp
    /\ RiskConsistent(s)
    /\ orders[s.id] = None
    /\ now' = now + 1
    /\ orders' = [orders EXCEPT ![s.id] = NewOrder(s, now')]
    /\ approved' = [approved EXCEPT ![s.id] = s.quantity]
    /\ latestOrder' = s.id
    /\ UNCHANGED <<latestCommand, brokerOwner, issued, applied, displaced>>

\* Somebody sends a command: the time is theirs.
Issue(content) ==
    /\ now < MaxStamp
    /\ now' = now + 1
    /\ issued' = issued \cup {Stamped(content, now')}
    /\ UNCHANGED <<orderVars, applied, displaced>>

\* A faulty form: a duplicate is not recognised.
NeverDuplicate(c, o) == FALSE
\* The two duplicates apply answers with the order as it is.
Duplicate(c, o) ==
    \/ c = latestCommand[c.id]
    \/ c.type = "ACKNOWLEDGE" /\ o.status = "SUBMITTED" /\ c.broker = o.broker

\* The common part of apply(): the order is known, the command no duplicate, not
\* stale, and legal in the order's status.
Accepts(c, type) ==
    LET o == orders[c.id]
    IN /\ c \in issued
       /\ c.type = type
       /\ o # None
       /\ ~Duplicate(c, o)
       /\ Current(c, o)
       /\ type \in LegalCommands(o.status)

\* _store_transition.
StoreTransition(o, c) ==
    /\ orders' = [orders EXCEPT ![c.id] = o]
    /\ latestOrder' = c.id
    /\ latestCommand' = [latestCommand EXCEPT ![c.id] = c]
    /\ applied' = applied \cup {c}
    /\ UNCHANGED <<approved, now, issued, displaced>>

\* A faulty form: the broker's id is taken whoever holds it.
FreeAnyway(c) == TRUE
FreeBrokerId(c) == brokerOwner[c.broker] \in {None, c.id}

\* _acknowledge.
Acknowledge(c) ==
    /\ Accepts(c, "ACKNOWLEDGE")
    /\ FreeBrokerId(c)
    /\ StoreTransition([Touched(orders[c.id], c) EXCEPT !.broker = c.broker,
                                                        !.status = "SUBMITTED"], c)
    /\ brokerOwner' = [brokerOwner EXCEPT ![c.broker] = c.id]

\* _modify.
Modify(c) ==
    /\ Accepts(c, "MODIFY")
    /\ Modifiable(orders[c.id], c, approved[c.id])
    /\ ~SameTerms(orders[c.id], Modified(orders[c.id], c))
    /\ StoreTransition(Modified(orders[c.id], c), c)
    /\ UNCHANGED brokerOwner

\* _modify, when nothing would change: the command is remembered and no more.
RememberDuplicate(c) ==
    /\ Accepts(c, "MODIFY")
    /\ Modifiable(orders[c.id], c, approved[c.id])
    /\ SameTerms(orders[c.id], Modified(orders[c.id], c))
    /\ latestCommand' = [latestCommand EXCEPT ![c.id] = c]
    /\ displaced' = displaced \cup {c.id}
    /\ UNCHANGED <<orders, latestOrder, brokerOwner, approved, now, issued, applied>>

\* _fill.
Fill(c) ==
    /\ Accepts(c, "FILL")
    /\ c.fill <= orders[c.id].remaining
    /\ StoreTransition(WithFill(orders[c.id], c), c)
    /\ UNCHANGED brokerOwner

\* _cancel and _reject.
Cancel(c) ==
    /\ Accepts(c, "CANCEL")
    /\ StoreTransition([Touched(orders[c.id], c) EXCEPT !.status = "CANCELLED"], c)
    /\ UNCHANGED brokerOwner

Reject(c) ==
    /\ Accepts(c, "REJECT")
    /\ StoreTransition([Touched(orders[c.id], c) EXCEPT !.status = "REJECTED"], c)
    /\ UNCHANGED brokerOwner

\* reset(): what is on its way stays on its way.
Reset ==
    /\ orders # [i \in OrderIds |-> None]
    /\ orders' = [i \in OrderIds |-> None]
    /\ latestOrder' = None
    /\ latestCommand' = [i \in OrderIds |-> None]
    /\ brokerOwner' = [b \in BrokerIds |-> None]
    /\ approved' = [i \in OrderIds |-> None]
    /\ applied' = {}
    /\ displaced' = {}
    /\ UNCHANGED <<now, issued>>

Deliver(c) ==
    Acknowledge(c) \/ Modify(c) \/ RememberDuplicate(c) \/ Fill(c) \/ Cancel(c) \/ Reject(c)

OrderNext ==
    \/ \E s \in Snapshots : Create(s)
    \/ \E content \in Contents : Issue(content)
    \/ \E c \in issued : Deliver(c)
    \/ Reset

OrderSpec == OrderInit /\ [][OrderNext]_vars
-----------------------------------------------------------------------------
\* However an order is modified and filled, its books are closed: what is filled and
\* what remains make up its quantity, which never exceeds what risk approved, and it is
\* FILLED only when nothing remains.
WithinApproval ==
    \A i \in OrderIds : orders[i] # None =>
        /\ orders[i].filled + orders[i].remaining = orders[i].quantity
        /\ orders[i].quantity <= approved[i]
        /\ orders[i].status = "FILLED" => orders[i].remaining = 0

\* A broker order id belongs to one order: the engine's table and the orders agree, also
\* when acknowledgements arrive twice, late or for the wrong order.
BrokerIdsAgree ==
    \A i \in OrderIds, b \in BrokerIds :
        brokerOwner[b] = i <=> (orders[i] # None /\ orders[i].broker = b)

FillsOf(i) == {c \in applied : c.id = i /\ c.type = "FILL"}

CountedOnce(i) ==
    /\ orders[i].filled = MapThenSumSet(LAMBDA c : c.fill, FillsOf(i))
    /\ orders[i].notional = MapThenSumSet(LAMBDA c : c.fill * c.price, FillsOf(i))
    /\ orders[i].version = 1 + Cardinality({c \in applied : c.id = i})

\* A fill that was reported counts once: the filled quantity, its cost and the version
\* are those of the commands that were applied, however often and in whatever order they
\* came.  test_fill_partial_full_weighted_average_rounding_duplicates_and_rejections
\* asserts it of a fill repeated at once; repeated after a modification that changed
\* nothing, the code counts it again.
FillsCountedOnce == \A i \in OrderIds : orders[i] # None => CountedOnce(i)

\* A modification that changes nothing is the only way to that: it replaces the command
\* duplicates are recognised by, and leaves the order its old timestamp.
OnlyIdleModificationsForget ==
    \A i \in OrderIds \ displaced : orders[i] # None => CountedOnce(i)

\* An order that has ended stays as it is, and a live one only moves forward: nothing
\* filled is undone, its time does not go back and every change is a new version.
OrdersMoveForward ==
    [][\A i \in OrderIds : (orders[i] # None /\ orders'[i] # None /\ orders'[i] # orders[i]) =>
           /\ orders[i].status \notin Ended
           /\ orders'[i].filled >= orders[i].filled
           /\ orders'[i].updatedAt >= orders[i].updatedAt
           /\ orders'[i].version = orders[i].version + 1]_vars

\* What the book of orders knows of an order.
Entry(i) ==
    IF orders[i] = None THEN None
    ELSE [status |-> orders[i].status, limit |-> approved[i],
          quantity |-> orders[i].quantity, filled |-> orders[i].filled]

Book == INSTANCE OrderBook WITH Quantities <- {s.quantity : s \in Snapshots},
                                book <- [i \in OrderIds |-> Entry(i)]

\* Whatever commands come, repeated, late or for ended orders, the engine keeps the simple
\* book that the components placing orders rely on (PaperExecutionV1 is built on it).
ImplementsOrderBook == Book!BookSpec

\* An order is sound throughout its life: within what risk approved, found under its
\* broker's id and no other, and moving forward only, however commands are delayed,
\* repeated and reordered (order_management_engine.py: apply).
OrdersAreSound ==
    /\ [](OrderTypeOK /\ WithinApproval /\ BrokerIdsAgree)
    /\ OrdersMoveForward
===============================================================================
