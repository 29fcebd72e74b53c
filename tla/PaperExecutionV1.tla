--------------------------- MODULE PaperExecutionV1 ---------------------------
(***************************************************************************)
(* engines/paper_execution_coordinator: approved execution plans become an *)
(* entry order and, once the entry is filled, a stop and a target, in the  *)
(* order engine (OrderBook) and as managed submissions of the paper        *)
(* trading engine.                                                         *)
(*                                                                         *)
(* The orders move by commands of others (Venue).  What the order engine   *)
(* returned of an order is handed to on_order_update by whoever applied    *)
(* the command: at once, late, again, out of order or never.               *)
(***************************************************************************)
EXTENDS NoneValue, Integers, FiniteSets

CONSTANTS
    Requests,    \* the paper execution requests the program meets
    MaxDelayed,  \* bound: order states kept back from the coordinator
    MaxResets    \* bound: resets of the session or of the runtime

VARIABLES
    book,         \* the order engine
    stopped,      \* whether _state is STOPPED: nothing depends on the other states
    receipts,     \* the _receipts that have an order, by the request that identifies them
    byPlan,       \* _by_plan_id, with _plan_fingerprints: plan id -> request
    byPrint,      \* _by_plan_fingerprint
    byRequest,    \* _by_request_id, with _request_fingerprints
    byOrder,      \* _by_order_id
    submissions,  \* the paper engine's _managed_submissions
    safe,         \* the paper engine's safety mode is a safe one; never changes
    delayed,      \* former order states that may still be handed to on_order_update
    reused,       \* history: the plans with orders before a reset of the runtime
    resets        \* bounded counter: the resets so far

maps == <<byPlan, byPrint, byRequest>>
coordinatorVars == <<stopped, receipts, maps, byOrder>>
vars == <<book, coordinatorVars, submissions, safe, delayed, reused, resets>>

\* PaperExecutionRequest with the plan's content: print is its fingerprint, protects the
\* protective orders it asks for.  A request that plan and policy alone make ineligible
\* never gets an order and has no part here.
Purposes == {"ENTRY", "STOP_LOSS", "TARGET"}
Request ==
    [id : STRING, plan : STRING, print : STRING, quantity : Nat \ {0},
     protects : SUBSET {"STOP_LOSS", "TARGET"}]

ASSUME RequestsAssumption ==
    /\ Requests \subseteq Request
    /\ IsFiniteSet(Requests)
    /\ None \notin Requests
    /\ MaxDelayed \in Nat
    /\ MaxResets \in Nat

Plans      == {r.plan : r \in Requests}
OrderIds   == Purposes \X Plans
Quantities == {r.quantity : r \in Requests}
INSTANCE OrderBook

ActiveStatuses    == {"ENTRY_SUBMITTED", "ENTRY_PARTIALLY_FILLED", "ENTRY_FILLED",
                      "PROTECTIVE_ORDERS_CREATED", "ACTIVE"}
TerminalStatuses  == {"COMPLETED", "CANCELLED", "REJECTED", "FAILED"}
Optional(S)       == S \cup {None}

\* PaperExecutionReceipt: refs are the purposes it has an order reference for.
Receipt    == [status : ActiveStatuses \cup TerminalStatuses, refs : SUBSET Purposes, filled : Nat]
\* ManagedPaperSubmission.
SubmissionStatuses == {"SUBMITTED", "PARTIALLY_FILLED", "FILLED", "CANCELLED", "REJECTED"}
Submission == [status : SubmissionStatuses, quantity : Nat \ {0}, filled : Nat]
\* What is absent is none of the records that may be there.
ASSUME NothingAssumption == None \notin Receipt \cup Submission \cup BookEntry

\* OrderState, as far as the coordinator reads it.
OrderState == [order : OrderIds, status : BookStatuses, quantity : Nat, filled : Nat]
Update(i, b) == [order |-> i, status |-> b.status, quantity |-> b.quantity, filled |-> b.filled]

PaperTypeOK ==
    /\ book \in [OrderIds -> Optional(BookEntry)]
    /\ stopped \in BOOLEAN
    /\ receipts \in [Requests -> Optional(Receipt)]
    /\ byPlan \in [Plans -> Optional(Requests)]
    /\ byPrint \in [{r.print : r \in Requests} -> Optional(Requests)]
    /\ byRequest \in [{r.id : r \in Requests} -> Optional(Requests)]
    /\ byOrder \in [OrderIds -> Optional(Requests)]
    /\ submissions \in [OrderIds -> Optional(Submission)]
    /\ safe \in BOOLEAN
    /\ delayed \subseteq OrderState
    /\ reused \subseteq Plans
    /\ resets \in 0 .. MaxResets

PaperInit ==
    /\ BookInit
    /\ stopped = FALSE
    /\ receipts = [r \in Requests |-> None]
    /\ byPlan = [p \in Plans |-> None]
    /\ byPrint = [p \in {r.print : r \in Requests} |-> None]
    /\ byRequest = [i \in {r.id : r \in Requests} |-> None]
    /\ byOrder = [i \in OrderIds |-> None]
    /\ submissions = [i \in OrderIds |-> None]
    /\ safe \in BOOLEAN
    /\ delayed = {}
    /\ reused = {}
    /\ resets = 0
-----------------------------------------------------------------------------
(* Helpers *)

IsActive(r) == receipts[r] # None /\ receipts[r].status \in ActiveStatuses
IsLive(i)   == book[i] # None /\ book[i].status \in Live

\* _store of a receipt that has an entry order.
Remembered(r) ==
    /\ byPlan' = [byPlan EXCEPT ![r.plan] = r]
    /\ byPrint' = [byPrint EXCEPT ![r.print] = r]
    /\ byRequest' = [byRequest EXCEPT ![r.id] = r]

\* submit_managed_order: a submission of the same content is found again, one of
\* different content or an unsafe mode raises.
Submittable(i, q) == safe /\ (submissions[i] # None => submissions[i].quantity = q)
Submitted(subs, i, q) ==
    IF subs[i] = None
    THEN [subs EXCEPT ![i] = [status |-> "SUBMITTED", quantity |-> q, filled |-> 0]]
    ELSE subs

\* _cancel_managed_submission for the orders in S.
SubmissionsCancelled(subs, S) ==
    [i \in OrderIds |->
        IF i \in S /\ subs[i] # None /\ subs[i].status \in {"SUBMITTED", "PARTIALLY_FILLED"}
        THEN [subs[i] EXCEPT !.status = "CANCELLED"]
        ELSE subs[i]]

\* The order engine returns and publishes every state an order takes; whoever gets it may
\* keep it and hand it on after the order has moved.
KeptBack ==
    \E kept \in SUBSET {Update(i, book[i]) : i \in {j \in OrderIds : book[j] \notin {None, book'[j]}}} :
        /\ Cardinality(delayed \cup kept) <= MaxDelayed
        /\ delayed' = delayed \cup kept

OrdersCancelled(S) ==
    [i \in OrderIds |-> IF i \in S /\ IsLive(i) THEN [book[i] EXCEPT !.status = "CANCELLED"] ELSE book[i]]
-----------------------------------------------------------------------------
(* stop, reset_session, and the runtime's reset.  start() leaves a stopped coordinator *)
(* stopped, so that only a reset brings it back.                                      *)

Stop ==
    /\ stopped' = TRUE
    /\ UNCHANGED <<book, receipts, maps, byOrder, submissions, safe, delayed, reused, resets>>

SessionCleared ==
    /\ resets < MaxResets
    /\ resets' = resets + 1
    /\ stopped' = FALSE
    /\ receipts' = [r \in Requests |-> None]
    /\ byPlan' = [p \in Plans |-> None]
    /\ byPrint' = [p \in DOMAIN byPrint |-> None]
    /\ byRequest' = [i \in DOMAIN byRequest |-> None]
    /\ byOrder' = [i \in OrderIds |-> None]

ResetSession ==
    /\ SessionCleared
    /\ UNCHANGED <<book, submissions, safe, delayed, reused>>

\* SymbolRuntime.reset: the paper engine keeps its managed submissions.
ResetRuntime ==
    /\ SessionCleared
    /\ Emptied
    /\ reused' = reused \cup {p \in Plans : book[<<"ENTRY", p>>] # None}
    /\ UNCHANGED <<submissions, safe, delayed>>
-----------------------------------------------------------------------------
(* execute *)

\* A faulty form: an exact retry is taken for a conflict.
RetryConflicts(r) == byRequest[r.id] # None
\* _duplicate_receipt: the request's or the plan's identity has other content.
Conflicts(r) ==
    \/ byRequest[r.id] \notin {None, r}
    \/ byPlan[r.plan] # None /\ byPlan[r.plan].print # r.print

\* A faulty form: a known content under a new plan id is new.
KnownById(r) == byPlan[r.plan] # None \/ byRequest[r.id] # None
\* _duplicate_receipt: the request was executed before.
Known(r) == byPlan[r.plan] # None \/ byPrint[r.print] # None \/ byRequest[r.id] # None

Enters(r) == ~stopped /\ ~Conflicts(r) /\ ~Known(r)

\* A receipt without orders takes the place of the request's receipt: the coordinator is
\* stopped (asked before duplicates are looked for), the request conflicts with an earlier
\* one, or the order engine knows the entry order already.
ExecuteRejected(r) ==
    /\ stopped \/ Conflicts(r) \/ (Enters(r) /\ book[<<"ENTRY", r.plan>>] # None)
    /\ receipts' = [receipts EXCEPT ![r] = None]
    /\ UNCHANGED <<book, stopped, maps, byOrder, submissions, safe, delayed, reused, resets>>

\* The paper engine refuses the order that was just created: it stays where it is.
ExecuteUnsubmitted(r) ==
    LET entry == <<"ENTRY", r.plan>>
    IN /\ Enters(r)
       /\ ~Submittable(entry, r.quantity)
       /\ Place(entry, r.quantity)
       /\ receipts' = [receipts EXCEPT ![r] = [status |-> "FAILED", refs |-> {"ENTRY"}, filled |-> 0]]
       /\ Remembered(r)
       /\ KeptBack
       /\ UNCHANGED <<stopped, byOrder, submissions, safe, reused, resets>>

ExecuteAccepted(r) ==
    LET entry == <<"ENTRY", r.plan>>
    IN /\ Enters(r)
       /\ Submittable(entry, r.quantity)
       /\ Place(entry, r.quantity)
       /\ submissions' = Submitted(submissions, entry, r.quantity)
       /\ receipts' = [receipts EXCEPT ![r] =
                           [status |-> "ENTRY_SUBMITTED", refs |-> {"ENTRY"}, filled |-> 0]]
       /\ Remembered(r)
       /\ byOrder' = [byOrder EXCEPT ![entry] = r]
       /\ KeptBack
       /\ UNCHANGED <<stopped, safe, reused, resets>>

Execute(r) == ExecuteRejected(r) \/ ExecuteUnsubmitted(r) \/ ExecuteAccepted(r)
-----------------------------------------------------------------------------
(* The orders move, and the coordinator hears of it *)

Venue(i) ==
    /\ Change(i)
    /\ KeptBack
    /\ UNCHANGED <<coordinatorVars, submissions, safe, reused, resets>>

\* A faulty form: the order's status is taken over as it is.
SameStatus(status) == status
\* _managed_status_from_order.
SubmissionStatus(status) ==
    IF status = "PENDING_SUBMISSION" THEN "SUBMITTED" ELSE status

\* update_managed_order accepts: the order's terms are those submitted, its fills do
\* not decrease, and a submission that has ended keeps its status.
Syncs(u) ==
    LET s == submissions[u.order]
    IN /\ s # None
       /\ u.quantity = s.quantity
       /\ u.filled >= s.filled
       /\ s.status \in {"FILLED", "CANCELLED", "REJECTED"} => SubmissionStatus(u.status) = s.status

Synced(u) ==
    [submissions EXCEPT ![u.order].status = SubmissionStatus(u.status), ![u.order].filled = u.filled]

\* The states on_order_update may be given: those the orders have, and delayed ones.
Updates == delayed \cup {Update(i, book[i]) : i \in {j \in OrderIds : book[j] # None}}

\* The update is about an order of an active receipt.
Heard(u, r) ==
    /\ r = byOrder[u.order]
    /\ r # None
    /\ IsActive(r)
    /\ u.order[1] \in receipts[r].refs

\* _sync_managed_update raises.
UpdateFails(u, r) ==
    /\ Heard(u, r)
    /\ ~Syncs(u)
    /\ receipts' = [receipts EXCEPT ![r].status = "FAILED"]
    /\ UNCHANGED <<book, stopped, maps, byOrder, submissions, safe, delayed, reused, resets>>

\* Nothing but the receipt and the submission changes.
Noted(u, r, status, filled) ==
    /\ Syncs(u)
    /\ submissions' = Synced(u)
    /\ receipts' = [receipts EXCEPT ![r].status = status, ![r].filled = filled]
    /\ UNCHANGED <<book, stopped, maps, byOrder, safe, delayed, reused, resets>>

EntryUpdate(u, r) ==
    LET held == receipts[r].status
    IN /\ Heard(u, r)
       /\ u.order[1] = "ENTRY"
       /\ \/ u.status = "CANCELLED" /\ Noted(u, r, "CANCELLED", receipts[r].filled)
          \/ u.status = "REJECTED" /\ Noted(u, r, "REJECTED", receipts[r].filled)
          \/ u.status = "PARTIALLY_FILLED" /\ Noted(u, r, "ENTRY_PARTIALLY_FILLED", u.filled)
          \/ u.status \in {"PENDING_SUBMISSION", "SUBMITTED"} /\ Noted(u, r, held, receipts[r].filled)
          \/ /\ u.status = "FILLED"
             /\ receipts[r].refs # {"ENTRY"} \/ r.protects = {}
             /\ Noted(u, r, "ENTRY_FILLED", u.filled)

\* A faulty form: the target is left out when there is a stop.
StopOnly(r) == IF "STOP_LOSS" \in r.protects THEN {"STOP_LOSS"} ELSE r.protects
Protection(r) == r.protects

\* _create_protective_orders: the orders are new to the order engine, and the plan's
\* quantity is what was filled.
EntryProtected(u, r) ==
    LET new == {<<p, r.plan>> : p \in Protection(r)}
    IN /\ Heard(u, r)
       /\ Syncs(u)
       /\ u.order[1] = "ENTRY" /\ u.status = "FILLED"
       /\ receipts[r].refs = {"ENTRY"} /\ r.protects # {}
       /\ \A i \in new : book[i] = None /\ Submittable(i, u.filled)
       /\ book' = [i \in OrderIds |-> IF i \in new THEN Placed(u.filled) ELSE book[i]]
       /\ submissions' = [i \in OrderIds |-> IF i \in new THEN Submitted(Synced(u), i, u.filled)[i]
                                                          ELSE Synced(u)[i]]
       /\ receipts' = [receipts EXCEPT ![r] = [status |-> "PROTECTIVE_ORDERS_CREATED",
                                               refs |-> {"ENTRY"} \cup Protection(r),
                                               filled |-> u.filled]]
       /\ byOrder' = [i \in OrderIds |-> IF i \in new THEN r ELSE byOrder[i]]
       /\ KeptBack
       /\ UNCHANGED <<stopped, maps, safe, reused, resets>>

Opposite(p) == IF p = "STOP_LOSS" THEN "TARGET" ELSE "STOP_LOSS"

\* A faulty form: the opposite order is forgotten.
OppositeForgotten(u, r) == {}
\* _cancel_opposite_protective: the orders it cancels.
OppositeOf(u, r) == {<<p, r.plan>> : p \in receipts[r].refs \cap {Opposite(u.order[1])}}

\* A protective order is filled: the receipt is completed, the other order cancelled.
ProtectiveFilled(u, r) ==
    /\ Heard(u, r)
    /\ Syncs(u)
    /\ u.order[1] # "ENTRY" /\ u.status = "FILLED"
    /\ book' = OrdersCancelled(OppositeOf(u, r))
    /\ submissions' = SubmissionsCancelled(Synced(u), OppositeOf(u, r))
    /\ receipts' = [receipts EXCEPT ![r].status = "COMPLETED"]
    /\ KeptBack
    /\ UNCHANGED <<stopped, maps, byOrder, safe, reused, resets>>

\* The same, but the other order has changed after the time the caller gives: its
\* cancellation is stale and raises, after the submission of the filled one was updated.
ProtectiveFilledLate(u, r) ==
    /\ Heard(u, r)
    /\ Syncs(u)
    /\ u.order[1] # "ENTRY" /\ u.status = "FILLED"
    /\ \E i \in OppositeOf(u, r) : IsLive(i)
    /\ submissions' = Synced(u)
    /\ UNCHANGED <<book, coordinatorVars, safe, delayed, reused, resets>>

ProtectiveUpdate(u, r) ==
    /\ Heard(u, r)
    /\ u.order[1] # "ENTRY"
    /\ \/ u.status = "CANCELLED" /\ Noted(u, r, receipts[r].status, receipts[r].filled)
       \/ u.status = "REJECTED" /\ Noted(u, r, "FAILED", receipts[r].filled)
       \/ u.status \in Live /\ Noted(u, r, "ACTIVE", receipts[r].filled)

OnOrderUpdate(u, r) ==
    \/ UpdateFails(u, r) \/ EntryUpdate(u, r) \/ EntryProtected(u, r)
    \/ ProtectiveFilled(u, r) \/ ProtectiveFilledLate(u, r) \/ ProtectiveUpdate(u, r)
-----------------------------------------------------------------------------
(* cancel *)

Before(p, q) == (p = "ENTRY" /\ q # "ENTRY") \/ (p = "STOP_LOSS" /\ q = "TARGET")
OrdersOf(r)  == {<<p, r.plan>> : p \in receipts[r].refs}

Cancel(r) ==
    /\ IsActive(r)
    /\ book' = OrdersCancelled(OrdersOf(r))
    /\ submissions' = SubmissionsCancelled(submissions, OrdersOf(r))
    /\ receipts' = [receipts EXCEPT ![r].status = "CANCELLED"]
    /\ KeptBack
    /\ UNCHANGED <<stopped, maps, byOrder, safe, reused, resets>>

\* The cancellation of one order is stale and raises: the orders before it are cancelled.
CancelLate(r, late) ==
    LET before == {i \in OrdersOf(r) : Before(i[1], late)}
    IN /\ IsActive(r)
       /\ late \in receipts[r].refs /\ IsLive(<<late, r.plan>>)
       /\ book' = OrdersCancelled(before)
       /\ submissions' = SubmissionsCancelled(submissions, before)
       /\ KeptBack
       /\ UNCHANGED <<coordinatorVars, safe, reused, resets>>

PaperNext ==
    \/ Stop \/ ResetSession \/ ResetRuntime
    \/ \E r \in Requests : Execute(r) \/ Cancel(r) \/ \E p \in Purposes : CancelLate(r, p)
    \/ \E i \in OrderIds : Venue(i)
    \/ \E u \in Updates, r \in Requests : OnOrderUpdate(u, r)

PaperSpec == PaperInit /\ [][PaperNext]_vars
-----------------------------------------------------------------------------
(* Properties *)

\* A plan, a plan's content or a request id is executed once, however often and under
\* whatever other identity it is asked for (_duplicate_receipt).
NoDoubleExecution ==
    \A r, s \in Requests :
        receipts[r] # None /\ receipts[s] # None /\ r # s => r.id # s.id /\ r.plan # s.plan /\ r.print # s.print

\* When a receipt is completed or cancelled no order it refers to can still be filled,
\* whatever the coordinator heard, in whatever order.  Plans executed again after a
\* reset of the runtime are left out: updates of their former orders bear the same ids.
EndedLeavesNothingLive ==
    \A r \in Requests :
        receipts[r] # None /\ receipts[r].status \in {"COMPLETED", "CANCELLED"} /\ r.plan \notin reused
        => \A i \in OrdersOf(r) : ~IsLive(i)

\* Once an active receipt shows its entry filled, every protective order the plan asks
\* for was placed for the whole filled quantity and is routed back to this receipt.
FilledIsProtected ==
    \A r \in Requests :
        IsActive(r) /\ receipts[r].filled = r.quantity /\ r.plan \notin reused =>
            \A p \in r.protects :
                LET i == <<p, r.plan>>
                IN /\ p \in receipts[r].refs
                   /\ byOrder[i] = r
                   /\ book[i] # None
                   /\ book[i].limit = r.quantity

\* A receipt with orders keeps them, and keeps its status once it has ended, until
\* a reset or an execution of the same request while the coordinator is stopped.
ReceiptKept(r) ==
    /\ receipts'[r] # None
    /\ receipts[r].refs \subseteq receipts'[r].refs
    /\ receipts[r].status \in TerminalStatuses => receipts'[r] = receipts[r]
ReceiptsAreKept ==
    [][\A r \in Requests :
        receipts[r] # None /\ ~stopped /\ resets' = resets => ReceiptKept(r)]_vars

\* Executing a request again changes nothing of its receipt (the test of exact
\* retries).  Fails: a stopped coordinator puts a rejection in the receipt's place.
RetryKeepsReceipt ==
    [][\A r \in Requests : IsActive(r) /\ Execute(r) => receipts'[r] = receipts[r]]_vars

\* A plan's orders follow the plan's receipt: an ended one leaves nothing that can still
\* be filled, a filled entry is protected for the whole quantity, and the receipt itself is
\* kept, whatever updates the coordinator hears late, twice, out of order or never
\* (engine.py: on_order_update, cancel).
OrdersFollowReceipt ==
    /\ [](PaperTypeOK /\ EndedLeavesNothingLive /\ FilledIsProtected)
    /\ ReceiptsAreKept
===============================================================================
