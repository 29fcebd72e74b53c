------------------------------- MODULE OrderBook -------------------------------
(***************************************************************************)
(* What the order engine promises, without its commands, times, broker     *)
(* ids and versions: every order is placed once with the quantity risk     *)
(* approved and then moves forward through its statuses, its filled        *)
(* quantity growing within its quantity, its quantity within the approval. *)
(***************************************************************************)
EXTENDS Integers

CONSTANTS
    None,        \* no order
    OrderIds,    \* client order ids
    Quantities   \* quantities risk approves

VARIABLE book   \* client order id -> what is known of the order, or None

BookStatuses == {"PENDING_SUBMISSION", "SUBMITTED", "PARTIALLY_FILLED",
                 "FILLED", "CANCELLED", "REJECTED"}
Live == {"PENDING_SUBMISSION", "SUBMITTED", "PARTIALLY_FILLED"}

BookEntry == [status : BookStatuses, limit : Nat, quantity : Nat, filled : Nat]

Placed(q) == [status |-> "PENDING_SUBMISSION", limit |-> q, quantity |-> q, filled |-> 0]

\* What one command makes of an order.
Filling(b, n) ==
    [b EXCEPT !.filled = @ + n,
              !.status = IF b.filled + n < b.quantity THEN "PARTIALLY_FILLED" ELSE "FILLED"]
FilledBy(b) == {Filling(b, n) : n \in 1 .. (b.quantity - b.filled)}
Resized(b) == {[b EXCEPT !.quantity = q] : q \in {p \in 1 .. b.limit : p >= b.filled}}
Moved(b, status) == {[b EXCEPT !.status = status]}

Successors(b) ==
    CASE b.status = "PENDING_SUBMISSION" ->
           Moved(b, "SUBMITTED") \cup Moved(b, "CANCELLED") \cup Moved(b, "REJECTED") \cup Resized(b)
      [] b.status = "SUBMITTED" ->
           Moved(b, "CANCELLED") \cup Moved(b, "REJECTED") \cup Resized(b) \cup FilledBy(b)
      [] b.status = "PARTIALLY_FILLED" -> Moved(b, "CANCELLED") \cup Resized(b) \cup FilledBy(b)
      [] OTHER -> {}

BookInit == book = [i \in OrderIds |-> None]

Place(i, q) ==
    /\ book[i] = None
    /\ book' = [book EXCEPT ![i] = Placed(q)]

Change(i) ==
    /\ book[i] # None
    /\ \E b \in Successors(book[i]) : book' = [book EXCEPT ![i] = b]

Emptied == book' = [i \in OrderIds |-> None]

BookNext ==
    \/ \E i \in OrderIds : (\E q \in Quantities : Place(i, q)) \/ Change(i)
    \/ Emptied

BookSpec == BookInit /\ [][BookNext]_book
===============================================================================
