---------------------- MODULE ExecutionReconciliationV1 ----------------------
(***************************************************************************)
(* engines/execution_reconciliation: a read-only comparison of a receipt   *)
(* of the paper execution coordinator with its plan, the order engine, the *)
(* managed submissions and the position.                                   *)
(*                                                                         *)
(* The comparison is an operator over the states of PaperExecutionV1, in   *)
(* which orders, references and submissions of a plan agree on everything  *)
(* but quantities, fills and statuses: nothing modifies prices here, and   *)
(* ids, sides and types are the plan's.  A reference has the quantity of   *)
(* the request: _sync_managed_update refuses another.                      *)
(***************************************************************************)
EXTENDS PaperExecutionV1

\* PositionState, as far as it is compared.
Position == [elsewhere : BOOLEAN, open : BOOLEAN, opposed : BOOLEAN, quantity : Nat]
ASSUME NoPositionAssumption == None \notin Position

\* ExecutionReconciliationPolicy: what it may require.
Requirements  == {"ENTRY", "SUBMISSIONS", "STOP_LOSS", "TARGET", "POSITION", "OPPOSITE"}
EndedSubmissions == {"FILLED", "CANCELLED", "REJECTED"}

Reason(when, reason) == IF when THEN {reason} ELSE {}

NotFound(p) ==
    CASE p = "ENTRY"     -> "ENTRY_ORDER_NOT_FOUND"
      [] p = "STOP_LOSS" -> "STOP_ORDER_NOT_FOUND"
      [] p = "TARGET"    -> "TARGET_ORDER_NOT_FOUND"

\* A faulty form of SubmissionReasons: a submission that has ended is not compared any more.
SubmissionReasonsOpen(i) ==
    LET s == submissions[i]
    IN  IF s = None THEN {"MANAGED_SUBMISSION_NOT_FOUND"}
        ELSE Reason(s.status \notin EndedSubmissions /\ s.status # SubmissionStatus(book[i].status), "MANAGED_STATUS_MISMATCH")

\* _check_submission of an order that was found.
SubmissionReasons(i) ==
    LET s == submissions[i]
        expected == SubmissionStatus(book[i].status)
    IN  IF s = None THEN {"MANAGED_SUBMISSION_NOT_FOUND"}
        ELSE Reason(s.quantity # book[i].quantity, "ORDER_QUANTITY_MISMATCH")
             \cup Reason(s.filled # book[i].filled, "FILLED_QUANTITY_MISMATCH")
             \cup Reason(s.status # expected,
                         IF s.status \in EndedSubmissions /\ expected \notin EndedSubmissions
                         THEN "TERMINAL_STATE_REGRESSION" ELSE "MANAGED_STATUS_MISMATCH")

\* _check_order of an order the receipt refers to; one it does not refer to is not looked at.
OrderReasons(r, p, required) ==
    LET i == <<p, r.plan>>
    IN  IF p \notin receipts[r].refs THEN Reason(p = "ENTRY" /\ "ENTRY" \in required, "ENTRY_ORDER_NOT_FOUND")
        ELSE IF book[i] = None THEN {NotFound(p)}
        ELSE Reason(book[i].quantity # r.quantity,
                    IF p = "ENTRY" THEN "ORDER_QUANTITY_MISMATCH" ELSE "PROTECTIVE_QUANTITY_MISMATCH")
             \cup Reason(book[i].filled > book[i].quantity, "INVALID_ORDER_STATE")
             \cup (IF "SUBMISSIONS" \in required THEN SubmissionReasons(i) ELSE {})

\* The order engine's state of an order the receipt refers to.
Read(r, p) == IF p \in receipts[r].refs THEN book[<<p, r.plan>>] ELSE None
EntryFull(r) ==
    LET entry == Read(r, "ENTRY") IN entry # None /\ entry.status = "FILLED" /\ entry.filled = entry.quantity

\* _check_protection_lifecycle.
ProtectionReasons(r, required) ==
    LET entry   == Read(r, "ENTRY")
        early   == entry = None \/ entry.filled < entry.quantity
        missing == {p \in r.protects \cap required : Read(r, p) = None}
        wanted  == EntryFull(r) /\ receipts[r].status \notin {"FAILED", "CANCELLED", "REJECTED"}
    IN  Reason(early /\ \E p \in {"STOP_LOSS", "TARGET"} : Read(r, p) # None, "PROTECTION_CREATED_BEFORE_ENTRY_FILL")
        \cup Reason(wanted /\ "STOP_LOSS" \in missing, "MISSING_STOP_PROTECTION")
        \cup Reason(wanted /\ "TARGET" \in missing, "MISSING_TARGET_PROTECTION")

LiveRead(r, p) == Read(r, p) # None /\ Read(r, p).status \in Live

\* _check_receipt_status, with _check_opposite_cancelled.
StatusReasons(r, position, required) ==
    LET status == receipts[r].status
        Beside(p) == Read(r, p) # None /\ Read(r, p).status = "FILLED" /\ LiveRead(r, Opposite(p))
    IN  Reason(status = "CANCELLED" /\ \E p \in Purposes : LiveRead(r, p), "CANCELLED_RECEIPT_HAS_ACTIVE_ORDER")
        \cup Reason(status = "COMPLETED" /\ position # None /\ position.open /\ position.quantity > 0,
                    "COMPLETED_RECEIPT_HAS_OPEN_POSITION")
        \cup Reason(status = "COMPLETED" /\ "OPPOSITE" \in required /\ \E p \in {"STOP_LOSS", "TARGET"} : Beside(p),
                    "OPPOSITE_PROTECTION_NOT_CANCELLED")
        \cup Reason(status \in ActiveStatuses /\ position # None /\ ~position.open, "ACTIVE_RECEIPT_HAS_CLOSED_POSITION")

\* _check_position.
PositionReasons(r, position, required) ==
    LET full == EntryFull(r)
    IN  IF position = None
        THEN Reason(full /\ "POSITION" \in required /\ receipts[r].status \notin TerminalStatuses,
                    "FILLED_ENTRY_WITHOUT_POSITION")
        ELSE Reason(position.elsewhere, "POSITION_INSTRUMENT_MISMATCH")
             \cup Reason(full /\ position.open /\ position.opposed, "INVALID_POSITION_STATE")
             \cup Reason(full /\ position.open /\ position.quantity # Read(r, "ENTRY").filled, "POSITION_QUANTITY_MISMATCH")

\* _check_orphans: orders and submissions of the plan that the receipt does not refer to.
OrphanReasons(r) ==
    LET unknown == {<<p, r.plan>> : p \in Purposes \ receipts[r].refs}
    IN  Reason(\E i \in unknown : book[i] # None, "ORPHANED_ORDER")
        \cup Reason(\E i \in unknown : submissions[i] # None, "ORPHANED_MANAGED_SUBMISSION")

\* _reconcile of the coordinator's receipt of r with its own plan: the reasons of the findings.
Reasons(r, position, required) ==
    Reason(receipts[r].filled > r.quantity, "FILLED_QUANTITY_MISMATCH")
    \cup (UNION {OrderReasons(r, p, required) : p \in Purposes})
    \cup ProtectionReasons(r, required)
    \cup StatusReasons(r, position, required)
    \cup PositionReasons(r, position, required)
    \cup OrphanReasons(r)

IncompleteReasons ==
    {"RECEIPT_NOT_FOUND", "ORDER_NOT_FOUND", "ENTRY_ORDER_NOT_FOUND", "STOP_ORDER_NOT_FOUND", "TARGET_ORDER_NOT_FOUND",
     "MANAGED_SUBMISSION_NOT_FOUND", "POSITION_NOT_FOUND", "MISSING_STOP_PROTECTION", "MISSING_TARGET_PROTECTION",
     "FILLED_ENTRY_WITHOUT_POSITION"}

\* _status_for: every finding but a minimal report's is an error.
ReportStatus(reasons) ==
    CASE reasons = {} -> "CONSISTENT"
      [] reasons # {} /\ reasons \subseteq IncompleteReasons -> "INCOMPLETE"
      [] OTHER -> "INCONSISTENT"
-----------------------------------------------------------------------------
(* Properties *)

\* The position a correct position engine shows for the receipt.
Shown(r) ==
    LET entry == Read(r, "ENTRY")
    IN  IF entry # None /\ entry.filled > 0 /\ receipts[r].status # "COMPLETED"
        THEN [elsewhere |-> FALSE, open |-> TRUE, opposed |-> FALSE, quantity |-> entry.filled]
        ELSE None

\* A reconciliation tells the truth in every state the coordinator gets into, whatever it heard of its orders
\* and when.  A report that says CONSISTENT can be trusted: the submissions mirror the orders, a filled
\* entry of an active receipt has every protective order its plan asks for, for the whole quantity,
\* and an ended receipt has none that can still be filled.  And there is no false alarm: while
\* nobody modified an order and each submission was told of its order's last state, the
\* report of an active receipt is CONSISTENT.
ReportsTellTheTruth ==
    \A r \in {q \in Requests : receipts[q] # None} :
        LET reasons  == Reasons(r, Shown(r), Requirements)
            Mirrored(i) == /\ submissions[i].status = SubmissionStatus(book[i].status)
                           /\ submissions[i].filled = book[i].filled
        IN  /\ ReportStatus(reasons) = "CONSISTENT" =>
                  /\ \A i \in OrdersOf(r) : Mirrored(i)
                  /\ IsActive(r) /\ EntryFull(r) =>
                        \A p \in r.protects : p \in receipts[r].refs /\ book[<<p, r.plan>>].quantity = r.quantity
                  /\ receipts[r].status \in {"CANCELLED", "COMPLETED"} => \A i \in OrdersOf(r) : ~IsLive(i)
            /\ /\ IsActive(r) /\ r.plan \notin reused
               /\ \A i \in OrdersOf(r) : book[i] # None /\ book[i].quantity = r.quantity /\ Mirrored(i)
               => ReportStatus(reasons) = "CONSISTENT"
=============================================================================
