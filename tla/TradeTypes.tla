------------------------------ MODULE TradeTypes ------------------------------
(***************************************************************************)
(* The immutable values that flow along the certified dry-run chain        *)
(* StrategyDecisionV2 -> RiskManagementV2 -> ExecutionRuntimeV1 ->         *)
(* PositionManagementV1 -> TradeLifecycleV1.                               *)
(*                                                                         *)
(* Prices and quantities are integers.  An average price is never stored:  *)
(* the models keep the notional (price times quantity, summed), so the     *)
(* code's floating-point averages become exact comparisons of products.    *)
(***************************************************************************)
EXTENDS NoneValue, Integers

CONSTANTS
    RiskSnapshots   \* the risk snapshots the program meets

StrategyActions    == {"WAIT", "CONSIDER_LONG", "CONSIDER_SHORT",
                       "NO_TRADE", "INSUFFICIENT_DATA"}
StrategyDirections == {"LONG", "SHORT", "NEUTRAL", "NONE"}
RiskDecisions      == {"APPROVED", "APPROVED_REDUCED", "WAIT",
                       "REJECTED", "INSUFFICIENT_DATA"}
Approved           == {"APPROVED", "APPROVED_REDUCED"}

Price    == Nat \ {0}
Quantity == Nat

\* RiskManagementV2Snapshot together with the fields of its StrategyDecisionV2Snapshot.
RiskSnapshot ==
    [stamp        : Nat,
     action       : StrategyActions,
     direction    : StrategyDirections,
     ready        : BOOLEAN,      \* strategy.eligible, which implies the risk handoff
     decision     : RiskDecisions,
     eligible     : BOOLEAN,      \* execution_eligible
     quantity     : Quantity,     \* approved_quantity
     entry        : Price,
     invalidation : Price,
     objective    : Price \cup {None}]

\* What StrategyDecisionV2Snapshot.__post_init__ demands.
StrategyWellFormed(r) ==
    r.ready => /\ r.action \in {"CONSIDER_LONG", "CONSIDER_SHORT"}
               /\ r.direction \in {"LONG", "SHORT"}

\* What RiskManagementV2Snapshot.__post_init__ demands.
RiskWellFormed(r) ==
    /\ r.eligible => r.decision \in Approved
    /\ (r.decision \in Approved) <=> (r.quantity > 0)

\* What RiskManagementV2Input.__post_init__ demands of the proposed prices.
PricesWellFormed(r) ==
    /\ r.direction = "LONG" =>
         /\ r.invalidation < r.entry
         /\ r.objective # None => r.objective > r.entry
    /\ r.direction = "SHORT" =>
         /\ r.invalidation > r.entry
         /\ r.objective # None => r.objective < r.entry

\* The program only ever builds risk snapshots its constructors accept.
ASSUME RiskSnapshotsAssumption ==
    /\ \A r \in RiskSnapshots :
         /\ r \in RiskSnapshot
         /\ StrategyWellFormed(r)
         /\ RiskWellFormed(r)
         /\ PricesWellFormed(r)

\* BUY for a LONG strategy, SELL for a SHORT one.
SideFromRisk(r) ==
    CASE r.direction = "LONG"  -> "BUY"
      [] r.direction = "SHORT" -> "SELL"
      [] OTHER                 -> "NONE"

\* ExecutionIntent: what it adds to its risk snapshot is where it stands.  CREATED,
\* VALIDATED and SUBMITTED_DRY_RUN only appear in the lifecycle log.
IntentStatuses == {"ACKNOWLEDGED", "PARTIALLY_FILLED", "FILLED", "CANCELLED"}
Decisions      == {"ACCEPTED", "REJECTED", "WAIT", "INSUFFICIENT_DATA"}

Intent == [risk : RiskSnapshots, status : IntentStatuses]

\* ExecutionResult.  "notional" is average_fill_price * filled_quantity.  The
\* creation time of the intent is left out: between two clears a snapshot is
\* executed once, so two different executions never have equal results.
Result == [decision  : Decisions,
           intent    : Intent \cup {None},
           accepted  : Quantity,
           filled    : Quantity,
           remaining : Quantity,
           notional  : Nat]

\* None is no price and no record.
ASSUME NoneAssumption ==
    /\ None \notin Price
    /\ None \notin RiskSnapshots
    /\ None \notin Intent
    /\ None \notin Result
===============================================================================
