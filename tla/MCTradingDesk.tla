----------------------------- MODULE MCTradingDesk -----------------------------
(***************************************************************************)
(* Small instances of the two components that stand between the desk and   *)
(* what it trades: the integration over the trade lifecycle coordinators   *)
(* of two instruments, and the paper execution coordinator with what       *)
(* execution reconciliation says of it.  A behaviour is about one of them; *)
(* the other rests.                                                        *)
(***************************************************************************)
EXTENDS TradeRuntimeV1, ExecutionReconciliationV1

VARIABLE driven   \* the component the behaviour is about

-------------------------------------------------------------------------------
\* Two instruments, one of which trades.
MCInstrumentOrder == <<"NIFTY", "BANKNIFTY">>
MCTradesOf == [BANKNIFTY |-> {"B1", "B2"}, NIFTY |-> {}]

\* One unit with a stop and a target; its plan id with other content and no protection;
\* that content under another plan id and the first request's id; and two units of the
\* first plan, with a stop alone.
Bracketed == [id |-> "q1", plan |-> "p1", print |-> "f1", quantity |-> 1,
              protects |-> {"STOP_LOSS", "TARGET"}]
Changed   == [Bracketed EXCEPT !.id = "q2", !.print = "f2", !.protects = {}]
Renamed   == [Changed EXCEPT !.id = "q1", !.plan = "p2"]
Larger    == [Bracketed EXCEPT !.id = "q3", !.print = "f3", !.quantity = 2,
                              !.protects = {"STOP_LOSS"}]
MCRequests == {Bracketed, Changed, Renamed, Larger}

\* Identities are told apart with orders of one unit, partial fills with a single plan.
InPlay == IF driven = "parts" THEN {Larger} ELSE {Bracketed, Changed, Renamed}

DeskInit ==
    /\ driven \in {"runtime", "identities", "parts"}
    /\ RuntimeInit
    /\ PaperInit
    /\ driven # "runtime" => appStatus = "CREATED" /\ fillAtOnce = "NONE"
    /\ driven = "runtime" => safe

DeskNext ==
    \/ driven = "runtime" /\ RuntimeNext /\ UNCHANGED <<driven, vars>>
    \/ /\ driven # "runtime" /\ PaperNext /\ UNCHANGED <<driven, runtimeVars>>
       /\ \A r \in Requests \ InPlay : receipts'[r] = None

DeskSpec == DeskInit /\ [][DeskNext]_<<driven, runtimeVars, vars>>
===============================================================================
