----------------------- MODULE ReconciliationReportsV1 -----------------------
(***************************************************************************)
(* engines/execution_reconciliation: the reports, and what a request id is *)
(* answered.  What a comparison reads is an Input, what it finds in it a   *)
(* status: ExecutionReconciliationV1 says which.  LOCKED is a state that   *)
(* nothing sets, and the counters are left out.                            *)
(***************************************************************************)
EXTENDS NoneValue, Naturals, FiniteSetTheorems, TLAPS

CONSTANTS
    RequestIds,   \* request_id of an ExecutionReconciliationRequest
    Contents,     \* the rest of it: its fingerprint
    Inputs,       \* what a comparison reads
    Found         \* Inputs -> the status _reconcile finds

VARIABLES
    state,        \* _state
    reports,      \* _reports
    asked,        \* _request_fingerprints
    answers,      \* _request_reports
    byInput       \* _input_reports: input fingerprint -> report

vars == <<state, reports, asked, answers, byInput>>

ReconciliationLifecycleState == {"CREATED", "READY", "ACTIVE", "FAILED", "STOPPED"}
ReconciliationStatus == {"CONSISTENT", "CONSISTENT_WITH_WARNINGS", "INCONSISTENT", "INCOMPLETE", "INVALID", "FAILED"}

ASSUME ReportsAssumption == Found \in [Inputs -> ReconciliationStatus \ {"FAILED"}]

\* ExecutionReconciliationReport, with what its id is made of: the request and the input.  The input of a
\* minimal report is its reason, with the request's content where that is a part of it.
Minimal == {"ENGINE_STOPPED", "ENGINE_LOCKED", "INVALID_REQUEST", "INTERNAL_RECONCILIATION_ERROR"}
Compared(input) == <<input, None, None>>
Unknown         == <<"RECEIPT_NOT_FOUND", None, None>>
InputOf == {Compared(input) : input \in Inputs} \cup {Unknown} \cup (Minimal \X RequestIds \X Contents)
ExecutionReconciliationReport ==
    [id : RequestIds, content : Contents, input : InputOf, status : ReconciliationStatus]

\* None is nothing but the absent value, and a receipt that was not found is not what a comparison read.
ASSUME NoReportAssumption ==
    /\ None \notin RequestIds \cup Contents \cup ExecutionReconciliationReport
    /\ "RECEIPT_NOT_FOUND" \notin Inputs

ReportsTypeOK ==
    /\ state \in ReconciliationLifecycleState
    /\ reports \subseteq ExecutionReconciliationReport
    /\ asked \in [RequestIds -> Contents \cup {None}]
    /\ answers \in [RequestIds -> reports \cup {None}]
    /\ byInput \in [InputOf -> reports \cup {None}]
-----------------------------------------------------------------------------
Report(i, c, input, status) == [id |-> i, content |-> c, input |-> input, status |-> status]
MinimalReport(i, c, reason, status) == Report(i, c, <<reason, i, c>>, status)

\* The state after a report is stored.
After(report, resulting) ==
    CASE resulting # None        -> resulting
      [] resulting = None /\ state = "FAILED" -> "FAILED"
      [] OTHER                   -> "ACTIVE"

\* A faulty form of Stored: the report is not entered under its input.
StoredAnew(report, i, c, resulting) ==
    /\ reports' = reports \cup {report}
    /\ asked' = [asked EXCEPT ![i] = IF @ = None THEN c ELSE @]
    /\ answers' = [answers EXCEPT ![i] = IF @ = None THEN report ELSE @]
    /\ state' = After(report, resulting)
    /\ UNCHANGED byInput

\* _finalize_report and _store_report, with the request's id unless it was used for something else.
Stored(report, i, c, resulting) ==
    /\ reports' = reports \cup {report}
    /\ byInput' = [byInput EXCEPT ![report.input] = IF @ = None THEN report ELSE @]
    /\ asked' = [asked EXCEPT ![i] = IF @ = None THEN c ELSE @]
    /\ answers' = [answers EXCEPT ![i] = IF @ = None THEN report ELSE @]
    /\ state' = After(report, resulting)

ReportsInit ==
    /\ state = "CREATED"
    /\ reports = {}
    /\ asked = [i \in RequestIds |-> None]
    /\ answers = [i \in RequestIds |-> None]
    /\ byInput = [input \in InputOf |-> None]

\* start: a stopped engine stays stopped.
Start == state # "STOPPED" /\ state' = "READY" /\ UNCHANGED <<reports, asked, answers, byInput>>
Stop  == state' = "STOPPED" /\ UNCHANGED <<reports, asked, answers, byInput>>

\* reset_session.
ResetSession ==
    /\ state' = "READY"
    /\ reports' = {}
    /\ asked' = [i \in RequestIds |-> None]
    /\ answers' = [i \in RequestIds |-> None]
    /\ byInput' = [input \in InputOf |-> None]

\* reconcile of an id that was used with another content: asked before the state is.
ReconcileConflict(i, c) ==
    LET report == MinimalReport(i, c, "INVALID_REQUEST", "INVALID")
    IN  /\ asked[i] \notin {None, c}
        /\ byInput[report.input] = None
        /\ Stored(report, i, c, None)

\* reconcile while stopped.
ReconcileStopped(i, c) ==
    /\ state = "STOPPED" /\ asked[i] = None
    /\ Stored(MinimalReport(i, c, "ENGINE_STOPPED", "INVALID"), i, c, "STOPPED")

\* reconcile under a policy that is not enabled.
ReconcileDisabled(i, c) ==
    /\ state # "STOPPED" /\ asked[i] = None
    /\ Stored(MinimalReport(i, c, "ENGINE_LOCKED", "INVALID"), i, c, None)

\* reconcile that reads input for the first time.
ReconcileNew(i, c, input) ==
    /\ state # "STOPPED" /\ asked[i] = None
    /\ byInput[Compared(input)] = None
    /\ Stored(Report(i, c, Compared(input), Found[input]), i, c, None)

\* reconcile that reads what a former request read: it is answered the report of that one.
ReconcileKnown(i, c, input) ==
    /\ state # "STOPPED" /\ asked[i] = None
    /\ byInput[Compared(input)] # None
    /\ asked' = [asked EXCEPT ![i] = c]
    /\ answers' = [answers EXCEPT ![i] = byInput[Compared(input)]]
    /\ state' = IF state = "CREATED" THEN "READY" ELSE state
    /\ UNCHANGED <<reports, byInput>>

\* reconcile in which something raises.
ReconcileRaises(i, c) ==
    /\ state # "STOPPED" /\ asked[i] = None
    /\ Stored(MinimalReport(i, c, "INTERNAL_RECONCILIATION_ERROR", "FAILED"), i, c, "FAILED")

\* reconcile_receipt of a receipt the coordinator does not have: the state is not asked, nor whether
\* another request found the same.
ReconcileUnknown(i, c) ==
    /\ asked[i] = None
    /\ Stored(Report(i, c, Unknown, "INCOMPLETE"), i, c, None)

ReportsNext ==
    \/ Start \/ Stop \/ ResetSession
    \/ \E i \in RequestIds, c \in Contents :
          \/ ReconcileConflict(i, c) \/ ReconcileStopped(i, c) \/ ReconcileDisabled(i, c) \/ ReconcileRaises(i, c)
          \/ ReconcileUnknown(i, c)
          \/ \E input \in Inputs : ReconcileNew(i, c, input) \/ ReconcileKnown(i, c, input)

ReportsSpec == ReportsInit /\ [][ReportsNext]_vars
-----------------------------------------------------------------------------
(* Properties *)

\* However requests are repeated, reused or share what they compare, and whatever state the engine was in: a
\* request id is answered a stored report, no two reports compare the same things, and a
\* report of a comparison is what is found for it again.
OneReportPerComparison ==
    /\ ReportsTypeOK
    /\ \A i \in RequestIds : asked[i] # None <=> answers[i] # None
    /\ \A input \in Inputs :
          LET same == {r \in reports : r.input = Compared(input)}
          IN  Cardinality(same) <= 1 /\ \A r \in same : byInput[r.input] = r

\* A stopped engine reconciles nothing until it is reset (test_start_stop_reset_and_stopped_reconciliation_
\* zero_boundary_reads expects it to be STOPPED after a report).  Fails: a request id used again with
\* another content, or a receipt that is not found, makes it ACTIVE.
StaysStopped == [][state = "STOPPED" /\ state' # "STOPPED" => reports' = {}]_vars
-----------------------------------------------------------------------------
(* Proofs *)

\* The inductive invariant: _input_reports holds every report of a comparison, so that a second one of the
\* same input is never made.
ReportsIInv ==
    /\ ReportsTypeOK
    /\ \A i \in RequestIds : asked[i] # None <=> answers[i] # None
    /\ \A r \in reports : \A input \in Inputs : r.input = Compared(input) => byInput[r.input] = r

\* A comparison is kept apart from the minimal reports and from a receipt that is not found.
LEMMA ComparisonsStandApart ==
    ASSUME NEW input \in Inputs
    PROVE  /\ Compared(input) \in InputOf
           /\ Compared(input) # Unknown
           /\ \A reason \in Minimal, i \in RequestIds, c \in Contents : Compared(input) # <<reason, i, c>>
           /\ \A other \in Inputs : Compared(other) = Compared(input) => other = input
BY NoReportAssumption DEF Compared, Unknown, InputOf

\* What _store_report leaves behind, given a report that is not of a comparison made before.
LEMMA StoringKeepsReports ==
    ASSUME ReportsIInv,
           NEW i \in RequestIds, NEW c \in Contents, NEW report \in ExecutionReconciliationReport,
           NEW resulting \in {"STOPPED", "FAILED", None},
           Stored(report, i, c, resulting),
           \A input \in Inputs : report.input = Compared(input) => byInput[report.input] = None
    PROVE  ReportsIInv'
<1>1. report.input \in InputOf /\ report # None
  BY NoReportAssumption DEF ExecutionReconciliationReport
<1>2. ReportsTypeOK'
  <2>1. state' \in ReconciliationLifecycleState
    BY DEF Stored, After, ReportsIInv, ReportsTypeOK, ReconciliationLifecycleState
  <2>2. reports' = reports \cup {report}
    BY DEF Stored
  <2>3. /\ asked' \in [RequestIds -> Contents \cup {None}]
        /\ answers' \in [RequestIds -> reports' \cup {None}]
        /\ byInput' \in [InputOf -> reports' \cup {None}]
    BY <1>1, <2>2 DEF Stored, ReportsIInv, ReportsTypeOK
  <2> QED BY <2>1, <2>2, <2>3 DEF ReportsIInv, ReportsTypeOK
<1>3. \A j \in RequestIds : asked'[j] # None <=> answers'[j] # None
  BY <1>1, NoReportAssumption DEF Stored, ReportsIInv, ReportsTypeOK
<1>4. ASSUME NEW r \in reports', NEW input \in Inputs, r.input = Compared(input)
      PROVE  byInput'[r.input] = r
  <2>1. CASE r = report
    BY <2>1, <1>1, <1>4 DEF Stored, ReportsIInv, ReportsTypeOK
  <2>2. CASE r # report
    <3>1. r \in reports /\ r # None /\ byInput[r.input] = r /\ r.input \in InputOf
      BY <2>2, <1>4, NoReportAssumption, ComparisonsStandApart DEF Stored, ReportsIInv, ReportsTypeOK
    <3> QED BY <3>1, <1>1 DEF Stored, ReportsIInv, ReportsTypeOK
  <2> QED BY <2>1, <2>2
<1> QED BY <1>2, <1>3, <1>4 DEF ReportsIInv

\* Reports that are not of a comparison are stored under inputs of their own.
LEMMA OtherReportsKeepInvariant ==
    ASSUME ReportsIInv, NEW i \in RequestIds, NEW c \in Contents,
           NEW input \in {Unknown} \cup (Minimal \X RequestIds \X Contents), NEW status \in ReconciliationStatus,
           NEW resulting \in {"STOPPED", "FAILED", None},
           Stored(Report(i, c, input, status), i, c, resulting)
    PROVE  ReportsIInv'
<1> DEFINE report == Report(i, c, input, status)
<1>1. report \in ExecutionReconciliationReport /\ report.input = input
  BY DEF Report, ExecutionReconciliationReport, InputOf
<1>2. \A other \in Inputs : report.input # Compared(other)
  BY <1>1, ComparisonsStandApart
<1> QED BY <1>1, <1>2, StoringKeepsReports

\* Whatever requests are repeated, reused or share, for every set of requests, contents and inputs: an id
\* is answered a stored report and an input has one report (OneReportPerComparison).
THEOREM ReportsStayUnique == ReportsSpec => []OneReportPerComparison
<1>1. ReportsInit => ReportsIInv
  BY DEF ReportsInit, ReportsIInv, ReportsTypeOK, ReconciliationLifecycleState
<1>2. ReportsIInv /\ [ReportsNext]_vars => ReportsIInv'
  <2> SUFFICES ASSUME ReportsIInv, [ReportsNext]_vars PROVE ReportsIInv'
    OBVIOUS
  <2>1. CASE Start \/ Stop
    BY <2>1 DEF Start, Stop, ReportsIInv, ReportsTypeOK, ReconciliationLifecycleState
  <2>2. CASE ResetSession
    BY <2>2 DEF ResetSession, ReportsIInv, ReportsTypeOK, ReconciliationLifecycleState
  <2>3. ASSUME NEW i \in RequestIds, NEW c \in Contents,
               ReconcileConflict(i, c) \/ ReconcileStopped(i, c) \/ ReconcileDisabled(i, c)
                 \/ ReconcileRaises(i, c) \/ ReconcileUnknown(i, c)
        PROVE  ReportsIInv'
    BY <2>3, OtherReportsKeepInvariant
       DEF ReconcileConflict, ReconcileStopped, ReconcileDisabled, ReconcileRaises, ReconcileUnknown,
           MinimalReport, Minimal, ReconciliationStatus
  <2>4. ASSUME NEW i \in RequestIds, NEW c \in Contents, NEW input \in Inputs, ReconcileNew(i, c, input)
        PROVE  ReportsIInv'
    <3> DEFINE report == Report(i, c, Compared(input), Found[input])
    <3>1. report \in ExecutionReconciliationReport /\ report.input = Compared(input)
      BY ComparisonsStandApart, ReportsAssumption DEF Report, ExecutionReconciliationReport, ReconciliationStatus
    <3> QED BY <3>1, <2>4, StoringKeepsReports DEF ReconcileNew
  <2>5. ASSUME NEW i \in RequestIds, NEW c \in Contents, NEW input \in Inputs, ReconcileKnown(i, c, input)
        PROVE  ReportsIInv'
    <3>1. byInput[Compared(input)] \in reports /\ c # None
      BY <2>5, ComparisonsStandApart, NoReportAssumption DEF ReconcileKnown, ReportsIInv, ReportsTypeOK
    <3> QED
      BY <2>5, <3>1 DEF ReconcileKnown, ReportsIInv, ReportsTypeOK, ReconciliationLifecycleState
  <2>6. CASE UNCHANGED vars
    BY <2>6 DEF vars, ReportsIInv, ReportsTypeOK
  <2> QED BY <2>1, <2>2, <2>3, <2>4, <2>5, <2>6 DEF ReportsNext
<1>3. ReportsIInv => OneReportPerComparison
  <2> SUFFICES ASSUME ReportsIInv, NEW input \in Inputs
               PROVE  LET same == {r \in reports : r.input = Compared(input)}
                      IN  Cardinality(same) <= 1 /\ \A r \in same : byInput[r.input] = r
    BY DEF ReportsIInv, OneReportPerComparison
  <2> DEFINE same == {r \in reports : r.input = Compared(input)}
  <2>1. \A r \in same : byInput[r.input] = r
    BY DEF ReportsIInv
  <2>2. same = {} \/ \E r : same = {r}
    <3>1. ASSUME NEW r \in same, NEW other \in same PROVE r = other
      BY <2>1
    <3> HIDE DEF same
    <3> QED BY <3>1
  <2>3. Cardinality(same) \in {0, 1}
    <3> HIDE DEF same
    <3>1. CASE same = {}
      BY <3>1, FS_EmptySet
    <3>2. CASE \E r : same = {r}
      BY <3>2, FS_Singleton
    <3> QED BY <2>2, <3>1, <3>2
  <2> QED BY <2>1, <2>3
<1> QED BY <1>1, <1>2, <1>3, PTL DEF ReportsSpec
=============================================================================
