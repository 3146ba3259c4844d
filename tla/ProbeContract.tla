--------------------------- MODULE ProbeContract ----------------------------
(***************************************************************************)
(* What one ProbeJSONRPC invocation promises its caller, seen through the  *)
(* state the caller can observe: the query parameters, the probe_jsonrpc   *)
(* series in the registry and the returned outcome.  The series are set    *)
(* one descriptor at a time, in descriptor order, each from some answer of *)
(* the endpoint that extracts and normalises to a number; the probe        *)
(* returns true only after the last descriptor was set (or, for another    *)
(* module value, before any); it may return false or panic at any point,   *)
(* leaving the series set so far.  The loop index, the results, the round  *)
(* trips and the two execution modes are the implementation's.             *)
(***************************************************************************)
EXTENDS JsonRpcProbe

VARIABLE
  reported    \* how many descriptors have had their series set

cvars == <<params, gauge, outcome, reported>>

ContractInit ==
  /\ params \in UNION {QueryParams(L) : L \in ColumnLengths}
  /\ gauge = [x \in {} |-> Zero]
  /\ outcome = "running"
  /\ reported = 0

\* The next descriptor's series is set from an answer that is not an error,
\* whose extraction succeeds and whose value is a number.
Report ==
  /\ outcome = "running"
  /\ ColumnsOK
  /\ params.module = "jsonrpc"
  /\ reported < N
  /\ \E r \in Answers :
       /\ r.kind # "error"
       /\ Extract(params.resultJMESPath[reported + 1], r).ok
       /\ Reported(reported + 1, r) # Panic
       /\ gauge' = SetGauge(Label(reported + 1), Reported(reported + 1, r))
  /\ reported' = reported + 1
  /\ params' = params
  /\ outcome' = outcome

\* The probe returns true once every descriptor is reported, or at once for
\* a module value other than "jsonrpc".
Finish ==
  /\ outcome = "running"
  /\ ColumnsOK
  /\ params.module = "jsonrpc" => reported = N
  /\ params.module # "jsonrpc" => reported = 0
  /\ outcome' = "success"
  /\ params' = params
  /\ gauge' = gauge
  /\ reported' = reported

\* The probe returns false, or panics, keeping the series set so far.
Abort ==
  /\ outcome = "running"
  /\ outcome' \in {"failure", "panic"}
  /\ params' = params
  /\ gauge' = gauge
  /\ reported' = reported

ContractNext == Report \/ Finish \/ Abort

ContractSpec == ContractInit /\ [][ContractNext]_cvars

=============================================================================
