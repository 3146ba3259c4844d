------------------------ MODULE JsonRpcContractProofs -----------------------
(***************************************************************************)
(* Proof that ProbeJSONRPC implements ProbeContract under the mapping of   *)
(* module JsonRpcProbeContract (reported <- i - 1), for every value of the *)
(* constants.  Each step of the prober is shown to be a contract step or a *)
(* stutter of params, gauge, outcome and i - 1, using the inductive        *)
(* invariant IInv of JsonRpcProbeProofs.                                   *)
(***************************************************************************)
EXTENDS JsonRpcProbeContract, JsonRpcProbeProofs

\* The helpers the contract takes from JsonRpcProbe are those of the
\* implementation: the mapping substitutes only for reported.
LEMMA ContractHelpers ==
  /\ Contract!N = N
  /\ Contract!ColumnsOK = ColumnsOK
  /\ Contract!Zero = Zero
  /\ Contract!Panic = Panic
  /\ Contract!ColumnLengths = ColumnLengths
  /\ \A L : Contract!QueryParams(L) = QueryParams(L)
  /\ \A k : Contract!Label(k) = Label(k)
  /\ \A p, r : Contract!Extract(p, r) = Extract(p, r)
  /\ \A k, r : Contract!Reported(k, r) = Reported(k, r)
  /\ \A l, v : Contract!SetGauge(l, v) = SetGauge(l, v)
<1>1. Contract!N = N /\ Contract!ColumnsOK = ColumnsOK
  BY DEF Contract!N, N, Contract!ColumnsOK, ColumnsOK, Contract!ColumnNames, ColumnNames
<1>2. Contract!Zero = Zero /\ Contract!Panic = Panic
  BY DEF Contract!Zero, Zero, Contract!Panic, Panic
<1>3. Contract!ColumnLengths = ColumnLengths /\ \A L : Contract!QueryParams(L) = QueryParams(L)
  BY DEF Contract!ColumnLengths, ColumnLengths, Contract!QueryParams, QueryParams,
         Contract!ColumnNames, ColumnNames
<1>a. \A s : Contract!TrimSpace(s) = TrimSpace(s)
  <2>1. \A S : Contract!Cardinality(S) = Cardinality(S)
    BY DEF Contract!Cardinality, Cardinality
  <2>. QED
    BY <2>1, Zenon DEF Contract!TrimSpace, TrimSpace
<1>4. \A k : Contract!Label(k) = Label(k)
  BY <1>a DEF Contract!Label, Label
<1>5. \A p, r : Contract!Extract(p, r) = Extract(p, r)
  BY <1>a DEF Contract!Extract, Extract, Contract!IsJMESPath, IsJMESPath,
         Contract!IdentChars, IdentChars, Contract!Search, Search, Contract!FieldName, FieldName,
         Contract!NilText, NilText, Contract!EmptyText, EmptyText
<1>6. \A k, r : Contract!Reported(k, r) = Reported(k, r)
  BY <1>2, <1>5 DEF Contract!Reported, Reported, Contract!resultToFloat64WithDecimals,
                    resultToFloat64WithDecimals, Contract!Pow10, Pow10, Contract!PlusInf, PlusInf,
                    Contract!ParseInt, ParseInt
<1>7. \A l, v : Contract!SetGauge(l, v) = SetGauge(l, v)
  BY DEF Contract!SetGauge, SetGauge
<1>. QED
  BY <1>1, <1>2, <1>3, <1>4, <1>5, <1>6, <1>7

\* A step that keeps params, the loop index and the series, and at most
\* fails or panics, is a stutter of the contract or an Abort.
LEMMA QuietStep ==
  ASSUME IInv, pc # "done", params' = params, i' = i, gauge' = gauge,
         outcome' \in {outcome, "failure", "panic"}
  PROVE  [Contract!ContractNext]_Contract!cvars
<1>1. CASE outcome' = outcome
  BY <1>1 DEF Contract!cvars
<1>2. CASE outcome' # outcome
  <2>1. outcome = "running"
    BY DEF IInv, Control
  <2>. QED
    BY <1>2, <2>1 DEF Contract!ContractNext, Contract!Abort
<1>. QED
  BY <1>1, <1>2

\* The step of Record that sets descriptor i's series is the contract's
\* Report of descriptor (i - 1) + 1.
LEMMA ReportStep ==
  ASSUME IInv, NEW r \in Answers, pc \in {"await", "walk"}, i \in 1..N,
         params' = params, outcome' = outcome, i' = i + 1, r.kind # "error",
         gauge' = SetGauge(Label(i), Reported(i, r)),
         Extract(params.resultJMESPath[i], r).ok, Reported(i, r) # Panic
  PROVE  Contract!Report
<1>1. outcome = "running" /\ ColumnsOK /\ params.module = "jsonrpc"
  BY DEF IInv, Control
<1>2. N \in Nat
  BY DEF IInv, TypeOK, QueryParamsType, N
<1>3. (i - 1) + 1 = i /\ i - 1 < N /\ i' - 1 = (i - 1) + 1
  BY <1>2
<1>. QED
  BY <1>1, <1>3, ContractHelpers DEF Contract!Report

\* Whatever Record does at the loop index is a contract step.
LEMMA RecordRefines ==
  ASSUME IInv, NEW r \in Answers, NEW next \in PCs, pc \in {"await", "walk"},
         ColumnsOK, i \in 1..N, r.kind # "error", params' = params, Record(i, r, next)
  PROVE  [Contract!ContractNext]_Contract!cvars
<1>1. \/ /\ outcome' = outcome /\ i' = i + 1
         /\ gauge' = SetGauge(Label(i), Reported(i, r))
         /\ Extract(params.resultJMESPath[i], r).ok /\ Reported(i, r) # Panic
      \/ outcome' \in {"failure", "panic"} /\ UNCHANGED <<i, gauge>>
  BY RecordStep DEF IInv
<1>2. CASE outcome' \in {"failure", "panic"} /\ UNCHANGED <<i, gauge>>
  BY <1>2, QuietStep
<1>3. CASE /\ outcome' = outcome /\ i' = i + 1
           /\ gauge' = SetGauge(Label(i), Reported(i, r))
           /\ Extract(params.resultJMESPath[i], r).ok /\ Reported(i, r) # Panic
  BY <1>3, ReportStep DEF Contract!ContractNext
<1>. QED
  BY <1>1, <1>2, <1>3

(***************************************************************************)
(* ProbeJSONRPC implements its contract: in both modes, the series are set *)
(* in descriptor order, each from an answer that extracts to a number, the *)
(* probe returns true only after the last descriptor (or at once for a     *)
(* module other than jsonrpc), and a false return or a panic leaves the    *)
(* series set so far (lines 243-387).                                      *)
(***************************************************************************)
THEOREM Refinement == Spec => ImplementsContract
<1>1. Init => Contract!ContractInit
  BY ContractHelpers DEF Init, Contract!ContractInit
<1>2. IInv /\ [Next]_vars => [Contract!ContractNext]_Contract!cvars
  <2> SUFFICES ASSUME IInv, [Next]_vars PROVE [Contract!ContractNext]_Contract!cvars
    OBVIOUS
  <2>0. N \in Nat
    BY DEF IInv, TypeOK, QueryParamsType, N
  <2>1. CASE Dial \/ CheckColumns \/ Dispatch \/ CallSend \/ BuildBatch \/ LoopDone
    <3>1. pc # "done" /\ params' = params /\ i' = i /\ gauge' = gauge
          /\ outcome' \in {outcome, "failure", "panic"}
      BY <2>1 DEF Dial, CheckColumns, Dispatch, CallSend, BuildBatch, LoopDone, Fail
    <3>. QED
      BY <3>1, QuietStep
  <2>2. ASSUME NEW r \in Answers, CallReturn(r)
        PROVE  [Contract!ContractNext]_Contract!cvars
    <3>1. pc = "await" /\ ColumnsOK /\ i \in 1..N /\ params' = params
      BY <2>0, <2>2 DEF CallReturn, IInv, Control, TypeOK
    <3>2. CASE r.kind # "error" /\ Record(i, r, "loop")
      BY <3>1, <3>2, RecordRefines DEF PCs
    <3>3. CASE ~(r.kind # "error" /\ Record(i, r, "loop"))
      <4>1. i' = i /\ gauge' = gauge /\ outcome' = "failure"
        BY <2>2, <3>3 DEF CallReturn, Fail
      <4>. QED
        BY <3>1, <4>1, QuietStep
    <3>. QED
      BY <3>2, <3>3
  <2>3. ASSUME NEW rs \in [1..N -> Answers], BatchReturn(rs)
        PROVE  [Contract!ContractNext]_Contract!cvars
    <3>1. pc # "done" /\ params' = params /\ i' = i /\ gauge' = gauge
          /\ outcome' \in {outcome, "failure", "panic"}
      BY <2>3 DEF BatchReturn, Fail
    <3>. QED
      BY <3>1, QuietStep
  <2>4. CASE WalkElem
    <3>1. pc = "walk" /\ ColumnsOK /\ i \in 1..N /\ params' = params /\ Len(results) = N
      BY <2>0, <2>4 DEF WalkElem, IInv, Control, TypeOK
    <3>2. results[i] \in Answers
      BY <3>1 DEF IInv, TypeOK
    <3>3. CASE results[i].kind # "error" /\ Record(i, results[i], "walk")
      BY <3>1, <3>2, <3>3, RecordRefines DEF PCs
    <3>4. CASE ~(results[i].kind # "error" /\ Record(i, results[i], "walk"))
      <4>1. i' = i /\ gauge' = gauge /\ outcome' = "failure"
        BY <2>4, <3>4 DEF WalkElem, Fail
      <4>. QED
        BY <3>1, <4>1, QuietStep
    <3>. QED
      BY <3>3, <3>4
  <2>5. CASE Return
    <3>1. pc = "return" /\ outcome = "running" /\ ColumnsOK
      BY <2>5 DEF Return, IInv, Control
    <3>2. params.module = "jsonrpc" => i - 1 = N
      BY <3>1 DEF IInv, Control
    <3>3. params.module # "jsonrpc" => i - 1 = 0
      BY <3>1 DEF IInv, Control
    <3>. QED
      BY <2>5, <3>1, <3>2, <3>3, ContractHelpers DEF Return, Contract!ContractNext, Contract!Finish
  <2>6. CASE Deadline \/ Returned \/ UNCHANGED vars
    BY <2>6 DEF Deadline, Returned, vars, Contract!cvars
  <2>. QED
    BY <2>1, <2>2, <2>3, <2>4, <2>5, <2>6 DEF Next
<1>. QED
  BY <1>1, <1>2, IInvHolds, PTL DEF Spec, ImplementsContract, Contract!ContractSpec

=============================================================================
