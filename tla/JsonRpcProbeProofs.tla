------------------------- MODULE JsonRpcProbeProofs -------------------------
(***************************************************************************)
(* Proofs about JsonRpcProbe, for every value of the constants that        *)
(* satisfies MaxCallsAssumption and DataAssumption: type correctness; a    *)
(* probe whose query-parameter columns are missing or misaligned neither   *)
(* contacts the endpoint nor reports success; the series always match the *)
(* descriptors handled so far; and a successful jsonrpc probe reported    *)
(* every descriptor.                                                       *)
(***************************************************************************)
EXTENDS JsonRpcProbe, TLAPS

(***************************************************************************)
(* The inductive invariant.  TypeOK alone is not inductive: Record reads   *)
(* the arg, tag, decimal and resultJMESPath columns at the loop index, so  *)
(* a step preserves the types only if those columns are as long as the    *)
(* method column, which CheckColumns established before any loop state.   *)
(* The control facts tie the program counter to what has happened.        *)
(***************************************************************************)
Control ==
  /\ (outcome = "running") <=> (pc # "done")
  /\ pc \in {"dial", "columns"} => trips = 0
  /\ pc \notin {"dial", "columns", "done"} => ColumnsOK
  /\ (pc = "done" /\ ~ColumnsOK) => (trips = 0 /\ outcome = "failure")
  /\ pc = "await" => i <= N
  /\ pc = "walk" => Len(results) = N
  /\ i - 1 <= Len(results)
  /\ pc \in {"dial", "columns", "dispatch", "build", "batch"} => i = 1 /\ results = <<>>
  /\ pc \in {"loop", "await"} => Len(results) = i - 1
  /\ pc \in {"loop", "await", "build", "batch", "walk"} => params.module = "jsonrpc"
  /\ (pc = "return" \/ outcome = "success") /\ params.module = "jsonrpc"
       => i = N + 1 /\ Len(results) = N
  /\ pc = "return" /\ params.module # "jsonrpc" => i = 1

IInv == TypeOK /\ Control /\ SeriesMatchCompletedCalls

-----------------------------------------------------------------------------
(* Lemmas about the data helpers.                                          *)

\* A function on 1..n is a sequence of length n.
LEMMA FunIsSeq ==
  ASSUME NEW S, NEW n \in Nat, NEW f \in [1..n -> S]
  PROVE  f \in Seq(S) /\ Len(f) = n
OBVIOUS

\* Every query-parameter set a scrape can carry is well typed.
LEMMA QueryParamsTyped ==
  ASSUME NEW L \in ColumnLengths
  PROVE  QueryParams(L) \subseteq QueryParamsType
<1>1. \A c \in ColumnNames : L[c] \in Nat
  BY MaxCallsAssumption DEF ColumnLengths
<1>. QED
  BY <1>1, FunIsSeq DEF QueryParams, QueryParamsType, ColumnNames

\* The extractor always yields a text of the shape the normaliser reads.
LEMMA ExtractTyped ==
  ASSUME NEW p, NEW a \in AnswerShape
  PROVE  /\ Extract(p, a).text \in TextShape
         /\ Extract(p, a).ok \in BOOLEAN
         /\ Extract(p, a).reason \in Reasons
BY DEF Extract, Search, NilText, EmptyText, AnswerShape, TextShape, Reasons

\* The normaliser yields a gauge value or the panic of big.Float.Quo.
LEMMA NormaliserTyped ==
  ASSUME NEW t \in TextShape, NEW d \in Int
  PROVE  resultToFloat64WithDecimals(t, d) \in Values \cup {Panic}
BY DEF resultToFloat64WithDecimals, Pow10, Values, Zero, PlusInf, Panic, TextShape

\* The value reported for an aligned descriptor is a gauge value or Panic.
LEMMA ReportedTyped ==
  ASSUME TypeOK, ColumnsOK, NEW k \in 1..N, NEW r \in Answers
  PROVE  Reported(k, r) \in Values \cup {Panic}
<1>1. params.resultJMESPath[k] \in Paths /\ params.decimal[k] \in Decimals
  BY DEF TypeOK, QueryParamsType, ColumnsOK, ColumnNames, N
<1>2. ParseInt(params.decimal[k]) \in Int
  BY <1>1, DataAssumption DEF ParseInt
<1>3. Extract(params.resultJMESPath[k], r).text \in TextShape
  BY ExtractTyped, DataAssumption
<1>. QED
  BY <1>2, <1>3, NormaliserTyped DEF Reported

\* The labels of an aligned descriptor are among the possible labels.
LEMMA LabelTyped ==
  ASSUME TypeOK, ColumnsOK, NEW k \in 1..N
  PROVE  Label(k) \in Labels
<1>1. /\ params.method[k] \in Methods
      /\ params.arg[k] \in ArgTexts
      /\ params.tag[k] \in Tags
  BY DEF TypeOK, QueryParamsType, ColumnsOK, ColumnNames, N
<1>. QED
  BY <1>1 DEF Label, Labels

\* Record, run at the loop index of aligned columns, keeps the gauge well
\* typed and either moves on to the next descriptor or ends the probe.
LEMMA RecordStep ==
  ASSUME TypeOK, ColumnsOK, i \in 1..N, NEW r \in Answers, NEW next \in PCs,
         params' = params, Record(i, r, next)
  PROVE  /\ DOMAIN gauge' \subseteq Labels
         /\ gauge' \in [DOMAIN gauge' -> Values]
         /\ i' \in 1..(N + 1)
         /\ reason' \in Reasons
         /\ \/ /\ pc' = next /\ outcome' = outcome /\ i' = i + 1
               /\ gauge' = SetGauge(Label(i), Reported(i, r))
               /\ Extract(params.resultJMESPath[i], r).ok /\ Reported(i, r) # Panic
            \/ pc' = "done" /\ outcome' \in {"failure", "panic"} /\ UNCHANGED <<i, gauge>>
<1>. DEFINE x == Extract(params.resultJMESPath[i], r)
            v == Reported(i, r)
<1>1. x.reason \in Reasons
  BY ExtractTyped, DataAssumption
<1>2. Label(i) \in Labels /\ v \in Values \cup {Panic}
  BY LabelTyped, ReportedTyped
<1>3. CASE ~x.ok /\ Fail(x.reason) /\ UNCHANGED <<i, gauge>>
  BY <1>1, <1>3 DEF Fail, TypeOK, N
<1>4. CASE x.ok /\ v = Panic /\ outcome' = "panic" /\ pc' = "done" /\ UNCHANGED <<i, gauge, reason>>
  BY <1>4 DEF TypeOK, N
<1>5. CASE x.ok /\ v # Panic /\ gauge' = SetGauge(Label(i), v) /\ i' = i + 1 /\ pc' = next
           /\ UNCHANGED <<outcome, reason>>
  <2>1. v \in Values
    BY <1>2, <1>5
  <2>. QED
    BY <1>2, <1>5, <2>1 DEF SetGauge, TypeOK, N
<1>. QED
  BY <1>3, <1>4, <1>5 DEF Record

-----------------------------------------------------------------------------
(* The invariant holds initially and is preserved by every step.           *)

LEMMA InitIInv == Init => IInv
<1> SUFFICES ASSUME Init PROVE IInv
  OBVIOUS
<1>1. PICK L \in ColumnLengths : params \in QueryParams(L)
  BY DEF Init
<1>2. params \in QueryParamsType
  BY <1>1, QueryParamsTyped
<1>3. N \in Nat
  BY <1>2 DEF QueryParamsType, N
<1>4. DOMAIN gauge \subseteq Labels /\ gauge \in [DOMAIN gauge -> Values]
  BY DEF Init
<1>5. i \in 1..(N + 1)
  BY <1>3 DEF Init
<1>6. results \in Seq(Answers)
  BY DEF Init
<1>7. TypeOK
  BY <1>2, <1>4, <1>5, <1>6 DEF Init, TypeOK, PCs, Reasons
<1>8. SeriesMatchCompletedCalls
  BY DEF Init, SeriesMatchCompletedCalls, SeriesOf
<1>. QED
  BY <1>7, <1>8 DEF Init, IInv, Control


-----------------------------------------------------------------------------
(* The registry invariant.                                                 *)

\* A step that leaves the gauge, the index, the parameters and the handled
\* results alone keeps the registry invariant.
LEMMA SeriesFrame ==
  ASSUME SeriesOf(i - 1), params' = params, gauge' = gauge, i' = i,
         \A k \in 1..(i - 1) : results'[k] = results[k]
  PROVE  SeriesOf(i - 1)'
<1>1. \A k \in 1..(i - 1) : Label(k)' = Label(k)
  BY DEF Label
<1>2. \A k \in 1..(i - 1) : Reported(k, results[k])' = Reported(k, results[k])
  BY DEF Reported
<1>. QED
  BY <1>1, <1>2 DEF SeriesOf

\* Setting descriptor i's series from its result r extends the invariant
\* from descriptors 1..i-1 to 1..i.
LEMMA SeriesAdvance ==
  ASSUME TypeOK, ColumnsOK, i \in 1..N, SeriesOf(i - 1), params' = params, NEW r,
         i' = i + 1, gauge' = SetGauge(Label(i), Reported(i, r)),
         \A k \in 1..(i - 1) : results'[k] = results[k], results'[i] = r
  PROVE  SeriesOf(i - 1)'
<1>0. i' - 1 = i /\ i \in Nat
  BY DEF TypeOK
<1>1. \A k \in 1..i : Label(k)' = Label(k)
  BY DEF Label
<1>2. \A k \in 1..(i - 1) : Reported(k, results[k])' = Reported(k, results[k])
  BY DEF Reported
<1>a. PICK j \in 1..N : j = i
  OBVIOUS
<1>3. Reported(j, results[j])' = Reported(i, r)
  BY <1>a DEF Reported
<1>4. DOMAIN gauge' = {Label(k) : k \in 1..i}
  <2>1. DOMAIN gauge = {Label(k) : k \in 1..(i - 1)}
    BY DEF SeriesOf
  <2>. QED
    BY <1>0, <2>1 DEF SetGauge
<1>5. ASSUME NEW k \in 1..i, \A k2 \in (k + 1)..i : Label(k2) # Label(k)
      PROVE  gauge'[Label(k)] = Reported(k, results[k])'
  <2>1. CASE k = i
    BY <1>a, <1>3, <2>1 DEF SetGauge
  <2>2. CASE k # i
    <3>1. k \in 1..(i - 1) /\ Label(i) # Label(k)
      BY <1>0, <1>5, <2>2
    <3>2. Label(k) \in DOMAIN gauge
      BY <3>1 DEF SeriesOf
    <3>3. gauge[Label(k)] = Reported(k, results[k])
      BY <1>0, <1>5, <3>1 DEF SeriesOf
    <3>. QED
      BY <1>2, <3>1, <3>2, <3>3 DEF SetGauge
  <2>. QED
    BY <2>1, <2>2
<1>. QED
  BY <1>0, <1>1, <1>4, <1>5 DEF SeriesOf

\* Every step keeps the types and the control facts of IInv.
LEMMA NextTypeControl == IInv /\ [Next]_vars => (TypeOK /\ Control)'
<1> SUFFICES ASSUME IInv, [Next]_vars PROVE (TypeOK /\ Control)'
  OBVIOUS
<1>. USE DEF IInv
<1>0. N \in Nat
  BY DEF TypeOK, QueryParamsType, N
<1>1. CASE Dial
  BY <1>1 DEF Dial, Fail, TypeOK, Control, PCs, Reasons, N, ColumnsOK
<1>2. CASE CheckColumns
  BY <1>2 DEF CheckColumns, Fail, TypeOK, Control, PCs, Reasons, N, ColumnsOK
<1>3. CASE Dispatch
  <2>1. pc = "dispatch" /\ ColumnsOK /\ i = 1 /\ results = <<>>
    BY <1>3 DEF Dispatch, Control
  <2>2. CASE params.module # "jsonrpc" /\ pc' = "return" /\ UNCHANGED registered
    BY <1>3, <2>1, <2>2 DEF Dispatch, TypeOK, Control, PCs, N, ColumnsOK
  <2>3. CASE params.module = "jsonrpc" /\ registered' = TRUE
             /\ pc' = IF params.disableBatch THEN "loop" ELSE "build"
    BY <1>0, <1>3, <2>1, <2>3 DEF Dispatch, TypeOK, Control, PCs, N, ColumnsOK
  <2>. QED
    BY <1>3, <2>2, <2>3 DEF Dispatch
<1>4. CASE CallSend
  BY <1>4 DEF CallSend, Fail, TypeOK, Control, PCs, Reasons, N, ColumnsOK
<1>5. ASSUME NEW r \in Answers, CallReturn(r)
      PROVE  (TypeOK /\ Control)'
  <2>1. ColumnsOK /\ i \in 1..N
    BY <1>0, <1>5 DEF CallReturn, Control, TypeOK
  <2>2. results' \in Seq(Answers) \/ UNCHANGED results
    BY <1>5 DEF CallReturn, TypeOK
  <2>3. CASE Fail("transport") /\ UNCHANGED <<i, results, gauge>>
    BY <1>5, <2>1, <2>3 DEF CallReturn, Fail, TypeOK, Control, PCs, Reasons, N, ColumnsOK
  <2>4. CASE r.kind = "error" /\ Fail("call") /\ UNCHANGED <<i, gauge>> /\ results' = Append(results, r)
    BY <1>5, <2>1, <2>4 DEF CallReturn, Fail, TypeOK, Control, PCs, Reasons, N, ColumnsOK
  <2>5. CASE r.kind # "error" /\ results' = Append(results, r) /\ Record(i, r, "loop")
    <3>1. /\ DOMAIN gauge' \subseteq Labels
          /\ gauge' \in [DOMAIN gauge' -> Values]
          /\ i' \in 1..(N + 1)
          /\ reason' \in Reasons
          /\ \/ pc' = "loop" /\ outcome' = outcome /\ i' = i + 1
             \/ pc' = "done" /\ outcome' \in {"failure", "panic"} /\ UNCHANGED i
      BY <1>5, <2>1, <2>5, RecordStep DEF CallReturn, PCs
    <3>. QED
      BY <1>5, <2>1, <2>5, <3>1 DEF CallReturn, TypeOK, Control, PCs, N, ColumnsOK
  <2>. QED
    BY <1>5, <2>3, <2>4, <2>5 DEF CallReturn
<1>6. CASE BuildBatch
  BY <1>6 DEF BuildBatch, Fail, TypeOK, Control, PCs, Reasons, N, ColumnsOK
<1>7. ASSUME NEW rs \in [1..N -> Answers], BatchReturn(rs)
      PROVE  (TypeOK /\ Control)'
  <2>1. rs \in Seq(Answers) /\ Len(rs) = N
    BY <1>0, FunIsSeq
  <2>2. pc = "batch" /\ i = 1 /\ ColumnsOK /\ params.module = "jsonrpc"
    BY <1>7 DEF BatchReturn, Control
  <2>3. CASE Fail("transport") /\ UNCHANGED results
    BY <1>7, <2>2, <2>3 DEF BatchReturn, Fail, TypeOK, Control, PCs, Reasons, N, ColumnsOK
  <2>4. CASE results' = rs /\ pc' = "walk" /\ UNCHANGED <<outcome, reason>>
    BY <1>0, <1>7, <2>1, <2>2, <2>4 DEF BatchReturn, TypeOK, Control, PCs, N, ColumnsOK
  <2>. QED
    BY <1>7, <2>3, <2>4 DEF BatchReturn
<1>8. CASE WalkElem
  <2>1. ColumnsOK /\ i \in 1..N /\ Len(results) = N
    BY <1>0, <1>8 DEF WalkElem, Control, TypeOK
  <2>2. results[i] \in Answers
    BY <2>1 DEF TypeOK
  <2>3. CASE results[i].kind = "error" /\ Fail("unmarshal") /\ UNCHANGED <<i, gauge>>
    BY <1>8, <2>1, <2>3 DEF WalkElem, Fail, TypeOK, Control, PCs, Reasons, N, ColumnsOK
  <2>4. CASE results[i].kind # "error" /\ Record(i, results[i], "walk")
    <3>1. /\ DOMAIN gauge' \subseteq Labels
          /\ gauge' \in [DOMAIN gauge' -> Values]
          /\ i' \in 1..(N + 1)
          /\ reason' \in Reasons
          /\ \/ pc' = "walk" /\ outcome' = outcome /\ i' = i + 1
             \/ pc' = "done" /\ outcome' \in {"failure", "panic"} /\ UNCHANGED i
      BY <1>8, <2>1, <2>2, <2>4, RecordStep DEF WalkElem, PCs
    <3>. QED
      BY <1>8, <2>1, <2>4, <3>1 DEF WalkElem, TypeOK, Control, PCs, N, ColumnsOK
  <2>. QED
    BY <1>8, <2>3, <2>4 DEF WalkElem
<1>9. CASE LoopDone
  BY <1>9 DEF LoopDone, TypeOK, Control, PCs, N, ColumnsOK
<1>10. CASE Return
  BY <1>10 DEF Return, TypeOK, Control, PCs, N, ColumnsOK
<1>11. CASE Deadline
  BY <1>11 DEF Deadline, TypeOK, Control, N, ColumnsOK
<1>12. CASE Returned \/ UNCHANGED vars
  BY <1>12 DEF Returned, vars, TypeOK, Control, N, ColumnsOK
<1>. QED
  BY <1>1, <1>2, <1>3, <1>4, <1>5, <1>6, <1>7, <1>8, <1>9, <1>10, <1>11, <1>12 DEF Next

\* Every step keeps the registry equal to the series of the completed calls.
LEMMA NextSeries == IInv /\ [Next]_vars => SeriesMatchCompletedCalls'
<1> SUFFICES ASSUME IInv, [Next]_vars PROVE SeriesOf(i - 1)'
  BY DEF SeriesMatchCompletedCalls
<1>. USE DEF IInv
<1>0. SeriesOf(i - 1) /\ N \in Nat /\ results \in Seq(Answers)
  BY DEF SeriesMatchCompletedCalls, TypeOK, QueryParamsType, N
\* The steps that leave gauge, i, params and results alone.
<1>1. CASE Dial \/ CheckColumns \/ Dispatch \/ CallSend \/ BuildBatch \/ LoopDone
           \/ Return \/ Deadline \/ Returned \/ UNCHANGED vars
  <2>1. params' = params /\ gauge' = gauge /\ i' = i /\ results' = results
    BY <1>1 DEF Dial, CheckColumns, Dispatch, CallSend, BuildBatch, LoopDone, Return,
                Deadline, Returned, vars
  <2>. QED
    BY <1>0, <2>1, SeriesFrame
<1>2. ASSUME NEW r \in Answers, CallReturn(r)
      PROVE  SeriesOf(i - 1)'
  <2>1. pc = "await" /\ ColumnsOK /\ i \in 1..N /\ Len(results) = i - 1
    BY <1>0, <1>2 DEF CallReturn, Control, TypeOK
  <2>2. params' = params
    BY <1>2 DEF CallReturn
  <2>3. CASE Fail("transport") /\ UNCHANGED <<i, results, gauge>>
    BY <1>0, <2>2, <2>3, SeriesFrame
  <2>4. CASE r.kind = "error" /\ Fail("call") /\ UNCHANGED <<i, gauge>> /\ results' = Append(results, r)
    <3>1. \A k \in 1..(i - 1) : results'[k] = results[k]
      BY <1>0, <2>1, <2>4
    <3>. QED
      BY <1>0, <2>2, <2>4, <3>1, SeriesFrame
  <2>5. CASE r.kind # "error" /\ results' = Append(results, r) /\ Record(i, r, "loop")
    <3>1. (\A k \in 1..(i - 1) : results'[k] = results[k]) /\ results'[i] = r
      BY <1>0, <2>1, <2>5
    <3>2. \/ i' = i + 1 /\ gauge' = SetGauge(Label(i), Reported(i, r))
          \/ UNCHANGED <<i, gauge>>
      BY <2>1, <2>2, <2>5, RecordStep DEF PCs
    <3>. QED
      BY <1>0, <2>1, <2>2, <3>1, <3>2, SeriesFrame, SeriesAdvance DEF Control, TypeOK
  <2>. QED
    BY <1>2, <2>3, <2>4, <2>5 DEF CallReturn
<1>3. ASSUME NEW rs \in [1..N -> Answers], BatchReturn(rs)
      PROVE  SeriesOf(i - 1)'
  <2>1. i = 1 /\ params' = params /\ gauge' = gauge /\ i' = i
    BY <1>3 DEF BatchReturn, Control
  <2>. QED
    BY <1>0, <2>1, SeriesFrame
<1>4. CASE WalkElem
  <2>1. ColumnsOK /\ i \in 1..N /\ Len(results) = N
    BY <1>0, <1>4 DEF WalkElem, Control, TypeOK
  <2>2. params' = params /\ results' = results /\ results[i] \in Answers
    BY <1>4, <2>1 DEF WalkElem, TypeOK
  <2>3. CASE results[i].kind = "error" /\ Fail("unmarshal") /\ UNCHANGED <<i, gauge>>
    BY <1>0, <2>2, <2>3, SeriesFrame
  <2>4. CASE results[i].kind # "error" /\ Record(i, results[i], "walk")
    <3>1. \/ i' = i + 1 /\ gauge' = SetGauge(Label(i), Reported(i, results[i]))
          \/ UNCHANGED <<i, gauge>>
      BY <2>1, <2>2, <2>4, RecordStep DEF PCs
    <3>. QED
      BY <1>0, <2>1, <2>2, <3>1, SeriesFrame, SeriesAdvance DEF TypeOK
  <2>. QED
    BY <1>4, <2>3, <2>4 DEF WalkElem
<1>. QED
  BY <1>1, <1>2, <1>3, <1>4 DEF Next

\* Every step keeps IInv.
LEMMA NextIInv == IInv /\ [Next]_vars => IInv'
BY NextTypeControl, NextSeries DEF IInv

-----------------------------------------------------------------------------
(* The registry only grows.                                                *)

\* Setting a series keeps every label the registry already holds.
LEMMA SetGaugeGrows ==
  ASSUME NEW l, NEW v
  PROVE  DOMAIN SetGauge(l, v) = DOMAIN gauge \cup {l}
BY DEF SetGauge

\* Every step of the probe satisfies RegistryStep.
LEMMA NextRegistryStep == IInv /\ [Next]_vars => [RegistryStep]_vars
<1> SUFFICES ASSUME IInv, [Next]_vars PROVE [RegistryStep]_vars
  OBVIOUS
<1>. USE DEF IInv
\* The steps that leave the gauge alone and end no probe that has ended.
<1>1. CASE Dial \/ CheckColumns \/ Dispatch \/ CallSend \/ BuildBatch \/ LoopDone
           \/ Return \/ Deadline \/ Returned \/ UNCHANGED vars
           \/ \E rs \in [1..N -> Answers] : BatchReturn(rs)
  <2>1. gauge' = gauge
    BY <1>1 DEF Dial, CheckColumns, Dispatch, CallSend, BuildBatch, LoopDone, Return,
                Deadline, Returned, vars, BatchReturn
  <2>2. outcome # "running" => outcome' = outcome
    <3>1. outcome # "running" => pc = "done"
      BY DEF Control
    <3>. QED
      BY <1>1, <3>1 DEF Dial, CheckColumns, Dispatch, CallSend, BuildBatch, LoopDone,
                        Return, Deadline, Returned, vars, BatchReturn
  <2>. QED
    BY <2>1, <2>2 DEF RegistryStep
\* The steps that run Record at the loop index of a running probe.
<1>2. ASSUME NEW r \in Answers, NEW next \in PCs, pc \in {"await", "walk"}, i \in 1..N,
             Record(i, r, next), params' = params
      PROVE  RegistryStep
  <2>1. outcome = "running" /\ ColumnsOK
    BY <1>2 DEF Control
  <2>2. \/ /\ outcome' = outcome /\ i' = i + 1
           /\ gauge' = SetGauge(Label(i), Reported(i, r))
        \/ UNCHANGED gauge
    BY <1>2, <2>1, RecordStep
  <2>3. CASE outcome' = outcome /\ i' = i + 1 /\ gauge' = SetGauge(Label(i), Reported(i, r))
    <3>1. DOMAIN gauge \subseteq DOMAIN gauge'
      BY <2>3, SetGaugeGrows
    <3>. QED
      BY <2>1, <2>3, <3>1 DEF RegistryStep
  <2>4. CASE UNCHANGED gauge
    BY <2>1, <2>4 DEF RegistryStep
  <2>. QED
    BY <2>2, <2>3, <2>4
<1>3. ASSUME NEW r \in Answers, CallReturn(r)
      PROVE  RegistryStep
  <2>1. i \in 1..N
    BY <1>3 DEF CallReturn, Control, TypeOK
  <2>2. CASE r.kind # "error" /\ Record(i, r, "loop")
    BY <1>3, <2>1, <2>2, <1>2 DEF CallReturn, PCs
  <2>3. CASE ~(r.kind # "error" /\ Record(i, r, "loop"))
    <3>1. UNCHANGED gauge /\ outcome = "running"
      BY <1>3, <2>3 DEF CallReturn, Control
    <3>. QED
      BY <3>1 DEF RegistryStep
  <2>. QED
    BY <2>2, <2>3
<1>4. CASE WalkElem
  <2>1. i \in 1..N /\ results[i] \in Answers
    BY <1>4 DEF WalkElem, Control, TypeOK
  <2>2. CASE results[i].kind # "error" /\ Record(i, results[i], "walk")
    BY <1>4, <2>1, <2>2, <1>2 DEF WalkElem, PCs
  <2>3. CASE ~(results[i].kind # "error" /\ Record(i, results[i], "walk"))
    <3>1. UNCHANGED gauge /\ outcome = "running"
      BY <1>4, <2>3 DEF WalkElem, Control
    <3>. QED
      BY <3>1 DEF RegistryStep
  <2>. QED
    BY <2>2, <2>3
<1>. QED
  BY <1>1, <1>3, <1>4 DEF Next

-----------------------------------------------------------------------------
(***************************************************************************)
(* Where a probe stops.  Descriptor k's answer is good when it is not an   *)
(* error, the extraction succeeds and the value is not the panic of        *)
(* big.Float.Quo.  Every descriptor handled so far had a good answer; a    *)
(* probe that returned false or panicked with aligned columns, for a       *)
(* reason other than the dial, the transport or a malformed argument,      *)
(* stopped at descriptor i, whose answer was the first bad one, and it     *)
(* panicked exactly when that answer extracts to a value that panics.      *)
(* This is what makes the two modes agree (JsonRpcBatchEquiv): both stop   *)
(* at the first bad answer, whatever order they read the answers in.       *)
(***************************************************************************)
GoodAt(k) ==
  /\ results[k].kind # "error"
  /\ Extract(params.resultJMESPath[k], results[k]).ok
  /\ Reported(k, results[k]) # Panic

PanicAt(k) ==
  /\ results[k].kind # "error"
  /\ Extract(params.resultJMESPath[k], results[k]).ok
  /\ Reported(k, results[k]) = Panic

StopsAtBadAnswer ==
  /\ \A k \in 1..(i - 1) : GoodAt(k)
  /\ pc # "done" => reason = "none"
  /\ reason = "parse" => \E k \in DOMAIN params.arg : ~parseJSONRPCParams(params.arg[k])
  /\ outcome = "success" /\ params.module # "jsonrpc" => i = 1
  /\ params.module # "jsonrpc" => results = <<>>
  /\ (/\ pc = "done" /\ outcome # "success" /\ ColumnsOK
      /\ reason \notin {"dial", "transport", "parse"})
     => /\ i \in 1..Len(results)
        /\ ~GoodAt(i)
        /\ (outcome = "panic" <=> PanicAt(i))

\* An extraction fails only for a bad JMESPath or a result that is not a
\* string (lines 298-312).
LEMMA ExtractFails ==
  ASSUME NEW p, NEW a, ~Extract(p, a).ok
  PROVE  Extract(p, a).reason \in {"jmespath", "unmarshal"}
BY DEF Extract

\* Whether descriptor k's answer is good depends only on that answer and
\* on the parameters.
LEMMA AnswerFrame ==
  ASSUME NEW k, params' = params, results'[k] = results[k]
  PROVE  /\ GoodAt(k)' = GoodAt(k)
         /\ PanicAt(k)' = PanicAt(k)
BY DEF GoodAt, PanicAt, Reported

\* Record either moves past a good answer or stops at a bad one, with the
\* panic exactly when the answer extracts to a value that panics.
LEMMA RecordStops ==
  ASSUME TypeOK, ColumnsOK, NEW k \in 1..N, i = k, NEW r \in Answers, NEW next \in PCs,
         r.kind # "error", params' = params, results'[k] = r, Record(k, r, next)
  PROVE  \/ /\ pc' = next /\ outcome' = outcome /\ reason' = reason /\ i' = k + 1
            /\ GoodAt(k)'
         \/ /\ pc' = "done" /\ i' = k /\ outcome' \in {"failure", "panic"}
            /\ reason' \in {reason, "jmespath", "unmarshal"}
            /\ ~GoodAt(k)' /\ (outcome' = "panic" <=> PanicAt(k)')
<1>. DEFINE x == Extract(params.resultJMESPath[k], r)
            v == Reported(k, r)
<1>1. /\ GoodAt(k)' <=> x.ok /\ v # Panic
      /\ PanicAt(k)' <=> x.ok /\ v = Panic
  BY DEF GoodAt, PanicAt, Reported
<1>2. CASE ~x.ok /\ Fail(x.reason) /\ UNCHANGED <<i, gauge>>
  BY <1>1, <1>2, ExtractFails DEF Fail
<1>3. CASE x.ok /\ v = Panic /\ outcome' = "panic" /\ pc' = "done" /\ UNCHANGED <<i, gauge, reason>>
  BY <1>1, <1>3
<1>4. CASE x.ok /\ v # Panic /\ gauge' = SetGauge(Label(k), v) /\ i' = k + 1 /\ pc' = next
           /\ UNCHANGED <<outcome, reason>>
  BY <1>1, <1>4
<1>. QED
  BY <1>2, <1>3, <1>4 DEF Record

\* The probe starts with no descriptor handled and no reason.
LEMMA InitStops == Init => StopsAtBadAnswer
BY DEF Init, StopsAtBadAnswer

\* Every step keeps the probe stopped at its first bad answer.
LEMMA NextStops == IInv /\ StopsAtBadAnswer /\ [Next]_vars => StopsAtBadAnswer'
<1> SUFFICES ASSUME IInv, StopsAtBadAnswer, [Next]_vars PROVE StopsAtBadAnswer'
  OBVIOUS
<1>. USE DEF IInv
<1>0. N \in Nat /\ results \in Seq(Answers) /\ i \in 1..(N + 1)
  BY DEF TypeOK, QueryParamsType, N
\* A descriptor whose arguments do not parse is a witness for reason "parse".
<1>p. ColumnsOK => DOMAIN params.arg = 1..N
  <2>1. ColumnsOK => Len(params.arg) = N
    BY DEF ColumnsOK, ColumnNames
  <2>2. params.arg \in Seq(ArgTexts)
    BY DEF TypeOK, QueryParamsType
  <2>. QED
    BY <1>0, <2>1, <2>2
\* The steps that keep the parameters, the index and the results.
<1>1. CASE Dial \/ CheckColumns \/ Dispatch \/ CallSend \/ BuildBatch \/ LoopDone
           \/ Return \/ Deadline \/ Returned \/ UNCHANGED vars
  <2>1. params' = params /\ results' = results /\ i' = i
    BY <1>1 DEF Dial, CheckColumns, Dispatch, CallSend, BuildBatch, LoopDone, Return,
                Deadline, Returned, vars
  <2>2. \A k : GoodAt(k)' = GoodAt(k) /\ PanicAt(k)' = PanicAt(k)
    BY <2>1, AnswerFrame
  <2>3. ColumnsOK' = ColumnsOK
    BY <2>1 DEF ColumnsOK, N
  <2>4. \/ pc # "done" /\ pc' # "done" /\ reason' = reason /\ outcome' = outcome
        \/ pc' = pc /\ reason' = reason /\ outcome' = outcome
        \/ pc' = "done" /\ reason' \in {"dial", "transport"} /\ outcome' = "failure"
        \/ pc' = "done" /\ ~ColumnsOK /\ outcome' = "failure" /\ reason' \in {"empty", "length"}
        \/ /\ pc' = "done" /\ reason' = "parse" /\ outcome' = "failure"
           /\ \E k \in DOMAIN params.arg : ~parseJSONRPCParams(params.arg[k])
        \/ /\ pc' = "done" /\ reason' = reason /\ outcome' = "success"
           /\ (params.module # "jsonrpc" => i = 1)
    <3>1. CASE Dial
      BY <3>1 DEF Dial, Fail
    <3>2. CASE CheckColumns
      BY <3>2 DEF CheckColumns, Fail, ColumnsOK
    <3>3. CASE CallSend
      <4>1. i \in 1..N /\ ColumnsOK
        BY <1>0, <3>3 DEF CallSend, Control
      <4>2. i \in DOMAIN params.arg /\ pc = "loop"
        <5>1. pc = "loop"
          BY <3>3 DEF CallSend
        <5>. QED
          BY <4>1, <5>1, <1>p, Zenon
      <4>3. CASE ~parseJSONRPCParams(params.arg[i]) /\ Fail("parse")
        BY <4>2, <4>3 DEF Fail
      <4>4. CASE pc' = "await" /\ UNCHANGED <<outcome, reason>>
        BY <4>2, <4>4
      <4>. QED
        BY <3>3, <4>3, <4>4 DEF CallSend
    <3>4. CASE BuildBatch
      <4>1. ColumnsOK
        BY <3>4 DEF BuildBatch, Control
      <4>2. DOMAIN params.arg = 1..N /\ pc = "build"
        BY <3>4, <4>1, <1>p DEF BuildBatch
      <4>3. CASE (\E k \in 1..N : ~parseJSONRPCParams(params.arg[k])) /\ Fail("parse")
        BY <4>2, <4>3 DEF Fail
      <4>4. CASE pc' = "batch" /\ UNCHANGED <<outcome, reason>>
        BY <4>2, <4>4
      <4>. QED
        BY <3>4, <4>3, <4>4 DEF BuildBatch
    <3>5. CASE Return
      BY <3>5 DEF Return, Control
    <3>6. CASE Dispatch \/ LoopDone \/ Deadline \/ Returned \/ UNCHANGED vars
      BY <3>6 DEF Dispatch, LoopDone, Deadline, Returned, vars
    <3>. QED
      BY <1>1, <3>1, <3>2, <3>3, <3>4, <3>5, <3>6
  <2>5. (\A k \in 1..(i - 1) : GoodAt(k))'
    BY <2>1, <2>2 DEF StopsAtBadAnswer
  <2>6. (/\ pc = "done" /\ outcome # "success" /\ ColumnsOK
         /\ reason \notin {"dial", "transport", "parse"}
         => /\ i \in 1..Len(results)
            /\ ~GoodAt(i)
            /\ (outcome = "panic" <=> PanicAt(i)))'
    <3> SUFFICES ASSUME pc' = "done", outcome' # "success", ColumnsOK',
                        reason' \notin {"dial", "transport", "parse"}
                 PROVE  (/\ i \in 1..Len(results)
                         /\ ~GoodAt(i)
                         /\ (outcome = "panic" <=> PanicAt(i)))'
      OBVIOUS
    <3>1. pc = "done" /\ reason' = reason /\ outcome' = outcome
      BY <2>3, <2>4
    <3>2. i \in 1..Len(results) /\ ~GoodAt(i) /\ (outcome = "panic" <=> PanicAt(i))
      BY <2>3, <3>1 DEF StopsAtBadAnswer
    <3>. QED
      BY <2>1, <2>2, <3>1, <3>2
  <2>7. (pc # "done" => reason = "none")'
    BY <2>4 DEF StopsAtBadAnswer
  <2>8. (reason = "parse" => \E k \in DOMAIN params.arg : ~parseJSONRPCParams(params.arg[k]))'
    <3> SUFFICES ASSUME reason' = "parse"
                 PROVE  \E k \in DOMAIN params.arg : ~parseJSONRPCParams(params.arg[k])
      BY <2>1
    <3>1. reason = "parse" => \E k \in DOMAIN params.arg : ~parseJSONRPCParams(params.arg[k])
      BY DEF StopsAtBadAnswer
    <3>2. pc # "done" => reason = "none"
      BY DEF StopsAtBadAnswer
    <3>. QED
      BY <2>4, <3>1, <3>2, Zenon
  <2>9. (outcome = "success" /\ params.module # "jsonrpc" => i = 1)'
    <3>1. outcome = "success" /\ params.module # "jsonrpc" => i = 1
      BY DEF StopsAtBadAnswer
    <3>. QED
      BY <2>1, <2>4, <3>1, Zenon
  <2>10. (params.module # "jsonrpc" => results = <<>>)'
    BY <2>1 DEF StopsAtBadAnswer
  <2>. QED
    BY <2>5, <2>6, <2>7, <2>8, <2>9, <2>10 DEF StopsAtBadAnswer
\* The batch arrives before any descriptor has been handled.
<1>2. ASSUME NEW rs \in [1..N -> Answers], BatchReturn(rs)
      PROVE  StopsAtBadAnswer'
  <2>1. /\ i = 1 /\ i' = 1 /\ params' = params /\ reason = "none" /\ outcome = "running"
        /\ params.module = "jsonrpc"
    BY <1>2 DEF BatchReturn, Control, StopsAtBadAnswer
  <2>. QED
    BY <1>2, <2>1 DEF BatchReturn, Fail, StopsAtBadAnswer
\* An answer to a single call.
<1>3. ASSUME NEW r \in Answers, CallReturn(r)
      PROVE  StopsAtBadAnswer'
  <2>1. /\ pc = "await" /\ ColumnsOK /\ i \in 1..N /\ Len(results) = i - 1
        /\ reason = "none" /\ outcome = "running" /\ params' = params
        /\ params.module = "jsonrpc"
    BY <1>0, <1>3 DEF CallReturn, Control, StopsAtBadAnswer
  <2>2. CASE Fail("transport") /\ UNCHANGED <<i, results, gauge>>
    <3>1. \A k : GoodAt(k)' = GoodAt(k)
      BY <2>1, <2>2, AnswerFrame
    <3>. QED
      BY <2>1, <2>2, <3>1 DEF Fail, StopsAtBadAnswer
  <2>3. CASE r.kind = "error" /\ Fail("call") /\ UNCHANGED <<i, gauge>> /\ results' = Append(results, r)
    <3>1. \A k \in 1..(i - 1) : GoodAt(k)' = GoodAt(k)
      BY <1>0, <2>1, <2>3, AnswerFrame
    <3>2. i \in 1..Len(results') /\ results'[i] = r
      BY <1>0, <2>1, <2>3
    <3>3. ~GoodAt(i)' /\ ~PanicAt(i)'
      BY <2>3, <3>2 DEF GoodAt, PanicAt
    <3>. QED
      BY <2>1, <2>3, <3>1, <3>2, <3>3 DEF Fail, StopsAtBadAnswer
  <2>4. CASE r.kind # "error" /\ results' = Append(results, r) /\ Record(i, r, "loop")
    <3>1. PICK k \in 1..N : k = i
      BY <2>1
    <3>2. \A k2 \in 1..(i - 1) : GoodAt(k2)' = GoodAt(k2)
      BY <1>0, <2>1, <2>4, AnswerFrame
    <3>3. k \in 1..Len(results') /\ results'[k] = r
      BY <1>0, <2>1, <2>4, <3>1
    <3>4. \/ /\ pc' = "loop" /\ outcome' = outcome /\ reason' = reason /\ i' = k + 1
             /\ GoodAt(k)'
          \/ /\ pc' = "done" /\ i' = k /\ outcome' \in {"failure", "panic"}
             /\ reason' \in {reason, "jmespath", "unmarshal"}
             /\ ~GoodAt(k)' /\ (outcome' = "panic" <=> PanicAt(k)')
      BY <2>1, <2>4, <3>1, <3>3, RecordStops DEF PCs
    <3>5. \A k2 \in 1..(i' - 1) : GoodAt(k2)'
      BY <3>1, <3>2, <3>4 DEF StopsAtBadAnswer
    <3>. QED
      BY <2>1, <3>1, <3>3, <3>4, <3>5 DEF StopsAtBadAnswer
  <2>. QED
    BY <1>3, <2>2, <2>3, <2>4 DEF CallReturn
\* One element of the batch.
<1>4. CASE WalkElem
  <2>1. /\ ColumnsOK /\ i \in 1..N /\ Len(results) = N /\ results[i] \in Answers
        /\ reason = "none" /\ outcome = "running"
        /\ params' = params /\ results' = results
    BY <1>0, <1>4 DEF WalkElem, Control, TypeOK, StopsAtBadAnswer
  <2>2. \A k : GoodAt(k)' = GoodAt(k) /\ PanicAt(k)' = PanicAt(k)
    BY <2>1, AnswerFrame
  <2>3. CASE results[i].kind = "error" /\ Fail("unmarshal") /\ UNCHANGED <<i, gauge>>
    <3>1. ~GoodAt(i) /\ ~PanicAt(i)
      BY <2>3 DEF GoodAt, PanicAt
    <3>. QED
      BY <2>1, <2>2, <2>3, <3>1 DEF Fail, StopsAtBadAnswer
  <2>4. CASE results[i].kind # "error" /\ Record(i, results[i], "walk")
    <3>1. PICK k \in 1..N : k = i
      BY <2>1
    <3>2. \/ /\ pc' = "walk" /\ outcome' = outcome /\ reason' = reason /\ i' = k + 1
             /\ GoodAt(k)'
          \/ /\ pc' = "done" /\ i' = k /\ outcome' \in {"failure", "panic"}
             /\ reason' \in {reason, "jmespath", "unmarshal"}
             /\ ~GoodAt(k)' /\ (outcome' = "panic" <=> PanicAt(k)')
      BY <2>1, <2>4, <3>1, RecordStops DEF PCs
    <3>3. \A k2 \in 1..(i' - 1) : GoodAt(k2)'
      BY <2>2, <3>1, <3>2 DEF StopsAtBadAnswer
    <3>. QED
      BY <2>1, <2>2, <3>1, <3>2, <3>3 DEF StopsAtBadAnswer
  <2>. QED
    BY <1>4, <2>3, <2>4 DEF WalkElem
<1>. QED
  BY <1>1, <1>2, <1>3, <1>4 DEF Next

\* No step changes the query parameters.
LEMMA NextParams == [Next]_vars => params' = params
BY DEF Next, vars, Dial, CheckColumns, Dispatch, CallSend, CallReturn, BuildBatch,
       BatchReturn, WalkElem, LoopDone, Return, Deadline, Returned

\* What a probe that has returned with aligned columns, for a reason other
\* than the dial, the transport or a malformed argument, has done.
LEMMA StoppedProbe ==
  ASSUME IInv, StopsAtBadAnswer, pc = "done", ColumnsOK,
         reason \notin {"dial", "transport", "parse"}
  PROVE  /\ N \in Nat \ {0}
         /\ outcome \in {"success", "failure", "panic"}
         /\ params.module # "jsonrpc" => outcome = "success" /\ i = 1
         /\ outcome = "success" /\ params.module = "jsonrpc" => i = N + 1 /\ Len(results) = N
         /\ outcome # "success" =>
              /\ i \in 1..Len(results) /\ ~GoodAt(i)
              /\ (outcome = "panic" <=> PanicAt(i))
         /\ \A k \in 1..(i - 1) : GoodAt(k)
         /\ SeriesOf(i - 1)
         /\ gauge = [x \in DOMAIN gauge |-> gauge[x]]
<1>1. N \in Nat \ {0}
  BY DEF ColumnsOK, ColumnNames, IInv, TypeOK, QueryParamsType, N
<1>2. outcome \in {"success", "failure", "panic"}
  BY DEF IInv, TypeOK, Control
<1>3. params.module # "jsonrpc" => outcome = "success" /\ i = 1
  BY <1>2 DEF StopsAtBadAnswer
<1>4. outcome = "success" /\ params.module = "jsonrpc" => i = N + 1 /\ Len(results) = N
  BY DEF IInv, Control
<1>5. gauge = [x \in DOMAIN gauge |-> gauge[x]]
  BY DEF IInv, TypeOK
<1>. QED
  BY <1>1, <1>2, <1>3, <1>4, <1>5 DEF StopsAtBadAnswer, IInv, SeriesMatchCompletedCalls

-----------------------------------------------------------------------------
(* The theorems.                                                           *)

\* Every reachable state satisfies the inductive invariant.
THEOREM IInvHolds == Spec => []IInv
BY InitIInv, NextIInv, PTL DEF Spec

(***************************************************************************)
(* Type correctness of ProbeJSONRPC: the loop index stays within the       *)
(* descriptors plus one, the recorded results are endpoint answers, and    *)
(* every series the probe sets on probe_jsonrpc (lines 320-327, 375-382)   *)
(* is labelled by a (method, trimmed arg, tag) triple and holds a number   *)
(* or +Inf, whatever the constants.                                        *)
(***************************************************************************)
THEOREM TypeCorrect == Spec => []TypeOK
<1>1. IInv => TypeOK
  BY DEF IInv
<1>. QED
  BY IInvHolds, <1>1, PTL

(***************************************************************************)
(* The column checks of lines 252-266: with missing or misaligned columns  *)
(* the probe, in either mode, never sends a request and never returns      *)
(* true, for every bound on the columns and every set of values.           *)
(***************************************************************************)
THEOREM ColumnMismatchSafe == Spec => []ColumnMismatchFailsBeforeIO
<1>1. IInv => ColumnMismatchFailsBeforeIO
  BY DEF IInv, Control, TypeOK, PCs, ColumnMismatchFailsBeforeIO
<1>. QED
  BY IInvHolds, <1>1, PTL

(***************************************************************************)
(* Early returns leave no stray series (lines 284-314, 356-373, and the    *)
(* partial results kept after a failed call, line 289): in every state the *)
(* registry holds exactly the series of the descriptors already handled,   *)
(* each computed from that descriptor's own result.                        *)
(***************************************************************************)
THEOREM SeriesMatchCompletedCallsHolds == Spec => []SeriesMatchCompletedCalls
<1>1. IInv => SeriesMatchCompletedCalls
  BY DEF IInv
<1>. QED
  BY IInvHolds, <1>1, PTL

(***************************************************************************)
(* For module "jsonrpc", a probe that returns true (line 387) called every *)
(* descriptor and reports each label with the value of the last descriptor *)
(* carrying it.  Other module values fall through the switch of line 268   *)
(* and return true with no series at all, so the hypothesis is needed.     *)
(***************************************************************************)
THEOREM SuccessReportsEveryCallHolds ==
  Spec => []JsonRpcSuccessReportsEveryCall
<1>1. IInv => JsonRpcSuccessReportsEveryCall
  <2> SUFFICES ASSUME IInv, params.module = "jsonrpc", outcome = "success"
               PROVE  N >= 1 /\ Len(results) = N /\ SeriesOf(N)
    BY DEF JsonRpcSuccessReportsEveryCall, SuccessReportsEveryCall
  <2>1. N \in Nat
    BY DEF IInv, TypeOK, QueryParamsType, N
  <2>2. pc = "done" /\ ColumnsOK
    BY DEF IInv, Control
  <2>3. N # 0
    BY <2>2 DEF ColumnsOK, ColumnNames
  <2>4. i = N + 1 /\ Len(results) = N
    BY DEF IInv, Control
  <2>5. SeriesOf(i - 1)
    BY DEF IInv, SeriesMatchCompletedCalls
  <2>6. i - 1 = N
    BY <2>1, <2>4
  <2>7. SeriesOf(N)
    BY <2>5, <2>6
  <2>. QED
    BY <2>1, <2>3, <2>4, <2>7
<1>. QED
  BY IInvHolds, <1>1, PTL

(***************************************************************************)
(* No rollback and no change after return: no step removes a series from  *)
(* probe_jsonrpc, only the step that records one more descriptor of a     *)
(* running probe (lines 322-327, 377-382) changes the registry, and once  *)
(* the probe has returned, its result and the registry stay fixed.        *)
(***************************************************************************)
THEOREM RegistryNeverRollsBackHolds == Spec => RegistryNeverRollsBack
<1>1. []IInv /\ [][Next]_vars => [][RegistryStep]_vars
  BY NextRegistryStep, PTL
<1>. QED
  BY IInvHolds, <1>1, PTL DEF Spec, RegistryNeverRollsBack

=============================================================================
