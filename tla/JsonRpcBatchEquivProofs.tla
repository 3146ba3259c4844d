----------------------- MODULE JsonRpcBatchEquivProofs -----------------------
(***************************************************************************)
(* Proof that the batched and the sequential mode of ProbeJSONRPC agree    *)
(* (BatchMatchesSequential), for every value of the constants.  Each       *)
(* invocation keeps the inductive invariant of JsonRpcProbeProofs and      *)
(* stops at its first bad answer (StopsAtBadAnswer); both read their       *)
(* answers from the same endpoint, so they stop at the same descriptor,   *)
(* or both handle all of them and leave the same series.                  *)
(***************************************************************************)
EXTENDS JsonRpcBatchEquiv, WellFoundedInduction, TLAPS

(***************************************************************************)
(* The inductive invariant of the composition.  Besides the invariants of  *)
(* each invocation, the parameters differ only in disableBatch, and each   *)
(* invocation's results are the endpoint's answers: the sequential one    *)
(* has read a prefix of them, the batched one none or all.                 *)
(***************************************************************************)
SameQuery ==
  /\ paramsB.disableBatch = FALSE
  /\ paramsS = [paramsB EXCEPT !.disableBatch = TRUE]

AnswersFromEndpoint ==
  /\ endpoint \in [1..Len(paramsB.method) -> Answers]
  /\ Len(resultsS) <= Len(paramsB.method)
  /\ \A k \in 1..Len(resultsS) : resultsS[k] = endpoint[k]
  /\ resultsB = <<>> \/ resultsB = endpoint

EquivInv ==
  /\ S!IInv /\ S!StopsAtBadAnswer
  /\ B!IInv /\ B!StopsAtBadAnswer
  /\ SameQuery
  /\ AnswersFromEndpoint

-----------------------------------------------------------------------------
(* The two invocations share their data helpers.                          *)

\* The assumptions of JsonRpcProbe hold for the batched invocation too.
LEMMA DataAssumptionB ==
  /\ ArgTexts \subseteq Seq(B!Chars)
  /\ Paths \subseteq Seq(B!Chars)
  /\ Decimals \subseteq [ok : BOOLEAN, n : Int]
  /\ Texts \subseteq B!TextShape
  /\ Answers \subseteq B!AnswerShape
  /\ "jsonrpc" \in Modules
<1>1. S!Chars = B!Chars /\ S!TextShape = B!TextShape /\ S!AnswerShape = B!AnswerShape
  BY DEF S!Chars, B!Chars, S!TextShape, B!TextShape, S!AnswerShape, B!AnswerShape
<1>. QED
  BY <1>1, DataAssumption

\* The helpers of JsonRpcProbe that do not read the state are the same in
\* both instances.
LEMMA SameHelpers ==
  /\ \A s : S!TrimSpace(s) = B!TrimSpace(s)
  /\ \A s : S!parseJSONRPCParams(s) = B!parseJSONRPCParams(s)
  /\ \A p, a : S!Extract(p, a) = B!Extract(p, a)
  /\ \A t, d : S!resultToFloat64WithDecimals(t, d) = B!resultToFloat64WithDecimals(t, d)
  /\ \A d : S!ParseInt(d) = B!ParseInt(d)
  /\ S!Panic = B!Panic /\ S!Zero = B!Zero
  /\ S!ColumnNames = B!ColumnNames
  /\ S!ColumnLengths = B!ColumnLengths
  /\ \A L : S!QueryParams(L) = B!QueryParams(L)
<1>1. \A X : S!Cardinality(X) = B!Cardinality(X)
  BY DEF S!Cardinality, B!Cardinality
<1>2. \A s : S!TrimSpace(s) = B!TrimSpace(s)
  BY <1>1, Zenon DEF S!TrimSpace, B!TrimSpace
<1>3. \A s : S!parseJSONRPCParams(s) = B!parseJSONRPCParams(s)
  BY <1>1, Zenon DEF S!parseJSONRPCParams, B!parseJSONRPCParams, S!BraceDepth, B!BraceDepth
<1>4. \A p, a : S!Extract(p, a) = B!Extract(p, a)
  BY <1>2 DEF S!Extract, B!Extract, S!IsJMESPath, B!IsJMESPath, S!IdentChars, B!IdentChars,
              S!Search, B!Search, S!FieldName, B!FieldName, S!NilText, B!NilText,
              S!EmptyText, B!EmptyText
<1>5. /\ \A t, d : S!resultToFloat64WithDecimals(t, d) = B!resultToFloat64WithDecimals(t, d)
      /\ \A d : S!ParseInt(d) = B!ParseInt(d)
      /\ S!Panic = B!Panic /\ S!Zero = B!Zero
  BY DEF S!resultToFloat64WithDecimals, B!resultToFloat64WithDecimals, S!Pow10, B!Pow10,
         S!Panic, B!Panic, S!Zero, B!Zero, S!PlusInf, B!PlusInf, S!ParseInt, B!ParseInt
<1>6. /\ S!ColumnNames = B!ColumnNames
      /\ S!ColumnLengths = B!ColumnLengths
      /\ \A L : S!QueryParams(L) = B!QueryParams(L)
  BY DEF S!ColumnNames, B!ColumnNames, S!ColumnLengths, B!ColumnLengths,
         S!QueryParams, B!QueryParams
<1>. QED
  BY <1>2, <1>3, <1>4, <1>5, <1>6

\* Parameters that differ only in disableBatch give the same columns, the
\* same labels and the same reported values.
LEMMA SameColumns ==
  ASSUME SameQuery, paramsB \in B!QueryParamsType
  PROVE  /\ \A c \in B!ColumnNames : paramsS[c] = paramsB[c]
         /\ paramsS.module = paramsB.module
         /\ S!N = B!N
         /\ S!ColumnsOK = B!ColumnsOK
         /\ \A k : S!Label(k) = B!Label(k)
         /\ \A k, r : S!Reported(k, r) = B!Reported(k, r)
<1>1. \A c \in B!ColumnNames : paramsS[c] = paramsB[c]
  BY DEF SameQuery, B!QueryParamsType, B!ColumnNames
<1>2. paramsS.module = paramsB.module /\ paramsS.method = paramsB.method
  BY DEF SameQuery, B!QueryParamsType
<1>3. S!N = B!N
  BY <1>2 DEF S!N, B!N
<1>4. S!ColumnsOK = B!ColumnsOK
  BY <1>1, <1>3, SameHelpers DEF S!ColumnsOK, B!ColumnsOK
<1>5. paramsS.arg = paramsB.arg /\ paramsS.tag = paramsB.tag
      /\ paramsS.decimal = paramsB.decimal /\ paramsS.resultJMESPath = paramsB.resultJMESPath
  BY DEF SameQuery, B!QueryParamsType
<1>6. \A k : S!Label(k) = B!Label(k)
  BY <1>2, <1>5, SameHelpers DEF S!Label, B!Label
<1>7. \A k, r : S!Reported(k, r) = B!Reported(k, r)
  BY <1>5, SameHelpers DEF S!Reported, B!Reported
<1>. QED
  BY <1>1, <1>2, <1>3, <1>4, <1>6, <1>7

\* The same answer is good, or panics, for both invocations.
LEMMA SameVerdict ==
  ASSUME SameQuery, paramsB \in B!QueryParamsType, NEW k, resultsS[k] = resultsB[k]
  PROVE  /\ S!GoodAt(k) <=> B!GoodAt(k)
         /\ S!PanicAt(k) <=> B!PanicAt(k)
<1>1. paramsS.resultJMESPath = paramsB.resultJMESPath
  BY DEF SameQuery, B!QueryParamsType
<1>. QED
  BY <1>1, SameColumns, SameHelpers DEF S!GoodAt, B!GoodAt, S!PanicAt, B!PanicAt

-----------------------------------------------------------------------------
(* The registry is determined by the labels and the values.               *)

\* A nonempty set of naturals has a least element.
LEMMA LeastNat ==
  ASSUME NEW U \in SUBSET Nat, U # {}
  PROVE  \E m \in U : \A y \in U : ~(y < m)
<1>. DEFINE R == OpToRel(<, Nat)
<1>1. IsWellFoundedOn(R, Nat)
  BY NatLessThanWellFounded
<1>2. \E m \in U : \A y \in U : ~(<<y, m>> \in R)
  BY <1>1, WFMin, Zenon
<1>3. \A y, m \in Nat : y < m => <<y, m>> \in R
  BY DEF OpToRel
<1>. QED
  BY <1>2, <1>3, Zenon

\* A nonempty set of indices has a largest element.
LEMMA LastIndex ==
  ASSUME NEW n \in Nat, NEW T \in SUBSET (1..n), T # {}
  PROVE  \E k \in T : \A k2 \in T : k2 <= k
<1>. DEFINE U == {n - k : k \in T}
<1>1. \A k \in T : n - k \in Nat
  OBVIOUS
<1>2. U \in SUBSET Nat /\ U # {}
  BY <1>1 DEF U
<1>3. PICK m \in U : \A y \in U : ~(y < m)
  BY <1>2, LeastNat
<1>4. PICK k \in T : m = n - k
  BY DEF U
<1>5. \A k2 \in T : ~(n - k2 < n - k)
  BY <1>3, <1>4 DEF U
<1>. QED
  BY <1>5

-----------------------------------------------------------------------------
(* The invariant of the composition holds initially and is preserved.     *)

\* An invocation whose variables do not change takes a stuttering step.
LEMMA Stutters ==
  /\ UNCHANGED varsS => [S!Next]_S!vars
  /\ UNCHANGED varsB => [B!Next]_B!vars
BY DEF varsS, S!vars, varsB, B!vars

\* Both invocations start on the same query and the same endpoint answers,
\* so the composition starts inside EquivInv.
LEMMA InitEquiv == EquivInit => EquivInv
<1> SUFFICES ASSUME EquivInit PROVE EquivInv
  OBVIOUS
<1>1. PICK L \in S!ColumnLengths : paramsB \in S!QueryParams(L)
  BY DEF EquivInit
<1>2. paramsS \in S!QueryParams(L)
  BY <1>1 DEF EquivInit, S!QueryParams
<1>3. S!Init
  BY <1>1, <1>2 DEF EquivInit, S!Init
<1>4. B!Init
  BY <1>1, SameHelpers DEF EquivInit, B!Init
<1>5. S!IInv /\ S!StopsAtBadAnswer
  BY <1>3, S!InitIInv, S!InitStops, MaxCallsAssumption, DataAssumption
<1>6. B!IInv /\ B!StopsAtBadAnswer
  BY <1>4, B!InitIInv, B!InitStops, MaxCallsAssumption, DataAssumptionB
<1>. QED
  BY <1>5, <1>6 DEF EquivInit, EquivInv, SameQuery, AnswersFromEndpoint

\* The facts about the two invocations' types that the steps use.
LEMMA EquivTypes ==
  ASSUME EquivInv
  PROVE  /\ paramsB \in B!QueryParamsType
         /\ S!N = Len(paramsB.method) /\ B!N = Len(paramsB.method)
         /\ S!N \in Nat
         /\ resultsS \in Seq(Answers) /\ resultsB \in Seq(Answers)
         /\ iS \in 1..(S!N + 1) /\ iB \in 1..(B!N + 1)
<1>1. paramsB \in B!QueryParamsType /\ resultsS \in Seq(Answers) /\ resultsB \in Seq(Answers)
      /\ iS \in 1..(S!N + 1) /\ iB \in 1..(B!N + 1)
  BY DEF EquivInv, S!IInv, S!TypeOK, B!IInv, B!TypeOK
<1>2. S!N = B!N /\ B!N = Len(paramsB.method)
  BY <1>1, SameColumns DEF EquivInv, B!N
<1>. QED
  BY <1>1, <1>2 DEF B!QueryParamsType

\* A step of the sequential invocation.
LEMMA StepSEquiv == EquivInv /\ StepS => EquivInv'
<1> SUFFICES ASSUME EquivInv, StepS PROVE EquivInv'
  OBVIOUS
<1>0. /\ paramsB \in B!QueryParamsType /\ S!N = Len(paramsB.method) /\ S!N \in Nat
      /\ resultsS \in Seq(Answers) /\ iS \in 1..(S!N + 1)
      /\ endpoint \in [1..Len(paramsB.method) -> Answers]
      /\ Len(resultsS) <= Len(paramsB.method)
      /\ \A k \in 1..Len(resultsS) : resultsS[k] = endpoint[k]
  BY EquivTypes DEF EquivInv, AnswersFromEndpoint
<1>1. ASSUME S!CallReturn(endpoint[iS])
      PROVE  /\ [S!Next]_S!vars
             /\ Len(resultsS') <= Len(paramsB.method)
             /\ \A k \in 1..Len(resultsS') : resultsS'[k] = endpoint[k]
  <2>1. pcS = "await" /\ iS \in 1..S!N /\ Len(resultsS) = iS - 1
    BY <1>0, <1>1 DEF S!CallReturn, EquivInv, S!IInv, S!Control
  <2>2. endpoint[iS] \in Answers
    BY <1>0, <2>1
  <2>3. [S!Next]_S!vars
    BY <1>1, <2>2 DEF S!Next
  <2>4. resultsS' = resultsS \/ resultsS' = Append(resultsS, endpoint[iS])
    BY <1>1 DEF S!CallReturn
  <2>5. /\ Len(resultsS') <= Len(paramsB.method)
        /\ \A k \in 1..Len(resultsS') : resultsS'[k] = endpoint[k]
    BY <1>0, <2>1, <2>4
  <2>. QED
    BY <2>3, <2>5
<1>2. ASSUME ~S!CallReturn(endpoint[iS])
      PROVE  /\ [S!Next]_S!vars
             /\ Len(resultsS') <= Len(paramsB.method)
             /\ \A k \in 1..Len(resultsS') : resultsS'[k] = endpoint[k]
  <2>1. \/ S!Dial \/ S!CheckColumns \/ S!Dispatch \/ S!CallSend \/ S!LoopDone \/ S!Return
    BY <1>2 DEF StepS
  <2>2. [S!Next]_S!vars /\ resultsS' = resultsS
    BY <2>1 DEF S!Next, S!Dial, S!CheckColumns, S!Dispatch, S!CallSend, S!LoopDone, S!Return
  <2>. QED
    BY <1>0, <2>2
<1>2a. /\ [S!Next]_S!vars
       /\ Len(resultsS') <= Len(paramsB.method)
       /\ \A k \in 1..Len(resultsS') : resultsS'[k] = endpoint[k]
  BY <1>1, <1>2
<1>3. S!IInv' /\ S!StopsAtBadAnswer' /\ paramsS' = paramsS
  BY <1>2a, S!NextIInv, S!NextStops, S!NextParams, MaxCallsAssumption, DataAssumption DEF EquivInv
<1>4. B!IInv' /\ B!StopsAtBadAnswer'
  BY Stutters, B!NextIInv, B!NextStops, MaxCallsAssumption, DataAssumptionB DEF StepS, EquivInv
<1>5. UNCHANGED <<endpoint, paramsB, resultsB>>
  BY DEF StepS, varsB
<1>. QED
  BY <1>2a, <1>3, <1>4, <1>5 DEF EquivInv, SameQuery, AnswersFromEndpoint

\* A step of the batched invocation.
LEMMA StepBEquiv == EquivInv /\ StepB => EquivInv'
<1> SUFFICES ASSUME EquivInv, StepB PROVE EquivInv'
  OBVIOUS
<1>0. /\ B!N = Len(paramsB.method)
      /\ endpoint \in [1..Len(paramsB.method) -> Answers]
  BY EquivTypes DEF EquivInv, AnswersFromEndpoint
<1>1. ASSUME B!BatchReturn(endpoint)
      PROVE  [B!Next]_B!vars /\ (resultsB' = resultsB \/ resultsB' = endpoint)
  <2>1. [B!Next]_B!vars
    BY <1>0, <1>1 DEF B!Next
  <2>2. resultsB' = resultsB \/ resultsB' = endpoint
    BY <1>1 DEF B!BatchReturn
  <2>. QED
    BY <2>1, <2>2
<1>2. ASSUME ~B!BatchReturn(endpoint)
      PROVE  [B!Next]_B!vars /\ (resultsB' = resultsB \/ resultsB' = endpoint)
  <2>1. \/ B!Dial \/ B!CheckColumns \/ B!Dispatch \/ B!BuildBatch \/ B!WalkElem
        \/ B!LoopDone \/ B!Return
    BY <1>2 DEF StepB
  <2>. QED
    BY <2>1 DEF B!Next, B!Dial, B!CheckColumns, B!Dispatch, B!BuildBatch, B!WalkElem,
                B!LoopDone, B!Return
<1>2a. [B!Next]_B!vars /\ (resultsB' = resultsB \/ resultsB' = endpoint)
  BY <1>1, <1>2
<1>3. B!IInv' /\ B!StopsAtBadAnswer' /\ paramsB' = paramsB
  BY <1>2a, B!NextIInv, B!NextStops, B!NextParams, MaxCallsAssumption, DataAssumptionB DEF EquivInv
<1>4. S!IInv' /\ S!StopsAtBadAnswer'
  BY Stutters, S!NextIInv, S!NextStops, MaxCallsAssumption, DataAssumption DEF StepB, EquivInv
<1>5. UNCHANGED <<endpoint, paramsS, resultsS>>
  BY DEF StepB, varsS
<1>. QED
  BY <1>2a, <1>3, <1>4, <1>5 DEF EquivInv, SameQuery, AnswersFromEndpoint

\* A step of either invocation, or of neither, keeps EquivInv.
LEMMA NextEquiv == EquivInv /\ [EquivNext]_allVars => EquivInv'
<1> SUFFICES ASSUME EquivInv, [EquivNext]_allVars PROVE EquivInv'
  OBVIOUS
<1>1. CASE StepS
  BY <1>1, StepSEquiv
<1>2. CASE StepB
  BY <1>2, StepBEquiv
<1>3. CASE BothReturned \/ UNCHANGED allVars
  <2>1. UNCHANGED <<endpoint, varsS, varsB>>
    BY <1>3 DEF BothReturned, allVars
  <2>2. /\ S!IInv' /\ S!StopsAtBadAnswer'
        /\ B!IInv' /\ B!StopsAtBadAnswer'
    BY <2>1, Stutters, S!NextIInv, S!NextStops, B!NextIInv, B!NextStops, MaxCallsAssumption,
       DataAssumption, DataAssumptionB DEF EquivInv
  <2>. QED
    BY <2>1, <2>2 DEF EquivInv, SameQuery, AnswersFromEndpoint, varsS, varsB
<1>. QED
  BY <1>1, <1>2, <1>3 DEF EquivNext

-----------------------------------------------------------------------------
(* The two modes agree.                                                    *)

LEMMA EquivSafe == EquivInv => BatchMatchesSequential
<1> SUFFICES ASSUME EquivInv,
                    \A k \in DOMAIN paramsB.arg : S!parseJSONRPCParams(paramsB.arg[k]),
                    pcS = "done", pcB = "done",
                    reasonS \notin {"dial", "transport"}, reasonB \notin {"dial", "transport"}
             PROVE  /\ outcomeS = outcomeB
                    /\ outcomeS = "success" => gaugeS = gaugeB
  BY DEF BatchMatchesSequential
<1>. DEFINE n == Len(paramsB.method)
<1>0. /\ paramsB \in B!QueryParamsType /\ S!N = n /\ B!N = n
      /\ resultsS \in Seq(Answers) /\ resultsB \in Seq(Answers)
      /\ SameQuery
      /\ endpoint \in [1..n -> Answers]
      /\ Len(resultsS) <= n
      /\ \A k \in 1..Len(resultsS) : resultsS[k] = endpoint[k]
      /\ (resultsB = <<>> \/ resultsB = endpoint)
  BY EquivTypes DEF EquivInv, AnswersFromEndpoint
<1>1. /\ paramsS.arg = paramsB.arg /\ paramsS.module = paramsB.module
      /\ S!ColumnsOK = B!ColumnsOK
      /\ \A k : S!Label(k) = B!Label(k)
      /\ \A k, r : S!Reported(k, r) = B!Reported(k, r)
  <2>1. paramsS.arg = paramsB.arg
    BY <1>0 DEF SameQuery, B!QueryParamsType
  <2>. QED
    BY <1>0, <2>1, SameColumns
<1>2. reasonS # "parse" /\ reasonB # "parse"
  <2>1. reasonS # "parse"
    BY <1>1 DEF EquivInv, S!StopsAtBadAnswer
  <2>2. reasonB # "parse"
    BY SameHelpers DEF EquivInv, B!StopsAtBadAnswer
  <2>. QED
    BY <2>1, <2>2
<1>3. CASE ~B!ColumnsOK
  <2>1. outcomeS = "failure" /\ outcomeB = "failure"
    BY <1>1, <1>3 DEF EquivInv, S!IInv, S!Control, B!IInv, B!Control
  <2>. QED
    BY <2>1
<1>4. CASE B!ColumnsOK
  <2>1. /\ n \in Nat \ {0}
        /\ outcomeS \in {"success", "failure", "panic"}
        /\ paramsS.module # "jsonrpc" => outcomeS = "success" /\ iS = 1
        /\ outcomeS = "success" /\ paramsS.module = "jsonrpc" => iS = n + 1 /\ Len(resultsS) = n
        /\ outcomeS # "success" =>
             /\ iS \in 1..Len(resultsS) /\ ~S!GoodAt(iS)
             /\ (outcomeS = "panic" <=> S!PanicAt(iS))
        /\ \A k \in 1..(iS - 1) : S!GoodAt(k)
        /\ S!SeriesOf(iS - 1)
        /\ gaugeS = [x \in DOMAIN gaugeS |-> gaugeS[x]]
    BY <1>0, <1>1, <1>2, <1>4, S!StoppedProbe, MaxCallsAssumption, DataAssumption DEF EquivInv
  <2>2. /\ outcomeB \in {"success", "failure", "panic"}
        /\ paramsB.module # "jsonrpc" => outcomeB = "success" /\ iB = 1
        /\ outcomeB = "success" /\ paramsB.module = "jsonrpc" => iB = n + 1 /\ Len(resultsB) = n
        /\ outcomeB # "success" =>
             /\ iB \in 1..Len(resultsB) /\ ~B!GoodAt(iB)
             /\ (outcomeB = "panic" <=> B!PanicAt(iB))
        /\ \A k \in 1..(iB - 1) : B!GoodAt(k)
        /\ B!SeriesOf(iB - 1)
        /\ gaugeB = [x \in DOMAIN gaugeB |-> gaugeB[x]]
    BY <1>0, <1>2, <1>4, B!StoppedProbe, MaxCallsAssumption, DataAssumptionB DEF EquivInv
  \* Outside the "jsonrpc" case both return true with an empty registry.
  <2>3. CASE paramsB.module # "jsonrpc"
    <3>1. outcomeS = "success" /\ outcomeB = "success" /\ iS = 1 /\ iB = 1
      BY <1>1, <2>1, <2>2, <2>3
    <3>2. DOMAIN gaugeS = {} /\ DOMAIN gaugeB = {}
      BY <2>1, <2>2, <3>1 DEF S!SeriesOf, B!SeriesOf
    <3>. QED
      BY <2>1, <2>2, <3>1, <3>2
  \* In the "jsonrpc" case both read the endpoint's answers.
  <2>4. CASE paramsB.module = "jsonrpc"
    <3>1. resultsB = endpoint /\ Len(resultsB) = n
      <4>1. resultsB # <<>>
        BY <2>1, <2>2, <2>4
      <4>. QED
        BY <1>0, <4>1
    <3>2. \A k \in 1..Len(resultsS) : resultsS[k] = resultsB[k]
      BY <1>0, <3>1
    <3>3. \A k \in 1..Len(resultsS) : /\ S!GoodAt(k) <=> B!GoodAt(k)
                                      /\ S!PanicAt(k) <=> B!PanicAt(k)
      BY <1>0, <3>2, SameVerdict
    <3>4. CASE outcomeS = "success"
      <4>1. iS = n + 1 /\ Len(resultsS) = n
        BY <1>1, <2>1, <2>4, <3>4
      <4>2. \A k \in 1..n : B!GoodAt(k)
        BY <2>1, <3>3, <4>1
      <4>3. outcomeB = "success"
        BY <2>2, <3>1, <4>2
      <4>4. iB = n + 1
        BY <2>2, <2>4, <4>3
      <4>5. gaugeS = gaugeB
        <5>p. PICK lab, val : /\ lab = [k \in 1..n |-> S!Label(k)]
                              /\ val = [k \in 1..n |-> S!Reported(k, resultsS[k])]
          OBVIOUS
        <5>0. \A k \in 1..n : lab[k] = S!Label(k) /\ val[k] = S!Reported(k, resultsS[k])
          BY <5>p
        <5>1. /\ DOMAIN gaugeS = {lab[k] : k \in 1..n}
              /\ \A k \in 1..n : (\A k2 \in (k + 1)..n : lab[k2] # lab[k]) => gaugeS[lab[k]] = val[k]
          <6>1. iS - 1 = n /\ n \in Nat
            BY <2>1, <4>1
          <6>2. S!SeriesOf(n)
            BY <2>1, <6>1
          <6>3. /\ DOMAIN gaugeS = {S!Label(k) : k \in 1..n}
                /\ \A k \in 1..n : (\A k2 \in (k + 1)..n : S!Label(k2) # S!Label(k))
                                     => gaugeS[S!Label(k)] = S!Reported(k, resultsS[k])
            BY <6>2 DEF S!SeriesOf
          <6>4. DOMAIN gaugeS = {lab[k] : k \in 1..n}
            <7>1. ASSUME NEW x \in DOMAIN gaugeS PROVE x \in {lab[k] : k \in 1..n}
              BY <6>3, <5>0
            <7>2. ASSUME NEW k \in 1..n PROVE lab[k] \in DOMAIN gaugeS
              BY <6>3, <5>0
            <7>. QED
              BY <7>1, <7>2
          <6>5. \A k \in 1..n : (\A k2 \in (k + 1)..n : lab[k2] # lab[k]) => gaugeS[lab[k]] = val[k]
            <7> SUFFICES ASSUME NEW k \in 1..n, \A k2 \in (k + 1)..n : lab[k2] # lab[k]
                         PROVE  gaugeS[lab[k]] = val[k]
              OBVIOUS
            <7>1. \A k2 \in (k + 1)..n : k2 \in 1..n
              BY <6>1
            <7>2. \A k2 \in (k + 1)..n : S!Label(k2) # S!Label(k)
              BY <7>1, <5>0
            <7>. QED
              BY <7>2, <6>3, <5>0
          <6>. QED
            BY <6>4, <6>5
        <5>2. \A k \in 1..n : B!Label(k) = lab[k] /\ B!Reported(k, resultsB[k]) = val[k]
          BY <1>1, <3>2, <4>1, <5>0
        <5>3. /\ DOMAIN gaugeB = {lab[k] : k \in 1..n}
              /\ \A k \in 1..n : (\A k2 \in (k + 1)..n : lab[k2] # lab[k]) => gaugeB[lab[k]] = val[k]
          <6>1. iB - 1 = n /\ n \in Nat
            BY <2>1, <4>4
          <6>2. B!SeriesOf(n)
            BY <2>2, <6>1
          <6>3. /\ DOMAIN gaugeB = {B!Label(k) : k \in 1..n}
                /\ \A k \in 1..n : (\A k2 \in (k + 1)..n : B!Label(k2) # B!Label(k))
                                     => gaugeB[B!Label(k)] = B!Reported(k, resultsB[k])
            BY <6>2 DEF B!SeriesOf
          <6>4. DOMAIN gaugeB = {lab[k] : k \in 1..n}
            <7>1. ASSUME NEW x \in DOMAIN gaugeB PROVE x \in {lab[k] : k \in 1..n}
              BY <6>3, <5>2
            <7>2. ASSUME NEW k \in 1..n PROVE lab[k] \in DOMAIN gaugeB
              BY <6>3, <5>2
            <7>. QED
              BY <7>1, <7>2
          <6>5. \A k \in 1..n : (\A k2 \in (k + 1)..n : lab[k2] # lab[k]) => gaugeB[lab[k]] = val[k]
            <7> SUFFICES ASSUME NEW k \in 1..n, \A k2 \in (k + 1)..n : lab[k2] # lab[k]
                         PROVE  gaugeB[lab[k]] = val[k]
              OBVIOUS
            <7>1. \A k2 \in (k + 1)..n : k2 \in 1..n
              BY <6>1
            <7>2. \A k2 \in (k + 1)..n : B!Label(k2) # B!Label(k)
              BY <7>1, <5>2
            <7>. QED
              BY <7>2, <6>3, <5>2
          <6>. QED
            BY <6>4, <6>5
        <5>4. /\ n \in Nat
              /\ gaugeS = [x \in DOMAIN gaugeS |-> gaugeS[x]]
              /\ gaugeB = [x \in DOMAIN gaugeB |-> gaugeB[x]]
          BY <2>1, <2>2
        <5>5. \A k \in 1..n : (\A k2 \in (k + 1)..n : lab[k2] # lab[k])
                                 => gaugeS[lab[k]] = val[k] /\ gaugeB[lab[k]] = val[k]
          BY <5>1, <5>3
        <5>6. ASSUME NEW x \in DOMAIN gaugeS PROVE gaugeS[x] = gaugeB[x]
          <6>1. PICK T : T = {k \in 1..n : lab[k] = x}
            OBVIOUS
          <6>2. T \in SUBSET (1..n) /\ T # {}
            BY <5>1, <6>1
          <6>3. PICK k \in T : \A k2 \in T : k2 <= k
            BY <5>4, <6>2, LastIndex
          <6>4. k \in 1..n /\ lab[k] = x /\ \A k2 \in (k + 1)..n : lab[k2] # lab[k]
            BY <5>4, <6>1, <6>3
          <6>. QED
            BY <5>5, <6>4
        <5>. QED
          BY <5>1, <5>3, <5>4, <5>6
      <4>. QED
        BY <3>4, <4>3, <4>5
    <3>5. CASE outcomeS # "success"
      <4>1. /\ iS \in 1..Len(resultsS)
            /\ ~B!GoodAt(iS) /\ (outcomeS = "panic" <=> B!PanicAt(iS))
            /\ \A k \in 1..(iS - 1) : B!GoodAt(k)
        BY <1>0, <2>1, <3>3, <3>5
      <4>2. outcomeB # "success"
        BY <1>0, <2>2, <2>4, <4>1
      <4>3. /\ iB \in 1..Len(resultsB) /\ ~B!GoodAt(iB)
            /\ (outcomeB = "panic" <=> B!PanicAt(iB))
        BY <2>2, <4>2
      <4>4. iB = iS
        BY <1>0, <2>2, <4>1, <4>3
      <4>. QED
        BY <2>1, <2>2, <3>5, <4>1, <4>2, <4>3, <4>4
    <3>. QED
      BY <3>4, <3>5
  <2>. QED
    BY <2>3, <2>4
<1>. QED
  BY <1>3, <1>4

-----------------------------------------------------------------------------
(* The theorems.                                                           *)

\* Every reachable state of the composition satisfies EquivInv.
THEOREM EquivInvHolds == EquivSpec => []EquivInv
<1>1. EquivInit => EquivInv
  BY InitEquiv
<1>2. EquivInv /\ [EquivNext]_allVars => EquivInv'
  BY NextEquiv
<1>. QED
  BY <1>1, <1>2, PTL DEF EquivSpec

(***************************************************************************)
(* Batching is a wire optimisation, not a change of behaviour (spec        *)
(* section 8): when every argument text parses and neither invocation met *)
(* a dial or transport failure, the batched and the sequential probe      *)
(* return the same outcome and, when they succeed, leave the same         *)
(* probe_jsonrpc series and values.  Covers the batch path's unchecked    *)
(* per-element errors (line 352) and the two copies of the extraction     *)
(* code (lines 296-315 and 354-374).                                      *)
(***************************************************************************)
THEOREM BatchMatchesSequentialHolds == EquivSpec => []BatchMatchesSequential
BY EquivInvHolds, EquivSafe, PTL

=============================================================================
