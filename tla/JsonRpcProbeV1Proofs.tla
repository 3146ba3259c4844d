------------------------ MODULE JsonRpcProbeV1Proofs ------------------------
(***************************************************************************)
(* Proofs about the old revision of ProbeJSONRPC (JsonRpcProbeV1), for     *)
(* every value of the constants: type correctness, including that every    *)
(* parameter stringsToSlice puts in a call is an int64, a bool or a        *)
(* string of the argument's characters, and that the probe_jsonrpc series  *)
(* always match the descriptors handled so far.  The control facts of the  *)
(* current revision (Control) hold unchanged: both revisions share Dial,   *)
(* the column checks, the switch and the loop structure.                   *)
(***************************************************************************)
EXTENDS JsonRpcProbeV1, JsonRpcProbeProofs, FiniteSetTheorems, SequenceTheorems

-----------------------------------------------------------------------------
(* Lemmas about the string helpers of stringsToSlice (lines 40-72).        *)

\* A set of positions of a text of length n has at most n elements.
LEMMA PositionsBound ==
  ASSUME NEW n \in Nat, NEW T \in SUBSET (1..n)
  PROVE  Cardinality(T) \in 0..n
<1>1. IsFiniteSet(1..n) /\ Cardinality(1..n) = n
  BY FS_Interval
<1>2. IsFiniteSet(T) /\ Cardinality(T) <= n
  BY <1>1, FS_Subset
<1>. QED
  BY <1>2, FS_CardinalityType

\* Bounds of a slice from a count of leading and of trailing positions.
LEMMA SliceBounds ==
  ASSUME NEW n \in Nat, NEW a \in 0..n, NEW b \in 0..n
  PROVE  a + 1 \in 1..(n + 1) /\ 1 + a \in 1..(n + 1) /\ n - b \in 0..n
OBVIOUS

\* A slice of a text between two positions inside it is again a text
\* over the same characters (an empty slice when lo > hi).
LEMMA SliceTyped ==
  ASSUME NEW C, NEW s \in Seq(C), NEW lo \in 1..(Len(s) + 1), NEW hi \in 0..Len(s)
  PROVE  SubSeq(s, lo, hi) \in Seq(C)
<1>1. \A k \in lo..hi : s[k] \in C
  OBVIOUS
<1>. QED
  BY <1>1, SubSeqProperties

\* strings.TrimSpace keeps the characters of its argument.
LEMMA TrimSpaceTyped ==
  ASSUME NEW C, NEW s \in Seq(C)
  PROVE  TrimSpace(s) \in Seq(C)
<1>. DEFINE lead  == Cardinality({k \in DOMAIN s : \A j \in 1..k : s[j] = " "})
            trail == Cardinality({k \in DOMAIN s : \A j \in k..Len(s) : s[j] = " "})
<1>0. Len(s) \in Nat /\ DOMAIN s = 1..Len(s)
  OBVIOUS
<1>1. lead \in 0..Len(s)
  BY <1>0, PositionsBound
<1>2. trail \in 0..Len(s)
  BY <1>0, PositionsBound
<1>3. TrimSpace(s) = SubSeq(s, lead + 1, Len(s) - trail)
  BY DEF TrimSpace
<1>4. lead + 1 \in 1..(Len(s) + 1) /\ Len(s) - trail \in 0..Len(s)
  BY <1>0, <1>1, <1>2, SliceBounds
<1>. QED
  BY <1>3, <1>4, SliceTyped

\* Every part strings.Split cuts from a text is a text over its characters.
LEMMA SplitCommaTyped ==
  ASSUME NEW C, NEW s \in Seq(C), NEW j \in DOMAIN SplitComma(s)
  PROVE  SplitComma(s)[j] \in Seq(C)
<1>. DEFINE before(k) == Cardinality({m \in 1..(k - 1) : s[m] = ","})
            lo == 1 + Cardinality({k \in DOMAIN s : before(k) < j - 1})
            hi == Cardinality({k \in DOMAIN s : before(k) < j - 1 \/ (before(k) = j - 1 /\ s[k] # ",")})
<1>0. Len(s) \in Nat /\ DOMAIN s = 1..Len(s)
  OBVIOUS
<1>1. lo \in 1..(Len(s) + 1) /\ hi \in 0..Len(s)
  <2>1. Cardinality({k \in DOMAIN s : before(k) < j - 1}) \in 0..Len(s)
    BY <1>0, PositionsBound
  <2>2. hi \in 0..Len(s)
    BY <1>0, PositionsBound
  <2>3. lo \in 1..(Len(s) + 1)
    BY <1>0, <2>1, SliceBounds, Zenon
  <2>. QED
    BY <2>2, <2>3
<1>2. j \in 1..(1 + Cardinality({k \in DOMAIN s : s[k] = ","}))
  BY DEF SplitComma
<1>3. SplitComma(s)[j] = SubSeq(s, lo, hi)
  BY <1>2 DEF SplitComma
<1>. QED
  BY <1>1, <1>3, SliceTyped

\* ParseInt yields an integer.
LEMMA IntValueTyped ==
  ASSUME NEW p
  PROVE  IntValue(p) \in Int
<1>1. ASSUME NEW d PROVE DecimalValue(d) \in Int
  <2>. DEFINE Spells(n) == \A k \in 1..Len(d) : (n \div 10^(Len(d) - k)) % 10 = DigitValue(d[k])
              Below == 0..(10^Len(d) - 1)
  <2>1. DecimalValue(d) = IF \E n \in Below : Spells(n) THEN CHOOSE n \in Below : Spells(n) ELSE 0
    BY DEF DecimalValue
  <2>2. Below \subseteq Int
    OBVIOUS
  <2>3. (\E n \in Below : Spells(n)) => (CHOOSE n \in Below : Spells(n)) \in Below
    BY Zenon
  <2>. QED
    BY <2>1, <2>2, <2>3
<1>. QED
  BY <1>1 DEF IntValue

\* Each trimmed part becomes an int64, a bool or a string of its characters.
LEMMA CoerceTyped ==
  ASSUME NEW p \in Seq(Chars)
  PROVE  IsArgValue(Coerce(p))
<1>1. IntValue(p) \in Int
  BY IntValueTyped
<1>2. CASE IsInt(p)
  <2>1. Coerce(p) = [t |-> "int", v |-> IntValue(p)]
    BY <1>2 DEF Coerce
  <2>. QED
    BY <1>1, <2>1 DEF IsArgValue
<1>3. CASE ~IsInt(p) /\ p \in GoTrue \cup GoFalse
  <2>1. Coerce(p) = [t |-> "bool", v |-> p \in GoTrue]
    BY <1>3 DEF Coerce
  <2>. QED
    BY <2>1 DEF IsArgValue
<1>4. CASE ~IsInt(p) /\ p \notin GoTrue \cup GoFalse
  <2>1. Coerce(p) = [t |-> "str", v |-> p]
    BY <1>4 DEF Coerce
  <2>. QED
    BY <2>1 DEF IsArgValue
<1>. QED
  BY <1>2, <1>3, <1>4

\* Every parameter stringsToSlice makes of an argument text is an int64, a
\* bool or a string.
LEMMA StringsToSliceTyped ==
  ASSUME NEW s \in Seq(Chars), NEW j \in DOMAIN stringsToSlice(s)
  PROVE  IsArgValue(stringsToSlice(s)[j])
<1>1. CASE s = <<>>
  BY <1>1 DEF stringsToSlice
<1>2. CASE s # <<>>
  <2>1. j \in DOMAIN SplitComma(s)
    BY <1>2 DEF stringsToSlice
  <2>2. TrimSpace(SplitComma(s)[j]) \in Seq(Chars)
    BY <2>1, SplitCommaTyped, TrimSpaceTyped
  <2>3. stringsToSlice(s)[j] = Coerce(TrimSpace(SplitComma(s)[j]))
    BY <1>2, <2>1 DEF stringsToSlice
  <2>. QED
    BY <2>2, <2>3, CoerceTyped
<1>. QED
  BY <1>1, <1>2


-----------------------------------------------------------------------------
(* The inductive invariant of the old revision.  Besides the control facts *)
(* of the current revision, it says how many calls have been sent: one per *)
(* descriptor reached by the loop (line 126), or one per descriptor at     *)
(* once in a batch (line 167).  The typing of the calls' parameters needs  *)
(* this: a sent call is appended after the ones already sent.              *)
(***************************************************************************)
CallsSent ==
  /\ pc \in {"dial", "columns", "dispatch", "build"} => calls = <<>>
  /\ pc \in {"loop", "return"} => DOMAIN calls = 1..(i - 1)
  /\ pc = "await" => DOMAIN calls = 1..i
  /\ pc \in {"batch", "walk"} => DOMAIN calls = 1..N
  /\ \E n \in 0..N : calls = [k \in 1..n |-> calls[k]]

IInvV1 == TypeOKV1 /\ Control /\ CallsSent /\ SeriesMatchCompletedCallsV1


-----------------------------------------------------------------------------
(* Lemmas about the old revision's extraction and Record.                  *)

\* Both extractions yield a text of the shape the normaliser reads, and end
\* in success, a failure with a reason of the probe, or the batch panic.
LEMMA ExtractV1Typed ==
  ASSUME NEW k, NEW a \in AnswerShape
  PROVE  /\ ExtractV1(k, a).text \in TextShape
         /\ ExtractV1(k, a).ok \in BOOLEAN
         /\ ExtractV1(k, a).reason \in Reasons \cup {"panic"}
BY DEF ExtractV1, SeqExtract, BatchExtract, Search, NilText, EmptyText, MarshalledText,
       AnswerShape, TextShape, Reasons

\* The value reported for an aligned descriptor is a gauge value or Panic.
LEMMA ReportedV1Typed ==
  ASSUME TypeOKV1, ColumnsOK, NEW k \in 1..N, NEW r \in Answers
  PROVE  ReportedV1(k, r) \in Values \cup {Panic}
<1>1. params.decimal[k] \in Decimals
  BY DEF TypeOKV1, QueryParamsType, ColumnsOK, ColumnNames, N
<1>2. ParseInt(params.decimal[k]) \in Int
  BY <1>1, DataAssumption DEF ParseInt
<1>3. ExtractV1(k, r).text \in TextShape
  BY ExtractV1Typed, DataAssumption
<1>. QED
  BY <1>2, <1>3, NormaliserTyped DEF ReportedV1

\* The labels of an aligned descriptor are among the possible labels.
LEMMA LabelV1Typed ==
  ASSUME TypeOKV1, ColumnsOK, NEW k \in 1..N
  PROVE  LabelV1(k) \in LabelsV1
<1>1. /\ params.method[k] \in Methods
      /\ params.arg[k] \in ArgTexts
      /\ params.tag[k] \in Tags
  BY DEF TypeOKV1, QueryParamsType, ColumnsOK, ColumnNames, N
<1>. QED
  BY <1>1 DEF LabelV1, LabelsV1

\* RecordV1, run at the loop index of aligned columns, keeps the gauge well
\* typed and either moves on to the next descriptor or ends the probe.
LEMMA RecordV1Step ==
  ASSUME TypeOKV1, ColumnsOK, i \in 1..N, NEW r \in Answers, NEW next \in PCs,
         params' = params, RecordV1(i, r, next)
  PROVE  /\ DOMAIN gauge' \subseteq LabelsV1
         /\ gauge' \in [DOMAIN gauge' -> Values]
         /\ i' \in 1..(N + 1)
         /\ reason' \in Reasons
         /\ \/ /\ pc' = next /\ outcome' = outcome /\ i' = i + 1
               /\ gauge' = SetGauge(LabelV1(i), ReportedV1(i, r))
            \/ pc' = "done" /\ outcome' \in {"failure", "panic"} /\ UNCHANGED <<i, gauge>>
<1>. DEFINE x == ExtractV1(i, r)
            v == ReportedV1(i, r)
<1>1. x.reason \in Reasons \cup {"panic"}
  BY ExtractV1Typed, DataAssumption
<1>2. LabelV1(i) \in LabelsV1 /\ v \in Values \cup {Panic}
  BY LabelV1Typed, ReportedV1Typed
<1>3. CASE ~x.ok /\ x.reason # "panic" /\ Fail(x.reason) /\ UNCHANGED <<i, gauge>>
  BY <1>1, <1>3 DEF Fail, TypeOKV1, N
<1>4. CASE (x.reason = "panic" \/ (x.ok /\ v = Panic)) /\ outcome' = "panic" /\ pc' = "done"
           /\ UNCHANGED <<i, gauge, reason>>
  BY <1>4 DEF TypeOKV1, N
<1>5. CASE x.ok /\ v # Panic /\ gauge' = SetGauge(LabelV1(i), v) /\ i' = i + 1 /\ pc' = next
           /\ UNCHANGED <<outcome, reason>>
  <2>1. v \in Values
    BY <1>2, <1>5
  <2>. QED
    BY <1>2, <1>5, <2>1 DEF SetGauge, TypeOKV1, N
<1>. QED
  BY <1>3, <1>4, <1>5 DEF RecordV1

\* Appending to a sequence given by its domain.
LEMMA AppendDomain ==
  ASSUME NEW f, NEW n \in Nat, f = [k \in 1..n |-> f[k]], NEW x
  PROVE  /\ DOMAIN Append(f, x) = 1..(n + 1)
         /\ \A k \in 1..n : Append(f, x)[k] = f[k]
         /\ Append(f, x)[n + 1] = x
<1>0. f \in [1..n -> {f[k] : k \in 1..n}]
  OBVIOUS
<1>1. f \in Seq({f[k] : k \in 1..n}) /\ Len(f) = n
  BY <1>0, FunIsSeq
<1>. QED
  BY <1>1

-----------------------------------------------------------------------------
(* The registry invariant of the old revision.                            *)

\* A step that leaves the gauge, the index, the parameters and the handled
\* results alone keeps the registry invariant.
LEMMA SeriesFrameV1 ==
  ASSUME SeriesOfV1(i - 1), params' = params, gauge' = gauge, i' = i,
         \A k \in 1..(i - 1) : results'[k] = results[k]
  PROVE  SeriesOfV1(i - 1)'
<1>1. \A k \in 1..(i - 1) : LabelV1(k)' = LabelV1(k)
  BY DEF LabelV1
<1>2. \A k \in 1..(i - 1) : ReportedV1(k, results[k])' = ReportedV1(k, results[k])
  BY DEF ReportedV1, ExtractV1
<1>. QED
  BY <1>1, <1>2 DEF SeriesOfV1

\* Setting descriptor i's series from its result r extends the invariant
\* from descriptors 1..i-1 to 1..i.
LEMMA SeriesAdvanceV1 ==
  ASSUME TypeOKV1, ColumnsOK, i \in 1..N, SeriesOfV1(i - 1), params' = params, NEW r,
         i' = i + 1, gauge' = SetGauge(LabelV1(i), ReportedV1(i, r)),
         \A k \in 1..(i - 1) : results'[k] = results[k], results'[i] = r
  PROVE  SeriesOfV1(i - 1)'
<1>0. i' - 1 = i /\ i \in Nat
  BY DEF TypeOKV1
<1>1. \A k \in 1..i : LabelV1(k)' = LabelV1(k)
  BY DEF LabelV1
<1>2. \A k \in 1..(i - 1) : ReportedV1(k, results[k])' = ReportedV1(k, results[k])
  BY DEF ReportedV1, ExtractV1
<1>a. PICK j \in 1..N : j = i
  OBVIOUS
<1>3. ReportedV1(j, results[j])' = ReportedV1(i, r)
  BY <1>a DEF ReportedV1, ExtractV1
<1>4. DOMAIN gauge' = {LabelV1(k) : k \in 1..i}
  <2>1. DOMAIN gauge = {LabelV1(k) : k \in 1..(i - 1)}
    BY DEF SeriesOfV1
  <2>. QED
    BY <1>0, <2>1 DEF SetGauge
<1>5. ASSUME NEW k \in 1..i, \A k2 \in (k + 1)..i : LabelV1(k2) # LabelV1(k)
      PROVE  gauge'[LabelV1(k)] = ReportedV1(k, results[k])'
  <2>1. CASE k = i
    BY <1>a, <1>3, <2>1 DEF SetGauge
  <2>2. CASE k # i
    <3>1. k \in 1..(i - 1) /\ LabelV1(i) # LabelV1(k)
      BY <1>0, <1>5, <2>2
    <3>2. LabelV1(k) \in DOMAIN gauge
      BY <3>1 DEF SeriesOfV1
    <3>3. gauge[LabelV1(k)] = ReportedV1(k, results[k])
      BY <1>0, <1>5, <3>1 DEF SeriesOfV1
    <3>. QED
      BY <1>2, <3>1, <3>2, <3>3 DEF SetGauge
  <2>. QED
    BY <2>1, <2>2
<1>. QED
  BY <1>0, <1>1, <1>4, <1>5 DEF SeriesOfV1


-----------------------------------------------------------------------------
(* The invariant holds initially and is preserved by every step.           *)

LEMMA InitIInvV1 == InitV1 => IInvV1
<1> SUFFICES ASSUME InitV1 PROVE IInvV1
  OBVIOUS
<1>1. IInv
  BY InitIInv DEF InitV1
<1>2. DOMAIN gauge = {} /\ calls = <<>> /\ pc = "dial" /\ i = 1
  BY DEF InitV1, Init
<1>3. TypeOKV1
  BY <1>1, <1>2 DEF IInv, TypeOK, TypeOKV1
<1>4. CallsSent
  <2>1. N \in Nat
    BY <1>1 DEF IInv, TypeOK, QueryParamsType, N
  <2>2. calls = [k \in 1..0 |-> calls[k]]
    BY <1>2
  <2>. QED
    BY <1>2, <2>1, <2>2 DEF CallsSent
<1>5. SeriesMatchCompletedCallsV1
  BY <1>2 DEF SeriesMatchCompletedCallsV1, SeriesOfV1
<1>. QED
  BY <1>1, <1>3, <1>4, <1>5 DEF IInv, IInvV1



\* The steps shared with the current revision leave the calls alone.
LEMMA SharedStepIInvV1 ==
  ASSUME IInvV1, SharedStep
  PROVE  (TypeOKV1 /\ Control /\ CallsSent)'
<1>. USE DEF IInvV1
<1>0. N \in Nat /\ UNCHANGED calls
  BY DEF SharedStep, TypeOKV1, QueryParamsType, N
<1>1. CASE Dial
  BY <1>0, <1>1 DEF Dial, Fail, TypeOKV1, Control, CallsSent, PCs, Reasons, N, ColumnsOK
<1>2. CASE CheckColumns
  BY <1>0, <1>2 DEF CheckColumns, Fail, TypeOKV1, Control, CallsSent, PCs, Reasons, N, ColumnsOK
<1>3. CASE Dispatch
  <2>1. pc = "dispatch" /\ ColumnsOK /\ i = 1 /\ results = <<>> /\ calls = <<>>
    BY <1>3 DEF Dispatch, Control, CallsSent
  <2>2. CASE params.module # "jsonrpc" /\ pc' = "return" /\ UNCHANGED registered
    BY <1>0, <1>3, <2>1, <2>2 DEF Dispatch, TypeOKV1, Control, CallsSent, PCs, N, ColumnsOK
  <2>3. CASE params.module = "jsonrpc" /\ registered' = TRUE
             /\ pc' = IF params.disableBatch THEN "loop" ELSE "build"
    BY <1>0, <1>3, <2>1, <2>3 DEF Dispatch, TypeOKV1, Control, CallsSent, PCs, N, ColumnsOK
  <2>. QED
    BY <1>3, <2>2, <2>3 DEF Dispatch
<1>4. ASSUME NEW rs \in [1..N -> Answers], BatchReturn(rs)
      PROVE  (TypeOKV1 /\ Control /\ CallsSent)'
  <2>1. rs \in Seq(Answers) /\ Len(rs) = N
    BY <1>0, FunIsSeq
  <2>2. pc = "batch" /\ i = 1 /\ ColumnsOK /\ params.module = "jsonrpc"
    BY <1>4 DEF BatchReturn, Control
  <2>3. CASE Fail("transport") /\ UNCHANGED results
    BY <1>0, <1>4, <2>2, <2>3 DEF BatchReturn, Fail, TypeOKV1, Control, CallsSent, PCs,
                                  Reasons, N, ColumnsOK
  <2>4. CASE results' = rs /\ pc' = "walk" /\ UNCHANGED <<outcome, reason>>
    BY <1>0, <1>4, <2>1, <2>2, <2>4 DEF BatchReturn, TypeOKV1, Control, CallsSent, PCs, N,
                                        ColumnsOK
  <2>. QED
    BY <1>4, <2>3, <2>4 DEF BatchReturn
<1>5. CASE LoopDone
  <2>1. pc = "walk" => i = N + 1
    BY <1>0, <1>5 DEF LoopDone, TypeOKV1
  <2>. QED
    BY <1>0, <1>5, <2>1 DEF LoopDone, TypeOKV1, Control, CallsSent, PCs, N, ColumnsOK
<1>6. CASE Return
  BY <1>0, <1>6 DEF Return, TypeOKV1, Control, CallsSent, PCs, N, ColumnsOK
<1>7. CASE Deadline
  BY <1>0, <1>7 DEF Deadline, TypeOKV1, Control, CallsSent, N, ColumnsOK
<1>8. CASE Returned
  BY <1>0, <1>8 DEF Returned, vars, TypeOKV1, Control, CallsSent, N, ColumnsOK
<1>. QED
  BY <1>1, <1>2, <1>3, <1>4, <1>5, <1>6, <1>7, <1>8 DEF SharedStep


\* Sending a call appends the coerced arguments of descriptor i (line 126).
LEMMA CallSendV1IInv ==
  ASSUME IInvV1, CallSendV1
  PROVE  (TypeOKV1 /\ Control /\ CallsSent)'
<1>. USE DEF IInvV1
<1>0. N \in Nat /\ pc = "loop" /\ i \in 1..N /\ ColumnsOK
  BY DEF CallSendV1, TypeOKV1, QueryParamsType, N, Control
<1>1. DOMAIN calls = 1..(i - 1) /\ calls = [k \in 1..(i - 1) |-> calls[k]]
  BY <1>0 DEF CallsSent
<1>. DEFINE new == stringsToSlice(params.arg[i])
<1>2. calls' = Append(calls, new)
  BY DEF CallSendV1
<1>3. /\ DOMAIN calls' = 1..i
      /\ \A k \in 1..(i - 1) : calls'[k] = calls[k]
      /\ calls'[i] = new
  BY <1>0, <1>1, <1>2, AppendDomain
<1>4. params.arg[i] \in Seq(Chars)
  BY <1>0, DataAssumption DEF TypeOKV1, QueryParamsType, ColumnsOK, ColumnNames, N
<1>5. \A j \in DOMAIN new : IsArgValue(new[j])
  BY <1>4, StringsToSliceTyped
<1>6. (\A k \in DOMAIN calls : \A j \in DOMAIN calls[k] : IsArgValue(calls[k][j]))'
  BY <1>1, <1>3, <1>5 DEF TypeOKV1
<1>7. CallsSent'
  <2>1. calls' = [k \in 1..i |-> calls'[k]]
    BY <1>0, <1>1, <1>2, AppendDomain
  <2>2. \E n \in 0..N : calls' = [k \in 1..n |-> calls'[k]]
    BY <1>0, <2>1
  <2>3. pc' = "await" /\ i' = i /\ N' = N
    BY DEF CallSendV1, N
  <2>. QED
    BY <1>3, <2>2, <2>3 DEF CallsSent
<1>. QED
  BY <1>0, <1>6, <1>7 DEF CallSendV1, TypeOKV1, Control, PCs, N, ColumnsOK

\* Building the batch coerces the arguments of every descriptor (line 167).
LEMMA BuildBatchV1IInv ==
  ASSUME IInvV1, BuildBatchV1
  PROVE  (TypeOKV1 /\ Control /\ CallsSent)'
<1>. USE DEF IInvV1
<1>0. N \in Nat /\ pc = "build" /\ ColumnsOK
  BY DEF BuildBatchV1, TypeOKV1, QueryParamsType, N, Control
<1>1. ASSUME NEW k \in 1..N PROVE \A j \in DOMAIN calls'[k] : IsArgValue(calls'[k][j])
  <2>1. params.arg[k] \in Seq(Chars)
    BY <1>0, DataAssumption DEF TypeOKV1, QueryParamsType, ColumnsOK, ColumnNames, N
  <2>2. calls'[k] = stringsToSlice(params.arg[k])
    BY DEF BuildBatchV1
  <2>. QED
    BY <2>1, <2>2, StringsToSliceTyped
<1>2. DOMAIN calls' = 1..N /\ calls' = [k \in 1..N |-> calls'[k]]
  BY DEF BuildBatchV1
<1>3. CallsSent'
  <2>1. \E n \in 0..N : calls' = [k \in 1..n |-> calls'[k]]
    BY <1>0, <1>2
  <2>2. pc' = "batch" /\ N' = N
    BY DEF BuildBatchV1, N
  <2>. QED
    BY <1>2, <2>1, <2>2 DEF CallsSent
<1>4. (\A k \in DOMAIN calls : \A j \in DOMAIN calls[k] : IsArgValue(calls[k][j]))'
  BY <1>1, <1>2
<1>. QED
  BY <1>0, <1>3, <1>4 DEF BuildBatchV1, TypeOKV1, Control, PCs, N, ColumnsOK


\* The answer to a call is recorded, or ends the probe (lines 128-164).
LEMMA CallReturnV1IInv ==
  ASSUME IInvV1, NEW r \in Answers, CallReturnV1(r)
  PROVE  (TypeOKV1 /\ Control /\ CallsSent)'
<1>. USE DEF IInvV1
<1>0. N \in Nat /\ pc = "await" /\ ColumnsOK /\ i \in 1..N /\ DOMAIN calls = 1..i
      /\ UNCHANGED <<params, calls>>
  BY DEF CallReturnV1, TypeOKV1, QueryParamsType, N, Control, CallsSent
<1>1. CASE Fail("transport") /\ UNCHANGED <<i, results, gauge>>
  BY <1>0, <1>1 DEF CallReturnV1, Fail, TypeOKV1, Control, CallsSent, PCs, Reasons, N, ColumnsOK
<1>2. CASE r.kind = "error" /\ Fail("call") /\ UNCHANGED <<i, gauge>> /\ results' = Append(results, r)
  BY <1>0, <1>2 DEF CallReturnV1, Fail, TypeOKV1, Control, CallsSent, PCs, Reasons, N, ColumnsOK
<1>3. CASE r.kind # "error" /\ results' = Append(results, r) /\ RecordV1(i, r, "loop")
  <2>1. /\ DOMAIN gauge' \subseteq LabelsV1
        /\ gauge' \in [DOMAIN gauge' -> Values]
        /\ i' \in 1..(N + 1)
        /\ reason' \in Reasons
        /\ \/ pc' = "loop" /\ outcome' = outcome /\ i' = i + 1
           \/ pc' = "done" /\ outcome' \in {"failure", "panic"} /\ UNCHANGED i
    BY <1>0, <1>3, RecordV1Step DEF CallReturnV1, PCs
  <2>. QED
    BY <1>0, <1>3, <2>1 DEF CallReturnV1, TypeOKV1, Control, CallsSent, PCs, N, ColumnsOK
<1>. QED
  BY <1>1, <1>2, <1>3 DEF CallReturnV1

\* One element of the batch walk (lines 183-204).
LEMMA WalkElemV1IInv ==
  ASSUME IInvV1, WalkElemV1
  PROVE  (TypeOKV1 /\ Control /\ CallsSent)'
<1>. USE DEF IInvV1
<1>0. N \in Nat /\ pc = "walk" /\ ColumnsOK /\ i \in 1..N /\ Len(results) = N
      /\ results[i] \in Answers /\ UNCHANGED <<params, calls>>
  BY DEF WalkElemV1, TypeOKV1, QueryParamsType, N, Control
<1>1. /\ DOMAIN gauge' \subseteq LabelsV1
      /\ gauge' \in [DOMAIN gauge' -> Values]
      /\ i' \in 1..(N + 1)
      /\ reason' \in Reasons
      /\ \/ pc' = "walk" /\ outcome' = outcome /\ i' = i + 1
         \/ pc' = "done" /\ outcome' \in {"failure", "panic"} /\ UNCHANGED i
  BY <1>0, RecordV1Step DEF WalkElemV1, PCs
<1>. QED
  BY <1>0, <1>1 DEF WalkElemV1, TypeOKV1, Control, CallsSent, PCs, N, ColumnsOK

LEMMA NextV1TypeControl ==
  IInvV1 /\ [NextV1]_v1vars => (TypeOKV1 /\ Control /\ CallsSent)'
<1> SUFFICES ASSUME IInvV1, [NextV1]_v1vars PROVE (TypeOKV1 /\ Control /\ CallsSent)'
  OBVIOUS
<1>1. CASE SharedStep
  BY <1>1, SharedStepIInvV1
<1>2. CASE CallSendV1
  BY <1>2, CallSendV1IInv
<1>3. CASE \E r \in Answers : CallReturnV1(r)
  BY <1>3, CallReturnV1IInv
<1>4. CASE BuildBatchV1
  BY <1>4, BuildBatchV1IInv
<1>5. CASE WalkElemV1
  BY <1>5, WalkElemV1IInv
<1>6. CASE UNCHANGED v1vars
  BY <1>6 DEF v1vars, IInvV1, TypeOKV1, Control, CallsSent, N, ColumnsOK
<1>. QED
  BY <1>1, <1>2, <1>3, <1>4, <1>5, <1>6 DEF NextV1


LEMMA NextV1Series == IInvV1 /\ [NextV1]_v1vars => SeriesMatchCompletedCallsV1'
<1> SUFFICES ASSUME IInvV1, [NextV1]_v1vars PROVE SeriesOfV1(i - 1)'
  BY DEF SeriesMatchCompletedCallsV1
<1>. USE DEF IInvV1
<1>0. SeriesOfV1(i - 1) /\ N \in Nat /\ results \in Seq(Answers)
  BY DEF SeriesMatchCompletedCallsV1, TypeOKV1, QueryParamsType, N
\* The steps that leave gauge, i, params and results alone.
<1>1. CASE SharedStep \/ CallSendV1 \/ BuildBatchV1 \/ UNCHANGED v1vars
  <2>1. CASE \E rs \in [1..N -> Answers] : BatchReturn(rs)
    <3>1. i = 1 /\ params' = params /\ gauge' = gauge /\ i' = i
      BY <2>1 DEF BatchReturn, Control
    <3>. QED
      BY <1>0, <3>1, SeriesFrameV1
  <2>2. CASE ~\E rs \in [1..N -> Answers] : BatchReturn(rs)
    <3>1. params' = params /\ gauge' = gauge /\ i' = i /\ results' = results
      BY <1>1, <2>2 DEF SharedStep, Dial, CheckColumns, Dispatch, LoopDone, Return, Deadline,
                        Returned, vars, CallSendV1, BuildBatchV1, v1vars
    <3>. QED
      BY <1>0, <3>1, SeriesFrameV1
  <2>. QED
    BY <2>1, <2>2
<1>2. ASSUME NEW r \in Answers, CallReturnV1(r)
      PROVE  SeriesOfV1(i - 1)'
  <2>1. pc = "await" /\ ColumnsOK /\ i \in 1..N /\ Len(results) = i - 1
    BY <1>0, <1>2 DEF CallReturnV1, Control, TypeOKV1
  <2>2. params' = params
    BY <1>2 DEF CallReturnV1
  <2>3. CASE Fail("transport") /\ UNCHANGED <<i, results, gauge>>
    BY <1>0, <2>2, <2>3, SeriesFrameV1
  <2>4. CASE r.kind = "error" /\ Fail("call") /\ UNCHANGED <<i, gauge>> /\ results' = Append(results, r)
    <3>1. \A k \in 1..(i - 1) : results'[k] = results[k]
      BY <1>0, <2>1, <2>4
    <3>. QED
      BY <1>0, <2>2, <2>4, <3>1, SeriesFrameV1
  <2>5. CASE r.kind # "error" /\ results' = Append(results, r) /\ RecordV1(i, r, "loop")
    <3>1. (\A k \in 1..(i - 1) : results'[k] = results[k]) /\ results'[i] = r
      BY <1>0, <2>1, <2>5
    <3>2. \/ i' = i + 1 /\ gauge' = SetGauge(LabelV1(i), ReportedV1(i, r))
          \/ UNCHANGED <<i, gauge>>
      BY <2>1, <2>2, <2>5, RecordV1Step DEF PCs
    <3>. QED
      BY <1>0, <2>1, <2>2, <3>1, <3>2, SeriesFrameV1, SeriesAdvanceV1 DEF TypeOKV1
  <2>. QED
    BY <1>2, <2>3, <2>4, <2>5 DEF CallReturnV1
<1>3. CASE WalkElemV1
  <2>1. ColumnsOK /\ i \in 1..N /\ Len(results) = N
    BY <1>0, <1>3 DEF WalkElemV1, Control, TypeOKV1
  <2>2. params' = params /\ results' = results /\ results[i] \in Answers
    BY <1>3, <2>1 DEF WalkElemV1, TypeOKV1
  <2>3. \/ i' = i + 1 /\ gauge' = SetGauge(LabelV1(i), ReportedV1(i, results[i]))
        \/ UNCHANGED <<i, gauge>>
    BY <1>3, <2>1, <2>2, RecordV1Step DEF WalkElemV1, PCs
  <2>. QED
    BY <1>0, <2>1, <2>2, <2>3, SeriesFrameV1, SeriesAdvanceV1 DEF TypeOKV1
<1>. QED
  BY <1>1, <1>2, <1>3 DEF NextV1

LEMMA NextIInvV1 == IInvV1 /\ [NextV1]_v1vars => IInvV1'
BY NextV1TypeControl, NextV1Series DEF IInvV1

-----------------------------------------------------------------------------
(* The registry only grows.                                                *)

\* Every step of the old revision satisfies RegistryStep.
LEMMA NextV1RegistryStep == IInvV1 /\ [NextV1]_v1vars => [RegistryStep]_v1vars
<1> SUFFICES ASSUME IInvV1, [NextV1]_v1vars PROVE [RegistryStep]_v1vars
  OBVIOUS
<1>. USE DEF IInvV1
\* The steps that leave the gauge alone and end no probe that has ended.
<1>1. CASE SharedStep \/ CallSendV1 \/ BuildBatchV1 \/ UNCHANGED v1vars
  <2>1. gauge' = gauge
    BY <1>1 DEF SharedStep, Dial, CheckColumns, Dispatch, LoopDone, Return, Deadline, Returned,
                vars, BatchReturn, CallSendV1, BuildBatchV1, v1vars
  <2>2. outcome # "running" => outcome' = outcome
    <3>1. outcome # "running" => pc = "done"
      BY DEF Control
    <3>. QED
      BY <1>1, <3>1 DEF SharedStep, Dial, CheckColumns, Dispatch, LoopDone, Return, Deadline,
                        Returned, vars, BatchReturn, CallSendV1, BuildBatchV1, v1vars
  <2>. QED
    BY <2>1, <2>2 DEF RegistryStep
\* The steps that run RecordV1 at the loop index of a running probe.
<1>2. ASSUME NEW r \in Answers, NEW next \in PCs, pc \in {"await", "walk"}, i \in 1..N,
             RecordV1(i, r, next), params' = params
      PROVE  RegistryStep
  <2>1. outcome = "running" /\ ColumnsOK
    BY <1>2 DEF Control
  <2>2. \/ /\ outcome' = outcome /\ i' = i + 1
           /\ gauge' = SetGauge(LabelV1(i), ReportedV1(i, r))
        \/ UNCHANGED gauge
    BY <1>2, <2>1, RecordV1Step
  <2>3. CASE outcome' = outcome /\ i' = i + 1 /\ gauge' = SetGauge(LabelV1(i), ReportedV1(i, r))
    <3>1. DOMAIN gauge \subseteq DOMAIN gauge'
      BY <2>3, SetGaugeGrows
    <3>. QED
      BY <2>1, <2>3, <3>1 DEF RegistryStep
  <2>4. CASE UNCHANGED gauge
    BY <2>1, <2>4 DEF RegistryStep
  <2>. QED
    BY <2>2, <2>3, <2>4
<1>3. ASSUME NEW r \in Answers, CallReturnV1(r)
      PROVE  RegistryStep
  <2>1. i \in 1..N
    BY <1>3 DEF CallReturnV1, Control, TypeOKV1
  <2>2. CASE r.kind # "error" /\ RecordV1(i, r, "loop")
    BY <1>3, <2>1, <2>2, <1>2 DEF CallReturnV1, PCs
  <2>3. CASE ~(r.kind # "error" /\ RecordV1(i, r, "loop"))
    <3>1. UNCHANGED gauge /\ outcome = "running"
      BY <1>3, <2>3 DEF CallReturnV1, Control
    <3>. QED
      BY <3>1 DEF RegistryStep
  <2>. QED
    BY <2>2, <2>3
<1>4. CASE WalkElemV1
  <2>1. i \in 1..N /\ results[i] \in Answers
    BY <1>4 DEF WalkElemV1, Control, TypeOKV1
  <2>. QED
    BY <1>4, <2>1, <1>2 DEF WalkElemV1, PCs
<1>. QED
  BY <1>1, <1>3, <1>4 DEF NextV1

-----------------------------------------------------------------------------
(* The theorems.                                                           *)

\* Every reachable state of the old revision satisfies its inductive invariant.
THEOREM IInvV1Holds == SpecV1 => []IInvV1
BY InitIInvV1, NextIInvV1, PTL DEF SpecV1

(***************************************************************************)
(* Type correctness of the old revision: the series it sets (lines 158-163,*)
(* 198-203) are labelled by (method, arg, tag) triples and hold a number   *)
(* or +Inf, and every parameter stringsToSlice (lines 40-72) puts in a     *)
(* call, sent alone (line 128) or in the batch (line 172), is an int64, a  *)
(* bool or a string made of the argument's characters.                     *)
(***************************************************************************)
THEOREM TypeCorrectV1 == SpecV1 => []TypeOKV1
<1>1. IInvV1 => TypeOKV1
  BY DEF IInvV1
<1>. QED
  BY IInvV1Holds, <1>1, PTL

(***************************************************************************)
(* In the old revision too, the registry holds at every point exactly the  *)
(* series of the descriptors already handled, each computed by its mode's  *)
(* extraction from its own result: the early returns of lines 130, 139 and *)
(* 188 leave the earlier series in place, and the batch walk reads element *)
(* i of the index-aligned batch.                                           *)
(***************************************************************************)
THEOREM SeriesMatchCompletedCallsV1Holds == SpecV1 => []SeriesMatchCompletedCallsV1
<1>1. IInvV1 => SeriesMatchCompletedCallsV1
  BY DEF IInvV1
<1>. QED
  BY IInvV1Holds, <1>1, PTL

(***************************************************************************)
(* No rollback and no change after return in the old revision: no step    *)
(* removes a series, only the step recording one more descriptor of a      *)
(* running probe (lines 158-163, 198-203) changes the registry, and once   *)
(* the probe has returned its result and the registry stay fixed.          *)
(***************************************************************************)
THEOREM RegistryNeverRollsBackV1Holds == SpecV1 => RegistryNeverRollsBackV1
<1>1. []IInvV1 /\ [][NextV1]_v1vars => [][RegistryStep]_v1vars
  BY NextV1RegistryStep, PTL
<1>. QED
  BY IInvV1Holds, <1>1, PTL DEF SpecV1, RegistryNeverRollsBackV1

=============================================================================
