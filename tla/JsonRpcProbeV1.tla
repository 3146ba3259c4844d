--------------------------- MODULE JsonRpcProbeV1 ---------------------------
(***************************************************************************)
(* The older revision of ProbeJSONRPC kept in src/prober/jsonrpc.go (lines *)
(* 87-209), with the argument coercion stringsToSlice (lines 40-72) it     *)
(* sends as the call's positional parameters.  Dial, the column checks and *)
(* the module switch are those of the current revision (lines 88-123 are   *)
(* lines 243-278), so the actions of JsonRpcProbe are reused for them.     *)
(* What differs: the arguments are coerced, never rejected; the labels use *)
(* the untrimmed arg; the path test is resultJMESPath[i] != "" (untrimmed);*)
(* without batching an empty path reports json.Marshal of the decoded      *)
(* result; in a batch each result is a Go string, e.Error is never read,   *)
(* and the JMESPath search runs on the *string holding it, where a field   *)
(* lookup panics.                                                          *)
(***************************************************************************)
EXTENDS JsonRpcProbe

VARIABLE
  calls       \* the positional parameters sent, one list per call descriptor

v1vars == <<params, pc, i, results, gauge, registered, trips, outcome, reason, expired, calls>>

-----------------------------------------------------------------------------
(* stringsToSlice (lines 40-72).                                           *)

DigitSeq == <<"0", "1", "2", "3", "4", "5", "6", "7", "8", "9">>
Digits == {DigitSeq[k] : k \in 1..10}
DigitValue(c) == (CHOOSE k \in 1..10 : DigitSeq[k] = c) - 1

\* The decimal value of a sequence of digits: the number below 10^Len(d)
\* whose base-10 digits, padded to Len(d), are d.  One exists for every
\* digit sequence; the ELSE is never taken.
DecimalValue(d) ==
  LET Spells(n) == \A k \in 1..Len(d) : (n \div 10^(Len(d) - k)) % 10 = DigitValue(d[k])
      Below == 0..(10^Len(d) - 1)
  IN  IF \E n \in Below : Spells(n) THEN CHOOSE n \in Below : Spells(n) ELSE 0

\* strconv.ParseInt(p, 10, 64) succeeds: an optional sign and one or more
\* digits.  Inputs here are far shorter than the 19 digits that can
\* overflow int64, so the range check never fails.
IsInt(p) ==
  LET body == IF p # <<>> /\ p[1] \in {"+", "-"} THEN Tail(p) ELSE p
  IN  body # <<>> /\ \A k \in DOMAIN body : body[k] \in Digits
IntValue(p) ==
  IF p[1] = "-" THEN -DecimalValue(Tail(p))
  ELSE IF p[1] = "+" THEN DecimalValue(Tail(p)) ELSE DecimalValue(p)

\* strconv.ParseBool: the texts it accepts for true and for false.
GoTrue  == {<<"1">>, <<"t">>, <<"T">>, <<"t", "r", "u", "e">>, <<"T", "r", "u", "e">>, <<"T", "R", "U", "E">>}
GoFalse == {<<"0">>, <<"f">>, <<"F">>, <<"f", "a", "l", "s", "e">>, <<"F", "a", "l", "s", "e">>, <<"F", "A", "L", "S", "E">>}

\* One trimmed part as the interface{} value stringsToSlice puts in the slice.
Coerce(p) ==
  IF IsInt(p) THEN [t |-> "int", v |-> IntValue(p)]
  ELSE IF p \in GoTrue \cup GoFalse THEN [t |-> "bool", v |-> p \in GoTrue]
  ELSE [t |-> "str", v |-> p]

\* strings.Split(s, ","): one part more than there are commas, part j
\* being the text between comma j - 1 and comma j.  before(k) counts the
\* commas ahead of position k; part j starts after the positions with fewer
\* than j - 1 commas ahead and runs up to comma j (or the end).
SplitComma(s) ==
  LET before(k) == Cardinality({m \in 1..(k - 1) : s[m] = ","})
      lo(j) == 1 + Cardinality({k \in DOMAIN s : before(k) < j - 1})
      hi(j) == Cardinality({k \in DOMAIN s : before(k) < j - 1 \/ (before(k) = j - 1 /\ s[k] # ",")})
  IN  [j \in 1..(1 + Cardinality({k \in DOMAIN s : s[k] = ","})) |-> SubSeq(s, lo(j), hi(j))]

stringsToSlice(s) ==
  IF s = <<>> THEN <<>>
  ELSE LET parts == SplitComma(s) IN [j \in DOMAIN parts |-> Coerce(TrimSpace(parts[j]))]

-----------------------------------------------------------------------------
(* Result extraction of the old revision.                                  *)

\* json.Marshal of any decoded result is JSON text: a string is quoted, so
\* SetString(r, 10) stops at the first character and leaves 0.
MarshalledText == [enc |-> "bad", v |-> 0]

\* Lines 135-151 (disableBatch): the untrimmed path test; Search on the
\* decoded result, or the marshalled result.
SeqExtract(p, a) ==
  IF p # <<>>
  THEN IF IsJMESPath(p)
       THEN [ok |-> TRUE, reason |-> "none", text |-> Search(p, a)]
       ELSE [ok |-> FALSE, reason |-> "jmespath", text |-> NilText]
  ELSE [ok |-> TRUE, reason |-> "none", text |-> MarshalledText]

\* Lines 185-192 (batch): Search compiles the path, then evaluates it on
\* e.Result, a *string.  A field of anything but a map goes to go-jmespath's
\* fieldFromStruct, which dereferences the pointer and calls FieldByName on
\* the string it points to: a panic ("panic" below).  A path that does not
\* compile fails; an empty path reads the Go string, left "" by an error, a
\* null or an object.
BatchExtract(p, a) ==
  IF p # <<>>
  THEN IF IsJMESPath(p)
       THEN [ok |-> FALSE, reason |-> "panic", text |-> NilText]
       ELSE [ok |-> FALSE, reason |-> "jmespath", text |-> NilText]
  ELSE [ok |-> TRUE, reason |-> "none", text |-> IF a.kind = "str" THEN a.text ELSE EmptyText]

\* The extraction the mode in force applies to descriptor k's result a.
ExtractV1(k, a) ==
  IF params.disableBatch THEN SeqExtract(params.resultJMESPath[k], a)
  ELSE BatchExtract(params.resultJMESPath[k], a)

\* WithLabelValues(target, methods[i], args[i], tags[i]): the arg untrimmed.
LabelV1(k) == <<params.method[k], params.arg[k], params.tag[k]>>
LabelsV1 == Methods \X ArgTexts \X Tags

ReportedV1(k, r) ==
  resultToFloat64WithDecimals(ExtractV1(k, r).text, ParseInt(params.decimal[k]))

-----------------------------------------------------------------------------
(* Actions of the old revision.                                            *)

InitV1 == Init /\ calls = <<>>

\* Mutant: the quotient is stored even when it is not a number.
RecordV1NaN(k, r, next) ==
  LET x == ExtractV1(k, r)
      v == ReportedV1(k, r)
  IN  \/ /\ ~x.ok
         /\ x.reason # "panic"
         /\ Fail(x.reason)
         /\ UNCHANGED <<i, gauge>>
      \/ /\ x.reason = "panic"
         /\ outcome' = "panic"
         /\ pc' = "done"
         /\ UNCHANGED <<i, gauge, reason>>
      \/ /\ x.ok
         /\ gauge' = SetGauge(LabelV1(k), v)
         /\ i' = k + 1
         /\ pc' = next
         /\ UNCHANGED <<outcome, reason>>

\* Mutant: a JMESPath error rolls back the series already set.
RecordV1Rollback(k, r, next) ==
  LET x == ExtractV1(k, r)
      v == ReportedV1(k, r)
  IN  \/ /\ ~x.ok
         /\ x.reason # "panic"
         /\ Fail(x.reason)
         /\ gauge' = [l \in {} |-> Zero]
         /\ UNCHANGED i
      \/ /\ x.reason = "panic" \/ (x.ok /\ v = Panic)
         /\ outcome' = "panic"
         /\ pc' = "done"
         /\ UNCHANGED <<i, gauge, reason>>
      \/ /\ x.ok
         /\ v # Panic
         /\ gauge' = SetGauge(LabelV1(k), v)
         /\ i' = k + 1
         /\ pc' = next
         /\ UNCHANGED <<outcome, reason>>

\* Sets descriptor k's series from result r, returns false on a JMESPath
\* error, or panics: in the batch Search (line 187) or in big.Float.Quo
\* (lines 135-164, 184-203).
RecordV1(k, r, next) ==
  LET x == ExtractV1(k, r)
      v == ReportedV1(k, r)
  IN  \/ /\ ~x.ok
         /\ x.reason # "panic"
         /\ Fail(x.reason)
         /\ UNCHANGED <<i, gauge>>
      \/ /\ x.reason = "panic" \/ (x.ok /\ v = Panic)
         /\ outcome' = "panic"
         /\ pc' = "done"
         /\ UNCHANGED <<i, gauge, reason>>
      \/ /\ x.ok
         /\ v # Panic
         /\ gauge' = SetGauge(LabelV1(k), v)
         /\ i' = k + 1
         /\ pc' = next
         /\ UNCHANGED <<outcome, reason>>

\* Lines 126-128: coerce descriptor i's arguments and send its call.
CallSendV1 ==
  /\ pc = "loop"
  /\ i <= N
  /\ calls' = Append(calls, stringsToSlice(params.arg[i]))
  /\ trips' = trips + 1
  /\ pc' = "await"
  /\ UNCHANGED <<params, i, results, gauge, registered, outcome, reason, expired>>

\* Lines 128-164: Call returns; any error, transport or JSON-RPC, returns false.
CallReturnV1(r) ==
  /\ pc = "await"
  /\ \/ /\ Fail("transport")
        /\ UNCHANGED <<i, results, gauge>>
     \/ /\ r.kind = "error"
        /\ Fail("call")
        /\ UNCHANGED <<i, gauge>>
        /\ results' = Append(results, r)
     \/ /\ r.kind # "error"
        /\ results' = Append(results, r)
        /\ RecordV1(i, r, "loop")
  /\ UNCHANGED <<params, registered, trips, expired, calls>>

\* Lines 167-176: one batch element per descriptor, then BatchCall is sent.
BuildBatchV1 ==
  /\ pc = "build"
  /\ calls' = [k \in 1..N |-> stringsToSlice(params.arg[k])]
  /\ trips' = trips + 1
  /\ pc' = "batch"
  /\ UNCHANGED <<params, i, results, gauge, registered, outcome, reason, expired>>

\* Mutant: the batch walk extracts as the non-batch loop does.
WalkElemV1Marshals ==
  /\ pc = "walk"
  /\ i <= N
  /\ LET x == SeqExtract(params.resultJMESPath[i], results[i])
         v == resultToFloat64WithDecimals(x.text, ParseInt(params.decimal[i]))
     IN  \/ /\ ~x.ok
            /\ Fail(x.reason)
            /\ UNCHANGED <<i, gauge>>
         \/ /\ x.ok
            /\ v = Panic
            /\ outcome' = "panic"
            /\ pc' = "done"
            /\ UNCHANGED <<i, gauge, reason>>
         \/ /\ x.ok
            /\ v # Panic
            /\ gauge' = SetGauge(LabelV1(i), v)
            /\ i' = i + 1
            /\ pc' = "walk"
            /\ UNCHANGED <<outcome, reason>>
  /\ UNCHANGED <<params, results, registered, trips, expired, calls>>

\* Lines 183-204: one element of the walk; e.Error is never read.
WalkElemV1 ==
  /\ pc = "walk"
  /\ i <= N
  /\ RecordV1(i, results[i], "walk")
  /\ UNCHANGED <<params, results, registered, trips, expired, calls>>

\* Dial, the column checks, the switch, BatchCall's return (lines 178-182),
\* the end of the loops and "return true" (line 208) are those of the
\* current revision.
SharedStep ==
  /\ \/ Dial \/ CheckColumns \/ Dispatch
     \/ \E rs \in [1..N -> Answers] : BatchReturn(rs)
     \/ LoopDone \/ Return \/ Deadline \/ Returned
  /\ UNCHANGED calls

NextV1 ==
  \/ SharedStep
  \/ CallSendV1 \/ \E r \in Answers : CallReturnV1(r)
  \/ BuildBatchV1 \/ WalkElemV1

FairnessV1 ==
  /\ WF_v1vars(Dial) /\ WF_v1vars(CheckColumns) /\ WF_v1vars(Dispatch)
  /\ WF_v1vars(CallSendV1) /\ WF_v1vars(BuildBatchV1) /\ WF_v1vars(WalkElemV1)
  /\ WF_v1vars(LoopDone) /\ WF_v1vars(Return)

SpecV1 == InitV1 /\ [][NextV1]_v1vars /\ FairnessV1

-----------------------------------------------------------------------------
(* Properties.                                                             *)

\* An interface{} stringsToSlice can produce: an int64, a bool or a string.
IsArgValue(x) ==
  /\ DOMAIN x = {"t", "v"}
  /\ CASE x.t = "int"  -> x.v \in Int
       [] x.t = "bool" -> x.v \in BOOLEAN
       [] x.t = "str"  -> x.v \in Seq(Chars)
       [] OTHER        -> FALSE

\* Every variable holds a value of its type.
TypeOKV1 ==
  /\ params \in QueryParamsType
  /\ pc \in PCs
  /\ i \in 1..(N + 1)
  /\ results \in Seq(Answers)
  /\ DOMAIN gauge \subseteq LabelsV1
  /\ gauge \in [DOMAIN gauge -> Values]
  /\ registered \in BOOLEAN
  /\ trips \in Nat
  /\ outcome \in {"running", "success", "failure", "panic"}
  /\ reason \in Reasons
  /\ expired \in BOOLEAN
  /\ \A k \in DOMAIN calls : \A j \in DOMAIN calls[k] : IsArgValue(calls[k][j])

SeriesOfV1(j) ==
  /\ DOMAIN gauge = {LabelV1(k) : k \in 1..j}
  /\ \A k \in 1..j :
       (\A k2 \in (k + 1)..j : LabelV1(k2) # LabelV1(k)) => gauge[LabelV1(k)] = ReportedV1(k, results[k])

(***************************************************************************)
(* In the old revision too, the probe_jsonrpc series are at every point    *)
(* exactly those of the descriptors handled so far, each computed by the   *)
(* extraction of its own mode from its own result (lines 126-204): the     *)
(* batch walk reads element i of the index-aligned batch, and an early     *)
(* return (lines 130, 139, 188) leaves the earlier series in place.        *)
(***************************************************************************)
SeriesMatchCompletedCallsV1 == SeriesOfV1(i - 1)

(***************************************************************************)
(* No rollback in the old revision either: no step removes a series, only  *)
(* the step recording one more descriptor of a running probe (lines        *)
(* 158-163, 198-203) changes the registry, and after the probe returns     *)
(* (line 208 or an early return false) nothing in it changes.              *)
(***************************************************************************)
RegistryNeverRollsBackV1 == [][RegistryStep]_v1vars

(***************************************************************************)
(* Spec section 4.1: each comma-separated part of an argument, trimmed, is *)
(* sent as an integer if it parses as a base-10 signed integer, as a       *)
(* boolean if it is the literal true or false, and as a string otherwise;  *)
(* an empty argument sends no parameters.                                  *)
(***************************************************************************)
SpecCoerce(p) ==
  IF IsInt(p) THEN [t |-> "int", v |-> IntValue(p)]
  ELSE IF p \in {<<"t", "r", "u", "e">>, <<"f", "a", "l", "s", "e">>}
       THEN [t |-> "bool", v |-> p = <<"t", "r", "u", "e">>]
  ELSE [t |-> "str", v |-> p]
SpecArgs(s) ==
  IF s = <<>> THEN <<>>
  ELSE LET parts == SplitComma(s) IN [j \in DOMAIN parts |-> SpecCoerce(TrimSpace(parts[j]))]

\* The parameters sent for every call are the spec's coercion of its arg
\* (lines 128 and 172 send stringsToSlice(args[i])).
ArgsSentAsSpecified ==
  \A k \in 1..Len(calls) :
    LET spec == SpecArgs(params.arg[k])
    IN  /\ DOMAIN calls[k] = DOMAIN spec
        /\ \A j \in DOMAIN spec : calls[k][j].t = spec[j].t /\ calls[k][j].v = spec[j].v

(***************************************************************************)
(* Spec section 8: a string result "0x..." read with an empty path and     *)
(* decimal 0 is reported as its value, in either mode.  A successful probe *)
(* has, for each such descriptor whose series is not overwritten later,    *)
(* the hex value on its series.                                            *)
(***************************************************************************)
HexResultReported ==
  outcome = "success" =>
    \A k \in 1..Len(results) :
      (/\ params.resultJMESPath[k] = <<>>
       /\ results[k].kind = "str"
       /\ results[k].text.enc = "hex"
       /\ params.decimal[k] = [ok |-> TRUE, n |-> 0]
       /\ \A k2 \in (k + 1)..Len(results) : LabelV1(k2) # LabelV1(k))
      => gauge[LabelV1(k)] = resultToFloat64WithDecimals(results[k].text, 0)

=============================================================================
