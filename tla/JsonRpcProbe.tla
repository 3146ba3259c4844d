---------------------------- MODULE JsonRpcProbe ----------------------------
(***************************************************************************)
(* ProbeJSONRPC, the current revision in src/prober/jsonrpc.go (lines      *)
(* 242-388), with the helper resultToFloat64WithDecimals (lines 74-85) it  *)
(* calls.  One probe invocation: dial, check the five query-parameter      *)
(* columns, dispatch on the "module" parameter, then either one RPC round  *)
(* trip per call descriptor (disableBatch=true) or a single batched round  *)
(* trip followed by a walk over the index-aligned results.  Every result   *)
(* is run through the result extractor and the decimal normaliser and set  *)
(* on the probe_jsonrpc gauge series labelled by (method, trimmed arg,     *)
(* tag).  The endpoint and the scrape deadline are the environment.        *)
(***************************************************************************)
EXTENDS Integers, Sequences, FiniteSets

CONSTANTS
  MaxCalls,   \* bound on the length of every query-parameter column
  Methods,    \* values of the "method" column
  ArgTexts,   \* values of the "arg" column, as sequences of characters
  Decimals,   \* values of the "decimal" column: [ok |-> parses as int64, n |-> value]
  Tags,       \* values of the "tag" column
  Paths,      \* values of the "resultJMESPath" column, as sequences of characters
  Modules,    \* values of the "module" query parameter
  Texts,      \* JSON strings an endpoint may return: [enc, v], see below
  Answers     \* what the endpoint may answer to one call: [kind, text, field]

(***************************************************************************)
(* A text [enc |-> e, v |-> n] is a well-formed "0x" hex (e = "hex") or    *)
(* decimal (e = "dec") integer of value n, or a malformed one (e = "bad")  *)
(* whose longest digit prefix, the part big.Int.SetString has consumed     *)
(* when it gives up, has value n ("" and "<nil>" have n = 0).  An answer   *)
(* of kind "obj" is a JSON object that has the field "f", holding text,    *)
(* iff field is TRUE.                                                      *)
(***************************************************************************)
Chars == {" ", "a", "f", "{", "}", "(", ",", "1", "t", "-"}
TextShape == [enc : {"hex", "dec", "bad"}, v : Nat]
AnswerShape == [kind : {"error", "null", "str", "obj"}, text : TextShape, field : BOOLEAN]

ASSUME MaxCallsAssumption == MaxCalls \in Nat \ {0}
ASSUME DataAssumption ==
  /\ ArgTexts \subseteq Seq(Chars)
  /\ Paths \subseteq Seq(Chars)
  /\ Decimals \subseteq [ok : BOOLEAN, n : Int]
  /\ Texts \subseteq TextShape
  /\ Answers \subseteq AnswerShape
  /\ "jsonrpc" \in Modules

VARIABLES
  params,     \* the url.Values of the scrape: five columns, module, disableBatch
  pc,         \* where ProbeJSONRPC is
  i,          \* loop index over the call descriptors (1-based)
  results,    \* results received so far, index-aligned with the descriptors
  gauge,      \* the probe_jsonrpc series in the registry: label -> value
  registered, \* whether the gauge vector has been registered
  trips,      \* HTTP round trips started towards the endpoint
  outcome,    \* "running", or what the probe returned: "success", "failure", or "panic"
  reason,     \* which error branch returned false
  expired     \* whether the scrape's context deadline has passed

vars == <<params, pc, i, results, gauge, registered, trips, outcome, reason, expired>>

-----------------------------------------------------------------------------
(* Data helpers.                                                           *)

ColumnNames == {"method", "arg", "decimal", "tag", "resultJMESPath"}

\* strings.TrimSpace: drop the leading and trailing blanks.  lead and trail
\* count them; a text of blanks only gives SubSeq(s, Len(s) + 1, 0) = <<>>.
TrimSpace(s) ==
  LET lead  == Cardinality({k \in DOMAIN s : \A j \in 1..k : s[j] = " "})
      trail == Cardinality({k \in DOMAIN s : \A j \in k..Len(s) : s[j] = " "})
  IN  SubSeq(s, lead + 1, Len(s) - trail)

\* parseJSONRPCParams fails exactly when the braces of its text are unbalanced.
BraceDepth(s, k) ==
  Cardinality({j \in 1..k : s[j] = "{"}) - Cardinality({j \in 1..k : s[j] = "}"})
parseJSONRPCParams(s) ==
  /\ \A k \in 0..Len(s) : BraceDepth(s, k) >= 0
  /\ BraceDepth(s, Len(s)) = 0

\* strconv.ParseInt(decimals[i], 10, 64) with its error dropped.  A decimal
\* text is abstracted to what ParseInt returns: d.ok says the error is nil,
\* d.n is the value, which is 0 after a syntax error and +/-(2^63 - 1)
\* after a range error.
ParseInt(d) == d.n

\* math.Pow10: 0 below 1e-323, +Inf above 1e308.
Pow10(n) == IF n > 308 THEN "inf" ELSE IF n < -323 THEN "zero" ELSE "finite"

\* Gauge values: n * 10^-e, +Inf; Panic marks big.Float.Quo's ErrNaN panic.
Zero    == [k |-> "num", n |-> 0, e |-> 0]
PlusInf == [k |-> "inf", n |-> 0, e |-> 0]
Panic   == [k |-> "panic", n |-> 0, e |-> 0]
Values  == {Zero, PlusInf} \cup [k : {"num"}, n : Nat \ {0}, e : Int]

\* resultToFloat64WithDecimals(r, d): SetString's ok flag is ignored, so a
\* malformed text yields the value of its scanned prefix.
resultToFloat64WithDecimals(t, d) ==
  CASE Pow10(d) = "zero" /\ t.v = 0 -> Panic
    [] Pow10(d) = "zero"            -> PlusInf
    [] Pow10(d) = "inf"             -> Zero
    [] t.v = 0                      -> Zero
    [] OTHER                        -> [k |-> "num", n |-> t.v, e |-> d]

NilText   == [enc |-> "bad", v |-> 0]   \* fmt.Sprintf("%v", nil) = "<nil>"
EmptyText == [enc |-> "bad", v |-> 0]   \* the zero string ""
FieldName == <<"f">>
IdentChars == {"a", "f"}

\* A JMESPath expression here is a bare identifier (a field lookup);
\* anything else is a syntax error.
IsJMESPath(p) ==
  LET t == TrimSpace(p) IN t # <<>> /\ \A k \in DOMAIN t : t[k] \in IdentChars

\* jmespath.Search(p, data): the field's value, or nil when absent or when
\* data is not an object.
Search(p, a) ==
  IF a.kind = "obj" /\ a.field /\ TrimSpace(p) = FieldName THEN a.text ELSE NilText

\* The extraction of lines 296-315 (and 354-374) applied to a non-error result.
Extract(p, a) ==
  IF TrimSpace(p) # <<>>
  THEN IF IsJMESPath(p)
       THEN [ok |-> TRUE, reason |-> "none", text |-> Search(p, a)]
       ELSE [ok |-> FALSE, reason |-> "jmespath", text |-> NilText]
  ELSE CASE a.kind = "str"  -> [ok |-> TRUE, reason |-> "none", text |-> a.text]
         [] a.kind = "null" -> [ok |-> TRUE, reason |-> "none", text |-> EmptyText]
         [] OTHER           -> [ok |-> FALSE, reason |-> "unmarshal", text |-> NilText]

-----------------------------------------------------------------------------
(* The query parameters a scrape can carry.                                *)

\* Column lengths: all equal, or one column of length 0 or 2 beside length 1.
ColumnLengths ==
  {[c \in ColumnNames |-> n] : n \in 0..MaxCalls}
  \cup {[c \in ColumnNames |-> IF c = d THEN m ELSE 1] : d \in ColumnNames, m \in {0, 2}}

QueryParamsType ==
  [method : Seq(Methods), arg : Seq(ArgTexts), decimal : Seq(Decimals), tag : Seq(Tags),
   resultJMESPath : Seq(Paths), module : Modules, disableBatch : BOOLEAN]

QueryParams(L) ==
  [method : [1..L["method"] -> Methods],
   arg : [1..L["arg"] -> ArgTexts],
   decimal : [1..L["decimal"] -> Decimals],
   tag : [1..L["tag"] -> Tags],
   resultJMESPath : [1..L["resultJMESPath"] -> Paths],
   module : Modules,
   disableBatch : BOOLEAN]

N == Len(params.method)

ColumnsOK == \A c \in ColumnNames : Len(params[c]) = N /\ N # 0

\* The label values of descriptor k: WithLabelValues(target, method, TrimSpace(arg), tag).
Label(k) == <<params.method[k], TrimSpace(params.arg[k]), params.tag[k]>>
Labels == Methods \X {TrimSpace(a) : a \in ArgTexts} \X Tags

\* The value descriptor k's result r is reported as.
Reported(k, r) ==
  resultToFloat64WithDecimals(Extract(params.resultJMESPath[k], r).text,
                              ParseInt(params.decimal[k]))

SetGauge(l, v) == [x \in DOMAIN gauge \cup {l} |-> IF x = l THEN v ELSE gauge[x]]

Fail(r) ==
  /\ outcome' = "failure"
  /\ reason' = r
  /\ pc' = "done"

-----------------------------------------------------------------------------
(* Actions.                                                                *)

Init ==
  /\ params \in UNION {QueryParams(L) : L \in ColumnLengths}
  /\ pc = "dial"
  /\ i = 1
  /\ results = <<>>
  /\ gauge = [x \in {} |-> Zero]
  /\ registered = FALSE
  /\ trips = 0
  /\ outcome = "running"
  /\ reason = "none"
  /\ expired = FALSE

\* Lines 243-250: default the scheme, ethclient.Dial (fails on a bad URL).
Dial ==
  /\ pc = "dial"
  /\ \/ pc' = "columns" /\ UNCHANGED <<outcome, reason>>
     \/ Fail("dial")
  /\ UNCHANGED <<params, i, results, gauge, registered, trips, expired>>

\* Mutant: the check of len(tags) against len(methods) is left out.
CheckColumnsNoTagLength ==
  /\ pc = "columns"
  /\ \/ /\ \E c \in ColumnNames : Len(params[c]) = 0
        /\ Fail("empty")
     \/ /\ \A c \in ColumnNames : Len(params[c]) # 0
        /\ \E c \in ColumnNames \ {"tag"} : Len(params[c]) # N
        /\ Fail("length")
     \/ /\ \A c \in ColumnNames \ {"tag"} : Len(params[c]) = N /\ N # 0
        /\ Len(params.tag) # 0
        /\ pc' = "dispatch"
        /\ UNCHANGED <<outcome, reason>>
  /\ UNCHANGED <<params, i, results, gauge, registered, trips, expired>>

\* Lines 252-266: every column non-empty, and all of the same length.
CheckColumns ==
  /\ pc = "columns"
  /\ \/ /\ \E c \in ColumnNames : Len(params[c]) = 0
        /\ Fail("empty")
     \/ /\ \A c \in ColumnNames : Len(params[c]) # 0
        /\ \E c \in ColumnNames : Len(params[c]) # N
        /\ Fail("length")
     \/ /\ ColumnsOK
        /\ pc' = "dispatch"
        /\ UNCHANGED <<outcome, reason>>
  /\ UNCHANGED <<params, i, results, gauge, registered, trips, expired>>

\* Lines 268-278: only module "jsonrpc" registers the gauge and probes;
\* any other value falls through the switch to "return true".
Dispatch ==
  /\ pc = "dispatch"
  /\ \/ /\ params.module # "jsonrpc"
        /\ pc' = "return"
        /\ UNCHANGED registered
     \/ /\ params.module = "jsonrpc"
        /\ registered' = TRUE
        /\ pc' = IF params.disableBatch THEN "loop" ELSE "build"
  /\ UNCHANGED <<params, i, results, gauge, trips, outcome, reason, expired>>

\* Mutant: the quotient is stored even when it is not a number.
RecordNaN(k, r, next) ==
  LET x == Extract(params.resultJMESPath[k], r)
      v == Reported(k, r)
  IN  \/ /\ ~x.ok
         /\ Fail(x.reason)
         /\ UNCHANGED <<i, gauge>>
      \/ /\ x.ok
         /\ gauge' = SetGauge(Label(k), v)
         /\ i' = k + 1
         /\ pc' = next
         /\ UNCHANGED <<outcome, reason>>

\* Mutant: the result is not scaled by the descriptor's decimal.
RecordNoScale(k, r, next) ==
  LET x == Extract(params.resultJMESPath[k], r)
      v == resultToFloat64WithDecimals(x.text, 0)
  IN  \/ /\ ~x.ok
         /\ Fail(x.reason)
         /\ UNCHANGED <<i, gauge>>
      \/ /\ x.ok
         /\ v = Panic
         /\ outcome' = "panic"
         /\ pc' = "done"
         /\ UNCHANGED <<i, gauge, reason>>
      \/ /\ x.ok
         /\ v # Panic
         /\ gauge' = SetGauge(Label(k), v)
         /\ i' = k + 1
         /\ pc' = next
         /\ UNCHANGED <<outcome, reason>>

\* Mutant: a failure rolls back the series the probe has already set.
RecordRollback(k, r, next) ==
  LET x == Extract(params.resultJMESPath[k], r)
      v == Reported(k, r)
  IN  \/ /\ ~x.ok
         /\ Fail(x.reason)
         /\ gauge' = [l \in {} |-> Zero]
         /\ UNCHANGED i
      \/ /\ x.ok
         /\ v = Panic
         /\ outcome' = "panic"
         /\ pc' = "done"
         /\ UNCHANGED <<i, gauge, reason>>
      \/ /\ x.ok
         /\ v # Panic
         /\ gauge' = SetGauge(Label(k), v)
         /\ i' = k + 1
         /\ pc' = next
         /\ UNCHANGED <<outcome, reason>>

\* Sets descriptor k's series from result r, or returns false/panics
\* (lines 296-327, 353-382); the loop then continues at pc next.
Record(k, r, next) ==
  LET x == Extract(params.resultJMESPath[k], r)
      v == Reported(k, r)
  IN  \/ /\ ~x.ok
         /\ Fail(x.reason)
         /\ UNCHANGED <<i, gauge>>
      \/ /\ x.ok
         /\ v = Panic
         /\ outcome' = "panic"
         /\ pc' = "done"
         /\ UNCHANGED <<i, gauge, reason>>
      \/ /\ x.ok
         /\ v # Panic
         /\ gauge' = SetGauge(Label(k), v)
         /\ i' = k + 1
         /\ pc' = next
         /\ UNCHANGED <<outcome, reason>>

\* Lines 281-288: parse descriptor i's arguments and send its call.
CallSend ==
  /\ pc = "loop"
  /\ i <= N
  /\ \/ /\ ~parseJSONRPCParams(params.arg[i])
        /\ Fail("parse")
        /\ UNCHANGED trips
     \/ /\ parseJSONRPCParams(params.arg[i])
        /\ trips' = trips + 1
        /\ pc' = "await"
        /\ UNCHANGED <<outcome, reason>>
  /\ UNCHANGED <<params, i, results, gauge, registered, expired>>

\* Lines 288-327: eth.Client().Call returns (on a background context).
CallReturn(r) ==
  /\ pc = "await"
  /\ \/ /\ Fail("transport")
        /\ UNCHANGED <<i, results, gauge>>
     \/ /\ r.kind = "error"
        /\ Fail("call")
        /\ UNCHANGED <<i, gauge>>
        /\ results' = Append(results, r)
     \/ /\ r.kind # "error"
        /\ results' = Append(results, r)
        /\ Record(i, r, "loop")
  /\ UNCHANGED <<params, registered, trips, expired>>

\* Lines 331-345: parse every descriptor's arguments, then send one batch.
BuildBatch ==
  /\ pc = "build"
  /\ \/ /\ \E k \in 1..N : ~parseJSONRPCParams(params.arg[k])
        /\ Fail("parse")
        /\ UNCHANGED trips
     \/ /\ \A k \in 1..N : parseJSONRPCParams(params.arg[k])
        /\ trips' = trips + 1
        /\ pc' = "batch"
        /\ UNCHANGED <<outcome, reason>>
  /\ UNCHANGED <<params, i, results, gauge, registered, expired>>

\* Lines 347-351: BatchCall returns; rs are the index-aligned results.
BatchReturn(rs) ==
  /\ pc = "batch"
  /\ \/ /\ Fail("transport")
        /\ UNCHANGED results
     \/ /\ results' = rs
        /\ pc' = "walk"
        /\ UNCHANGED <<outcome, reason>>
  /\ UNCHANGED <<params, i, gauge, registered, trips, expired>>

\* Mutant: the element's error is ignored and its empty result extracted.
WalkElemIgnoresError ==
  /\ pc = "walk"
  /\ i <= N
  /\ Record(i, results[i], "walk")
  /\ UNCHANGED <<params, results, registered, trips, expired>>

\* Lines 352-383: one element of the walk.  e.Error is never read: an
\* element that failed keeps a nil RawMessage, which json.Unmarshal rejects.
WalkElem ==
  /\ pc = "walk"
  /\ i <= N
  /\ \/ /\ results[i].kind = "error"
        /\ Fail("unmarshal")
        /\ UNCHANGED <<i, gauge>>
     \/ /\ results[i].kind # "error"
        /\ Record(i, results[i], "walk")
  /\ UNCHANGED <<params, results, registered, trips, expired>>

\* Mutant: the loop stops one descriptor early.
LoopDoneEarly ==
  /\ pc \in {"loop", "walk"}
  /\ i >= N
  /\ pc' = "return"
  /\ UNCHANGED <<params, i, results, gauge, registered, trips, outcome, reason, expired>>

\* Lines 281 and 352: a loop over the descriptors ends.
LoopDone ==
  /\ pc \in {"loop", "walk"}
  /\ i > N
  /\ pc' = "return"
  /\ UNCHANGED <<params, i, results, gauge, registered, trips, outcome, reason, expired>>

\* Line 387: return true.
Return ==
  /\ pc = "return"
  /\ outcome' = "success"
  /\ pc' = "done"
  /\ UNCHANGED <<params, i, results, gauge, registered, trips, reason, expired>>

\* The scrape's context deadline passes; the code never reads ctx.
Deadline ==
  /\ outcome = "running"
  /\ ~expired
  /\ expired' = TRUE
  /\ UNCHANGED <<params, pc, i, results, gauge, registered, trips, outcome, reason>>

\* The probe has returned; the exporter renders the registry.
Returned ==
  /\ pc = "done"
  /\ UNCHANGED vars

Next ==
  \/ Dial \/ CheckColumns \/ Dispatch
  \/ CallSend \/ \E r \in Answers : CallReturn(r)
  \/ BuildBatch \/ \E rs \in [1..N -> Answers] : BatchReturn(rs)
  \/ WalkElem \/ LoopDone \/ Return
  \/ Deadline \/ Returned

\* The probe's goroutine keeps running; the endpoint may never answer
\* (the HTTP client has no timeout), so CallReturn and BatchReturn are not fair.
Fairness ==
  /\ WF_vars(Dial) /\ WF_vars(CheckColumns) /\ WF_vars(Dispatch)
  /\ WF_vars(CallSend) /\ WF_vars(BuildBatch) /\ WF_vars(WalkElem)
  /\ WF_vars(LoopDone) /\ WF_vars(Return)

Spec == Init /\ [][Next]_vars /\ Fairness

-----------------------------------------------------------------------------
(* Properties.                                                             *)

PCs == {"dial", "columns", "dispatch", "loop", "await", "build", "batch", "walk", "return", "done"}
Reasons == {"none", "dial", "empty", "length", "parse", "transport", "call", "unmarshal", "jmespath"}

\* Every variable holds a value of its type.
TypeOK ==
  /\ params \in QueryParamsType
  /\ pc \in PCs
  /\ i \in 1..(N + 1)
  /\ results \in Seq(Answers)
  /\ DOMAIN gauge \subseteq Labels
  /\ gauge \in [DOMAIN gauge -> Values]
  /\ registered \in BOOLEAN
  /\ trips \in Nat
  /\ outcome \in {"running", "success", "failure", "panic"}
  /\ reason \in Reasons
  /\ expired \in BOOLEAN

(***************************************************************************)
(* Misaligned or missing columns (lines 258-266): whatever the mode, the   *)
(* endpoint is never contacted and the probe never reports success.        *)
(***************************************************************************)
ColumnMismatchFailsBeforeIO ==
  ~ColumnsOK => trips = 0 /\ outcome \in {"running", "failure"}

\* The registry holds exactly the series of descriptors 1..j, each with the
\* value reported for the last of those descriptors that carries its labels.
SeriesOf(j) ==
  /\ DOMAIN gauge = {Label(k) : k \in 1..j}
  /\ \A k \in 1..j :
       (\A k2 \in (k + 1)..j : Label(k2) # Label(k)) => gauge[Label(k)] = Reported(k, results[k])

(***************************************************************************)
(* At every point, and in particular after any of the early returns of     *)
(* lines 284-314 and 356-373, the probe_jsonrpc series are exactly those   *)
(* of the descriptors already handled, each computed from its own result:  *)
(* a failure leaves the earlier series in place (no rollback, line 289)    *)
(* and never a series of a later or of the failing descriptor.             *)
(***************************************************************************)
SeriesMatchCompletedCalls == SeriesOf(i - 1)

(***************************************************************************)
(* A probe that returns true has called every descriptor and the registry  *)
(* holds one series per distinct label, with the value of the last         *)
(* descriptor carrying it.  Covers the loop bounds, the fail-fast returns  *)
(* of both modes and the batch index alignment (lines 281-383).            *)
(***************************************************************************)
SuccessReportsEveryCall ==
  outcome = "success" => N >= 1 /\ Len(results) = N /\ SeriesOf(N)

(***************************************************************************)
(* The same for the probe that takes the "jsonrpc" case of the module      *)
(* switch (line 268): the loops of lines 281-383 are the only way to       *)
(* "return true" there.                                                    *)
(***************************************************************************)
JsonRpcSuccessReportsEveryCall ==
  params.module = "jsonrpc" => SuccessReportsEveryCall

(***************************************************************************)
(* No step of the probe takes a series back out of the registry, and only  *)
(* the step that handles one more descriptor while the probe is running    *)
(* sets a series: a failed call, extraction or conversion leaves what the  *)
(* earlier descriptors set (no rollback: the gauge is written at line 327  *)
(* and 382 and never reset), and once the probe has returned (line 387 or  *)
(* an early return false) its outcome and the registry stay as they are.   *)
(***************************************************************************)
RegistryStep ==
  /\ DOMAIN gauge \subseteq DOMAIN gauge'
  /\ gauge' # gauge => i' = i + 1 /\ outcome' = "running"
  /\ outcome # "running" => outcome' = outcome /\ gauge' = gauge

RegistryNeverRollsBack == [][RegistryStep]_vars

(***************************************************************************)
(* The prober's contract (spec section 7): it returns a boolean and never  *)
(* raises.  resultToFloat64WithDecimals (line 83) divides by               *)
(* math.Pow10(decimals), which is 0 below -323; a zero result then makes   *)
(* big.Float.Quo panic with ErrNaN.                                        *)
(***************************************************************************)
NeverPanics == outcome # "panic"

(***************************************************************************)
(* Spec sections 4.2 and 8: a value that does not parse, or an extraction  *)
(* that finds nothing, fails the probe instead of being reported as a      *)
(* number.  So a successful probe read a well-formed integer text for      *)
(* every descriptor, under a decimal that parses and scales finitely.      *)
(* The code drops the ok flag of SetString (lines 77-81) and the error of  *)
(* ParseInt (line 317), and formats a missing JMESPath match as "<nil>".   *)
(***************************************************************************)
SuccessMeansMeasured ==
  outcome = "success" =>
    \A k \in 1..Len(results) :
      /\ Extract(params.resultJMESPath[k], results[k]).text.enc # "bad"
      /\ params.decimal[k].ok
      /\ Pow10(params.decimal[k].n) = "finite"

(***************************************************************************)
(* Spec section 7: malformed call arguments are a precondition error,      *)
(* found before any I/O.  Without batching the code parses the arguments   *)
(* of descriptor k only after the calls of descriptors 1..k-1 (line 283).  *)
(***************************************************************************)
MalformedArgsFailBeforeIO ==
  (\E k \in 1..Len(params.arg) : ~parseJSONRPCParams(params.arg[k])) => trips = 0

(***************************************************************************)
(* Spec section 5: once the scrape's deadline has passed, the probe        *)
(* returns.  The calls of lines 288 and 347 run on a background context,   *)
(* so an endpoint that never answers holds the probe forever.              *)
(***************************************************************************)
DeadlineEndsProbe == expired ~> (outcome # "running")

=============================================================================
