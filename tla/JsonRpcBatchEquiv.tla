-------------------------- MODULE JsonRpcBatchEquiv --------------------------
(***************************************************************************)
(* Two invocations of ProbeJSONRPC on the same query parameters against    *)
(* the same deterministic endpoint, one with disableBatch=true and one     *)
(* without.  Spec section 8: batching is a wire optimisation, not a change *)
(* of behaviour.  The invocations are independent (each has its own       *)
(* registry and client), so the sequential one is run to its end first.   *)
(***************************************************************************)
EXTENDS Integers, Sequences

CONSTANTS MaxCalls, Methods, ArgTexts, Decimals, Tags, Paths, Modules, Texts, Answers

VARIABLES
  paramsS,    \* the query parameters, with disableBatch=true
  paramsB,    \* the same query parameters, with disableBatch=false
  endpoint,   \* the endpoint's answer to each descriptor's call
  pcS, iS, resultsS, gaugeS, registeredS, tripsS, outcomeS, reasonS, expiredS,
  pcB, iB, resultsB, gaugeB, registeredB, tripsB, outcomeB, reasonB, expiredB

S == INSTANCE JsonRpcProbeProofs WITH
       params <- paramsS, pc <- pcS, i <- iS,
       results <- resultsS, gauge <- gaugeS, registered <- registeredS,
       trips <- tripsS, outcome <- outcomeS, reason <- reasonS, expired <- expiredS
B == INSTANCE JsonRpcProbeProofs WITH
       params <- paramsB, pc <- pcB, i <- iB,
       results <- resultsB, gauge <- gaugeB, registered <- registeredB,
       trips <- tripsB, outcome <- outcomeB, reason <- reasonB, expired <- expiredB

\* The assumptions JsonRpcProbe makes of its constants, which both
\* invocations share.
ASSUME MaxCallsAssumption == MaxCalls \in Nat \ {0}
ASSUME DataAssumption ==
  /\ ArgTexts \subseteq Seq(S!Chars)
  /\ Paths \subseteq Seq(S!Chars)
  /\ Decimals \subseteq [ok : BOOLEAN, n : Int]
  /\ Texts \subseteq S!TextShape
  /\ Answers \subseteq S!AnswerShape
  /\ "jsonrpc" \in Modules

varsS == <<paramsS, pcS, iS, resultsS, gaugeS, registeredS, tripsS, outcomeS, reasonS, expiredS>>
varsB == <<paramsB, pcB, iB, resultsB, gaugeB, registeredB, tripsB, outcomeB, reasonB, expiredB>>
allVars == <<endpoint, varsS, varsB>>

EquivInit ==
  /\ paramsB \in UNION {S!QueryParams(L) : L \in S!ColumnLengths}
  /\ paramsB.disableBatch = FALSE
  /\ paramsS = [paramsB EXCEPT !.disableBatch = TRUE]
  /\ endpoint \in [1..Len(paramsB.method) -> Answers]
  /\ pcS = "dial" /\ iS = 1 /\ resultsS = <<>> /\ gaugeS = [x \in {} |-> S!Zero]
  /\ registeredS = FALSE /\ tripsS = 0 /\ outcomeS = "running" /\ reasonS = "none" /\ expiredS = FALSE
  /\ pcB = "dial" /\ iB = 1 /\ resultsB = <<>> /\ gaugeB = [x \in {} |-> B!Zero]
  /\ registeredB = FALSE /\ tripsB = 0 /\ outcomeB = "running" /\ reasonB = "none" /\ expiredB = FALSE

\* A step of the sequential invocation; its call is answered by the endpoint.
StepS ==
  /\ \/ S!Dial \/ S!CheckColumns \/ S!Dispatch \/ S!CallSend
     \/ S!CallReturn(endpoint[iS]) \/ S!LoopDone \/ S!Return
  /\ UNCHANGED <<endpoint, varsB>>

\* A step of the batched invocation, once the sequential one has returned.
StepB ==
  /\ pcS = "done"
  /\ \/ B!Dial \/ B!CheckColumns \/ B!Dispatch \/ B!BuildBatch
     \/ B!BatchReturn(endpoint) \/ B!WalkElem \/ B!LoopDone \/ B!Return
  /\ UNCHANGED <<endpoint, varsS>>

BothReturned ==
  /\ pcS = "done" /\ pcB = "done"
  /\ UNCHANGED allVars

EquivNext == StepS \/ StepB \/ BothReturned

EquivSpec == EquivInit /\ [][EquivNext]_allVars

(***************************************************************************)
(* When every argument text parses and neither invocation met a dial or    *)
(* transport failure (the only nondeterminism besides the endpoint), both  *)
(* return the same outcome, and successful ones leave identical            *)
(* probe_jsonrpc series and values.  (With a malformed argument the        *)
(* sequential mode may first call, and panic on, earlier descriptors: see  *)
(* MalformedArgsFailBeforeIO in JsonRpcProbe.)                             *)
(* Covers the batch path's unchecked per-element errors (line 352) and the *)
(* two copies of the extraction code (lines 296-315 and 354-374).          *)
(***************************************************************************)
BatchMatchesSequential ==
  (/\ \A k \in DOMAIN paramsB.arg : S!parseJSONRPCParams(paramsB.arg[k])
   /\ pcS = "done" /\ pcB = "done"
   /\ reasonS \notin {"dial", "transport"} /\ reasonB \notin {"dial", "transport"})
  => /\ outcomeS = outcomeB
     /\ outcomeS = "success" => gaugeS = gaugeB
=============================================================================
