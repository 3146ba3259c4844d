--------------------------- MODULE MC_JsonRpcProbe ---------------------------
(* Instances of JsonRpcProbe for TLC.  One call: every data value the      *)
(* model distinguishes.  Two calls: fewer values, so that interleavings of *)
(* two descriptors (one succeeding, the next failing; two descriptors on   *)
(* one series) fit in a run.                                               *)
EXTENDS JsonRpcProbeContract, TLC

\* "a", a blank-padded " a" (same trimmed label), and "{" with an unbalanced brace.
MCArgTexts == {<<"a">>, <<" ", "a">>, <<"{">>}

\* "", " " (blank: the raw-result branch), "f" (a field), "(" (a syntax error).
MCPaths == {<<>>, <<" ">>, <<"f">>, <<"(">>}
MCPathsTwo == {<<>>, <<"f">>}

\* "0", "18", "-400" (math.Pow10 underflows to 0), and a non-integer text.
MCDecimals == {[ok |-> TRUE, n |-> 0], [ok |-> TRUE, n |-> 18],
               [ok |-> TRUE, n |-> -400], [ok |-> FALSE, n |-> 0]}
MCDecimalsTwo == {[ok |-> TRUE, n |-> 0], [ok |-> TRUE, n |-> -400]}

\* "0x1", "0x0", and a malformed text whose digit prefix is 1 (e.g. "1e+21").
MCTexts == {[enc |-> "hex", v |-> 1], [enc |-> "hex", v |-> 0], [enc |-> "bad", v |-> 1]}

ErrorAnswer == [kind |-> "error", text |-> NilText, field |-> FALSE]
FieldAnswer == [kind |-> "obj", text |-> [enc |-> "hex", v |-> 1], field |-> TRUE]
StrAnswer(t) == [kind |-> "str", text |-> t, field |-> FALSE]

MCAnswers ==
  {ErrorAnswer, FieldAnswer,
   [kind |-> "null", text |-> NilText, field |-> FALSE],
   [kind |-> "obj", text |-> NilText, field |-> FALSE]}
  \cup {StrAnswer(t) : t \in MCTexts}
MCAnswersTwo ==
  {ErrorAnswer, FieldAnswer, StrAnswer([enc |-> "hex", v |-> 1]), StrAnswer([enc |-> "hex", v |-> 0])}

MCSymmetry == Permutations(Tags)
=============================================================================
