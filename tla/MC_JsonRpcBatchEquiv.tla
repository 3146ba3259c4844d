------------------------- MODULE MC_JsonRpcBatchEquiv -------------------------
(* Small instance of JsonRpcBatchEquiv for TLC.                            *)
EXTENDS JsonRpcBatchEquiv, TLC

MCArgTexts == {<<"a">>, <<" ", "a">>, <<"{">>}
MCPaths == {<<>>, <<"f">>, <<" ">>}
MCDecimals == {[ok |-> TRUE, n |-> 0], [ok |-> TRUE, n |-> -400]}
MCNilText == [enc |-> "bad", v |-> 0]   \* how "<nil>" and "" read as numbers
MCTexts == {[enc |-> "hex", v |-> 1], [enc |-> "hex", v |-> 0]}
MCAnswers ==
  {[kind |-> "error", text |-> MCNilText, field |-> FALSE],
   [kind |-> "null", text |-> MCNilText, field |-> FALSE],
   [kind |-> "obj", text |-> [enc |-> "hex", v |-> 1], field |-> TRUE]}
  \cup {[kind |-> "str", text |-> t, field |-> FALSE] : t \in MCTexts}
MCSymmetry == Permutations(Tags)
=============================================================================
