-------------------------- MODULE MC_JsonRpcProbeV1 -------------------------
(* Instances of JsonRpcProbeV1 for TLC.                                    *)
EXTENDS JsonRpcProbeV1, TLC

\* "" (no parameters), "t" (a ParseBool-only boolean), " 1,a" (an int and
\* a string, with a blank the label keeps and the parameter drops).
MCArgTextsV1 == {<<>>, <<"t">>, <<" ", "1", ",", "a">>}

\* "", " " (not empty, but not a JMESPath expression), "f" (a field).
MCPathsV1 == {<<>>, <<" ">>, <<"f">>}
MCPathsV1Two == {<<>>, <<"f">>}

\* "0" and "-400" (math.Pow10 underflows to 0).
MCDecimalsV1 == {[ok |-> TRUE, n |-> 0], [ok |-> TRUE, n |-> -400]}
\* Only "0", so that big.Float.Quo cannot panic.
MCDecimalsV1Zero == {[ok |-> TRUE, n |-> 0]}

MCTextsV1 == {[enc |-> "hex", v |-> 1], [enc |-> "hex", v |-> 0]}

MCNil == [enc |-> "bad", v |-> 0]
MCStr(t) == [kind |-> "str", text |-> t, field |-> FALSE]
MCAnswersV1 ==
  {[kind |-> "error", text |-> MCNil, field |-> FALSE],
   [kind |-> "null", text |-> MCNil, field |-> FALSE],
   [kind |-> "obj", text |-> [enc |-> "hex", v |-> 1], field |-> TRUE]}
  \cup {MCStr(t) : t \in MCTextsV1}
MCAnswersV1Two ==
  {[kind |-> "obj", text |-> [enc |-> "hex", v |-> 1], field |-> TRUE],
   MCStr([enc |-> "hex", v |-> 1]), MCStr([enc |-> "hex", v |-> 0])}

MCSymmetryV1 == Permutations(Tags)
=============================================================================
