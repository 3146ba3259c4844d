CONSTANTS
  MaxCalls = 1
  Methods = {m1}
  Tags = {t1, t2}
  Modules = {"jsonrpc", "chain_info"}
  ArgTexts <- MCArgTexts
  Paths <- MCPathsTwo
  Decimals <- MCDecimalsTwo
  Texts <- MCTexts
  Answers <- MCAnswersTwo
SYMMETRY MCSymmetry
SPECIFICATION Spec
INVARIANT
  SuccessReportsEveryCall
