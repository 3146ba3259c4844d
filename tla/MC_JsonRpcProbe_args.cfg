CONSTANTS
  MaxCalls = 2
  Methods = {m1}
  Tags = {t1, t2}
  Modules = {"jsonrpc"}
  ArgTexts <- MCArgTexts
  Paths <- MCPathsTwo
  Decimals <- MCDecimalsTwo
  Texts <- MCTexts
  Answers <- MCAnswersTwo
SYMMETRY MCSymmetry
SPECIFICATION Spec
INVARIANT
  MalformedArgsFailBeforeIO
