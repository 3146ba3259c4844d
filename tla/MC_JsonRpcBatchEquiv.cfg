CONSTANTS
  MaxCalls = 2
  Methods = {m1}
  Tags = {t1, t2}
  Modules = {"jsonrpc"}
  ArgTexts <- MCArgTexts
  Paths <- MCPaths
  Decimals <- MCDecimals
  Texts <- MCTexts
  Answers <- MCAnswers
SYMMETRY MCSymmetry
SPECIFICATION EquivSpec
INVARIANT
  BatchMatchesSequential
