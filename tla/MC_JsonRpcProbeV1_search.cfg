CONSTANTS
  MaxCalls = 1
  Methods = {m1}
  Tags = {t1}
  Modules = {"jsonrpc"}
  ArgTexts <- MCArgTextsV1
  Paths <- MCPathsV1
  Decimals <- MCDecimalsV1Zero
  Texts <- MCTextsV1
  Answers <- MCAnswersV1
SPECIFICATION SpecV1
INVARIANT
  NeverPanics
