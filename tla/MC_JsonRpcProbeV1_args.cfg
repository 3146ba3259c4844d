CONSTANTS
  MaxCalls = 1
  Methods = {m1}
  Tags = {t1}
  Modules = {"jsonrpc", "other"}
  ArgTexts <- MCArgTextsV1
  Paths <- MCPathsV1
  Decimals <- MCDecimalsV1
  Texts <- MCTextsV1
  Answers <- MCAnswersV1
SPECIFICATION SpecV1
INVARIANT
  ArgsSentAsSpecified
