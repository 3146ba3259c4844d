CONSTANTS
  MaxCalls = 2
  Methods = {m1}
  Tags = {t1, t2}
  Modules = {"jsonrpc", "other"}
  ArgTexts <- MCArgTextsV1
  Paths <- MCPathsV1
  Decimals <- MCDecimalsV1
  Texts <- MCTextsV1
  Answers <- MCAnswersV1
SYMMETRY MCSymmetryV1
SPECIFICATION SpecV1
INVARIANTS
  TypeOKV1
  SeriesMatchCompletedCallsV1
PROPERTY
  RegistryNeverRollsBackV1
