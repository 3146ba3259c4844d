CONSTANTS
  MaxCalls = 1
  Methods = {m1}
  Tags = {t1, t2}
  Modules = {"jsonrpc", "chain_info"}
  ArgTexts <- MCArgTexts
  Paths <- MCPaths
  Decimals <- MCDecimals
  Texts <- MCTexts
  Answers <- MCAnswers
SYMMETRY MCSymmetry
SPECIFICATION Spec
INVARIANTS
  TypeOK
  ColumnMismatchFailsBeforeIO
  JsonRpcSuccessReportsEveryCall
  SeriesMatchCompletedCalls
PROPERTY
  ImplementsContract
