SPECIFICATION Spec
CONSTANTS
  Chars = {"a", "b"}
  PromptText <- MCPromptText
  Outputs <- MCOutputs
  LineMax = 2
  HistorySize = 2
  Width = 4
INVARIANTS TypeOK RowShowsLine
PROPERTY ImplementsRecall
