SPECIFICATION ViewSpec
CONSTANT MaxFields = 2
INVARIANTS ViewInv PromptGuardsList ColorsFitMode
PROPERTIES EditorComesToSend ListFetches
