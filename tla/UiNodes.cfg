SPECIFICATION Spec
CONSTANTS
    f1 = f1
    RootId = RootId
    ListId = ListId
    Fields = {f1}
    PromptId = PromptId
    NoId = NoId
    LastSlot = 11
    Budgets <- MCBudgets
INVARIANTS
    NothingStale
    FocusFollows
PROPERTIES
    BuildsTree
