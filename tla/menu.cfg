SPECIFICATION MenuSpec
CONSTANTS
    Workers = {w1, w2}
    Dishes = {"d1", "d2"}
    Categories = {c1, c2}
    Recipes <- MCRecipes
    Carts <- MCCarts
    Terms <- MCTerms
    MaxOrders = 1
    MaxEdits = 2
    Null = Null
SYMMETRY Symmetry
INVARIANTS
    ReferencesHold
    TotalsAddUp
    PreviewIsCharged
PROPERTIES
    LinesAreKept
CHECK_DEADLOCK FALSE
