SPECIFICATION Spec
CONSTANTS
    Vins = {1, 2, 3}
    Lines = {1, 2, 3}
    Prices = {1, 2}
    Named = {2, 3}
    Rows <- MCRows
    ManualRows <- MCManualRows
    Terms <- MCTerms
    Queries <- MCQueries
    Lists <- MCLists
    Older <- MCOlder
    PageSize = 2
    Caps <- MCCaps
    Limit = 2
INVARIANTS
    TypeOK
    TotalsHold
    DealerPagesEnd
    FiltersMatchSpecials
    HomepageIsFull
