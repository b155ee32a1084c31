SPECIFICATION FairSpec
CONSTANT MaxPage = 6
INVARIANTS
    TypeOK
    NoPageTwice
    NoHoleBelowFirst
PROPERTY
    RefreshEnds
