CONSTANTS
    PageSizes <- MCPageSizesPositive
    PoolSize <- MCPoolSize
    MaxRows <- MCMaxRows
    MaxPage <- MCMaxPage
    NoPage = NoPage
INIT PagingInit
NEXT PagingNext
INVARIANTS
    PageReturnsRows
