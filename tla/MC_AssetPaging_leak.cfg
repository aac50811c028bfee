CONSTANTS
    PageSizes <- MCPageSizesZero
    PoolSize <- MCPoolSize
    MaxRows <- MCMaxRows
    MaxPage <- MCMaxPage
    NoPage = NoPage
INIT PagingInit
NEXT PagingNext
INVARIANTS
    NoConnectionLeak
