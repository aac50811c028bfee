CONSTANTS
    PageSizes <- MCPageSizes
    PoolSize <- MCPoolSize
    MaxRows <- MCMaxRows
    MaxPage <- MCMaxPage
    NoPage = NoPage
CHECK_DEADLOCK FALSE
INIT PagingInit
NEXT PagingNext
INVARIANTS
    NoLeakWithPageSize
