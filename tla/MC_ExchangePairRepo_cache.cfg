CONSTANTS
    Symbols <- MCSymbols
    Names <- MCNames
    Addresses <- MCAddresses
    Chains <- MCChains
    Decimals <- MCDecimals
    i1 = i1
    i2 = i2
    c1 = c1
    c2 = c2
    Ids <- MCIds
    Clients <- MCOneClient
    Exchanges <- MCExchanges
    Pairs <- MCPairs
    NoRow = NoRow
    DbError = DbError
    HexToAddressHex <- MCHexToAddressHex
INIT PairInit
NEXT WriteThroughNext
SYMMETRY Symmetry
INVARIANTS
    PairCacheMatchesTable
