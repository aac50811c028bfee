CONSTANTS
    Symbols <- MCSymbols
    Names <- MCNames
    Addresses <- MCAddresses
    Chains <- MCChains
    Decimals <- MCDecimals
    i1 = i1
    i2 = i2
    r1 = r1
    r2 = r2
    r3 = r3
    c1 = c1
    c2 = c2
    Ids <- MCIds
    RowIds <- MCRowIds
    SymbolClients <- MCTwoClients
    Exchanges <- MCExchanges
    ExchangeSymbols <- MCExchangeSymbols
    UniqueSymbolExchange = TRUE
    NoRow = NoRow
    DbError = DbError
    HexToAddressHex <- MCHexToAddressHex
INIT SymbolInit
NEXT SymbolNext
SYMMETRY Symmetry
INVARIANTS
    VerifyThenRead
PROPERTIES
    ExchangeSymbolCatalogSpec
