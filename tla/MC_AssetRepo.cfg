CONSTANTS
    Symbols <- MCSymbols
    Names <- MCNames
    Addresses <- MCAddresses
    Chains <- MCChains
    Decimals <- MCDecimals
    i1 = i1
    i2 = i2
    i3 = i3
    Ids <- MCIds
    NoRow = NoRow
    DbError = DbError
    HexToAddressHex <- MCHexToAddressHex
SPECIFICATION Spec
SYMMETRY IdSymmetry
INVARIANTS
    GetAssetReturnsStoredRow
    MemoSound
PROPERTIES
    CatalogSpec
