CONSTANTS
    Symbols <- MCSymbols
    Names <- MCNames
    Addresses <- MCAddresses
    Chains <- MCChains
    Decimals <- MCDecimals
    GenesisDates <- MCGenesisDates
    Mechanisms <- MCMechanisms
    ChainIds <- MCChainIds
    Volumes <- MCVolumes
    VolumeAssetNotNull = FALSE
    MaxNullRows = 1
    i1 = i1
    i2 = i2
    Ids <- MCIds
    NoRow = NoRow
    DbError = DbError
    HexToAddressHex <- MCHexToAddressHex
INIT StoreInit
NEXT StoreNext
SYMMETRY IdSymmetry
INVARIANTS
    SetThenGetBlockchain
