---------------------------- MODULE BlockchainRepo ----------------------------
(***************************************************************************)
(* The blockchain repository of pkg/model/assets.go: table blockchain,     *)
(* keyed by name, written by SetBlockchain and read by GetBlockchain, and  *)
(* GetAllBlockchains, which lists the chain names of table asset.  A       *)
(* chain's native token is the asset_id of the row of table asset with the *)
(* token's address on that chain, looked up inside the upsert.             *)
(***************************************************************************)
EXTENDS AssetRepo

CONSTANTS
    GenesisDates,    \* values of dia.BlockChain.GenesisDate
    Mechanisms,      \* values of dia.BlockChain.VerificationMechanism
    ChainIds         \* values of dia.BlockChain.ChainID, "" among them

(***************************************************************************)
(* The dia.BlockChain values callers pass; a chain's name is a blockchain  *)
(* name of table asset, and of its native token only the address is read. *)
(***************************************************************************)
BlockChainVal == [name : Chains, genesis : GenesisDates, mechanism : Mechanisms,
                  chainId : ChainIds, nativeAddress : Addresses]

ChainRow == [genesis : GenesisDates, mechanism : Mechanisms,
             chainId : ChainIds \cup {NoRow}, native : Ids \cup {NoRow}]

VARIABLES
    chainTable,     \* table blockchain, keyed by name
    lastChainSet    \* the argument of the latest successful SetBlockchain

chainVars == <<chainTable, lastChainSet>>
allVars == <<assetTable, memo, redisAsset, lastGet, chainTable, lastChainSet>>

BlockchainTypeOK ==
    /\ TypeOK
    /\ chainTable \in [Chains -> ChainRow \cup {NoRow}]
    /\ lastChainSet \in BlockChainVal \cup {NoRow}

(***************************************************************************)
(* NULLIF($5,''): an empty chain id is stored as NULL.                     *)
(***************************************************************************)
NullIf(s) == IF s = "" THEN NoRow ELSE s

(***************************************************************************)
(* "(SELECT asset_id FROM asset WHERE address=$3 AND blockchain=$1)": the  *)
(* id of the native token's row on the chain being written, or NULL when   *)
(* there is none.  The unique (address, blockchain) constraint makes it a  *)
(* single row.  NativeTokenIdAnyChain drops the chain condition.          *)
(***************************************************************************)
NativeTokenIdAnyChain(address, name) ==
    LET ids == {id \in Ids : assetTable[id] # NoRow /\ assetTable[id].address = address}
    IN  IF ids = {} THEN NoRow ELSE CHOOSE id \in ids : TRUE

NativeTokenId(address, name) ==
    IF MatchingIds(address, name) = {} THEN NoRow
    ELSE CHOOSE id \in MatchingIds(address, name) : TRUE

BlockchainInit ==
    /\ Init
    /\ chainTable = [n \in Chains |-> NoRow]
    /\ lastChainSet = NoRow

(***************************************************************************)
(* SetBlockchain(blockchain): "INSERT ... ON CONFLICT (name) DO UPDATE"    *)
(* writes the same five columns whether the row is new or not.  A failed   *)
(* statement returns its error and changes nothing (a stuttering step).    *)
(***************************************************************************)
SetBlockchain(b) ==
    /\ chainTable' = [chainTable EXCEPT ![b.name] =
                        [genesis |-> b.genesis, mechanism |-> b.mechanism,
                         chainId |-> NullIf(b.chainId),
                         native |-> NativeTokenId(b.nativeAddress, b.name)]]
    /\ lastChainSet' = b

(***************************************************************************)
(* GetBlockchain(name): the row joined (INNER JOIN) with its native token's*)
(* asset row.  No row, or a NULL native token, gives pgx.ErrNoRows         *)
(* (NoRow); a NULL chain_id cannot be scanned into the string ChainID and  *)
(* fails (DbError).                                                        *)
(***************************************************************************)
GetBlockchain(name) ==
    LET row == chainTable[name] IN
    IF row = NoRow \/ row.native = NoRow THEN NoRow
    ELSE IF assetTable[row.native] = NoRow THEN NoRow
    ELSE IF row.chainId = NoRow THEN DbError
    ELSE [name |-> name, genesis |-> row.genesis, mechanism |-> row.mechanism,
          chainId |-> row.chainId,
          nativeAddress |-> assetTable[row.native].address,
          nativeSymbol |-> assetTable[row.native].symbol]

(***************************************************************************)
(* GetAllBlockchains: "select distinct blockchain from asset order by      *)
(* blockchain"; the order is left out, the set of names is kept.          *)
(***************************************************************************)
GetAllBlockchains == {assetTable[id].blockchain : id \in {i \in Ids : assetTable[i] # NoRow}}

BlockchainNext ==
    \/ \E asset \in AssetVal : SetAsset(asset) /\ UNCHANGED chainVars
    \/ \E b \in BlockChainVal : SetBlockchain(b) /\ UNCHANGED vars

BlockchainSpec == BlockchainInit /\ [][BlockchainNext]_allVars

-----------------------------------------------------------------------------
(***************************************************************************)
(* Whatever chain GetBlockchain finds, its native token is an asset of     *)
(* that chain with the reported address and symbol, and the chain is one   *)
(* GetAllBlockchains lists.  This is about the correlated subquery of      *)
(* SetBlockchain resolving the token on the chain being written, while    *)
(* SetAsset calls add rows around it.                                      *)
(***************************************************************************)
GetBlockchainNativeOnChain ==
    \A n \in Chains :
        LET res == GetBlockchain(n) IN
        res \notin {NoRow, DbError} =>
            /\ \E id \in Ids : /\ assetTable[id] # NoRow
                               /\ assetTable[id].blockchain = n
                               /\ assetTable[id].address = res.nativeAddress
                               /\ assetTable[id].symbol = res.nativeSymbol
            /\ n \in GetAllBlockchains

(***************************************************************************)
(* A successful SetBlockchain(b) is read back: GetBlockchain(b.name)       *)
(* returns b's genesis date, mechanism, chain id and native token address, *)
(* as the spec's upsert-then-get contract says.                            *)
(***************************************************************************)
SetThenGetBlockchain ==
    lastChainSet # NoRow =>
        LET res == GetBlockchain(lastChainSet.name) IN
        /\ res \notin {NoRow, DbError}
        /\ res.genesis = lastChainSet.genesis
        /\ res.mechanism = lastChainSet.mechanism
        /\ res.chainId = lastChainSet.chainId
        /\ res.nativeAddress = lastChainSet.nativeAddress

=============================================================================
