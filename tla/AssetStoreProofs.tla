--------------------------- MODULE AssetStoreProofs ---------------------------
(***************************************************************************)
(* Proofs about the composed asset store, for every value of the           *)
(* constants.  Both properties rest on the same fact: a row that resolves  *)
(* an asset inside its own statement (a chain's native token, an asset's   *)
(* volume) keeps pointing at a row with the key it was resolved by,        *)
(* because SetAsset only fills free ids and table asset keeps             *)
(* (address, blockchain) unique (UniqueKeys, from AssetRepoRefinement).    *)
(***************************************************************************)
EXTENDS AssetStore, AssetRepoRefinement

(***************************************************************************)
(* The native token id of a blockchain row names a row on that chain.      *)
(***************************************************************************)
NativeOnChain ==
    \A n \in Chains :
        chainTable[n] # NoRow /\ chainTable[n].native # NoRow =>
            /\ assetTable[chainTable[n].native] # NoRow
            /\ assetTable[chainTable[n].native].blockchain = n

(***************************************************************************)
(* Every volume row belongs to a row of table asset and holds the          *)
(* formatted volume of the latest successful set for that row's key.       *)
(***************************************************************************)
RowKey(id) == <<assetTable[id].address, assetTable[id].blockchain>>

VolumeRows ==
    \A id \in Ids : volumeTable[id] # NoRow =>
        /\ assetTable[id] # NoRow
        /\ volumeSet[RowKey(id)] # NoRow
        /\ volumeTable[id] = FormatVolume(volumeSet[RowKey(id)])

SInv == BlockchainTypeOK /\ VolumeTypeOK /\ UniqueKeys /\ NativeOnChain /\ VolumeRows

(***************************************************************************)
(* A step of the store is a step of the asset repository or leaves its     *)
(* variables alone.                                                        *)
(***************************************************************************)
LEMMA StoreStepIsRepoStep == [StoreNext]_storeVars => [Next]_vars
BY DEF StoreNext, Next, vars, storeVars, chainVars, volVars

(***************************************************************************)
(* The id NativeTokenId or VolumeAssetId resolves is NULL or the row with  *)
(* the key asked for.                                                      *)
(***************************************************************************)
LEMMA NativeTokenIdOnChain ==
    ASSUME NEW address \in Addresses, NEW name \in Chains
    PROVE  LET id == NativeTokenId(address, name) IN
           id = NoRow \/ (id \in Ids /\ assetTable[id] # NoRow
                                     /\ assetTable[id].blockchain = name)
BY DEF NativeTokenId, MatchingIds

LEMMA VolumeAssetIdKey ==
    ASSUME NEW asset \in AssetVal
    PROVE  \/ VolumeAssetId(asset) = NoRow /\ GetKeyAsset(asset) = {}
           \/ VolumeAssetId(asset) \in GetKeyAsset(asset) /\ VolumeAssetId(asset) # NoRow
BY AssetRepoAssumption DEF VolumeAssetId, GetKeyAsset, MatchingIds

LEMMA SInvInit == StoreInit => SInv
BY TypeOKInit, VolumeAssumption DEF StoreInit, BlockchainInit, VolumeInit, SInv, BlockchainTypeOK,
                  VolumeTypeOK, UniqueKeys, UniqueIn, NativeOnChain, VolumeRows, Init

LEMMA SInvNext == SInv /\ [StoreNext]_storeVars => SInv'
<1> SUFFICES ASSUME SInv, [StoreNext]_storeVars PROVE SInv'
  OBVIOUS
<1> USE DEF SInv
<1>1. TypeOK' /\ UniqueKeys'
  BY StoreStepIsRepoStep, TypeOKNext, UniqueKeysNext DEF BlockchainTypeOK
<1>2. ASSUME NEW asset \in AssetVal, SetAsset(asset), UNCHANGED <<chainVars, volVars>>
      PROVE  SInv'
  <2>1. PICK nid \in Ids : /\ assetTable[nid] = NoRow
                           /\ assetTable' = [assetTable EXCEPT ![nid] = asset]
    BY <1>2 DEF SetAsset
  <2>2. volumeTable[nid] = NoRow
    BY <2>1 DEF VolumeRows
  <2>3. BlockchainTypeOK' /\ VolumeTypeOK'
    BY <1>1, <1>2 DEF BlockchainTypeOK, VolumeTypeOK, chainVars, volVars
  <2>4. NativeOnChain'
    BY <1>2, <2>1 DEF NativeOnChain, chainVars, BlockchainTypeOK, TypeOK
  <2>5. VolumeRows'
    BY <1>2, <2>1, <2>2 DEF VolumeRows, RowKey, volVars, VolumeTypeOK, TypeOK
  <2>6. QED
    BY <1>1, <2>3, <2>4, <2>5
<1>3. ASSUME NEW b \in BlockChainVal, SetBlockchain(b), UNCHANGED <<vars, volVars>>
      PROVE  SInv'
  <2> DEFINE id == NativeTokenId(b.nativeAddress, b.name)
  <2>1. b.name \in Chains /\ b.nativeAddress \in Addresses
    BY DEF BlockChainVal
  <2>2. id = NoRow \/ (id \in Ids /\ assetTable[id] # NoRow
                                  /\ assetTable[id].blockchain = b.name)
    BY <2>1, NativeTokenIdOnChain
  <2>3. NullIf(b.chainId) \in ChainIds \cup {NoRow}
    BY DEF NullIf, BlockChainVal
  <2>4. BlockchainTypeOK'
    BY <1>3, <2>1, <2>2, <2>3 DEF SetBlockchain, BlockchainTypeOK, ChainRow,
                                  BlockChainVal, vars, TypeOK
  <2>5. NativeOnChain'
    BY <1>3, <2>1, <2>2 DEF SetBlockchain, NativeOnChain, vars, BlockchainTypeOK
  <2>6. VolumeTypeOK' /\ VolumeRows'
    BY <1>3 DEF VolumeTypeOK, VolumeRows, RowKey, vars, volVars
  <2>7. QED
    BY <1>1, <2>4, <2>5, <2>6
<1>4. ASSUME NEW asset \in AssetVal, NEW v \in Volumes, SetAssetVolume24H(asset, v),
             UNCHANGED <<vars, chainVars>>
      PROVE  SInv'
  <2> DEFINE key == <<asset.address, asset.blockchain>>
             id == VolumeAssetId(asset)
  <2>1. key \in Addresses \X Chains
    BY DEF AssetVal
  <2>2. BlockchainTypeOK' /\ NativeOnChain'
    BY <1>4 DEF BlockchainTypeOK, NativeOnChain, vars, chainVars, TypeOK
  <2>3. CASE id # NoRow
    <3>1. id \in GetKeyAsset(asset)
      BY <2>3, VolumeAssetIdKey
    <3>2. id \in Ids /\ assetTable[id] # NoRow /\ RowKey(id) = key
      BY <3>1 DEF GetKeyAsset, MatchingIds, RowKey
    <3>3. \A j \in Ids : assetTable[j] # NoRow /\ j # id => RowKey(j) # key
      BY <3>2 DEF UniqueKeys, UniqueIn, RowKey
    <3>4. /\ volumeTable' = [volumeTable EXCEPT ![id] = FormatVolume(v)]
          /\ volumeSet' = [volumeSet EXCEPT ![key] = v]
          /\ UNCHANGED nullRows
      BY <1>4, <2>3 DEF SetAssetVolume24H
    <3>5. VolumeTypeOK'
      BY <2>1, <3>2, <3>4 DEF VolumeTypeOK
    <3>6. VolumeRows'
      <4> SUFFICES ASSUME NEW j \in Ids, volumeTable'[j] # NoRow
                   PROVE  /\ assetTable'[j] # NoRow
                          /\ volumeSet'[RowKey(j)'] # NoRow
                          /\ volumeTable'[j] = FormatVolume(volumeSet'[RowKey(j)'])
        BY DEF VolumeRows
      <4>1. assetTable' = assetTable
        BY <1>4 DEF vars
      <4>2. RowKey(j)' = RowKey(j)
        BY <4>1 DEF RowKey
      <4>3. CASE j = id
        BY <2>1, <3>2, <3>4, <4>1, <4>2, <4>3, VolumeAssumption DEF VolumeTypeOK
      <4>4. CASE j # id
        <5>1. volumeTable[j] # NoRow /\ volumeTable'[j] = volumeTable[j]
          BY <3>4, <4>4 DEF VolumeTypeOK
        <5>2. assetTable[j] # NoRow
          BY <5>1 DEF VolumeRows
        <5>3. RowKey(j) # key
          BY <3>3, <4>4, <5>2
        <5>4. volumeSet'[RowKey(j)] = volumeSet[RowKey(j)]
          BY <3>4, <5>3 DEF VolumeTypeOK
        <5>5. QED
          BY <4>1, <4>2, <5>1, <5>2, <5>4 DEF VolumeRows
      <4>5. QED
        BY <4>3, <4>4
    <3>7. QED
      BY <1>1, <2>2, <3>5, <3>6
  <2>4. CASE id = NoRow
    <3>1. GetKeyAsset(asset) = {}
      BY <2>4, VolumeAssetIdKey
    <3>2. \A j \in Ids : assetTable[j] # NoRow => RowKey(j) # key
      BY <3>1 DEF GetKeyAsset, MatchingIds, RowKey
    <3>3. /\ nullRows < MaxNullRows /\ nullRows' = nullRows + 1
          /\ volumeSet' = [volumeSet EXCEPT ![key] = v]
          /\ UNCHANGED volumeTable
      BY <1>4, <2>4 DEF SetAssetVolume24H
    <3>4. VolumeTypeOK'
      BY <2>1, <3>3, VolumeAssumption DEF VolumeTypeOK
    <3>5. VolumeRows'
      <4> SUFFICES ASSUME NEW j \in Ids, volumeTable'[j] # NoRow
                   PROVE  /\ assetTable'[j] # NoRow
                          /\ volumeSet'[RowKey(j)'] # NoRow
                          /\ volumeTable'[j] = FormatVolume(volumeSet'[RowKey(j)'])
        BY DEF VolumeRows
      <4>1. assetTable' = assetTable
        BY <1>4 DEF vars
      <4>2. RowKey(j)' = RowKey(j)
        BY <4>1 DEF RowKey
      <4>3. volumeTable[j] # NoRow /\ volumeTable'[j] = volumeTable[j]
        BY <3>3
      <4>4. assetTable[j] # NoRow
        BY <4>3 DEF VolumeRows
      <4>5. volumeSet'[RowKey(j)] = volumeSet[RowKey(j)]
        BY <3>2, <3>3, <4>4 DEF VolumeTypeOK
      <4>6. QED
        BY <4>1, <4>2, <4>3, <4>4, <4>5 DEF VolumeRows
    <3>6. QED
      BY <1>1, <2>2, <3>4, <3>5
  <2>5. QED
    BY <2>3, <2>4
<1>5. CASE UNCHANGED storeVars
  BY <1>1, <1>5 DEF storeVars, BlockchainTypeOK, VolumeTypeOK, NativeOnChain,
                    VolumeRows, RowKey
<1>6. QED
  BY <1>2, <1>3, <1>4, <1>5 DEF StoreNext

LEMMA SInvInvariant == StoreSpec => []SInv
BY SInvInit, SInvNext, PTL DEF StoreSpec

(***************************************************************************)
(* GetBlockchain never reports a native token that is not an asset of the  *)
(* chain it was asked for, whatever SetAsset, SetBlockchain and            *)
(* SetAssetVolume24H calls came before: the property the run asset_store   *)
(* checks on a small instance.                                             *)
(***************************************************************************)
THEOREM BlockchainNativeCorrect == StoreSpec => []GetBlockchainNativeOnChain
<1>1. SInv => GetBlockchainNativeOnChain
  <2> SUFFICES ASSUME SInv, NEW n \in Chains,
                      GetBlockchain(n) \notin {NoRow, DbError}
               PROVE  LET res == GetBlockchain(n) IN
                      /\ \E id \in Ids : /\ assetTable[id] # NoRow
                                         /\ assetTable[id].blockchain = n
                                         /\ assetTable[id].address = res.nativeAddress
                                         /\ assetTable[id].symbol = res.nativeSymbol
                      /\ n \in GetAllBlockchains
    BY DEF GetBlockchainNativeOnChain
  <2> DEFINE row == chainTable[n]
  <2>1. row # NoRow /\ row.native # NoRow /\ assetTable[row.native] # NoRow
    BY DEF GetBlockchain
  <2>2. row.native \in Ids
    BY <2>1 DEF SInv, BlockchainTypeOK, ChainRow
  <2>3. assetTable[row.native].blockchain = n
    BY <2>1 DEF SInv, NativeOnChain
  <2>4. GetBlockchain(n).nativeAddress = assetTable[row.native].address
        /\ GetBlockchain(n).nativeSymbol = assetTable[row.native].symbol
    BY <2>1, <2>3 DEF GetBlockchain
  <2>5. QED
    BY <2>1, <2>2, <2>3, <2>4 DEF GetAllBlockchains
<1>2. QED
  BY <1>1, SInvInvariant, PTL

(***************************************************************************)
(* GetAssetVolume24H only ever returns the formatted volume of the latest  *)
(* SetAssetVolume24H for the asset's address and blockchain that returned  *)
(* nil, for either schema of assetvolume: the property the run asset_store *)
(* checks on a small instance.                                             *)
(***************************************************************************)
THEOREM VolumeReadSoundness == StoreSpec => []VolumeReadSound
<1>1. SInv => VolumeReadSound
  <2> SUFFICES ASSUME SInv, NEW asset \in AssetVal, GetAssetVolume24H(asset) # NoRow
               PROVE  /\ volumeSet[<<asset.address, asset.blockchain>>] # NoRow
                      /\ GetAssetVolume24H(asset) =
                             FormatVolume(volumeSet[<<asset.address, asset.blockchain>>])
    BY DEF VolumeReadSound
  <2>1. VolumeAssetId(asset) \in GetKeyAsset(asset)
    BY VolumeAssetIdKey DEF GetAssetVolume24H
  <2>2. RowKey(VolumeAssetId(asset)) = <<asset.address, asset.blockchain>>
    BY <2>1 DEF GetKeyAsset, MatchingIds, RowKey
  <2>3. GetAssetVolume24H(asset) = volumeTable[VolumeAssetId(asset)]
    BY <2>1 DEF GetAssetVolume24H, GetKeyAsset, MatchingIds
  <2>4. QED
    BY <2>1, <2>2, <2>3 DEF SInv, VolumeRows, GetKeyAsset, MatchingIds
<1>2. QED
  BY <1>1, SInvInvariant, PTL
=============================================================================
