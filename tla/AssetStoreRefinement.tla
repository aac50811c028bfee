------------------------ MODULE AssetStoreRefinement ------------------------
(***************************************************************************)
(* Proof that the composed store implements the abstract AssetVolumes      *)
(* under the refinement mapping (CatalogOf, VolumeOf), for every value of  *)
(* the constants and either schema of assetvolume.  It rests on SInv of    *)
(* AssetStoreProofs: table asset keeps (address, blockchain) unique, so    *)
(* the volume of a key is the volume row of the one asset row with that   *)
(* key, and every volume row belongs to a filled asset row, so a row that  *)
(* SetAsset fills has no volume yet.                                       *)
(***************************************************************************)
EXTENDS AssetStoreProofs

(***************************************************************************)
(* The volume of a stored row's key is the volume row of that row.         *)
(***************************************************************************)
LEMMA VolumeEntry ==
    ASSUME NEW t \in Table, UniqueIn(t), NEW vt, NEW id \in Ids, t[id] # NoRow
    PROVE  VolumeOfTables(t, vt)[<<t[id].address, t[id].blockchain>>] = vt[id]
<1> DEFINE key == <<t[id].address, t[id].blockchain>>
<1>1. t[id] \in AssetVal
  BY DEF Table
<1>2. key \in Addresses \X Chains
  BY <1>1 DEF AssetVal
<1>3. KeyRows(t, key[1], key[2]) = {id}
  BY <1>1 DEF UniqueIn, KeyRows
<1>4. (CHOOSE i \in KeyRows(t, key[1], key[2]) : TRUE) = id
  BY <1>3
<1>5. QED
  BY <1>2, <1>3, <1>4 DEF VolumeOfTables

(***************************************************************************)
(* A key no row has has no volume, whatever the volume rows hold.          *)
(***************************************************************************)
LEMMA VolumeMissing ==
    ASSUME NEW t, NEW vt, NEW a \in Addresses, NEW c \in Chains,
           KeyRows(t, a, c) = {}
    PROVE  VolumeOfTables(t, vt)[<<a, c>>] = NoRow
BY DEF VolumeOfTables

(***************************************************************************)
(* Inserting an asset row leaves the volume of every other key alone.      *)
(***************************************************************************)
LEMMA VolumeInsertFrame ==
    ASSUME NEW t \in Table, NEW vt, NEW nid \in Ids, t[nid] = NoRow,
           NEW asset \in AssetVal,
           NEW a \in Addresses, NEW c \in Chains,
           a # asset.address \/ c # asset.blockchain
    PROVE  VolumeOfTables([t EXCEPT ![nid] = asset], vt)[<<a, c>>]
               = VolumeOfTables(t, vt)[<<a, c>>]
<1> DEFINE u == [t EXCEPT ![nid] = asset]
<1>1. KeyRows(u, a, c) = KeyRows(t, a, c)
  BY DEF KeyRows
<1>2. \A r \in Table : VolumeOfTables(r, vt)[<<a, c>>] =
          IF KeyRows(r, a, c) = {} THEN NoRow
          ELSE vt[CHOOSE i \in KeyRows(r, a, c) : TRUE]
  BY DEF VolumeOfTables
<1>3. u \in Table
  BY DEF Table
<1>4. QED
  BY <1>1, <1>2, <1>3

(***************************************************************************)
(* Writing the volume row of a stored row leaves the volume of every other *)
(* key alone.                                                              *)
(***************************************************************************)
LEMMA VolumeWriteFrame ==
    ASSUME NEW t \in Table, NEW vt, NEW wt, NEW id \in Ids, t[id] # NoRow,
           \A i \in Ids : i # id => wt[i] = vt[i],
           NEW a \in Addresses, NEW c \in Chains,
           <<a, c>> # <<t[id].address, t[id].blockchain>>
    PROVE  VolumeOfTables(t, wt)[<<a, c>>] = VolumeOfTables(t, vt)[<<a, c>>]
<1>1. id \notin KeyRows(t, a, c)
  BY DEF KeyRows
<1>2. CASE KeyRows(t, a, c) = {}
  BY <1>2 DEF VolumeOfTables
<1>3. CASE KeyRows(t, a, c) # {}
  <2> DEFINE r == CHOOSE i \in KeyRows(t, a, c) : TRUE
  <2>1. r \in KeyRows(t, a, c)
    BY <1>3
  <2>2. r \in Ids /\ r # id
    BY <1>1, <2>1 DEF KeyRows
  <2>3. QED
    BY <1>3, <2>2 DEF VolumeOfTables
<1>4. QED
  BY <1>2, <1>3

-----------------------------------------------------------------------------
(***************************************************************************)
(* Every step of the store is a step of AssetVolumes or leaves the catalog *)
(* and the volumes alone: SetAsset is a Create, a SetAssetVolume24H that   *)
(* finds its asset is a SetVolume, one that stores a NULL asset_id or      *)
(* fails is a stutter, and so is SetBlockchain.                            *)
(***************************************************************************)
LEMMA VolumeStep == SInv /\ SInv' /\ [StoreNext]_storeVars => [AV!Next]_AV!avVars
<1> SUFFICES ASSUME SInv, SInv', [StoreNext]_storeVars PROVE [AV!Next]_AV!avVars
  OBVIOUS
<1> USE DEF SInv
<1>1. ASSUME NEW asset \in AssetVal, SetAsset(asset), UNCHANGED <<chainVars, volVars>>
      PROVE  AV!Create(asset)
  <2> DEFINE key == <<asset.address, asset.blockchain>>
  <2>1. Catalog!Create(asset)
    BY <1>1, SetAssetCreates DEF BlockchainTypeOK
  <2>2. PICK nid \in Ids : /\ assetTable[nid] = NoRow
                           /\ assetTable' = [assetTable EXCEPT ![nid] = asset]
    BY <1>1 DEF SetAsset
  <2>3. assetTable \in Table /\ assetTable' \in Table /\ UniqueIn(assetTable')
    BY DEF BlockchainTypeOK, TypeOK, Table, UniqueKeys
  <2>4. volumeTable' = volumeTable /\ volumeTable[nid] = NoRow
    BY <1>1, <2>2 DEF volVars, VolumeRows
  <2>5. key \in Addresses \X Chains /\ asset # NoRow
    BY SentinelsNotAssets DEF AssetVal
  <2>6. VolumeOf'[key] = NoRow
    <3>1. assetTable'[nid] = asset
      BY <2>2, <2>3 DEF Table
    <3>2. QED
      BY <2>3, <2>4, <2>5, <3>1, VolumeEntry DEF VolumeOf
  <2>7. VolumeOf[key] = NoRow
    <3>1. KeyRows(assetTable, asset.address, asset.blockchain) = {}
      BY <1>1 DEF SetAsset, MatchingIds, KeyRows
    <3>2. QED
      BY <2>5, <3>1, VolumeMissing DEF VolumeOf, AssetVal
  <2>8. ASSUME NEW a \in Addresses, NEW c \in Chains, <<a, c>> # key
        PROVE  VolumeOf'[<<a, c>>] = VolumeOf[<<a, c>>]
    <3>1. a # asset.address \/ c # asset.blockchain
      BY <2>8
    <3>2. QED
      BY <2>2, <2>3, <2>4, <3>1, VolumeInsertFrame DEF VolumeOf
  <2>9. VolumeOf' = VolumeOf
    <3>1. \A a \in Addresses, c \in Chains : VolumeOf'[<<a, c>>] = VolumeOf[<<a, c>>]
      BY <2>6, <2>7, <2>8
    <3>2. \A k \in Addresses \X Chains : VolumeOf'[k] = VolumeOf[k]
      BY <3>1
    <3>3. QED
      BY <3>2 DEF VolumeOf, VolumeOfTables
  <2>10. QED
    BY <2>1, <2>9 DEF Catalog!Create, AV!Create
<1>2. ASSUME NEW b \in BlockChainVal, SetBlockchain(b), UNCHANGED <<vars, volVars>>
      PROVE  UNCHANGED AV!avVars
  BY <1>2 DEF vars, volVars, AV!avVars, CatalogOf, VolumeOf
<1>3. ASSUME NEW asset \in AssetVal, NEW v \in Volumes, SetAssetVolume24H(asset, v),
             UNCHANGED <<vars, chainVars>>
      PROVE  [AV!Next]_AV!avVars
  <2> DEFINE key == <<asset.address, asset.blockchain>>
             vid == VolumeAssetId(asset)
  <2>1. assetTable' = assetTable /\ assetTable \in Table
    BY <1>3 DEF vars, BlockchainTypeOK, TypeOK, Table
  <2>2. UNCHANGED CatalogOf
    BY <2>1 DEF CatalogOf
  <2>3. CASE vid # NoRow
    <3>0. PICK j \in Ids : j = vid
      BY <2>3, VolumeAssetIdKey DEF GetKeyAsset, MatchingIds
    <3>1. j \in Ids /\ assetTable[j] # NoRow
          /\ assetTable[j].address = asset.address
          /\ assetTable[j].blockchain = asset.blockchain
      BY <2>3, <3>0, VolumeAssetIdKey DEF GetKeyAsset, MatchingIds
    <3>2. volumeTable' = [volumeTable EXCEPT ![j] = FormatVolume(v)]
      BY <1>3, <2>3, <3>0 DEF SetAssetVolume24H
    <3>3. volumeTable \in [Ids -> {FormatVolume(w) : w \in Volumes} \cup {NoRow}]
      BY DEF VolumeTypeOK
    <3>4. key \in Addresses \X Chains
      BY DEF AssetVal
    <3>5. CatalogOf[key] # NoRow
      BY <2>1, <3>1, CatalogEntry DEF UniqueKeys, CatalogOf
    <3>6. VolumeOf'[key] = FormatVolume(v)
      <4>1. volumeTable'[j] = FormatVolume(v)
        BY <3>1, <3>2, <3>3
      <4>2. QED
        BY <2>1, <3>1, <4>1, VolumeEntry DEF UniqueKeys, VolumeOf
    <3>7. ASSUME NEW a \in Addresses, NEW c \in Chains, <<a, c>> # key
          PROVE  VolumeOf'[<<a, c>>] = VolumeOf[<<a, c>>]
      <4>1. <<a, c>> # <<assetTable[j].address, assetTable[j].blockchain>>
        BY <3>1, <3>7
      <4>2. \A i \in Ids : i # j => volumeTable'[i] = volumeTable[i]
        BY <3>2, <3>3
      <4>3. VolumeOfTables(assetTable, volumeTable')[<<a, c>>]
              = VolumeOfTables(assetTable, volumeTable)[<<a, c>>]
        BY <2>1, <3>1, <4>1, <4>2, VolumeWriteFrame
      <4>4. QED
        BY <2>1, <4>3 DEF VolumeOf
    <3>8. VolumeOf' = [VolumeOf EXCEPT ![key] = FormatVolume(v)]
      <4>1. \A a \in Addresses, c \in Chains :
              VolumeOf'[<<a, c>>] = IF <<a, c>> = key THEN FormatVolume(v)
                                    ELSE VolumeOf[<<a, c>>]
        BY <3>6, <3>7
      <4>2. \A k \in Addresses \X Chains :
              VolumeOf'[k] = IF k = key THEN FormatVolume(v) ELSE VolumeOf[k]
        BY <4>1
      <4>3. VolumeOf = [k \in Addresses \X Chains |-> VolumeOf[k]]
        BY DEF VolumeOf, VolumeOfTables
      <4>4. VolumeOf' = [k \in Addresses \X Chains |-> VolumeOf'[k]]
        BY DEF VolumeOf, VolumeOfTables
      <4>5. QED
        BY <3>4, <4>2, <4>3, <4>4
    <3>9. AV!SetVolume(asset, v)
      BY <2>2, <3>5, <3>8 DEF AV!SetVolume, AV!SixDecimals, FormatVolume
    <3>10. QED
      BY <3>9 DEF AV!Next
  <2>4. CASE vid = NoRow
    <3>1. volumeTable' = volumeTable
      BY <1>3, <2>4 DEF SetAssetVolume24H
    <3>2. QED
      BY <2>2, <2>1, <3>1 DEF AV!avVars, VolumeOf
  <2>5. QED
    BY <2>3, <2>4
<1>4. CASE UNCHANGED storeVars
  BY <1>4 DEF storeVars, AV!avVars, CatalogOf, VolumeOf
<1>5. QED
  BY <1>1, <1>2, <1>3, <1>4 DEF StoreNext, AV!Next

(***************************************************************************)
(* The store implements AssetVolumes (VolumeCatalogSpec, checked by the    *)
(* run asset_store on a small instance): seen through the mapping, every   *)
(* interleaving of SetAsset, SetBlockchain and SetAssetVolume24H creates   *)
(* assets under free keys and changes a readable volume only by a          *)
(* SetAssetVolume24H of an existing asset, to its volume with six          *)
(* decimals.  No hypothesis is needed: the store's steps never read the    *)
(* GetAsset memo.                                                          *)
(***************************************************************************)
THEOREM AssetStoreRefinement == StoreSpec => VolumeCatalogSpec
<1>1. StoreInit => AV!Init
  BY DEF StoreInit, BlockchainInit, VolumeInit, Init, AV!Init, CatalogOf,
         CatalogOfTable, VolumeOf, VolumeOfTables, KeyRows
<1>2. QED
  BY <1>1, SInvInvariant, VolumeStep, PTL DEF StoreSpec, VolumeCatalogSpec, AV!Spec

=============================================================================
