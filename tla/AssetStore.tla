------------------------------ MODULE AssetStore ------------------------------
(***************************************************************************)
(* Table asset with the two tables that resolve an asset inside their own  *)
(* statements: blockchain (the native token of a chain) and assetvolume    *)
(* (the 24h volume of an asset).  SetAsset, SetBlockchain and              *)
(* SetAssetVolume24H are called by independent callers and interleave in   *)
(* any order; each is one statement, so one step.                          *)
(***************************************************************************)
EXTENDS BlockchainRepo, VolumeRepo

storeVars == <<assetTable, memo, redisAsset, lastGet, chainTable, lastChainSet,
               volumeTable, nullRows, volumeSet>>

StoreInit == BlockchainInit /\ VolumeInit

StoreNext ==
    \/ \E asset \in AssetVal : SetAsset(asset) /\ UNCHANGED <<chainVars, volVars>>
    \/ \E b \in BlockChainVal : SetBlockchain(b) /\ UNCHANGED <<vars, volVars>>
    \/ \E asset \in AssetVal, v \in Volumes :
          SetAssetVolume24H(asset, v) /\ UNCHANGED <<vars, chainVars>>

StoreSpec == StoreInit /\ [][StoreNext]_storeVars

(***************************************************************************)
(* The refinement mapping to the abstract catalog with volumes: the volume *)
(* of (address, blockchain) is what GetAssetVolume24H reads for it from    *)
(* tables t (asset) and vt (assetvolume), the volume row joined to the     *)
(* asset row of that key.  Rows with a NULL asset_id and the blockchain    *)
(* table have no abstract counterpart.                                     *)
(***************************************************************************)
VolumeOfTables(t, vt) ==
    [k \in Addresses \X Chains |->
        IF KeyRows(t, k[1], k[2]) = {} THEN NoRow
        ELSE vt[CHOOSE id \in KeyRows(t, k[1], k[2]) : TRUE]]

VolumeOf == VolumeOfTables(assetTable, volumeTable)

AV == INSTANCE AssetVolumes WITH Assets <- AssetVal, catalog <- CatalogOf,
                                 volume <- VolumeOf

-----------------------------------------------------------------------------
(***************************************************************************)
(* The store implements the catalog with volumes: whatever SetAsset,       *)
(* SetBlockchain and SetAssetVolume24H calls interleave, the volume        *)
(* GetAssetVolume24H reads for a key changes only by a SetAssetVolume24H   *)
(* of an asset that exists, to that call's volume with six decimals, and a *)
(* call made before its asset existed never becomes readable.              *)
(***************************************************************************)
VolumeCatalogSpec == AV!Spec

=============================================================================
