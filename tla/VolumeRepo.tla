------------------------------ MODULE VolumeRepo ------------------------------
(***************************************************************************)
(* The volume repository of pkg/model/assets.go: table assetvolume, one    *)
(* row per asset_id holding the latest 24h volume, written by              *)
(* SetAssetVolume24H and read by GetAssetVolume24H.  The asset_id of a row *)
(* is looked up inside the statement by a subquery on (address,            *)
(* blockchain), and the volume is put into the SQL text with %f.           *)
(*                                                                         *)
(* Volumes are fixed-point numbers in units of 10^-7.  Whether             *)
(* assetvolume.asset_id is NOT NULL is a property of the schema, which is  *)
(* not part of this code: the constant VolumeAssetNotNull.  Without it, a  *)
(* row whose subquery found no asset is stored with a NULL asset_id, and   *)
(* NULLs never conflict, so each such call adds a row.                     *)
(***************************************************************************)
EXTENDS AssetRepo

CONSTANTS
    Volumes,              \* volume arguments, in units of 10^-7
    VolumeAssetNotNull,   \* the schema declares assetvolume.asset_id NOT NULL
    MaxNullRows           \* bound on the rows with a NULL asset_id

ASSUME VolumeAssumption ==
    /\ Volumes \subseteq Nat
    /\ NoRow \notin Volumes
    /\ VolumeAssetNotNull \in BOOLEAN
    /\ MaxNullRows \in Nat

VARIABLES
    volumeTable,   \* the volume of each asset_id that has a row, or NoRow
    nullRows,      \* rows with a NULL asset_id
    volumeSet      \* per (address, blockchain): the volume of the latest
                   \* SetAssetVolume24H that returned nil, or NoRow

volVars == <<volumeTable, nullRows, volumeSet>>

(***************************************************************************)
(* fmt.Sprintf("%f", volume): six decimals, rounded to nearest.            *)
(* FormatVolumeTruncated cuts the seventh decimal off instead.             *)
(***************************************************************************)
FormatVolumeTruncated(v) == (v \div 10) * 10

FormatVolume(v) == ((v + 5) \div 10) * 10

(***************************************************************************)
(* "(select asset_id from asset where address='%s' and blockchain='%s')":  *)
(* the id of the asset's row, or NULL.  VolumeAssetIdAnyChain drops the    *)
(* blockchain condition.                                                   *)
(***************************************************************************)
VolumeAssetIdAnyChain(asset) ==
    LET ids == {id \in Ids : assetTable[id] # NoRow /\ assetTable[id].address = asset.address}
    IN  IF ids = {} THEN NoRow ELSE CHOOSE id \in ids : TRUE

VolumeAssetId(asset) ==
    IF GetKeyAsset(asset) = {} THEN NoRow ELSE CHOOSE id \in GetKeyAsset(asset) : TRUE

VolumeTypeOK ==
    /\ volumeTable \in [Ids -> {FormatVolume(v) : v \in Volumes} \cup {NoRow}]
    /\ nullRows \in 0 .. MaxNullRows
    /\ volumeSet \in [Addresses \X Chains -> Volumes \cup {NoRow}]

VolumeInit ==
    /\ volumeTable = [id \in Ids |-> NoRow]
    /\ nullRows = 0
    /\ volumeSet = [k \in Addresses \X Chains |-> NoRow]

(***************************************************************************)
(* SetAssetVolume24H(asset, volume): "insert ... ON CONFLICT (asset_id) do *)
(* UPDATE SET volume = EXCLUDED.volume".  With the asset found, the row of *)
(* its id ends up holding the formatted volume whether it was there or     *)
(* not.  With no asset, the NULL asset_id is rejected by a NOT NULL column *)
(* (the call returns the error) or stored in a row of its own.  A failed   *)
(* statement changes nothing (a stuttering step).                          *)
(***************************************************************************)
SetAssetVolume24H(asset, v) ==
    LET id == VolumeAssetId(asset)
        key == <<asset.address, asset.blockchain>>
    IN
    \/ /\ id # NoRow
       /\ volumeTable' = [volumeTable EXCEPT ![id] = FormatVolume(v)]
       /\ volumeSet' = [volumeSet EXCEPT ![key] = v]
       /\ UNCHANGED nullRows
    \/ /\ id = NoRow
       /\ ~VolumeAssetNotNull
       /\ nullRows < MaxNullRows
       /\ nullRows' = nullRows + 1
       /\ volumeSet' = [volumeSet EXCEPT ![key] = v]
       /\ UNCHANGED volumeTable

(***************************************************************************)
(* GetAssetVolume24H(asset): the volume of the row joined (INNER JOIN) to  *)
(* the asset row with the asset's address and blockchain; NoRow for        *)
(* pgx.ErrNoRows.  NULL asset_id rows join nothing.                        *)
(***************************************************************************)
GetAssetVolume24H(asset) ==
    LET id == VolumeAssetId(asset) IN
    IF id = NoRow THEN NoRow ELSE volumeTable[id]

VolumeNext ==
    \/ \E asset \in AssetVal : SetAsset(asset) /\ UNCHANGED volVars
    \/ \E asset \in AssetVal, v \in Volumes : SetAssetVolume24H(asset, v) /\ UNCHANGED vars

VolumeSpec == Init /\ VolumeInit /\ [][VolumeNext]_<<vars, volVars>>

-----------------------------------------------------------------------------
(***************************************************************************)
(* The upsert contract, as far as it holds with either schema: whatever    *)
(* volume GetAssetVolume24H returns for an asset is the formatted volume   *)
(* of the latest SetAssetVolume24H for that asset's address and blockchain *)
(* that returned nil, never a volume set for another chain or an older     *)
(* one, however SetAsset calls interleave.  (That a nil return is always   *)
(* readable back fails when asset_id may be NULL: the value went to a row  *)
(* that joins nothing.)                                                    *)
(***************************************************************************)
VolumeReadSound ==
    \A asset \in AssetVal :
        GetAssetVolume24H(asset) # NoRow =>
            /\ volumeSet[<<asset.address, asset.blockchain>>] # NoRow
            /\ GetAssetVolume24H(asset) =
                   FormatVolume(volumeSet[<<asset.address, asset.blockchain>>])

=============================================================================
