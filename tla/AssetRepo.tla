------------------------------ MODULE AssetRepo ------------------------------
(***************************************************************************)
(* The asset repository of pkg/model/assets.go: the postgres table         *)
(* "asset", the process-local memo map assetCache consulted by GetAsset,   *)
(* and the redis asset cache written by SetAssetCache.                     *)
(*                                                                         *)
(* Every SQL statement is one atomic step of the store.  A statement that  *)
(* fails (transport error, constraint violation) changes nothing, so the   *)
(* error paths of the single-statement operations are stuttering steps;    *)
(* they appear below only where they change what a caller is returned.    *)
(***************************************************************************)
EXTENDS Naturals, Sequences

CONSTANTS
    Symbols,     \* values of dia.Asset.Symbol
    Names,       \* values of dia.Asset.Name
    Addresses,   \* values of dia.Asset.Address (strings)
    Chains,      \* values of dia.Asset.Blockchain (strings)
    Decimals,    \* values of dia.Asset.Decimals (a uint8)
    Ids,         \* the asset_id values postgres may generate
    NoRow,       \* no row / no entry (pgx.ErrNoRows, a map miss, redis.Nil)
    DbError,     \* a failed statement (transport error)
    HexToAddressHex(_)  \* common.HexToAddress(a).Hex() on an address string

(***************************************************************************)
(* AssetVal, defined below, is the set of dia.Asset values; the two        *)
(* sentinels are none of them.                                             *)
(***************************************************************************)
ASSUME AssetRepoAssumption ==
    /\ Decimals \subseteq 0 .. 255
    /\ NoRow # DbError
    /\ NoRow \notin Ids
    /\ \A s \in {NoRow, DbError} :
          s \notin [symbol : Symbols, name : Names, address : Addresses,
                    decimals : Decimals, blockchain : Chains]

(***************************************************************************)
(* A dia.Asset value and the value stored in a row of table asset.         *)
(***************************************************************************)
AssetVal == [symbol : Symbols, name : Names, address : Addresses,
             decimals : Decimals, blockchain : Chains]

(***************************************************************************)
(* SetAsset stores strconv.Itoa(int(asset.Decimals)) in a text column, and *)
(* every reader converts it back with uint8(strconv.Atoi(decimals)).  For  *)
(* text written by SetAsset the parse succeeds; the uint8 conversion keeps *)
(* the low eight bits.                                                     *)
(***************************************************************************)
ScanDecimals(d) == d % 256

ScanAsset(row) == [row EXCEPT !.decimals = ScanDecimals(row.decimals)]

(***************************************************************************)
(* The memo key of GetAsset: "GetAsset_" + address + "_" + blockchain.     *)
(***************************************************************************)
KeyWithoutChain(address, blockchain) == "GetAsset_" \o address

Key(address, blockchain) == "GetAsset_" \o address \o "_" \o blockchain

MemoKeys == {Key(a, c) : a \in Addresses, c \in Chains}

(***************************************************************************)
(* The memo key tells (address, blockchain) pairs apart.  It does when no  *)
(* name contains the separator "_"; it is not assumed, and the theorem     *)
(* that needs it takes it as a hypothesis.                                 *)
(***************************************************************************)
KeyInjective ==
    \A a1, a2 \in Addresses, c1, c2 \in Chains :
        Key(a1, c1) = Key(a2, c2) => a1 = a2 /\ c1 = c2

VARIABLES
    assetTable,   \* table asset, keyed by its primary key asset_id
    memo,         \* the package-level map assetCache
    redisAsset,   \* redis entries keyAssetCache + asset_id
    lastGet       \* arguments and result of the latest GetAsset call

vars == <<assetTable, memo, redisAsset, lastGet>>

GetResult == [address : Addresses, blockchain : Chains,
              result : AssetVal \cup {NoRow, DbError}]

TypeOK ==
    /\ assetTable \in [Ids -> AssetVal \cup {NoRow}]
    /\ memo \in [MemoKeys -> AssetVal \cup {NoRow}]
    /\ redisAsset \in [Ids -> AssetVal \cup {NoRow}]
    /\ lastGet \in GetResult \cup {NoRow}

(***************************************************************************)
(* "select asset_id from asset where address=$1 and blockchain=$2": the    *)
(* ids of the rows GetAssetID may return.                                  *)
(***************************************************************************)
MatchingIds(address, blockchain) ==
    {id \in Ids : /\ assetTable[id] # NoRow
                  /\ assetTable[id].address = address
                  /\ assetTable[id].blockchain = blockchain}

(***************************************************************************)
(* GetKeyAsset(asset): the asset_id GetAssetID finds, which the redis key  *)
(* keyAssetCache + asset_id is built from; no id is an error.              *)
(***************************************************************************)
GetKeyAsset(asset) == MatchingIds(asset.address, asset.blockchain)

(***************************************************************************)
(* GetAssetByID(id): the row with that asset_id, decimals converted.      *)
(***************************************************************************)
GetAssetByID(id) == ScanAsset(assetTable[id])

Init ==
    /\ assetTable = [id \in Ids |-> NoRow]
    /\ memo = [k \in MemoKeys |-> NoRow]
    /\ redisAsset = [id \in Ids |-> NoRow]
    /\ lastGet = NoRow

(***************************************************************************)
(* SetAsset: a plain insert.  The table's unique constraint on             *)
(* (address, blockchain) rejects a second row for the same pair, and a     *)
(* transport error rejects the insert; both return the error and change    *)
(* nothing.  A successful insert takes a fresh asset_id.                   *)
(* SetAssetDuplicate is the insert into a table without that constraint.  *)
(***************************************************************************)
SetAssetMemoized(asset) ==
    /\ \/ /\ MatchingIds(asset.address, asset.blockchain) = {}
          /\ \E id \in Ids :
                /\ assetTable[id] = NoRow
                /\ assetTable' = [assetTable EXCEPT ![id] = asset]
       \/ /\ MatchingIds(asset.address, asset.blockchain) # {}
          /\ UNCHANGED assetTable
    /\ memo' = [memo EXCEPT ![Key(asset.address, asset.blockchain)] = asset]
    /\ UNCHANGED <<redisAsset, lastGet>>

SetAssetDuplicate(asset) ==
    /\ \E id \in Ids :
          /\ assetTable[id] = NoRow
          /\ assetTable' = [assetTable EXCEPT ![id] = asset]
    /\ UNCHANGED <<memo, redisAsset, lastGet>>

SetAsset(asset) ==
    /\ MatchingIds(asset.address, asset.blockchain) = {}
    /\ \E id \in Ids :
          /\ assetTable[id] = NoRow
          /\ assetTable' = [assetTable EXCEPT ![id] = asset]
    /\ UNCHANGED <<memo, redisAsset, lastGet>>

(***************************************************************************)
(* GetAsset(address, blockchain): return the memo entry if there is one;   *)
(* otherwise query the row, convert its decimals, store it in the memo     *)
(* and return it.  A missing row or a failed query returns the error and   *)
(* leaves the memo alone.                                                  *)
(***************************************************************************)
GetAssetMemoHit(address, blockchain) ==
    LET k == Key(address, blockchain) IN
    /\ memo[k] # NoRow
    /\ lastGet' = [address |-> address, blockchain |-> blockchain,
                   result |-> memo[k]]
    /\ UNCHANGED <<assetTable, memo, redisAsset>>

GetAssetQuery(address, blockchain) ==
    LET k == Key(address, blockchain) IN
    /\ memo[k] = NoRow
    /\ \/ \E id \in MatchingIds(address, blockchain) :
             LET asset == ScanAsset(assetTable[id]) IN
             /\ memo' = [memo EXCEPT ![k] = asset]
             /\ lastGet' = [address |-> address, blockchain |-> blockchain,
                            result |-> asset]
       \/ /\ MatchingIds(address, blockchain) = {}
          /\ lastGet' = [address |-> address, blockchain |-> blockchain,
                         result |-> NoRow]
          /\ UNCHANGED memo
       \/ /\ lastGet' = [address |-> address, blockchain |-> blockchain,
                         result |-> DbError]
          /\ UNCHANGED memo
    /\ UNCHANGED <<assetTable, redisAsset>>

GetAsset(address, blockchain) ==
    \/ GetAssetMemoHit(address, blockchain)
    \/ GetAssetQuery(address, blockchain)

(***************************************************************************)
(* SetAssetCache(asset): GetKeyAsset looks up the asset_id of the row with *)
(* the asset's address and blockchain (an error if there is none) and      *)
(* redis stores the caller's asset under keyAssetCache + asset_id.  A      *)
(* failed redis Set changes nothing.                                       *)
(***************************************************************************)
SetAssetCache(asset) ==
    /\ \E id \in GetKeyAsset(asset) :
          redisAsset' = [redisAsset EXCEPT ![id] = asset]
    /\ UNCHANGED <<assetTable, memo, lastGet>>

Next ==
    \/ \E asset \in AssetVal : SetAsset(asset) \/ SetAssetCache(asset)
    \/ \E a \in Addresses, c \in Chains : GetAsset(a, c)

Spec == Init /\ [][Next]_vars

(***************************************************************************)
(* The refinement mapping to the abstract catalog: the catalog entry of    *)
(* (address, blockchain) is the row of table t with that address and       *)
(* blockchain; the memo map and the redis cache have no abstract          *)
(* counterpart.                                                            *)
(***************************************************************************)
KeyRows(t, a, c) ==
    {id \in Ids : t[id] # NoRow /\ t[id].address = a /\ t[id].blockchain = c}

CatalogOfTable(t) ==
    [k \in Addresses \X Chains |->
        IF KeyRows(t, k[1], k[2]) = {} THEN NoRow
        ELSE t[CHOOSE id \in KeyRows(t, k[1], k[2]) : TRUE]]

CatalogOf == CatalogOfTable(assetTable)

Catalog == INSTANCE AssetCatalog WITH Assets <- AssetVal, catalog <- CatalogOf

(***************************************************************************)
(* IdentifyAsset(asset): the assets whose columns equal every non-default  *)
(* field of the argument.  The address is compared in the form            *)
(* common.HexToAddress(address).Hex(), a decimals of 0 adds no condition,  *)
(* and an argument with no non-default field builds "... where " with     *)
(* nothing after it, a syntax error (DbError).  Rows whose decimals do not *)
(* parse are skipped; SetAsset never writes one.                           *)
(***************************************************************************)
Matches(row, asset) ==
    /\ asset.symbol # "" => row.symbol = asset.symbol
    /\ asset.name # "" => row.name = asset.name
    /\ asset.address # "" => row.address = HexToAddressHex(asset.address)
    /\ asset.decimals # 0 => row.decimals = asset.decimals
    /\ asset.blockchain # "" => row.blockchain = asset.blockchain

IdentifyAsset(asset) ==
    IF /\ asset.symbol = "" /\ asset.name = "" /\ asset.address = ""
       /\ asset.decimals = 0 /\ asset.blockchain = ""
    THEN DbError
    ELSE {ScanAsset(assetTable[id]) :
            id \in {i \in Ids : assetTable[i] # NoRow /\ Matches(assetTable[i], asset)}}

-----------------------------------------------------------------------------
(***************************************************************************)
(* Properties.                                                             *)
(***************************************************************************)

(***************************************************************************)
(* GetAsset returns the asset that was asked for: whatever it returns, from*)
(* the memo map or from the table, is a row of table asset with the        *)
(* requested address and blockchain.  The memo map is keyed by a string    *)
(* built from both, so this is about that key telling pairs apart.         *)
(***************************************************************************)
GetAssetReturnsStoredRow ==
    lastGet # NoRow /\ lastGet.result \in AssetVal =>
        /\ lastGet.result.address = lastGet.address
        /\ lastGet.result.blockchain = lastGet.blockchain
        /\ \E id \in Ids : assetTable[id] = lastGet.result

(***************************************************************************)
(* Every entry of the memo map assetCache is a row of table asset stored   *)
(* under that row's own key: the map, never invalidated, never holds a     *)
(* value the table does not.                                               *)
(***************************************************************************)
MemoSound ==
    \A k \in MemoKeys : memo[k] # NoRow =>
        /\ \E id \in Ids : assetTable[id] = memo[k]
        /\ Key(memo[k].address, memo[k].blockchain) = k

(***************************************************************************)
(* The repository implements the catalog: every GetAsset, whether answered *)
(* from the memo map or from the table, returns what the catalog holds     *)
(* under the asked (address, blockchain), and SetAsset creates an entry    *)
(* only under a free key.                                                  *)
(***************************************************************************)
CatalogSpec == Catalog!Spec

(***************************************************************************)
(* IdentifyAsset finds every stored asset when asked with that asset's own *)
(* fields: the address normalisation in IdentifyAsset agrees with the form *)
(* SetAsset stored the address in.                                         *)
(***************************************************************************)
IdentifyAssetFindsStored ==
    \A id \in Ids : assetTable[id] # NoRow =>
        LET found == IdentifyAsset(assetTable[id]) IN
        found # DbError /\ assetTable[id] \in found

=============================================================================
