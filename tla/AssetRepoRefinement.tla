------------------------- MODULE AssetRepoRefinement -------------------------
(***************************************************************************)
(* Proof that AssetRepo implements the abstract AssetCatalog under the     *)
(* refinement mapping CatalogOf, when the memo key is injective.  The      *)
(* argument rests on two invariants: MemoSound (proved in AssetRepoProofs) *)
(* and UniqueKeys, the unique (address, blockchain) constraint that        *)
(* SetAsset's guard keeps, which makes the catalog entry of a key the one  *)
(* row with that key.                                                      *)
(***************************************************************************)
EXTENDS AssetRepoProofs

Table == [Ids -> AssetVal \cup {NoRow}]

(***************************************************************************)
(* No two rows of table t have the same address and blockchain.            *)
(***************************************************************************)
UniqueIn(t) ==
    \A i, j \in Ids :
        /\ t[i] # NoRow /\ t[j] # NoRow
        /\ t[i].address = t[j].address /\ t[i].blockchain = t[j].blockchain
        => i = j

UniqueKeys == UniqueIn(assetTable)

(***************************************************************************)
(* The catalog entry of a stored row's key is that row.                    *)
(***************************************************************************)
LEMMA CatalogEntry ==
    ASSUME NEW t \in Table, UniqueIn(t), NEW id \in Ids, t[id] # NoRow
    PROVE  CatalogOfTable(t)[<<t[id].address, t[id].blockchain>>] = t[id]
<1> DEFINE key == <<t[id].address, t[id].blockchain>>
<1>1. t[id] \in AssetVal
  BY DEF Table
<1>2. key \in Addresses \X Chains
  BY <1>1 DEF AssetVal
<1>3. KeyRows(t, key[1], key[2]) = {id}
  BY <1>1 DEF UniqueIn, KeyRows
<1>4. (CHOOSE i \in KeyRows(t, key[1], key[2]) : TRUE) = id
  BY <1>3
<1>5. QED
  BY <1>2, <1>3, <1>4 DEF CatalogOfTable

(***************************************************************************)
(* The catalog entry of a key no row has is NoRow.                         *)
(***************************************************************************)
LEMMA CatalogMissing ==
    ASSUME NEW t \in Table, NEW a \in Addresses, NEW c \in Chains,
           \A i \in Ids : t[i] # NoRow => t[i].address # a \/ t[i].blockchain # c
    PROVE  CatalogOfTable(t)[<<a, c>>] = NoRow
<1>1. KeyRows(t, a, c) = {}
  BY DEF KeyRows
<1>2. QED
  BY <1>1 DEF CatalogOfTable

(***************************************************************************)
(* Inserting a row under a free key leaves the catalog entry of every      *)
(* other key as it was.                                                    *)
(***************************************************************************)
LEMMA CatalogFrame ==
    ASSUME NEW t \in Table, NEW nid \in Ids, t[nid] = NoRow,
           NEW asset \in AssetVal,
           NEW a \in Addresses, NEW c \in Chains,
           a # asset.address \/ c # asset.blockchain
    PROVE  CatalogOfTable([t EXCEPT ![nid] = asset])[<<a, c>>] = CatalogOfTable(t)[<<a, c>>]
<1> DEFINE u == [t EXCEPT ![nid] = asset]
<1>1. KeyRows(u, a, c) = KeyRows(t, a, c)
  BY DEF KeyRows
<1>2. \A i \in KeyRows(t, a, c) : u[i] = t[i]
  BY DEF KeyRows
<1>3. QED
  BY <1>1, <1>2 DEF CatalogOfTable

-----------------------------------------------------------------------------
(***************************************************************************)
(* UniqueKeys is an invariant: SetAsset inserts only under a key no row    *)
(* has, and nothing else writes table asset.                               *)
(***************************************************************************)
LEMMA UniqueKeysNext == TypeOK /\ UniqueKeys /\ [Next]_vars => UniqueKeys'
<1> SUFFICES ASSUME TypeOK, UniqueKeys, [Next]_vars PROVE UniqueKeys'
  OBVIOUS
<1>1. ASSUME NEW asset \in AssetVal, SetAsset(asset) PROVE UniqueKeys'
  <2>1. PICK nid \in Ids : /\ assetTable[nid] = NoRow
                           /\ assetTable' = [assetTable EXCEPT ![nid] = asset]
    BY <1>1 DEF SetAsset
  <2>2. \A i \in Ids : assetTable[i] # NoRow =>
            \/ assetTable[i].address # asset.address
            \/ assetTable[i].blockchain # asset.blockchain
    BY <1>1 DEF SetAsset, MatchingIds
  <2>3. asset # NoRow
    BY SentinelsNotAssets
  <2>4. QED
    BY <2>1, <2>2, <2>3 DEF UniqueKeys, UniqueIn, TypeOK
<1>2. assetTable' = assetTable \/ \E asset \in AssetVal : SetAsset(asset)
  BY DEF Next, GetAsset, GetAssetMemoHit, GetAssetQuery, SetAssetCache, vars
<1>3. QED
  BY <1>1, <1>2 DEF UniqueKeys, UniqueIn

(***************************************************************************)
(* The invariant the refinement needs.                                     *)
(***************************************************************************)
RInv == TypeOK /\ MemoSound /\ UniqueKeys

LEMMA RInvInvariant == Spec => []RInv
<1>1. Init => RInv
  BY TypeOKInit, MemoSoundInit DEF RInv, Init, UniqueKeys, UniqueIn
<1>2. RInv /\ [Next]_vars => RInv'
  BY TypeOKNext, MemoSoundNext, UniqueKeysNext DEF RInv
<1>3. QED
  BY <1>1, <1>2, PTL DEF Spec

-----------------------------------------------------------------------------
(***************************************************************************)
(* A SetAsset that inserts is a Create of the catalog: its key had no row, *)
(* and the mapping gains the new row under that key and nothing else.     *)
(***************************************************************************)
LEMMA SetAssetCreates ==
    ASSUME TypeOK, UniqueKeys, NEW asset \in AssetVal, SetAsset(asset)
    PROVE  Catalog!Create(asset)
<1> DEFINE key == <<asset.address, asset.blockchain>>
<1>1. PICK nid \in Ids : /\ assetTable[nid] = NoRow
                         /\ assetTable' = [assetTable EXCEPT ![nid] = asset]
  BY DEF SetAsset
<1>2. assetTable \in Table /\ assetTable' \in Table
  BY <1>1 DEF TypeOK, Table
<1>3. key \in Addresses \X Chains
  BY DEF AssetVal
<1>4. CatalogOf[key] = NoRow
  BY <1>2, CatalogMissing DEF SetAsset, MatchingIds, CatalogOf, AssetVal
<1>5. UniqueKeys'
  BY UniqueKeysNext DEF Next
<1>6. CatalogOf'[key] = asset
  <2>1. assetTable'[nid] = asset /\ asset # NoRow
    BY <1>1, SentinelsNotAssets DEF TypeOK
  <2>2. QED
    BY <1>2, <1>5, <2>1, CatalogEntry DEF UniqueKeys, CatalogOf
<1>7. ASSUME NEW a \in Addresses, NEW c \in Chains, <<a, c>> # key
      PROVE  CatalogOf'[<<a, c>>] = CatalogOf[<<a, c>>]
  <2>1. a # asset.address \/ c # asset.blockchain
    BY <1>7
  <2>2. QED
    BY <1>1, <1>2, <2>1, CatalogFrame DEF CatalogOf
<1>8. CatalogOf' = [CatalogOf EXCEPT ![key] = asset]
  <2>1. CatalogOf = [k \in Addresses \X Chains |-> CatalogOf[k]]
    BY DEF CatalogOf, CatalogOfTable
  <2>2. CatalogOf' = [k \in Addresses \X Chains |-> CatalogOf'[k]]
    BY DEF CatalogOf, CatalogOfTable
  <2>3. \A a \in Addresses, c \in Chains :
          CatalogOf'[<<a, c>>] = IF <<a, c>> = key THEN asset ELSE CatalogOf[<<a, c>>]
    BY <1>6, <1>7
  <2>4. \A k \in Addresses \X Chains :
          CatalogOf'[k] = IF k = key THEN asset ELSE CatalogOf[k]
    BY <2>3
  <2>5. QED
    BY <1>3, <2>1, <2>2, <2>4
<1>9. QED
  BY <1>4, <1>8 DEF Catalog!Create, SetAsset

(***************************************************************************)
(* Every step of the repository is a step of the catalog or leaves the     *)
(* catalog and lastGet alone: SetAsset is a Create, both branches of       *)
(* GetAsset are a Lookup, SetAssetCache is a stutter.                      *)
(***************************************************************************)
LEMMA CatalogStep ==
    KeyInjective /\ RInv /\ [Next]_vars => [Catalog!Next]_Catalog!catalogVars
<1> SUFFICES ASSUME KeyInjective, RInv, [Next]_vars
             PROVE  [Catalog!Next]_Catalog!catalogVars
  OBVIOUS
<1> USE DEF RInv
<1>1. ASSUME NEW asset \in AssetVal, SetAsset(asset) PROVE Catalog!Create(asset)
  BY <1>1, SetAssetCreates
<1>2. ASSUME NEW asset \in AssetVal, SetAssetCache(asset)
      PROVE  UNCHANGED Catalog!catalogVars
  BY <1>2 DEF SetAssetCache, Catalog!catalogVars, CatalogOf
<1>3. ASSUME NEW a \in Addresses, NEW c \in Chains, GetAssetMemoHit(a, c)
      PROVE  Catalog!Lookup(a, c)
  <2> DEFINE r == memo[Key(a, c)]
  <2>1. Key(a, c) \in MemoKeys
    BY KeyInMemoKeys
  <2>2. r # NoRow
    BY <1>3 DEF GetAssetMemoHit
  <2>3. PICK id \in Ids : assetTable[id] = r /\ Key(r.address, r.blockchain) = Key(a, c)
    BY <2>1, <2>2 DEF MemoSound
  <2>4. r \in AssetVal
    BY <2>1, <2>2 DEF TypeOK
  <2>5. r.address = a /\ r.blockchain = c
    BY <2>3, <2>4 DEF KeyInjective, AssetVal
  <2>6. CatalogOf[<<a, c>>] = r
    BY <2>2, <2>3, <2>5, CatalogEntry DEF TypeOK, Table, UniqueKeys, CatalogOf
  <2>7. QED
    BY <1>3, <2>6 DEF GetAssetMemoHit, Catalog!Lookup, CatalogOf
<1>4. ASSUME NEW a \in Addresses, NEW c \in Chains, GetAssetQuery(a, c)
      PROVE  Catalog!Lookup(a, c)
  <2>1. UNCHANGED CatalogOf
    BY <1>4 DEF GetAssetQuery, CatalogOf
  <2>2. CASE \E id \in MatchingIds(a, c) :
               lastGet' = [address |-> a, blockchain |-> c,
                           result |-> ScanAsset(assetTable[id])]
    <3>1. PICK id \in MatchingIds(a, c) :
               lastGet' = [address |-> a, blockchain |-> c,
                           result |-> ScanAsset(assetTable[id])]
      BY <2>2
    <3>2. assetTable[id] \in AssetVal /\ assetTable[id] # NoRow
      BY DEF MatchingIds, TypeOK
    <3>3. ScanAsset(assetTable[id]) = assetTable[id]
      BY <3>2, ScanAssetIdentity
    <3>4. CatalogOf[<<a, c>>] = assetTable[id]
      BY <3>2, CatalogEntry DEF MatchingIds, TypeOK, Table, UniqueKeys, CatalogOf
    <3>5. QED
      BY <2>1, <3>1, <3>3, <3>4 DEF Catalog!Lookup
  <2>3. CASE MatchingIds(a, c) = {} /\ lastGet' = [address |-> a, blockchain |-> c, result |-> NoRow]
    <3>1. CatalogOf[<<a, c>>] = NoRow
      BY <2>3, CatalogMissing DEF MatchingIds, TypeOK, Table, CatalogOf
    <3>2. QED
      BY <2>1, <2>3, <3>1 DEF Catalog!Lookup
  <2>4. CASE lastGet' = [address |-> a, blockchain |-> c, result |-> DbError]
    BY <2>1, <2>4 DEF Catalog!Lookup
  <2>5. QED
    BY <1>4, <2>2, <2>3, <2>4 DEF GetAssetQuery
<1>5. CASE UNCHANGED vars
  BY <1>5 DEF vars, Catalog!catalogVars, CatalogOf
<1>6. QED
  BY <1>1, <1>2, <1>3, <1>4, <1>5 DEF Next, GetAsset, Catalog!Next

(***************************************************************************)
(* AssetRepo implements AssetCatalog when the memo key is injective: every *)
(* behaviour of SetAsset, GetAsset and SetAssetCache, seen through the     *)
(* refinement mapping CatalogOf, is a behaviour of the catalog.  The run   *)
(* asset_repo checks the same property (CatalogSpec) on a small instance,  *)
(* and asset_memo_collision shows the hypothesis cannot be dropped.        *)
(***************************************************************************)
THEOREM AssetRepoRefinement ==
    ASSUME KeyInjective
    PROVE  Spec => CatalogSpec
<1>1. Spec => []RInv
  BY RInvInvariant
<1>2. Init => Catalog!Init
  BY DEF Init, Catalog!Init, CatalogOf, CatalogOfTable, KeyRows
<1>3. QED
  BY <1>1, <1>2, CatalogStep, PTL DEF Spec, CatalogSpec, Catalog!Spec
=============================================================================
