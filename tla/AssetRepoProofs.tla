--------------------------- MODULE AssetRepoProofs ---------------------------
(***************************************************************************)
(* Proofs about AssetRepo: type correctness, soundness of the GetAsset     *)
(* memo map, and that GetAsset returns the requested row whenever the memo *)
(* key is injective.                                                       *)
(***************************************************************************)
EXTENDS AssetRepo, TLAPS

(***************************************************************************)
(* Converting decimals back from their text column is the identity on the  *)
(* uint8 values SetAsset writes.                                           *)
(***************************************************************************)
LEMMA ScanAssetIdentity ==
    ASSUME NEW r \in AssetVal
    PROVE  ScanAsset(r) = r
<1>1. r.decimals \in 0 .. 255
  BY AssetRepoAssumption DEF AssetVal
<1>2. ScanDecimals(r.decimals) = r.decimals
  BY <1>1 DEF ScanDecimals
<1>3. QED
  BY <1>2 DEF ScanAsset, AssetVal

LEMMA KeyInMemoKeys ==
    ASSUME NEW a \in Addresses, NEW c \in Chains
    PROVE  Key(a, c) \in MemoKeys
BY DEF MemoKeys

-----------------------------------------------------------------------------
(***************************************************************************)
(* TypeOK is inductive.                                                    *)
(***************************************************************************)
LEMMA TypeOKInit == Init => TypeOK
BY DEF Init, TypeOK

LEMMA TypeOKNext == TypeOK /\ [Next]_vars => TypeOK'
<1> SUFFICES ASSUME TypeOK, [Next]_vars PROVE TypeOK'
  OBVIOUS
<1>1. ASSUME NEW asset \in AssetVal, SetAsset(asset) PROVE TypeOK'
  BY <1>1 DEF SetAsset, TypeOK
<1>2. ASSUME NEW asset \in AssetVal, SetAssetCache(asset) PROVE TypeOK'
  BY <1>2 DEF SetAssetCache, GetKeyAsset, TypeOK, MatchingIds
<1>3. ASSUME NEW a \in Addresses, NEW c \in Chains, GetAssetMemoHit(a, c)
      PROVE TypeOK'
  <2>1. Key(a, c) \in MemoKeys
    BY KeyInMemoKeys
  <2>2. QED
    BY <1>3, <2>1 DEF GetAssetMemoHit, TypeOK, GetResult
<1>4. ASSUME NEW a \in Addresses, NEW c \in Chains, GetAssetQuery(a, c)
      PROVE TypeOK'
  <2>1. Key(a, c) \in MemoKeys
    BY KeyInMemoKeys
  <2>2. ASSUME NEW id \in MatchingIds(a, c)
        PROVE  ScanAsset(assetTable[id]) \in AssetVal
    <3>1. assetTable[id] \in AssetVal
      BY <2>2 DEF MatchingIds, TypeOK
    <3>2. QED
      BY <3>1, ScanAssetIdentity
  <2>3. QED
    BY <1>4, <2>1, <2>2 DEF GetAssetQuery, TypeOK, GetResult
<1>5. CASE UNCHANGED vars
  BY <1>5 DEF vars, TypeOK
<1>6. QED
  BY <1>1, <1>2, <1>3, <1>4, <1>5 DEF Next, GetAsset

(***************************************************************************)
(* Every state of the specification is well typed.                         *)
(***************************************************************************)
THEOREM TypeCorrect == Spec => []TypeOK
BY TypeOKInit, TypeOKNext, PTL DEF Spec

-----------------------------------------------------------------------------
(***************************************************************************)
(* The inductive invariant behind GetAsset's correctness: the state is     *)
(* well typed, every memo entry is a row stored under its own key, and the *)
(* latest GetAsset result is a row with the requested address and chain.   *)
(* MemoSound alone is already inductive together with TypeOK; the result   *)
(* of a memo hit is right only because of it.                              *)
(***************************************************************************)
IInv == TypeOK /\ MemoSound /\ GetAssetReturnsStoredRow

LEMMA MemoSoundInit == Init => MemoSound
BY DEF Init, MemoSound

LEMMA MemoSoundNext == TypeOK /\ MemoSound /\ [Next]_vars => MemoSound'
<1> SUFFICES ASSUME TypeOK, MemoSound, [Next]_vars PROVE MemoSound'
  OBVIOUS
<1>1. ASSUME NEW asset \in AssetVal, SetAsset(asset) PROVE MemoSound'
  <2>1. PICK nid \in Ids : /\ assetTable[nid] = NoRow
                           /\ assetTable' = [assetTable EXCEPT ![nid] = asset]
    BY <1>1 DEF SetAsset
  <2>2. SUFFICES ASSUME NEW k \in MemoKeys, memo[k] # NoRow
                 PROVE  \E id \in Ids : assetTable'[id] = memo[k]
    BY <1>1, <2>1 DEF SetAsset, MemoSound
  <2>3. PICK id \in Ids : assetTable[id] = memo[k]
    BY <2>2 DEF MemoSound
  <2>4. id # nid
    BY <2>1, <2>2, <2>3
  <2>5. QED
    BY <2>1, <2>3, <2>4 DEF TypeOK
<1>2. ASSUME NEW asset \in AssetVal, SetAssetCache(asset) PROVE MemoSound'
  BY <1>2 DEF SetAssetCache, MemoSound
<1>3. ASSUME NEW a \in Addresses, NEW c \in Chains, GetAssetMemoHit(a, c)
      PROVE MemoSound'
  BY <1>3 DEF GetAssetMemoHit, MemoSound
<1>4. ASSUME NEW a \in Addresses, NEW c \in Chains, GetAssetQuery(a, c)
      PROVE MemoSound'
  <2>1. CASE UNCHANGED memo
    BY <1>4, <2>1 DEF GetAssetQuery, MemoSound
  <2>2. CASE ~UNCHANGED memo
    <3>1. PICK id \in MatchingIds(a, c) :
              memo' = [memo EXCEPT ![Key(a, c)] = ScanAsset(assetTable[id])]
      BY <1>4, <2>2 DEF GetAssetQuery
    <3>2. /\ assetTable[id] \in AssetVal
          /\ assetTable[id].address = a
          /\ assetTable[id].blockchain = c
      BY <3>1 DEF MatchingIds, TypeOK
    <3>3. ScanAsset(assetTable[id]) = assetTable[id]
      BY <3>2, ScanAssetIdentity
    <3>4. assetTable' = assetTable
      BY <1>4 DEF GetAssetQuery
    <3>5. Key(a, c) \in MemoKeys
      BY KeyInMemoKeys
    <3>6. SUFFICES ASSUME NEW k \in MemoKeys, memo'[k] # NoRow
                   PROVE  /\ \E i \in Ids : assetTable'[i] = memo'[k]
                          /\ Key(memo'[k].address, memo'[k].blockchain) = k
      BY DEF MemoSound
    <3>7. CASE k = Key(a, c)
      <4>1. memo'[k] = assetTable[id]
        BY <3>1, <3>3, <3>5, <3>7 DEF TypeOK
      <4>2. id \in Ids
        BY DEF MatchingIds
      <4>3. QED
        BY <4>1, <4>2, <3>2, <3>4, <3>7
    <3>8. CASE k # Key(a, c)
      <4>1. memo'[k] = memo[k]
        BY <3>1, <3>8 DEF TypeOK
      <4>2. QED
        BY <4>1, <3>4, <3>6 DEF MemoSound
    <3>9. QED
      BY <3>7, <3>8
  <2>3. QED
    BY <2>1, <2>2
<1>5. CASE UNCHANGED vars
  BY <1>5 DEF vars, MemoSound
<1>6. QED
  BY <1>1, <1>2, <1>3, <1>4, <1>5 DEF Next, GetAsset

(***************************************************************************)
(* The memo map assetCache only ever holds rows of table asset, each under *)
(* its own key, whatever the names are.                                    *)
(***************************************************************************)
THEOREM MemoSoundness == Spec => []MemoSound
<1>1. Init => TypeOK /\ MemoSound
  BY TypeOKInit, MemoSoundInit
<1>2. TypeOK /\ MemoSound /\ [Next]_vars => (TypeOK /\ MemoSound)'
  BY TypeOKNext, MemoSoundNext
<1>3. QED
  BY <1>1, <1>2, PTL DEF Spec

LEMMA SentinelsNotAssets == NoRow \notin AssetVal /\ DbError \notin AssetVal
BY AssetRepoAssumption DEF AssetVal

LEMMA ResultNext ==
    KeyInjective /\ IInv /\ [Next]_vars => GetAssetReturnsStoredRow'
<1> SUFFICES ASSUME KeyInjective, IInv, [Next]_vars
             PROVE  GetAssetReturnsStoredRow'
  OBVIOUS
<1> USE DEF IInv
<1>1. ASSUME NEW asset \in AssetVal, SetAsset(asset)
      PROVE GetAssetReturnsStoredRow'
  <2>1. PICK nid \in Ids : /\ assetTable[nid] = NoRow
                           /\ assetTable' = [assetTable EXCEPT ![nid] = asset]
    BY <1>1 DEF SetAsset
  <2>2. SUFFICES ASSUME lastGet # NoRow, lastGet.result \in AssetVal
                 PROVE  \E id \in Ids : assetTable'[id] = lastGet.result
    BY <1>1 DEF SetAsset, GetAssetReturnsStoredRow
  <2>3. PICK id \in Ids : assetTable[id] = lastGet.result
    BY <2>2 DEF GetAssetReturnsStoredRow
  <2>4. id # nid
    BY <2>1, <2>2, <2>3, SentinelsNotAssets
  <2>5. QED
    BY <2>1, <2>3, <2>4 DEF TypeOK
<1>2. ASSUME NEW asset \in AssetVal, SetAssetCache(asset)
      PROVE GetAssetReturnsStoredRow'
  BY <1>2 DEF SetAssetCache, GetAssetReturnsStoredRow
<1>3. ASSUME NEW a \in Addresses, NEW c \in Chains, GetAssetMemoHit(a, c)
      PROVE GetAssetReturnsStoredRow'
  <2> DEFINE k == Key(a, c)
  <2>1. k \in MemoKeys
    BY KeyInMemoKeys
  <2>2. memo[k] \in AssetVal
    BY <1>3, <2>1 DEF GetAssetMemoHit, TypeOK
  <2>3. /\ \E id \in Ids : assetTable[id] = memo[k]
        /\ Key(memo[k].address, memo[k].blockchain) = k
    BY <1>3, <2>1 DEF GetAssetMemoHit, MemoSound
  <2>4. memo[k].address = a /\ memo[k].blockchain = c
    BY <2>2, <2>3 DEF KeyInjective, AssetVal
  <2>5. lastGet' = [address |-> a, blockchain |-> c, result |-> memo[k]]
        /\ assetTable' = assetTable
    BY <1>3 DEF GetAssetMemoHit
  <2>6. QED
    BY <2>3, <2>4, <2>5 DEF GetAssetReturnsStoredRow
<1>4. ASSUME NEW a \in Addresses, NEW c \in Chains, GetAssetQuery(a, c)
      PROVE GetAssetReturnsStoredRow'
  <2>1. assetTable' = assetTable
    BY <1>4 DEF GetAssetQuery
  <2>2. CASE \E id \in MatchingIds(a, c) :
                lastGet' = [address |-> a, blockchain |-> c,
                            result |-> ScanAsset(assetTable[id])]
    <3>1. PICK id \in MatchingIds(a, c) :
                lastGet' = [address |-> a, blockchain |-> c,
                            result |-> ScanAsset(assetTable[id])]
      BY <2>2
    <3>2. /\ id \in Ids
          /\ assetTable[id] \in AssetVal
          /\ assetTable[id].address = a
          /\ assetTable[id].blockchain = c
      BY DEF MatchingIds, TypeOK
    <3>3. ScanAsset(assetTable[id]) = assetTable[id]
      BY <3>2, ScanAssetIdentity
    <3>4. QED
      BY <2>1, <3>1, <3>2, <3>3 DEF GetAssetReturnsStoredRow
  <2>3. CASE lastGet'.result \in {NoRow, DbError}
    BY <2>3, SentinelsNotAssets DEF GetAssetReturnsStoredRow
  <2>4. QED
    BY <1>4, <2>2, <2>3 DEF GetAssetQuery
<1>5. CASE UNCHANGED vars
  BY <1>5 DEF vars, GetAssetReturnsStoredRow
<1>6. QED
  BY <1>1, <1>2, <1>3, <1>4, <1>5 DEF Next, GetAsset

(***************************************************************************)
(* If no two (address, blockchain) pairs share a memo key, GetAsset only   *)
(* ever returns a row of table asset with the requested address and        *)
(* blockchain, whether it comes from the memo map or from the query.       *)
(***************************************************************************)
THEOREM GetAssetCorrect ==
    ASSUME KeyInjective
    PROVE  Spec => []GetAssetReturnsStoredRow
<1>1. Init => IInv
  BY TypeOKInit, MemoSoundInit DEF IInv, Init, GetAssetReturnsStoredRow
<1>2. IInv /\ [Next]_vars => IInv'
  BY TypeOKNext, MemoSoundNext, ResultNext DEF IInv
<1>3. QED
  BY <1>1, <1>2, PTL DEF Spec, IInv

=============================================================================
