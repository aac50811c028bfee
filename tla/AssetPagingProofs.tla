-------------------------- MODULE AssetPagingProofs --------------------------
(***************************************************************************)
(* Proofs about GetPage, for every set of page sizes, pool size and bound. *)
(* The page size never changes, and the only return of GetPage that keeps  *)
(* a connection is the one after the second query, reached only with a    *)
(* page size of 0; the leak-freedom for positive sizes is inductive once   *)
(* the page size is known to be a natural number.                          *)
(***************************************************************************)
EXTENDS AssetPaging, TLAPS

(***************************************************************************)
(* The inductive invariant: the page size is one of PageSizes, and none of *)
(* the pool's connections is kept while it is positive.                    *)
(***************************************************************************)
LeakInv == pagesize \in PageSizes /\ NoLeakWithPageSize

(***************************************************************************)
(* With a positive rdb.pagesize, no sequence of SetAsset and GetPage calls *)
(* (whatever the rows, pages and failed queries or Scans) leaves a pool    *)
(* connection held by rows nobody closes: the run paging_small_pages       *)
(* checks NoLeakWithPageSize for page sizes 0 and 2, this theorem for all. *)
(***************************************************************************)
THEOREM NoLeakWithPositivePageSize == PagingSpec => []NoLeakWithPageSize
<1>1. PagingInit => LeakInv
  BY DEF PagingInit, LeakInv, NoLeakWithPageSize
<1>2. LeakInv /\ [PagingNext]_pagingVars => LeakInv'
  <2> SUFFICES ASSUME LeakInv, [PagingNext]_pagingVars PROVE LeakInv'
    OBVIOUS
  <2>1. pagesize \in Nat
    BY AssetPagingAssumption DEF LeakInv
  <2>2. CASE InsertRow
    BY <2>2 DEF InsertRow, LeakInv, NoLeakWithPageSize
  <2>3. ASSUME NEW p \in 0 .. MaxPage, GetPage(p) PROVE LeakInv'
    <3>1. pagesize' = pagesize
      BY <2>3 DEF GetPage
    <3>2. held' # held => pagesize = 0
      BY <2>3 DEF GetPage, ClosePageRows
    <3> QED
      BY <2>1, <3>1, <3>2 DEF LeakInv, NoLeakWithPageSize
  <2>4. CASE UNCHANGED pagingVars
    BY <2>4 DEF pagingVars, LeakInv, NoLeakWithPageSize
  <2> QED
    BY <2>2, <2>3, <2>4 DEF PagingNext
<1>3. LeakInv => NoLeakWithPageSize
  BY DEF LeakInv
<1> QED
  BY <1>1, <1>2, <1>3, PTL DEF PagingSpec

(***************************************************************************)
(* No GetPage call has returned an asset.                                  *)
(***************************************************************************)
NoAssetReturned == lastPage = NoPage \/ lastPage.count = 0

(***************************************************************************)
(* GetPage returns no asset, whatever the page size, the page asked for    *)
(* and the rows of table asset: a page with a row fails at its first       *)
(* rows.Scan (text decimals into the uint8 asset.Decimals), and every      *)
(* other return has read no row.  The run paging_scan finds one such call  *)
(* on a small instance; this is the same for all of them.                  *)
(***************************************************************************)
THEOREM GetPageReturnsNoAsset == PagingSpec => []NoAssetReturned
<1>1. PagingInit => NoAssetReturned
  BY DEF PagingInit, NoAssetReturned
<1>2. NoAssetReturned /\ [PagingNext]_pagingVars => NoAssetReturned'
  <2> SUFFICES ASSUME NoAssetReturned, [PagingNext]_pagingVars
               PROVE NoAssetReturned'
    OBVIOUS
  <2>1. CASE InsertRow
    BY <2>1 DEF InsertRow, NoAssetReturned
  <2>2. ASSUME NEW p \in 0 .. MaxPage, GetPage(p) PROVE NoAssetReturned'
    <3> DEFINE count == RowsAt(pagesize, pagesize * p)
               Res(h, e) == [page |-> p, rows |-> count, count |-> 0,
                             hasNext |-> h, err |-> e]
    <3>1. \E h, e : lastPage' = Res(h, e)
      BY <2>2 DEF GetPage
    <3> QED
      BY <3>1 DEF NoAssetReturned
  <2>3. CASE UNCHANGED pagingVars
    BY <2>3 DEF pagingVars, NoAssetReturned
  <2> QED
    BY <2>1, <2>2, <2>3 DEF PagingNext
<1> QED
  BY <1>1, <1>2, PTL DEF PagingSpec

=============================================================================
