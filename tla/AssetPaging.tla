----------------------------- MODULE AssetPaging -----------------------------
(***************************************************************************)
(* RelDB.GetPage of pkg/model/assets.go and the postgres connection pool   *)
(* its queries run on.  The data of the assets plays no part in paging, so *)
(* table asset is abstracted to its number of rows; SetAsset adds one.     *)
(*                                                                         *)
(* Every statement takes a connection from the pool (pgxpool) and blocks,  *)
(* with context.Background(), while none is free.  The rows of a Query     *)
(* keep their connection until they are read to the end or closed.         *)
(*                                                                         *)
(* rdb.pagesize is set when the RelDB is built, outside this file; it is   *)
(* a uint32, and its zero value is a legal one.  It is chosen once, from   *)
(* PageSizes, and never changes.                                           *)
(***************************************************************************)
EXTENDS Naturals

CONSTANTS
    PageSizes,   \* the values rdb.pagesize may have
    PoolSize,    \* connections of the pool
    MaxRows,     \* bound on the rows of table asset
    MaxPage,     \* bound on the page numbers asked for
    NoPage       \* no GetPage call yet

ASSUME AssetPagingAssumption ==
    /\ PageSizes \subseteq Nat /\ PageSizes # {}
    /\ PoolSize \in Nat \ {0}
    /\ MaxRows \in Nat /\ MaxPage \in Nat

VARIABLES
    pagesize,   \* rdb.pagesize
    nrows,      \* rows of table asset
    held,       \* pool connections held by rows that are never closed
    lastPage    \* arguments and result of the latest GetPage call

pagingVars == <<pagesize, nrows, held, lastPage>>

(***************************************************************************)
(* "LIMIT $1 OFFSET $2": how many rows the page query returns.            *)
(***************************************************************************)
RowsAt(limit, offset) ==
    IF nrows <= offset THEN 0
    ELSE IF nrows - offset < limit THEN nrows - offset ELSE limit

(***************************************************************************)
(* len(nextPageRows.RawValues()) for the second query's rows, read before  *)
(* any call of Next: no row has been read, so it is 0 whatever the query   *)
(* returns.                                                                *)
(***************************************************************************)
NextPageRawLen(count) == 0

PagingInit ==
    /\ pagesize \in PageSizes
    /\ nrows = 0
    /\ held = 0
    /\ lastPage = NoPage

(***************************************************************************)
(* SetAsset: one insert, on a connection of the pool.                      *)
(***************************************************************************)
InsertRow ==
    /\ held < PoolSize
    /\ nrows < MaxRows
    /\ nrows' = nrows + 1
    /\ UNCHANGED <<pagesize, held, lastPage>>

(***************************************************************************)
(* "defer rows.Close()" after the page query, run by the return out of the *)
(* loop: the page's rows, not read to the end, give their connection back. *)
(* PageRowsKept is the same return without it.                             *)
(***************************************************************************)
PageRowsKept == held' = held + 1

ClosePageRows == UNCHANGED held

(***************************************************************************)
(* GetPage(pageNumber).  The page query either fails, returning its error, *)
(* or returns count rows.  rows.Scan of the first row fails: column        *)
(* decimals is text (GetAsset scans it into a string), and pgx cannot      *)
(* assign text to the uint8 asset.Decimals; GetPage returns that error.    *)
(* With no row, the loop ends with the rows read to the end and            *)
(* len(rows.RawValues()) = 0: GetPage returns when 0 < pagesize.  With     *)
(* pagesize 0 it sends the second query at offset skip+1, whose rows are   *)
(* never read (their RawValues is empty, so hasNextPage is false) and      *)
(* never closed, since the deferred Close comes after the return; they     *)
(* keep their connection.  That query's error is the one returned.        *)
(***************************************************************************)
GetPage(p) ==
    LET skip == pagesize * p
        count == RowsAt(pagesize, skip)
        result(n, hasNext, err) ==
            [page |-> p, rows |-> count, count |-> n, hasNext |-> hasNext, err |-> err]
    IN
    /\ held < PoolSize
    /\ \/ /\ lastPage' = result(0, FALSE, "query")
          /\ UNCHANGED held
       \/ /\ count > 0
          /\ lastPage' = result(0, FALSE, "scan")
          /\ ClosePageRows
       \/ /\ count = 0 /\ pagesize > 0
          /\ lastPage' = result(0, FALSE, "none")
          /\ UNCHANGED held
       \/ /\ count = 0 /\ pagesize = 0
          /\ \/ /\ lastPage' = result(0, NextPageRawLen(RowsAt(pagesize, skip + 1)) # 0,
                                      "none")
                /\ held' = held + 1
             \/ /\ lastPage' = result(0, FALSE, "query")
                /\ UNCHANGED held
    /\ UNCHANGED <<pagesize, nrows>>

PagingNext ==
    \/ InsertRow
    \/ \E p \in 0 .. MaxPage : GetPage(p)

PagingSpec == PagingInit /\ [][PagingNext]_pagingVars

-----------------------------------------------------------------------------
(***************************************************************************)
(* GetPage gives every connection it takes back to the pool: no sequence  *)
(* of calls leaves a connection held by rows nobody closes, which would    *)
(* end with every statement of the process blocked on the pool.            *)
(***************************************************************************)
NoConnectionLeak == held = 0

(***************************************************************************)
(* With a positive page size GetPage leaks no connection, on any of its   *)
(* return paths (failed query, failed Scan, empty page) and whatever the   *)
(* calls and inserts before it.                                            *)
(***************************************************************************)
NoLeakWithPageSize == pagesize > 0 => held = 0

(***************************************************************************)
(* The doc comment of GetPage, "returns assets per page number": a call    *)
(* whose queries succeed returns, without error, every row its page query  *)
(* found.                                                                  *)
(***************************************************************************)
PageReturnsRows ==
    lastPage # NoPage /\ lastPage.err # "query" =>
        lastPage.err = "none" /\ lastPage.count = lastPage.rows

=============================================================================
