---------------------------- MODULE MC_AssetPaging ----------------------------
EXTENDS AssetPaging

(* The zero value of rdb.pagesize, and a positive size small enough that *)
(* the rows fill a page, a second one and part of a third.               *)
MCPageSizes == {0, 2}
MCPageSizesZero == {0}
MCPageSizesPositive == {2}

MCMaxRows == 5
MCMaxPage == 2
MCPoolSize == 2

=============================================================================
