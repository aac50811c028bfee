# TLA+ models of `pkg/model/assets.go`

This directory holds the formal models of the asset repository in
`src/pkg/model/assets.go`. That file holds the `RelDB` methods that keep
assets, exchange symbols, exchange pairs, blockchains and volumes in postgres,
redis and influx. It contains:

- TLA+ modules that model the components;
- TLC configurations that model-check them on small instances;
- TLAPS proofs of the main invariants of the asset component.

`PROJECT.json` lists every component, run, mutant, finding and hazard. It also
maps each definition to the source lines it translates.

## The system

| Part | State | Operations (state-changing in bold) |
|---|---|---|
| table `asset` | rows keyed by `asset_id`, unique `(address, blockchain)` | **SetAsset**, GetAssetID, GetAssetByID, IdentifyAsset, listings |
| memo `assetCache` (package-level Go map) | key `"GetAsset_"+address+"_"+blockchain` to `dia.Asset` | **GetAsset** (fills it on a miss) |
| redis asset cache | `keyAssetCache + asset_id` to `dia.Asset` | **SetAssetCache**, GetAssetCache, CountCache |
| table `exchangesymbol` | (symbol, exchange, verified, asset_id) | **SetExchangeSymbol**, **VerifyExchangeSymbol**, GetExchangeSymbolAssetID, listings |
| table `exchangepair` | (symbol, foreignname, exchange, verified, id_basetoken, id_quotetoken) | **SetExchangePair**, GetExchangePair, GetExchangePairSymbols |
| redis pair cache | `keyExchangePairCache + exchange + "_" + foreignname` | **SetExchangePairCache** (also called by SetExchangePair), GetExchangePairCache |
| pgx connection pool | connections held by open `Rows` | every statement; GetPage leaks one (see below) |
| table `blockchain` | one row per chain name; `nativetoken_id` references `asset` | **SetBlockchain**, GetBlockchain, GetAllBlockchains |
| table `assetvolume` | one row per `asset_id` with the latest 24h volume | **SetAssetVolume24H**, GetAssetVolume24H, the volume listings |
| influx | trade volumes | GetAssetsWithVOLInflux (read-only, not modelled) |

How the parts interact:

- SetExchangePair calls GetAssetID twice, to resolve its base and quote tokens.
  It then updates the links and writes the pair cache.
- SetAssetCache calls GetKeyAsset, which calls GetAssetID.
- GetExchangePair calls GetAssetByID for each link.
- Callers are scraper goroutines and processes. They call these methods
  concurrently, and no method takes a lock or opens a transaction.
- SetBlockchain and SetAssetVolume24H resolve an asset inside their own
  statement, by a subquery on `(address, blockchain)` of table `asset`.
  GetBlockchain and GetAssetVolume24H join back to `asset`. A call made
  before the asset row exists stores NULL.
- Each SQL statement is atomic, and so is each redis command. Anything made of
  several statements can interleave with other callers.

## Modules

- **AssetRepo** (`AssetRepo.tla`): table `asset`, the memo and the redis asset
  cache.
  - Variables:
    - `assetTable` (`Ids -> AssetVal ∪ {NoRow}`);
    - `memo` (over the memo keys);
    - `redisAsset`;
    - `lastGet`, the arguments and result of the latest GetAsset.
  - Actions:
    - `SetAsset`: the insert. The unique constraint and a failed insert are
      stuttering steps.
    - `GetAssetMemoHit` and `GetAssetQuery` model the two branches of
      `GetAsset`. The query branch has three disjuncts: row found (the memo is
      filled), no row, and a failed query.
    - `SetAssetCache`.
  - Operators:
    - `MatchingIds` (GetAssetID), `GetKeyAsset`, `GetAssetByID`;
    - `ScanAsset`/`ScanDecimals`: the `uint8(strconv.Atoi(...))` conversion;
    - `Key`: the memo key, as the actual string concatenation;
    - `IdentifyAsset`: its filter construction. An all-default filter is a
      syntax error, and a decimals value of 0 adds no condition.
  - Address normalisation is the constant operator `HexToAddressHex`. The MC
    module gives it the behaviour of `common.HexToAddress(a).Hex()` on the
    strings used: checksumming, and the zero address for non-hex input.
- **ExchangePairRepo** (`ExchangePairRepo.tla`, EXTENDS AssetRepo): table
  `exchangepair`, the redis pair cache and SetExchangePair.
  - Each caller in `Clients` has a program counter `pc`. It goes through
    `InsertPair`, `ResolveBase`, `ResolveQuote`, `UpdateBase`, `UpdateQuote`,
    `UpdateVerified` and `CachePair`, which are source lines 475-513.
  - Every statement may fail. A failure returns the error and skips the
    remaining steps.
  - A GetAssetID failure is logged and yields `""` (`NoRow`), and the link
    update is then skipped.
  - A failed cache write is only logged.
  - `CacheExchangePair(e, p)` is a call of the exported
    `SetExchangePairCache` on its own. It writes redis whatever the table
    holds. `WriteThroughNext` is the next-state relation without it, where
    the cache holds only what SetExchangePair wrote through.
  - `UpdateRows` updates every row with the given `(foreignname, exchange)`,
    as the SQL does.
  - `SetAsset` interleaves with the callers.
  - `GetExchangePairResults` is the set of values GetExchangePair may return,
    since QueryRow reads any matching row.
  - `TokenIds(token)` is the set of ids GetAssetID can find for a token.
    `LinksNameSubmittedTokens` says that every link in the table is such an
    id, for the token that some pair under the row's foreign name gives in
    that role. The id is looked up at line 481 and written two statements
    later, while other callers and SetAsset run.
- **ExchangeSymbolRepo** (`ExchangeSymbolRepo.tla`, EXTENDS AssetRepo): table
  `exchangesymbol`.
  - SetExchangeSymbol is one statement, `insert ... where not exists (...)`.
    Under postgres' READ COMMITTED its test reads the statement snapshot, so it
    is split into `SetExchangeSymbolCheck` (the snapshot test) and
    `SetExchangeSymbolInsert`.
  - `UniqueSymbolExchange` says whether the schema has a unique index on
    `(symbol, exchange)`. The schema is not in the repository.
  - `VerifyExchangeSymbol` updates the rows. It builds the command tag
    `UPDATE n` as its list of words (`CommandTag`) and reads the success flag
    from word 2, as `strings.Split(tag, " ")[1]` does.
  - `EntryOfTable(t)` is what GetExchangeSymbolAssetID reads for each
    `(exchange, symbol)`: ErrNoRows (`NoRow`), or the verified flag and asset
    id of the row its QueryRow returns. It is the refinement mapping to
    ExchangeSymbols.
- **ExchangeSymbols** (`ExchangeSymbols.tla`): what table `exchangesymbol`
  promises, as an abstract specification. `entry` holds at most one entry
  per `(exchange, symbol)`. `Add(e, s)` creates an unverified entry where
  there is none. `Verify(e, s, id)` marks that entry verified with `id`, if
  it exists, and records in `lastVerify` whether it existed. No other entry
  changes. With the unique index, ExchangeSymbolRepo implements it under
  `entry <- EntryOf`:
  - the insert of SetExchangeSymbol is an `Add`;
  - VerifyExchangeSymbol is a `Verify`;
  - the snapshot test, the duplicate-key error and SetAsset are stutters.
- **AssetPaging** (`AssetPaging.tla`): GetPage and the pgx pool.
  - The table is abstracted to its row count (`nrows`), because paging does
    not depend on the data.
  - `pagesize` is `rdb.pagesize`. It is set outside the repository, so Init
    picks it from `PageSizes`, which may include its zero value. It never
    changes.
  - `held` counts pool connections held by rows that are never closed.
  - `GetPage(p)` models the whole function, with one disjunct per return:
    - the page query fails (line 590);
    - the page has a row, and the first `rows.Scan` fails (line 599).
      Column `decimals` is text: GetAsset scans it into a string. pgx cannot
      assign text to the `uint8` field `asset.Decimals`. The deferred
      `rows.Close()` (`ClosePageRows`, line 592) gives the connection back.
    - the page is empty and `0 < pagesize`: the loop read the rows to the
      end, so `len(rows.RawValues())` is 0 and GetPage returns at line 606;
    - the page is empty and `pagesize` is 0: the second query is sent. Its
      `RawValues()` is read before any `Next`, so it is 0
      (`NextPageRawLen`). GetPage returns at line 612, before the deferred
      `Close` at 614, and those rows keep their connection. If the query
      fails, its error is returned.
  - `lastPage` records the rows the page query found, the assets returned,
    `hasNextPage` and the kind of error.
  - Every statement waits for a free connection (`held < PoolSize`).
- **AssetCatalog** (`AssetCatalog.tla`): what table `asset` promises, as an
  abstract specification. `catalog` maps each `(address, blockchain)` to its
  asset or `NoRow`. `Create(asset)` fills a free key. `Lookup(a, c)` returns
  the entry or a database error. AssetRepo implements it (see Proofs) under
  the mapping `CatalogOf`: the row of `assetTable` with that key, or `NoRow`.
  A `SetAsset` that inserts is a `Create`. Both branches of `GetAsset` are a
  `Lookup`. The stuttering inserts and `SetAssetCache` are stutters.
- **BlockchainRepo** (`BlockchainRepo.tla`, EXTENDS AssetRepo): table
  `blockchain`.
  - `SetBlockchain(b)` is the upsert of lines 521-539, with `chainTable`
    keyed by name. The chain id goes through `NullIf`, so `""` becomes NULL.
    `NativeTokenId` is the subquery on the native token's address and the
    chain's own name. It yields NULL when no such asset row exists.
  - `GetBlockchain(name)` is the inner join with `asset`. It yields
    `pgx.ErrNoRows` (`NoRow`) for a missing row or a NULL native token, and a
    scan error (`DbError`) for a NULL chain id.
  - `GetAllBlockchains` is the set of distinct `asset.blockchain` values.
- **VolumeRepo** (`VolumeRepo.tla`, EXTENDS AssetRepo): table `assetvolume`.
  - Volumes are fixed-point numbers in units of 10^-7. `FormatVolume` is
    `%f`: six decimals, rounded.
    - It rounds a tie (a last digit of 5 in units of 10^-7) up.
    - Go's `%f` rounds the exact binary value of the float64 instead. A tie
      such as 5e-7 is just below the half-way point in binary, so Go prints
      `0.000000`.
    - The volumes used, 123.45 and 7·10^-7, are not ties, so the two
      agree on them. A tie would need a model of the binary value.
  - `SetAssetVolume24H(asset, v)` has two outcomes. With the asset row found
    (`VolumeAssetId`), the upsert on `asset_id` stores the formatted volume.
    With none, the NULL `asset_id` is rejected by a NOT NULL schema (an
    error, a stutter), or it is stored in a row of its own that joins nothing
    (`nullRows`). Whether the column is NOT NULL is the constant
    `VolumeAssetNotNull`, because the schema is not in the repository.
  - `volumeSet` records, per key, the latest volume whose call returned nil.
  - `GetAssetVolume24H` is the inner join.
- **AssetStore** (`AssetStore.tla`, EXTENDS BlockchainRepo, VolumeRepo): the
  composition. SetAsset, SetBlockchain and SetAssetVolume24H, by independent
  callers in any order. `VolumeOfTables` is what GetAssetVolume24H reads for
  each `(address, blockchain)`: the volume joined to that key's asset row,
  or `NoRow`.
- **AssetVolumes** (`AssetVolumes.tla`): what tables `asset` and
  `assetvolume` promise together, as an abstract specification.
  - `catalog` maps each key to its asset. `Create` fills a free key.
  - `volume` maps each key to its latest volume. `SetVolume` replaces it,
    rounded to six decimals, and only for a catalogued key.
  - AssetStore implements it under `catalog <- CatalogOf` and
    `volume <- VolumeOf`:
    - SetAsset is a `Create`;
    - a SetAssetVolume24H whose subquery finds the asset is a `SetVolume`;
    - the NULL-`asset_id` outcome and SetBlockchain are stutters, because
      they change nothing GetAssetVolume24H can read.
- **AssetRepoProofs**, **AssetRepoRefinement**, **ExchangePairRepoProofs**,
  **ExchangeSymbolRepoProofs**, **AssetStoreProofs**, **AssetPagingProofs**,
  **AssetStoreRefinement**: the TLAPS proofs (see Proofs).
- **MC_\*** modules: model values for ids and clients, small string sets, and
  symmetry sets.
  - The symmetry permutes ids, clients and row ids, which no property tells
    apart.
  - For products of two sets, the permutations are combined with `@@`.

## Runs

| Run | cfg | Expect | Shows |
|---|---|---|---|
| asset_repo | MC_AssetRepo.cfg | pass (52k states) | GetAsset returns the stored row of the asked pair (`GetAssetReturnsStoredRow`). The memo only holds rows of the table under their own key (`MemoSound`). AssetRepo implements AssetCatalog (`CatalogSpec`). |
| asset_memo_collision | MC_AssetRepo_collision.cfg | violation | With `_` in names, `("0xa1_Bsc","Testnet")` and `("0xa1","Bsc_Testnet")` share a memo key. GetAsset returns the wrong asset. |
| identify_non_hex_address | MC_AssetRepo_identify.cfg | violation | IdentifyAsset cannot find a Solana asset by its own address, because the address is rewritten to the zero address. |
| exchange_pair | MC_ExchangePairRepo.cfg | pass (547k states) | Two concurrent SetExchangePair callers, direct SetExchangePairCache calls and SetAsset run interleaved, and every statement may fail. Every link in table exchangepair is the asset_id of the token that a pair under that foreign name gives in that role (`LinksNameSubmittedTokens`). |
| exchange_pair_stale_link | MC_ExchangePairRepo_cache.cfg | violation | The run has one caller, and redis holds only what SetExchangePair writes. A BTC call inserts its row for `BTC-USDT` and then fails at an update. An XBT call then succeeds and caches its pair. GetExchangePair may return the BTC row, whose symbol is not the cached one (13 states). |
| exchange_symbol_unique | MC_ExchangeSymbolRepo_unique.cfg | pass (5.6k states) | With two racing callers and a unique index, the verify report matches what GetExchangeSymbolAssetID then reads (`VerifyThenRead`), and the table implements ExchangeSymbols (`ExchangeSymbolCatalogSpec`). |
| exchange_symbol_race | MC_ExchangeSymbolRepo_race.cfg | violation | Two callers both pass NOT EXISTS and insert duplicates. |
| paging_small_pages | MC_AssetPaging_small.cfg | pass (150 states) | Page size 0 or 2. With page size 2, no connection is ever kept, on any return path (`NoLeakWithPageSize`). |
| paging_scan | MC_AssetPaging_scan.cfg | violation | After one SetAsset, GetPage(0) returns the Scan error and no asset, although its query found a row. |
| paging_leak | MC_AssetPaging_leak.cfg | violation | With page size 0, a single GetPage call keeps a pool connection. |
| asset_store | MC_AssetStore.cfg | pass (99k states) | A chain's native token is an asset of that chain (`GetBlockchainNativeOnChain`). A volume read back is the formatted volume last set for the asset's own key (`VolumeReadSound`). The two tables implement AssetVolumes, with volumes rounded to six decimals (`VolumeCatalogSpec`). |
| blockchain_set_then_get | MC_AssetStore_setget.cfg | violation | SetBlockchain("Ethereum") returns nil while the native token's asset row is missing. GetBlockchain then returns `pgx.ErrNoRows`. An empty chain id fails in the same way, as a scan error. |

`paging_small_pages` sets `CHECK_DEADLOCK FALSE` because, with page size
0, the process really does stop. Once the leaked connections fill the pool,
every statement blocks forever on `context.Background()`. `paging_leak` is
the run that shows the leak.

`exchange_pair_stale_link` uses `WriteThroughNext`. With direct cache writes,
the shortest violation would be a pair that was cached and never written to
the table. That says nothing about SetExchangePair.

Bounds:

- 2–3 ids, which allows a second asset and a free id after it.
- 2 addresses and 2 chains: enough for a collision and for a token that does
  not resolve.
- Decimals {0, 8}: zero is a legal value, and the two values give two distinct
  assets with the same key.
- 2 clients: the smallest number for a race.
- Three pair values with one foreign name:
  - the same symbol with other tokens;
  - a missing base token;
  - another symbol.
- The stale-link run swaps the tokens of the third pair. The pass run keeps
  each token in one role (`MCRolePairs`), so a link written to the wrong
  column shows.
- 3 exchange-symbol row ids: room for a duplicate.
- Paging: up to 5 rows, pages 0..2, a pool of 2 connections, and page sizes
  0 and 2. With page size 2, pages 0 and 1 can be full and page 2 partial.
  Each return path of GetPage is reached, and with page size 0 the pool
  runs dry.
- Asset store: one address on two chains (a bridged token), so a subquery
  without the chain condition finds the wrong row. A chain id and the empty
  chain id. The volumes 123.45 (the spec's example) and 7·10^-7, which `%f`
  rounds up to 10^-6; a truncating conversion would store 0. A nullable `asset_id` with room for one NULL row, so the call made
  before its asset row exists happens.

No run assumes fairness and no property is a liveness property. Every method
of this file is one call that returns. The code has no retry loop, no
background task and no lock that anyone waits on, so no progress can be
assumed or checked. The pool exhaustion that blocks forever is a safety
violation (`NoConnectionLeak`). `CatalogSpec`, `VolumeCatalogSpec` and
`ExchangeSymbolCatalogSpec` are temporal properties, but each is the
refinement of a safety specification.

Every property of a passing run has a mutant in `PROJECT.json`. A mutant is a
plausible bug in the mapped code that makes TLC find the property violated:

- the memo key without the chain;
- SetAsset filling the memo;
- ResolveBase looking up the quote token (breaks `LinksNameSubmittedTokens`);
- the command tag's first word read;
- SetAsset inserting a second row under a taken key (breaks `CatalogSpec`);
- the native-token and volume subqueries without the chain condition;
- GetPage without the deferred `rows.Close()` (breaks `NoLeakWithPageSize`);
- `%f` truncating instead of rounding (breaks `VolumeCatalogSpec`);
- GetExchangeSymbolAssetID binding its arguments in signature order,
  `(exchange, symbol)`, to `symbol=$1 and exchange=$2` (breaks
  `ExchangeSymbolCatalogSpec`).

## Proofs

Each theorem is proved by TLAPS (`tlapm`) for every value of the constants,
under the assumptions of the modules it extends:

- `AssetRepoAssumption`: decimals are bytes, the sentinels are distinct and
  are not assets, and `NoRow` is not an id;
- `ExchangeSymbolAssumption`: the row ids are finite. `SymbolRowAssumption`:
  `NoRow` is not a row. `SymbolEntryAssumption`: `NoRow` is not an
  `(asset_id, verified)` pair;
- `VolumeAssumption`: volumes are naturals and `NoRow` is not one.

Module by module:

- **AssetRepoProofs.**
  - `TypeCorrect`: `Spec => []TypeOK`. The proof is an induction with one
    step per action.
  - `MemoSoundness`: `Spec => []MemoSound`, with the inductive invariant
    `TypeOK /\ MemoSound`. GetAssetQuery only stores the scan of a row found
    under the same key, and `ScanAssetIdentity` shows that the scan of a
    stored row is that row, since decimals are below 256.
  - `GetAssetCorrect`: `KeyInjective => (Spec => []GetAssetReturnsStoredRow)`.
    A memo hit returns an entry stored under `Key(row.address,
    row.blockchain)`, and by injectivity that row has the asked key. The
    collision run shows that the hypothesis cannot be dropped.
- **AssetRepoRefinement.** `AssetRepoRefinement`:
  `KeyInjective => (Spec => CatalogSpec)`.
  - The inductive invariant is `RInv == TypeOK /\ MemoSound /\ UniqueKeys`.
    `UniqueKeys` (no two rows share `(address, blockchain)`) is what makes
    `CatalogOf` well defined: the `CHOOSE` picks the only row of its key.
    SetAsset keeps it because it inserts only under a free key.
  - `CatalogEntry`, `CatalogMissing` and `CatalogFrame` say what the mapping
    gives for a key with a row, with none, and for the other keys after an
    insert. `CatalogStep` maps each action to `Create`, `Lookup` or a stutter.
- **ExchangePairRepoProofs.** `LinksNameSubmittedTokensInvariant`:
  `PairSpec => []LinksNameSubmittedTokens`. This includes the direct
  SetExchangePairCache calls.
  - The inductive invariant `LInv` adds `ClientOK`: an id a caller holds
    between its GetAssetID lookup and its update is in `TokenIds` of its own
    token. An idle caller holds none.
  - `TokenIdsGrow`: SetAsset only fills an empty asset_id, so a matching id
    stays matching while others run.
  - `UpdateRowsLinks`: an update writes the caller's id into every row
    under the foreign name. The caller's own pair is a pair under that
    foreign name, so the link stays correct, and the other columns are
    untouched.
  - One step lemma per action, joined by the frame lemmas `ClientFrame`,
    `ClientKept`, `TableKept`, `TableRewritten` and `ReturnFrame`.
- **ExchangeSymbolRepoProofs.** `VerifyThenReadCorrect`:
  `UniqueSymbolExchange => (SymbolSpec => []VerifyThenRead)`.
  - The inductive invariant `VInv` adds `VerifiedRows`: the rows of the last
    verify are all verified with its asset when it reported success, and
    none are when it reported failure.
  - `ReportIffRows` shows that the flag parsed from word 2 of `UPDATE n` is
    true exactly when a row was updated.
  - The unique index keeps a later insert from adding an unverified row
    under a verified key.
  - `ExchangeSymbolRefinement`:
    `UniqueSymbolExchange => (SymbolSpec => ExchangeSymbolCatalogSpec)`.
    - The index keeps one row per key (`UniqueRows`, proved by
      `UniqueRowsNext`). That is what makes `EntryOfTable` well defined:
      its `CHOOSE` picks the only row, the row QueryRow returns.
    - `EntryRead`, `EntryNone` and `EntryFrame` say what the mapping gives
      for a key with a row, a key without one, and a key whose rows did not
      change.
    - `VerifyRows` says what the update does to each row.
    - `CatalogInsert` and `CatalogVerify` map the insert to `Add` and the
      verify to `Verify`. The report equals "the key had an entry" by
      `ReportIffRows`. `CatalogStep` covers every action.
- **AssetStoreProofs.**
  - `BlockchainNativeCorrect`: `StoreSpec => []GetBlockchainNativeOnChain`.
  - `VolumeReadSoundness`: `StoreSpec => []VolumeReadSound`.
  - Both rest on `SInv`, which contains `UniqueKeys`, `NativeOnChain` (a
    non-NULL native token id names a row of that chain) and `VolumeRows` (a
    volume row belongs to an asset row and holds the formatted latest volume
    of its key). A row of table asset never changes once it is filled, so
    what a subquery resolved stays right. `StoreStepIsRepoStep` reuses the
    AssetRepo lemmas.
- **AssetStoreRefinement.** `AssetStoreRefinement`:
  `StoreSpec => VolumeCatalogSpec`. It has no hypothesis, because the
  unique `(address, blockchain)` of table asset is part of `SInv`.
  - `VolumeEntry`, `VolumeMissing`, `VolumeInsertFrame` and
    `VolumeWriteFrame` say what `VolumeOfTables` gives after each kind of
    write.
  - `SetAssetCreates` (in AssetRepoRefinement) shows that an inserting
    SetAsset is the abstract `Create`. `VolumeStep` adds that it leaves the
    volume map unchanged.
  - A found SetAssetVolume24H writes `FormatVolume(v)` to the asset's row,
    which is `SixDecimals(v)`. A NULL-`asset_id` row joins nothing.
- **AssetPagingProofs.** Both theorems hold for every set of page sizes,
  every pool size and every bound.
  - `NoLeakWithPositivePageSize`: `PagingSpec => []NoLeakWithPageSize`.
    The page size never changes. The only return that keeps a connection
    needs `pagesize = 0`. The inductive invariant `LeakInv` only adds that
    `pagesize` is in `PageSizes`, a set of naturals.
  - `GetPageReturnsNoAsset`: `PagingSpec => []NoAssetReturned`. Every
    return of GetPage has read no row, because a page with a row fails at
    its first Scan. `paging_scan` shows one such call. This theorem says
    that there is no other kind.

Every property of a passing run has a theorem: the seven invariants and
the three refinements. TLC shows each one on a small instance, and the
theorem proves it for every value of the constants.
There is no separate `[][A]_vars` action property. What a single step may
do to each table is stated by the three refinements, and proved by their
step lemmas: every step is an abstract step or a stutter. For example, no
step rewrites an asset row or another key's volume, and no verify touches
another key's entry.

Only TLC checks the following:

- the violated properties, which are false, so there is nothing to prove;
- anything about `ENABLED` or liveness, which TLAPS cannot prove and the
  code does not call for;
- statements over all strings. The key's injectivity is a hypothesis, and
  `Key` and `IdentifyAsset` are checked on the MC strings only.

## Not modelled

- The read-only listings: GetAllAssets, GetAssetsBySymbolName,
  GetFiatAssetBySymbol, GetAssets, GetExchangeSymbols,
  GetUnverifiedExchangeSymbols, GetAssetExchange, GetExchangePairSymbols,
  GetTopAssetByVolume, GetByLimit, GetActiveAssetCount, GetActiveAsset,
  GetAssetsWithVOL, Count and CountCache. They change no state.
- GetAssetsWithVOLInflux, which is one read of influx.
- The uint32 overflow in GetPage's `skip`.
- The unsynchronised Go map. A concurrent write is a fatal runtime error,
  and the model makes each GetAsset atomic.
- The redis asset cache against the table (SetAssetCache caches the
  caller's value). It is modelled, but no run checks it.
- The text of the SQL statements, including the quoting of addresses in
  SetAssetVolume24H.

`PROJECT.json` lists these with the hazards they carry.
