---------------------- MODULE ExchangeSymbolRepoProofs ----------------------
(***************************************************************************)
(* Proof that, with a unique index on (symbol, exchange), what             *)
(* VerifyExchangeSymbol reports is what GetExchangeSymbolAssetID then      *)
(* reads, for any number of concurrent SetExchangeSymbol callers.  The     *)
(* inductive invariant VerifiedRows states the report in terms of the rows *)
(* of the verified key: on success every one of them is verified with the  *)
(* asset id, and there is one; on failure none is verified.  An insert for *)
(* that key after a successful verify is rejected by the index, and an     *)
(* insert after a failed one adds an unverified row.                       *)
(*                                                                         *)
(* Second, that with the index the repository implements the abstract      *)
(* ExchangeSymbols: the index keeps one row per key (UniqueRows), so the   *)
(* row GetExchangeSymbolAssetID reads is determined, an insert is the      *)
(* abstract Add and a verify the abstract Verify.                          *)
(***************************************************************************)
EXTENDS ExchangeSymbolRepo, FiniteSetTheorems, TLAPS

CallRec == [exchange : Exchanges, symbol : ExchangeSymbols, exists : BOOLEAN]

SymTypes ==
    /\ symbolTable \in [RowIds -> SymbolRow \cup {NoRow}]
    /\ symPc \in [SymbolClients -> {"idle", "insert"}]
    /\ symCall \in [SymbolClients -> CallRec \cup {NoRow}]
    /\ \A c \in SymbolClients : symPc[c] = "insert" => symCall[c] \in CallRec
    /\ lastVerify \in VerifyResult \cup {NoRow}

VerifiedRows ==
    lastVerify # NoRow =>
        LET rows == RowsOf(lastVerify.symbol, lastVerify.exchange) IN
        /\ lastVerify.result =>
               /\ rows # {}
               /\ \A r \in rows : /\ symbolTable[r].verified
                                  /\ symbolTable[r].asset = lastVerify.assetID
        /\ ~lastVerify.result => \A r \in rows : ~symbolTable[r].verified

VInv == SymTypes /\ VerifiedRows

(***************************************************************************)
(* The report parsed out of the command tag is TRUE exactly when the       *)
(* update matched a row.                                                   *)
(***************************************************************************)
LEMMA ReportIffRows ==
    ASSUME NEW rows \in SUBSET RowIds
    PROVE  UpdateSucceeded(CommandTag(Cardinality(rows))) <=> rows # {}
<1>1. IsFiniteSet(rows)
  BY ExchangeSymbolAssumption, FS_Subset
<1>2. Cardinality(rows) = 0 <=> rows = {}
  BY <1>1, FS_EmptySet
<1>3. QED
  BY <1>2 DEF UpdateSucceeded, CommandTag, NumeralOf

LEMMA VInvInit == SymbolInit => VInv
BY DEF SymbolInit, VInv, SymTypes, VerifiedRows

LEMMA VInvNext == UniqueSymbolExchange /\ VInv /\ [SymbolNext]_allVars => VInv'
<1> SUFFICES ASSUME UniqueSymbolExchange, VInv, [SymbolNext]_allVars PROVE VInv'
  OBVIOUS
<1> USE DEF VInv
<1>1. ASSUME NEW asset \in AssetVal, SetAsset(asset), UNCHANGED symVars PROVE VInv'
  BY <1>1 DEF symVars, SymTypes, VerifiedRows, RowsOf, RowsIn
<1>2. ASSUME NEW c \in SymbolClients, NEW e \in Exchanges, NEW s \in ExchangeSymbols,
             SetExchangeSymbolCheck(c, e, s)
      PROVE  VInv'
  BY <1>2 DEF SetExchangeSymbolCheck, SymTypes, VerifiedRows, RowsOf, RowsIn, CallRec
<1>3. ASSUME NEW c \in SymbolClients, SetExchangeSymbolInsert(c) PROVE VInv'
  <2>1. symCall[c] \in CallRec
    BY <1>3 DEF SetExchangeSymbolInsert, SymTypes
  <2>2. CASE UNCHANGED symbolTable
    BY <1>3, <2>2 DEF SetExchangeSymbolInsert, SymTypes, VerifiedRows, RowsOf, RowsIn
  <2>3. CASE /\ RowsOf(symCall[c].symbol, symCall[c].exchange) = {}
             /\ InsertSymbolRow(c)
    <3>1. PICK id \in RowIds :
             /\ symbolTable[id] = NoRow
             /\ symbolTable' = [symbolTable EXCEPT ![id] =
                   [symbol |-> symCall[c].symbol, exchange |-> symCall[c].exchange,
                    verified |-> FALSE, asset |-> NoRow]]
      BY <2>3 DEF InsertSymbolRow
    <3>2. SymTypes'
      BY <1>3, <2>1, <3>1 DEF SetExchangeSymbolInsert, SymTypes, SymbolRow, CallRec
    <3>3. VerifiedRows'
      BY <1>3, <2>1, <2>3, <3>1 DEF SetExchangeSymbolInsert, SymTypes, VerifiedRows, RowsOf, RowsIn
    <3>4. QED
      BY <3>2, <3>3
  <2>4. QED
    BY <1>3, <2>2, <2>3 DEF SetExchangeSymbolInsert
<1>4. ASSUME NEW e \in Exchanges, NEW s \in ExchangeSymbols, NEW id \in Ids,
             VerifyExchangeSymbol(e, s, id)
      PROVE  VInv'
  <2> DEFINE rows == RowsOf(s, e)
  <2>1. lastVerify'.result <=> rows # {}
    BY <1>4, ReportIffRows DEF VerifyExchangeSymbol, RowsOf, RowsIn
  <2>3. ASSUME NEW r \in rows
        PROVE  /\ symbolTable'[r] # NoRow
               /\ symbolTable'[r].symbol = s /\ symbolTable'[r].exchange = e
               /\ symbolTable'[r].verified /\ symbolTable'[r].asset = id
    <3>1. symbolTable[r] \in SymbolRow /\ r \in RowIds
      BY DEF SymTypes, RowsOf, RowsIn
    <3>2. symbolTable'[r] = [symbolTable[r] EXCEPT !.verified = TRUE, !.asset = id]
      BY <1>4, <3>1 DEF VerifyExchangeSymbol
    <3>3. symbolTable'[r] \in SymbolRow
      BY <3>1, <3>2 DEF SymbolRow
    <3>4. QED
      BY <3>1, <3>2, <3>3, SymbolRowAssumption DEF RowsOf, RowsIn
  <2>2. SymTypes'
    <3>1. \A r \in RowIds : symbolTable'[r] \in SymbolRow \cup {NoRow}
      <4>1. \A r \in rows : symbolTable'[r] \in SymbolRow
        BY <1>4 DEF VerifyExchangeSymbol, SymTypes, SymbolRow, RowsOf, RowsIn
      <4>2. \A r \in RowIds \ rows : symbolTable'[r] = symbolTable[r]
        BY <1>4 DEF VerifyExchangeSymbol
      <4>3. QED
        BY <4>1, <4>2 DEF SymTypes
    <3>2. symbolTable' \in [RowIds -> SymbolRow \cup {NoRow}]
      BY <1>4, <3>1 DEF VerifyExchangeSymbol
    <3>3. lastVerify' \in VerifyResult
      BY <1>4 DEF VerifyExchangeSymbol, VerifyResult, UpdateSucceeded
    <3>4. QED
      BY <1>4, <3>2, <3>3 DEF VerifyExchangeSymbol, SymTypes
  <2>4. RowsOf(s, e)' = rows
    <3>1. \A r \in RowIds \ rows : symbolTable'[r] = symbolTable[r]
      BY <1>4 DEF VerifyExchangeSymbol
    <3>2. QED
      BY <2>3, <3>1 DEF RowsOf, RowsIn
  <2>5. VerifiedRows'
    BY <1>4, <2>1, <2>3, <2>4 DEF VerifyExchangeSymbol, VerifiedRows
  <2>6. QED
    BY <2>2, <2>5
<1>5. CASE UNCHANGED allVars
  BY <1>5 DEF allVars, SymTypes, VerifiedRows, RowsOf, RowsIn
<1>6. QED
  BY <1>1, <1>2, <1>3, <1>4, <1>5 DEF SymbolNext, SymbolClientStep

(***************************************************************************)
(* With a unique index on (symbol, exchange), after VerifyExchangeSymbol   *)
(* reports success GetExchangeSymbolAssetID returns (assetID, true), and   *)
(* after it reports failure it returns no verified row, however            *)
(* SetExchangeSymbol calls interleave: the property the run                *)
(* exchange_symbol_unique checks with two callers.                         *)
(***************************************************************************)
THEOREM VerifyThenReadCorrect ==
    ASSUME UniqueSymbolExchange
    PROVE  SymbolSpec => []VerifyThenRead
<1>1. VInv => VerifyThenRead
  <2> SUFFICES ASSUME VInv, lastVerify # NoRow PROVE VerifyThenRead
    BY DEF VerifyThenRead
  <2> DEFINE rows == RowsOf(lastVerify.symbol, lastVerify.exchange)
             results == GetExchangeSymbolAssetIDResults(lastVerify.exchange,
                                                        lastVerify.symbol)
  <2>1. ASSUME lastVerify.result
        PROVE  results = {[assetID |-> lastVerify.assetID, verified |-> TRUE]}
    <3>1. rows # {} /\ \A r \in rows : /\ symbolTable[r].verified = TRUE
                                     /\ symbolTable[r].asset = lastVerify.assetID
      BY <2>1 DEF VInv, VerifiedRows, SymTypes, SymbolRow, RowsOf, RowsIn
    <3>2. QED
      BY <3>1 DEF GetExchangeSymbolAssetIDResults
  <2>2. ASSUME ~lastVerify.result
        PROVE  \A res \in results : res = NoRow \/ ~res.verified
    BY <2>2 DEF VInv, VerifiedRows, GetExchangeSymbolAssetIDResults
  <2>3. QED
    BY <2>1, <2>2 DEF VerifyThenRead
<1>2. QED
  BY <1>1, VInvInit, VInvNext, PTL DEF SymbolSpec
-----------------------------------------------------------------------------
(***************************************************************************)
(* Refinement of the abstract repository ExchangeSymbols.  With the unique *)
(* index a key has at most one row, so the row GetExchangeSymbolAssetID's  *)
(* QueryRow returns is determined; that is the invariant UniqueRows.       *)
(***************************************************************************)
Table == [RowIds -> SymbolRow \cup {NoRow}]

UniqueTable(t) ==
    \A r1, r2 \in RowIds :
        /\ t[r1] # NoRow /\ t[r2] # NoRow
        /\ t[r1].symbol = t[r2].symbol /\ t[r1].exchange = t[r2].exchange
        => r1 = r2

UniqueRows == UniqueTable(symbolTable)

(***************************************************************************)
(* Reading a key with a row yields that row's flag and asset id.           *)
(***************************************************************************)
LEMMA EntryRead ==
    \A t : \A e \in Exchanges, s \in ExchangeSymbols : \A r \in RowsIn(t, s, e) :
        UniqueTable(t) =>
            EntryOfTable(t)[<<e, s>>] = [verified |-> t[r].verified, asset |-> t[r].asset]
<1> TAKE t
<1> TAKE e \in Exchanges, s \in ExchangeSymbols
<1> TAKE r \in RowsIn(t, s, e)
<1> HAVE UniqueTable(t)
<1>1. RowsIn(t, s, e) = {r}
  BY DEF UniqueTable, RowsIn
<1>2. (CHOOSE x \in RowsIn(t, s, e) : TRUE) = r
  BY <1>1
<1>3. QED
  BY <1>1, <1>2 DEF EntryOfTable

(***************************************************************************)
(* Reading a key with no row yields ErrNoRows.                             *)
(***************************************************************************)
LEMMA EntryNone ==
    \A t : \A e \in Exchanges, s \in ExchangeSymbols :
        RowsIn(t, s, e) = {} => EntryOfTable(t)[<<e, s>>] = NoRow
BY DEF EntryOfTable

(***************************************************************************)
(* A key reads the same from two tables that agree on its rows.            *)
(***************************************************************************)
LEMMA EntryFrame ==
    \A t, u : \A e \in Exchanges, s \in ExchangeSymbols :
        /\ RowsIn(u, s, e) = RowsIn(t, s, e)
        /\ \A r \in RowsIn(t, s, e) : u[r] = t[r]
        => EntryOfTable(u)[<<e, s>>] = EntryOfTable(t)[<<e, s>>]
<1> TAKE t, u
<1> TAKE e \in Exchanges, s \in ExchangeSymbols
<1> HAVE /\ RowsIn(u, s, e) = RowsIn(t, s, e)
         /\ \A r \in RowsIn(t, s, e) : u[r] = t[r]
<1>1. (CHOOSE x \in RowsIn(u, s, e) : TRUE) = (CHOOSE x \in RowsIn(t, s, e) : TRUE)
  OBVIOUS
<1>2. RowsIn(t, s, e) # {} => (CHOOSE x \in RowsIn(t, s, e) : TRUE) \in RowsIn(t, s, e)
  OBVIOUS
<1>3. QED
  BY <1>1, <1>2 DEF EntryOfTable

LEMMA UniqueRowsInit == SymbolInit => UniqueRows
BY DEF SymbolInit, UniqueRows, UniqueTable

(***************************************************************************)
(* The unique index keeps one row per key: SetExchangeSymbol inserts only  *)
(* when the key has no row, and VerifyExchangeSymbol leaves every row's    *)
(* key as it was.                                                          *)
(***************************************************************************)
(* VerifyExchangeSymbol's update of a table t: each row of the key becomes *)
(* verified with the asset id and keeps its key; every other row is       *)
(* untouched.                                                              *)
(***************************************************************************)
LEMMA VerifyRows ==
    \A ve \in Exchanges, vs \in ExchangeSymbols, vid \in Ids :
        SymTypes /\ VerifyExchangeSymbol(ve, vs, vid) =>
            /\ \A r \in RowIds \ RowsOf(vs, ve) : symbolTable'[r] = symbolTable[r]
            /\ \A r \in RowsOf(vs, ve) :
                  /\ symbolTable'[r] \in SymbolRow
                  /\ symbolTable'[r].symbol = vs /\ symbolTable'[r].exchange = ve
                  /\ symbolTable'[r].verified = TRUE /\ symbolTable'[r].asset = vid
<1> TAKE ve \in Exchanges, vs \in ExchangeSymbols, vid \in Ids
<1> HAVE SymTypes /\ VerifyExchangeSymbol(ve, vs, vid)
<1>1. \A r \in RowIds \ RowsOf(vs, ve) : symbolTable'[r] = symbolTable[r]
  BY DEF VerifyExchangeSymbol
<1>2. ASSUME NEW r \in RowsOf(vs, ve)
      PROVE  /\ symbolTable'[r] \in SymbolRow
             /\ symbolTable'[r].symbol = vs /\ symbolTable'[r].exchange = ve
             /\ symbolTable'[r].verified = TRUE /\ symbolTable'[r].asset = vid
  <2>1. symbolTable[r] \in SymbolRow /\ r \in RowIds
    BY SymbolRowAssumption DEF SymTypes, RowsOf, RowsIn
  <2>2. symbolTable'[r] = [symbolTable[r] EXCEPT !.verified = TRUE, !.asset = vid]
    BY <2>1 DEF VerifyExchangeSymbol
  <2>3. QED
    BY <2>1, <2>2 DEF SymbolRow, RowsOf, RowsIn
<1>3. QED
  BY <1>1, <1>2

(***************************************************************************)
LEMMA UniqueRowsNext ==
    UniqueSymbolExchange /\ SymTypes /\ UniqueRows /\ [SymbolNext]_allVars => UniqueRows'
<1> SUFFICES ASSUME UniqueSymbolExchange, SymTypes, UniqueRows, [SymbolNext]_allVars
             PROVE  UniqueRows'
  OBVIOUS
<1>1. CASE symbolTable' = symbolTable
  BY <1>1 DEF UniqueRows
<1>2. ASSUME NEW c \in SymbolClients,
             RowsOf(symCall[c].symbol, symCall[c].exchange) = {},
             InsertSymbolRow(c)
      PROVE  UniqueRows'
  <2>1. PICK id \in RowIds :
           /\ symbolTable[id] = NoRow
           /\ symbolTable' = [symbolTable EXCEPT ![id] =
                 [symbol |-> symCall[c].symbol, exchange |-> symCall[c].exchange,
                  verified |-> FALSE, asset |-> NoRow]]
    BY <1>2 DEF InsertSymbolRow
  <2>2. \A r \in RowIds \ {id} : symbolTable[r] # NoRow =>
            ~(/\ symbolTable[r].symbol = symCall[c].symbol
              /\ symbolTable[r].exchange = symCall[c].exchange)
    BY <1>2 DEF RowsOf, RowsIn
  <2>3. QED
    BY <2>1, <2>2 DEF UniqueRows, UniqueTable, SymTypes
<1>3. ASSUME NEW e \in Exchanges, NEW s \in ExchangeSymbols, NEW id \in Ids,
             VerifyExchangeSymbol(e, s, id)
      PROVE  UniqueRows'
  <2>1. /\ \A r \in RowIds \ RowsOf(s, e) : symbolTable'[r] = symbolTable[r]
        /\ \A r \in RowsOf(s, e) :
              /\ symbolTable'[r] \in SymbolRow
              /\ symbolTable'[r].symbol = s /\ symbolTable'[r].exchange = e
    BY <1>3, VerifyRows
  <2>2. \A r \in RowsOf(s, e) : symbolTable'[r] # NoRow
    BY <2>1, SymbolRowAssumption
  <2>3. \A r \in RowIds : symbolTable'[r] # NoRow =>
            /\ symbolTable[r] # NoRow
            /\ symbolTable'[r].symbol = symbolTable[r].symbol
            /\ symbolTable'[r].exchange = symbolTable[r].exchange
    BY <2>1, <2>2 DEF RowsOf, RowsIn
  <2>4. QED
    BY <2>3 DEF UniqueRows, UniqueTable
<1>4. QED
  <2>1. ASSUME NEW c \in SymbolClients, SetExchangeSymbolInsert(c) PROVE UniqueRows'
    BY <2>1, <1>1, <1>2 DEF SetExchangeSymbolInsert
  <2>2. QED
    BY <1>1, <1>3, <2>1 DEF SymbolNext, SymbolClientStep, SetExchangeSymbolCheck,
                             allVars, vars, symVars

(***************************************************************************)
(* A step that leaves the table and the last report alone is a stutter of  *)
(* the abstract repository.                                                *)
(***************************************************************************)
LEMMA CatalogStutter ==
    symbolTable' = symbolTable /\ lastVerify' = lastVerify => UNCHANGED ES!esVars
BY DEF EntryOf, ES!esVars

(***************************************************************************)
(* The insert of SetExchangeSymbol, for a key with no row, is the abstract *)
(* Add of that key.                                                        *)
(***************************************************************************)
LEMMA CatalogInsert ==
    ASSUME UniqueSymbolExchange, SymTypes, UniqueRows', NEW c \in SymbolClients,
           symCall[c] \in CallRec,
           RowsOf(symCall[c].symbol, symCall[c].exchange) = {},
           InsertSymbolRow(c), lastVerify' = lastVerify
    PROVE  ES!Add(symCall[c].exchange, symCall[c].symbol)
<1> DEFINE Fresh == [verified |-> FALSE, asset |-> NoRow]
           Keys == Exchanges \X ExchangeSymbols
<1>1. PICK e0 \in Exchanges, s0 \in ExchangeSymbols :
         e0 = symCall[c].exchange /\ s0 = symCall[c].symbol
  BY DEF CallRec
<1>2. PICK nid \in RowIds :
         /\ symbolTable[nid] = NoRow
         /\ symbolTable' = [symbolTable EXCEPT ![nid] =
               [symbol |-> s0, exchange |-> e0, verified |-> FALSE, asset |-> NoRow]]
  BY <1>1 DEF InsertSymbolRow
<1>3. EntryOf[<<e0, s0>>] = NoRow
  BY <1>1, EntryNone DEF EntryOf, RowsOf
<1>4. EntryOfTable(symbolTable')[<<e0, s0>>] = Fresh
  <2>1. symbolTable'[nid] = [symbol |-> s0, exchange |-> e0, verified |-> FALSE,
                             asset |-> NoRow]
    BY <1>2 DEF SymTypes
  <2>2. symbolTable'[nid] # NoRow
    <3>1. symbolTable'[nid] \in SymbolRow
      BY <1>1, <2>1 DEF SymbolRow
    <3>2. QED
      BY <3>1, SymbolRowAssumption
  <2>3. nid \in RowsIn(symbolTable', s0, e0)
    BY <2>1, <2>2 DEF RowsIn
  <2>4. UniqueTable(symbolTable')
    BY DEF UniqueRows
  <2>5. EntryOfTable(symbolTable')[<<e0, s0>>] =
          [verified |-> symbolTable'[nid].verified, asset |-> symbolTable'[nid].asset]
    BY <1>1, <2>3, <2>4, EntryRead
  <2>6. QED
    BY <2>1, <2>5 DEF Fresh
<1>5. ASSUME NEW e \in Exchanges, NEW s \in ExchangeSymbols, <<e, s>> # <<e0, s0>>
      PROVE  EntryOfTable(symbolTable')[<<e, s>>] = EntryOf[<<e, s>>]
  <2>1. RowsIn(symbolTable', s, e) = RowsIn(symbolTable, s, e)
    BY <1>2, <1>5 DEF SymTypes, RowsIn
  <2>2. \A r \in RowsIn(symbolTable, s, e) : symbolTable'[r] = symbolTable[r]
    BY <1>2 DEF SymTypes, RowsIn
  <2>3. QED
    BY <2>1, <2>2, EntryFrame DEF EntryOf
<1>6. EntryOf' = [EntryOf EXCEPT ![<<e0, s0>>] = Fresh]
  <2>1. EntryOf' = [k \in Keys |-> EntryOfTable(symbolTable')[k]]
    BY DEF EntryOf, EntryOfTable
  <2>2. [EntryOf EXCEPT ![<<e0, s0>>] = Fresh] =
          [k \in Keys |-> IF k = <<e0, s0>> THEN Fresh ELSE EntryOf[k]]
    BY DEF EntryOf, EntryOfTable
  <2>3. \A k \in Keys : EntryOfTable(symbolTable')[k] =
                          IF k = <<e0, s0>> THEN Fresh ELSE EntryOf[k]
    BY <1>4, <1>5
  <2>4. QED
    BY <2>1, <2>2, <2>3
<1>7. QED
  BY <1>1, <1>3, <1>6 DEF ES!Add

(***************************************************************************)
(* VerifyExchangeSymbol is the abstract Verify: it changes the entry of    *)
(* its key only, if there is one, and reports whether there is.            *)
(***************************************************************************)
LEMMA CatalogVerify ==
    ASSUME SymTypes, UniqueRows, UniqueRows',
           NEW e \in Exchanges, NEW s \in ExchangeSymbols, NEW id \in Ids,
           VerifyExchangeSymbol(e, s, id)
    PROVE  ES!Verify(e, s, id)
<1> DEFINE rows == RowsOf(s, e)
           Upd == [verified |-> TRUE, asset |-> id]
           Keys == Exchanges \X ExchangeSymbols
<1>1. /\ \A r \in RowIds \ rows : symbolTable'[r] = symbolTable[r]
      /\ \A r \in rows :
            /\ symbolTable'[r] \in SymbolRow
            /\ symbolTable'[r].symbol = s /\ symbolTable'[r].exchange = e
            /\ symbolTable'[r].verified = TRUE /\ symbolTable'[r].asset = id
  BY VerifyRows
<1>2. \A e2 \in Exchanges, s2 \in ExchangeSymbols :
         RowsIn(symbolTable', s2, e2) = RowsIn(symbolTable, s2, e2)
  BY <1>1, SymbolRowAssumption DEF RowsOf, RowsIn
<1>3. lastVerify' = [exchange |-> e, symbol |-> s, assetID |-> id, result |-> rows # {}]
  <2>1. UpdateSucceeded(CommandTag(Cardinality(rows))) <=> rows # {}
    BY ReportIffRows DEF RowsOf, RowsIn
  <2>2. UpdateSucceeded(CommandTag(Cardinality(rows))) \in BOOLEAN
    BY DEF UpdateSucceeded
  <2>3. QED
    BY <2>1, <2>2 DEF VerifyExchangeSymbol
<1>4. CASE rows = {}
  <2>1. symbolTable' = symbolTable
    BY <1>1, <1>4 DEF VerifyExchangeSymbol, SymTypes
  <2>2. EntryOf[<<e, s>>] = NoRow
    BY <1>4, EntryNone DEF EntryOf, RowsOf
  <2>3. EntryOf' = EntryOf
    BY <2>1 DEF EntryOf
  <2>4. QED
    BY <1>3, <1>4, <2>2, <2>3 DEF ES!Verify
<1>5. CASE rows # {}
  <2>1. PICK r0 \in rows : TRUE
    BY <1>5
  <2>2. EntryOf[<<e, s>>] # NoRow
    <3>1. EntryOf[<<e, s>>] = [verified |-> symbolTable[r0].verified,
                               asset |-> symbolTable[r0].asset]
      BY <2>1, EntryRead DEF EntryOf, UniqueRows, RowsOf
    <3>2. symbolTable[r0] \in SymbolRow
      BY <2>1 DEF SymTypes, RowsOf, RowsIn
    <3>3. [verified |-> symbolTable[r0].verified,
           asset |-> symbolTable[r0].asset] \in SymbolEntry
      BY <3>2 DEF SymbolRow, SymbolEntry
    <3>4. QED
      BY <3>1, <3>3, SymbolEntryAssumption
  <2>3. EntryOfTable(symbolTable')[<<e, s>>] = Upd
    <3>1. r0 \in RowsIn(symbolTable', s, e)
      BY <1>2, <2>1 DEF RowsOf
    <3>2. UniqueTable(symbolTable')
      BY DEF UniqueRows
    <3>3. EntryOfTable(symbolTable')[<<e, s>>] =
            [verified |-> symbolTable'[r0].verified, asset |-> symbolTable'[r0].asset]
      BY <3>1, <3>2, EntryRead
    <3>4. QED
      BY <1>1, <2>1, <3>3 DEF Upd
  <2>4. ASSUME NEW e2 \in Exchanges, NEW s2 \in ExchangeSymbols, <<e2, s2>> # <<e, s>>
        PROVE  EntryOfTable(symbolTable')[<<e2, s2>>] = EntryOf[<<e2, s2>>]
    <3>1. \A r \in RowsIn(symbolTable, s2, e2) : symbolTable'[r] = symbolTable[r]
      BY <1>1, <2>4 DEF RowsOf, RowsIn
    <3>2. QED
      BY <1>2, <3>1, EntryFrame DEF EntryOf
  <2>5. EntryOf' = [EntryOf EXCEPT ![<<e, s>>] = Upd]
    <3>1. EntryOf' = [k \in Keys |-> EntryOfTable(symbolTable')[k]]
      BY DEF EntryOf, EntryOfTable
    <3>2. [EntryOf EXCEPT ![<<e, s>>] = Upd] =
            [k \in Keys |-> IF k = <<e, s>> THEN Upd ELSE EntryOf[k]]
      BY DEF EntryOf, EntryOfTable
    <3>3. \A k \in Keys : EntryOfTable(symbolTable')[k] =
                            IF k = <<e, s>> THEN Upd ELSE EntryOf[k]
      BY <2>3, <2>4
    <3>4. QED
      BY <3>1, <3>2, <3>3
  <2>6. QED
    BY <1>3, <1>5, <2>2, <2>5 DEF ES!Verify
<1>6. QED
  BY <1>4, <1>5

(***************************************************************************)
(* Every step of the repository and its callers is a step of the abstract  *)
(* repository or leaves it unchanged.                                      *)
(***************************************************************************)
LEMMA CatalogStep ==
    UniqueSymbolExchange /\ SymTypes /\ UniqueRows /\ UniqueRows' /\ [SymbolNext]_allVars
        => [ES!Next]_ES!esVars
<1> SUFFICES ASSUME UniqueSymbolExchange, SymTypes, UniqueRows, UniqueRows',
                    [SymbolNext]_allVars
             PROVE  [ES!Next]_ES!esVars
  OBVIOUS
<1>1. CASE symbolTable' = symbolTable /\ lastVerify' = lastVerify
  BY <1>1, CatalogStutter
<1>2. ASSUME NEW c \in SymbolClients, SetExchangeSymbolInsert(c)
      PROVE  [ES!Next]_ES!esVars
  <2>1. symCall[c] \in CallRec /\ lastVerify' = lastVerify
    BY <1>2 DEF SetExchangeSymbolInsert, SymTypes
  <2>2. CASE symbolTable' = symbolTable
    BY <2>1, <2>2, CatalogStutter
  <2>3. CASE RowsOf(symCall[c].symbol, symCall[c].exchange) = {} /\ InsertSymbolRow(c)
    <3>1. ES!Add(symCall[c].exchange, symCall[c].symbol)
      BY <2>1, <2>3, CatalogInsert
    <3>2. QED
      BY <2>1, <3>1 DEF ES!Next, CallRec
  <2>4. QED
    BY <1>2, <2>2, <2>3 DEF SetExchangeSymbolInsert
<1>3. ASSUME NEW e \in Exchanges, NEW s \in ExchangeSymbols, NEW id \in Ids,
             VerifyExchangeSymbol(e, s, id)
      PROVE  [ES!Next]_ES!esVars
  BY <1>3, CatalogVerify DEF ES!Next
<1>4. QED
  BY <1>1, <1>2, <1>3 DEF SymbolNext, SymbolClientStep, SetExchangeSymbolCheck,
                          allVars, vars, symVars

(***************************************************************************)
(* With a unique index on (symbol, exchange), the exchangesymbol table as  *)
(* GetExchangeSymbolAssetID reads it, together with what                   *)
(* VerifyExchangeSymbol reports, implements the abstract repository        *)
(* (ExchangeSymbolCatalogSpec, checked by the run exchange_symbol_unique)  *)
(* for any number of concurrent SetExchangeSymbol callers, exchanges,      *)
(* symbols and row ids.                                                    *)
(***************************************************************************)
THEOREM ExchangeSymbolRefinement ==
    ASSUME UniqueSymbolExchange
    PROVE  SymbolSpec => ExchangeSymbolCatalogSpec
<1> DEFINE J == VInv /\ UniqueRows
<1>1. SymbolInit => ES!Init
  BY DEF SymbolInit, ES!Init, ES!Keys, EntryOf, EntryOfTable, RowsIn
<1>2. SymbolInit => J
  BY VInvInit, UniqueRowsInit
<1>3. J /\ [SymbolNext]_allVars => J'
  BY VInvNext, UniqueRowsNext DEF VInv
<1>4. J /\ J' /\ [SymbolNext]_allVars => [ES!Next]_ES!esVars
  BY CatalogStep DEF VInv
<1>5. QED
  BY <1>1, <1>2, <1>3, <1>4, PTL DEF SymbolSpec, ExchangeSymbolCatalogSpec, ES!Spec

=============================================================================
