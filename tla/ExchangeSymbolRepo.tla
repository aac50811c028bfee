-------------------------- MODULE ExchangeSymbolRepo --------------------------
(***************************************************************************)
(* The exchange-symbol repository of pkg/model/assets.go: the postgres     *)
(* table exchangesymbol, written by SetExchangeSymbol and                  *)
(* VerifyExchangeSymbol and read by GetExchangeSymbolAssetID.              *)
(*                                                                         *)
(* SetExchangeSymbol is one statement, "insert ... select $1,$2 where not  *)
(* exists (select 1 ... where symbol=$1 and exchange=$2)".  Under          *)
(* postgres' default isolation the NOT EXISTS test reads the statement's   *)
(* snapshot, which does not show rows other sessions insert meanwhile, so  *)
(* the statement is two steps: the test, then the insert.  Whether the     *)
(* table has a unique index on (symbol, exchange) is a property of the     *)
(* schema, which is not part of this code; it is the constant              *)
(* UniqueSymbolExchange.  With the index, the second of two racing inserts *)
(* fails with a unique violation.                                          *)
(***************************************************************************)
EXTENDS AssetRepo, FiniteSets

CONSTANTS
    Exchanges,              \* exchange names
    ExchangeSymbols,        \* symbol strings an exchange reports
    RowIds,                 \* exchangesymbol_id values postgres may generate
    SymbolClients,          \* concurrent callers of SetExchangeSymbol
    UniqueSymbolExchange    \* the schema has UNIQUE (symbol, exchange)

ASSUME ExchangeSymbolAssumption ==
    /\ UniqueSymbolExchange \in BOOLEAN
    /\ IsFiniteSet(RowIds)

SymbolRow == [symbol : ExchangeSymbols, exchange : Exchanges,
              verified : BOOLEAN, asset : Ids \cup {NoRow}]

ASSUME SymbolRowAssumption == NoRow \notin SymbolRow

(***************************************************************************)
(* What GetExchangeSymbolAssetID reads: (asset_id or "", verified).  The   *)
(* error ErrNoRows is not such a pair.                                     *)
(***************************************************************************)
SymbolEntry == [verified : BOOLEAN, asset : Ids \cup {NoRow}]

ASSUME SymbolEntryAssumption == NoRow \notin SymbolEntry

VARIABLES
    symbolTable,   \* table exchangesymbol, keyed by its row id
    symPc,         \* where each caller is in SetExchangeSymbol
    symCall,       \* each caller's arguments and the NOT EXISTS outcome
    symDupError,   \* some SetExchangeSymbol returned a unique violation
    lastVerify     \* arguments and result of the latest VerifyExchangeSymbol

symVars == <<symbolTable, symPc, symCall, symDupError, lastVerify>>
allVars == <<assetTable, memo, redisAsset, lastGet,
             symbolTable, symPc, symCall, symDupError, lastVerify>>

VerifyResult == [exchange : Exchanges, symbol : ExchangeSymbols,
                 assetID : Ids, result : BOOLEAN]

SymbolTypeOK ==
    /\ TypeOK
    /\ symbolTable \in [RowIds -> SymbolRow \cup {NoRow}]
    /\ symPc \in [SymbolClients -> {"idle", "insert"}]
    /\ symCall \in [SymbolClients ->
                      [exchange : Exchanges, symbol : ExchangeSymbols,
                       exists : BOOLEAN] \cup {NoRow}]
    /\ symDupError \in BOOLEAN
    /\ lastVerify \in VerifyResult \cup {NoRow}

(***************************************************************************)
(* The rows "where symbol=$1 and exchange=$2" selects.                     *)
(***************************************************************************)
RowsIn(t, s, e) ==
    {id \in RowIds : /\ t[id] # NoRow
                     /\ t[id].symbol = s
                     /\ t[id].exchange = e}

RowsOf(s, e) == RowsIn(symbolTable, s, e)

SymbolInit ==
    /\ Init
    /\ symbolTable = [id \in RowIds |-> NoRow]
    /\ symPc = [c \in SymbolClients |-> "idle"]
    /\ symCall = [c \in SymbolClients |-> NoRow]
    /\ symDupError = FALSE
    /\ lastVerify = NoRow

(***************************************************************************)
(* SetExchangeSymbol(exchange, symbol), first half: the NOT EXISTS test    *)
(* on the statement's snapshot.                                            *)
(***************************************************************************)
SetExchangeSymbolCheck(c, e, s) ==
    /\ symPc[c] = "idle"
    /\ symPc' = [symPc EXCEPT ![c] = "insert"]
    /\ symCall' = [symCall EXCEPT ![c] = [exchange |-> e, symbol |-> s,
                                          exists |-> RowsOf(s, e) # {}]]
    /\ UNCHANGED <<symbolTable, symDupError, lastVerify>>

(***************************************************************************)
(* Second half: insert a fresh unverified row if the test found none.  The *)
(* unique index, when there is one, rejects a row that another session     *)
(* inserted after the snapshot, and the call returns that error.  A plain  *)
(* insert without the NOT EXISTS test is SetExchangeSymbolPlainInsert.     *)
(***************************************************************************)
InsertSymbolRow(c) ==
    \E id \in RowIds :
        /\ symbolTable[id] = NoRow
        /\ symbolTable' = [symbolTable EXCEPT ![id] =
              [symbol |-> symCall[c].symbol, exchange |-> symCall[c].exchange,
               verified |-> FALSE, asset |-> NoRow]]

SetExchangeSymbolPlainInsert(c) ==
    /\ symPc[c] = "insert"
    /\ \/ /\ UniqueSymbolExchange
          /\ RowsOf(symCall[c].symbol, symCall[c].exchange) # {}
          /\ symDupError' = TRUE
          /\ UNCHANGED symbolTable
       \/ /\ ~UniqueSymbolExchange \/ RowsOf(symCall[c].symbol, symCall[c].exchange) = {}
          /\ InsertSymbolRow(c)
          /\ UNCHANGED symDupError
    /\ symPc' = [symPc EXCEPT ![c] = "idle"]
    /\ symCall' = [symCall EXCEPT ![c] = NoRow]
    /\ UNCHANGED lastVerify

SetExchangeSymbolInsert(c) ==
    /\ symPc[c] = "insert"
    /\ \/ /\ symCall[c].exists
          /\ UNCHANGED <<symbolTable, symDupError>>
       \/ /\ ~symCall[c].exists
          /\ UniqueSymbolExchange
          /\ RowsOf(symCall[c].symbol, symCall[c].exchange) # {}
          /\ symDupError' = TRUE
          /\ UNCHANGED symbolTable
       \/ /\ ~symCall[c].exists
          /\ ~UniqueSymbolExchange \/ RowsOf(symCall[c].symbol, symCall[c].exchange) = {}
          /\ InsertSymbolRow(c)
          /\ UNCHANGED symDupError
    /\ symPc' = [symPc EXCEPT ![c] = "idle"]
    /\ symCall' = [symCall EXCEPT ![c] = NoRow]
    /\ UNCHANGED lastVerify

(***************************************************************************)
(* VerifyExchangeSymbol reads the count n out of the command tag           *)
(* "UPDATE n" as strings.Split(tag, " ")[1] and reports success when it is *)
(* not "0".  The tag as the list of its space-separated words:             *)
(***************************************************************************)
NumeralOf(n) == IF n = 0 THEN "0" ELSE "n>0"

CommandTag(n) == <<"UPDATE", NumeralOf(n)>>

UpdateSucceededFirstWord(tag) == tag[1] # "0"

UpdateSucceeded(tag) == tag[2] # "0"

(***************************************************************************)
(* VerifyExchangeSymbol(exchange, symbol, assetID): one update setting     *)
(* verified=true and asset_id on every row of (symbol, exchange).  A       *)
(* failed update returns (false, err) and changes nothing.                 *)
(***************************************************************************)
VerifyExchangeSymbol(e, s, id) ==
    LET rows == RowsOf(s, e) IN
    /\ symbolTable' = [r \in RowIds |->
                         IF r \in rows
                         THEN [symbolTable[r] EXCEPT !.verified = TRUE, !.asset = id]
                         ELSE symbolTable[r]]
    /\ lastVerify' = [exchange |-> e, symbol |-> s, assetID |-> id,
                      result |-> UpdateSucceeded(CommandTag(Cardinality(rows)))]
    /\ UNCHANGED <<symPc, symCall, symDupError>>

(***************************************************************************)
(* Read operations.  GetExchangeSymbolAssetID is a QueryRow: it yields one *)
(* of the matching rows, as (asset_id or "", verified), or ErrNoRows.      *)
(***************************************************************************)
GetExchangeSymbolAssetIDResults(e, s) ==
    IF RowsOf(s, e) = {} THEN {NoRow}
    ELSE {[assetID |-> symbolTable[r].asset, verified |-> symbolTable[r].verified] :
              r \in RowsOf(s, e)}

SymbolClientStep(c) ==
    \/ \E e \in Exchanges, s \in ExchangeSymbols : SetExchangeSymbolCheck(c, e, s)
    \/ SetExchangeSymbolInsert(c)

SymbolNext ==
    \/ \E asset \in AssetVal : SetAsset(asset) /\ UNCHANGED symVars
    \/ \E c \in SymbolClients : SymbolClientStep(c) /\ UNCHANGED vars
    \/ \E e \in Exchanges, s \in ExchangeSymbols, id \in Ids :
          VerifyExchangeSymbol(e, s, id) /\ UNCHANGED vars

SymbolSpec == SymbolInit /\ [][SymbolNext]_allVars

-----------------------------------------------------------------------------
(***************************************************************************)
(* After VerifyExchangeSymbol(e, s, id) reports success,                   *)
(* GetExchangeSymbolAssetID(e, s) returns (id, true) whichever row it      *)
(* reads; after it reports failure, it returns no verified row.  The       *)
(* report is parsed out of the command tag, and the read sees rows that    *)
(* SetExchangeSymbol calls insert afterwards.                              *)
(***************************************************************************)
VerifyThenRead ==
    lastVerify # NoRow =>
        LET results == GetExchangeSymbolAssetIDResults(lastVerify.exchange,
                                                       lastVerify.symbol)
        IN  /\ lastVerify.result =>
                 results = {[assetID |-> lastVerify.assetID, verified |-> TRUE]}
            /\ ~lastVerify.result =>
                 \A res \in results : res = NoRow \/ ~res.verified

(***************************************************************************)
(* SetExchangeSymbol is idempotent: however calls for the same (exchange,  *)
(* symbol) interleave, the table holds at most one row for it, and no call *)
(* fails because the row is already there.                                *)
(***************************************************************************)
SetExchangeSymbolIdempotent ==
    /\ \A e \in Exchanges, s \in ExchangeSymbols : Cardinality(RowsOf(s, e)) <= 1
    /\ ~symDupError

-----------------------------------------------------------------------------
(***************************************************************************)
(* The same read with the arguments bound in the order of the function's   *)
(* signature, (exchange, symbol), to "where symbol=$1 and exchange=$2".    *)
(***************************************************************************)
EntryOfTableSwapped(t) ==
    [k \in Exchanges \X ExchangeSymbols |->
        IF RowsIn(t, k[1], k[2]) = {} THEN NoRow
        ELSE [verified |-> t[CHOOSE r \in RowsIn(t, k[1], k[2]) : TRUE].verified,
              asset |-> t[CHOOSE r \in RowsIn(t, k[1], k[2]) : TRUE].asset]]

(***************************************************************************)
(* What GetExchangeSymbolAssetID(e, s) reads out of a table t: nothing, or *)
(* the verified flag and asset id of the row its QueryRow returns.         *)
(***************************************************************************)
EntryOfTable(t) ==
    [k \in Exchanges \X ExchangeSymbols |->
        IF RowsIn(t, k[2], k[1]) = {} THEN NoRow
        ELSE [verified |-> t[CHOOSE r \in RowsIn(t, k[2], k[1]) : TRUE].verified,
              asset |-> t[CHOOSE r \in RowsIn(t, k[2], k[1]) : TRUE].asset]]

EntryOf == EntryOfTable(symbolTable)

ES == INSTANCE ExchangeSymbols WITH entry <- EntryOf

(***************************************************************************)
(* The table, as GetExchangeSymbolAssetID reads it, together with what     *)
(* VerifyExchangeSymbol reports, behaves as the abstract repository: a     *)
(* SetExchangeSymbol adds an unverified entry only where there is none, a  *)
(* VerifyExchangeSymbol changes only its own entry and reports true        *)
(* exactly when it had one, and nothing else changes an entry.             *)
(***************************************************************************)
ExchangeSymbolCatalogSpec == ES!Spec

=============================================================================
