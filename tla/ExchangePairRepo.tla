--------------------------- MODULE ExchangePairRepo ---------------------------
(***************************************************************************)
(* The exchange-pair repository of pkg/model/assets.go: the postgres table *)
(* exchangepair, the redis pair cache, and SetExchangePair, which runs up  *)
(* to five statements and a cache write one after the other with no        *)
(* transaction.  Each caller (a scraper goroutine or process) is a client  *)
(* with a program counter; its steps interleave with the other clients'    *)
(* and with the asset repository's operations, which it calls into.        *)
(***************************************************************************)
EXTENDS AssetRepo

CONSTANTS
    Exchanges,      \* exchange names
    Pairs,          \* the dia.ExchangePair values callers pass
    Clients         \* concurrent callers of SetExchangePair

(***************************************************************************)
(* A token of a pair is a dia.Asset; NoRow stands for the zero dia.Asset,  *)
(* for which GetAssetID finds no row.                                      *)
(***************************************************************************)
TokenVal == AssetVal \cup {NoRow}

PairVal == [symbol : STRING, foreignname : STRING, verified : BOOLEAN,
            base : TokenVal, quote : TokenVal]

ASSUME ExchangePairAssumption == Pairs \subseteq PairVal

ForeignNames == {p.foreignname : p \in Pairs}

(***************************************************************************)
(* A row of table exchangepair; a link is an asset_id or NULL (NoRow).     *)
(***************************************************************************)
PairRow == [symbol : STRING, foreignname : STRING, exchange : Exchanges,
            verified : BOOLEAN, base : Ids \cup {NoRow}, quote : Ids \cup {NoRow}]

Call == [exchange : Exchanges, pair : Pairs, cache : BOOLEAN]

PC == {"idle", "resolveBase", "resolveQuote", "updateBase", "updateQuote",
       "updateVerified", "cachePair"}

VARIABLES
    pairTable,   \* the rows of table exchangepair
    pairCache,   \* redis entries keyExchangePairCache + exchange + "_" + foreignname
    pc,          \* where each client is in SetExchangePair
    call,        \* the arguments of each client's current call
    baseId,      \* basetokenID of each client's current call
    quoteId      \* quotetokenID of each client's current call

pairVars == <<pairTable, pairCache, pc, call, baseId, quoteId>>
allVars == <<assetTable, memo, redisAsset, lastGet,
             pairTable, pairCache, pc, call, baseId, quoteId>>

PairTypeOK ==
    /\ TypeOK
    /\ pairTable \subseteq PairRow
    /\ pairCache \in [Exchanges \X ForeignNames -> Pairs \cup {NoRow}]
    /\ pc \in [Clients -> PC]
    /\ call \in [Clients -> Call \cup {NoRow}]
    /\ baseId \in [Clients -> Ids \cup {NoRow}]
    /\ quoteId \in [Clients -> Ids \cup {NoRow}]

(***************************************************************************)
(* What rdb.GetAssetID(token) may hand back to SetExchangePair: the id of  *)
(* the row with the token's address and blockchain, or "" (NoRow) when     *)
(* there is none or the query fails; the error is only logged.             *)
(***************************************************************************)
TokenIds(token) ==
    IF token = NoRow THEN {} ELSE MatchingIds(token.address, token.blockchain)

ResolvedIds(token) == {NoRow} \cup TokenIds(token)

(***************************************************************************)
(* "update exchangepair set <field>=... where foreignname=F and exchange=E"*)
(* changes every row with that foreign name and exchange, whatever its     *)
(* symbol.                                                                 *)
(***************************************************************************)
Addressed(r, e, f) == r.exchange = e /\ r.foreignname = f

UpdateRows(e, f, field, value) ==
    {IF Addressed(r, e, f) THEN [r EXCEPT ![field] = value] ELSE r : r \in pairTable}

PairInit ==
    /\ Init
    /\ pairTable = {}
    /\ pairCache = [k \in Exchanges \X ForeignNames |-> NoRow]
    /\ pc = [c \in Clients |-> "idle"]
    /\ call = [c \in Clients |-> NoRow]
    /\ baseId = [c \in Clients |-> NoRow]
    /\ quoteId = [c \in Clients |-> NoRow]

(***************************************************************************)
(* Returning from SetExchangePair, with nil or with an error.              *)
(***************************************************************************)
Return(c) ==
    /\ pc' = [pc EXCEPT ![c] = "idle"]
    /\ call' = [call EXCEPT ![c] = NoRow]
    /\ baseId' = [baseId EXCEPT ![c] = NoRow]
    /\ quoteId' = [quoteId EXCEPT ![c] = NoRow]

Goto(c, label) == pc' = [pc EXCEPT ![c] = label]

(***************************************************************************)
(* The first statement: insert (symbol, foreignname, exchange) unless that *)
(* triple is already there.  A failed insert returns its error at once.    *)
(***************************************************************************)
InsertPair(c, e, p, cache) ==
    /\ pc[c] = "idle"
    /\ pairTable' = pairTable \cup
          IF \E r \in pairTable : Addressed(r, e, p.foreignname) /\ r.symbol = p.symbol
          THEN {}
          ELSE {[symbol |-> p.symbol, foreignname |-> p.foreignname,
                 exchange |-> e, verified |-> FALSE,
                 base |-> NoRow, quote |-> NoRow]}
    /\ Goto(c, "resolveBase")
    /\ call' = [call EXCEPT ![c] = [exchange |-> e, pair |-> p, cache |-> cache]]
    /\ UNCHANGED <<pairCache, baseId, quoteId>>

(***************************************************************************)
(* ResolveBaseFromQuote is ResolveBase looking up the quote token.         *)
(***************************************************************************)
ResolveBaseFromQuote(c) ==
    /\ pc[c] = "resolveBase"
    /\ \E id \in ResolvedIds(call[c].pair.quote) :
          baseId' = [baseId EXCEPT ![c] = id]
    /\ Goto(c, "resolveQuote")
    /\ UNCHANGED <<pairTable, pairCache, call, quoteId>>

ResolveBase(c) ==
    /\ pc[c] = "resolveBase"
    /\ \E id \in ResolvedIds(call[c].pair.base) :
          baseId' = [baseId EXCEPT ![c] = id]
    /\ Goto(c, "resolveQuote")
    /\ UNCHANGED <<pairTable, pairCache, call, quoteId>>

ResolveQuote(c) ==
    /\ pc[c] = "resolveQuote"
    /\ \E id \in ResolvedIds(call[c].pair.quote) :
          quoteId' = [quoteId EXCEPT ![c] = id]
    /\ Goto(c, "updateBase")
    /\ UNCHANGED <<pairTable, pairCache, call, baseId>>

(***************************************************************************)
(* A link update runs only when the id was found; a failed update returns  *)
(* its error and leaves the remaining statements undone.                   *)
(***************************************************************************)
UpdateLink(c, field, id, label, next) ==
    /\ pc[c] = label
    /\ \/ /\ id = NoRow
          /\ Goto(c, next)
          /\ UNCHANGED <<pairTable, call, baseId, quoteId>>
       \/ /\ id # NoRow
          /\ pairTable' = UpdateRows(call[c].exchange, call[c].pair.foreignname,
                                     field, id)
          /\ Goto(c, next)
          /\ UNCHANGED <<call, baseId, quoteId>>
       \/ /\ id # NoRow
          /\ Return(c)
          /\ UNCHANGED pairTable
    /\ UNCHANGED pairCache

UpdateBase(c) == UpdateLink(c, "base", baseId[c], "updateBase", "updateQuote")

UpdateQuote(c) == UpdateLink(c, "quote", quoteId[c], "updateQuote", "updateVerified")

UpdateVerified(c) ==
    /\ pc[c] = "updateVerified"
    /\ \/ /\ pairTable' = UpdateRows(call[c].exchange, call[c].pair.foreignname,
                                     "verified", call[c].pair.verified)
          /\ IF call[c].cache THEN /\ Goto(c, "cachePair")
                                   /\ UNCHANGED <<call, baseId, quoteId>>
                              ELSE Return(c)
       \/ /\ Return(c)
          /\ UNCHANGED pairTable
    /\ UNCHANGED pairCache

(***************************************************************************)
(* SetExchangePairCache(exchange, pair) writes the pair under              *)
(* keyExchangePairCache + exchange + "_" + pair.ForeignName;               *)
(* GetExchangePairCache reads that key (NoRow: redis.Nil).                 *)
(***************************************************************************)
SetExchangePairCache(e, p) == pairCache' = [pairCache EXCEPT ![<<e, p.foreignname>>] = p]

GetExchangePairCache(e, f) == pairCache[<<e, f>>]

(***************************************************************************)
(* The last step of SetExchangePair: a failed redis Set is logged and      *)
(* SetExchangePair still returns nil.                                      *)
(***************************************************************************)
CachePair(c) ==
    /\ pc[c] = "cachePair"
    /\ \/ SetExchangePairCache(call[c].exchange, call[c].pair)
       \/ UNCHANGED pairCache
    /\ Return(c)
    /\ UNCHANGED pairTable

ClientStep(c) ==
    \/ \E e \in Exchanges, p \in Pairs, cache \in BOOLEAN : InsertPair(c, e, p, cache)
    \/ ResolveBase(c) \/ ResolveQuote(c)
    \/ UpdateBase(c) \/ UpdateQuote(c) \/ UpdateVerified(c)
    \/ CachePair(c)

(***************************************************************************)
(* A caller of the exported SetExchangePairCache outside SetExchangePair:  *)
(* the pair goes to redis whatever table exchangepair holds (a failed Set  *)
(* changes nothing).                                                       *)
(***************************************************************************)
CacheExchangePair(e, p) ==
    /\ SetExchangePairCache(e, p)
    /\ UNCHANGED <<vars, pairTable, pc, call, baseId, quoteId>>

(***************************************************************************)
(* The pair repository meets the asset repository only through table      *)
(* asset: SetAsset interleaves with the clients; the memo map and the      *)
(* redis asset cache play no part here and stay unchanged.                 *)
(* WriteThroughNext leaves out the direct cache writes: the pairs in redis *)
(* are those SetExchangePair wrote through.                               *)
(***************************************************************************)
WriteThroughNext ==
    \/ \E asset \in AssetVal : SetAsset(asset) /\ UNCHANGED pairVars
    \/ \E c \in Clients : ClientStep(c) /\ UNCHANGED vars

PairNext ==
    \/ WriteThroughNext
    \/ \E e \in Exchanges, p \in Pairs : CacheExchangePair(e, p)

PairSpec == PairInit /\ [][PairNext]_allVars

-----------------------------------------------------------------------------
(***************************************************************************)
(* GetExchangePair(e, f): QueryRow on (exchange, foreignname) yields one   *)
(* of the matching rows; each non-NULL link is turned into the asset by    *)
(* GetAssetByID, a NULL link into the zero asset.  The set of values the   *)
(* call may return (a failed GetAssetByID makes it return an error).       *)
(***************************************************************************)
LinkedAsset(link) == IF link = NoRow THEN NoRow ELSE GetAssetByID(link)

GetExchangePairResults(e, f) ==
    {[symbol |-> r.symbol, verified |-> r.verified,
      base |-> LinkedAsset(r.base), quote |-> LinkedAsset(r.quote)] :
         r \in {row \in pairTable : Addressed(row, e, f)}}

Quiescent == \A c \in Clients : pc[c] = "idle"

-----------------------------------------------------------------------------
(***************************************************************************)
(* Each link in table exchangepair is the asset_id of a row of table asset *)
(* whose address and blockchain are those of the token, in the same role   *)
(* (base or quote), of a pair submitted under the row's foreign name; so   *)
(* GetExchangePair's GetAssetByID finds the link, and returns a base token *)
(* as the base.  SetExchangePair looks each id up with GetAssetID and      *)
(* writes it statements later, with other callers and SetAsset running in  *)
(* between, into every row under that foreign name.                       *)
(***************************************************************************)
LinkNamesToken(link, f, role) ==
    link # NoRow => \E p \in Pairs : p.foreignname = f /\ link \in TokenIds(p[role])

LinksNameSubmittedTokens ==
    \A r \in pairTable, role \in {"base", "quote"} :
        LinkNamesToken(r[role], r.foreignname, role)

(***************************************************************************)
(* When no SetExchangePair is running, GetExchangePair(e, f) agrees with   *)
(* GetExchangePairCache(e, f): same symbol and verified flag, and each     *)
(* linked token is the token the cached pair names (a link may be absent   *)
(* when that token has no asset row).                                      *)
(***************************************************************************)
SameToken(linked, cached) ==
    linked = NoRow \/
    (cached # NoRow /\ linked.address = cached.address
                    /\ linked.blockchain = cached.blockchain)

PairCacheMatchesTable ==
    Quiescent =>
      \A e \in Exchanges, f \in ForeignNames :
        LET cached == GetExchangePairCache(e, f) IN
        cached # NoRow =>
        \A res \in GetExchangePairResults(e, f) :
            /\ res.symbol = cached.symbol
            /\ res.verified = cached.verified
            /\ SameToken(res.base, cached.base)
            /\ SameToken(res.quote, cached.quote)

=============================================================================
