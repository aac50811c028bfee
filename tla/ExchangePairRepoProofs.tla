----------------------- MODULE ExchangePairRepoProofs -----------------------
(***************************************************************************)
(* Proof that every link of table exchangepair names a token submitted in  *)
(* that role under that foreign name, for any number of concurrent         *)
(* SetExchangePair callers, direct cache writers and SetAsset calls, and   *)
(* any failures of their statements.  The inductive invariant adds what a  *)
(* caller holds between its GetAssetID lookups and its updates: each id it *)
(* has found is the id of a row with its token's address and blockchain.   *)
(* That fact survives the steps of the others because rows of table asset  *)
(* are never deleted or changed, so a found id stays a matching id.        *)
(***************************************************************************)
EXTENDS ExchangePairRepo, TLAPS

Roles == {"base", "quote"}

RowFields == {"symbol", "foreignname", "exchange", "verified", "base", "quote"}

(***************************************************************************)
(* The types the argument uses.                                            *)
(***************************************************************************)
Types ==
    /\ assetTable \in [Ids -> AssetVal \cup {NoRow}]
    /\ pc \in [Clients -> PC]
    /\ call \in [Clients -> Call \cup {NoRow}]
    /\ baseId \in [Clients -> Ids \cup {NoRow}]
    /\ quoteId \in [Clients -> Ids \cup {NoRow}]

(***************************************************************************)
(* A caller inside SetExchangePair has its arguments; an idle one holds no *)
(* ids; an id a caller holds matches its token.                            *)
(***************************************************************************)
ClientOK(c) ==
    /\ pc[c] # "idle" => call[c] \in Call
    /\ pc[c] = "idle" => baseId[c] = NoRow /\ quoteId[c] = NoRow
    /\ baseId[c] # NoRow => baseId[c] \in TokenIds(call[c].pair.base)
    /\ quoteId[c] # NoRow => quoteId[c] \in TokenIds(call[c].pair.quote)

TableOK ==
    /\ \A r \in pairTable : DOMAIN r = RowFields
    /\ LinksNameSubmittedTokens

LInv == Types /\ (\A c \in Clients : ClientOK(c)) /\ TableOK

(***************************************************************************)
(* SetAsset only fills an empty asset_id, so an id that matched a token    *)
(* still matches it.                                                       *)
(***************************************************************************)
LEMMA TokenIdsGrow ==
    ASSUME assetTable \in [Ids -> AssetVal \cup {NoRow}],
           NEW asset \in AssetVal, SetAsset(asset)
    PROVE  \A t, id : id \in TokenIds(t) => id \in TokenIds(t)'
<1> TAKE t, id
<1> HAVE id \in TokenIds(t)
<1>1. PICK id0 \in Ids : assetTable[id0] = NoRow
                         /\ assetTable' = [assetTable EXCEPT ![id0] = asset]
  BY DEF SetAsset
<1>2. id \in Ids /\ assetTable[id] # NoRow /\ t # NoRow
  BY DEF TokenIds, MatchingIds
<1>3. assetTable'[id] = assetTable[id]
  BY <1>1, <1>2
<1> QED
  BY <1>2, <1>3 DEF TokenIds, MatchingIds

(***************************************************************************)
(* The ids matching a token depend on table asset alone.                   *)
(***************************************************************************)
LEMMA TokenIdsUnchanged ==
    ASSUME UNCHANGED vars
    PROVE  \A t : TokenIds(t)' = TokenIds(t)
BY DEF vars, TokenIds, MatchingIds

(***************************************************************************)
(* An update of the rows under (e, f) keeps every row's fields, and keeps  *)
(* every link naming a submitted token when the value it writes into a     *)
(* link column does.                                                       *)
(***************************************************************************)
LEMMA UpdateRowsLinks ==
    ASSUME NEW e, NEW f, NEW field \in {"base", "quote", "verified"}, NEW value,
           TableOK,
           field \in Roles => LinkNamesToken(value, f, field)
    PROVE  \A r \in UpdateRows(e, f, field, value) :
               /\ DOMAIN r = RowFields
               /\ \A role \in Roles : LinkNamesToken(r[role], r.foreignname, role)
<1> TAKE r \in UpdateRows(e, f, field, value)
<1>1. PICK r0 \in pairTable :
          r = IF Addressed(r0, e, f) THEN [r0 EXCEPT ![field] = value] ELSE r0
  BY DEF UpdateRows
<1>2. DOMAIN r0 = RowFields
      /\ \A role \in Roles : LinkNamesToken(r0[role], r0.foreignname, role)
  BY DEF TableOK, LinksNameSubmittedTokens, Roles
<1>3. CASE ~Addressed(r0, e, f)
  BY <1>1, <1>2, <1>3
<1>4. CASE Addressed(r0, e, f)
  <2>1. r = [r0 EXCEPT ![field] = value]
    BY <1>1, <1>4
  <2>2. DOMAIN r = RowFields /\ r.foreignname = r0.foreignname /\ r0.foreignname = f
    BY <1>2, <1>4, <2>1 DEF Addressed, RowFields
  <2>3. ASSUME NEW role \in Roles PROVE LinkNamesToken(r[role], r.foreignname, role)
    <3>1. CASE role = field
      BY <2>1, <2>2, <3>1, <1>2 DEF Roles, RowFields
    <3>2. CASE role # field
      <4>1. r[role] = r0[role]
        BY <1>2, <2>1, <3>2 DEF Roles, RowFields
      <4> QED
        BY <1>2, <2>2, <4>1
    <3> QED
      BY <3>1, <3>2
  <2> QED
    BY <2>2, <2>3
<1> QED
  BY <1>3, <1>4

LEMMA LInvInit == PairInit => LInv
BY DEF PairInit, Init, LInv, Types, ClientOK, TableOK, LinksNameSubmittedTokens, PC

(***************************************************************************)
(* A step of caller c that leaves table asset and the other callers alone  *)
(* keeps the invariant when it keeps the types, the table and c's own part.*)
(***************************************************************************)
LEMMA ClientFrame ==
    ASSUME LInv, NEW c \in Clients, UNCHANGED vars, Types', TableOK', ClientOK(c)',
           \A d \in Clients \ {c} : /\ pc'[d] = pc[d] /\ call'[d] = call[d]
                                   /\ baseId'[d] = baseId[d] /\ quoteId'[d] = quoteId[d]
    PROVE  LInv'
<1>1. \A d \in Clients \ {c} : ClientOK(d)'
  <2> TAKE d \in Clients \ {c}
  <2>1. ClientOK(d)
    BY DEF LInv
  <2>2. /\ TokenIds(call[d].pair.base)' = TokenIds(call[d].pair.base)
        /\ TokenIds(call[d].pair.quote)' = TokenIds(call[d].pair.quote)
    BY TokenIdsUnchanged
  <2> QED
    BY <2>1, <2>2 DEF ClientOK
<1> QED
  BY <1>1 DEF LInv

(***************************************************************************)
(* Returning from SetExchangePair leaves the caller idle with no ids.     *)
(***************************************************************************)
LEMMA ReturnFrame ==
    ASSUME LInv, NEW c \in Clients, Return(c)
    PROVE  /\ ClientOK(c)'
           /\ \A d \in Clients \ {c} : /\ pc'[d] = pc[d] /\ call'[d] = call[d]
                                      /\ baseId'[d] = baseId[d] /\ quoteId'[d] = quoteId[d]
           /\ pc' \in [Clients -> PC] /\ call' \in [Clients -> Call \cup {NoRow}]
           /\ baseId' \in [Clients -> Ids \cup {NoRow}]
           /\ quoteId' \in [Clients -> Ids \cup {NoRow}]
BY DEF Return, LInv, Types, ClientOK, PC

(***************************************************************************)
(* The table part holds after a step that keeps table asset and either     *)
(* keeps table exchangepair or leaves it with rows of the right shape.     *)
(***************************************************************************)
LEMMA TableKept ==
    ASSUME UNCHANGED vars, TableOK, UNCHANGED pairTable
    PROVE  TableOK'
<1>1. \A t : TokenIds(t)' = TokenIds(t)
  BY TokenIdsUnchanged
<1> QED
  BY <1>1 DEF TableOK, LinksNameSubmittedTokens, LinkNamesToken

LEMMA TableRewritten ==
    ASSUME UNCHANGED vars,
           \A r \in pairTable' :
               /\ DOMAIN r = RowFields
               /\ \A role \in Roles : LinkNamesToken(r[role], r.foreignname, role)
    PROVE  TableOK'
<1>1. \A t : TokenIds(t)' = TokenIds(t)
  BY TokenIdsUnchanged
<1> QED
  BY <1>1 DEF TableOK, LinksNameSubmittedTokens, LinkNamesToken, Roles

(***************************************************************************)
(* A caller that moves from one label inside SetExchangePair to another,   *)
(* keeping its arguments and ids, keeps its part.                         *)
(***************************************************************************)
LEMMA ClientKept ==
    ASSUME UNCHANGED vars, NEW c, ClientOK(c), pc[c] # "idle", pc'[c] # "idle",
           call'[c] = call[c], baseId'[c] = baseId[c], quoteId'[c] = quoteId[c]
    PROVE  ClientOK(c)'
<1>1. \A t : TokenIds(t)' = TokenIds(t)
  BY TokenIdsUnchanged
<1> QED
  BY <1>1 DEF ClientOK

(***************************************************************************)
(* The link updates: skipped for a NULL id, applied, or failed and         *)
(* returned from.                                                          *)
(***************************************************************************)
LEMMA UpdateBaseStep ==
    ASSUME LInv, NEW c \in Clients, UpdateBase(c), UNCHANGED vars
    PROVE  LInv'
<1>1. /\ call[c] \in Call /\ pc[c] = "updateBase" /\ ClientOK(c)
      /\ (baseId[c] # NoRow => baseId[c] \in TokenIds(call[c].pair.base))
  BY DEF UpdateBase, UpdateLink, LInv, ClientOK
<1>2. \A d \in Clients \ {c} : /\ pc'[d] = pc[d] /\ call'[d] = call[d]
                               /\ baseId'[d] = baseId[d] /\ quoteId'[d] = quoteId[d]
  BY DEF UpdateBase, UpdateLink, Goto, Return, LInv, Types
<1>3. CASE Goto(c, "updateQuote") /\ UNCHANGED <<call, baseId, quoteId>>
  <2>1. Types'
    BY <1>3 DEF Goto, LInv, Types, PC, vars
  <2>2. ClientOK(c)'
    BY <1>1, <1>3, ClientKept DEF Goto, LInv, Types
  <2>3. TableOK'
    <3>1. CASE UNCHANGED pairTable
      BY <3>1, TableKept DEF LInv
    <3>2. CASE /\ pairTable' = UpdateRows(call[c].exchange, call[c].pair.foreignname,
                                           "base", baseId[c])
               /\ baseId[c] # NoRow
      <4>1. LinkNamesToken(baseId[c], call[c].pair.foreignname, "base")
        BY <1>1, <3>2 DEF LinkNamesToken, Call
      <4>2. \A r \in pairTable' :
                /\ DOMAIN r = RowFields
                /\ \A role \in Roles : LinkNamesToken(r[role], r.foreignname, role)
        BY <3>2, <4>1, UpdateRowsLinks DEF LInv, Roles
      <4> QED
        BY <4>2, TableRewritten
    <3> QED
      BY <1>3, <3>1, <3>2 DEF UpdateBase, UpdateLink, Goto
  <2> QED
    BY <1>2, <2>1, <2>2, <2>3, ClientFrame
<1>4. CASE Return(c) /\ UNCHANGED pairTable
  <2>1. Types'
    BY <1>4, ReturnFrame DEF LInv, Types, vars
  <2>2. TableOK'
    BY <1>4, TableKept DEF LInv
  <2> QED
    BY <1>4, <2>1, <2>2, ReturnFrame, ClientFrame
<1> QED
  BY <1>3, <1>4 DEF UpdateBase, UpdateLink

LEMMA UpdateQuoteStep ==
    ASSUME LInv, NEW c \in Clients, UpdateQuote(c), UNCHANGED vars
    PROVE  LInv'
<1>1. /\ call[c] \in Call /\ pc[c] = "updateQuote" /\ ClientOK(c)
      /\ (quoteId[c] # NoRow => quoteId[c] \in TokenIds(call[c].pair.quote))
  BY DEF UpdateQuote, UpdateLink, LInv, ClientOK
<1>2. \A d \in Clients \ {c} : /\ pc'[d] = pc[d] /\ call'[d] = call[d]
                               /\ baseId'[d] = baseId[d] /\ quoteId'[d] = quoteId[d]
  BY DEF UpdateQuote, UpdateLink, Goto, Return, LInv, Types
<1>3. CASE Goto(c, "updateVerified") /\ UNCHANGED <<call, baseId, quoteId>>
  <2>1. Types'
    BY <1>3 DEF Goto, LInv, Types, PC, vars
  <2>2. ClientOK(c)'
    BY <1>1, <1>3, ClientKept DEF Goto, LInv, Types
  <2>3. TableOK'
    <3>1. CASE UNCHANGED pairTable
      BY <3>1, TableKept DEF LInv
    <3>2. CASE /\ pairTable' = UpdateRows(call[c].exchange, call[c].pair.foreignname,
                                           "quote", quoteId[c])
               /\ quoteId[c] # NoRow
      <4>1. LinkNamesToken(quoteId[c], call[c].pair.foreignname, "quote")
        BY <1>1, <3>2 DEF LinkNamesToken, Call
      <4>2. \A r \in pairTable' :
                /\ DOMAIN r = RowFields
                /\ \A role \in Roles : LinkNamesToken(r[role], r.foreignname, role)
        BY <3>2, <4>1, UpdateRowsLinks DEF LInv, Roles
      <4> QED
        BY <4>2, TableRewritten
    <3> QED
      BY <1>3, <3>1, <3>2 DEF UpdateQuote, UpdateLink, Goto
  <2> QED
    BY <1>2, <2>1, <2>2, <2>3, ClientFrame
<1>4. CASE Return(c) /\ UNCHANGED pairTable
  <2>1. Types'
    BY <1>4, ReturnFrame DEF LInv, Types, vars
  <2>2. TableOK'
    BY <1>4, TableKept DEF LInv
  <2> QED
    BY <1>4, <2>1, <2>2, ReturnFrame, ClientFrame
<1> QED
  BY <1>3, <1>4 DEF UpdateQuote, UpdateLink

(***************************************************************************)
(* Every other caller keeps its label, arguments and ids.                 *)
(***************************************************************************)
OthersKept(c) ==
    \A d \in Clients \ {c} : /\ pc'[d] = pc[d] /\ call'[d] = call[d]
                             /\ baseId'[d] = baseId[d] /\ quoteId'[d] = quoteId[d]

LEMMA InsertPairStep ==
    ASSUME LInv, NEW c \in Clients, NEW e \in Exchanges, NEW p \in Pairs,
           NEW cache \in BOOLEAN, InsertPair(c, e, p, cache), UNCHANGED vars
    PROVE  LInv'
<1> DEFINE newRow == [symbol |-> p.symbol, foreignname |-> p.foreignname,
                      exchange |-> e, verified |-> FALSE,
                      base |-> NoRow, quote |-> NoRow]
<1>1. pairTable' \subseteq pairTable \cup {newRow}
  BY DEF InsertPair
<1>2. DOMAIN newRow = RowFields /\ newRow.base = NoRow /\ newRow.quote = NoRow
  BY DEF RowFields
<1>3. \A r \in pairTable' :
          /\ DOMAIN r = RowFields
          /\ \A role \in Roles : LinkNamesToken(r[role], r.foreignname, role)
  BY <1>1, <1>2 DEF LInv, TableOK, LinksNameSubmittedTokens, LinkNamesToken, Roles
<1>4. TableOK'
  BY <1>3, TableRewritten
<1>5. Types' /\ OthersKept(c)
  BY DEF InsertPair, Goto, LInv, Types, OthersKept, PC, Call, vars
<1>6. baseId[c] = NoRow /\ quoteId[c] = NoRow
  BY DEF InsertPair, LInv, ClientOK
<1>7. ClientOK(c)'
  BY <1>6 DEF InsertPair, Goto, LInv, Types, ClientOK, Call
<1> QED
  BY <1>4, <1>5, <1>7, ClientFrame DEF OthersKept

LEMMA ResolveStep ==
    ASSUME LInv, NEW c \in Clients, ResolveBase(c) \/ ResolveQuote(c), UNCHANGED vars
    PROVE  LInv'
<1>1. call[c] \in Call /\ ClientOK(c)
  BY DEF ResolveBase, ResolveQuote, LInv, ClientOK
<1>2. \A t : TokenIds(t)' = TokenIds(t)
  BY TokenIdsUnchanged
<1>3. \A t : TokenIds(t) \subseteq Ids
  BY DEF TokenIds, MatchingIds
<1>4. Types' /\ OthersKept(c)
  BY <1>3 DEF ResolveBase, ResolveQuote, ResolvedIds, Goto, LInv, Types,
              OthersKept, PC, vars
<1>5. ClientOK(c)'
  BY <1>1, <1>2 DEF ResolveBase, ResolveQuote, ResolvedIds, Goto, LInv, Types,
                    ClientOK
<1>6. TableOK'
  BY TableKept DEF ResolveBase, ResolveQuote, LInv
<1> QED
  BY <1>4, <1>5, <1>6, ClientFrame DEF OthersKept

LEMMA UpdateVerifiedStep ==
    ASSUME LInv, NEW c \in Clients, UpdateVerified(c), UNCHANGED vars
    PROVE  LInv'
<1>1. call[c] \in Call /\ pc[c] = "updateVerified" /\ ClientOK(c)
  BY DEF UpdateVerified, LInv, ClientOK
<1>2. TableOK'
  <2>1. CASE UNCHANGED pairTable
    BY <2>1, TableKept DEF LInv
  <2>2. CASE pairTable' = UpdateRows(call[c].exchange, call[c].pair.foreignname,
                                     "verified", call[c].pair.verified)
    <3>1. \A r \in pairTable' :
              /\ DOMAIN r = RowFields
              /\ \A role \in Roles : LinkNamesToken(r[role], r.foreignname, role)
      BY <2>2, UpdateRowsLinks DEF LInv, Roles
    <3> QED
      BY <3>1, TableRewritten
  <2> QED
    BY <2>1, <2>2 DEF UpdateVerified
<1>3. CASE Goto(c, "cachePair") /\ UNCHANGED <<call, baseId, quoteId>>
  <2>1. Types' /\ OthersKept(c)
    BY <1>3 DEF Goto, LInv, Types, OthersKept, PC, vars
  <2>2. ClientOK(c)'
    BY <1>1, <1>3, ClientKept DEF Goto, LInv, Types
  <2> QED
    BY <1>2, <2>1, <2>2, ClientFrame DEF OthersKept
<1>4. CASE Return(c)
  BY <1>2, <1>4, ReturnFrame, ClientFrame DEF LInv, Types, vars
<1> QED
  BY <1>3, <1>4 DEF UpdateVerified

LEMMA CachePairStep ==
    ASSUME LInv, NEW c \in Clients, CachePair(c), UNCHANGED vars
    PROVE  LInv'
<1>1. TableOK'
  BY TableKept DEF CachePair, LInv
<1> QED
  BY <1>1, ReturnFrame, ClientFrame DEF CachePair, LInv, Types, vars

LEMMA SetAssetStep ==
    ASSUME LInv, NEW asset \in AssetVal, SetAsset(asset), UNCHANGED pairVars
    PROVE  LInv'
<1>1. \A t, id : id \in TokenIds(t) => id \in TokenIds(t)'
  BY TokenIdsGrow DEF LInv, Types
<1>2. Types'
  BY DEF SetAsset, LInv, Types, pairVars
<1>3. \A c \in Clients : ClientOK(c)'
  BY <1>1 DEF LInv, ClientOK, pairVars
<1>4. TableOK'
  BY <1>1 DEF LInv, TableOK, LinksNameSubmittedTokens, LinkNamesToken, pairVars
<1> QED
  BY <1>2, <1>3, <1>4 DEF LInv

LEMMA LInvNext == LInv /\ [PairNext]_allVars => LInv'
<1> SUFFICES ASSUME LInv, [PairNext]_allVars PROVE LInv'
  OBVIOUS
<1>1. CASE \E asset \in AssetVal : SetAsset(asset) /\ UNCHANGED pairVars
  BY <1>1, SetAssetStep
<1>2. ASSUME NEW c \in Clients, ClientStep(c), UNCHANGED vars PROVE LInv'
  <2>1. CASE \E e \in Exchanges, p \in Pairs, cache \in BOOLEAN : InsertPair(c, e, p, cache)
    BY <1>2, <2>1, InsertPairStep
  <2>2. CASE ResolveBase(c) \/ ResolveQuote(c)
    BY <1>2, <2>2, ResolveStep
  <2>3. CASE UpdateBase(c)
    BY <1>2, <2>3, UpdateBaseStep
  <2>4. CASE UpdateQuote(c)
    BY <1>2, <2>4, UpdateQuoteStep
  <2>5. CASE UpdateVerified(c)
    BY <1>2, <2>5, UpdateVerifiedStep
  <2>6. CASE CachePair(c)
    BY <1>2, <2>6, CachePairStep
  <2> QED
    BY <1>2, <2>1, <2>2, <2>3, <2>4, <2>5, <2>6 DEF ClientStep
<1>3. ASSUME NEW e \in Exchanges, NEW p \in Pairs, CacheExchangePair(e, p)
      PROVE  LInv'
  <2>1. UNCHANGED vars /\ UNCHANGED <<pairTable, pc, call, baseId, quoteId>>
    BY <1>3 DEF CacheExchangePair
  <2>2. \A t : TokenIds(t)' = TokenIds(t)
    BY <2>1, TokenIdsUnchanged
  <2> QED
    BY <2>1, <2>2 DEF LInv, Types, ClientOK, TableOK, LinksNameSubmittedTokens,
                      LinkNamesToken, vars
<1>4. CASE UNCHANGED allVars
  <2>1. \A t : TokenIds(t)' = TokenIds(t)
    BY <1>4, TokenIdsUnchanged DEF allVars, vars
  <2> QED
    BY <1>4, <2>1 DEF allVars, LInv, Types, ClientOK, TableOK,
                      LinksNameSubmittedTokens, LinkNamesToken
<1> QED
  BY <1>1, <1>2, <1>3, <1>4 DEF PairNext, WriteThroughNext

(***************************************************************************)
(* Every link GetExchangePair follows is the asset_id of a row of table    *)
(* asset carrying the address and blockchain of the token that a pair      *)
(* submitted under the row's foreign name gives in that role, whatever the *)
(* interleaving of SetExchangePair callers, direct SetExchangePairCache    *)
(* calls and SetAsset, and whichever statements fail: the property the run *)
(* exchange_pair checks with two callers.                                  *)
(***************************************************************************)
THEOREM LinksNameSubmittedTokensInvariant == PairSpec => []LinksNameSubmittedTokens
<1>1. LInv => LinksNameSubmittedTokens
  BY DEF LInv, TableOK
<1> QED
  BY <1>1, LInvInit, LInvNext, PTL DEF PairSpec

=============================================================================
