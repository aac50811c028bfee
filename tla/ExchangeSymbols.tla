---------------------------- MODULE ExchangeSymbols ----------------------------
(***************************************************************************)
(* What the exchange-symbol repository promises (spec section 4.3): at     *)
(* most one entry per (exchange, symbol), created unverified by            *)
(* SetExchangeSymbol when there is none; VerifyExchangeSymbol marks the    *)
(* entry verified with an asset id, reports whether there was an entry,    *)
(* and touches no other entry.                                             *)
(***************************************************************************)
CONSTANTS
    Exchanges,         \* exchange names
    ExchangeSymbols,   \* symbol strings an exchange reports
    Ids,               \* asset ids a symbol can be mapped to
    NoRow              \* no entry; no verification yet

VARIABLES
    entry,        \* the entry for each <<exchange, symbol>>, or NoRow
    lastVerify    \* arguments and report of the latest verification, or NoRow

esVars == <<entry, lastVerify>>

Keys == Exchanges \X ExchangeSymbols

Init ==
    /\ entry = [k \in Keys |-> NoRow]
    /\ lastVerify = NoRow

(***************************************************************************)
(* Registering (e, s) when it has no entry.                                *)
(***************************************************************************)
Add(e, s) ==
    /\ entry[<<e, s>>] = NoRow
    /\ entry' = [entry EXCEPT ![<<e, s>>] = [verified |-> FALSE, asset |-> NoRow]]
    /\ UNCHANGED lastVerify

(***************************************************************************)
(* Verifying (e, s) as asset id: the entry, if any, becomes verified with  *)
(* id, and the report says whether there was one.                          *)
(***************************************************************************)
Verify(e, s, id) ==
    /\ entry' = IF entry[<<e, s>>] = NoRow THEN entry
                ELSE [entry EXCEPT ![<<e, s>>] = [verified |-> TRUE, asset |-> id]]
    /\ lastVerify' = [exchange |-> e, symbol |-> s, assetID |-> id,
                      result |-> entry[<<e, s>>] # NoRow]

Next ==
    \/ \E e \in Exchanges, s \in ExchangeSymbols : Add(e, s)
    \/ \E e \in Exchanges, s \in ExchangeSymbols, id \in Ids : Verify(e, s, id)

Spec == Init /\ [][Next]_esVars

=============================================================================
