----------------------------- MODULE AssetCatalog -----------------------------
(***************************************************************************)
(* What the asset repository promises its callers (spec sections 3 and     *)
(* 4.1): a catalog of assets keyed by (address, blockchain), each created  *)
(* once and never changed, and a lookup that returns the asset stored      *)
(* under the key asked for, "not found" when there is none, or a          *)
(* transport error.  Caches are not visible at this level.                 *)
(***************************************************************************)
CONSTANTS
    Assets,      \* the asset values
    Addresses,   \* address strings
    Chains,      \* blockchain names
    NoRow,       \* not found
    DbError      \* a transport error

VARIABLES
    catalog,     \* the asset stored under each (address, blockchain), or NoRow
    lastGet      \* arguments and result of the latest lookup

catalogVars == <<catalog, lastGet>>

Init ==
    /\ catalog = [k \in Addresses \X Chains |-> NoRow]
    /\ lastGet = NoRow

(***************************************************************************)
(* Creating an asset under a free key.                                     *)
(***************************************************************************)
Create(asset) ==
    /\ catalog[<<asset.address, asset.blockchain>>] = NoRow
    /\ catalog' = [catalog EXCEPT ![<<asset.address, asset.blockchain>>] = asset]
    /\ UNCHANGED lastGet

(***************************************************************************)
(* Looking up (address, blockchain).                                       *)
(***************************************************************************)
Lookup(address, blockchain) ==
    /\ \E r \in {catalog[<<address, blockchain>>], DbError} :
          lastGet' = [address |-> address, blockchain |-> blockchain, result |-> r]
    /\ UNCHANGED catalog

Next ==
    \/ \E asset \in Assets : Create(asset)
    \/ \E a \in Addresses, c \in Chains : Lookup(a, c)

Spec == Init /\ [][Next]_catalogVars

=============================================================================
