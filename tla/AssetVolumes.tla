----------------------------- MODULE AssetVolumes -----------------------------
(***************************************************************************)
(* What the asset and volume repositories promise together (spec sections  *)
(* 3, 4.5 and property 8): a catalog of assets keyed by (address,         *)
(* blockchain), each created once and never changed, and for each          *)
(* catalogued asset the latest 24h volume, kept to six decimals.  Only the *)
(* latest volume is retained; a volume is never visible for a key with no *)
(* asset, and a volume given for an asset that does not exist yet is not  *)
(* visible once it does.                                                   *)
(***************************************************************************)
EXTENDS Naturals

CONSTANTS
    Assets,      \* the asset values
    Addresses,   \* address strings
    Chains,      \* blockchain names
    Volumes,     \* volumes, in units of 10^-7
    NoRow        \* no asset, no volume

VARIABLES
    catalog,     \* the asset stored under each (address, blockchain), or NoRow
    volume       \* the 24h volume readable for each (address, blockchain), or NoRow

avVars == <<catalog, volume>>

(***************************************************************************)
(* A volume kept to six decimals, rounded to nearest: units of 10^-6.     *)
(***************************************************************************)
SixDecimals(v) == ((v + 5) \div 10) * 10

Init ==
    /\ catalog = [k \in Addresses \X Chains |-> NoRow]
    /\ volume = [k \in Addresses \X Chains |-> NoRow]

(***************************************************************************)
(* Creating an asset under a free key; it has no volume yet.               *)
(***************************************************************************)
Create(asset) ==
    /\ catalog[<<asset.address, asset.blockchain>>] = NoRow
    /\ catalog' = [catalog EXCEPT ![<<asset.address, asset.blockchain>>] = asset]
    /\ UNCHANGED volume

(***************************************************************************)
(* Recording the 24h volume of a catalogued asset, replacing the previous  *)
(* one.                                                                    *)
(***************************************************************************)
SetVolume(asset, v) ==
    /\ catalog[<<asset.address, asset.blockchain>>] # NoRow
    /\ volume' = [volume EXCEPT ![<<asset.address, asset.blockchain>>] = SixDecimals(v)]
    /\ UNCHANGED catalog

Next ==
    \/ \E asset \in Assets : Create(asset)
    \/ \E asset \in Assets, v \in Volumes : SetVolume(asset, v)

Spec == Init /\ [][Next]_avVars

=============================================================================
