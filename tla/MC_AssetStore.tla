---------------------------- MODULE MC_AssetStore ----------------------------
(* A small instance of AssetStore: one native token address on two chains  *)
(* (a bridged token), a second address, a chain id and the empty chain id, *)
(* two asset ids, the volume 123.45 and 7 * 10^-7, which %f rounds up to  *)
(* 10^-6, a schema without NOT NULL on assetvolume.asset_id and room for   *)
(* one NULL row.                                                           *)
EXTENDS AssetStore, TLC

MCAddresses == {"0xa1", "0xb2"}
MCChains == {"Ethereum", "Polygon"}
MCSymbols == {"ETH", "MATIC"}
MCNames == {"Ether"}
MCDecimals == {18}
MCGenesisDates == {"2015-07-30"}
MCMechanisms == {"proof-of-stake"}
MCChainIds == {"1", ""}
MCVolumes == {1234500000, 7}

CONSTANTS i1, i2
MCIds == {i1, i2}

(* common.HexToAddress(a).Hex(): the checksummed form of a hex address.  *)
MCHexToAddressHex(a) ==
    CASE a = "0xa1" -> "0xA1"
      [] a = "0xb2" -> "0xB2"
      [] OTHER -> "0x0000000000000000000000000000000000000000"

IdSymmetry == Permutations(MCIds)

=============================================================================
