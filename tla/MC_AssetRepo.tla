---------------------------- MODULE MC_AssetRepo ----------------------------
(* A small instance of AssetRepo: one token on two chains at the same       *)
(* address, as bridged tokens are, and a second address; decimals 0 and 8   *)
(* (0 is a legal value, not "unset"); three asset ids.                      *)
EXTENDS AssetRepo, TLC

MCAddresses == {"0xa1", "0xb2"}
MCChains == {"Ethereum", "Polygon"}
(* Names that contain the separator "_" of the memo key: the address    *)
(* "0xa1" on chain "Bsc_Testnet" and the address "0xa1_Bsc" on chain     *)
(* "Testnet" both have the key "GetAsset_0xa1_Bsc_Testnet".              *)
MCAddressesUnderscore == {"0xa1", "0xa1_Bsc"}
MCChainsUnderscore == {"Bsc_Testnet", "Testnet"}
MCSymbols == {"WBTC"}
MCNames == {"Wrapped BTC"}
MCDecimals == {0, 8}

CONSTANTS i1, i2, i3
MCIds == {i1, i2, i3}

(* common.HexToAddress(a).Hex(): the EIP-55 checksummed form of a hex     *)
(* address; a string that is not hex (a Solana address) decodes to the    *)
(* zero address.  "0xA1" is the checksummed form of "0xa1".              *)
MCHexToAddressHex(a) ==
    CASE a \in {"0xa1", "0xA1"} -> "0xA1"
      [] a = "0xb2" -> "0xB2"
      [] OTHER -> "0x0000000000000000000000000000000000000000"

(* A checksummed EVM address and a Solana address.                      *)
MCAddressesMixed == {"0xA1", "So11111111111111111111111111111111111111112"}
MCChainsMixed == {"Ethereum", "Solana"}

IdSymmetry == Permutations(MCIds)
=============================================================================
