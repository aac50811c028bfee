------------------------ MODULE MC_ExchangeSymbolRepo ------------------------
(* One exchange reporting two symbols, two assets that verification can     *)
(* point to, three row ids (room for a duplicate row), and one or two       *)
(* concurrent callers of SetExchangeSymbol.                                 *)
EXTENDS ExchangeSymbolRepo, TLC

MCAddresses == {"0xa1", "0xb2"}
MCChains == {"Ethereum"}
MCSymbols == {"WBTC"}
MCNames == {"Wrapped BTC"}
MCDecimals == {8}
MCExchanges == {"Binance"}
MCExchangeSymbols == {"BTC", "ETH"}

CONSTANTS i1, i2, r1, r2, r3, c1, c2
MCIds == {i1, i2}
MCRowIds == {r1, r2, r3}
MCOneClient == {c1}
MCTwoClients == {c1, c2}

Symmetry == {p @@ q : p \in Permutations(MCIds), q \in Permutations(MCRowIds)}

(* common.HexToAddress(a).Hex(): the checksummed form of a hex address.  *)
MCHexToAddressHex(a) ==
    CASE a = "0xa1" -> "0xA1"
      [] a = "0xb2" -> "0xB2"
      [] OTHER -> "0x0000000000000000000000000000000000000000"


=============================================================================
