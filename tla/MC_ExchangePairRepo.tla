------------------------- MODULE MC_ExchangePairRepo -------------------------
(* Two tokens on one chain and three calls a pair scraper makes for the     *)
(* foreign name "BTC-USDT" on one exchange: the pair with both tokens and   *)
(* verified, the same pair re-submitted without its base token and          *)
(* unverified, and the pair under a new symbol with the tokens swapped.     *)
(* With one caller and direct cache writes left out, the cache run         *)
(* looks at what SetExchangePair itself writes through.                    *)
EXTENDS ExchangePairRepo, TLC

MCAddresses == {"0xa1", "0xb2"}
MCChains == {"Ethereum"}
MCSymbols == {"WBTC"}
MCNames == {"Wrapped BTC"}
MCDecimals == {8}

CONSTANTS i1, i2, c1, c2
MCIds == {i1, i2}
MCClients == {c1, c2}
MCOneClient == {c1}

TokenA == [symbol |-> "WBTC", name |-> "Wrapped BTC", address |-> "0xa1",
           decimals |-> 8, blockchain |-> "Ethereum"]
TokenB == [TokenA EXCEPT !.address = "0xb2"]

MCExchanges == {"Binance"}
MCPairs ==
    { [symbol |-> "BTC", foreignname |-> "BTC-USDT", verified |-> TRUE,
       base |-> TokenA, quote |-> TokenB],
      [symbol |-> "BTC", foreignname |-> "BTC-USDT", verified |-> FALSE,
       base |-> NoRow, quote |-> TokenB],
      [symbol |-> "XBT", foreignname |-> "BTC-USDT", verified |-> FALSE,
       base |-> TokenB, quote |-> TokenA] }

(* The same calls with the roles of the tokens kept: a base token is      *)
(* never a quote, so a link written to the wrong column shows.            *)
MCRolePairs ==
    { [symbol |-> "BTC", foreignname |-> "BTC-USDT", verified |-> TRUE,
       base |-> TokenA, quote |-> TokenB],
      [symbol |-> "BTC", foreignname |-> "BTC-USDT", verified |-> FALSE,
       base |-> NoRow, quote |-> TokenB],
      [symbol |-> "XBT", foreignname |-> "BTC-USDT", verified |-> FALSE,
       base |-> TokenA, quote |-> TokenB] }

Symmetry == {p @@ q : p \in Permutations(MCIds), q \in Permutations(MCClients)}

(* common.HexToAddress(a).Hex(): the checksummed form of a hex address.  *)
MCHexToAddressHex(a) ==
    CASE a = "0xa1" -> "0xA1"
      [] a = "0xb2" -> "0xB2"
      [] OTHER -> "0x0000000000000000000000000000000000000000"


=============================================================================
