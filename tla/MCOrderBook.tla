----------------------------- MODULE MCOrderBook -----------------------------
(***************************************************************************)
(* Small sets of orders for module OrderBook.                             *)
(***************************************************************************)
EXTENDS OrderBook

CONSTANTS
    MCPrices,           \* limit prices
    MCSizes,            \* sizes
    MCFunds,            \* funds of market buys
    LimitTIFs,          \* per id: times in force of limit orders
    MarketTIFs          \* per id: times in force of market orders

LimitOf(i) ==
    {[id |-> i, side |-> s, type |-> "limit", tif |-> t, price |-> p, size |-> n,
      funds |-> n * p] :
        s \in Sides, t \in LimitTIFs[i], p \in MCPrices, n \in MCSizes}

MarketSellOf(i) ==
    {[id |-> i, side |-> "sell", type |-> "market", tif |-> t, price |-> 0, size |-> n,
      funds |-> 0] : t \in MarketTIFs[i], n \in MCSizes}

MarketBuyOf(i) ==
    {[id |-> i, side |-> "buy", type |-> "market", tif |-> t, price |-> 0, size |-> 0,
      funds |-> f] : t \in MarketTIFs[i], f \in MCFunds}

MCOrders == UNION {LimitOf(i) \cup MarketSellOf(i) \cup MarketBuyOf(i) : i \in Ids}

\* Every time in force, each for an id that may come second or third in its
\* window and so can meet two orders.
EveryLimitTIF ==
    [i \in Ids |-> CASE i = 1 -> {"GTC"}
                     [] i = 3 -> {"GTC", "GTX", "FOK"}
                     [] OTHER -> {"GTC", "IOC"}]
EveryMarketTIF ==
    [i \in Ids |-> CASE i = 1 -> {}
                     [] i = 3 -> {"GTC", "other"}
                     [] OTHER -> {"GTC"}]

GtxLimitTIF == [i \in Ids |-> {"GTC", "GTX"}]
NoMarketTIF == [i \in Ids |-> {}]
=============================================================================
