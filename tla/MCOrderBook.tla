---------------------------- MODULE MCOrderBook ----------------------------
(* Small instance of OrderBook for TLC: every kind of input at each of a few prices.  *)
EXTENDS OrderBook

CONSTANTS MaxPrice, MaxQty

\* Valid orders of every type, and the two kinds processOrder refuses.
MCInputs ==
    [side : Side, type : {"LIMIT"}, price : 1..MaxPrice, qty : 1..MaxQty, who : Parties]
    \union [side : Side, type : {"MARKET", "IOC"}, price : {0}, qty : 1..MaxQty, who : Parties]
    \union [side : {"BID"}, type : {"LIMIT"}, price : {0}, qty : {1}, who : Parties]
    \union [side : {"ASK"}, type : {"MARKET"}, price : {0}, qty : {0}, who : Parties]

OrderSymmetry == Permutations(Orders)
============================================================================
