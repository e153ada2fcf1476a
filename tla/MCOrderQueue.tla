---------------------------- MODULE MCOrderQueue ----------------------------
(* Small instance of OrderQueue: inputs that rest, cross, sweep and fail.    *)
EXTENDS OrderQueue

CONSTANT NotANumber

Limit(s, p, q) == [side |-> s, type |-> "LIMIT", price |-> p, qty |-> q, who |-> "anyone"]
Market(s, q) == [side |-> s, type |-> "MARKET", price |-> 0, qty |-> q, who |-> "anyone"]

\* An ask to trade with, a bid that crosses it, MARKET orders of both sides
\* (the platform sells to a BID only), and an input the engine refuses.
MCInputs == {Limit("ASK", 1, 1), Limit("BID", 1, 2), Market("BID", 2),
             Market("ASK", 1), Limit("BID", 0, 1)}

\* A quantity that is no number.
MCMalformed == {[Limit("ASK", 1, 1) EXCEPT !.qty = NotANumber]}
=============================================================================
