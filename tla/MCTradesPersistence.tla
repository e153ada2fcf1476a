------------------------ MODULE MCTradesPersistence ------------------------
(* Small instances of TradesPersistence.                                     *)
EXTENDS TradesPersistence

Someone(kind, chain, quote, acct) ==
    [kind |-> kind, chain |-> chain, quote |-> quote, acct |-> acct]

UserA == Someone("user", "main", "none", "A")
SignedA == Someone("user", "main", "full", "A")
UserB == Someone("user", "main", "none", "B")
SimulatedB == Someone("user", "tenderly", "none", "B")
AgentG == Someone("agent", "main", "bare", "G")
SignedG == Someone("agent", "main", "full", "G")
Nobody == Someone("nobody", "main", "none", NoAcct)

MCParties == {UserA, SignedA, UserB, SimulatedB, AgentG, SignedG, Nobody}

Limit(s, p, q, w) == [side |-> s, type |-> "LIMIT", price |-> p, qty |-> q, who |-> w]
Market(s, q, w) == [side |-> s, type |-> "MARKET", price |-> 0, qty |-> q, who |-> w]

\* An agent's ask that takes two bids to fill, bids for it from three accounts
\* and both chains, platform fills, sales of more and of less than was bought,
\* an agent's MARKET order with a whole quote, which the contract fills, and one without,
\* which the route turns away, and an input the engine refuses.
MCInputs ==
    {Limit("ASK", 1, 2, AgentG), Limit("BID", 1, 1, UserA), Limit("BID", 2, 3, UserB),
     Market("BID", 2, Nobody), Market("BID", 2, SimulatedB), Market("ASK", 1, SignedG),
     Market("ASK", 2, UserB), Market("BID", 1, AgentG), Limit("BID", 0, 1, Nobody)}

\* The contract fills users' orders too; the tables tell them apart by their signatures only.
UserInputs == MCInputs \union {Market("ASK", 1, SignedA)}

\* Candles, against what they are to show: the buckets in which something was traded,
\* in order and the latest of them; of each the first and last price, the extremes
\* and the whole notional.
History == INSTANCE Candles

TradeRow == [time : 0..3, price : 1..3, qty : {2}]
SomeTrades == {s \in UNION {[1..n -> TradeRow] : n \in 0..3} :
                  \A i \in 1..(Len(s) - 1) : s[i].time <= s[i + 1].time}

ASSUME CandlesShowTheTrades ==
    \A given \in SomeTrades, limit \in 1..3 :
        LET candles == History!MarketCandles(given, 2, limit)
            In(c) == SelectSeq(given, LAMBDA t : t.time \in c.time..(c.time + 1))
            shown == {c.time : c \in ToSet(candles)}
            traded == {2 * (t.time \div 2) : t \in ToSet(given)}
            paid(c) == {t.price : t \in ToSet(In(c))}
        IN  /\ shown \subseteq traded
            /\ Len(candles) = IF limit < Cardinality(traded) THEN limit ELSE Cardinality(traded)
            /\ \A i \in 2..Len(candles) : candles[i - 1].time < candles[i].time
            /\ \A old \in traded \ shown, new \in shown : old < new
            /\ \A c \in ToSet(candles) :
                  /\ c.open = Head(In(c)).price /\ c.close = In(c)[Len(In(c))].price
                  /\ {c.low, c.high} \subseteq paid(c)
                  /\ \A p \in paid(c) : c.low <= p /\ p <= c.high
                  /\ c.volume = FoldLeft(LAMBDA sum, t : sum + t.price * t.qty, 0, In(c))
=============================================================================
