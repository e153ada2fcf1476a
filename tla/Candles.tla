------------------------------ MODULE Candles ------------------------------
(***************************************************************************)
(* services/candles.service.ts: the price history that GET                 *)
(* /api/markets/:id/candles computes from the Trade rows of a market, or   *)
(* of one outcome.  Rows and prices are numbers here, not decimals.        *)
(***************************************************************************)
EXTENDS Naturals, Sequences, SequencesExt, TLC

\* bucketTs: the start of the bucket of this length.
BucketTs(t, step) == (t.time \div step) * step

Opened(t, time) ==
    [time |-> time, open |-> t.price, high |-> t.price, low |-> t.price, close |-> t.price,
     volume |-> t.price * t.qty]

Joined(c, t) ==
    [c EXCEPT !.high = IF t.price > @ THEN t.price ELSE @,
              !.low = IF t.price < @ THEN t.price ELSE @,
              !.close = t.price,
              !.volume = @ + t.price * t.qty]

\* The Map, filled trade by trade.
Buckets(trades, step) ==
    FoldLeft(LAMBDA buckets, t :
                 LET key == BucketTs(t, step)
                 IN  IF key \in DOMAIN buckets
                     THEN [buckets EXCEPT ![key] = Joined(@, t)]
                     ELSE (key :> Opened(t, key)) @@ buckets,
             [time \in {} |-> 0], trades)

\* Sorted, and the last of them.
Latest(buckets, limit) ==
    LET sorted == SetToSortSeq(DOMAIN buckets, <)
        from == IF limit >= Len(sorted) THEN 0 ELSE Len(sorted) - limit
    IN  [i \in 1..(Len(sorted) - from) |-> buckets[sorted[from + i]]]

\* getMarketCandles of rows in the order of their creation.
MarketCandles(trades, step, limit) == Latest(Buckets(trades, step), limit)
=============================================================================
