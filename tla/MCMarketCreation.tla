-------------------------- MODULE MCMarketCreation --------------------------
(* Small instance of MarketCreation for TLC.                                 *)
EXTENDS MarketCreation

\* The shares of the agents are all that was asked for, but for three markets
\* without a third agent, of which two are asked for.
ASSUME SharesAddUp ==
    \A count \in 0..60 :
        LET s == Shares(count)
        IN  s[1] + s[2] + s[3] = IF count = 3 /\ ~OpenWebUi THEN 2 ELSE count
=============================================================================
