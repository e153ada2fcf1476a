------------------------------ MODULE MCBackend ------------------------------
(* Small instance of Backend for TLC.                                        *)
EXTENDS Backend

Mixes == {[create |-> 2, createWallet |-> 2, agentKeys |-> 2],
          [createWallet |-> 2, agentKeys |-> 2, walletResult |-> 2, fault |-> 1],
          [agentKeys |-> 2, delete |-> 1, createWallet |-> 1, patch |-> 1, fault |-> 1],
          [sdkRegister |-> 1, claim |-> 2, register |-> 1, agentKeys |-> 1],
          [sdkRegister |-> 1, claim |-> 2, delete |-> 1, fault |-> 1],
          [deposit |-> 2, withdraw |-> 2, fault |-> 1],
          [spend |-> 2],
          [sync |-> 3, money |-> 3],
          [sync |-> 2, money |-> 2, fault |-> 1],
          [due |-> 2, settle |-> 2, resolved |-> 1, patchMarket |-> 1],
          [due |-> 1, settle |-> 1, resolved |-> 2, deleteMarket |-> 1, patchMarket |-> 1, fault |-> 1],
          [market |-> 1, tradeResult |-> 2, fault |-> 1],
          [quote |-> 2, quoteResult |-> 2, fault |-> 1],
          [quote |-> 1, quoteResult |-> 1, socket |-> 1, subscribe |-> 1, leave |-> 1],
          [socket |-> 2, subscribe |-> 2, unsubscribe |-> 1, news |-> 1],
          [socket |-> 1, subscribe |-> 1, tick |-> 1, leave |-> 1, fault |-> 1]}

Found(mix) ==
    LET asks(kind) == kind \in DOMAIN mix
    IN  IF asks("createWallet") \/ asks("agentKeys") \/ asks("sdkRegister")
        THEN {[cre |-> c, agents |-> g] :
                 c \in BOOLEAN, g \in IF asks("create") \/ asks("sdkRegister") THEN {{}} ELSE {{1}}}
        ELSE {[cre |-> TRUE, agents |-> {}]}

Rooms == {<<"market", "m">>, <<"market", "m", "user", "u">>, <<"markets">>,
          <<"market", "m", "agent", "a">>, <<"market", "btc">>}
Messages ==
    {[channel |-> "markets", market |-> "m", reason |-> "created"],
     [channel |-> "trades", market |-> "m"],
     [channel |-> "agents", agent |-> "a", market |-> "m"],
     [channel |-> "assets", market |-> "m", user |-> "u"],
     [channel |-> "activity", market |-> "m"]}
PriceTick == [channel |-> "broadcast", room |-> <<"market", "btc">>]
MarketIds == {"m"}
UserIds == {"u"}
Arrays == {<<1, 0>>, <<0, 0>>, <<1, 0, 0>>}
=============================================================================
