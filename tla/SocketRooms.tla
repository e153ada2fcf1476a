----------------------------- MODULE SocketRooms -----------------------------
(***************************************************************************)
(* The WebSocket rooms of src/src/services/websocket.service.ts, which one *)
(* Redis subscription feeds, and the price feed, a process of its own that *)
(* publishes to them (price-feed.service.ts).  A message handler of the    *)
(* server has no await, so each is one step.                               *)
(*                                                                         *)
(* A room is a tuple, as in <<"market", m, "user", u>>.                    *)
(***************************************************************************)
EXTENDS Handlers, Sequences

CONSTANTS
    Sockets,        \* connections clients may open
    Topics,         \* the rooms clients ask for
    News,           \* messages other parts of the program publish
    Tick            \* the message of the price feed

VARIABLES
    conn,           \* connections: none, open, lost (the client is gone without a word),
                    \* closing (the close event is due), closed
    silent,         \* pings since the last sign of a client
    rooms,          \* the sockets in each room
    socketToRooms,  \* the rooms of each socket
    bus,            \* messages published and not yet delivered
    seen,           \* history: which socket was sent which message
    feed            \* is the price feed connected

roomVars == <<conn, silent, rooms, socketToRooms, bus, seen, feed>>
busSame == <<bus, seen, feed>>
socketSame == <<conn, silent, rooms, socketToRooms>>

RoomsInit ==
    /\ conn = [s \in Sockets |-> "none"]
    /\ silent = [s \in Sockets |-> 0]
    /\ rooms = [t \in Topics |-> {}]
    /\ socketToRooms = [s \in Sockets |-> {}]
    /\ bus = << >> /\ seen = {} /\ feed = "up"

----------------------------------------------------------------------------
(* Sockets. *)

\* addSocket.
AddSocket(s) ==
    /\ conn[s] = "none" /\ Comes("socket")
    /\ conn' = [conn EXCEPT ![s] = "open"]
    /\ UNCHANGED <<silent, rooms, socketToRooms, busSame, req, faults>>

\* A SUBSCRIBE message.  The filters it may have are dropped.
Subscribe(s) ==
    /\ conn[s] = "open" /\ Comes("subscribe")
    /\ \E t \in Topics :
          /\ rooms' = [rooms EXCEPT ![t] = @ \union {s}]
          /\ socketToRooms' = [socketToRooms EXCEPT ![s] = @ \union {t}]
    /\ UNCHANGED <<conn, silent, busSame, req, faults>>

Unsubscribe(s) ==
    /\ conn[s] = "open" /\ Comes("unsubscribe")
    /\ \E t \in Topics :
          /\ rooms' = [rooms EXCEPT ![t] = @ \ {s}]
          /\ socketToRooms' = [socketToRooms EXCEPT ![s] = @ \ {t}]
    /\ UNCHANGED <<conn, silent, busSame, req, faults>>

\* PING or PONG from the client.
Pong(s) ==
    /\ conn[s] = "open" /\ silent[s] > 0
    /\ silent' = [silent EXCEPT ![s] = 0]
    /\ UNCHANGED <<conn, rooms, socketToRooms, busSame, handlerVars>>

\* Silence is never too long.
Never(n) == {FALSE}

\* elapsed > HEARTBEAT_INTERVAL_MS * 2 at the n-th tick without a sign: for the second and
\* third that depends on when the sign came and how late the timer is.
TooLong(n) == IF n < 2 THEN {FALSE} ELSE IF n < 4 THEN BOOLEAN ELSE {TRUE}

\* The heartbeat timer: terminate, or another ping.
Heartbeat(s) ==
    /\ conn[s] \in {"open", "lost"}
    /\ \/ TRUE \in TooLong(silent[s] + 1)
          /\ conn' = [conn EXCEPT ![s] = "closing"] /\ UNCHANGED silent
       \/ FALSE \in TooLong(silent[s] + 1)
          /\ silent' = [silent EXCEPT ![s] = IF @ < 3 THEN @ + 1 ELSE @] /\ UNCHANGED conn
    /\ UNCHANGED <<rooms, socketToRooms, busSame, handlerVars>>

\* The client closes, or its network goes away.
Leave(s) ==
    /\ conn[s] = "open" /\ Comes("leave")
    /\ conn' \in {[conn EXCEPT ![s] = c] : c \in {"closing", "lost"}}
    /\ UNCHANGED <<silent, rooms, socketToRooms, busSame, req, faults>>

\* A removal that only forgets the socket.
Left(s) == rooms

\* removeSocket: it is in the rooms it knows of.
Emptied(s) == [t \in Topics |-> IF t \in socketToRooms[s] THEN rooms[t] \ {s} ELSE rooms[t]]

\* The close event.
RemoveSocket(s) ==
    /\ conn[s] = "closing"
    /\ conn' = [conn EXCEPT ![s] = "closed"]
    /\ rooms' = Emptied(s)
    /\ socketToRooms' = [socketToRooms EXCEPT ![s] = {}]
    /\ silent' = [silent EXCEPT ![s] = 0]
    /\ UNCHANGED <<busSame, handlerVars>>

----------------------------------------------------------------------------
(* Messages. *)

Market(m) == <<"market", m>>
ScopedTo(msg, field) ==
    IF field \in DOMAIN msg THEN {<<"market", msg.market, field, msg[field]>>} ELSE {}

\* The rooms a message goes to, by its channel: books, trades, payloads, markets, agents.
RoomsOfTrade(msg) ==
    CASE msg.channel = "broadcast" -> {msg.room}
      [] msg.channel \in {"book", "trades", "orderCrePayload"} -> {Market(msg.market)}
      [] msg.channel = "markets" ->
            {Market(msg.market)} \union
            (IF msg.reason \in {"created", "deleted"} THEN {<<"markets">>} ELSE {})
      [] msg.channel = "agents" ->
            {<<"agent", msg.agent>>} \union
            (IF "market" \in DOMAIN msg THEN ScopedTo(msg, "agent") ELSE {})
      [] OTHER -> {}

\* The enhanced channels.
RoomsOfActivity(msg) ==
    CASE msg.channel = "activity" ->
            {Market(msg.market),
             IF "room" \in DOMAIN msg THEN msg.room ELSE <<"market", msg.market, "activity">>}
      [] msg.channel = "positions" ->
            {Market(msg.market)} \union ScopedTo(msg, "user") \union ScopedTo(msg, "agent")
      [] msg.channel = "assets" -> ScopedTo(msg, "user")
      [] msg.channel = "analysis" -> {Market(msg.market), <<"market", msg.market, "ai">>}
      [] msg.channel = "actions" ->
            {Market(msg.market), <<"agent", msg.agent>>} \union ScopedTo(msg, "agent")
      [] OTHER -> {}

\* Pricing: the market, and the user or agent that asked.
RoomsOfPricing(msg) ==
    IF msg.channel = "pricing"
    THEN {Market(msg.market)} \union ScopedTo(msg, "user") \union ScopedTo(msg, "agent")
    ELSE {}

RoomsOf(msg) == RoomsOfTrade(msg) \union RoomsOfActivity(msg) \union RoomsOfPricing(msg)

\* One Redis message comes to the server.  broadcastToLocalRoom skips sockets that are
\* not open; a lost one still looks open.
Deliver ==
    /\ bus # << >>
    /\ bus' = Tail(bus)
    /\ seen' = seen \union
          {<<s, Head(bus)>> : s \in {x \in UNION {rooms[t] : t \in RoomsOf(Head(bus)) \intersect Topics} :
                                        conn[x] \in {"open", "lost"}}}
    /\ UNCHANGED <<socketSame, feed, handlerVars>>

Publish(msg) == bus' = Append(bus, msg)

\* Another part of the program publishes.
Announce ==
    /\ Comes("news")
    /\ \E msg \in News : Publish(msg)
    /\ UNCHANGED <<socketSame, seen, feed, req, faults>>

\* The price feed: a ticker message of Binance, the loss of the connection, the timer
\* that connects again.
BroadcastPrice ==
    /\ feed = "up" /\ Comes("tick")
    /\ Publish(Tick)
    /\ UNCHANGED <<socketSame, seen, feed, req, faults>>

FeedCloses ==
    /\ feed = "up" /\ Fault
    /\ feed' = "down"
    /\ UNCHANGED <<socketSame, bus, seen, req>>

ConnectBinance ==
    /\ feed = "down"
    /\ feed' = "up"
    /\ UNCHANGED <<socketSame, bus, seen, handlerVars>>

----------------------------------------------------------------------------
SocketStep(s) ==
    AddSocket(s) \/ Subscribe(s) \/ Unsubscribe(s) \/ Pong(s) \/ Leave(s)
SocketTimer(s) == Heartbeat(s) \/ RemoveSocket(s)
RoomStep == Announce \/ BroadcastPrice \/ FeedCloses

\* The process ends: every connection with it, and what Redis then delivers is lost.
RoomsStop ==
    /\ conn' = [s \in Sockets |-> IF conn[s] = "none" THEN "none" ELSE "closed"]
    /\ silent' = [s \in Sockets |-> 0]
    /\ rooms' = [t \in Topics |-> {}]
    /\ socketToRooms' = [s \in Sockets |-> {}]
    /\ bus' = << >>
    /\ UNCHANGED <<seen, feed>>

----------------------------------------------------------------------------
RoomsTypeOK ==
    /\ conn \in [Sockets -> {"none", "open", "lost", "closing", "closed"}]
    /\ silent \in [Sockets -> 0..3]
    /\ rooms \in [Topics -> SUBSET Sockets]
    /\ feed \in {"up", "down"}

\* rooms and socketToRooms are two sides of one relation, and only sockets that are
\* connected are in it: none is left in a room when it has gone.
\* (websocket.service.ts:426-461.)
RoomsAgree ==
    \A s \in Sockets :
        /\ socketToRooms[s] = {t \in Topics : s \in rooms[t]}
        /\ conn[s] \in {"none", "closed"} => socketToRooms[s] = {}
=============================================================================
