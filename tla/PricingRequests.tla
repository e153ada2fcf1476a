--------------------------- MODULE PricingRequests ---------------------------
(***************************************************************************)
(* Quotes of LMSR prices by CRE: POST and GET /api/markets/:id/pricing     *)
(* (src/src/routes/markets.routes.ts), the table of pending requests and   *)
(* its timers (services/cre-lmsr-pricing.service.ts), and CRE's callback   *)
(* (cre-callback.routes.ts), whose answer goes to the rooms.               *)
(***************************************************************************)
EXTENDS SocketRooms

CONSTANTS
    Quotes,         \* request ids
    QuoteMarkets,   \* the markets asked about
    QuoteUsers,     \* the users who ask
    NoUser          \* nobody signed in

VARIABLES
    pending,        \* pendingRequests
    sent            \* the requests CRE has received: id -> what it has to give back

pricingVars == <<pending, sent>>

PricingInit == pending = {} /\ sent = << >>

\* POST or GET pricing: the market is read; a new id.
RequestPricing(r) ==
    LET used == {req[q].id : q \in InFlight("quote")} \union DOMAIN sent
    IN  /\ Arrive(r, "quote")
        /\ Quotes \ used # {}
        /\ \E m \in QuoteMarkets, u \in QuoteUsers \union {NoUser} :
              Become(r, [kind |-> "quote", at |-> "fetch", id |-> CHOOSE id \in Quotes \ used : TRUE,
                         market |-> m, user |-> u])
        /\ UNCHANGED <<pricingVars, roomVars, faults>>

\* The request reaches CRE, or its gateway refuses it.
FetchQuote(r) ==
    LET x == req[r]
    IN  /\ At(r, "quote", "fetch")
        /\ \/ sent' = [id \in DOMAIN sent \union {x.id} |->
                           IF id = x.id THEN [market |-> x.market, user |-> x.user] ELSE sent[id]]
              /\ Goto(r, "track")
           \/ Answer(r) /\ UNCHANGED sent
        /\ UNCHANGED <<pending, roomVars, traffic, faults>>

\* The response is there: the request becomes pending, with a timer.
TrackQuote(r) ==
    /\ At(r, "quote", "track")
    /\ pending' = pending \union {req[r].id}
    /\ Answer(r)
    /\ UNCHANGED <<sent, roomVars, traffic, faults>>

\* An entry without a timer.
Untimed == {}

\* Every entry got one.
Timed == pending

\* 30 s are over.
QuoteTimer ==
    /\ \E id \in Timed : pending' = pending \ {id}
    /\ UNCHANGED <<sent, roomVars, handlerVars>>

\* POST /api/cre/lmsr-pricing: CRE answers what it has received, also before its
\* response to the request is there, and may repeat itself.  The entry goes.
PricingCallback(r) ==
    /\ Arrive(r, "quoteResult")
    /\ \E id \in DOMAIN sent :
          /\ pending' = pending \ {id}
          /\ Become(r, [kind |-> "quoteResult", at |-> "publish", id |-> id])
    /\ UNCHANGED <<sent, roomVars, faults>>

\* The market and the user are the ones CRE gives back.
PricingMessage(id) ==
    LET quote == [channel |-> "pricing", id |-> id, market |-> sent[id].market]
    IN  IF sent[id].user = NoUser THEN quote ELSE With(quote, [user |-> sent[id].user])

PublishQuote(r) ==
    /\ At(r, "quoteResult", "publish")
    /\ Publish(PricingMessage(req[r].id))
    /\ Answer(r)
    /\ UNCHANGED <<pending, sent, socketSame, seen, feed, traffic, faults>>

PricingArrives(r) == RequestPricing(r) \/ PricingCallback(r)
PricingStep(r) == FetchQuote(r) \/ TrackQuote(r) \/ PublishQuote(r)

\* A database, network or Redis error.
PricingFails(r) ==
    /\ req[r].kind \in {"quote", "quoteResult"}
    /\ Rejects(r)
    /\ UNCHANGED <<pricingVars, roomVars>>

PricingStops == pending' = {} /\ UNCHANGED sent

----------------------------------------------------------------------------
PricingTypeOK ==
    /\ pending \subseteq DOMAIN sent /\ DOMAIN sent \subseteq Quotes

\* pricing-status does not say PENDING for ever: also an entry made after its answer
\* had come leaves the table.  (cre-lmsr-pricing.service.ts:94, 123-127.)
PendingEnds == \A id \in Quotes : id \in pending ~> id \notin pending

\* A connection whose client is gone leaves the rooms.  (websocket.service.ts:352-380, 452.)
LostSocketsLeave == \A s \in Sockets : conn[s] = "lost" ~> socketToRooms[s] = {}

\* Those who are to see an answer that is published: in the market's room, or in the
\* room of the user who asked.
Awaiting(id) ==
    {s \in Sockets :
        /\ conn[s] = "open"
        /\ \E t \in Topics, i \in DOMAIN bus :
              /\ bus[i].channel = "pricing" /\ bus[i].id = id
              /\ t \in RoomsOf(bus[i]) /\ s \in rooms[t]}

\* Somebody has seen an answer; a socket has left, or left a room.
Shown(id) == \E p \in seen : p[2].channel = "pricing" /\ p[2].id = id
Gone(s) == conn[s] \in {"lost", "closing", "closed"} \/ (conn[s] = "open" /\ socketToRooms[s] = {})

\* An answer that somebody is waiting for is seen by somebody, or they leave.
\* (cre-lmsr-pricing.service.ts:139-160, websocket.service.ts:296-317.)
QuotesArrive ==
    \A id \in Quotes :
        (Awaiting(id) # {} /\ ~Shown(id)) ~> (Shown(id) \/ \E s \in Sockets : Gone(s))

NothingLingers == PendingEnds /\ LostSocketsLeave /\ QuotesArrive
=============================================================================
