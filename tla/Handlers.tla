------------------------------ MODULE Handlers ------------------------------
(***************************************************************************)
(* HTTP handlers at work in one Node process: src/src/routes.              *)
(*                                                                         *)
(* Fastify runs each request's async handler; between two awaits nothing   *)
(* else runs, at an await anything may.  So a request is a process whose   *)
(* steps are the stretches of code between awaits, `at' names the await it *)
(* is at, and its other fields are the local variables it will use after.  *)
(* The modules of the routes extend this one.                              *)
(***************************************************************************)
EXTENDS Naturals

CONSTANTS
    MaxRequests,    \* the most requests at work at once
    Traffics        \* the mixes of requests considered: how many of each kind may
                    \* come, and how many faults (database, Redis or network
                    \* errors, crashes).  A behaviour has the requests of one mix,
                    \* so that mixes which share no state are not multiplied

ASSUME RequestsAssumption == MaxRequests \in Nat \ {0}
ASSUME TrafficAssumption == \A mix \in Traffics : \A kind \in DOMAIN mix : mix[kind] \in Nat

VARIABLES
    req,            \* the requests at work: where each is and what it holds
    traffic,        \* the requests and faults that may still come
    faults          \* the faults so far

handlerVars == <<req, traffic, faults>>

Requests == 1..MaxRequests

Free == [kind |-> "none", at |-> "none"]

HandlersInit ==
    /\ req = [r \in Requests |-> Free]
    /\ traffic \in Traffics
    /\ faults = 0

Busy(r) == req[r] # Free
At(r, kind, at) == req[r].kind = kind /\ req[r].at = at
InFlight(kind) == {r \in Requests : req[r].kind = kind}

\* One more of a kind comes.
Comes(kind) ==
    /\ kind \in DOMAIN traffic /\ traffic[kind] > 0
    /\ traffic' = [traffic EXCEPT ![kind] = @ - 1]

\* A request of this kind comes in.
Arrive(r, kind) == ~Busy(r) /\ (\A q \in 1..(r - 1) : Busy(q)) /\ Comes(kind)

\* The handler stops at an await with these locals, perhaps beside those it had (With),
\* goes on to another one, or sends its answer.
With(x, locals) ==
    [field \in DOMAIN x \union DOMAIN locals |->
        IF field \in DOMAIN locals THEN locals[field] ELSE x[field]]
Become(r, locals) == req' = [req EXCEPT ![r] = locals]
Goto(r, at) == req' = [req EXCEPT ![r].at = at]
Answer(r) == req' = [req EXCEPT ![r] = Free]

\* One more error or crash.
Fault == Comes("fault") /\ faults' = faults + 1

\* What the handler awaits rejects: Fastify answers 500, nothing is undone.
Rejects(r) == Busy(r) /\ Fault /\ Answer(r)
=============================================================================
