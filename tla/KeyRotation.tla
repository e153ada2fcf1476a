---------------------------- MODULE KeyRotation ----------------------------
(***************************************************************************)
(* lib/llm-rotation.ts: the round robin over the keys of one provider (or  *)
(* over its models; each category has an index of its own), as its callers *)
(* use it: agent-market-creation.service.ts, agent-trading-analysis        *)
(* .service.ts and settlement-deliberation.service.ts.                     *)
(***************************************************************************)
EXTENDS Naturals

CONSTANTS
    Keys,       \* how many keys are configured
    Records,    \* how often one 429 calls recordRateLimit: twice where callGemini and
                \* its catch in generateAgentMarkets both do, else once
    Callers,    \* requests to the provider that may overlap
    None

\* What the theorems take the constants to be; with no key there is nothing to rotate.
Constants == Keys \in Nat \ {0} /\ Records \in Nat /\ None \notin Nat

VARIABLES
    index,      \* indices[category]
    using,      \* the key each caller's request was sent with
    limited     \* history: the key of the request that ended last, if it got a 429

vars == <<index, using, limited>>

Key == 0..(Keys - 1)

\* getAndAdvance
NextKey == index % Keys

Request(c) ==
    /\ using[c] = None
    /\ using' = [using EXCEPT ![c] = NextKey]
    /\ index' = index + 1
    /\ UNCHANGED limited

\* Any answer but 429, or none.
Answered(c) ==
    /\ using[c] # None
    /\ using' = [using EXCEPT ![c] = None]
    /\ limited' = None
    /\ UNCHANGED index

\* recordRateLimit
RateLimited(c) ==
    /\ using[c] # None
    /\ using' = [using EXCEPT ![c] = None]
    /\ limited' = using[c]
    /\ index' = index + Records

Init == index = 0 /\ using = [c \in Callers |-> None] /\ limited = None
Next == \E c \in Callers : Request(c) \/ Answered(c) \/ RateLimited(c)
Spec == Init /\ [][Next]_vars

----------------------------------------------------------------------------
TypeOK ==
    /\ index \in Nat
    /\ using \in [Callers -> Key \union {None}]
    /\ limited \in Key \union {None}

\* A request sent after a 429 is sent with the key that got it ...
SameKeyAgain == limited # None => \A c \in Callers : using[c] \in {None, limited}

\* ... or, as the comment at recordRateLimit has it, with another one.
AnotherKeyNext == limited # None => \A c \in Callers : using[c] # limited
=============================================================================
