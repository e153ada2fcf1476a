---------------------------- MODULE SerialQueue ----------------------------
(***************************************************************************)
(* What submitOrder promises its callers, whatever goes on inside: orders  *)
(* join a line, are served one at a time in the order they joined, and     *)
(* every caller is answered once.  This is the contract stated at the head *)
(* of src/src/engine/order-queue.ts, which OrderQueue is shown to keep.    *)
(***************************************************************************)
EXTENDS Naturals, Sequences

CONSTANT Orders

VARIABLES
    joined,     \* the orders in the order they were submitted
    served,     \* how many of them have been taken up
    busy,       \* the last one taken up has not been answered yet
    answer      \* what each caller has been told

vars == <<joined, served, busy, answer>>

Answer == {"none", "waiting", "resolved", "rejected"}

Init ==
    /\ joined = << >>
    /\ served = 0
    /\ busy = FALSE
    /\ answer = [o \in Orders |-> "none"]

Join(o) ==
    /\ answer[o] = "none"
    /\ joined' = Append(joined, o)
    /\ answer' = [answer EXCEPT ![o] = "waiting"]
    /\ UNCHANGED <<served, busy>>

Serve ==
    /\ ~busy
    /\ served < Len(joined)
    /\ served' = served + 1
    /\ busy' = TRUE
    /\ UNCHANGED <<joined, answer>>

Reply ==
    /\ busy
    /\ \E a \in {"resolved", "rejected"} :
           answer' = [answer EXCEPT ![joined[served]] = a]
    /\ busy' = FALSE
    /\ UNCHANGED <<joined, served>>

Next == (\E o \in Orders : Join(o)) \/ Serve \/ Reply

Spec == Init /\ [][Next]_vars /\ WF_vars(Serve \/ Reply)
============================================================================
