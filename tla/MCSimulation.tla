---------------------------- MODULE MCSimulation ----------------------------
(* Small instance of Simulation for TLC.                                     *)
EXTENDS Simulation

\* The mixes of requests: enqueueing and the crons, runs of simulations, funding.
Mixes == {[enqueue |-> 1, unenqueue |-> 1], [enqueue |-> 2], [triggerAll |-> 1, fault |-> 1],
          [start |-> 1, trigger |-> 1, stop |-> 1],
          [start |-> 1, stop |-> 2], [start |-> 1, stop |-> 1, fault |-> 1],
          [start |-> 1, extend |-> 2], [start |-> 1, extend |-> 1, fault |-> 1],
          [start |-> 1, enqueue |-> 1, delete |-> 2], [fund |-> 3, balance |-> 1], [fund |-> 3, fault |-> 1]}

World(active, wallet, open, money, times, busy) ==
    [active |-> active, wallet |-> wallet, open |-> open,
     balance |-> [c \in Chains |-> money], ticks |-> times, loops |-> busy]

\* An agent that trades; for extensions and deletions one that is paused, so that
\* they meet each other and not its orders; for a short mix also one without a wallet, and
\* for a long one a single loop.
Given(mix) ==
    LET asks(kind) == kind \in DOMAIN mix
    IN  CASE asks("extend") \/ asks("delete") -> {World(FALSE, TRUE, {}, NoRow, 0, Loops)}
          [] asks("trigger") -> {World(TRUE, TRUE, Markets, 1, 0, {1})}
          [] asks("start") -> {World(TRUE, TRUE, Markets, 1, 0, Loops)}
          [] asks("triggerAll") -> {World(TRUE, TRUE, {CHOOSE m \in Markets : TRUE}, 1, 1, Loops)}
          [] asks("unenqueue") -> {World(TRUE, TRUE, Markets, 1, 2, Loops),
                                   World(TRUE, FALSE, Markets, NoRow, 2, Loops),
                                   World(TRUE, TRUE, {}, NoRow, 2, Loops)}
          [] OTHER -> {World(TRUE, TRUE, Markets, 1, 1, Loops)}

\* One market enqueued and left alone: jobs one after the other in one loop.
OneMarket == {[enqueue |-> 1]}
Patient(mix) == {World(TRUE, TRUE, Markets, 1, 3, {1})}
=============================================================================
